------------------------------ MODULE MCFeeder ------------------------------
(***************************************************************************)
(* Feeder with the heads of MCWitness: two hosts feed a log that grows     *)
(* from one entry to two.                                                  *)
(***************************************************************************)
EXTENDS Feeder, SequencesExt, TLC

CONSTANTS c1, c2, f1, f2, s1, s2   \* model values for handlers, hosts and signers

TreeHead(n, leaves) == [size |-> n, hash |-> leaves]

EmptyTree == TreeHead(0, <<>>)

MCChain == <<TreeHead(1, <<1>>), TreeHead(2, <<1, 1>>)>>
MCHeads == {EmptyTree} \cup ToSet(MCChain)
MCSizeOf(h) == h.size
MCFollows(a, b) == a = b \/ (b.size < a.size /\ IsPrefix(b.hash, a.hash))

\* What the command can send.
MCRequests ==
    [origin: {LogOrigin}, old: 0..2, head: ToSet(MCChain), ext: {""}, proof: {"none", "log"}]

\* Only for safety: the liveness run has one host.
FeedSymmetry == Permutations(Clients) \cup Permutations(Feeders) \cup Permutations(Signers)
=============================================================================
