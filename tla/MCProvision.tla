---------------------------- MODULE MCProvision ----------------------------
(***************************************************************************)
(* Provision on small instances: one log whose head grows, two sessions.   *)
(***************************************************************************)
EXTENDS Provision, Sequences, SequencesExt

CONSTANTS s1, s2   \* model values for sessions

EmptyTree == [size |-> 0, hash |-> <<>>]
One == [size |-> 1, hash |-> <<1>>]
Two == [size |-> 2, hash |-> <<1, 1>>]

MCHeads == {EmptyTree, One, Two}
MCSizeOf(h) == h.size
MCFollows(a, b) == a = b \/ (b.size < a.size /\ IsPrefix(b.hash, a.hash))

Growth ==
    {[origin |-> "a", old |-> 0, head |-> One, ext |-> "", proof |-> "none"],
     [origin |-> "a", old |-> 1, head |-> One, ext |-> "", proof |-> "none"]}
=============================================================================
