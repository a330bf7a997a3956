------------------------------ MODULE MCDevice ------------------------------
(***************************************************************************)
(* Device on a small instance: two logs, one of which forks and grows.     *)
(***************************************************************************)
EXTENDS Device, Sequences, SequencesExt, TLC

CONSTANTS c1, c2, n1, n2   \* model values for handlers and nonces

\* A head is the sequence of leaves it covers, and its size their number.
MCHeads == {<<>>, <<1>>, <<2>>, <<1, 1>>}
EmptyTree == <<>>
MCSizeOf(h) == Len(h)
MCFollows(a, b) == a = b \/ (Len(b) < Len(a) /\ IsPrefix(b, a))

Submit(o, old, head, proof) ==
    [origin |-> o, old |-> old, head |-> head, ext |-> "", proof |-> proof]

MCRequests ==
    {Submit("a", 0, <<1>>, "none"), Submit("a", 0, <<2>>, "none"),
     Submit("a", 1, <<1, 1>>, "log"), Submit("b", 0, <<1>>, "none")}

NoPlanted == {}

DeviceSymmetry == Permutations(Clients) \cup Permutations(Nonces)
=============================================================================
