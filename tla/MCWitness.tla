----------------------------- MODULE MCWitness -----------------------------
(***************************************************************************)
(* Witness on small instances.  A head has a size and a hash, which is the *)
(* sequence of leaves it covers; heads of equal size and other hash fork.  *)
(***************************************************************************)
EXTENDS Witness, Sequences, SequencesExt, TLC

CONSTANTS c1, c2, s1, s2   \* model values for handler goroutines and signers

TreeHead(n, leaves) == [size |-> n, hash |-> leaves]

EmptyTree == TreeHead(0, <<>>)
WrongEmpty == TreeHead(0, <<9>>)
One == TreeHead(1, <<1>>)
Fork == TreeHead(1, <<2>>)
Two == TreeHead(2, <<1, 1>>)

MCHeads == {EmptyTree, WrongEmpty, One, Fork, Two}
MCSizeOf(h) == h.size
MCFollows(a, b) == a = b \/ (b.size < a.size /\ IsPrefix(b.hash, a.hash))

Submit(o, old, head, ext, proof) ==
    [origin |-> o, old |-> old, head |-> head, ext |-> ext, proof |-> proof]

\* Every branch of addToPool for one log, and a first sighting of another.
AllKinds ==
    {Submit("a", 0, EmptyTree, "", "none"), Submit("a", 0, WrongEmpty, "", "none"),
     Submit("a", 0, One, "", "none"), Submit("a", 0, One, "x", "none"),
     Submit("a", 0, Fork, "", "none"), Submit("a", 1, One, "", "none"),
     Submit("a", 1, Two, "", "log"), Submit("a", 1, Two, "", "other"),
     Submit("a", 2, One, "", "none"),
     Submit("b", 0, One, "", "none")}

WitnessSymmetry == Permutations(Clients) \cup Permutations(Signers)
=============================================================================
