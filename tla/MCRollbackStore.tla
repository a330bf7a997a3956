-------------------------- MODULE MCRollbackStore --------------------------
(***************************************************************************)
(* RollbackStore on small instances.  A head is the sequence of leaves it  *)
(* covers, and follows every prefix of it: x1 and x2 fork after x.         *)
(***************************************************************************)
EXTENDS RollbackStore, Sequences, SequencesExt, TLC

CONSTANTS n1, n2, n3   \* model values for nonces

\* a head, an extension of it, and two heads that fork from both
MCHeads == {<<1>>, <<1, 1>>, <<1, 2>>}
MCFollows(a, b) == IsPrefix(b, a)

MCNonces3 == {n1, n2, n3}
NonceSymmetry == Permutations(Nonces)

NoPlanted == {}

\* Blobs some other firmware sealed under the same key: one with a generation
\* nobody commits, one with a note that does not restore, one far ahead.
SomePlanted ==
    {[gen |-> g, states |-> s, nonce |-> n] :
        g \in {0, 1, 3},
        s \in {[o \in Origins |-> BadNote], [o \in Origins |-> <<1, 1>>]},
        n \in {n1}}
=============================================================================
