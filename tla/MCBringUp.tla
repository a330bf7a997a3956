----------------------------- MODULE MCBringUp -----------------------------
(***************************************************************************)
(* BringUp on a small instance.                                            *)
(***************************************************************************)
EXTENDS BringUp, TLC

CONSTANTS h1, h2   \* model values for digests

HashSymmetry == Permutations(Hashes)
=============================================================================
