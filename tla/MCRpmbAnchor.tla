---------------------------- MODULE MCRpmbAnchor ----------------------------
(***************************************************************************)
(* RpmbAnchor on small instances.                                          *)
(***************************************************************************)
EXTENDS RpmbAnchor, TLC

CONSTANTS h1, h2   \* model values for digests

HashSymmetry == Permutations(Hashes)
=============================================================================
