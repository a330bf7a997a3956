------------------------- MODULE MCProvisionClient -------------------------
(***************************************************************************)
(* ProvisionClient on a small instance.                                    *)
(***************************************************************************)
EXTENDS ProvisionClient, TLC

CONSTANTS r1, r2   \* model values for runs of the command

RunSymmetry == Permutations(Runs)
=============================================================================
