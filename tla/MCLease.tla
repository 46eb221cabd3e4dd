-------------------------------- MODULE MCLease --------------------------------
(***************************************************************************)
(* Lease with symmetric processes.                                         *)
(***************************************************************************)
EXTENDS Lease, TLC

ServiceSymmetry == Permutations(Services)
=============================================================================
