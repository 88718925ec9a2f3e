------------------------------ MODULE MCB44Tx ------------------------------
(***************************************************************************)
(* Instances of B44Tx for TLC.                                             *)
(***************************************************************************)
EXTENDS B44Tx, TLC

MCSymmetry == Permutations(Skbs)
=============================================================================
