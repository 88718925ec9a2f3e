------------------------------ MODULE MCB44Rx ------------------------------
(***************************************************************************)
(* Instances of B44Rx for TLC.                                             *)
(***************************************************************************)
EXTENDS B44Rx, TLC

MCSymmetry == Permutations(Bufs)
=============================================================================
