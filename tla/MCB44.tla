------------------------------- MODULE MCB44 -------------------------------
(***************************************************************************)
(* Instances of B44 for TLC.                                               *)
(***************************************************************************)
EXTENDS B44, TLC

MCSymmetry == Permutations(Skbs) \cup Permutations(Bufs)
=============================================================================
