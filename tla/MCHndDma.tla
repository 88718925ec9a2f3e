------------------------------ MODULE MCHndDma ------------------------------
EXTENDS HndDma, TLC

MCSymmetry == Permutations(Pkts)
=============================================================================
