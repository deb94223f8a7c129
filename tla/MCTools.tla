------------------------------ MODULE MCTools ------------------------------
EXTENDS Tools, TLC

CallSymmetry == Permutations(Calls)
=============================================================================
