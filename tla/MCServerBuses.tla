---------------------------- MODULE MCServerBuses ----------------------------
EXTENDS ServerBuses, TLC

CONSTANTS p1, p2, p3

CallerSymmetry == Permutations(Callers)
=============================================================================
