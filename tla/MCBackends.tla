------------------------------ MODULE MCBackends -------------------------------
EXTENDS Backends, TLC
CONSTANTS c1, c2, c3, k1, a1
AllBackends == {"sqlite", "postgres", "dynamodb"}
MCCallers == {c1, c2, c3}
CallerSymmetry == Permutations(MCCallers)
===============================================================================
