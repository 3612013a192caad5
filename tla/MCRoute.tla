------------------------------ MODULE MCRoute -------------------------------
EXTENDS RouteDriver, TLC
Symmetry == Permutations(Owners)
=============================================================================
