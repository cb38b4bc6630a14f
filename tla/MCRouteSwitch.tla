---------------------------- MODULE MCRouteSwitch ----------------------------
EXTENDS RouteSwitch, TLC
Symmetry == Permutations(Node)
==============================================================================
