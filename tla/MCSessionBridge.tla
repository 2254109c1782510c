-------------------------- MODULE MCSessionBridge --------------------------
EXTENDS SessionBridge, TLC

CONSTANTS p1, p2

Terminals == {p1, p2}
Symmetry == Permutations(Terminals)
=============================================================================
