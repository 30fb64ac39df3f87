---------------------------- MODULE MCEdgeLink ----------------------------
EXTENDS EdgeLink, TLC
CONSTANT e1
AllOfOne == [s \in Sockets |-> e1]
Symm == Permutations(Sockets) \cup Permutations(Notes)
=============================================================================
