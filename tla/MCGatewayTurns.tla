--------------------------- MODULE MCGatewayTurns ---------------------------
EXTENDS GatewayTurns, TLC

CONSTANTS s1, s2, p1, r1, r2, i1, q1

Symmetry == Permutations(Senders)

=============================================================================
