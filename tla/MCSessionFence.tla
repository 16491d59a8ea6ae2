--------------------------- MODULE MCSessionFence ---------------------------
EXTENDS SessionFence, TLC

Symmetry == Permutations(Hosts) \cup Permutations(Producers)

=============================================================================
