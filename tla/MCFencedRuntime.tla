-------------------------- MODULE MCFencedRuntime --------------------------
EXTENDS FencedRuntime, TLC

Symmetry == Permutations(Hosts) \cup Permutations(Producers)

=============================================================================
