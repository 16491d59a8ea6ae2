------------------------- MODULE MCFileTransaction -------------------------
EXTENDS FileTransaction, TLC

Symmetry == Permutations(Procs) \cup Permutations(Sessions)

=============================================================================
