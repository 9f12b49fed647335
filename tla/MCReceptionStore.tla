-------------------------- MODULE MCReceptionStore --------------------------
EXTENDS ReceptionStore, TLC

Symmetry == Permutations(Requests) \cup Permutations(Calls)
=============================================================================
