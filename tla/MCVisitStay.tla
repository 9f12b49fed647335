---------------------------- MODULE MCVisitStay ----------------------------
EXTENDS VisitStay, TLC

Symmetry == Permutations(Requests) \cup Permutations(StayIds) \cup Permutations(Codes)
=============================================================================
