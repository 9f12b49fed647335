---------------------------- MODULE MCKioskAccess ----------------------------
EXTENDS KioskAccess, TLC

Symmetry == Permutations(Requests)
BudgetOne == [k \in Keys |-> IF k = Global THEN 2 ELSE 1]
=============================================================================
