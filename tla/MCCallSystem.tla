---------------------------- MODULE MCCallSystem ----------------------------
(* Instances of CallSystem for TLC: one policy of two steps.                   *)
EXTENDS CallSystem, TLC

CONSTANTS c1, P

MCFirstCalls == {c1}

StepNamed(s) == [id |-> s, endpoint |-> s, nextOn |-> <<>>]
MCPolicies == P :> [steps |-> <<StepNamed("s1"), StepNamed("s2")>>, fallback |-> NoPolicy]

Symmetry == Permutations(Workers) \cup Permutations(Calls \ FirstCalls)
=============================================================================
