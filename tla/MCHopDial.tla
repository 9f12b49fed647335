------------------------------ MODULE MCHopDial -----------------------------
(* Instances of HopDial for TLC: a policy of two steps whose fallback is a     *)
(* policy of one step that repeats, so that only the hop limit ends a routing. *)
EXTENDS HopDial, TLC

CONSTANTS c1, P, Q

MCFirstCalls == {c1}

StepNamed(s) == [id |-> s, endpoint |-> s, nextOn |-> <<>>]
MCPolicies == (P :> [steps |-> <<StepNamed("s1"), StepNamed("s2")>>, fallback |-> Q])
           @@ (Q :> [steps |-> <<[StepNamed("s3") EXCEPT !.nextOn = "no_answer" :> GotoStep("s3")]>>,
                  fallback |-> NoPolicy])

MCReceptionStates == {"calling", "cancelled"}

Symmetry == Permutations(Workers) \cup Permutations(Calls \ FirstCalls)
=============================================================================
