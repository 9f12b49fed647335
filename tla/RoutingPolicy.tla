--------------------------- MODULE RoutingPolicy ----------------------------
(***************************************************************************)
(* src/src/domain/routing/policy.ts and resumable.ts: what a stored routing *)
(* policy does with the result of one dial.                                *)
(*                                                                         *)
(* A set of policies is a function from policy ids to records              *)
(*   [steps    : a sequence of [id, endpoint, nextOn],                     *)
(*    fallback : a policy id or NoPolicy]                                  *)
(* where nextOn is a function from some results to transitions.            *)
(***************************************************************************)
EXTENDS Naturals, Sequences, VoiceCall

CONSTANT NoPolicy

Stop           == [kind |-> "stop", to |-> NoPolicy]
GotoStep(s)    == [kind |-> "goto_step", to |-> s]
ToPolicy(p)    == [kind |-> "fallback_policy", to |-> p]

\* policy.steps.findIndex: the first step of that id, 0 when there is none.
StepIndex(policy, stepId) ==
    IF \E i \in DOMAIN policy.steps : policy.steps[i].id = stepId
    THEN CHOOSE i \in DOMAIN policy.steps :
            /\ policy.steps[i].id = stepId
            /\ \A j \in 1..(i - 1) : policy.steps[j].id # stepId
    ELSE 0

NextTransition(policy, i, result) ==
    CASE i \notin DOMAIN policy.steps                -> Stop
      [] i \in DOMAIN policy.steps /\ result \in DOMAIN policy.steps[i].nextOn
                                                     -> policy.steps[i].nextOn[result]
      [] OTHER ->
           IF result \in Success THEN Stop
           ELSE IF i + 1 \in DOMAIN policy.steps THEN GotoStep(policy.steps[i + 1].id)
           ELSE IF policy.fallback # NoPolicy THEN ToPolicy(policy.fallback)
           ELSE Stop

\* A decision to dial names the policy and step to dial next; any other
\* decision ends the routing.
Settled == [kind |-> "settled", policy |-> NoPolicy, step |-> NoPolicy]

DialAt(policies, p, i) ==
    IF i \in DOMAIN policies[p].steps
    THEN [kind |-> "dial", policy |-> p, step |-> policies[p].steps[i].id]
    ELSE Settled

StartRouting(policies, entry) ==
    IF entry \in DOMAIN policies THEN DialAt(policies, entry, 1) ELSE Settled

\* Mutations of LastHop: one hop more; no limit.
LastHopLate(hops, maxHops) == hops >= maxHops
LastHopNever(hops, maxHops) == FALSE

\* The result after hops others is the last one the hop limit allows.
LastHop(hops, maxHops) == hops + 1 >= maxHops

\* advanceRouting for an event that is not a duplicate: pos names the policy
\* and the step just dialed, and hops counts the results before this one.
AdvanceRouting(policies, pos, hops, result, maxHops) ==
    IF \/ result \in Success
       \/ pos.policy \notin DOMAIN policies
       \/ LastHop(hops, maxHops)
    THEN Settled
    ELSE LET policy == policies[pos.policy]
             i      == StepIndex(policy, pos.step)
             next   == NextTransition(policy, i, result)
         IN CASE i = 0 \/ next.kind = "stop" -> Settled
              [] i # 0 /\ next.kind = "goto_step" ->
                    DialAt(policies, pos.policy, StepIndex(policy, next.to))
              [] OTHER -> StartRouting(policies, next.to)
=============================================================================
