------------------------------ MODULE RoutingRun ----------------------------
(***************************************************************************)
(* One routing carried out twice over the same results: by the synchronous *)
(* loop of src/src/domain/routing/orchestrator.ts (mock provider) and by    *)
(* the resumable steps of resumable.ts (webhooks of a real provider).      *)
(* Every endpoint is usable and every result has an event id of its own.   *)
(***************************************************************************)
EXTENDS RoutingPolicy, SequencesExt, FiniteSets

CONSTANTS
    PolicySets,   \* the stored policy sets to route with
    Entry,        \* the policy a routing starts from
    Results,      \* the results a dial may have
    MaxHops,      \* maxHops, given to both
    Margin,       \* DIAL_BUDGET_MARGIN_SECONDS
    ClientWait    \* CALL_STATUS_POLL_MAX_MS

ASSUME RunAssumption == /\ MaxHops \in Nat \ {0}
                        /\ Results \subseteq RouteResults
                        /\ Margin \in Nat /\ ClientWait \in Nat

\* RoutingPolicy and RouteTransition of policy.ts: steps is an array, and a
\* transition is of one of three kinds.
ASSUME PoliciesAssumption ==
    \A ps \in PolicySets : \A p \in DOMAIN ps :
        /\ Len(ps[p].steps) \in Nat
        /\ DOMAIN ps[p].steps = 1 .. Len(ps[p].steps)
        /\ \A i \in DOMAIN ps[p].steps : \A r \in DOMAIN ps[p].steps[i].nextOn :
              ps[p].steps[i].nextOn[r].kind \in {"stop", "goto_step", "fallback_policy"}

VARIABLES
    policies,   \* the policies in force
    loop,       \* the locals of runRouting
    resumed     \* the stored position of the resumable routing

vars == <<policies, loop, resumed>>

\* findAllFallbackCycleIds: policies nobody falls back to are peeled off until
\* only those on a cycle are left.
FallbackCycleIds(ps) ==
    LET left[k \in 0..Cardinality(DOMAIN ps)] ==
            IF k = 0 THEN DOMAIN ps
            ELSE {p \in left[k - 1] : \E q \in left[k - 1] : ps[q].fallback = p}
    IN left[Cardinality(DOMAIN ps)]

WorstCase(policy) == FoldLeft(LAMBDA t, s : t + s.timeout + Margin, 0, policy.steps)

\* validateRoutingPolicySet and validateCandidate accept the set: every policy
\* was checked when it was saved.
Storable(ps) ==
    /\ \A p \in DOMAIN ps :
          /\ ps[p].steps # <<>>
          /\ \A i, j \in DOMAIN ps[p].steps :
                ps[p].steps[i].id = ps[p].steps[j].id => i = j
          /\ \A i \in DOMAIN ps[p].steps : \A r \in DOMAIN ps[p].steps[i].nextOn :
                LET t == ps[p].steps[i].nextOn[r]
                IN /\ t.kind = "goto_step" => StepIndex(ps[p], t.to) # 0
                   /\ t.kind = "fallback_policy" => t.to \in DOMAIN ps
          /\ ps[p].fallback \in DOMAIN ps \cup {NoPolicy}
          /\ WorstCase(ps[p]) <= ClientWait
    /\ FallbackCycleIds(ps) = {}

Dial(at) == <<at.policy, at.step>>

\* removePolicy does not ask who refers to the policy it deletes, so of a set
\* that was storable any part may be left.
InForce == UNION {{Restrict(ps, kept) : kept \in {k \in SUBSET DOMAIN ps : Entry \in k}} :
                  ps \in {q \in PolicySets : Storable(q)}}

\* runRouting enters the loop; startRouting dials the first step.
Init == /\ policies \in InForce
        /\ loop = [policy |-> Entry, index |-> 1, hops |-> 0, trace |-> <<>>,
                   status |-> "running"]
        /\ LET start == StartRouting(policies, Entry)
           IN resumed = [at |-> start, hops |-> 0, dialed |-> <<Dial(start)>>]

\* One turn of the loop, up to and including the checks at the head of the
\* next turn.
LoopTurn(result) ==
    LET policy == policies[loop.policy]
        step   == policy.steps[loop.index]
        next   == NextTransition(policy, loop.index, result)
        p      == IF next.kind = "fallback_policy" THEN next.to ELSE loop.policy
        i      == IF next.kind = "goto_step" THEN StepIndex(policy, next.to) ELSE 1
        done   == [loop EXCEPT !.hops = @ + 1,
                               !.trace = Append(@, <<loop.policy, step.id>>)]
        status == CASE result \in Success                       -> "connected"
                    [] result \notin Success /\ next.kind = "stop" -> "unreached"
                    [] result \notin Success /\ next.kind # "stop" ->
                         IF \/ p \notin DOMAIN policies
                            \/ i \notin DOMAIN policies[p].steps
                            \/ done.hops >= MaxHops
                         THEN "exhausted" ELSE "running"
    IN loop' = IF status = "running"
               THEN [done EXCEPT !.policy = p, !.index = i]
               ELSE [done EXCEPT !.status = status]

\* advanceRouting, and the dial of the step it decides on.
Resume(result) ==
    LET at == AdvanceRouting(policies, resumed.at, resumed.hops, result, MaxHops)
    IN resumed' = IF at.kind = "dial"
                  THEN [at |-> at, hops |-> resumed.hops + 1,
                        dialed |-> Append(resumed.dialed, Dial(at))]
                  ELSE [resumed EXCEPT !.at = at, !.hops = @ + 1]

Result(result) == /\ loop.status = "running"
                  /\ resumed.at.kind = "dial"
                  /\ LoopTurn(result)
                  /\ Resume(result)
                  /\ UNCHANGED policies

Next == \E result \in Results : Result(result)

Spec == Init /\ [][Next]_vars

\* Every dial has a result in the end.
FairSpec == Spec /\ WF_vars(Next)

-----------------------------------------------------------------------------
Ended == resumed.at.kind = "settled"

\* The two executions dial the same steps in the same order and stop together.
SameRoute ==
    /\ Ended <=> loop.status # "running"
    /\ resumed.dialed = IF Ended THEN loop.trace
                        ELSE Append(loop.trace, Dial(resumed.at))

\* A routing comes to its end, whatever the policies send it round.
Terminates == <>Ended

\* The time all the dials of a routing may take, each with its margin.
TimeOf(dial) ==
    LET policy == policies[dial[1]]
    IN policy.steps[StepIndex(policy, dial[2])].timeout + Margin

\* A stored routing, dialed to its end, fits the time the kiosk waits.
FitsClientWait ==
    FoldLeft(LAMBDA t, d : t + TimeOf(d), 0, resumed.dialed) <= ClientWait
=============================================================================
