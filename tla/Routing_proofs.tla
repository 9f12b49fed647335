--------------------------- MODULE Routing_proofs ---------------------------
(***************************************************************************)
(* The two sides of a routing: the loop and the resumable steps dial the   *)
(* same route, whatever the policies and the results; and the state of one *)
(* dial's provider call is decided once, for any number of events, in any  *)
(* order, repeated or missing.                                             *)
(***************************************************************************)
EXTENDS RoutingRun, VoiceCallHistory, TLAPS

\* What validation left in force: every policy is an array of steps with
\* different ids, at least one; every transition is of a known kind and a
\* goto_step leads to a step of its own policy.  What fallbacks name may have
\* been removed.
PolicyOK(policy) ==
    /\ Len(policy.steps) \in Nat \ {0}
    /\ DOMAIN policy.steps = 1 .. Len(policy.steps)
    /\ \A i, j \in DOMAIN policy.steps :
          policy.steps[i].id = policy.steps[j].id => i = j
    /\ \A i \in DOMAIN policy.steps : \A r \in DOMAIN policy.steps[i].nextOn :
          LET t == policy.steps[i].nextOn[r]
          IN /\ t.kind \in {"stop", "goto_step", "fallback_policy"}
             /\ t.kind = "goto_step" => StepIndex(policy, t.to) # 0

\* While the loop goes round, the resumable routing waits for the result of
\* the very step the loop is at; once one has ended, so has the other.
SamePlace ==
    IF loop.status = "running"
    THEN /\ loop.policy \in DOMAIN policies
         /\ loop.index \in DOMAIN policies[loop.policy].steps
         /\ resumed.at = DialAt(policies, loop.policy, loop.index)
         /\ resumed.dialed = Append(loop.trace, Dial(resumed.at))
    ELSE /\ resumed.at = Settled
         /\ resumed.dialed = loop.trace

RouteInv ==
    /\ \A p \in DOMAIN policies : PolicyOK(policies[p])
    /\ loop = [policy |-> loop.policy, index |-> loop.index, hops |-> loop.hops,
               trace |-> loop.trace, status |-> loop.status]
    /\ resumed = [at |-> resumed.at, hops |-> resumed.hops, dialed |-> resumed.dialed]
    /\ resumed.hops = loop.hops /\ loop.hops \in 0 .. MaxHops
    /\ loop.status = "running" => loop.hops < MaxHops
    /\ SamePlace

-----------------------------------------------------------------------------
\* The policies in force: checked when they were saved, some of them deleted.
LEMMA InForceOK ==
    ASSUME NEW ps \in InForce
    PROVE  Entry \in DOMAIN ps /\ \A p \in DOMAIN ps : PolicyOK(ps[p])
<1>0. PICK q \in PolicySets : Storable(q) /\ \E k \in SUBSET DOMAIN q :
                                                 Entry \in k /\ ps = Restrict(q, k)
  BY DEF InForce
<1>1. PICK k \in SUBSET DOMAIN q : Storable(q) /\ Entry \in k /\ ps = Restrict(q, k)
  BY <1>0
<1>2. DOMAIN ps = k /\ \A p \in k : p \in DOMAIN q /\ ps[p] = q[p]
  BY <1>1 DEF Restrict
<1>3. ASSUME NEW p \in DOMAIN q PROVE PolicyOK(q[p])
  <2>1. /\ Len(q[p].steps) \in Nat
        /\ DOMAIN q[p].steps = 1 .. Len(q[p].steps)
        /\ \A i \in DOMAIN q[p].steps : \A r \in DOMAIN q[p].steps[i].nextOn :
              q[p].steps[i].nextOn[r].kind \in {"stop", "goto_step", "fallback_policy"}
    BY PoliciesAssumption
  <2>2. /\ q[p].steps # <<>>
        /\ \A i, j \in DOMAIN q[p].steps :
              q[p].steps[i].id = q[p].steps[j].id => i = j
        /\ \A i \in DOMAIN q[p].steps : \A r \in DOMAIN q[p].steps[i].nextOn :
              q[p].steps[i].nextOn[r].kind = "goto_step"
              => StepIndex(q[p], q[p].steps[i].nextOn[r].to) # 0
    BY <1>1 DEF Storable
  <2>3. Len(q[p].steps) # 0
    BY <2>1, <2>2
  <2> QED BY <2>1, <2>2, <2>3 DEF PolicyOK
<1> QED BY <1>1, <1>2, <1>3

\* findIndex of the id of a step finds that step, and whatever it finds is a
\* step.
LEMMA FoundAgain ==
    ASSUME NEW policy, PolicyOK(policy), NEW i \in DOMAIN policy.steps
    PROVE  StepIndex(policy, policy.steps[i].id) = i
<1> DEFINE First(k) == /\ policy.steps[k].id = policy.steps[i].id
                       /\ \A j \in 1 .. (k - 1) : policy.steps[j].id # policy.steps[i].id
<1>1. First(i)
  BY DEF PolicyOK
<1>2. \A k \in DOMAIN policy.steps : First(k) => k = i
  BY DEF PolicyOK
<1>3. (CHOOSE k \in DOMAIN policy.steps : First(k)) = i
  BY <1>1, <1>2
<1> QED BY <1>3 DEF StepIndex

LEMMA FoundInside ==
    ASSUME NEW policy, PolicyOK(policy), NEW id, StepIndex(policy, id) # 0
    PROVE  StepIndex(policy, id) \in DOMAIN policy.steps
<1> DEFINE Named(k) == policy.steps[k].id = id
           First(k) == Named(k) /\ \A j \in 1 .. (k - 1) : policy.steps[j].id # id
<1>1. PICK i \in DOMAIN policy.steps : Named(i)
  BY DEF StepIndex
<1>2. \E k \in DOMAIN policy.steps : First(k)
  BY <1>1, \A k, j \in DOMAIN policy.steps :
              policy.steps[k].id = policy.steps[j].id => k = j
     DEF PolicyOK
<1>3. (CHOOSE k \in DOMAIN policy.steps : First(k)) \in DOMAIN policy.steps
  BY <1>2
<1> QED BY <1>1, <1>3 DEF StepIndex

\* The transition after a step of a policy is of a known kind, and a goto_step
\* leads to a step.
LEMMA TransitionOK ==
    ASSUME NEW policy, PolicyOK(policy), NEW i \in DOMAIN policy.steps, NEW result
    PROVE  LET t == NextTransition(policy, i, result)
           IN /\ t.kind \in {"stop", "goto_step", "fallback_policy"}
              /\ t.kind = "goto_step" => StepIndex(policy, t.to) \in DOMAIN policy.steps
<1> DEFINE t == NextTransition(policy, i, result)
<1>1. CASE result \in DOMAIN policy.steps[i].nextOn
  <2>1. t = policy.steps[i].nextOn[result]
    BY <1>1 DEF NextTransition
  <2>2. /\ t.kind \in {"stop", "goto_step", "fallback_policy"}
        /\ t.kind = "goto_step" => StepIndex(policy, t.to) # 0
    BY <1>1, <2>1 DEF PolicyOK
  <2> QED BY <2>2, FoundInside
<1>2. CASE result \notin DOMAIN policy.steps[i].nextOn
  <2>1. \/ t = Stop
        \/ i + 1 \in DOMAIN policy.steps /\ t = GotoStep(policy.steps[i + 1].id)
        \/ t = ToPolicy(policy.fallback)
    BY <1>2 DEF NextTransition
  <2>2. i + 1 \in DOMAIN policy.steps => StepIndex(policy, policy.steps[i + 1].id) = i + 1
    BY FoundAgain
  <2> QED BY <2>1, <2>2 DEF Stop, GotoStep, ToPolicy
<1> QED BY <1>1, <1>2

-----------------------------------------------------------------------------
\* The entry's first step is where both begin.
LEMMA RouteBegins == Init => RouteInv
<1> SUFFICES ASSUME Init PROVE RouteInv
  OBVIOUS
<1>1. Entry \in DOMAIN policies /\ \A p \in DOMAIN policies : PolicyOK(policies[p])
  BY InForceOK DEF Init
<1>2. 1 \in DOMAIN policies[Entry].steps
  BY <1>1 DEF PolicyOK
<1>3. loop = [policy |-> Entry, index |-> 1, hops |-> 0, trace |-> <<>>,
              status |-> "running"]
  BY DEF Init
<1>4. /\ resumed.at = DialAt(policies, Entry, 1) /\ resumed.hops = 0
      /\ resumed.dialed = <<Dial(resumed.at)>>
      /\ resumed = [at |-> resumed.at, hops |-> 0, dialed |-> resumed.dialed]
  BY <1>1 DEF Init, StartRouting
<1>5. 0 \in 0 .. MaxHops /\ 0 < MaxHops
  BY RunAssumption
<1>6. Append(<<>>, Dial(resumed.at)) = <<Dial(resumed.at)>>
  BY DEF Dial
<1> QED BY <1>1, <1>2, <1>3, <1>4, <1>5, <1>6 DEF RouteInv, SamePlace

\* One result, taken by both: the loop's turn and the resumable step agree on
\* whether the routing goes on, and on the step it goes on with.
LEMMA RouteStep ==
    ASSUME RouteInv, NEW result \in Results, Result(result)
    PROVE  RouteInv' /\ loop.hops' = loop.hops + 1
<1> DEFINE policy == policies[loop.policy]
           step   == policy.steps[loop.index]
           next   == NextTransition(policy, loop.index, result)
           p      == IF next.kind = "fallback_policy" THEN next.to ELSE loop.policy
           i      == IF next.kind = "goto_step" THEN StepIndex(policy, next.to) ELSE 1
           goesOn == /\ result \notin Success /\ next.kind # "stop"
                     /\ p \in DOMAIN policies /\ i \in DOMAIN policies[p].steps
                     /\ ~ (loop.hops + 1 >= MaxHops)
           at     == AdvanceRouting(policies, resumed.at, resumed.hops, result, MaxHops)
<1>1. /\ loop.status = "running" /\ policies' = policies
      /\ LoopTurn(result) /\ Resume(result)
  BY DEF Result
<1>2. /\ \A q \in DOMAIN policies : PolicyOK(policies[q])
      /\ loop.policy \in DOMAIN policies /\ loop.index \in DOMAIN policy.steps
      /\ resumed.at = DialAt(policies, loop.policy, loop.index)
      /\ resumed.dialed = Append(loop.trace, Dial(resumed.at))
      /\ resumed.hops = loop.hops
  BY <1>1 DEF RouteInv, SamePlace
<1>3. /\ resumed.at = [kind |-> "dial", policy |-> loop.policy, step |-> step.id]
      /\ Dial(resumed.at) = <<loop.policy, step.id>>
  BY <1>2 DEF DialAt, Dial
<1>4. StepIndex(policy, step.id) = loop.index /\ loop.index # 0
  BY <1>2, FoundAgain DEF PolicyOK
<1>5. /\ next.kind \in {"stop", "goto_step", "fallback_policy"}
      /\ next.kind = "goto_step" => StepIndex(policy, next.to) \in DOMAIN policy.steps
  BY <1>2, TransitionOK
\* What the resumable step decides.
<1>6. at = IF goesOn THEN DialAt(policies, p, i) ELSE Settled
  <2>1. CASE result \in Success \/ loop.hops + 1 >= MaxHops
    BY <1>2, <2>1 DEF AdvanceRouting, LastHop
  <2>2. CASE result \notin Success /\ ~ (loop.hops + 1 >= MaxHops)
    <3>1. at = CASE next.kind = "stop" -> Settled
                 [] next.kind = "goto_step" ->
                      DialAt(policies, loop.policy, StepIndex(policy, next.to))
                 [] OTHER -> StartRouting(policies, next.to)
      BY <1>2, <1>3, <1>4, <1>5, <2>2 DEF AdvanceRouting, LastHop
    <3>2. CASE next.kind = "stop"
      BY <3>1, <3>2
    <3>3. CASE next.kind = "goto_step"
      BY <1>2, <1>5, <2>2, <3>1, <3>3
    <3>4. CASE next.kind = "fallback_policy"
      BY <2>2, <3>1, <3>4 DEF StartRouting, DialAt
    <3> QED BY <1>5, <3>2, <3>3, <3>4
  <2> QED BY <2>1, <2>2
\* What the turn of the loop leaves.
<1>7. /\ loop'.hops = loop.hops + 1
      /\ loop'.trace = Append(loop.trace, <<loop.policy, step.id>>)
      /\ IF goesOn THEN loop'.status = "running" /\ loop'.policy = p /\ loop'.index = i
                   ELSE loop'.status # "running"
      /\ loop' = [policy |-> loop'.policy, index |-> loop'.index, hops |-> loop'.hops,
                  trace |-> loop'.trace, status |-> loop'.status]
  <2> DEFINE done == [loop EXCEPT !.hops = @ + 1,
                                  !.trace = Append(@, <<loop.policy, step.id>>)]
             status == CASE result \in Success                         -> "connected"
                         [] result \notin Success /\ next.kind = "stop" -> "unreached"
                         [] result \notin Success /\ next.kind # "stop" ->
                              IF \/ p \notin DOMAIN policies
                                 \/ i \notin DOMAIN policies[p].steps
                                 \/ done.hops >= MaxHops
                              THEN "exhausted" ELSE "running"
  <2>1. loop' = IF status = "running" THEN [done EXCEPT !.policy = p, !.index = i]
                                      ELSE [done EXCEPT !.status = status]
    BY <1>1 DEF LoopTurn
  <2>2. done = [policy |-> loop.policy, index |-> loop.index, hops |-> loop.hops + 1,
                trace |-> Append(loop.trace, <<loop.policy, step.id>>),
                status |-> "running"]
    <3>1. loop = [policy |-> loop.policy, index |-> loop.index, hops |-> loop.hops,
                  trace |-> loop.trace, status |-> "running"]
      BY <1>1 DEF RouteInv
    <3> DEFINE hops  == loop.hops + 1
               trace == Append(loop.trace, <<loop.policy, step.id>>)
               counted == [loop EXCEPT !.hops = hops]
    <3> HIDE DEF hops, trace
    <3>2. counted = [policy |-> loop.policy, index |-> loop.index, hops |-> hops,
                     trace |-> loop.trace, status |-> "running"]
      BY ONLY <3>1
    <3> HIDE DEF counted
    <3>3. [counted EXCEPT !.trace = trace]
          = [policy |-> loop.policy, index |-> loop.index, hops |-> hops,
             trace |-> trace, status |-> "running"]
      BY ONLY <3>2
    <3> QED BY <3>3 DEF hops, trace, counted
  <2>3. status = "running" <=> goesOn
    BY <2>2
  <2> HIDE DEF done, status, goesOn, p, i, step, next
  <2> QED BY <2>1, <2>2, <2>3
<1>8. /\ resumed'.at = at /\ resumed'.hops = loop.hops + 1
      /\ resumed'.dialed = IF at.kind = "dial"
                           THEN Append(resumed.dialed, Dial(at)) ELSE resumed.dialed
      /\ resumed' = [at |-> resumed'.at, hops |-> resumed'.hops, dialed |-> resumed'.dialed]
  <2>1. resumed = [at |-> resumed.at, hops |-> loop.hops, dialed |-> resumed.dialed]
    BY <1>2 DEF RouteInv
  <2>2. resumed' = IF at.kind = "dial"
                   THEN [at |-> at, hops |-> resumed.hops + 1,
                         dialed |-> Append(resumed.dialed, Dial(at))]
                   ELSE [resumed EXCEPT !.at = at, !.hops = @ + 1]
    BY <1>1 DEF Resume
  <2> HIDE DEF at
  <2> QED BY <1>2, <2>1, <2>2
<1>9. SamePlace'
  <2>1. CASE goesOn
    <3>1. at = DialAt(policies, p, i) /\ at.kind = "dial"
      BY <1>6, <2>1 DEF DialAt
    <3>2. /\ resumed'.at = at /\ loop'.policy = p /\ loop'.index = i
          /\ loop'.status = "running"
      BY <1>7, <1>8, <2>1
    <3>3. resumed'.dialed = Append(loop'.trace, Dial(at))
      BY <1>2, <1>3, <1>7, <1>8, <3>1
    <3> HIDE DEF at, p, i
    <3> QED BY <1>1, <2>1, <3>1, <3>2, <3>3 DEF SamePlace
  <2>2. CASE ~ goesOn
    <3>1. at = Settled /\ at.kind # "dial"
      BY <1>6, <2>2 DEF Settled
    <3>2. resumed'.at = Settled /\ loop'.status # "running"
      BY <1>7, <1>8, <2>2, <3>1
    <3>3. resumed'.dialed = loop'.trace
      BY <1>2, <1>3, <1>7, <1>8, <3>1
    <3> QED BY <3>2, <3>3 DEF SamePlace
  <2> QED BY <2>1, <2>2
<1>10. /\ loop'.hops \in 0 .. MaxHops
       /\ loop'.status = "running" => loop'.hops < MaxHops
  <2>1. loop.hops \in Nat /\ loop.hops < MaxHops /\ MaxHops \in Nat
    BY <1>1, RunAssumption DEF RouteInv
  <2>2. loop'.hops = loop.hops + 1
    BY <1>7
  <2>3. loop'.status = "running" => ~ (loop.hops + 1 >= MaxHops)
    BY <1>7
  <2> QED BY ONLY <2>1, <2>2, <2>3
<1> QED BY <1>1, <1>2, <1>7, <1>8, <1>9, <1>10 DEF RouteInv

\* The two routings are always at the same place.
THEOREM OnePlace == Spec => []RouteInv
<1>1. RouteInv /\ [Next]_vars => RouteInv'
  <2> SUFFICES ASSUME RouteInv, [Next]_vars PROVE RouteInv'
    OBVIOUS
  <2>1. ASSUME NEW result \in Results, Result(result) PROVE RouteInv'
    BY <2>1, RouteStep
  <2>2. CASE UNCHANGED vars
    BY <2>2 DEF RouteInv, SamePlace, vars
  <2> QED BY <2>1, <2>2 DEF Next
<1> QED BY RouteBegins, <1>1, PTL DEF Spec

\* Whatever was stored and then deleted, and whatever the dials' results: the
\* loop of the mock provider (runRouting) and the webhooks of a real one
\* (startRouting, advanceRouting) dial the same steps in the same order and
\* stop together.
THEOREM OneRoute == Spec => []SameRoute
<1>1. RouteInv => SameRoute
  <2> SUFFICES ASSUME RouteInv PROVE SameRoute
    OBVIOUS
  <2>1. CASE loop.status = "running"
    <3>1. resumed.at.kind = "dial"
      BY <2>1 DEF RouteInv, SamePlace, DialAt
    <3> QED BY <2>1, <3>1 DEF RouteInv, SamePlace, SameRoute, Ended
  <2>2. CASE loop.status # "running"
    BY <2>2 DEF RouteInv, SamePlace, SameRoute, Ended, Settled
  <2> QED BY <2>1, <2>2
<1> QED BY <1>1, OnePlace, PTL

\* The hop limit holds whatever cycle goto_step and the fallbacks make: every
\* result is one hop more, and after maxHops of them both have ended.
THEOREM HopsRunOut ==
    Spec => /\ [](loop.hops <= MaxHops /\ (loop.hops = MaxHops => Ended))
            /\ [][loop.hops' = loop.hops + 1]_vars
<1>1. RouteInv => loop.hops <= MaxHops /\ (loop.hops = MaxHops => Ended)
  <2> SUFFICES ASSUME RouteInv
               PROVE  loop.hops <= MaxHops /\ (loop.hops = MaxHops => Ended)
    OBVIOUS
  <2>1. loop.hops <= MaxHops /\ (loop.hops = MaxHops => loop.status # "running")
    BY RunAssumption DEF RouteInv
  <2>2. loop.status # "running" => Ended
    BY DEF RouteInv, SamePlace, Ended, Settled
  <2> QED BY <2>1, <2>2
<1>2. RouteInv /\ [Next]_vars => [loop.hops' = loop.hops + 1]_vars
  <2> SUFFICES ASSUME RouteInv, NEW result \in Results, Result(result)
               PROVE  loop.hops' = loop.hops + 1
    BY DEF Next
  <2> QED BY RouteStep
<1> QED BY <1>1, <1>2, OnePlace, PTL DEF Spec

-----------------------------------------------------------------------------
\* What one event does (applyVoiceEvent): a decision is kept, a first decisive
\* event decides, and the others only lead forward.
LEMMA FoldKeepsDecision ==
    ASSUME NEW state \in Decided, NEW e \in VoiceEvents
    PROVE  ApplyVoiceEvent(state, e) = state
<1>1. state \notin Undecided /\ state # "queued"
  BY DEF Undecided, Decided
<1> QED BY <1>1 DEF ApplyVoiceEvent

LEMMA FoldDecides ==
    ASSUME NEW state \in Undecided, NEW e \in Decisive
    PROVE  ApplyVoiceEvent(state, e) = DecisionOf[e]
<1>1. state \notin Decided
  BY DEF Undecided, Decided
<1> QED BY <1>1 DEF ApplyVoiceEvent, Decisive, DecisionOf

LEMMA FoldLeadsForward ==
    ASSUME NEW state \in Undecided, NEW e \in VoiceEvents \ Decisive
    PROVE  ApplyVoiceEvent(state, e) =
             IF e = "answered" THEN "awaiting_acceptance"
             ELSE IF state = "queued" /\ e = "ringing" THEN "ringing" ELSE state
<1>1. state \notin Decided
  BY DEF Undecided, Decided
<1> QED BY <1>1 DEF ApplyVoiceEvent

LEMMA DecisionsDecide ==
    ASSUME NEW e \in Decisive
    PROVE  DecisionOf[e] \in Decided
BY DEF Decisive, DecisionOf, Decided

\* Every state the fold comes to is a state of a call.
LEMMA FoldTyped ==
    ASSUME NEW state \in VoiceStates, NEW e \in VoiceEvents
    PROVE  ApplyVoiceEvent(state, e) \in VoiceStates
<1>1. CASE state \in Decided
  BY <1>1, FoldKeepsDecision
<1>2. CASE state \in Undecided /\ e \in Decisive
  BY <1>2, FoldDecides, DecisionsDecide DEF VoiceStates
<1>3. CASE state \in Undecided /\ e \notin Decisive
  BY <1>3, FoldLeadsForward DEF VoiceStates, Undecided
<1> QED BY <1>1, <1>2, <1>3 DEF VoiceStates

-----------------------------------------------------------------------------
\* The state of the call and the list of its events have their types.
THEOREM HistoryTyped == VoiceSpec => []TypeOK
<1>1. VoiceInit => TypeOK
  BY DEF VoiceInit, TypeOK, VoiceStates, Undecided
<1>2. TypeOK /\ [VoiceNext]_voiceVars => TypeOK'
  <2> SUFFICES ASSUME TypeOK, [VoiceNext]_voiceVars PROVE TypeOK'
    OBVIOUS
  <2>1. ASSUME NEW e \in VoiceEvents, Apply(e) PROVE TypeOK'
    BY <2>1, FoldTyped DEF TypeOK, Apply
  <2>2. CASE UNCHANGED voiceVars
    BY <2>2 DEF TypeOK, voiceVars
  <2> QED BY <2>1, <2>2 DEF VoiceNext
<1> QED BY <1>1, <1>2, PTL DEF VoiceSpec

-----------------------------------------------------------------------------
\* The events after one more has been applied.
LEMMA AppliedEvents ==
    ASSUME heard \in Seq(VoiceEvents), NEW e \in VoiceEvents, heard' = Append(heard, e)
    PROVE  /\ Len(heard) \in Nat
           /\ DOMAIN heard = 1 .. Len(heard) /\ DOMAIN heard' = 1 .. Len(heard) + 1
           /\ heard'[Len(heard) + 1] = e
           /\ \A i \in 1 .. Len(heard) : heard'[i] = heard[i] /\ heard[i] \in VoiceEvents
OBVIOUS

\* A call that is decided keeps its first decision.
LEMMA DecisionKept ==
    ASSUME TypeOK, FirstDecisionStands, NEW e \in VoiceEvents, Apply(e),
           NEW i \in DOMAIN heard, heard[i] \in Decisive
    PROVE  FirstDecisionStands'
<1>1. PICK k \in DOMAIN heard : FirstDecision(k) /\ voice = DecisionOf[heard[k]]
  BY DEF FirstDecisionStands
<1>2. heard' = Append(heard, e) /\ heard \in Seq(VoiceEvents)
  BY DEF Apply, TypeOK
<1>3. /\ Len(heard) \in Nat
      /\ DOMAIN heard = 1 .. Len(heard) /\ DOMAIN heard' = 1 .. Len(heard) + 1
      /\ \A j \in 1 .. Len(heard) : heard'[j] = heard[j]
  BY <1>2, AppliedEvents
<1>4. k \in 1 .. Len(heard) /\ k \in DOMAIN heard' /\ heard'[k] = heard[k]
  BY <1>3
<1>5. heard'[k] \in Decisive
  BY <1>1, <1>4 DEF FirstDecision
<1>6. \A j \in 1 .. (k - 1) : heard'[j] \notin Decisive
  BY <1>1, <1>3, <1>4 DEF FirstDecision
<1>7. voice' = voice
  BY <1>1, FoldKeepsDecision, DecisionsDecide DEF Apply, FirstDecision
<1> QED
  BY <1>1, <1>4, <1>5, <1>6, <1>7 DEF FirstDecisionStands, FirstDecision

\* A call that is not decided is decided by the first decisive event, and
\* otherwise shows how far it got.
LEMMA UndecidedGoesOn ==
    ASSUME TypeOK, FirstDecisionStands, NEW e \in VoiceEvents, Apply(e),
           \A i \in DOMAIN heard : heard[i] \notin Decisive
    PROVE  FirstDecisionStands'
<1>1. heard' = Append(heard, e) /\ heard \in Seq(VoiceEvents)
  BY DEF Apply, TypeOK
<1>0. PICK n \in Nat : n = Len(heard) + 1
  BY <1>1
<1>2. /\ n - 1 = Len(heard)
      /\ DOMAIN heard = 1 .. (n - 1) /\ DOMAIN heard' = 1 .. n
      /\ heard'[n] = e
      /\ \A j \in 1 .. (n - 1) : heard'[j] = heard[j]
  BY <1>0, <1>1, AppliedEvents
<1>3. voice = IF Heard("answered") THEN "awaiting_acceptance"
              ELSE IF Heard("ringing") THEN "ringing" ELSE "queued"
  BY DEF FirstDecisionStands
<1>4. voice \in Undecided
  BY <1>3 DEF Undecided
<1>5. n \in DOMAIN heard' /\ \A j \in 1 .. (n - 1) : heard'[j] \notin Decisive
  BY <1>0, <1>1, <1>2
<1>6. CASE e \in Decisive
  <2>1. FirstDecision(n)'
    BY <1>2, <1>5, <1>6 DEF FirstDecision
  <2>2. voice' = DecisionOf[heard'[n]]
    BY <1>2, <1>4, <1>6, FoldDecides DEF Apply
  <2> QED BY <1>2, <1>5, <1>6, <2>1, <2>2 DEF FirstDecisionStands
<1>7. CASE e \notin Decisive
  <2>1. \A i \in DOMAIN heard' : heard'[i] \notin Decisive
    BY <1>0, <1>2, <1>7
  <2>2. \A x : Heard(x)' <=> (Heard(x) \/ x = e)
    BY <1>0, <1>1, <1>2 DEF Heard
  <2>3. voice' = IF e = "answered" THEN "awaiting_acceptance"
                 ELSE IF voice = "queued" /\ e = "ringing" THEN "ringing" ELSE voice
    BY <1>4, <1>7, FoldLeadsForward DEF Apply
  <2>4. voice' = IF Heard("answered")' THEN "awaiting_acceptance"
                 ELSE IF Heard("ringing")' THEN "ringing" ELSE "queued"
    BY <1>3, <2>2, <2>3
  <2> QED BY <2>1, <2>4 DEF FirstDecisionStands
<1> QED BY <1>6, <1>7

\* Whatever the provider sends, in whatever order and however often, the state
\* of a call is what its first decisive event said (applyVoiceEvent).
THEOREM DecidedOnce == VoiceSpec => []FirstDecisionStands
<1>1. VoiceInit => FirstDecisionStands
  BY DEF VoiceInit, FirstDecisionStands, Heard
<1>2. TypeOK /\ FirstDecisionStands /\ [VoiceNext]_voiceVars => FirstDecisionStands'
  <2> SUFFICES ASSUME TypeOK, FirstDecisionStands, [VoiceNext]_voiceVars PROVE FirstDecisionStands'
    OBVIOUS
  <2>1. ASSUME NEW e \in VoiceEvents, Apply(e) PROVE FirstDecisionStands'
    BY <2>1, DecisionKept, UndecidedGoesOn
  <2>2. CASE UNCHANGED voiceVars
    BY <2>2 DEF FirstDecisionStands, FirstDecision, Heard, voiceVars
  <2> QED BY <2>1, <2>2 DEF VoiceNext
<1> QED BY <1>1, <1>2, HistoryTyped, PTL DEF VoiceSpec
=============================================================================
