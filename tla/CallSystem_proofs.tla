-------------------------- MODULE CallSystem_proofs --------------------------
(***************************************************************************)
(* Theorems about the routes, the store and the webhooks of one reception  *)
(* together, for any number of requests, deliveries and calls, any policies *)
(* and any set of faults.                                                  *)
(***************************************************************************)
EXTENDS CallSystem, FiniteSetTheorems, TLAPS

\* The theorems about the webhooks, for the reception as the store keeps it.
HP == INSTANCE HopDial_proofs WITH ReceptionStates <- States, ClockTicks <- TRUE

Hands == [at : {"new", "dial", "create", "resolve", "store", "done"},
          state : States, call : Calls \cup {NoCall}]

\* Which function a request that is under way has called, and on what input:
\* a telephone call is never answered while it is placed.
Fits(o) ==
    /\ o.at \notin {"repoint", "respond", "find", "mark"}
    /\ o.at \in {"read", "put", "outcome", "cas"} =>
          o.fn \in {"start", "cancel", "connected", "timeout", "failed"}
    /\ o.at \in {"put", "outcome"} => o.fn \notin {"timeout", "failed"}
    /\ o.at = "cas" => o.fn \in {"timeout", "failed"}
    /\ o.at \in {"attach", "result"} => o.fn = "start"
    /\ o.fn = "start" => o.input.status \in {"calling", "failed"}
    /\ o.at \in {"result", "outcome"} /\ o.fn = "start" => o.input.status = "failed"

Typed == /\ rec \in S!Recs
         /\ op \in [Requests -> S!Ops] /\ \A p \in Requests : Fits(op[p])
         /\ hand \in [Requests -> Hands]
         /\ \A p \in Requests : hand[p].at = "resolve" => hand[p].call \in Calls

\* Some member of staff has taken a call of the reception.
Answered == \E c \in Calls : corr[c].voice \in H!Success

\* A call that is known to a record or a request has a correlation.
Known(c) == c # NoCall => corr[c].status # "none"

RecOk(r) == Known(r.call) /\ (r.state = "connected" => Answered)

Knows == /\ RecOk(rec)
         /\ \A p \in Requests : /\ RecOk(op[p].seen) /\ Known(op[p].input.call)
                                /\ op[p].fn = "connected" => Answered

CInv == HP!IInv /\ Typed /\ Knows

-----------------------------------------------------------------------------
LEMMA Assumed == /\ HP!HopDialAssumption /\ FirstCalls \subseteq Calls /\ NoCall \notin Calls
<1>1. H!HopDialAssumption
  BY PartsAssumption
<1> QED
  BY <1>1 DEF H!HopDialAssumption, HP!HopDialAssumption, H!IsFiniteSet, HP!IsFiniteSet,
     H!AllFaults, HP!AllFaults, H!VoiceEvents, HP!VoiceEvents, H!StaffChoices,
     HP!StaffChoices, H!CallStatuses, HP!CallStatuses

LEMMA SameStates == S!States = States
BY DEF S!States, States

LEMMA TargetsAreStates ==
    ASSUME NEW s \in S!States, NEW e
    PROVE  /\ S!Targets(s, e) \subseteq S!States
           /\ "connected" \in S!Targets(s, e) => e = "CALL_CONNECTED"
BY DEF S!Targets, S!Edges, S!States

\* A record or copy r that request p writes: its call was known before, and it
\* is connected only if it was, or if the request is to connect it.
From(p, r) ==
    /\ r.call \in {rec.call, op[p].seen.call, op[p].input.call}
    /\ r.state = "connected" =>
          rec.state = "connected" \/ op[p].seen.state = "connected" \/ op[p].fn = "connected"

\* Request p stores the record r and goes on as o.
Moves(p, r, o) ==
    /\ rec' = r /\ r \in S!Recs /\ From(p, r)
    /\ op' = [op EXCEPT ![p] = o] /\ o \in S!Ops /\ Fits(o) /\ From(p, o.seen)
    /\ o.fn = op[p].fn /\ o.input = op[p].input

\* What one step of a store function does.
LEMMA StoreMoves ==
    ASSUME Typed, NEW p \in Requests, S!Step(p)
    PROVE  \E r, o : Moves(p, r, o)
<1>0. /\ rec \in S!Recs /\ op[p] \in S!Ops /\ Fits(op[p]) /\ op[p].seen \in S!Recs
      /\ op[p].seen.state \in S!States /\ rec.state \in S!States
  BY DEF Typed, S!Ops, S!Recs
<1>1. ASSUME S!Read(p) PROVE \E r, o : Moves(p, r, o)
  <2> DEFINE label == IF S!Allowed(op[p].fn, rec.state) THEN S!FirstWrite(op[p].fn) ELSE "done"
             o == [op[p] EXCEPT !.seen = rec, !.at = label]
  <2>1. /\ label \in {"cas", "respond", "put", "done"} /\ label \in S!Labels
        /\ label = "cas" => op[p].fn \in {"timeout", "failed"}
        /\ label = "put" => op[p].fn \notin {"timeout", "failed"}
        /\ label = "respond" => op[p].fn = "respond"
    BY DEF S!FirstWrite, S!Labels
  <2> HIDE DEF label
  <2>2. /\ o \in S!Ops /\ o.at = label /\ o.fn = op[p].fn /\ o.input = op[p].input
        /\ o.seen = rec
    BY <1>0, <2>1 DEF S!Ops
  <2>3. Fits(o)
    BY <1>0, <1>1, <2>1, <2>2 DEF Fits, S!Read, S!At
  <2>4. op' = [op EXCEPT ![p] = o] /\ rec' = rec
    BY <1>1 DEF S!Read, label
  <2> HIDE DEF o
  <2> QED BY <1>0, <2>2, <2>3, <2>4 DEF Moves, From
<1>2. ASSUME NEW new \in S!Recs, NEW label \in {"attach", "result", "outcome", "record", "done"},
             S!Overwrite(p, new, label), From(p, new),
             label \in {"attach", "result"} => op[p].fn = "start",
             label = "outcome" => op[p].fn \in {"start", "cancel", "connected"},
             label \in {"result", "outcome"} /\ op[p].fn = "start" => op[p].input.status = "failed"
      PROVE  \E r, o : Moves(p, r, o)
  <2> DEFINE o == [op[p] EXCEPT !.seen = new, !.at = label, !.ok = (label = "done")]
  <2>1. /\ o \in S!Ops /\ o.at = label /\ o.fn = op[p].fn /\ o.input = op[p].input
        /\ o.seen = new
    BY <1>0 DEF S!Ops, S!Labels
  <2>2. Fits(o)
    BY <1>0, <1>2, <2>1 DEF Fits
  <2>3. op' = [op EXCEPT ![p] = o] /\ rec' = new
    BY <1>2 DEF S!Overwrite
  <2> HIDE DEF o
  <2> QED BY <1>2, <2>1, <2>2, <2>3 DEF Moves
<1>3. ASSUME NEW ok \in BOOLEAN, S!Return(p, ok), rec' = rec PROVE \E r, o : Moves(p, r, o)
  <2> DEFINE o == [op[p] EXCEPT !.at = "done", !.ok = ok]
  <2>1. /\ o \in S!Ops /\ o.at = "done" /\ o.fn = op[p].fn /\ o.input = op[p].input
        /\ o.seen = op[p].seen
    BY <1>0 DEF S!Ops, S!Labels
  <2>2. Fits(o)
    BY <1>0, <2>1 DEF Fits
  <2>3. op' = [op EXCEPT ![p] = o]
    BY <1>3 DEF S!Return
  <2> HIDE DEF o
  <2> QED BY <1>0, <1>3, <2>1, <2>2, <2>3 DEF Moves, From
<1>4. ASSUME S!ApplyEvent(p) PROVE \E r, o : Moves(p, r, o)
  <2> DEFINE label == CASE op[p].fn = "fallback" -> "find"
                        [] op[p].fn = "start" /\ op[p].input.status = "calling" -> "attach"
                        [] op[p].fn = "start" /\ op[p].input.status # "calling" -> "result"
                        [] OTHER -> "outcome"
  <2>1. PICK t \in S!Targets(op[p].seen.state, S!EventOf(op[p].fn)) :
           S!Overwrite(p, [op[p].seen EXCEPT !.state = t], label)
    BY <1>4 DEF S!ApplyEvent
  <2>2. op[p].at = "put" /\ op[p].fn \in {"start", "cancel", "connected"}
    BY <1>0, <1>4 DEF S!ApplyEvent, S!At, Fits
  <2>3. t \in S!States /\ (t = "connected" => op[p].fn = "connected")
    <3>1. S!EventOf(op[p].fn) = "CALL_CONNECTED" => op[p].fn = "connected"
      BY <2>2 DEF S!EventOf
    <3> QED BY <1>0, <2>1, <3>1, TargetsAreStates
  <2> DEFINE new == [op[p].seen EXCEPT !.state = t]
  <2>4. new \in S!Recs /\ new.call = op[p].seen.call /\ new.state = t
    BY <1>0, <2>3 DEF S!Recs
  <2>5. /\ label \in {"attach", "result", "outcome"}
        /\ label \in {"attach", "result"} => op[p].fn = "start"
        /\ label \in {"result", "outcome"} /\ op[p].fn = "start" => op[p].input.status = "failed"
    BY <1>0, <2>2 DEF Fits
  <2>6. From(p, new)
    BY <2>3, <2>4 DEF From
  <2> HIDE DEF label, new
  <2>7. S!Overwrite(p, new, label)
    BY <2>1 DEF new
  <2> QED BY <1>2, <2>2, <2>4, <2>5, <2>6, <2>7
<1>5. ASSUME S!Attach(p) PROVE \E r, o : Moves(p, r, o)
  <2> DEFINE new == [op[p].seen EXCEPT !.call = op[p].input.call]
  <2>1. new \in S!Recs /\ new.call = op[p].input.call /\ new.state = op[p].seen.state
    BY <1>0 DEF S!Recs, S!Ops, S!Inputs
  <2>2. From(p, new) /\ S!Overwrite(p, new, "done")
    BY <1>5, <2>1 DEF From, S!Attach
  <2> HIDE DEF new
  <2> QED BY <1>2, <2>1, <2>2
<1>6. ASSUME S!ApplyResult(p) PROVE \E r, o : Moves(p, r, o)
  <2>1. PICK t \in S!Targets(op[p].seen.state, S!ResultEvent(op[p].input.status)) :
           S!Overwrite(p, [op[p].seen EXCEPT !.state = t], "outcome")
    BY <1>6 DEF S!ApplyResult
  <2>2. op[p].fn = "start" /\ op[p].input.status = "failed"
    BY <1>0, <1>6 DEF S!ApplyResult, S!At, Fits
  <2>3. t \in S!States /\ t # "connected"
    BY <1>0, <2>1, <2>2, TargetsAreStates DEF S!ResultEvent
  <2> DEFINE new == [op[p].seen EXCEPT !.state = t]
  <2>4. new \in S!Recs /\ new.call = op[p].seen.call /\ new.state = t
    BY <1>0, <2>3 DEF S!Recs
  <2>5. From(p, new) /\ S!Overwrite(p, new, "outcome")
    BY <2>1, <2>3, <2>4 DEF From
  <2> HIDE DEF new
  <2> QED BY <1>2, <2>2, <2>4, <2>5
<1>7. ASSUME S!PutOutcome(p) PROVE \E r, o : Moves(p, r, o)
  <2> DEFINE new == [op[p].seen EXCEPT !.outcome = S!OutcomeOf(p)]
             label == IF S!Files(p) THEN "record" ELSE "done"
  <2>1. /\ op[p].fn \in {"start", "cancel", "connected"}
        /\ op[p].fn = "start" => op[p].input.status = "failed"
    BY <1>0, <1>7 DEF S!PutOutcome, S!At, Fits
  <2>2. S!OutcomeOf(p) \in S!Outcomes
    BY <2>1 DEF S!OutcomeOf, S!Outcomes
  <2>3. new \in S!Recs /\ new.call = op[p].seen.call /\ new.state = op[p].seen.state
    BY <1>0, <2>2 DEF S!Recs
  <2>4. From(p, new) /\ S!Overwrite(p, new, label) /\ label \in {"record", "done"}
    BY <1>7, <2>3 DEF From, S!PutOutcome
  <2> HIDE DEF new, label
  <2> QED BY <1>2, <2>3, <2>4
<1>8. ASSUME S!Settle(p) PROVE \E r, o : Moves(p, r, o)
  <2>1. op[p].fn \in {"timeout", "failed"}
    BY <1>0, <1>8 DEF S!Settle, S!At, Fits
  <2>2. CASE rec.state # op[p].seen.state
    BY <1>3, <1>8, <2>2 DEF S!Settle
  <2>3. CASE rec.state = op[p].seen.state
    <3>1. PICK t \in S!Targets(op[p].seen.state, S!EventOf(op[p].fn)) : S!WriteEnding(p, rec, t)
      BY <1>8, <2>3 DEF S!Settle
    <3>2. t \in S!States /\ t # "connected"
      BY <1>0, <2>1, <3>1, TargetsAreStates DEF S!EventOf
    <3> DEFINE new == [rec EXCEPT !.state = t, !.outcome = op[p].fn]
               copy == [op[p].seen EXCEPT !.state = t, !.outcome = op[p].fn]
               o == [op[p] EXCEPT !.seen = copy, !.at = "record"]
    <3>3. op[p].fn \in S!Outcomes
      BY <2>1 DEF S!Outcomes
    <3>4. /\ new \in S!Recs /\ new.call = rec.call /\ new.state = t
          /\ copy \in S!Recs /\ copy.call = op[p].seen.call /\ copy.state = t
      BY <1>0, <3>2, <3>3 DEF S!Recs
    <3>5. rec' = new /\ op' = [op EXCEPT ![p] = o]
      BY <1>0, <3>1 DEF S!WriteEnding, S!Ops, S!Recs
    <3> HIDE DEF new, copy
    <3>6. /\ o \in S!Ops /\ o.at = "record" /\ o.fn = op[p].fn /\ o.input = op[p].input
          /\ o.seen = copy
      BY <1>0, <3>4 DEF S!Ops, S!Labels
    <3>7. Fits(o)
      BY <1>0, <2>1, <3>6 DEF Fits
    <3> HIDE DEF o
    <3> QED BY <3>2, <3>4, <3>5, <3>6, <3>7 DEF Moves, From
  <2> QED BY <2>2, <2>3
<1>9. ASSUME S!Record(p) PROVE \E r, o : Moves(p, r, o)
  BY <1>3, <1>9 DEF S!Record
<1>10. ~(S!PutResponse(p) \/ S!Repoint(p) \/ S!FindRow(p) \/ S!PutRow(p))
  BY <1>0 DEF Fits, S!PutResponse, S!Repoint, S!FindRow, S!PutRow, S!At
<1> QED BY <1>1, <1>4, <1>5, <1>6, <1>7, <1>8, <1>9, <1>10 DEF S!Step

-----------------------------------------------------------------------------
\* Request p begins a store function, or is ready for its next poll.
Starts(p, o) ==
    /\ rec' = rec /\ op' = [op EXCEPT ![p] = o] /\ o \in S!Ops /\ Fits(o)
    /\ o.seen \in {op[p].seen, S!Created}
    /\ o.input.call # NoCall => corr'[o.input.call].status # "none"
    /\ o.fn = "connected" => Answered

LEMMA Begins ==
    ASSUME Typed, NEW p \in Requests, NEW fn \in {"start", "cancel", "connected", "timeout", "failed"},
           NEW input \in S!Inputs, S!Begin(p, fn, input),
           fn = "start" => input.status \in {"calling", "failed"},
           input.call # NoCall => corr'[input.call].status # "none",
           fn = "connected" => Answered
    PROVE  \E o : Starts(p, o)
<1> DEFINE o == [op[p] EXCEPT !.fn = fn, !.input = input, !.at = "read"]
<1>1. op[p] \in S!Ops
  BY DEF Typed
<1>2. op' = [op EXCEPT ![p] = o] /\ rec' = rec
  BY DEF S!Begin
<1>3. /\ o \in S!Ops /\ o.at = "read" /\ o.fn = fn /\ o.input = input /\ o.seen = op[p].seen
  BY <1>1 DEF S!Ops, S!Labels, S!AllFunctions
<1>4. Fits(o)
  BY <1>3 DEF Fits
<1> HIDE DEF o
<1> QED BY <1>2, <1>3, <1>4 DEF Starts

LEMMA NoInputTyped == S!NoInput \in S!Inputs /\ S!NoInput.call = NoCall
BY DEF S!NoInput, S!Inputs

LEMMA IdleTyped == /\ S!Idle \in S!Ops /\ Fits(S!Idle) /\ S!Idle.seen = S!Created
                   /\ S!Idle.input.call = NoCall /\ S!Idle.fn # "connected"
                   /\ S!Created \in S!Recs /\ S!Created.call = NoCall
                   /\ S!Created.state # "connected"
BY DEF S!Idle, S!Ops, S!AllFunctions, S!NoInput, S!Inputs, S!Labels, S!Created, S!Recs, S!States,
       S!Outcomes, S!NoRow, S!Rows, Fits

\* The progress of one request, or none, changes.
LEMMA StoreTyped ==
    ASSUME Typed, NEW p \in Requests,
           \/ UNCHANGED <<rec, op>> \/ (\E o : Starts(p, o)) \/ (\E r, o : Moves(p, r, o))
    PROVE  /\ rec' \in S!Recs
           /\ op' \in [Requests -> S!Ops] /\ \A q \in Requests : Fits(op'[q])
BY DEF Typed, Starts, Moves

\* A route takes a step in what it has read.
LEMMA HandMoves ==
    ASSUME Typed, NEW p \in Requests, NEW h \in Hands, hand' = [hand EXCEPT ![p] = h],
           h.at = "resolve" => h.call \in Calls
    PROVE  /\ hand' \in [Requests -> Hands]
           /\ \A q \in Requests : hand'[q].at = "resolve" => hand'[q].call \in Calls
BY DEF Typed

LEMMA HandReads ==
    ASSUME Typed, NEW p \in Requests, NEW label \in {"dial", "resolve", "store", "done"},
           Reads(p, label), label = "resolve" => rec.call # NoCall
    PROVE  /\ hand' \in [Requests -> Hands]
           /\ \A q \in Requests : hand'[q].at = "resolve" => hand'[q].call \in Calls
<1> DEFINE h == [at |-> label, state |-> rec.state, call |-> rec.call]
<1>1. h \in Hands /\ (h.at = "resolve" => h.call \in Calls)
  BY SameStates DEF Typed, S!Recs, Hands
<1>2. hand' = [hand EXCEPT ![p] = h]
  BY DEF Reads
<1> HIDE DEF h
<1> QED BY <1>1, <1>2, HandMoves

LEMMA HandGoes ==
    ASSUME Typed, NEW p \in Requests, NEW label \in {"store", "done"}, Goto(p, label)
    PROVE  /\ hand' \in [Requests -> Hands]
           /\ \A q \in Requests : hand'[q].at = "resolve" => hand'[q].call \in Calls
<1> DEFINE h == [hand[p] EXCEPT !.at = label]
<1>1. h \in Hands /\ h.at # "resolve"
  BY DEF Typed, Hands
<1>2. hand' = [hand EXCEPT ![p] = h]
  BY DEF Goto
<1> HIDE DEF h
<1> QED BY <1>1, <1>2, HandMoves

LEMMA HandArrives ==
    ASSUME Typed, NEW p \in Requests, hand' = [hand EXCEPT ![p] = Arrived]
    PROVE  /\ hand' \in [Requests -> Hands]
           /\ \A q \in Requests : hand'[q].at = "resolve" => hand'[q].call \in Calls
<1>1. Arrived \in Hands /\ Arrived.at # "resolve"
  BY DEF Arrived, Hands, States
<1> QED BY <1>1, HandMoves

\* What a route does to the webhooks' side: nothing, or it places, records or
\* hangs up a call.
Phones == \/ UNCHANGED hopVars
          \/ \E c \in Calls : H!FirstDial(c) \/ H!FirstCreate(c) \/ H!EndCall(c)

StoreSide(p) == \/ UNCHANGED <<rec, op>>
                \/ \E o : Starts(p, o)
                \/ \E r, o : Moves(p, r, o)

HandSide == /\ hand' \in [Requests -> Hands]
            /\ \A q \in Requests : hand'[q].at = "resolve" => hand'[q].call \in Calls

LEMMA RouteSteps ==
    ASSUME CInv, NEW p \in Requests, Route(p)
    PROVE  Phones /\ StoreSide(p) /\ HandSide
<1>0. /\ Typed /\ HP!TypeOK /\ hand[p] \in Hands
      /\ corr \in [Calls -> HP!Correlations] /\ FirstCalls \subseteq Calls /\ NoCall \notin Calls
  BY Assumed DEF CInv, Typed, HP!IInv, HP!TypeOK
<1>1. CASE CallArrives(p)
  BY <1>0, <1>1, HandReads DEF CallArrives, storeVars, Phones, StoreSide, HandSide
<1>2. CASE CallRefuses(p)
  <2>1. \E o : Starts(p, o)
    BY <1>0, <1>2, NoInputTyped, Begins DEF CallRefuses
  <2> QED BY <1>0, <1>2, <2>1, HandGoes DEF CallRefuses, Phones, StoreSide, HandSide
<1>3. ASSUME StartWith(p, "failed", NoCall) PROVE \E o : Starts(p, o)
  <2>1. [status |-> "failed", call |-> NoCall] \in S!Inputs
    BY DEF S!Inputs
  <2> QED BY <1>0, <1>3, <2>1, Begins DEF StartWith
<1>4. CASE CallDials(p)
  <2>1. CASE "dial" \in Faults /\ StartWith(p, "failed", NoCall) /\ Goto(p, "store") /\ UNCHANGED hopVars
    BY <1>0, <1>3, <2>1, HandGoes DEF Phones, StoreSide, HandSide
  <2>2. CASE UNCHANGED storeVars /\ \E n \in FirstCalls :
                /\ H!FirstDial(n)
                /\ hand' = [hand EXCEPT ![p].at = "create", ![p].call = n]
    <3>1. PICK n \in FirstCalls : /\ H!FirstDial(n)
                                  /\ hand' = [hand EXCEPT ![p].at = "create", ![p].call = n]
      BY <2>2
    <3> DEFINE h == [hand[p] EXCEPT !.at = "create", !.call = n]
    <3>2. h \in Hands /\ h.at # "resolve" /\ hand' = [hand EXCEPT ![p] = h]
      BY <1>0, <3>1 DEF Hands
    <3> HIDE DEF h
    <3>3. HandSide
      BY <1>0, <3>2, HandMoves DEF HandSide
    <3> QED BY <1>0, <2>2, <3>1, <3>3 DEF storeVars, Phones, StoreSide
  <2> QED BY <1>4, <2>1, <2>2 DEF CallDials
<1>5. CASE CallCreates(p)
  <2>1. HandSide
    BY <1>0, <1>5, HandGoes DEF CallCreates, HandSide
  <2>2. CASE StartWith(p, "failed", NoCall) /\ UNCHANGED hopVars
    BY <1>3, <2>1, <2>2 DEF Phones, StoreSide
  <2>3. CASE StartWith(p, "calling", hand[p].call) /\ H!FirstCreate(hand[p].call)
    <3> DEFINE c == hand[p].call
    <3>1. c \in Calls /\ H!FirstCreate(c)
      BY <1>0, <2>3 DEF H!FirstCreate
    <3>2. corr'[c].status # "none"
      BY <1>0, <3>1 DEF H!FirstCreate, H!NoRecord
    <3>3. [status |-> "calling", call |-> c] \in S!Inputs
      BY <3>1 DEF S!Inputs
    <3>4. \E o : Starts(p, o)
      BY <1>0, <2>3, <3>2, <3>3, Begins DEF StartWith
    <3> QED BY <2>1, <3>1, <3>4 DEF Phones, StoreSide
  <2> QED BY <1>5, <2>2, <2>3 DEF CallCreates
<1>6. CASE StatusArrives(p)
  BY <1>0, <1>6, HandReads DEF StatusArrives, storeVars, Phones, StoreSide, HandSide
<1>7. CASE StatusResolves(p)
  <2>1. UNCHANGED hopVars
    BY <1>7 DEF StatusResolves
  <2>2. CASE hand' = [hand EXCEPT ![p] = Arrived] /\ UNCHANGED storeVars
    BY <1>0, <2>1, <2>2, HandArrives DEF storeVars, Phones, StoreSide, HandSide
  <2>3. CASE S!Begin(p, Resolution(hand[p].call), S!NoInput) /\ Goto(p, "store")
             /\ Resolution(hand[p].call) # "pending"
    <3> DEFINE c == hand[p].call
    <3>1. c \in Calls
      BY <1>0, <1>7 DEF StatusResolves, At, Typed
    <3>2. /\ Resolution(c) \in {"connected", "failed", "timeout", "pending"}
          /\ Resolution(c) = "connected" => corr[c].voice \in H!Success
      BY DEF Resolution
    <3>3. Resolution(c) = "connected" => Answered
      BY <3>1, <3>2 DEF Answered
    <3>4. \E o : Starts(p, o)
      BY <1>0, <2>3, <3>2, <3>3, NoInputTyped, Begins
    <3> QED BY <1>0, <2>1, <2>3, <3>4, HandGoes DEF Phones, StoreSide, HandSide
  <2> QED BY <1>7, <2>2, <2>3 DEF StatusResolves
<1>8. CASE StatusAnswers(p)
  <2>1. Starts(p, S!Idle)
    BY <1>8, IdleTyped DEF StatusAnswers, Starts
  <2> QED BY <1>0, <1>8, <2>1, HandArrives DEF StatusAnswers, hopVars, Phones, StoreSide, HandSide
<1>9. CASE CancelArrives(p)
  <2>1. \E o : Starts(p, o)
    BY <1>0, <1>9, NoInputTyped, Begins DEF CancelArrives
  <2> QED BY <1>0, <1>9, <2>1, HandReads DEF CancelArrives, Phones, StoreSide, HandSide
<1>10. CASE GiveUpArrives(p)
  <2>1. StoreSide(p)
    BY <1>0, <1>10, NoInputTyped, Begins DEF GiveUpArrives, StoreSide, storeVars
  <2> QED BY <1>0, <1>10, <2>1, HandReads DEF GiveUpArrives, Phones, HandSide
<1>11. CASE HangsUp(p)
  <2>1. Phones
    BY <1>0, <1>11 DEF HangsUp, Phones, Hands
  <2> QED BY <1>0, <1>11, <2>1, HandGoes DEF HangsUp, storeVars, StoreSide, HandSide
<1>12. CASE StoreStep(p)
  <2>1. \E r, o : Moves(p, r, o)
    BY <1>0, <1>12, StoreMoves DEF StoreStep
  <2> QED BY <1>0, <1>12, <2>1 DEF StoreStep, Phones, StoreSide, HandSide, Typed
<1> QED BY <1>1, <1>2, <1>4, <1>5, <1>6, <1>7, <1>8, <1>9, <1>10, <1>11, <1>12 DEF Route

-----------------------------------------------------------------------------
\* The webhooks of this module are those the theorems are about.
LEMMA SameVoices ==
    /\ H!Undecided = HP!Undecided /\ H!Decided = HP!Decided /\ H!Success = HP!Success
    /\ H!VoiceEvents = HP!VoiceEvents
    /\ \A state, e : H!ApplyVoiceEvent(state, e) = HP!ApplyVoiceEvent(state, e)
BY DEF H!Undecided, HP!Undecided, H!Decided, HP!Decided, H!Success, HP!Success,
   H!StaffChoices, HP!StaffChoices, H!CallStatuses, HP!CallStatuses, H!VoiceEvents,
   HP!VoiceEvents, H!DecisionOf, HP!DecisionOf, H!Decisive, HP!Decisive,
   H!ApplyVoiceEvent, HP!ApplyVoiceEvent

LEMMA SameRouting ==
    /\ H!Settled = HP!Settled
    /\ \A p : H!StartRouting(Policies, p) = HP!StartRouting(Policies, p)
    /\ \A pos, hops, result :
          H!AdvanceRouting(Policies, pos, hops, result, MaxHops)
            = HP!AdvanceRouting(Policies, pos, hops, result, MaxHops)
<1>1. /\ H!Settled = HP!Settled /\ H!Stop = HP!Stop
      /\ \A s : H!GotoStep(s) = HP!GotoStep(s) /\ H!ToPolicy(s) = HP!ToPolicy(s)
  BY DEF H!Settled, HP!Settled, H!Stop, HP!Stop, H!GotoStep, HP!GotoStep,
     H!ToPolicy, HP!ToPolicy
<1>2. \A policy, s : H!StepIndex(policy, s) = HP!StepIndex(policy, s)
  BY DEF H!StepIndex, HP!StepIndex
<1>3. \A policy, i, result :
         H!NextTransition(policy, i, result) = HP!NextTransition(policy, i, result)
  BY <1>1, SameVoices DEF H!NextTransition, HP!NextTransition
<1>4. \A p, i : H!DialAt(Policies, p, i) = HP!DialAt(Policies, p, i)
  BY <1>1 DEF H!DialAt, HP!DialAt
<1>5. \A p : H!StartRouting(Policies, p) = HP!StartRouting(Policies, p)
  BY <1>1, <1>4 DEF H!StartRouting, HP!StartRouting
<1>6. \A pos, hops, result :
         H!AdvanceRouting(Policies, pos, hops, result, MaxHops)
           = HP!AdvanceRouting(Policies, pos, hops, result, MaxHops)
  BY <1>1, <1>2, <1>3, <1>4, <1>5, SameVoices DEF H!AdvanceRouting,
     HP!AdvanceRouting, H!LastHop, HP!LastHop
<1> QED BY <1>1, <1>5, <1>6

LEMMA SameWrites ==
    /\ \A w, r : H!WriteIfUnchanged(w, r) <=> HP!WriteIfUnchanged(w, r)
    /\ \A w : H!Unchanged(w) <=> HP!Unchanged(w)
    /\ \A s : H!StampsAfter(s) = HP!StampsAfter(s)
    /\ \A s, n : /\ H!Reservation(s, n) = HP!Reservation(s, n)
                  /\ H!NotDialed(s, n) = HP!NotDialed(s, n)
    /\ H!NoRecord = HP!NoRecord /\ H!Idle = HP!Idle
    /\ \A w : H!NextRecord(w) = HP!NextRecord(w)
BY DEF H!WriteIfUnchanged, HP!WriteIfUnchanged, H!Unchanged, HP!Unchanged,
   H!StampsAfter, HP!StampsAfter, H!Reservation, HP!Reservation, H!NotDialed,
   HP!NotDialed, H!NoRecord, HP!NoRecord, H!Idle, HP!Idle, H!NextRecord,
   HP!NextRecord

LEMMA SameAdvance ==
    \A seen, m : H!Advance(seen, m) = HP!Advance(seen, m)
BY SameVoices, SameRouting, SameWrites DEF H!Advance, HP!Advance, H!Ignored,
   HP!Ignored, H!Spent, HP!Spent

LEMMA SameActions ==
    /\ \A w : H!Webhook(w) <=> HP!Webhook(w)
    /\ \A w, m : H!Receive(w, m) <=> HP!Receive(w, m)
    /\ \A c : H!FirstDial(c) <=> HP!FirstDial(c)
    /\ \A c : H!FirstCreate(c) <=> HP!FirstCreate(c)
    /\ \A c : H!EndCall(c) <=> HP!EndCall(c)
    /\ \A c : H!Lapse(c) <=> HP!Lapse(c)
    /\ \A r : H!Elsewhere(r) <=> HP!Elsewhere(r)
<1> USE SameWrites
<1>1. /\ \A w, label : /\ H!At(w, label) <=> HP!At(w, label)
                       /\ H!Goto(w, label) <=> HP!Goto(w, label)
      /\ \A w : H!Finish(w) <=> HP!Finish(w)
      /\ \A w : H!GiveUpDial(w) <=> HP!GiveUpDial(w)
      /\ \A f : H!Fault(f) <=> HP!Fault(f)
  BY DEF H!At, HP!At, H!Goto, HP!Goto, H!Finish, HP!Finish, H!GiveUpDial,
     HP!GiveUpDial, H!Fault, HP!Fault
<1>2. \A w : H!Check(w) <=> HP!Check(w)
  BY <1>1 DEF H!Check, HP!Check
<1>3. \A w : H!Reserve(w) <=> HP!Reserve(w)
  BY <1>1 DEF H!Reserve, HP!Reserve
<1>4. \A w : H!ReserveThrows(w) <=> HP!ReserveThrows(w)
  BY <1>1 DEF H!ReserveThrows, HP!ReserveThrows
<1>5. \A w : H!Dial(w) <=> HP!Dial(w)
  BY <1>1 DEF H!Dial, HP!Dial
<1>6. \A w : H!Unreached(w) <=> HP!Unreached(w)
  BY <1>1 DEF H!Unreached, HP!Unreached
<1>7. \A w : H!Create(w) <=> HP!Create(w)
  BY <1>1 DEF H!Create, HP!Create
<1>8. \A w : H!Repoint(w) <=> HP!Repoint(w)
  BY <1>1 DEF H!Repoint, HP!Repoint
<1>9. \A w : H!Abandon(w) <=> HP!Abandon(w)
  BY <1>1 DEF H!Abandon, HP!Abandon, H!HangUp, HP!HangUp
<1>10. \A w : H!Save(w) <=> HP!Save(w)
  BY <1>1 DEF H!Save, HP!Save
<1>11. \A w : H!Webhook(w) <=> HP!Webhook(w)
  BY <1>2, <1>3, <1>4, <1>5, <1>6, <1>7, <1>8, <1>9, <1>10 DEF H!Webhook, HP!Webhook
<1>12. \A w, m : H!Receive(w, m) <=> HP!Receive(w, m)
  BY <1>1, SameAdvance DEF H!Receive, HP!Receive
<1>13. /\ \A c : H!FirstDial(c) <=> HP!FirstDial(c)
       /\ \A c : H!EndCall(c) <=> HP!EndCall(c)
       /\ \A c : H!Lapse(c) <=> HP!Lapse(c)
  BY DEF H!FirstDial, HP!FirstDial, H!EndCall, HP!EndCall, H!Lapse, HP!Lapse
<1>14. \A c : H!FirstCreate(c) <=> HP!FirstCreate(c)
  BY SameRouting DEF H!FirstCreate, HP!FirstCreate
<1>15. \A r : H!Elsewhere(r) <=> HP!Elsewhere(r)
  BY DEF H!Elsewhere, HP!Elsewhere
<1> QED BY <1>11, <1>12, <1>13, <1>14, <1>15

LEMMA SameHop == /\ H!Init <=> HP!Init
                 /\ H!Next <=> HP!Next
                 /\ H!vars = HP!vars
<1>1. H!Init <=> HP!Init
  BY SameWrites DEF H!Init, HP!Init
<1>2. H!Messages = HP!Messages
  BY DEF H!Messages, HP!Messages
<1>3. H!Next <=> HP!Next
  BY <1>2, SameActions DEF H!Next, HP!Next
<1>4. H!vars = HP!vars
  BY DEF H!vars, HP!vars
<1> QED BY <1>1, <1>3, <1>4

LEMMA SameSteps == [H!Next]_H!vars <=> [HP!Next]_HP!vars
BY SameHop DEF H!vars, HP!vars

\* A webhook repoints the reception to a call that has a record, or leaves it.
LEMMA WebhookPoints ==
    ASSUME CInv, NEW w \in Workers, WebhookStep(w)
    PROVE  /\ rec' \in S!Recs /\ rec'.state = rec.state
           /\ rec'.call = rec.call \/ HP!HasRecord(w)
<1>1. rec \in S!Recs /\ worker[w].new \in Calls \cup {NoCall} /\ HP!WorkerOk(w)
  BY DEF CInv, Typed, HP!IInv, HP!TypeOK
<1>2. rec' \in S!Recs /\ rec'.state = rec.state
  BY <1>1 DEF WebhookStep, S!Recs
<1>3. H!Webhook(w)
  BY DEF WebhookStep
<1>4. CASE H!Repoint(w)
  BY <1>1, <1>2, <1>4 DEF H!Repoint, H!At, HP!WorkerOk
<1>5. CASE ~H!Repoint(w)
  <2>1. reception' = reception
    BY <1>3, <1>5 DEF H!Webhook, H!Check, H!Reserve, H!ReserveThrows, H!Dial, H!Unreached,
       H!Create, H!Abandon, H!Save
  <2> QED BY <1>2, <2>1 DEF reception
<1> QED BY <1>4, <1>5

LEMMA NextTyped == ASSUME CInv, [Next]_vars PROVE Typed'
<1>0. Typed
  BY DEF CInv
<1>1. CASE UNCHANGED <<rec, op, hand>>
  BY <1>0, <1>1 DEF Typed
<1>2. ASSUME NEW p \in Requests, Route(p) PROVE Typed'
  <2>1. StoreSide(p) /\ HandSide
    BY <1>2, RouteSteps
  <2> QED BY <1>0, <2>1, StoreTyped DEF StoreSide, HandSide, Typed
<1>3. ASSUME NEW w \in Workers, WebhookStep(w) PROVE Typed'
  <2>1. rec' \in S!Recs /\ UNCHANGED <<op, hand>>
    BY <1>3, WebhookPoints DEF WebhookStep
  <2> QED BY <1>0, <2>1 DEF Typed
<1> QED BY <1>1, <1>2, <1>3 DEF Next, vars, storeVars, Report, EndCall, Lapse

\* Every step of the whole is a step of the webhooks, or of what HopDial lets
\* the rest of the program do to the reception.
LEMMA HopStep == ASSUME CInv, [Next]_vars PROVE [H!Next]_H!vars
<1>1. rec' \in S!Recs
  BY NextTyped DEF Typed
<1>2. reception' \in [state : States, call : Calls \cup {NoCall}]
  BY <1>1, SameStates DEF reception, S!Recs
<1>3. UNCHANGED hopVars => H!Next
  BY <1>2 DEF H!Next, H!Elsewhere, hopVars
<1>4. ASSUME NEW p \in Requests, Route(p) PROVE H!Next
  <2>1. Phones
    BY <1>4, RouteSteps
  <2> QED BY <1>3, <2>1 DEF Phones, H!Next
<1>5. ASSUME NEW w \in Workers, WebhookStep(w) PROVE H!Next
  BY <1>5 DEF WebhookStep, H!Next
<1>6. ASSUME NEW w \in Workers, NEW m \in H!Messages, Report(w, m) PROVE H!Next
  BY <1>6 DEF Report, H!Next
<1>7. ASSUME NEW c \in Calls, EndCall(c) \/ Lapse(c) PROVE H!Next
  BY <1>7 DEF EndCall, Lapse, H!Next
<1>8. UNCHANGED vars => UNCHANGED hopVars
  BY DEF vars, hopVars
<1> QED BY <1>3, <1>4, <1>5, <1>6, <1>7, <1>8 DEF Next

LEMMA HopInv == ASSUME CInv, [Next]_vars PROVE HP!IInv'
<1>1. [HP!Next]_HP!vars
  BY HopStep, SameSteps
<1> QED BY <1>1, Assumed, HP!NextKeeps DEF CInv

\* What has been answered stays answered, and what is known stays known.
LEMMA StaysKnown ==
    ASSUME CInv, [Next]_vars
    PROVE  /\ Answered => Answered'
           /\ \A c \in Calls \cup {NoCall} :
                 Known(c) => (c # NoCall => corr'[c].status # "none")
<1>1. [HP!Next]_HP!vars
  BY HopStep, SameSteps
<1>2. \A c \in Calls : /\ corr[c].status # "none" => corr'[c].status # "none"
                       /\ corr[c].voice \in H!Success => corr'[c].voice \in H!Success
  <2>1. \A c \in Calls : /\ corr[c].status # "none" => corr'[c].status # "none"
                         /\ corr[c].voice \in HP!Success => corr'[c].voice \in HP!Success
    BY <1>1, Assumed, HP!NextKeepsRecords DEF CInv, HP!RecordsKept
  <2> QED BY <2>1, SameVoices
<1>3. Answered => Answered'
  BY <1>2 DEF Answered, H!Success
<1> QED BY <1>2, <1>3 DEF Known

LEMMA NextKnows == ASSUME CInv, [Next]_vars PROVE Knows'
<1> DEFINE Knew(c) == c # NoCall => corr'[c].status # "none"
           Fine(r) == Knew(r.call) /\ (r.state = "connected" => Answered')
           FineOp(o) == /\ Fine(o.seen) /\ Knew(o.input.call)
                        /\ o.fn = "connected" => Answered'
<1>0. /\ Typed /\ Knows /\ rec \in S!Recs /\ rec.call \in Calls \cup {NoCall}
      /\ \A p \in Requests : /\ op[p].seen.call \in Calls \cup {NoCall}
                             /\ op[p].input.call \in Calls \cup {NoCall}
  BY DEF CInv, Typed, S!Recs, S!Ops, S!Inputs
<1>1. Fine(rec) /\ \A p \in Requests : FineOp(op[p])
  BY <1>0, StaysKnown DEF Knows, RecOk
<1>2. ASSUME Fine(rec'), \A p \in Requests : FineOp(op'[p]) PROVE Knows'
  BY <1>2 DEF Knows, RecOk, Known
<1>3. CASE UNCHANGED <<rec, op>>
  BY <1>1, <1>2, <1>3
<1>4. ASSUME NEW p \in Requests, NEW o, op' = [op EXCEPT ![p] = o], FineOp(o), Fine(rec')
      PROVE  Knows'
  BY <1>0, <1>1, <1>2, <1>4 DEF Typed
<1>5. ASSUME NEW p \in Requests, Route(p) PROVE Knows'
  <2>1. StoreSide(p)
    BY <1>5, RouteSteps
  <2>2. ASSUME NEW o, Starts(p, o) PROVE Knows'
    <3>1. FineOp(o)
      BY <1>1, <2>2, IdleTyped, StaysKnown DEF Starts
    <3>2. Fine(rec') /\ op' = [op EXCEPT ![p] = o]
      BY <1>1, <2>2 DEF Starts
    <3> QED BY <1>4, <3>1, <3>2
  <2>3. ASSUME NEW r, NEW o, Moves(p, r, o) PROVE Knows'
    <3>1. ASSUME NEW s, From(p, s) PROVE Fine(s)
      BY <1>1, <3>1 DEF From
    <3>2. Fine(rec') /\ FineOp(o) /\ op' = [op EXCEPT ![p] = o]
      BY <1>1, <2>3, <3>1 DEF Moves
    <3> QED BY <1>4, <3>2
  <2> QED BY <1>3, <2>1, <2>2, <2>3 DEF StoreSide
<1>6. ASSUME NEW w \in Workers, WebhookStep(w) PROVE Knows'
  <2>1. /\ rec' \in {rec, [rec EXCEPT !.call = worker[w].new]} /\ op' = op
        /\ rec'.state = rec.state /\ (rec'.call = rec.call \/ HP!HasRecord(w))
    BY <1>6, WebhookPoints DEF WebhookStep
  <2>2. CASE rec'.call = rec.call
    BY <1>1, <1>2, <2>1, <2>2
  <2>3. CASE rec'.call # rec.call
    <3>1. /\ rec'.call = worker[w].new /\ rec'.call \in Calls
          /\ corr[rec'.call].status # "none"
      BY <1>0, <2>1, <2>3 DEF HP!HasRecord, S!Recs
    <3>2. Fine(rec')
      BY <1>1, <2>1, <3>1, StaysKnown DEF Known
    <3> QED BY <1>1, <1>2, <2>1, <3>2
  <2> QED BY <2>2, <2>3
<1> QED BY <1>3, <1>5, <1>6 DEF Next, vars, storeVars, Report, EndCall, Lapse

LEMMA InvStep == CInv /\ [Next]_vars => CInv'
BY HopInv, NextTyped, NextKnows DEF CInv

LEMMA InvStarts == Init => CInv
<1> SUFFICES ASSUME Init PROVE CInv
  OBVIOUS
<1>1. HP!IInv
  BY Assumed, SameHop, HP!InitHolds DEF Init
<1>2. /\ rec = S!Created /\ \A p \in Requests : op[p] = S!Idle
      /\ op \in [Requests -> S!Ops]
  BY IdleTyped DEF Init, S!Init
<1>3. hand \in [Requests -> Hands] /\ \A p \in Requests : hand[p].at = "new"
  BY DEF Init, Arrived, Hands, States
<1>4. Typed
  BY <1>2, <1>3, IdleTyped DEF Typed
<1>5. Knows
  BY <1>2, IdleTyped DEF Knows, RecOk, Known
<1> QED BY <1>1, <1>4, <1>5 DEF CInv

LEMMA InvAlways == Spec => []CInv
BY InvStarts, InvStep, PTL DEF Spec

-----------------------------------------------------------------------------
\* A call that is lost, or that has dialed a next one, is over at the provider:
\* the reports that lose a call come after its end.
Ended ==
    /\ \A c \in Calls : corr[c].voice \in HP!Lost \/ HP!HasChild(c) => line[c] = "over"
    /\ \A w \in Workers :
          /\ worker[w].at # "idle"
          /\ worker[w].seen.voice \in HP!Lost \/ worker[w].next.voice \in HP!Lost
          => line[worker[w].call] = "over"

\* The requests to /call that have gone beyond placing a call.  Each has placed
\* one call at most.
Sent == {p \in Posts : hand[p].at \notin {"new", "dial"}}

FirstPlaced == HP!PlacedCalls \cap FirstCalls

Begun == /\ \A p \in Requests : /\ hand[p].at \in {"dial", "create"} => p \in Posts
                                /\ hand[p].at = "resolve" => p \in Polls
         /\ Cardinality(FirstPlaced) <= Cardinality(Sent)

NobodyDeclines == Heard \cap {"declined", "delegate"} = {}

LEMMA EndedStays ==
    ASSUME CInv, Ended, [Next]_vars,
           \A c \in Calls : corr'[c].voice \in HP!Lost \/ HP!HasChild(c)' =>
              \/ corr[c].voice \in HP!Lost \/ HP!HasChild(c)
              \/ \E w \in Workers :
                    /\ worker[w].at # "idle" /\ worker[w].call = c
                    /\ worker[w].seen.voice \in HP!Lost \/ worker[w].next.voice \in HP!Lost,
           \A w \in Workers :
              /\ worker'[w].at # "idle"
              /\ worker'[w].seen.voice \in HP!Lost \/ worker'[w].next.voice \in HP!Lost
              => line[worker'[w].call] = "over" /\ worker'[w].call \in Calls
    PROVE  Ended'
<1>1. \A c \in Calls : line[c] = "over" => line'[c] = "over"
  <2>1. [HP!Next]_HP!vars
    BY HopStep, SameSteps
  <2> QED BY <2>1, Assumed, HP!OverStays DEF CInv
<1>2. ASSUME NEW c \in Calls, corr'[c].voice \in HP!Lost \/ HP!HasChild(c)'
      PROVE  line'[c] = "over"
  BY <1>1, <1>2 DEF Ended
<1>3. ASSUME NEW w \in Workers, worker'[w].at # "idle",
             worker'[w].seen.voice \in HP!Lost \/ worker'[w].next.voice \in HP!Lost
      PROVE  line'[worker'[w].call] = "over"
  BY <1>1, <1>3
<1> QED BY <1>2, <1>3 DEF Ended, HP!Lost, HP!Decided, HP!Success

LEMMA EndedKept == ASSUME CInv, NobodyDeclines, Ended, [Next]_vars PROVE Ended'
<1> DEFINE Losing(w) == worker[w].seen.voice \in HP!Lost \/ worker[w].next.voice \in HP!Lost
<1>0. /\ HP!IInv /\ "queued" \notin HP!Lost
      /\ \A w \in Workers : worker[w].at # "idle" => worker[w].call \in Calls
  BY DEF CInv, HP!IInv, HP!WorkerOk, HP!SeenOk, HP!Lost, HP!Decided
<1>1. ASSUME \A c \in Calls : corr'[c].voice \in {corr[c].voice, "queued"},
             UNCHANGED <<dialer, worker>>
      PROVE  Ended'
  BY <1>0, <1>1, EndedStays DEF Ended, HP!HasChild
<1>2. ASSUME NEW p \in Requests, Route(p) PROVE Ended'
  <2>1. Phones
    BY <1>2, RouteSteps
  <2>2. ASSUME NEW c \in Calls, H!FirstDial(c) \/ H!EndCall(c) PROVE Ended'
    BY <1>1, <2>2 DEF H!FirstDial, H!EndCall
  <2>3. ASSUME NEW c \in Calls, H!FirstCreate(c) PROVE Ended'
    <3> DEFINE r == [H!NoRecord EXCEPT !.status = "in_flight",
                       !.policy = H!StartRouting(Policies, Entry).policy,
                       !.step = H!StartRouting(Policies, Entry).step]
    <3>1. r.voice = "queued" /\ corr' = [corr EXCEPT ![c] = r] /\ UNCHANGED <<dialer, worker>>
      BY <2>3 DEF H!FirstCreate, H!NoRecord
    <3> HIDE DEF r
    <3>2. corr \in [Calls -> HP!Correlations]
      BY <1>0 DEF HP!IInv, HP!TypeOK
    <3> QED BY <1>1, <3>1, <3>2
  <2> QED BY <1>1, <2>1, <2>2, <2>3 DEF Phones, hopVars
<1>3. ASSUME NEW w \in Workers, WebhookStep(w) PROVE Ended'
  <2>1. HP!Webhook(w)
    BY <1>3, SameActions DEF WebhookStep
  <2>2. \A c \in Calls : corr'[c].voice \in HP!Lost =>
           corr[c].voice \in HP!Lost \/ (worker[w].at # "idle" /\ worker[w].call = c /\ Losing(w))
    BY <1>0, <2>1, Assumed, HP!VoicesWritten
  <2>3. \A c \in Calls : HP!HasChild(c)' =>
           HP!HasChild(c) \/ (worker[w].at # "idle" /\ worker[w].call = c /\ Losing(w))
    BY <1>0, <2>1, Assumed, HP!WebhookDials
  <2>4. \A v \in Workers :
           /\ worker'[v].at # "idle"
           /\ worker'[v].seen.voice \in HP!Lost \/ worker'[v].next.voice \in HP!Lost
           => worker[v].at # "idle" /\ worker'[v].call = worker[v].call /\ Losing(v)
    BY <1>0, <2>1, Assumed, HP!WebhookGoesOn
  <2>5. \A v \in Workers :
           /\ worker'[v].at # "idle"
           /\ worker'[v].seen.voice \in HP!Lost \/ worker'[v].next.voice \in HP!Lost
           => line[worker'[v].call] = "over" /\ worker'[v].call \in Calls
    BY <1>0, <2>4 DEF Ended
  <2> QED BY <2>2, <2>3, <2>5, EndedStays
<1>4. ASSUME NEW w \in Workers, NEW m \in H!Messages, Report(w, m) PROVE Ended'
  <2>1. HP!Receive(w, m) /\ m \in HP!Messages /\ (m[2] \in Final => line[m[1]] = "over")
    BY <1>4, SameActions DEF Report, H!Messages, HP!Messages
  <2>2. /\ UNCHANGED <<corr, line, dialer>>
        /\ m[1] \in Calls /\ m[2] \in Heard
        /\ worker'[w].call = m[1] /\ worker'[w].seen = corr[m[1]]
        /\ worker'[w].next.voice = HP!ApplyVoiceEvent(corr[m[1]].voice, m[2])
        /\ \A v \in Workers : v # w => worker'[v] = worker[v]
    BY <1>0, <2>1, Assumed, HP!ReportReceived
  <2>3. corr[m[1]].voice \in HP!VoiceStates /\ m[2] \in HP!VoiceEvents
    BY <1>0, <2>2, Assumed DEF HP!IInv, HP!TypeOK, HP!Correlations, HP!HopDialAssumption
  <2>4. worker'[w].next.voice \in HP!Lost => corr[m[1]].voice \in HP!Lost \/ m[2] \in Final
    BY <2>2, <2>3, Assumed, HP!LosingReports DEF NobodyDeclines, Final
  <2>5. worker'[w].seen.voice \in HP!Lost \/ worker'[w].next.voice \in HP!Lost
          => line[m[1]] = "over"
    BY <2>1, <2>2, <2>4 DEF Ended
  <2>6. \A v \in Workers :
           /\ worker'[v].at # "idle"
           /\ worker'[v].seen.voice \in HP!Lost \/ worker'[v].next.voice \in HP!Lost
           => line[worker'[v].call] = "over" /\ worker'[v].call \in Calls
    BY <1>0, <2>2, <2>5 DEF Ended
  <2> QED BY <2>2, <2>6, EndedStays DEF HP!HasChild
<1>5. ASSUME NEW c \in Calls, EndCall(c) \/ Lapse(c) PROVE Ended'
  BY <1>1, <1>5 DEF EndCall, Lapse, H!EndCall, H!Lapse
<1>6. CASE UNCHANGED vars
  BY <1>1, <1>6 DEF vars
<1> QED BY <1>2, <1>3, <1>4, <1>5, <1>6 DEF Next

\* The first calls that are placed, and where the requests are.
LEMMA FirstsFinite == IsFiniteSet(FirstPlaced) /\ Cardinality(FirstPlaced) \in Nat
<1>1. IsFiniteSet(FirstCalls)
  <2>1. H!IsFiniteSet(Calls) /\ FirstCalls \subseteq Calls
    BY PartsAssumption DEF H!HopDialAssumption
  <2>2. H!IsFiniteSet(Calls) => IsFiniteSet(Calls)
    BY ONLY Zenon DEF H!IsFiniteSet, IsFiniteSet
  <2> QED BY <2>1, <2>2, FS_Subset
<1>2. IsFiniteSet(FirstPlaced)
  BY <1>1, FS_Subset DEF FirstPlaced
<1> QED BY <1>2, FS_CardinalityType

LEMMA SentFinite == IsFiniteSet(Sent) /\ Cardinality(Sent) \in Nat
<1>1. IsFiniteSet(Sent)
  BY PostsAssumption, FS_Subset DEF Sent
<1> QED BY <1>1, FS_CardinalityType

\* A request goes on, and places no call.
LEMMA BegunStays ==
    ASSUME Typed, Begun, FirstPlaced' = FirstPlaced,
           NEW p \in Requests, NEW h \in Hands, hand' = [hand EXCEPT ![p] = h],
           h.at \in {"dial", "create"} => p \in Posts,
           h.at = "resolve" => p \in Polls,
           p \in Sent => h.at \notin {"new", "dial"}
    PROVE  Begun'
<1>1. Sent \subseteq Sent' /\ IsFiniteSet(Sent')
  <2>1. Sent' = {q \in Posts : hand'[q].at \notin {"new", "dial"}}
    BY DEF Sent
  <2>2. Sent \subseteq Sent'
    BY <2>1 DEF Typed, Sent, Requests
  <2>3. IsFiniteSet(Sent')
    BY <2>1, PostsAssumption, FS_Subset
  <2> QED BY <2>2, <2>3
<1>2. Cardinality(Sent) <= Cardinality(Sent') /\ Cardinality(Sent') \in Nat
  BY <1>1, FS_Subset, FS_CardinalityType
<1>3. Cardinality(FirstPlaced') <= Cardinality(Sent')
  BY <1>2, SentFinite, FirstsFinite DEF Begun
<1>4. \A q \in Requests : /\ hand'[q].at \in {"dial", "create"} => q \in Posts
                          /\ hand'[q].at = "resolve" => q \in Polls
  BY DEF Typed, Begun
<1> QED BY <1>3, <1>4 DEF Begun

\* A request places a first call.
LEMMA BegunPlaces ==
    ASSUME CInv, Begun, NEW p \in Requests, hand[p].at = "dial",
           NEW n \in FirstCalls, H!FirstDial(n),
           hand' = [hand EXCEPT ![p].at = "create", ![p].call = n]
    PROVE  Begun'
<1>0. /\ line \in [Calls -> {"free", "ringing", "over"}] /\ n \in Calls
      /\ hand \in [Requests -> Hands]
  BY Assumed DEF CInv, Typed, HP!IInv, HP!TypeOK
<1>1. n \notin FirstPlaced /\ FirstPlaced' = FirstPlaced \cup {n}
  BY <1>0 DEF H!FirstDial, FirstPlaced, HP!PlacedCalls
<1>2. p \in Posts
  BY DEF Begun
<1>3. /\ hand'[p].at = "create"
      /\ \A q \in Requests : q # p => hand'[q] = hand[q]
  BY <1>0 DEF Hands
<1>4. p \notin Sent /\ Sent' = Sent \cup {p}
  BY <1>2, <1>3 DEF Sent, Requests
<1>5. Cardinality(FirstPlaced') = Cardinality(FirstPlaced) + 1
  <2>1. Cardinality(FirstPlaced \cup {n}) = Cardinality(FirstPlaced) + 1
    BY <1>1, FirstsFinite, FS_AddElement
  <2> QED BY <1>1, <2>1
<1>6. Cardinality(Sent') = Cardinality(Sent) + 1
  <2>1. Cardinality(Sent \cup {p}) = Cardinality(Sent) + 1
    BY <1>4, SentFinite, FS_AddElement
  <2> QED BY <1>4, <2>1
<1>7. Cardinality(FirstPlaced') <= Cardinality(Sent')
  BY <1>5, <1>6, SentFinite, FirstsFinite DEF Begun
<1> QED BY <1>2, <1>3, <1>7 DEF Begun

LEMMA BegunKept == ASSUME CInv, Begun, [Next]_vars PROVE Begun'
<1>0. /\ Typed /\ line \in [Calls -> {"free", "ringing", "over"}]
      /\ hand \in [Requests -> Hands] /\ rec \in S!Recs
  BY DEF CInv, Typed, HP!IInv, HP!TypeOK
<1>1. UNCHANGED line => FirstPlaced' = FirstPlaced
  BY DEF FirstPlaced, HP!PlacedCalls
<1>2. ASSUME NEW c \in Calls, H!EndCall(c) \/ H!FirstCreate(c) PROVE FirstPlaced' = FirstPlaced
  BY <1>0, <1>1, <1>2 DEF H!EndCall, H!FirstCreate, FirstPlaced, HP!PlacedCalls
<1>3. CASE UNCHANGED hand /\ FirstPlaced' = FirstPlaced
  BY <1>3 DEF Begun, Sent
<1>4. ASSUME NEW p \in Requests, NEW label \in {"store", "done"}, Goto(p, label),
             FirstPlaced' = FirstPlaced
      PROVE  Begun'
  <2> DEFINE h == [hand[p] EXCEPT !.at = label]
  <2>1. h \in Hands /\ h.at = label /\ hand' = [hand EXCEPT ![p] = h]
    BY <1>0, <1>4 DEF Goto, Hands
  <2> HIDE DEF h
  <2> QED BY <1>0, <1>4, <2>1, BegunStays
<1>5. ASSUME NEW p \in Requests, NEW label \in {"dial", "resolve", "store", "done"},
             Reads(p, label), FirstPlaced' = FirstPlaced,
             label = "dial" => p \in Posts /\ hand[p].at = "new",
             label = "resolve" => p \in Polls
      PROVE  Begun'
  <2> DEFINE h == [at |-> label, state |-> rec.state, call |-> rec.call]
  <2>1. h \in Hands /\ h.at = label /\ hand' = [hand EXCEPT ![p] = h]
    BY <1>0, <1>5, SameStates DEF Reads, S!Recs, Hands
  <2>2. p \in Sent => h.at \notin {"new", "dial"}
    BY <1>5, <2>1 DEF Sent
  <2> HIDE DEF h
  <2> QED BY <1>0, <1>5, <2>1, <2>2, BegunStays
<1>6. ASSUME NEW p \in Requests, p \in Polls, hand' = [hand EXCEPT ![p] = Arrived],
             FirstPlaced' = FirstPlaced
      PROVE  Begun'
  <2>1. Arrived \in Hands /\ Arrived.at = "new" /\ p \notin Sent
    BY <1>6, PostsAssumption DEF Arrived, Hands, States, Sent
  <2> QED BY <1>0, <1>6, <2>1, BegunStays
<1>7. ASSUME NEW p \in Requests, Route(p) PROVE Begun'
  <2>1. CASE CallArrives(p)
    BY <1>1, <1>5, <2>1 DEF CallArrives, At, hopVars
  <2>2. CASE CallRefuses(p)
    BY <1>1, <1>4, <2>2 DEF CallRefuses, hopVars
  <2>3. CASE CallDials(p)
    <3>1. CASE Goto(p, "store") /\ UNCHANGED hopVars
      BY <1>1, <1>4, <3>1 DEF hopVars
    <3>2. CASE \E n \in FirstCalls :
                  /\ H!FirstDial(n)
                  /\ hand' = [hand EXCEPT ![p].at = "create", ![p].call = n]
      BY <2>3, <3>2, BegunPlaces DEF CallDials, At
    <3> QED BY <2>3, <3>1, <3>2 DEF CallDials
  <2>4. CASE CallCreates(p)
    <3>1. FirstPlaced' = FirstPlaced
      <4>1. CASE UNCHANGED hopVars
        BY <1>1, <4>1 DEF hopVars
      <4>2. CASE H!FirstCreate(hand[p].call)
        BY <1>1, <4>2 DEF H!FirstCreate
      <4> QED BY <2>4, <4>1, <4>2 DEF CallCreates
    <3> QED BY <1>4, <2>4, <3>1 DEF CallCreates
  <2>5. CASE StatusArrives(p)
    BY <1>1, <1>5, <2>5 DEF StatusArrives, hopVars
  <2>6. CASE StatusResolves(p)
    <3>1. p \in Polls /\ FirstPlaced' = FirstPlaced
      BY <1>1, <2>6 DEF StatusResolves, At, Begun, hopVars
    <3> QED BY <1>4, <1>6, <2>6, <3>1 DEF StatusResolves
  <2>7. CASE StatusAnswers(p)
    BY <1>1, <1>6, <2>7 DEF StatusAnswers, hopVars
  <2>8. CASE CancelArrives(p)
    BY <1>1, <1>5, <2>8 DEF CancelArrives, hopVars
  <2>9. CASE GiveUpArrives(p)
    BY <1>1, <1>5, <2>9 DEF GiveUpArrives, hopVars
  <2>10. CASE HangsUp(p)
    <3>1. FirstPlaced' = FirstPlaced
      <4>1. CASE UNCHANGED hopVars
        BY <1>1, <4>1 DEF hopVars
      <4>2. CASE hand[p].call # NoCall /\ H!EndCall(hand[p].call)
        <5>1. hand[p].call \in Calls
          BY <1>0, <4>2 DEF Hands
        <5> QED BY <1>2, <4>2, <5>1
      <4> QED BY <2>10, <4>1, <4>2 DEF HangsUp
    <3> QED BY <1>4, <2>10, <3>1 DEF HangsUp
  <2>11. CASE StoreStep(p)
    BY <1>1, <1>3, <2>11 DEF StoreStep, hopVars
  <2> QED BY <1>7, <2>1, <2>2, <2>3, <2>4, <2>5, <2>6, <2>7, <2>8, <2>9, <2>10, <2>11 DEF Route
<1>8. ASSUME NEW w \in Workers, WebhookStep(w) PROVE Begun'
  <2>1. HP!IInv /\ HP!Webhook(w) /\ UNCHANGED hand
    BY <1>8, SameActions DEF WebhookStep, CInv
  <2>2. FirstPlaced' = FirstPlaced
    BY <2>1, Assumed, HP!WebhookDials DEF FirstPlaced
  <2> QED BY <1>3, <2>1, <2>2
<1>9. ASSUME NEW w \in Workers, NEW m \in H!Messages, Report(w, m) PROVE Begun'
  BY <1>1, <1>3, <1>9 DEF Report, H!Receive
<1>10. ASSUME NEW c \in Calls, EndCall(c) \/ Lapse(c) PROVE Begun'
  BY <1>1, <1>2, <1>3, <1>10 DEF EndCall, Lapse, H!Lapse
<1>11. CASE UNCHANGED vars
  BY <1>1, <1>3, <1>11 DEF vars
<1> QED BY <1>7, <1>8, <1>9, <1>10, <1>11 DEF Next

\* The routings, the calls that are over and the requests that have begun.
RInv == CInv /\ Ended /\ Begun /\ HP!HopsInv /\ HP!Rooted

LEMMA RingStep == NobodyDeclines /\ RInv /\ [Next]_vars => RInv'
<1> SUFFICES ASSUME NobodyDeclines, RInv, [Next]_vars PROVE RInv'
  OBVIOUS
<1>1. CInv' /\ Ended' /\ Begun'
  BY InvStep, EndedKept, BegunKept DEF RInv
<1>2. [HP!Next]_HP!vars
  BY HopStep, SameSteps DEF RInv
<1>3. HP!HopsInv' /\ HP!Rooted'
  BY <1>2, Assumed, HP!HopsKept, HP!RootsKept DEF RInv, CInv
<1> QED BY <1>1, <1>3 DEF RInv

LEMMA RingStarts == Init => RInv
<1> SUFFICES ASSUME Init PROVE RInv
  OBVIOUS
<1>1. HP!Init
  BY SameHop DEF Init
<1>2. HP!HopsInv /\ HP!Rooted
  BY <1>1, Assumed, HP!InitRooted
<1>3. /\ \A c \in Calls : line[c] = "free" /\ corr[c].voice = "queued" /\ dialer[c] = NoCall
      /\ \A w \in Workers : worker[w].at = "idle"
      /\ NoCall \notin Calls
  BY <1>1, Assumed DEF HP!Init, HP!NoRecord, HP!Idle
<1>4. Ended
  BY <1>3 DEF Ended, HP!HasChild, HP!Lost, HP!Decided
<1>5. FirstPlaced = {}
  BY <1>3 DEF FirstPlaced, HP!PlacedCalls
<1>6. \A p \in Requests : hand[p].at = "new"
  BY DEF Init, Arrived
<1>7. Cardinality(FirstPlaced) <= Cardinality(Sent)
  BY <1>5, FS_EmptySet, SentFinite
<1>8. Begun
  BY <1>6, <1>7 DEF Begun
<1> QED BY <1>2, <1>4, <1>8, InvStarts DEF RInv

LEMMA RingFew == RInv => OneRinging
<1> SUFFICES ASSUME RInv PROVE OneRinging
  OBVIOUS
<1> DEFINE R == {c \in Calls : line[c] = "ringing"}
<1>1. \E f \in [R -> FirstPlaced] : \A c, d \in R : f[c] = f[d] => c = d
  BY Assumed, HP!FewRing DEF RInv, Ended, FirstPlaced, HP!RingingCalls
<1>2. IsFiniteSet(R) /\ Cardinality(R) \in Nat
  <2>1. IsFiniteSet(Calls)
    BY PartsAssumption DEF H!HopDialAssumption, H!IsFiniteSet, IsFiniteSet
  <2>2. IsFiniteSet(R)
    BY <2>1, FS_Subset
  <2> QED BY <2>2, FS_CardinalityType
<1> HIDE DEF R
<1>3. Cardinality(R) <= Cardinality(FirstPlaced)
  <2>1. PICK f \in [R -> FirstPlaced] : \A c, d \in R : f[c] = f[d] => c = d
    BY <1>1
  <2>2. f \in Injection(R, FirstPlaced)
    BY <2>1 DEF Injection, IsInjective
  <2> QED BY <2>2, FirstsFinite, FS_Injection
<1>4. Sent \subseteq Posts
  BY DEF Sent
<1>5. Cardinality(Sent) <= Cardinality(Posts) /\ Cardinality(Posts) \in Nat
  BY <1>4, PostsAssumption, FS_Subset, FS_CardinalityType
<1>6. Cardinality(FirstPlaced) <= Cardinality(Sent)
  BY DEF RInv, Begun
<1> QED BY <1>2, <1>3, <1>5, <1>6, FirstsFinite, SentFinite DEF OneRinging, R

-----------------------------------------------------------------------------
\* The routes and the store are an environment of the webhooks as HopDial
\* allows one, so that every theorem about HopDial is one about the whole.
THEOREM ImplementsHop == Spec => HopSpec
<1>1. Init => H!Init
  BY DEF Init
<1>2. CInv /\ [Next]_vars => [H!Next]_H!vars
  BY HopStep
<1> QED BY <1>1, <1>2, InvAlways, PTL DEF Spec, HopSpec, H!Spec

\* A visitor who is told that somebody answers (GET /status) is told so because
\* a member of staff has taken a call of the reception.
THEOREM ConnectedTruthfully == Spec => []ConnectedIsAnswered
<1>1. CInv => ConnectedIsAnswered
  BY DEF CInv, Knows, RecOk, Answered, ConnectedIsAnswered
<1> QED BY <1>1, InvAlways, PTL

\* The reception never points at a call without a record (repointProviderCall
\* and startCall are called after the record is put).
THEOREM PointsToRecords == Spec => []PointsAtRecord
<1>1. CInv => PointsAtRecord
  BY DEF CInv, Knows, RecOk, Known, PointsAtRecord
<1> QED BY <1>1, InvAlways, PTL

\* The phones of two members of staff do not ring at once for one visitor, one
\* for each request to /call at most: a webhook dials the next call only when
\* the call before it is over (dialNextHop), unless a member of staff declines
\* by key and stays on the line.
THEOREM OnePhoneRings == NobodyDeclines => (Spec => []OneRinging)
<1> SUFFICES ASSUME NobodyDeclines PROVE Spec => []OneRinging
  OBVIOUS
<1>1. RInv /\ [Next]_vars => RInv'
  BY RingStep
<1> QED BY <1>1, RingStarts, RingFew, PTL DEF Spec

\* Whatever the routes and deliveries do beside each other, one next call at
\* most is dialed because of a call (dialNextHop), and none because of a call
\* that a member of staff has taken.
THEOREM WholeDialsOnce == Spec => [](HP!OneChild /\ HP!AcceptedStops)
<1>1. CInv => HP!OneChild /\ HP!AcceptedStops
  BY Assumed, HP!InvDialsOnce DEF CInv
<1> QED BY <1>1, InvAlways, PTL

\* Each request to /call costs a reception maxHops calls at most, however often
\* the webhooks are delivered and whatever fails: /call places one call
\* (call-execution.ts), and dialNextHop the next ones.
THEOREM DialsPerRequest ==
    Spec => [](Cardinality(HP!PlacedCalls) <= MaxHops * Cardinality(Posts))
<1> DEFINE Few == Cardinality(HP!PlacedCalls) <= MaxHops * Cardinality(Posts)
           DInv == CInv /\ Begun /\ HP!HopsInv /\ HP!Rooted
<1>1. Init => DInv
  BY RingStarts DEF RInv
<1>2. DInv /\ [Next]_vars => DInv'
  <2> SUFFICES ASSUME DInv, [Next]_vars PROVE DInv'
    OBVIOUS
  <2>1. CInv' /\ Begun'
    BY InvStep, BegunKept
  <2>2. [HP!Next]_HP!vars
    BY HopStep, SameSteps
  <2>3. HP!HopsInv' /\ HP!Rooted'
    BY <2>2, Assumed, HP!HopsKept, HP!RootsKept DEF CInv
  <2> QED BY <2>1, <2>3
<1>3. DInv => Few
  <2> SUFFICES ASSUME DInv PROVE Few
    OBVIOUS
  <2> DEFINE Hops == 1 .. MaxHops
  <2>1. PICK f \in [HP!PlacedCalls -> FirstPlaced \X Hops] :
          \A c, d \in HP!PlacedCalls : f[c] = f[d] => c = d
    BY Assumed, HP!Numbered DEF FirstPlaced
  <2>2. MaxHops \in Nat
    BY PartsAssumption DEF H!HopDialAssumption
  <2>3. IsFiniteSet(Hops) /\ Cardinality(Hops) = MaxHops
    BY <2>2, FS_Interval
  <2> HIDE DEF Hops
  <2>4. f \in Injection(HP!PlacedCalls, FirstPlaced \X Hops)
    BY <2>1 DEF Injection, IsInjective
  <2>5. /\ IsFiniteSet(FirstPlaced \X Hops)
        /\ Cardinality(FirstPlaced \X Hops) = Cardinality(FirstPlaced) * MaxHops
    BY <2>3, FirstsFinite, FS_Product
  <2>6. /\ Cardinality(HP!PlacedCalls) <= Cardinality(FirstPlaced \X Hops)
        /\ IsFiniteSet(HP!PlacedCalls)
    BY <2>4, <2>5, FS_Injection
  <2>7. Cardinality(HP!PlacedCalls) \in Nat /\ Cardinality(FirstPlaced) \in Nat
    BY <2>6, FirstsFinite, FS_CardinalityType
  <2>8. Cardinality(Sent) <= Cardinality(Posts) /\ Cardinality(Posts) \in Nat
    <3>1. Sent \subseteq Posts
      BY DEF Sent
    <3> QED BY <3>1, PostsAssumption, FS_Subset, FS_CardinalityType
  <2>9. Cardinality(FirstPlaced) <= Cardinality(Posts)
    BY <2>7, <2>8, SentFinite DEF Begun
  <2>10. Cardinality(FirstPlaced) * MaxHops <= MaxHops * Cardinality(Posts)
    BY <2>2, <2>7, <2>8, <2>9
  <2> QED BY <2>2, <2>5, <2>6, <2>7, <2>8, <2>10
<1> QED BY <1>1, <1>2, <1>3, PTL DEF Spec
=============================================================================
