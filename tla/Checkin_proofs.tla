---------------------------- MODULE Checkin_proofs ----------------------------
(***************************************************************************)
(* Theorems about the check-in with one reservation, for any number of     *)
(* terminals, requests, days and tokens.                                   *)
(***************************************************************************)
EXTENDS Checkin, TLAPS

USE FunctionsAssumption, BoundsAssumption, ProcessesAssumption

Answers == {"ok", "expired", "used", "revoked", "not_found", "network",
            "connected", "calling", "timeout", "failed", "confirming", None}

Ops == [fn : AdminFunctions \cup {"none", "resolve", "confirm"},
        at : {"done", "read", "expire", "put", "create", "call", "answered"},
        token : Tokens \cup {None}, seen : Reservations \cup {None}, answer : Answers]

Screens == [state : States, payload : Tokens \cup {None}, scan : Scans \cup {None},
            polls : BOOLEAN, overdue : BOOLEAN, held : BOOLEAN]

\* What a request o of process p is about: the copy it is going to put.
Fits(p, o) ==
    /\ p \in Clerks => o.fn \in Functions \cup {"none"}
                       /\ o.at \in {"done", "read", "expire", "put"}
    /\ p \in Scans => o.fn \in {"none", "resolve", "confirm"}
    /\ o.at \in {"expire", "put"} => o.seen \in Reservations
    /\ o.at = "expire" => o.seen.status = "expired"
    /\ o.at = "put" => /\ o.fn \in Functions \cup {"confirm"}
                       /\ o.fn = "confirm" => o.seen.status = "used"
                       /\ o.fn \in {"cancel", "revoke"} => o.seen.status \in {"cancelled", "revoked"}

\* A terminal waits only for a chain of its own.
Waits(s) == s.polls \/ s.held => s.state = "calling" /\ s.scan # None

Processes == Clerks \cup Scans

\* The types, part by part.
ServerTyped == /\ record \in Reservations /\ issued \in Tokens /\ now \in Days
               /\ op \in [Processes -> Ops] /\ \A p \in Processes : Fits(p, op[p])
               /\ admissions \in [Tokens -> Nat]

ScreensTyped == /\ screen \in [Terminals -> Screens]
                /\ \A t \in Terminals : Waits(screen[t])

Busy(o) == o.at \in {"read", "expire", "put", "create", "call"}

\* A chain that says "connected" has a reception that is, and so has a screen
\* that shows the visit as completed; the call of a chain on its way is not placed.
CallTold ==
    /\ reception \in [Scans -> {"none", "confirming", "calling", "connected", "timeout", "failed"}]
    /\ \A p \in Scans : op[p].at = "answered" /\ op[p].answer = "connected" =>
                           reception[p] = "connected"
    /\ \A p \in Scans : Busy(op[p]) => reception[p] \in {"none", "confirming"}
    /\ \A t \in Terminals : screen[t].state = "completed" =>
                               screen[t].scan \in Scans /\ reception[screen[t].scan] = "connected"

Base == ServerTyped /\ ScreensTyped /\ CallTold

-----------------------------------------------------------------------------
\* The operations of the life cycle.
LEMMA ChangedFacts ==
    ASSUME NEW r \in Reservations, NEW fn, NEW r2 \in Changed(fn, r), issued \in Tokens,
           fn = "reissue" => issued < MaxTokens
    PROVE  /\ r2 \in Reservations
           /\ fn \in AdminFunctions \cup {"confirm"}
           /\ fn = "confirm" => r.status = "active" /\ r2.status = "used" /\ r2.token = r.token
           /\ fn \in {"cancel", "revoke"} => r2.status \in {"cancelled", "revoked"}
                                             /\ r2.token = r.token
           /\ fn = "reissue" => r2.token = issued + 1
<1>1. CASE fn = "confirm"
  <2>1. r.status = "active" /\ r2 = [r EXCEPT !.status = "used"]
    BY <1>1 DEF Changed, MarkUsed, Usable
  <2> QED BY <1>1, <2>1 DEF Reservations, Statuses
<1>2. CASE fn \in {"cancel", "revoke"}
  <2>1. r2 = [r EXCEPT !.status = IF fn = "cancel" THEN "cancelled" ELSE "revoked"]
    BY <1>2 DEF Changed, Ended
  <2> QED BY <1>2, <2>1 DEF Reservations, Statuses, AdminFunctions
<1>3. CASE fn = "edit"
  BY <1>3 DEF Changed, Edited, AdminFunctions
<1>4. CASE fn = "reissue"
  <2>1. PICK e \in {r.expires, MaxDay + 1} :
           r2 = [r EXCEPT !.status = "active", !.token = issued + 1, !.expires = e]
    BY <1>4 DEF Changed, Reissued
  <2>2. e \in 1 .. MaxDay + 1 /\ issued + 1 \in Tokens
    BY <1>4 DEF Reservations, Tokens
  <2> QED BY <1>4, <2>1, <2>2 DEF Reservations, Statuses, AdminFunctions
<1> QED BY <1>1, <1>2, <1>3, <1>4 DEF Changed

LEMMA MarkedFacts ==
    ASSUME NEW r \in Reservations
    PROVE  /\ MarkedExpired(r) \in Reservations /\ MarkedExpired(r).token = r.token
           /\ MarkedExpired(r) # r => MarkedExpired(r).status = "expired"
BY DEF MarkedExpired, Reservations, Statuses

LEMMA ReasonFacts == ASSUME NEW r PROVE ReasonFor(r) \in {"expired", "used", "revoked", "not_found"}
<1>1. CASE r.status \in {"used", "revoked"}
  BY <1>1 DEF ReasonFor
<1>2. CASE r.status \notin {"used", "revoked"}
  BY <1>2 DEF ReasonFor
<1> QED BY <1>1, <1>2

\* Process p goes on as o.
Proceeds(p, o) == op' = [op EXCEPT ![p] = o] /\ o \in Ops /\ Fits(p, o)

\* It has ended with an answer that is not that of a connected call.
Ends(o, answer) ==
    /\ o.at \in {"done", "answered"}
    /\ o.at = "answered" /\ o.answer = "connected" => answer = "connected"

LEMMA FinishMoves ==
    ASSUME ServerTyped, NEW p \in Processes, NEW answer \in Answers, Finish(p, answer)
    PROVE  \E o : Proceeds(p, o) /\ Ends(o, answer)
<1>1. CASE p \in Clerks
  <2>1. op' = [op EXCEPT ![p] = Free]
    BY <1>1 DEF Finish, ServerTyped
  <2>2. Free \in Ops /\ Fits(p, Free) /\ Ends(Free, answer)
    BY <1>1, <2>1 DEF Free, Ops, Fits, Answers, Ends
  <2> QED BY <2>1, <2>2 DEF Proceeds
<1>2. CASE p \notin Clerks
  <2> DEFINE o == [Free EXCEPT !.at = "answered", !.answer = answer]
  <2>1. op' = [op EXCEPT ![p] = o]
    BY <1>2 DEF Finish, ServerTyped
  <2>2. o \in Ops /\ o.at = "answered" /\ o.answer = answer /\ o.fn = "none"
    BY DEF Free, Ops, Answers
  <2>3. Fits(p, o) /\ Ends(o, answer)
    BY <1>2, <2>2 DEF Fits, Ends, ServerTyped
  <2> HIDE DEF o
  <2> QED BY <2>1, <2>2, <2>3 DEF Proceeds
<1> QED BY <1>1, <1>2

\* What the operation leads to: an answer, or a copy that will be put.
Decided(p, r, o) ==
    \/ Ends(o, "ok") /\ issued' = issued
    \/ /\ o.at = "put" /\ o.fn = op[p].fn /\ o.seen \in Changed(op[p].fn, r)
       /\ issued' = IF op[p].fn = "reissue" THEN issued + 1 ELSE issued

LEMMA DecideMoves ==
    ASSUME ServerTyped, NEW p \in Processes, NEW r \in Reservations, Decide(p, r),
           op[p].fn = "reissue" => issued < MaxTokens
    PROVE  issued' \in Tokens /\ \E o : Proceeds(p, o) /\ Decided(p, r, o)
<1> DEFINE fn == op[p].fn
<1>0. op[p] \in Ops /\ Fits(p, op[p]) /\ issued \in Tokens
  BY DEF ServerTyped
<1>1. CASE Changed(fn, r) = {}
  <2> DEFINE a == IF fn = "resolve" /\ Usable(r) THEN "ok" ELSE ReasonFor(r)
  <2>1. a \in Answers /\ a # "connected"
    BY ReasonFacts DEF Answers
  <2>2. Finish(p, a) /\ UNCHANGED issued
    BY <1>1 DEF Decide
  <2> HIDE DEF a
  <2>3. PICK o : Proceeds(p, o) /\ Ends(o, a)
    BY <2>1, <2>2, FinishMoves
  <2> QED BY <1>0, <2>1, <2>2, <2>3 DEF Decided, Ends
<1>2. CASE Changed(fn, r) # {}
  <2>1. PICK r2 \in Changed(fn, r) : op' = [op EXCEPT ![p].at = "put", ![p].seen = r2]
    BY <1>2 DEF Decide
  <2>2. issued' = IF fn = "reissue" THEN issued + 1 ELSE issued
    BY <1>2 DEF Decide
  <2> DEFINE o == [op[p] EXCEPT !.at = "put", !.seen = r2]
  <2>3. op' = [op EXCEPT ![p] = o]
    BY <2>1 DEF ServerTyped
  <2>4. /\ r2 \in Reservations /\ fn \in AdminFunctions \cup {"confirm"}
        /\ fn = "confirm" => r2.status = "used"
        /\ fn \in {"cancel", "revoke"} => r2.status \in {"cancelled", "revoked"}
    BY <1>0, ChangedFacts
  <2>5. o \in Ops /\ o.at = "put" /\ o.fn = fn /\ o.seen = r2
    BY <1>0, <2>4 DEF Ops
  <2>6. fn \in Functions \cup {"confirm"}
    BY <1>0, <2>4 DEF Fits, AdminFunctions, Processes
  <2>7. Fits(p, o)
    BY <1>0, <2>4, <2>5, <2>6 DEF Fits, AdminFunctions
  <2>8. issued' \in Tokens
    BY <1>0, <2>2 DEF Tokens
  <2> HIDE DEF o
  <2> QED BY <2>2, <2>3, <2>5, <2>7, <2>8 DEF Proceeds, Decided
<1> QED BY <1>1, <1>2

-----------------------------------------------------------------------------
\* Nobody is told by o that a call is connected.
Quiet(o) == ~(o.at = "answered" /\ o.answer = "connected")

\* A read by process p: it notices the expiry, or decides.
Loads(p, o) ==
    /\ Proceeds(p, o) /\ Quiet(o) /\ issued' \in Tokens /\ UNCHANGED <<record, admissions>>
    /\ \/ Decided(p, record, o)
       \/ /\ o.at = "expire" /\ o.fn = op[p].fn /\ o.seen.token = record.token
          /\ issued' = issued

LEMMA LoadMoves ==
    ASSUME ServerTyped, NEW p \in Processes, Load(p)
    PROVE  op[p].at = "read" /\ \E o : Loads(p, o)
<1>0. op[p] \in Ops /\ Fits(p, op[p]) /\ record \in Reservations /\ op[p].at = "read"
  BY DEF ServerTyped, Load
<1>1. CASE p \in Scans /\ record.token # op[p].token
  <2>1. Finish(p, "not_found") /\ UNCHANGED issued
    BY <1>1 DEF Load
  <2>2. PICK o : Proceeds(p, o) /\ Ends(o, "not_found")
    BY <2>1, FinishMoves DEF Answers
  <2> QED BY <1>0, <2>1, <2>2 DEF Loads, Decided, Ends, Quiet, Load, ServerTyped
<1>2. CASE ~(p \in Scans /\ record.token # op[p].token) /\ MarkedExpired(record) # record
  <2> DEFINE m == MarkedExpired(record)
             o == [op[p] EXCEPT !.at = "expire", !.seen = m]
  <2>1. m \in Reservations /\ m.token = record.token /\ m.status = "expired"
    BY <1>0, <1>2, MarkedFacts
  <2>2. op' = [op EXCEPT ![p].at = "expire", ![p].seen = m] /\ UNCHANGED issued
    BY <1>2 DEF Load
  <2>3. op' = [op EXCEPT ![p] = o]
    BY <2>2 DEF ServerTyped
  <2> HIDE DEF m
  <2>4. o \in Ops /\ o.at = "expire" /\ o.fn = op[p].fn /\ o.seen = m
    BY <1>0, <2>1 DEF Ops
  <2>5. Fits(p, o) /\ Quiet(o)
    BY <1>0, <2>1, <2>4 DEF Fits, Quiet
  <2> HIDE DEF o
  <2> QED BY <1>0, <2>1, <2>2, <2>3, <2>4, <2>5 DEF Loads, Proceeds, Load, ServerTyped
<1>3. CASE ~(p \in Scans /\ record.token # op[p].token) /\ MarkedExpired(record) = record
  <2>1. Decide(p, record) /\ (op[p].fn = "reissue" => issued < MaxTokens)
    BY <1>3 DEF Load
  <2>2. PICK o : Proceeds(p, o) /\ Decided(p, record, o)
    BY <1>0, <2>1, DecideMoves
  <2>3. Quiet(o)
    BY <2>2 DEF Decided, Ends, Quiet
  <2> QED BY <1>0, <2>1, <2>2, <2>3, DecideMoves DEF Loads, Load
<1> QED BY <1>1, <1>2, <1>3

\* The expiry is stored, and the operation decided on the expired copy.
Expires(p, o) ==
    /\ Proceeds(p, o) /\ Quiet(o) /\ issued' \in Tokens /\ UNCHANGED admissions
    /\ record' = op[p].seen /\ record' \in Reservations /\ record'.status = "expired"
    /\ Decided(p, op[p].seen, o)

LEMMA PutExpiredMoves ==
    ASSUME ServerTyped, NEW p \in Processes, PutExpired(p)
    PROVE  op[p].at = "expire" /\ \E o : Expires(p, o)
<1>0. op[p].at = "expire" /\ op[p].seen \in Reservations /\ op[p].seen.status = "expired"
  BY DEF ServerTyped, PutExpired, Fits
<1>1. Decide(p, op[p].seen) /\ (op[p].fn = "reissue" => issued < MaxTokens)
  BY DEF PutExpired
<1>2. PICK o : Proceeds(p, o) /\ Decided(p, op[p].seen, o)
  BY <1>0, <1>1, DecideMoves
<1>3. Quiet(o)
  BY <1>2 DEF Decided, Ends, Quiet
<1> QED BY <1>0, <1>1, <1>2, <1>3, DecideMoves DEF Expires, PutExpired

\* The changed copy is stored.
Stores(p, o) ==
    /\ Proceeds(p, o) /\ Quiet(o) /\ issued' = issued
    /\ record' = op[p].seen /\ record' \in Reservations
    /\ o.at \in {"create", "done", "answered"}
    /\ o.at = "create" => op[p].fn = "confirm"
    /\ admissions' = CASE op[p].fn = "confirm" -> [admissions EXCEPT ![op[p].seen.token] = @ + 1]
                       [] op[p].fn = "edit"    -> [k \in Tokens |-> 0]
                       [] OTHER                -> admissions

LEMMA PutMoves ==
    ASSUME ServerTyped, NEW p \in Processes, Put(p)
    PROVE  op[p].at = "put" /\ \E o : Stores(p, o)
<1>0. /\ op[p] \in Ops /\ Fits(p, op[p]) /\ op[p].at = "put" /\ op[p].seen \in Reservations
      /\ record' = op[p].seen /\ issued' = issued
  BY DEF ServerTyped, Put, Fits
<1>1. CASE op[p].fn = "confirm"
  <2> DEFINE o == [op[p] EXCEPT !.at = "create", !.seen = None]
  <2>1. op' = [op EXCEPT ![p] = o]
    BY <1>1 DEF Put, ServerTyped
  <2>2. o \in Ops /\ o.at = "create" /\ o.fn = op[p].fn
    BY <1>0 DEF Ops
  <2>3. p \notin Clerks
    BY <1>0, <1>1 DEF Fits, AdminFunctions
  <2>4. Fits(p, o) /\ Quiet(o)
    BY <1>0, <2>2, <2>3 DEF Fits, Quiet
  <2> HIDE DEF o
  <2> QED BY <1>0, <1>1, <2>1, <2>2, <2>4 DEF Stores, Proceeds, Put
<1>2. CASE op[p].fn # "confirm"
  <2>1. Finish(p, None) /\ admissions' = IF op[p].fn = "edit" THEN [k \in Tokens |-> 0]
                                          ELSE admissions
    BY <1>2 DEF Put
  <2>2. p \in Clerks
    BY <1>0, <1>2 DEF Fits, AdminFunctions, Processes
  <2>3. op' = [op EXCEPT ![p] = Free]
    BY <2>1, <2>2 DEF Finish, ServerTyped
  <2>4. Free \in Ops /\ Fits(p, Free) /\ Free.at = "done"
    BY <2>2 DEF Free, Ops, Fits, Answers
  <2> QED BY <1>0, <1>2, <2>1, <2>3, <2>4 DEF Stores, Proceeds, Quiet
<1> QED BY <1>1, <1>2

\* A step that stores nothing: the request begins, goes on or ends.
Rests(p, o) ==
    /\ Proceeds(p, o) /\ UNCHANGED <<record, issued, admissions>>
    /\ o.at \notin {"expire", "put"}

LEMMA CreateMoves ==
    ASSUME ServerTyped, NEW p \in Scans, Create(p)
    PROVE  \E o : Rests(p, o) /\ Quiet(o)
<1> DEFINE o == [op[p] EXCEPT !.at = "call"]
<1>0. op[p] \in Ops /\ Fits(p, op[p]) /\ p \notin Clerks
  BY DEF ServerTyped, Processes
<1>1. op' = [op EXCEPT ![p] = o]
  BY DEF Create, ServerTyped
<1>2. o \in Ops /\ o.at = "call" /\ o.fn = op[p].fn
  BY <1>0 DEF Ops
<1>3. Fits(p, o)
  BY <1>0, <1>2 DEF Fits
<1> HIDE DEF o
<1> QED BY <1>1, <1>2, <1>3 DEF Rests, Proceeds, Quiet, Create

LEMMA EndMoves ==
    ASSUME ServerTyped, NEW p \in Scans, NEW a \in Answers, Finish(p, a),
           UNCHANGED <<record, issued, admissions>>
    PROVE  \E o : Rests(p, o) /\ Ends(o, a)
<1>1. PICK o : Proceeds(p, o) /\ Ends(o, a)
  BY FinishMoves DEF Processes
<1> QED BY <1>1 DEF Rests, Ends

LEMMA ClerkMoves ==
    ASSUME ServerTyped, NEW p \in Clerks, Clerk(p)
    PROVE  \E o : Rests(p, o) /\ Quiet(o)
<1>1. PICK fn \in Functions : op' = [op EXCEPT ![p] = [Free EXCEPT !.fn = fn, !.at = "read"]]
  BY DEF Clerk
<1> DEFINE o == [Free EXCEPT !.fn = fn, !.at = "read"]
<1>2. o \in Ops /\ o.at = "read" /\ o.fn = fn
  BY DEF Free, Ops, Answers, AdminFunctions
<1>3. fn # "confirm" /\ p \notin Scans
  BY DEF AdminFunctions
<1>4. Fits(p, o) /\ Quiet(o)
  BY <1>2, <1>3 DEF Fits, Quiet
<1> HIDE DEF o
<1>5. op' = [op EXCEPT ![p] = o]
  BY <1>1 DEF o
<1> QED BY <1>2, <1>3, <1>4, <1>5 DEF Rests, Proceeds, Clerk

\* The screen of a terminal that has begun chain p.
Opened(state, token, p) == [Closed EXCEPT !.state = state, !.payload = token, !.scan = p]

LEMMA AskMoves ==
    ASSUME ServerTyped, NEW t \in Terminals, NEW fn \in {"resolve", "confirm"},
           NEW token \in Tokens \cup {None}, NEW state \in States, Asks(t, fn, token, state)
    PROVE  \E p \in Scans, o \in Ops :
              /\ Rests(p, o) /\ Quiet(o) /\ \A u \in Terminals : screen[u].scan # p
              /\ reception' = [reception EXCEPT ![p] = "none"]
              /\ screen' = [screen EXCEPT ![t] = Opened(state, token, p)]
<1>1. PICK p \in Scans :
        /\ \A u \in Terminals : screen[u].scan # p
        /\ op' = [op EXCEPT ![p] = [Free EXCEPT !.fn = fn, !.at = "read", !.token = token]]
        /\ reception' = [reception EXCEPT ![p] = "none"]
        /\ screen' = [screen EXCEPT ![t] = Opened(state, token, p)]
        /\ UNCHANGED <<record, issued, now, admissions>>
  BY DEF Asks, Opened
<1> DEFINE o == [Free EXCEPT !.fn = fn, !.at = "read", !.token = token]
<1>2. o \in Ops /\ o.at = "read" /\ o.fn = fn
  BY DEF Free, Ops, Answers
<1>3. Fits(p, o) /\ Quiet(o)
  BY <1>2 DEF Fits, Quiet
<1>4. op' = [op EXCEPT ![p] = o]
  BY <1>1
<1> HIDE DEF o
<1>5. Rests(p, o)
  BY <1>1, <1>2, <1>3, <1>4 DEF Rests, Proceeds
<1> QED BY <1>1, <1>2, <1>3, <1>5

-----------------------------------------------------------------------------
\* Terminal t shows x: it claims a completed visit only of a connected call.
Shows(t, x) ==
    /\ screen' = [screen EXCEPT ![t] = x] /\ x \in Screens /\ Waits(x)
    /\ x.state = "completed" => x.scan \in Scans /\ reception[x.scan] = "connected"

LEMMA GoesShows ==
    ASSUME ScreensTyped, NEW t \in Terminals, NEW s \in States, Goes(t, s),
           s = "completed" => screen[t].scan \in Scans /\ reception[screen[t].scan] = "connected"
    PROVE  \E x : Shows(t, x)
<1> DEFINE x == [screen[t] EXCEPT !.state = s, !.polls = FALSE, !.overdue = FALSE,
                   !.held = FALSE, !.scan = IF s = "completed" THEN screen[t].scan ELSE None,
                   !.payload = IF s = "confirming" THEN screen[t].payload ELSE None]
<1>0. screen[t] \in Screens
  BY DEF ScreensTyped
<1>1. screen' = [screen EXCEPT ![t] = x]
  BY DEF Goes, ScreensTyped
<1>2. /\ x \in Screens /\ x.state = s /\ x.polls = FALSE /\ x.held = FALSE
      /\ s = "completed" => x.scan = screen[t].scan
  BY <1>0 DEF Screens
<1> HIDE DEF x
<1> QED BY <1>1, <1>2 DEF Shows, Waits

LEMMA HeardShows ==
    ASSUME ScreensTyped, NEW t \in Terminals, NEW state, Heard(t, state),
           screen[t].state = "calling", screen[t].scan \in Scans,
           state = "connected" => reception[screen[t].scan] = "connected"
    PROVE  \E x : Shows(t, x)
<1>0. screen[t] \in Screens
  BY DEF ScreensTyped
<1>1. CASE state = "connected"
  BY <1>1, GoesShows DEF Heard, States
<1>2. CASE state = "timeout"
  <2> DEFINE x == [screen[t] EXCEPT !.held = TRUE, !.polls = FALSE]
  <2>1. screen' = [screen EXCEPT ![t] = x]
    BY <1>2 DEF Heard, ScreensTyped
  <2>2. x \in Screens /\ x.state = "calling" /\ x.scan = screen[t].scan
    BY <1>0 DEF Screens
  <2> HIDE DEF x
  <2> QED BY <2>1, <2>2 DEF Shows, Waits
<1>3. CASE state \notin {"connected", "timeout"}
  <2>1. Goes(t, "networkError") /\ "networkError" \in States
    BY <1>3 DEF Heard, States, Errors
  <2> QED BY <2>1, GoesShows
<1> QED BY <1>1, <1>2, <1>3

\* A step of one terminal alone.
Alone(t) == \/ Press(t) \/ Exit(t) \/ Cancel(t) \/ Resolved(t) \/ Called(t)
            \/ (\E ok \in BOOLEAN : Poll(t, ok)) \/ PollBudgetEnds(t) \/ NoticeHeld(t)

LEMMA AloneShows ==
    ASSUME Base, NEW t \in Terminals, Alone(t)
    PROVE  /\ UNCHANGED <<record, issued, now, op, reception, admissions>>
           /\ \E x : Shows(t, x)
<1>0. ScreensTyped /\ screen[t] \in Screens /\ Waits(screen[t])
  BY DEF Base, ScreensTyped
<1>1. UNCHANGED <<record, issued, now, op, reception, admissions>>
  BY DEF Alone, Press, Exit, Cancel, Resolved, Called, Poll, PollBudgetEnds, NoticeHeld
<1> SUFFICES \E x : Shows(t, x)
  BY <1>1
<1>2. CASE Press(t)
  <2>1. PICK s \in States : <<screen[t].state, s>> \in Edges /\ Goes(t, s)
    BY <1>2 DEF Press
  <2>2. s # "completed"
    BY <2>1 DEF Edges, Errors
  <2> QED BY <1>0, <2>1, <2>2, GoesShows
<1>3. CASE Exit(t)
  <2>1. Closed \in Screens /\ Waits(Closed) /\ Closed.state = "idle"
    BY DEF Closed, Screens, States, Waits
  <2> QED BY <1>3, <2>1 DEF Exit, Shows
<1>4. CASE Cancel(t)
  <2> DEFINE x == [Closed EXCEPT !.state = "cancelled"]
  <2>1. x \in Screens /\ Waits(x) /\ x.state = "cancelled"
    BY DEF Closed, Screens, States, Waits
  <2> HIDE DEF x
  <2>2. screen' = [screen EXCEPT ![t] = x]
    BY <1>4 DEF Cancel, x
  <2> QED BY <2>1, <2>2 DEF Shows
<1>5. CASE Resolved(t)
  <2>1. \E s \in States : s # "completed" /\ Goes(t, s)
    BY <1>5 DEF Resolved, States, Errors
  <2> QED BY <1>0, <2>1, GoesShows
<1>6. CASE Called(t)
  <2>1. /\ screen[t].state = "calling" /\ screen[t].scan \in Scans
        /\ op[screen[t].scan].at = "answered" /\ Answer(t) = op[screen[t].scan].answer
    BY <1>0, <1>6 DEF Called, Answer, Screens
  <2>2. CASE Answer(t) = "calling"
    <3> DEFINE x == [screen[t] EXCEPT !.polls = TRUE]
    <3>1. screen' = [screen EXCEPT ![t] = x]
      BY <1>6, <2>2 DEF Called, ScreensTyped
    <3>2. x \in Screens /\ x.state = "calling" /\ x.scan = screen[t].scan
      BY <1>0, <2>1 DEF Screens
    <3> HIDE DEF x
    <3> QED BY <2>1, <3>1, <3>2, ProcessesAssumption DEF Shows, Waits
  <2>3. CASE Answer(t) # "calling"
    <3>1. Heard(t, Answer(t))
      BY <1>6, <2>3 DEF Called
    <3>2. Answer(t) = "connected" => reception[screen[t].scan] = "connected"
      BY <2>1 DEF Base, CallTold
    <3> QED BY <1>0, <2>1, <3>1, <3>2, HeardShows
  <2> QED BY <2>2, <2>3
<1>7. ASSUME NEW ok \in BOOLEAN, Poll(t, ok) PROVE \E x : Shows(t, x)
  <2>1. screen[t].state = "calling" /\ screen[t].scan \in Scans
    BY <1>0, <1>7 DEF Poll, Waits, Screens
  <2>2. CASE ok /\ reception[screen[t].scan] # "calling"
    <3>1. Heard(t, reception[screen[t].scan])
      BY <1>7, <2>2 DEF Poll
    <3> QED BY <1>0, <2>1, <3>1, HeardShows
  <2>3. CASE ~(ok /\ reception[screen[t].scan] # "calling")
    <3>1. Goes(t, "networkError") /\ "networkError" \in States
      BY <1>7, <2>3 DEF Poll, States, Errors
    <3> QED BY <1>0, <3>1, GoesShows
  <2> QED BY <2>2, <2>3
<1>8. CASE PollBudgetEnds(t)
  <2> DEFINE x == [screen[t] EXCEPT !.overdue = TRUE]
  <2>1. screen' = [screen EXCEPT ![t] = x] /\ screen[t].polls
    BY <1>8 DEF PollBudgetEnds, ScreensTyped
  <2>2. /\ x \in Screens /\ x.state = screen[t].state /\ x.scan = screen[t].scan
        /\ x.polls = screen[t].polls /\ x.held = screen[t].held
    BY <1>0 DEF Screens
  <2> HIDE DEF x
  <2> QED BY <1>0, <2>1, <2>2 DEF Shows, Waits
<1>9. CASE NoticeHeld(t)
  <2>1. "networkError" \in States
    BY DEF States, Errors
  <2> QED BY <1>0, <1>9, <2>1, GoesShows DEF NoticeHeld
<1> QED BY <1>2, <1>3, <1>4, <1>5, <1>6, <1>7, <1>8, <1>9 DEF Alone

-----------------------------------------------------------------------------
LEMMA BaseStarts == Init => Base
<1> SUFFICES ASSUME Init PROVE Base
  OBVIOUS
<1>1. Free \in Ops /\ \A p \in Processes : Fits(p, Free)
  BY DEF Free, Ops, Answers, Fits
<1>2. Closed \in Screens /\ Waits(Closed) /\ Closed.state = "idle"
  BY DEF Closed, Screens, States, Waits
<1>3. ServerTyped
  <2>1. 1 \in Tokens /\ 0 \in Days
    BY DEF Tokens, Days
  <2> QED BY <1>1, <2>1 DEF Init, ServerTyped, Processes
<1>4. ScreensTyped /\ CallTold
  BY <1>2 DEF Init, ScreensTyped, CallTold, Free
<1> QED BY <1>3, <1>4 DEF Base

\* A process goes on as o and nobody is told that a call is connected.
LEMMA QuietStep ==
    ASSUME Base, NEW p \in Processes, NEW o, Proceeds(p, o), Quiet(o),
           p \in Scans => Busy(op[p]), UNCHANGED <<reception, screen>>
    PROVE  ScreensTyped' /\ CallTold'
<1>1. \A q \in Scans : op'[q] = op[q] \/ op'[q] = o
  BY DEF Proceeds, Base, ServerTyped, Processes
<1>2. \A q \in Scans : op'[q].at = "answered" /\ op'[q].answer = "connected" =>
                          reception'[q] = "connected"
  BY <1>1 DEF Quiet, Base, CallTold
<1>3. \A q \in Scans : Busy(op'[q]) => reception'[q] \in {"none", "confirming"}
  <2>1. \A q \in Scans : Busy(op'[q]) => Busy(op[q])
    BY DEF Proceeds, Base, ServerTyped, Processes
  <2> QED BY <2>1 DEF Base, CallTold
<1> QED BY <1>2, <1>3 DEF Base, ScreensTyped, CallTold

LEMMA RestTyped ==
    ASSUME Base, NEW p \in Processes, NEW o, Rests(p, o), now' \in Days
    PROVE  ServerTyped'
BY DEF Rests, Proceeds, Base, ServerTyped

LEMMA AskShows ==
    ASSUME Base, NEW t \in Terminals, Detect(t) \/ Confirm(t)
    PROVE  \E p \in Scans, x \in Screens, o \in Ops :
              /\ Rests(p, o) /\ Quiet(o) /\ \A u \in Terminals : screen[u].scan # p
              /\ reception' = [reception EXCEPT ![p] = "none"]
              /\ screen' = [screen EXCEPT ![t] = x] /\ Waits(x) /\ x.state # "completed"
<1>0. ServerTyped /\ ScreensTyped
  BY DEF Base
<1>1. ASSUME NEW p \in Scans, NEW token \in Tokens \cup {None}, NEW s \in {"resolving", "calling"}
      PROVE  /\ Opened(s, token, p) \in Screens /\ Waits(Opened(s, token, p))
             /\ Opened(s, token, p).state # "completed"
  BY DEF Opened, Closed, Screens, States, Waits
<1>2. CASE Detect(t)
  <2>1. PICK k \in 1 .. issued : Asks(t, "resolve", k, "resolving")
    BY <1>2 DEF Detect
  <2>2. k \in Tokens /\ "resolving" \in States
    BY <1>0 DEF ServerTyped, Tokens, States
  <2>3. PICK p \in Scans, o \in Ops :
           /\ Rests(p, o) /\ Quiet(o) /\ \A u \in Terminals : screen[u].scan # p
           /\ reception' = [reception EXCEPT ![p] = "none"]
           /\ screen' = [screen EXCEPT ![t] = Opened("resolving", k, p)]
    BY <1>0, <2>1, <2>2, AskMoves
  <2>4. /\ Opened("resolving", k, p) \in Screens /\ Waits(Opened("resolving", k, p))
        /\ Opened("resolving", k, p).state # "completed"
    BY <1>1, <2>2
  <2> QED BY <2>3, <2>4
<1>3. CASE Confirm(t)
  <2> DEFINE k == screen[t].payload
  <2>1. Asks(t, "confirm", k, "calling") /\ k \in Tokens \cup {None} /\ "calling" \in States
    BY <1>0, <1>3 DEF Confirm, ScreensTyped, Screens, States
  <2> HIDE DEF k
  <2>2. PICK p \in Scans, o \in Ops :
           /\ Rests(p, o) /\ Quiet(o) /\ \A u \in Terminals : screen[u].scan # p
           /\ reception' = [reception EXCEPT ![p] = "none"]
           /\ screen' = [screen EXCEPT ![t] = Opened("calling", k, p)]
    BY <1>0, <2>1, AskMoves
  <2>3. /\ Opened("calling", k, p) \in Screens /\ Waits(Opened("calling", k, p))
        /\ Opened("calling", k, p).state # "completed"
    BY <1>1, <2>1
  <2> QED BY <2>2, <2>3
<1> QED BY <1>2, <1>3

LEMMA NextBase == Base /\ [Next]_vars => Base'
<1> SUFFICES ASSUME Base, [Next]_vars PROVE Base'
  OBVIOUS
<1>0. /\ ServerTyped /\ ScreensTyped /\ CallTold /\ Clerks \subseteq Processes
      /\ Scans \subseteq Processes
  BY DEF Base, Processes
<1>1. CASE UNCHANGED vars
  BY <1>0, <1>1 DEF vars, Base, ServerTyped, ScreensTyped, CallTold
<1>2. ASSUME NEW p \in Processes, Load(p) PROVE Base'
  <2>1. PICK o : Loads(p, o)
    BY <1>0, <1>2, LoadMoves
  <2>0. Busy(op[p])
    BY <1>0, <1>2, LoadMoves DEF Busy
  <2>2. UNCHANGED <<now, reception, screen>>
    BY <1>2 DEF Load
  <2>3. ServerTyped'
    BY <1>0, <2>1, <2>2 DEF Loads, Proceeds, ServerTyped
  <2> QED BY <2>0, <2>1, <2>2, <2>3, QuietStep DEF Loads, Base
<1>3. ASSUME NEW p \in Processes, PutExpired(p) PROVE Base'
  <2>1. PICK o : Expires(p, o)
    BY <1>0, <1>3, PutExpiredMoves
  <2>0. Busy(op[p])
    BY <1>0, <1>3, PutExpiredMoves DEF Busy
  <2>2. UNCHANGED <<now, reception, screen>>
    BY <1>3 DEF PutExpired
  <2>3. ServerTyped'
    BY <1>0, <2>1, <2>2 DEF Expires, Proceeds, ServerTyped
  <2> QED BY <2>0, <2>1, <2>2, <2>3, QuietStep DEF Expires, Base
<1>4. ASSUME NEW p \in Processes, Put(p) PROVE Base'
  <2>1. PICK o : Stores(p, o)
    BY <1>0, <1>4, PutMoves
  <2>0. Busy(op[p])
    BY <1>0, <1>4, PutMoves DEF Busy
  <2>2. UNCHANGED <<now, reception, screen>>
    BY <1>4 DEF Put
  <2>3. op[p].seen.token \in Tokens
    BY <2>1 DEF Stores, Reservations
  <2>4. admissions' \in [Tokens -> Nat]
    BY <1>0, <2>1, <2>3 DEF Stores, ServerTyped
  <2>5. ServerTyped'
    BY <1>0, <2>1, <2>2, <2>4 DEF Stores, Proceeds, ServerTyped
  <2> QED BY <2>0, <2>1, <2>2, <2>5, QuietStep DEF Stores, Base
<1>5. ASSUME NEW p \in Clerks, Clerk(p) PROVE Base'
  <2>1. PICK o : Rests(p, o) /\ Quiet(o)
    BY <1>0, <1>5, ClerkMoves
  <2>2. UNCHANGED <<now, reception, screen>> /\ p \notin Scans
    BY <1>5 DEF Clerk
  <2> QED BY <1>0, <2>1, <2>2, QuietStep, RestTyped DEF Rests, Base, ServerTyped
<1>6. ASSUME NEW p \in Scans, Create(p) PROVE Base'
  <2>1. PICK o : Rests(p, o) /\ Quiet(o)
    BY <1>0, <1>6, CreateMoves
  <2>2. UNCHANGED <<now, screen>> /\ reception' = [reception EXCEPT ![p] = "confirming"]
    BY <1>6 DEF Create
  <2>3. \A t \in Terminals : screen[t].state = "completed" => screen[t].scan # p
    <3>1. reception[p] # "connected"
      BY <1>0, <1>6 DEF Create, CallTold, Busy
    <3> QED BY <1>0, <3>1 DEF CallTold
  <2>4. CallTold'
    BY <1>0, <2>1, <2>2, <2>3 DEF CallTold, Rests, Proceeds, Quiet, ServerTyped
  <2> QED BY <1>0, <2>1, <2>2, <2>4, RestTyped DEF Rests, Base, ServerTyped, ScreensTyped
<1>7. ASSUME NEW p \in Scans, PlaceCall(p) PROVE Base'
  <2>1. PICK s \in {"connected", "calling", "timeout", "failed", "confirming"} :
           reception' = [reception EXCEPT ![p] = s] /\ (Finish(p, s) \/ Finish(p, "network"))
    BY <1>7 DEF PlaceCall
  <2>2. UNCHANGED <<record, issued, now, screen, admissions>> /\ Busy(op[p])
    BY <1>7 DEF PlaceCall, Busy
  <2>3. PICK o : Rests(p, o) /\ (Ends(o, s) \/ Ends(o, "network"))
    BY <1>0, <2>1, <2>2, EndMoves DEF Answers
  <2>4. op' = [op EXCEPT ![p] = o] /\ op \in [Processes -> Ops] /\ ~Busy(o)
    BY <1>0, <2>3 DEF Rests, Proceeds, ServerTyped, Ends, Busy
  <2>5. \A t \in Terminals : screen[t].state = "completed" => screen[t].scan # p
    BY <1>0, <2>2 DEF CallTold
  <2>6. \A q \in Scans : op'[q].at = "answered" /\ op'[q].answer = "connected" =>
                            reception'[q] = "connected"
    BY <1>0, <2>1, <2>3, <2>4 DEF CallTold, Ends
  <2>7. \A q \in Scans : Busy(op'[q]) => reception'[q] \in {"none", "confirming"}
    BY <1>0, <2>1, <2>4 DEF CallTold
  <2>8. CallTold'
    BY <1>0, <2>1, <2>2, <2>5, <2>6, <2>7 DEF CallTold
  <2> QED BY <1>0, <2>2, <2>3, <2>8, RestTyped DEF Base, ServerTyped, ScreensTyped
<1>8. ASSUME NEW p \in Scans, Fail(p) PROVE Base'
  <2>1. PICK o : Rests(p, o) /\ Ends(o, "network")
    BY <1>0, <1>8, EndMoves DEF Fail, Answers
  <2>2. Quiet(o)
    BY <2>1 DEF Ends, Quiet
  <2>3. UNCHANGED <<now, reception, screen>> /\ Busy(op[p])
    BY <1>8 DEF Fail, Busy
  <2> QED BY <1>0, <2>1, <2>2, <2>3, QuietStep, RestTyped DEF Rests, Base, ServerTyped
<1>9. ASSUME NEW p \in Scans, Settle(p) PROVE Base'
  <2>1. PICK s \in {"connected", "timeout", "failed"} : reception' = [reception EXCEPT ![p] = s]
    BY <1>9 DEF Settle
  <2>2. UNCHANGED <<record, issued, now, op, screen, admissions>> /\ reception[p] = "calling"
    BY <1>9 DEF Settle
  <2>3. CallTold'
    BY <1>0, <2>1, <2>2 DEF CallTold
  <2> QED BY <1>0, <2>2, <2>3 DEF Base, ServerTyped, ScreensTyped
<1>10. CASE Tick
  <2>1. now' \in Days /\ UNCHANGED <<record, issued, op, reception, screen, admissions>>
    BY <1>0, <1>10 DEF Tick, Days, ServerTyped
  <2> QED BY <1>0, <2>1 DEF Base, ServerTyped, ScreensTyped, CallTold
<1>11. ASSUME NEW t \in Terminals, Alone(t) PROVE Base'
  <2>1. UNCHANGED <<record, issued, now, op, reception, admissions>>
    BY <1>11, AloneShows
  <2>2. PICK x : Shows(t, x)
    BY <1>11, AloneShows
  <2>3. ScreensTyped'
    BY <1>0, <2>2 DEF Shows, ScreensTyped
  <2>4. CallTold'
    BY <1>0, <2>1, <2>2 DEF Shows, ScreensTyped, CallTold
  <2>5. ServerTyped'
    BY <1>0, <2>1 DEF ServerTyped
  <2> QED BY <2>3, <2>4, <2>5 DEF Base
<1>12. ASSUME NEW t \in Terminals, Detect(t) \/ Confirm(t) PROVE Base'
  <2>1. PICK p \in Scans, x \in Screens, o \in Ops :
           /\ Rests(p, o) /\ Quiet(o) /\ \A u \in Terminals : screen[u].scan # p
           /\ reception' = [reception EXCEPT ![p] = "none"]
           /\ screen' = [screen EXCEPT ![t] = x] /\ Waits(x) /\ x.state # "completed"
    BY <1>0, <1>12, AskShows DEF Base
  <2>2. now' = now
    BY <1>12 DEF Detect, Confirm, Asks
  <2>3. op' = [op EXCEPT ![p] = o] /\ op \in [Processes -> Ops] /\ screen \in [Terminals -> Screens]
    BY <1>0, <2>1 DEF Rests, Proceeds, ServerTyped, ScreensTyped
  <2>4. ScreensTyped'
    BY <1>0, <2>1 DEF ScreensTyped
  <2>5. \A q \in Scans : op'[q].at = "answered" /\ op'[q].answer = "connected" =>
                            reception'[q] = "connected"
    BY <1>0, <2>1, <2>3 DEF CallTold, Quiet
  <2>6. CallTold'
    BY <1>0, <2>1, <2>3, <2>5 DEF CallTold
  <2> QED BY <1>0, <2>1, <2>2, <2>4, <2>6, RestTyped DEF Base, ServerTyped
<1> QED BY <1>1, <1>2, <1>3, <1>4, <1>5, <1>6, <1>7, <1>8, <1>9, <1>10, <1>11, <1>12
        DEF Next, Alone, Processes

LEMMA BaseAlways == Spec => []Base
BY BaseStarts, NextBase, PTL DEF Spec

-----------------------------------------------------------------------------
Pending(o) == o.at \in {"expire", "put"}
Puts(o, fn) == o.at = "put" /\ o.fn = fn

\* The tokens that the record and the copies name have been issued.
Issued == /\ record.token <= issued
          /\ \A p \in Processes : Pending(op[p]) => op[p].seen.token <= issued

\* A token that is about to be stored as new is known to nobody else.
Unshared == \A q \in Processes : Puts(op[q], "reissue") =>
               /\ record.token # op[q].seen.token
               /\ \A p \in Processes : Pending(op[p]) /\ p # q =>
                                          op[p].seen.token # op[q].seen.token

\* Code k is out of force, and no reissue is about to bring it into force.
OutOfForce(k) ==
    /\ k <= issued /\ ~InForce(record, k)
    /\ \A p \in Processes : Puts(op[p], "reissue") => op[p].seen.token # k

\* A code that has admitted a visitor is out of force.
SpentIsOut == \A k \in Tokens : admissions[k] > 0 => OutOfForce(k)

Codes == Issued /\ Unshared /\ SpentIsOut

LEMMA CodesStart == Init => Codes
<1> SUFFICES ASSUME Init PROVE Codes
  OBVIOUS
<1>1. /\ \A p \in Processes : op[p].at = "done"
      /\ record.token = 1 /\ issued = 1
      /\ \A k \in Tokens : admissions[k] = 0
  BY DEF Init, Processes, Free
<1> QED BY <1>1 DEF Codes, Issued, Unshared, SpentIsOut, Pending, Puts

\* An operation decides on a copy under the same token, or under a new one.
LEMMA DecidesTokens ==
    ASSUME ServerTyped, NEW p \in Processes, NEW r \in Reservations, NEW o,
           Proceeds(p, o), Decided(p, r, o), issued' \in Tokens, o.at = "put"
    PROVE  /\ o.fn = op[p].fn /\ o.seen \in Reservations
           /\ \/ o.fn # "reissue" /\ o.seen.token = r.token /\ issued' = issued
              \/ o.fn = "reissue" /\ o.seen.token = issued + 1 /\ issued' = issued + 1
<1>0. issued \in 1 .. MaxTokens /\ issued' \in 1 .. MaxTokens
  BY DEF ServerTyped, Tokens
<1>1. /\ o.fn = op[p].fn /\ o.seen \in Changed(o.fn, r)
      /\ issued' = IF o.fn = "reissue" THEN issued + 1 ELSE issued
  BY DEF Decided, Ends
<1>2. o.fn = "reissue" => issued < MaxTokens
  BY <1>0, <1>1
<1>3. /\ o.seen \in Reservations /\ o.fn \in AdminFunctions \cup {"confirm"}
      /\ o.fn \in {"confirm", "cancel", "revoke"} => o.seen.token = r.token
      /\ o.fn = "reissue" => o.seen.token = issued + 1
  BY <1>1, <1>2, ChangedFacts DEF ServerTyped
<1>4. o.fn = "edit" => o.seen.token = r.token
  BY <1>1 DEF Changed, Edited
<1> QED BY <1>1, <1>3, <1>4 DEF AdminFunctions

\* Process p, which was not about to put, goes on as o; what it may put has the
\* token of the record, or a new one, and the record may have been found expired.
Copies(p, o) ==
    /\ op' = [op EXCEPT ![p] = o] /\ o \in Ops
    /\ record' \in Reservations /\ record'.token <= issued
    /\ record'.status = "active" => record' = record
    /\ \A q \in Processes : Puts(op[q], "reissue") => op[q].seen.token # record'.token
    /\ admissions' = admissions
    /\ \/ ~Pending(o) /\ issued' = issued
       \/ /\ Pending(o) /\ o.seen.token = record'.token /\ issued' = issued
          /\ ~Puts(o, "reissue")
       \/ Puts(o, "reissue") /\ o.seen.token = issued + 1 /\ issued' = issued + 1
    /\ op[p].at # "put"

LEMMA LoadCopies ==
    ASSUME Base, Codes, NEW p \in Processes, NEW o, op[p].at = "read", Loads(p, o)
    PROVE  Copies(p, o)
<1>0. /\ ServerTyped /\ record \in Reservations /\ issued' \in Tokens
      /\ op' = [op EXCEPT ![p] = o] /\ o \in Ops /\ Proceeds(p, o)
      /\ record' = record /\ admissions' = admissions
  BY DEF Base, ServerTyped, Loads, Proceeds
<1>1. /\ record'.token <= issued
      /\ \A q \in Processes : Puts(op[q], "reissue") => op[q].seen.token # record'.token
  BY <1>0 DEF Codes, Issued, Unshared
<1>2. CASE o.at = "put"
  <2>1. Decided(p, record, o)
    BY <1>2 DEF Loads
  <2>2. \/ o.fn # "reissue" /\ o.seen.token = record.token /\ issued' = issued
        \/ o.fn = "reissue" /\ o.seen.token = issued + 1 /\ issued' = issued + 1
    BY <1>0, <1>2, <2>1, DecidesTokens
  <2>3. Pending(o) /\ (Puts(o, "reissue") <=> o.fn = "reissue")
    BY <1>2 DEF Pending, Puts
  <2> QED BY <1>0, <1>1, <2>2, <2>3 DEF Copies
<1>3. CASE o.at # "put"
  <2>1. /\ issued' = issued /\ ~Puts(o, "reissue")
        /\ ~Pending(o) \/ (Pending(o) /\ o.seen.token = record.token)
    BY <1>3 DEF Loads, Decided, Ends, Pending, Puts
  <2> QED BY <1>0, <1>1, <2>1 DEF Copies
<1> QED BY <1>2, <1>3

LEMMA ExpiredCopies ==
    ASSUME Base, Codes, NEW p \in Processes, NEW o, op[p].at = "expire", Expires(p, o)
    PROVE  Copies(p, o)
<1>0. /\ ServerTyped /\ issued' \in Tokens
      /\ op' = [op EXCEPT ![p] = o] /\ o \in Ops /\ Proceeds(p, o)
      /\ record' = op[p].seen /\ record' \in Reservations /\ record'.status = "expired"
      /\ admissions' = admissions /\ Pending(op[p]) /\ ~Puts(op[p], "reissue")
  BY DEF Base, Expires, Proceeds, Pending, Puts
<1>1. /\ record'.token <= issued
      /\ \A q \in Processes : Puts(op[q], "reissue") => op[q].seen.token # record'.token
  BY <1>0 DEF Codes, Issued, Unshared
<1>2. CASE o.at = "put"
  <2>1. \/ o.fn # "reissue" /\ o.seen.token = record'.token /\ issued' = issued
        \/ o.fn = "reissue" /\ o.seen.token = issued + 1 /\ issued' = issued + 1
    BY <1>0, <1>2, DecidesTokens DEF Expires
  <2>2. Pending(o) /\ (Puts(o, "reissue") <=> o.fn = "reissue")
    BY <1>2 DEF Pending, Puts
  <2> QED BY <1>0, <1>1, <2>1, <2>2 DEF Copies
<1>3. CASE o.at # "put"
  <2>1. issued' = issued /\ ~Pending(o)
    BY <1>3 DEF Expires, Decided, Ends, Pending
  <2> QED BY <1>0, <1>1, <2>1 DEF Copies
<1> QED BY <1>2, <1>3

\* What no step takes back: a code that is out of force.
StaysOut == \A k \in Tokens : OutOfForce(k) => OutOfForce(k)'

\* A step that stores nothing and admits nobody.
LEMMA RestsCodes ==
    ASSUME Base, Codes, NEW p \in Processes, NEW o, Rests(p, o)
    PROVE  Codes' /\ StaysOut
<1>1. /\ op \in [Processes -> Ops] /\ op' = [op EXCEPT ![p] = o] /\ ~Pending(o)
      /\ UNCHANGED <<record, issued, admissions>>
  BY DEF Rests, Proceeds, Base, ServerTyped, Pending
<1>2. \A q \in Processes : Pending(op'[q]) => op'[q] = op[q]
  BY <1>1
<1>3. \A q \in Processes : Puts(op'[q], "reissue") => op'[q] = op[q]
  BY <1>2 DEF Pending, Puts
<1>4. StaysOut
  BY <1>1, <1>3 DEF StaysOut, OutOfForce, InForce
<1>5. Issued' /\ Unshared'
  BY <1>1, <1>2, <1>3 DEF Codes, Issued, Unshared
<1> QED BY <1>1, <1>4, <1>5 DEF Codes, SpentIsOut, StaysOut

LEMMA CopiesCodes ==
    ASSUME Base, Codes, NEW p \in Processes, NEW o, Copies(p, o)
    PROVE  Codes' /\ StaysOut
<1>0. /\ op \in [Processes -> Ops] /\ op' = [op EXCEPT ![p] = o] /\ issued \in Nat
      /\ record \in Reservations /\ record' \in Reservations
      /\ issued' \in {issued, issued + 1} /\ admissions' = admissions /\ Tokens \subseteq Nat
  BY DEF Copies, Base, ServerTyped, Tokens
<1>1. \A q \in Processes : op'[q] = IF q = p THEN o ELSE op[q]
  BY <1>0
<1>2. \A q \in Processes : Pending(op[q]) => op[q].seen \in Reservations
  BY DEF Base, ServerTyped, Fits, Pending
<1>3. \A r \in Reservations : r.token \in Nat
  BY <1>0 DEF Reservations
<1>4. Issued'
  <2>1. record'.token <= issued'
    BY <1>0, <1>3 DEF Copies
  <2>2. ASSUME NEW q \in Processes, Pending(op'[q]) PROVE op'[q].seen.token <= issued'
    <3>1. CASE q # p
      <4>1. op[q].seen.token <= issued /\ op[q].seen.token \in Nat
        BY <1>1, <1>2, <1>3, <2>2, <3>1 DEF Codes, Issued
      <4> QED BY <1>0, <1>1, <3>1, <4>1
    <3>2. CASE q = p
      <4>1. o.seen.token = issued' \/ o.seen.token = record'.token
        BY <1>1, <2>2, <3>2 DEF Copies
      <4> QED BY <1>0, <1>1, <2>1, <3>2, <4>1
    <3> QED BY <3>1, <3>2
  <2> QED BY <2>1, <2>2 DEF Issued
<1>5. Unshared'
  <2>1. ASSUME NEW q \in Processes, Puts(op'[q], "reissue") PROVE record'.token # op'[q].seen.token
    <3>1. CASE q # p
      BY <1>1, <2>1, <3>1 DEF Copies
    <3>2. CASE q = p
      BY <1>0, <1>1, <1>3, <2>1, <3>2 DEF Copies, Pending, Puts
    <3> QED BY <3>1, <3>2
  <2>2. ASSUME NEW q \in Processes, Puts(op'[q], "reissue"),
               NEW u \in Processes, Pending(op'[u]), u # q
        PROVE  op'[u].seen.token # op'[q].seen.token
    <3>1. CASE q # p /\ u # p
      BY <1>1, <2>2, <3>1 DEF Codes, Unshared
    <3>2. CASE q = p
      <4>1. o.seen.token = issued + 1 /\ op[u].seen.token <= issued /\ op[u].seen.token \in Nat
        BY <1>0, <1>1, <1>2, <1>3, <2>2, <3>2 DEF Copies, Pending, Puts, Codes, Issued
      <4> QED BY <1>0, <1>1, <2>2, <3>2, <4>1
    <3>3. CASE u = p
      <4>1. Puts(op[q], "reissue") /\ op'[q] = op[q] /\ Pending(o) /\ op'[u] = o
        BY <1>1, <2>2, <3>3
      <4>2. CASE o.seen.token = record'.token
        BY <4>1, <4>2 DEF Copies
      <4>3. CASE o.seen.token = issued + 1
        <5>1. Pending(op[q]) /\ op[q].seen.token \in Nat /\ op[q].seen.token <= issued
          BY <1>0, <1>2, <1>3, <4>1 DEF Puts, Pending, Codes, Issued
        <5> QED BY <1>0, <4>1, <4>3, <5>1
      <4> QED BY <4>1, <4>2, <4>3 DEF Copies
    <3> QED BY <3>1, <3>2, <3>3
  <2> QED BY <2>1, <2>2 DEF Unshared
<1>6. StaysOut
  <2> SUFFICES ASSUME NEW k \in Tokens, OutOfForce(k) PROVE OutOfForce(k)'
    BY DEF StaysOut
  <2>1. k <= issued' /\ k <= issued /\ k \in Nat
    BY <1>0 DEF OutOfForce
  <2>2. ~InForce(record', k)
    BY DEF Copies, OutOfForce, InForce
  <2>3. ASSUME NEW q \in Processes, Puts(op'[q], "reissue") PROVE op'[q].seen.token # k
    <3>1. CASE q # p
      BY <1>1, <2>3, <3>1 DEF OutOfForce
    <3>2. CASE q = p
      BY <1>0, <1>1, <2>1, <2>3, <3>2 DEF Copies, Pending, Puts
    <3> QED BY <3>1, <3>2
  <2> QED BY <2>1, <2>2, <2>3 DEF OutOfForce
<1> QED BY <1>0, <1>4, <1>5, <1>6 DEF Codes, SpentIsOut, StaysOut

\* A copy is put: only that of an edit can bring a code back into force.
LEMMA StoresCodes ==
    ASSUME Base, Codes, NEW p \in Processes, NEW o, op[p].at = "put", Stores(p, o)
    PROVE  /\ Codes'
           /\ StaysOut \/ (p \in Clerks /\ op[p].fn = "edit")
<1> DEFINE k == op[p].seen.token
           fn == op[p].fn
<1>0. /\ op \in [Processes -> Ops] /\ op' = [op EXCEPT ![p] = o] /\ issued' = issued
      /\ record' = op[p].seen /\ record' \in Reservations /\ k \in Tokens
      /\ admissions \in [Tokens -> Nat] /\ ~Pending(o) /\ Pending(op[p]) /\ Fits(p, op[p])
  BY DEF Stores, Proceeds, Base, ServerTyped, Pending, Reservations
<1>1. \A q \in Processes : op'[q] = IF q = p THEN o ELSE op[q]
  BY <1>0
<1>2. /\ fn \in AdminFunctions \cup {"confirm"}
      /\ fn \in {"confirm", "cancel", "revoke"} => record'.status # "active"
      /\ fn = "edit" => p \in Clerks
  BY <1>0 DEF Fits, Processes, AdminFunctions
<1>3. admissions' = CASE fn = "confirm" -> [admissions EXCEPT ![k] = @ + 1]
                      [] fn = "edit"    -> [j \in Tokens |-> 0]
                      [] OTHER          -> admissions
  BY DEF Stores
<1>4. k <= issued /\ \A q \in Processes : q # p /\ Puts(op[q], "reissue") => op[q].seen.token # k
  BY <1>0 DEF Codes, Issued, Unshared
<1>5. \A q \in Processes : Pending(op'[q]) => q # p /\ op'[q] = op[q] /\ Pending(op[q])
  BY <1>0, <1>1
<1>6. \A q \in Processes : Puts(op'[q], "reissue") =>
         q # p /\ op'[q] = op[q] /\ Puts(op[q], "reissue")
  BY <1>5 DEF Pending, Puts
<1>7. fn = "reissue" => Puts(op[p], "reissue")
  BY DEF Puts
<1> HIDE DEF fn, k
<1>8. Issued'
  BY <1>0, <1>4, <1>5 DEF Codes, Issued, k
<1>9. Unshared'
  BY <1>0, <1>5, <1>6 DEF Codes, Unshared
<1>10. fn # "edit" => StaysOut
  <2> SUFFICES ASSUME fn # "edit", NEW j \in Tokens, OutOfForce(j) PROVE OutOfForce(j)'
    BY DEF StaysOut
  <2>1. CASE fn = "reissue"
    <3>1. record'.token # j
      BY <1>0, <1>7, <2>1 DEF OutOfForce
    <3> QED BY <1>0, <1>6, <3>1 DEF OutOfForce, InForce
  <2>2. CASE fn # "reissue"
    <3>1. record'.status # "active"
      BY <1>2, <2>2 DEF AdminFunctions
    <3> QED BY <1>0, <1>6, <3>1 DEF OutOfForce, InForce
  <2> QED BY <2>1, <2>2
<1>11. SpentIsOut'
  <2> SUFFICES ASSUME NEW j \in Tokens, admissions'[j] > 0 PROVE OutOfForce(j)'
    BY DEF SpentIsOut
  <2>1. fn # "edit"
    BY <1>3
  <2>2. CASE fn = "confirm" /\ j = k
    <3>1. record'.status # "active"
      BY <1>2, <2>2
    <3> QED BY <1>0, <1>4, <1>6, <2>2, <3>1 DEF OutOfForce, InForce
  <2>3. CASE ~(fn = "confirm" /\ j = k)
    <3>1. admissions'[j] = admissions[j]
      BY <1>0, <1>3, <2>1, <2>3
    <3> QED BY <1>10, <2>1, <3>1 DEF Codes, SpentIsOut, StaysOut
  <2> QED BY <2>2, <2>3
<1> QED BY <1>2, <1>8, <1>9, <1>10, <1>11 DEF Codes, fn

\* The copy of an edit is put.
EditStored == \E p \in Clerks : /\ op[p].at = "put" /\ op[p].fn = "edit"
                                /\ record' = op[p].seen

LEMMA NextCodes == Base /\ Codes /\ [Next]_vars => Codes' /\ (StaysOut \/ EditStored)
<1> SUFFICES ASSUME Base, Codes, [Next]_vars PROVE Codes' /\ (StaysOut \/ EditStored)
  OBVIOUS
<1>0. ServerTyped /\ Clerks \subseteq Processes /\ Scans \subseteq Processes
  BY DEF Base, Processes
<1>1. ASSUME UNCHANGED <<record, issued, op, admissions>> PROVE Codes' /\ StaysOut
  BY <1>1 DEF Codes, Issued, Unshared, SpentIsOut, OutOfForce, StaysOut, InForce
<1>2. ASSUME NEW p \in Processes, Load(p) PROVE Codes' /\ StaysOut
  BY <1>0, <1>2, LoadMoves, LoadCopies, CopiesCodes
<1>3. ASSUME NEW p \in Processes, PutExpired(p) PROVE Codes' /\ StaysOut
  BY <1>0, <1>3, PutExpiredMoves, ExpiredCopies, CopiesCodes
<1>4. ASSUME NEW p \in Processes, Put(p) PROVE Codes' /\ (StaysOut \/ EditStored)
  <2>1. PICK o : op[p].at = "put" /\ Stores(p, o)
    BY <1>0, <1>4, PutMoves
  <2>2. Codes' /\ (StaysOut \/ (p \in Clerks /\ op[p].fn = "edit"))
    BY <2>1, StoresCodes
  <2> QED BY <2>1, <2>2 DEF EditStored, Stores
<1>5. ASSUME NEW p \in Clerks, Clerk(p) PROVE Codes' /\ StaysOut
  BY <1>0, <1>5, ClerkMoves, RestsCodes
<1>6. ASSUME NEW p \in Scans, Create(p) PROVE Codes' /\ StaysOut
  BY <1>0, <1>6, CreateMoves, RestsCodes
<1>7. ASSUME NEW p \in Scans, PlaceCall(p) PROVE Codes' /\ StaysOut
  <2>1. PICK s \in {"connected", "calling", "timeout", "failed", "confirming", "network"} :
           Finish(p, s)
    BY <1>7 DEF PlaceCall
  <2>2. UNCHANGED <<record, issued, admissions>>
    BY <1>7 DEF PlaceCall
  <2> QED BY <1>0, <2>1, <2>2, EndMoves, RestsCodes DEF Answers
<1>8. ASSUME NEW p \in Scans, Fail(p) PROVE Codes' /\ StaysOut
  BY <1>0, <1>8, EndMoves, RestsCodes DEF Fail, Answers
<1>9. ASSUME NEW t \in Terminals, Detect(t) \/ Confirm(t) PROVE Codes' /\ StaysOut
  BY <1>0, <1>9, AskShows, RestsCodes
<1>10. ASSUME NEW t \in Terminals, Alone(t) PROVE Codes' /\ StaysOut
  BY <1>1, <1>10, AloneShows
<1>11. CASE Tick \/ \E p \in Scans : Settle(p)
  BY <1>1, <1>11 DEF Tick, Settle
<1>12. CASE UNCHANGED vars
  BY <1>1, <1>12 DEF vars
<1> QED BY <1>2, <1>3, <1>4, <1>5, <1>6, <1>7, <1>8, <1>9, <1>10, <1>11, <1>12
        DEF Next, Alone, Processes

LEMMA CodesAlways == Spec => [](Base /\ Codes)
<1>1. Base /\ Codes /\ [Next]_vars => (Base /\ Codes)'
  BY NextBase, NextCodes
<1>2. Init => Base /\ Codes
  BY BaseStarts, CodesStart
<1> QED BY <1>1, <1>2, PTL DEF Spec

-----------------------------------------------------------------------------
\* The request of terminal chain p is turned down, or is still where it was.
TurnedDown(p) == op'[p].at # "put" /\ (op'[p].at = "answered" => op'[p].answer # "ok")

LEMMA FinishTurnsDown ==
    ASSUME ServerTyped, NEW p \in Scans, NEW answer, answer # "ok", Finish(p, answer)
    PROVE  TurnedDown(p)
<1>1. p \notin Clerks /\ p \in Processes /\ op \in [Processes -> Ops]
  BY DEF ServerTyped, Processes
<1>2. op'[p] = [Free EXCEPT !.at = "answered", !.answer = answer]
  BY <1>1 DEF Finish
<1> QED BY <1>2 DEF TurnedDown, Free

\* A scan decides on a reservation that has ended.
LEMMA DecideTurnsDown ==
    ASSUME ServerTyped, NEW p \in Scans, NEW r, r.status # "active", Decide(p, r)
    PROVE  TurnedDown(p)
<1>1. op[p].fn \in {"none", "resolve", "confirm"}
  BY DEF ServerTyped, Processes, Fits
<1>2. ~Usable(r)
  BY DEF Usable
<1>3. Changed(op[p].fn, r) = {}
  BY <1>1, <1>2 DEF Changed, MarkUsed
<1>4. Finish(p, ReasonFor(r))
  BY <1>2, <1>3 DEF Decide
<1> QED BY <1>4, ReasonFacts, FinishTurnsDown

LEMMA NextRefuses ==
    ASSUME Base, Codes, [Next]_vars, NEW p \in Scans, op[p].at \in {"read", "expire"}, Admitted(p)
    PROVE  TurnedDown(p)
<1>0. /\ ServerTyped /\ op \in [Processes -> Ops] /\ p \in Processes /\ p \notin Clerks
      /\ Scans \subseteq Processes /\ Clerks \subseteq Processes
  BY DEF Base, ServerTyped, Processes
<1>1. ASSUME op'[p] = op[p] PROVE TurnedDown(p)
  BY <1>1 DEF TurnedDown
<1>2. ASSUME NEW q \in Processes, NEW o, op' = [op EXCEPT ![q] = o], q # p PROVE TurnedDown(p)
  BY <1>0, <1>1, <1>2
<1>3. CASE Load(p)
  <2>1. CASE record.token # op[p].token
    <3>1. Finish(p, "not_found")
      BY <1>3, <2>1 DEF Load
    <3> QED BY <1>0, <3>1, FinishTurnsDown
  <2>2. CASE record.token = op[p].token
    <3>1. record.status # "active"
      BY <2>2 DEF Codes, SpentIsOut, Admitted, OutOfForce, InForce
    <3>2. Decide(p, record)
      BY <1>3, <2>2, <3>1 DEF Load, MarkedExpired
    <3> QED BY <1>0, <3>1, <3>2, DecideTurnsDown
  <2> QED BY <2>1, <2>2
<1>4. CASE PutExpired(p)
  <2>1. Decide(p, op[p].seen) /\ op[p].seen.status = "expired"
    BY <1>0, <1>4 DEF PutExpired, ServerTyped, Fits
  <2> QED BY <1>0, <2>1, DecideTurnsDown
<1>5. ASSUME NEW q \in Processes, q # p, Load(q) PROVE TurnedDown(p)
  BY <1>0, <1>2, <1>5, LoadMoves DEF Loads, Proceeds
<1>6. ASSUME NEW q \in Processes, q # p, PutExpired(q) PROVE TurnedDown(p)
  BY <1>0, <1>2, <1>6, PutExpiredMoves DEF Expires, Proceeds
<1>7. ASSUME NEW q \in Processes, Put(q) PROVE TurnedDown(p)
  <2>1. q # p
    BY <1>7 DEF Put
  <2> QED BY <1>0, <1>2, <1>7, <2>1, PutMoves DEF Stores, Proceeds
<1>8. ASSUME NEW q \in Clerks, Clerk(q) PROVE TurnedDown(p)
  BY <1>0, <1>2, <1>8, ClerkMoves DEF Rests, Proceeds
<1>9. ASSUME NEW q \in Scans, Create(q) \/ PlaceCall(q) PROVE TurnedDown(p)
  <2>1. q # p
    BY <1>9 DEF Create, PlaceCall
  <2>2. CASE Create(q)
    BY <1>0, <1>2, <2>1, <2>2, CreateMoves DEF Rests, Proceeds
  <2>3. CASE PlaceCall(q)
    BY <1>0, <1>2, <2>1, <2>3 DEF PlaceCall, Finish
  <2> QED BY <1>9, <2>2, <2>3
<1>10. ASSUME NEW q \in Scans, Fail(q) PROVE TurnedDown(p)
  <2>1. Finish(q, "network")
    BY <1>10 DEF Fail
  <2>2. CASE q = p
    BY <1>0, <2>1, <2>2, FinishTurnsDown
  <2>3. CASE q # p
    BY <1>0, <1>2, <2>1, <2>3 DEF Finish
  <2> QED BY <2>2, <2>3
<1>11. ASSUME NEW t \in Terminals, Detect(t) \/ Confirm(t) PROVE TurnedDown(p)
  <2>1. ASSUME NEW fn, NEW token, NEW state, Asks(t, fn, token, state) PROVE TurnedDown(p)
    <3>1. PICK q \in Scans :
             /\ op[q].at \in {"done", "answered"}
             /\ op' = [op EXCEPT ![q] = [Free EXCEPT !.fn = fn, !.at = "read", !.token = token]]
      BY <2>1 DEF Asks
    <3> QED BY <1>0, <1>2, <3>1
  <2> QED BY <1>11, <2>1 DEF Detect, Confirm
<1>12. ASSUME NEW t \in Terminals, Alone(t) PROVE TurnedDown(p)
  BY <1>1, <1>12, AloneShows
<1>13. CASE Tick \/ \E q \in Scans : Settle(q)
  BY <1>1, <1>13 DEF Tick, Settle
<1>14. CASE UNCHANGED vars
  BY <1>1, <1>14 DEF vars
<1> QED BY <1>3, <1>4, <1>5, <1>6, <1>7, <1>8, <1>9, <1>10, <1>11, <1>12, <1>13, <1>14
        DEF Next, Alone, Processes

-----------------------------------------------------------------------------
\* Reservations, requests and screens have their types.
THEOREM TypeCorrect == Spec => []TypeOK
<1>1. Base => TypeOK
  BY DEF Base, ServerTyped, ScreensTyped, CallTold, Waits, TypeOK, Ops, Screens, Answers, Processes
<1> QED BY <1>1, BaseAlways, PTL

\* A visit is shown as completed only when its call was answered, with any
\* number of terminals, of chains whose visitors have left, and of failures.
THEOREM CompletedTruthfully == Spec => []CompletedIsAnswered
<1>1. Base => CompletedIsAnswered
  BY DEF Base, CallTold, CompletedIsAnswered
<1> QED BY <1>1, BaseAlways, PTL

\* A code for single use that has admitted a visitor is refused to every later
\* scan and confirmation until an edit is stored: for any number of terminals,
\* overlapping confirmations and administrators, with all their functions.
THEOREM UsedCodesRefused == Spec => UsedIsRefused
<1>1. Base /\ Codes /\ [Next]_vars =>
        [\A p \in Scans :
           record.policy = "single_use" /\ op[p].at \in {"read", "expire"} /\ Admitted(p)
             => op'[p].at # "put" /\ (op'[p].at = "answered" => op'[p].answer # "ok")]_vars
  BY NextRefuses DEF TurnedDown
<1> QED BY <1>1, CodesAlways, PTL DEF Spec, UsedIsRefused

\* However stale the copies that requests put, only an edit that was read before
\* brings a code back into force.
THEOREM OutOfForceForGood == Spec => OnlyEditsRevive
<1>1. ASSUME Base, Codes, [Next]_vars, NEW k \in Tokens, InForceBefore(k), ~InForce(record, k), InForce(record', k)
      PROVE  EditStored
  <2>1. k <= issued
    BY <1>1 DEF InForceBefore, Codes, Issued
  <2>2. ASSUME NEW q \in Processes, Puts(op[q], "reissue") PROVE op[q].seen.token # k
    <3>1. q \in Clerks
      BY <1>1, <2>2 DEF Base, ServerTyped, Processes, Fits, Puts
    <3> QED BY <1>1, <2>2, <3>1 DEF InForceBefore, Codes, Unshared, Puts
  <2>3. OutOfForce(k)
    BY <1>1, <2>1, <2>2 DEF OutOfForce
  <2>4. ~StaysOut
    BY <1>1, <2>3 DEF StaysOut, OutOfForce
  <2> QED BY <1>1, <2>4, NextCodes
<1>2. Base /\ Codes /\ [Next]_vars =>
        [\A k \in Tokens : InForceBefore(k) /\ ~InForce(record, k) /\ InForce(record', k)
           => \E p \in Clerks : /\ op[p].at = "put" /\ op[p].fn = "edit"
                                /\ record' = op[p].seen]_vars
  <2> SUFFICES ASSUME Base, Codes, [Next]_vars,
                      NEW k \in Tokens, InForceBefore(k), ~InForce(record, k), InForce(record', k)
               PROVE  \E p \in Clerks : /\ op[p].at = "put" /\ op[p].fn = "edit"
                                        /\ record' = op[p].seen
    OBVIOUS
  <2>1. EditStored
    BY <1>1
  <2> QED BY <2>1 DEF EditStored
<1> QED BY <1>2, CodesAlways, PTL DEF Spec, OnlyEditsRevive
=============================================================================
