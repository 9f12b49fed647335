------------------------------- MODULE Checkin -------------------------------
(***************************************************************************)
(* One reservation: administrators edit, cancel, revoke and reissue it     *)
(* (ReservationService) while visitors scan its code at the terminals      *)
(* (CheckinService, the confirm route and the screen CheckinFlow).         *)
(*                                                                         *)
(* A process is one request of an administrator or one chain of requests   *)
(* of a terminal.  Every backend call is a step; between the read of the   *)
(* reservation and the put of the changed copy anything may happen.        *)
(***************************************************************************)
EXTENDS Naturals, FiniteSets

CONSTANTS
    Terminals,
    Clerks,        \* the requests of administrators that run at a time
    Scans,         \* the chains of requests of terminals that run at a time
    Functions,     \* what administrators do
    Policies,      \* the usage policies that a reservation may have
    MaxDay,        \* bound: the days that are explored
    MaxTokens,     \* bound: the tokens that are issued
    None

AdminFunctions == {"edit", "cancel", "revoke", "reissue"}

ASSUME FunctionsAssumption == /\ Functions \subseteq AdminFunctions
                             /\ Policies \subseteq {"single_use", "same_day"}
ASSUME BoundsAssumption == MaxDay \in Nat /\ MaxTokens \in Nat \ {0}
ASSUME ProcessesAssumption == Clerks \cap Scans = {} /\ None \notin Scans

VARIABLES
    record,      \* the stored reservation
    issued,      \* the tokens issued so far; they are numbered
    now,         \* the day
    op,          \* the requests
    reception,   \* the state of the reception a chain has created
    screen,      \* the screen of every terminal
    admissions   \* how often each token was put as used since an edit was
                 \* stored last (not in the code)

vars == <<record, issued, now, op, reception, screen, admissions>>

Days == 0 .. MaxDay
Tokens == 1 .. MaxTokens
Statuses == {"active", "used", "expired", "revoked", "cancelled"}
Reservations == [status : Statuses, token : Tokens, policy : Policies,
                 visitAt : Days, expires : 1 .. MaxDay + 1]

Free == [fn |-> "none", at |-> "done", token |-> None, seen |-> None, answer |-> None]
Closed == [state |-> "idle", payload |-> None, scan |-> None,
           polls |-> FALSE, overdue |-> FALSE, held |-> FALSE]

\* The day of the visit matters only to a reservation for that day.
Init == /\ record \in {r \in Reservations :
                          /\ r.status = "active" /\ r.token = 1 /\ r.visitAt < r.expires
                          /\ r.policy = "single_use" => r.visitAt = 0}
        /\ issued = 1 /\ now = 0
        /\ op = [p \in Clerks \cup Scans |-> Free]
        /\ reception = [p \in Scans |-> "none"]
        /\ screen = [t \in Terminals |-> Closed]
        /\ admissions = [k \in Tokens |-> 0]

-----------------------------------------------------------------------------
\* The life cycle of a reservation (lifecycle.ts).

Expired(r) == r.expires <= now

Usable(r) == r.status = "active" /\ ~Expired(r) /\ (r.policy = "same_day" => r.visitAt = now)

MarkedExpired(r) == IF r.status = "active" /\ Expired(r) THEN [r EXCEPT !.status = "expired"] ELSE r

MarkUsedTrusting(r) ==     \* mutant: the confirmation trusts the scan before it
    {[r EXCEPT !.status = "used"]}

MarkUsed(r) == IF Usable(r) THEN {[r EXCEPT !.status = "used"]} ELSE {}

Ended(fn, r) == IF r.status # "active" THEN {}
                ELSE {[r EXCEPT !.status = IF fn = "cancel" THEN "cancelled" ELSE "revoked"]}

Edited(r) == IF r.status # "active" THEN {}
             ELSE {e \in Reservations : e.status = r.status /\ e.token = r.token
                                        /\ e.visitAt <= e.expires
                                        /\ (e.policy = "single_use" => e.visitAt = 0)}

ReissuedInPlace(r) ==    \* mutant: the reservation is revived under the code it has
    IF r.status \in {"used", "cancelled"} THEN {} ELSE {[r EXCEPT !.status = "active"]}

Reissued(r) == IF r.status \in {"used", "cancelled"} THEN {}
               ELSE {[r EXCEPT !.status = "active", !.token = issued + 1, !.expires = e] :
                        e \in {r.expires, MaxDay + 1}}

Changed(fn, r) ==
    CASE fn = "confirm" -> MarkUsed(r)
      [] fn \in {"cancel", "revoke"} -> Ended(fn, r)
      [] fn = "edit" -> Edited(r)
      [] fn = "reissue" -> Reissued(r)
      [] OTHER -> {}

ReasonFor(r) == CASE r.status \in {"used", "revoked"} -> r.status
                  [] r.status \in {"expired", "active"} -> "expired"
                  [] OTHER -> "not_found"

-----------------------------------------------------------------------------
\* The requests at the server.

Finish(p, answer) ==
    op' = [op EXCEPT ![p] = IF p \in Clerks THEN Free
                            ELSE [Free EXCEPT !.at = "answered", !.answer = answer]]

\* The operation on the reservation r as it was read.
Decide(p, r) ==
    LET fn == op[p].fn IN
    IF Changed(fn, r) = {}
    THEN Finish(p, IF fn = "resolve" /\ Usable(r) THEN "ok" ELSE ReasonFor(r)) /\ UNCHANGED issued
    ELSE /\ \E r2 \in Changed(fn, r) : op' = [op EXCEPT ![p].at = "put", ![p].seen = r2]
         /\ issued' = IF fn = "reissue" THEN issued + 1 ELSE issued

\* loadForWrite, and resolve and confirm alike: an expiry is stored when it is noticed.
Load(p) ==
    /\ op[p].at = "read"
    /\ op[p].fn = "reissue" => issued < MaxTokens
    /\ IF p \in Scans /\ record.token # op[p].token
       THEN Finish(p, "not_found") /\ UNCHANGED issued
       ELSE IF MarkedExpired(record) # record
       THEN /\ op' = [op EXCEPT ![p].at = "expire", ![p].seen = MarkedExpired(record)]
            /\ UNCHANGED issued
       ELSE Decide(p, record)
    /\ UNCHANGED <<record, now, reception, screen, admissions>>

PutExpired(p) == /\ op[p].at = "expire"
                 /\ op[p].fn = "reissue" => issued < MaxTokens
                 /\ record' = op[p].seen
                 /\ Decide(p, op[p].seen)
                 /\ UNCHANGED <<now, reception, screen, admissions>>

Put(p) ==
    /\ op[p].at = "put"
    /\ record' = op[p].seen
    /\ CASE op[p].fn = "confirm" ->
              /\ admissions' = [admissions EXCEPT ![op[p].seen.token] = @ + 1]
              /\ op' = [op EXCEPT ![p].at = "create", ![p].seen = None]
         [] op[p].fn = "edit" ->
              Finish(p, None) /\ admissions' = [k \in Tokens |-> 0]
         [] OTHER -> Finish(p, None) /\ UNCHANGED admissions
    /\ UNCHANGED <<issued, now, reception, screen>>

\* The confirm route creates the reception; the terminal then asks for the
\* call, whether or not its visitor is still there (confirmAndCall).
Create(p) == /\ op[p].at = "create"
             /\ reception' = [reception EXCEPT ![p] = "confirming"]
             /\ op' = [op EXCEPT ![p].at = "call"]
             /\ UNCHANGED <<record, issued, now, screen, admissions>>

\* The call is placed; its answer may be lost on the way to the terminal.
PlaceCall(p) ==
    /\ op[p].at = "call"
    /\ \E s \in {"connected", "calling", "timeout", "failed", "confirming"} :
         /\ reception' = [reception EXCEPT ![p] = s]
         /\ Finish(p, s) \/ Finish(p, "network")
    /\ UNCHANGED <<record, issued, now, screen, admissions>>

\* A step of a chain fails, before it has an effect or, where the next step
\* follows, because its answer was lost: the chain ends there.
Fail(p) ==
    /\ p \in Scans /\ op[p].at \in {"read", "expire", "put", "create", "call"}
    /\ Finish(p, "network")
    /\ UNCHANGED <<record, issued, now, reception, screen, admissions>>

\* The webhooks settle a call that rings.
Settle(p) == /\ reception[p] = "calling"
             /\ \E s \in {"connected", "timeout", "failed"} :
                  reception' = [reception EXCEPT ![p] = s]
             /\ UNCHANGED <<record, issued, now, op, screen, admissions>>

Tick == now < MaxDay /\ now' = now + 1
        /\ UNCHANGED <<record, issued, op, reception, screen, admissions>>

-----------------------------------------------------------------------------
\* The administrators.

Clerk(p) == /\ op[p].at = "done"
            /\ \E fn \in Functions : op' = [op EXCEPT ![p] = [Free EXCEPT !.fn = fn, !.at = "read"]]
            /\ UNCHANGED <<record, issued, now, reception, screen, admissions>>

-----------------------------------------------------------------------------
\* The screen (CheckinFlow and the table of domain/checkin/state.ts).

Errors == {"cameraError", "scanError", "expiredError", "usedError", "revokedError", "networkError"}
States == {"idle", "selectingMethod", "checkingCamera", "scanning", "resolving", "confirming",
           "calling", "manualFallback", "completed", "cancelled"} \cup Errors

\* The steps of a visitor and of the camera that no request answers.
Edges == {<<"idle", "selectingMethod">>,             \* START
          <<"selectingMethod", "checkingCamera">>,   \* CHOOSE_QR
          <<"checkingCamera", "scanning">>,          \* CAMERA_GRANTED
          <<"checkingCamera", "cameraError">>, <<"scanning", "cameraError">>,
          <<"scanning", "scanError">>,
          <<"confirming", "scanning">>}              \* RESCAN
         \cup (Errors \X {"selectingMethod"})        \* RETRY


Goes(t, s) == screen' = [screen EXCEPT ![t].state = s, ![t].polls = FALSE,
                                       ![t].overdue = FALSE, ![t].held = FALSE,
                                       ![t].scan = IF s = "completed" THEN @ ELSE None,
                                       ![t].payload = IF s = "confirming" THEN @ ELSE None]

Press(t) == /\ \E s \in States : <<screen[t].state, s>> \in Edges /\ Goes(t, s)
            /\ UNCHANGED <<record, issued, now, op, reception, admissions>>

\* RESET, the manual reception and the return from an end; the requests on
\* their way go on.
Exit(t) == /\ screen[t].state # "idle"
           /\ screen' = [screen EXCEPT ![t] = Closed]
           /\ UNCHANGED <<record, issued, now, op, reception, admissions>>

Cancel(t) == /\ screen[t].state = "confirming"
             /\ screen' = [screen EXCEPT ![t] = [Closed EXCEPT !.state = "cancelled"]]
             /\ UNCHANGED <<record, issued, now, op, reception, admissions>>

\* A terminal starts a chain of requests.
Asks(t, fn, token, state) ==
    \E p \in Scans :
      /\ op[p].at \in {"done", "answered"} /\ \A u \in Terminals : screen[u].scan # p
      /\ op' = [op EXCEPT ![p] = [Free EXCEPT !.fn = fn, !.at = "read", !.token = token]]
      /\ reception' = [reception EXCEPT ![p] = "none"]
      /\ screen' = [screen EXCEPT ![t] = [Closed EXCEPT !.state = state, !.payload = token,
                                                        !.scan = p]]
      /\ UNCHANGED <<record, issued, now, admissions>>

Detect(t) == screen[t].state = "scanning" /\ \E k \in 1 .. issued : Asks(t, "resolve", k, "resolving")

Confirm(t) ==
    /\ screen[t].state = "confirming"
    /\ Asks(t, "confirm", screen[t].payload, "calling")

Answer(t) == IF screen[t].scan # None /\ op[screen[t].scan].at = "answered"
             THEN op[screen[t].scan].answer ELSE None

Resolved(t) ==
    /\ screen[t].state = "resolving" /\ Answer(t) # None
    /\ Goes(t, CASE Answer(t) = "ok"      -> "confirming"
                 [] Answer(t) = "expired" -> "expiredError"
                 [] Answer(t) = "used"    -> "usedError"
                 [] Answer(t) = "revoked" -> "revokedError"
                 [] Answer(t) = "network" -> "networkError"
                 [] OTHER                 -> "scanError")
    /\ UNCHANGED <<record, issued, now, op, reception, admissions>>

Heard(t, state) ==
    CASE state = "connected" -> Goes(t, "completed")
      [] state = "timeout"   -> screen' = [screen EXCEPT ![t].held = TRUE, ![t].polls = FALSE]
      [] OTHER               -> Goes(t, "networkError")

CalledEarly(t) ==    \* mutant: the confirmation alone completes the visit
    /\ screen[t].state = "calling" /\ ~screen[t].polls /\ ~screen[t].held /\ Answer(t) # None
    /\ IF Answer(t) = "calling" THEN Goes(t, "completed") ELSE Heard(t, Answer(t))
    /\ UNCHANGED <<record, issued, now, op, reception, admissions>>

Called(t) ==
    /\ screen[t].state = "calling" /\ ~screen[t].polls /\ ~screen[t].held /\ Answer(t) # None
    /\ IF Answer(t) = "calling" THEN screen' = [screen EXCEPT ![t].polls = TRUE]
       ELSE Heard(t, Answer(t))
    /\ UNCHANGED <<record, issued, now, op, reception, admissions>>

\* An answer that is not ok has no state, and decidePollAction gives up.
GivesUpNever(t, ok) == ~ok     \* mutant: the poll budget is not used

GivesUp(t, ok) == ~ok \/ screen[t].overdue

\* A status request whose answer a visitor still waits for.  A late answer
\* says the same: what has settled stays, and a ringing call changes nothing.
Poll(t, ok) ==
    /\ screen[t].polls
    /\ LET state == reception[screen[t].scan] IN
       IF ok /\ state # "calling" THEN Heard(t, state)
       ELSE GivesUp(t, ok) /\ Goes(t, "networkError")
    /\ UNCHANGED <<record, issued, now, op, reception, admissions>>

PollBudgetEnds(t) == /\ screen[t].polls /\ ~screen[t].overdue
                     /\ screen' = [screen EXCEPT ![t].overdue = TRUE]
                     /\ UNCHANGED <<record, issued, now, op, reception, admissions>>

NoticeHeld(t) == /\ screen[t].held
                 /\ Goes(t, "networkError")
                 /\ UNCHANGED <<record, issued, now, op, reception, admissions>>

Serves(p) == Load(p) \/ PutExpired(p) \/ Put(p) \/ Create(p) \/ PlaceCall(p) \/ Fail(p)

Next == \/ \E p \in Clerks \cup Scans : Load(p) \/ PutExpired(p) \/ Put(p)
        \/ \E p \in Clerks : Clerk(p)
        \/ \E p \in Scans : Create(p) \/ PlaceCall(p) \/ Fail(p) \/ Settle(p)
        \/ Tick
        \/ \E t \in Terminals : \/ Press(t) \/ Exit(t) \/ Cancel(t) \/ Detect(t) \/ Confirm(t)
                                \/ Resolved(t) \/ Called(t)
                                \/ (\E ok \in BOOLEAN : Poll(t, ok)) \/ PollBudgetEnds(t) \/ NoticeHeld(t)

Spec == Init /\ [][Next]_vars

\* A request that has begun ends, and the timers of a terminal run; no request
\* need fail, and no call need be settled.
Fairness ==
    /\ \A p \in Scans : WF_vars(Serves(p))
    /\ \A t \in Terminals : /\ WF_vars(Called(t)) /\ WF_vars(Resolved(t)) /\ WF_vars(Poll(t, TRUE))
                            /\ WF_vars(PollBudgetEnds(t)) /\ WF_vars(NoticeHeld(t))

FairSpec == Spec /\ Fairness

-----------------------------------------------------------------------------
TypeOK ==
    /\ record \in Reservations /\ issued \in Tokens /\ now \in Days
    /\ op \in [Clerks \cup Scans ->
                 [fn : AdminFunctions \cup {"none", "resolve", "confirm"},
                  at : {"done", "read", "expire", "put", "create", "call", "answered"},
                  token : Tokens \cup {None}, seen : Reservations \cup {None},
                  answer : {"ok", "expired", "used", "revoked", "not_found", "network",
                            "connected", "calling", "timeout", "failed", "confirming", None}]]
    /\ reception \in [Scans -> {"none", "confirming", "calling", "connected", "timeout", "failed"}]
    /\ screen \in [Terminals -> [state : States, payload : Tokens \cup {None},
                                 scan : Scans \cup {None}, polls : BOOLEAN,
                                 overdue : BOOLEAN, held : BOOLEAN]]
    /\ admissions \in [Tokens -> Nat]
    /\ \A t \in Terminals : screen[t].polls \/ screen[t].held =>
                               screen[t].state = "calling" /\ screen[t].scan # None

\* The code that chain p carries has admitted a visitor.
Admitted(p) == \E k \in Tokens : op[p].token = k /\ admissions[k] > 0

\* A code for single use (single_use of types.ts) that has admitted a visitor is
\* refused to whoever scans or confirms it afterwards, whatever cancellations,
\* revocations, reissues and other confirmations store around it.  Only an edit
\* that is stored after the admission makes it usable again.
UsedIsRefused ==
    [][\A p \in Scans :
         record.policy = "single_use" /\ op[p].at \in {"read", "expire"} /\ Admitted(p)
           => op'[p].at # "put" /\ (op'[p].at = "answered" => op'[p].answer # "ok")]_vars

InForce(r, k) == r.token = k /\ r.status = "active"

\* Code k is the reservation's, or has been and was replaced: no reissue is
\* still about to bring it into force.
InForceBefore(k) ==
    \/ k = record.token
    \/ k <= issued /\ \A p \in Clerks : op[p].at = "put" /\ op[p].fn = "reissue" => op[p].seen.token # k

\* A code that is no longer in force (used, cancelled, revoked, expired or
\* replaced) never comes into force again, however stale the copies are that
\* the requests put, except by an edit that was read while it was.
OnlyEditsRevive ==
    [][\A k \in Tokens : InForceBefore(k) /\ ~InForce(record, k) /\ InForce(record', k)
         => \E p \in Clerks : /\ op[p].at = "put" /\ op[p].fn = "edit"
                              /\ record' = op[p].seen]_vars

\* A reservation for single use admits one visitor.
OneAdmission == record.policy = "single_use" => \A k \in Tokens : admissions[k] <= 1

\* A reservation that was used or cancelled never becomes usable again: edits
\* and reissues of it are refused (lifecycle.ts).
UsedStaysUsed ==
    [][record.status \in {"used", "cancelled"} => record'.status # "active"]_vars

\* The visit is shown as completed only when somebody has answered the call
\* (place-call.ts: a confirmation alone is not a completed reception).
CompletedIsAnswered ==
    \A t \in Terminals : screen[t].state = "completed" => reception[screen[t].scan] = "connected"

\* A visitor is never left at the calling screen.
CallingEnds == \A t \in Terminals :
    []<>(screen[t].state \notin {"resolving", "calling"})

\* A used reservation that is valid for the day can be read again on that day.
SameDayReadsAgain ==
    [][\A t \in Terminals :
         record.policy = "same_day" /\ record.visitAt = now /\ ~Expired(record)
           => ~(screen[t].state = "resolving" /\ screen'[t].state = "usedError")]_vars

\* A call rings only while a terminal waits for it.
RingsForSomebody ==
    \A p \in Scans : reception[p] = "calling" => \E t \in Terminals : screen[t].scan = p

\* One status request that fails does not end the wait (CheckinFlow: one
\* failure to fetch does not give the call up).
OneFailureWaits ==
    [][\A t \in Terminals :
         screen[t].polls /\ ~screen[t].overdue /\ reception[screen[t].scan] = "calling"
           => screen'[t].state # "networkError"]_vars
=============================================================================
