--------------------------- MODULE ReceptionStore ---------------------------
(***************************************************************************)
(* src/src/lib/data-stores/reception-store.ts on one reception record.     *)
(*                                                                         *)
(* The store offers functions (startCall, markTimeout, ...) to the HTTP     *)
(* routes.  Each function reads the record and then writes it in one or    *)
(* more steps; the backend makes a single get, put, updateIf or log write   *)
(* atomic and nothing larger, and requests run on independent server        *)
(* instances, so the steps of different requests interleave freely.         *)
(*                                                                         *)
(* A process of the model is one request, which calls one function once.    *)
(* Receptions do not share state, so one record is enough.                  *)
(***************************************************************************)
EXTENDS Naturals, Sequences, ReceptionState

CONSTANTS
    Requests,      \* the requests that reach the store
    Functions,     \* the store functions they may call
    Calls,         \* provider call ids
    NoCall,        \* the absent provider call id
    StartAlone,    \* TRUE: nothing else runs while startCall runs
    Failing        \* TRUE: a backend call may throw

AllFunctions == {"start", "cancel", "complete", "connected", "timeout",
                 "failed", "respond", "repoint", "fallback", "feedback"}

ASSUME StoreAssumption == /\ Functions \subseteq AllFunctions
                          /\ NoCall \notin Calls
                          /\ StartAlone \in BOOLEAN
                          /\ Failing \in BOOLEAN

VARIABLES
    rec,    \* the reception record
    logs,   \* its rows in the reception log, oldest first
    op      \* op[p]: the progress of request p

vars == <<rec, logs, op>>

Outcomes == {"none", "connected", "timeout", "failed", "cancelled"}

\* The fields of a ReceptionSession that the store decides on or can lose.
Recs == [state    : States,
         call     : Calls \cup {NoCall},     \* providerCallId
         outcome  : Outcomes,                \* callOutcome
         response : BOOLEAN]                 \* staffResponse is present

Rows == [outcome : Outcomes, fallback : BOOLEAN, rated : BOOLEAN]

\* The input of a function: what the call adapter answers to startCall, and
\* the call id startCall attaches or repointProviderCall installs.
Inputs == [status : {"none", "calling", "connected", "timeout", "failed"},
           call   : Calls \cup {NoCall}]

NoInput == [status |-> "none", call |-> NoCall]

InputsOf(fn) ==
    CASE fn = "start" ->
           {[status |-> "calling", call |-> c] : c \in Calls}
           \cup {[status |-> s, call |-> NoCall] : s \in {"connected", "timeout", "failed"}}
      [] fn = "repoint" -> {[status |-> "none", call |-> c] : c \in Calls}
      [] OTHER -> {NoInput}

Labels == {"new", "read", "put", "attach", "result", "outcome", "respond",
           "cas", "repoint", "record", "find", "mark", "done"}

Created == [state |-> "confirming", call |-> NoCall,
            outcome |-> "none", response |-> FALSE]

NoRow == [outcome |-> "none", fallback |-> FALSE, rated |-> FALSE]

Idle == [fn |-> "feedback", input |-> NoInput, at |-> "new", seen |-> Created,
         index |-> 0, row |-> NoRow, ok |-> FALSE]

Ops == [fn : AllFunctions, input : Inputs, at : Labels,
        seen : Recs, index : Nat, row : Rows, ok : BOOLEAN]

\* The types of the state.
TypeOK == /\ rec \in Recs
          /\ logs \in Seq(Rows)
          /\ op \in [Requests -> Ops]

Active(p) == op[p].at \notin {"new", "done"}

-----------------------------------------------------------------------------
\* The event a function raises, and the state in which its call ended.
EventOf(fn) ==
    CASE fn = "start"     -> "CONFIRM"
      [] fn = "cancel"    -> "CANCEL"
      [] fn = "complete"  -> "COMPLETE"
      [] fn = "connected" -> "CALL_CONNECTED"
      [] fn = "timeout"   -> "CALL_TIMEOUT"
      [] fn = "failed"    -> "CALL_FAILED"
      [] OTHER            -> "USE_FALLBACK"

ResultEvent(status) ==
    CASE status = "connected" -> "CALL_CONNECTED"
      [] status = "timeout"   -> "CALL_TIMEOUT"
      [] OTHER                -> "CALL_FAILED"

\* STAFF_RESPONSE_ALLOWED_STATES
StaffMayRespond == {"calling", "connected"}

\* Whether a function goes on from the state it has read.
Allowed(fn, state) ==
    IF fn = "respond" THEN state \in StaffMayRespond
    ELSE Targets(state, EventOf(fn)) # {}

FirstWrite(fn) ==
    CASE fn \in {"timeout", "failed"} -> "cas"
      [] fn = "respond"               -> "respond"
      [] OTHER                        -> "put"

-----------------------------------------------------------------------------
\* createReception has stored the record; no request is running.
Init == /\ rec = Created
        /\ logs = <<>>
        /\ op = [p \in Requests |-> Idle]

At(p, label) == op[p].at = label

Goto(p, label) == op' = [op EXCEPT ![p].at = label]

Return(p, ok) == op' = [op EXCEPT ![p].at = "done", ![p].ok = ok]

\* A request calls fn.  repointProviderCall and the feedback function do not
\* read the reception first.
Begin(p, fn, input) ==
    /\ At(p, "new")
    /\ op' = [op EXCEPT ![p].fn = fn, ![p].input = input,
                        ![p].at = CASE fn = "repoint"  -> "repoint"
                                    [] fn = "feedback" -> "find"
                                    [] OTHER           -> "read"]
    /\ UNCHANGED <<rec, logs>>

\* getReception, and the refusal of an event the state does not allow.
Read(p) ==
    /\ At(p, "read")
    /\ op' = [op EXCEPT ![p].seen = rec,
                        ![p].at = IF Allowed(op[p].fn, rec.state)
                                  THEN FirstWrite(op[p].fn) ELSE "done"]
    /\ UNCHANGED <<rec, logs>>

\* The full replacement of the record by a copy that was read earlier.
Overwrite(p, new, label) ==
    /\ rec' = new
    /\ op' = [op EXCEPT ![p].seen = new, ![p].at = label, ![p].ok = (label = "done")]

\* applyEvent: put({...session, state: next}).
ApplyEvent(p) ==
    /\ At(p, "put")
    /\ \E t \in Targets(op[p].seen.state, EventOf(op[p].fn)) :
          Overwrite(p, [op[p].seen EXCEPT !.state = t],
                    CASE op[p].fn = "fallback" -> "find"
                      [] op[p].fn = "start" /\ op[p].input.status = "calling" -> "attach"
                      [] op[p].fn = "start" /\ op[p].input.status # "calling" -> "result"
                      [] OTHER -> "outcome")
    /\ UNCHANGED logs

\* startCall, asynchronous adapter: the call id is attached, the state stays.
Attach(p) ==
    /\ At(p, "attach")
    /\ Overwrite(p, [op[p].seen EXCEPT !.call = op[p].input.call], "done")
    /\ UNCHANGED logs

\* startCall, synchronous adapter: applyEvent with the adapter's result.
ApplyResult(p) ==
    /\ At(p, "result")
    /\ \E t \in Targets(op[p].seen.state, ResultEvent(op[p].input.status)) :
          Overwrite(p, [op[p].seen EXCEPT !.state = t], "outcome")
    /\ UNCHANGED logs

\* The outcome a function adds to the record (completeReception adds a time).
OutcomeOf(p) ==
    CASE op[p].fn = "start"     -> op[p].input.status
      [] op[p].fn = "cancel"    -> "cancelled"
      [] op[p].fn = "connected" -> "connected"
      [] OTHER                  -> op[p].seen.outcome

\* Mutations of Files: a connected call is filed when it connects; whatever is
\* completed is filed; a call that could not be placed is not.
FilesConnected(p) ==
    op[p].fn \in {"start", "cancel"} \/ (op[p].fn = "complete" /\ OutcomeOf(p) = "connected")
FilesCompleted(p) ==
    op[p].fn \in {"cancel", "complete"} \/ (op[p].fn = "start" /\ OutcomeOf(p) # "connected")
FilesNoStart(p) ==
    \/ op[p].fn = "cancel"
    \/ op[p].fn = "complete" /\ OutcomeOf(p) = "connected"

\* Which of them then call recordReceptionOutcome.
Files(p) ==
    \/ op[p].fn = "cancel"
    \/ op[p].fn = "start" /\ OutcomeOf(p) # "connected"
    \/ op[p].fn = "complete" /\ OutcomeOf(p) = "connected"

\* The second put of startCall, cancelReception, completeReception and
\* markConnected.
PutOutcome(p) ==
    /\ At(p, "outcome")
    /\ Overwrite(p, [op[p].seen EXCEPT !.outcome = OutcomeOf(p)],
                  IF Files(p) THEN "record" ELSE "done")
    /\ UNCHANGED logs

\* recordStaffResponse: put({...session, staffResponse}).
PutResponse(p) ==
    /\ At(p, "respond")
    /\ Overwrite(p, [op[p].seen EXCEPT !.response = TRUE], "done")
    /\ UNCHANGED logs

\* The named fields of settleTerminal, written over a record.
WriteEnding(p, record, state) ==
    /\ rec' = [record EXCEPT !.state = state, !.outcome = op[p].fn]
    /\ op' = [op EXCEPT ![p].seen.state = state, ![p].seen.outcome = op[p].fn,
                        ![p].at = "record"]

\* Mutations of Settle: no condition on the state; the whole record that was
\* read is written; the loser files too; the event is stored for the state.
SettleByPut(p) ==
    /\ At(p, "cas")
    /\ \E t \in Targets(op[p].seen.state, EventOf(op[p].fn)) : WriteEnding(p, rec, t)
    /\ UNCHANGED logs
SettleByCopy(p) ==
    /\ At(p, "cas")
    /\ IF rec.state = op[p].seen.state
       THEN \E t \in Targets(op[p].seen.state, EventOf(op[p].fn)) :
               WriteEnding(p, op[p].seen, t)
       ELSE Return(p, FALSE) /\ UNCHANGED rec
    /\ UNCHANGED logs
SettleLoserFiles(p) ==
    /\ At(p, "cas")
    /\ IF rec.state = op[p].seen.state
       THEN \E t \in Targets(op[p].seen.state, EventOf(op[p].fn)) : WriteEnding(p, rec, t)
       ELSE /\ op' = [op EXCEPT ![p].seen.outcome = op[p].fn, ![p].at = "record"]
            /\ UNCHANGED rec
    /\ UNCHANGED logs
SettleEvent(p) ==
    /\ At(p, "cas")
    /\ IF rec.state = op[p].seen.state
       THEN WriteEnding(p, rec, EventOf(op[p].fn))
       ELSE Return(p, FALSE) /\ UNCHANGED rec
    /\ UNCHANGED logs

\* settleTerminal: applyIfState writes the named fields if the state is still
\* the one that was read; the loser reports an error and files nothing.
Settle(p) ==
    /\ At(p, "cas")
    /\ IF rec.state = op[p].seen.state
       THEN \E t \in Targets(op[p].seen.state, EventOf(op[p].fn)) : WriteEnding(p, rec, t)
       ELSE Return(p, FALSE) /\ UNCHANGED rec
    /\ UNCHANGED logs

\* Mutations of Repoint: the record that was read while it was calling is put;
\* the call id is replaced in any state.
RepointByPut(p) ==
    /\ At(p, "repoint")
    /\ rec' = [rec EXCEPT !.state = "calling", !.call = op[p].input.call]
    /\ Return(p, TRUE)
    /\ UNCHANGED logs
RepointAlways(p) ==
    /\ At(p, "repoint")
    /\ rec' = [rec EXCEPT !.call = op[p].input.call]
    /\ Return(p, TRUE)
    /\ UNCHANGED logs

\* repointProviderCall: setProviderCallIdIfCalling.
Repoint(p) ==
    /\ At(p, "repoint")
    /\ IF rec.state = "calling"
       THEN rec' = [rec EXCEPT !.call = op[p].input.call] /\ Return(p, TRUE)
       ELSE Return(p, FALSE) /\ UNCHANGED rec
    /\ UNCHANGED logs

\* recordReceptionOutcome: a row under a fresh id (and its audit entry).
Record(p) ==
    /\ At(p, "record")
    /\ logs' = Append(logs, [NoRow EXCEPT
                 !.outcome = IF op[p].seen.outcome = "none" THEN "failed"
                             ELSE op[p].seen.outcome])
    /\ Return(p, TRUE)
    /\ UNCHANGED rec

\* markFallbackUsed and recordSatisfactionFeedback: findByReceptionId returns
\* the newest row ...
FindRow(p) ==
    /\ At(p, "find")
    /\ IF logs = <<>>
       THEN Return(p, op[p].fn = "fallback")
       ELSE op' = [op EXCEPT ![p].index = Len(logs), ![p].row = logs[Len(logs)],
                             ![p].at = "mark"]
    /\ UNCHANGED <<rec, logs>>

\* ... and put replaces it by the copy with one more field set.
PutRow(p) ==
    /\ At(p, "mark")
    /\ logs' = [logs EXCEPT ![op[p].index] =
                  IF op[p].fn = "fallback" THEN [op[p].row EXCEPT !.fallback = TRUE]
                  ELSE [op[p].row EXCEPT !.rated = TRUE]]
    /\ Return(p, TRUE)
    /\ UNCHANGED rec

\* The backend call throws, or the server instance dies: the request ends
\* where it is, and what it has written stays.
Throw(p) == /\ Failing
            /\ Active(p)
            /\ Return(p, FALSE)
            /\ UNCHANGED <<rec, logs>>

\* One step of a running function.
Step(p) == \/ Read(p) \/ ApplyEvent(p) \/ Attach(p) \/ ApplyResult(p)
           \/ PutOutcome(p) \/ PutResponse(p) \/ Settle(p) \/ Repoint(p)
           \/ Record(p) \/ FindRow(p) \/ PutRow(p)

\* With StartAlone, /call has the reception to itself, as on a kiosk whose
\* other requests follow the answer to /call.
MayBegin(fn) ==
    StartAlone => \A q \in Requests : Active(q) => fn # "start" /\ op[q].fn # "start"

Request(p) == \E fn \in Functions : \E input \in InputsOf(fn) :
                 MayBegin(fn) /\ Begin(p, fn, input)

Next == \E p \in Requests : Request(p) \/ Step(p) \/ Throw(p)

Spec == Init /\ [][Next]_vars

\* Requests that follow one another: each returns before the next begins.
SerialNext == \E p \in Requests :
                 \/ Step(p)
                 \/ (\A q \in Requests : ~Active(q)) /\ Request(p)

SerialSpec == Init /\ [][SerialNext]_vars

-----------------------------------------------------------------------------
Quiet == \A p \in Requests : ~Active(p)

\* States in which the call of the reception has ended.
Ended == {"connected", "timeout", "failed", "cancelled", "fallback", "completed"}

\* The states whose reception must be in the history.
Filed == {"timeout", "failed", "cancelled", "fallback", "completed"}

\* Whatever has failed half way: a history row tells how the call really ended,
\* and a reception that is still open has none.
HistoryTruthful ==
    \A i \in DOMAIN logs : rec.state \in Filed /\ logs[i].outcome = rec.outcome

\* recordReceptionOutcome must run at most once per reception: rows have fresh
\* ids, so a second run leaves two history rows for one visit.
HistoryOnce == Len(logs) <= 1

\* When no request is running, the history has a row exactly when the
\* reception is over, and the row says how the call ended.
HistoryMatches ==
    Quiet => IF rec.state \in Filed
             THEN Len(logs) = 1 /\ logs[1].outcome = rec.outcome
             ELSE logs = <<>>

\* Every change of the stored state, whoever writes it, is an edge of the
\* transition table: a reception that is over is never put back to calling.
StateFollowsTable ==
    [][rec'.state # rec.state =>
         \E e \in Events : rec'.state \in Targets(rec.state, e)]_rec

\* Once repointProviderCall has reported success, the reception waits for a
\* call some successful repoint installed, never again for an earlier one.
Repointed == {op[p].input.call : p \in {q \in Requests : op[q].fn = "repoint" /\ op[q].ok}}

RepointSticks == Repointed # {} => rec.call \in Repointed

\* When nobody is running and the visitor's use of the fallback was recorded,
\* the history row says so.
FallbackMarked ==
    Quiet /\ (\E p \in Requests : op[p].fn = "fallback" /\ op[p].ok) /\ logs # <<>>
        => \E i \in DOMAIN logs : logs[i].fallback

\* A reception whose call has ended without an answer reaches the history,
\* when every begun request is carried through.
EndedIsFiled ==
    rec.state \in {"timeout", "failed", "cancelled"} ~> logs # <<>>

\* The ending of the reception: markConnected, startCall and cancelReception
\* write the state first and callOutcome with their next put.
Ending == IF rec.outcome # "none" THEN rec.outcome
           ELSE IF rec.state \in {"connected", "timeout", "failed", "cancelled"}
                THEN rec.state ELSE "none"

Promise == INSTANCE ReceptionPromise WITH
               state <- rec.state, ending <- Ending, call <- rec.call,
               history <- [i \in DOMAIN logs |-> logs[i].outcome]

\* The store implements the one-step machine of ReceptionPromise.
KeepsPromise == Promise!Spec
=============================================================================
