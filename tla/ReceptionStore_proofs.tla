------------------------ MODULE ReceptionStore_proofs -----------------------
(***************************************************************************)
(* Theorems about the store functions, for any number of requests.          *)
(***************************************************************************)
EXTENDS ReceptionStore, SequenceTheorems, TLAPS

\* transition() leads from a state to a state.
LEMMA TargetsAreStates ==
    ASSUME NEW s \in States, NEW e
    PROVE  Targets(s, e) \subseteq States
BY DEF Targets, States

\* A log row is replaced by a row, whatever index it is looked for at.
LEMMA RowReplaced ==
    ASSUME NEW l \in Seq(Rows), NEW i \in Nat, NEW r \in Rows
    PROVE  [l EXCEPT ![i] = r] \in Seq(Rows)
<1>1. CASE i \in 1..Len(l)
  BY <1>1, ExceptSeq
<1>2. CASE i \notin 1..Len(l)
  <2>1. DOMAIN l = 1..Len(l)
    OBVIOUS
  <2>2. [l EXCEPT ![i] = r] = l
    BY <1>2, <2>1
  <2> QED BY <2>2
<1> QED BY <1>1, <1>2

\* Which function has the labels that write an outcome, and on what input: a
\* synchronous adapter answers startCall with a result, never with "calling".
Fits(o) ==
    /\ o.at = "cas" => o.fn \in {"timeout", "failed"}
    /\ o.at = "attach" => o.fn = "start"
    /\ o.at = "result" => o.fn = "start"
    /\ o.at = "outcome" /\ o.fn # "start" => o.fn \in {"cancel", "complete", "connected"}
    /\ o.at \in {"result", "outcome"} /\ o.fn = "start" =>
          o.input.status \in {"connected", "timeout", "failed"}
    /\ o.at \in {"read", "put"} /\ o.fn = "start" => o.input.status # "none"
    /\ o.at = "read" => o.fn \notin {"repoint", "feedback"}
    /\ o.at = "put" => o.fn \in {"start", "cancel", "complete", "connected", "fallback"}

Typed == TypeOK /\ \A p \in Requests : Fits(op[p])

\* The initial state is typed.
LEMMA InitTyped == Init => Typed
BY StoreAssumption
   DEF Init, Typed, TypeOK, Fits, Created, Recs, States, Outcomes, Idle, Ops,
       AllFunctions, NoInput, Inputs, Labels, NoRow, Rows

\* A step replaces the progress of one request by a typed one.
LEMMA Replaced ==
    ASSUME Typed, NEW p \in Requests, NEW o \in Ops, Fits(o),
           op' = [op EXCEPT ![p] = o], rec' \in Recs, logs' \in Seq(Rows)
    PROVE  Typed'
<1>1. op' \in [Requests -> Ops]
  BY DEF Typed, TypeOK
<1>2. \A q \in Requests : op'[q] = IF q = p THEN o ELSE op[q]
  BY DEF Typed, TypeOK
<1> QED BY <1>1, <1>2 DEF Typed, TypeOK

\* Every step of every request keeps the state typed.
LEMMA NextTyped == Typed /\ [Next]_vars => Typed'
<1> SUFFICES ASSUME Typed, [Next]_vars PROVE Typed'
  OBVIOUS
<1>0. rec \in Recs /\ logs \in Seq(Rows) /\ \A q \in Requests : op[q] \in Ops /\ Fits(op[q])
  BY DEF Typed, TypeOK
<1>1. CASE UNCHANGED vars
  BY <1>1 DEF vars, Typed, TypeOK
<1>2. ASSUME NEW p \in Requests, Request(p) PROVE Typed'
  <2>1. PICK fn \in Functions : \E input \in InputsOf(fn) : Begin(p, fn, input)
    BY <1>2 DEF Request
  <2>2. PICK input \in InputsOf(fn) : Begin(p, fn, input)
    BY <2>1
  <2>3. fn \in AllFunctions
    BY StoreAssumption
  <2>4. input \in Inputs /\ (fn = "start" => input.status # "none")
    BY <2>3 DEF InputsOf, Inputs, NoInput, AllFunctions
  <2> DEFINE label == CASE fn = "repoint" -> "repoint" [] fn = "feedback" -> "find"
                        [] OTHER -> "read"
             o == [op[p] EXCEPT !.fn = fn, !.input = input, !.at = label]
  <2>5. label \in {"repoint", "find", "read"} /\ label \in Labels
    BY DEF Labels
  <2>6. o \in Ops
    BY <1>0, <2>3, <2>4, <2>5 DEF Ops
  <2>7. o.at = label /\ o.fn = fn /\ o.input = input
    BY <1>0 DEF Ops
  <2>8. Fits(o)
    BY <2>4, <2>5, <2>7 DEF Fits
  <2>9. op' = [op EXCEPT ![p] = o] /\ rec' = rec /\ logs' = logs
    BY <2>2 DEF Begin
  <2> QED BY <1>0, <2>6, <2>8, <2>9, Replaced
<1>3. ASSUME NEW p \in Requests, Read(p) PROVE Typed'
  <2> DEFINE label == IF Allowed(op[p].fn, rec.state) THEN FirstWrite(op[p].fn) ELSE "done"
             o == [op[p] EXCEPT !.seen = rec, !.at = label]
  <2>1. label \in {"cas", "respond", "put", "done"} /\ label \in Labels
    BY DEF FirstWrite, Labels
  <2>2. /\ label = "cas" => op[p].fn \in {"timeout", "failed"}
        /\ label = "put" => op[p].fn \notin {"timeout", "failed", "respond"}
    BY DEF FirstWrite
  <2>3. o \in Ops
    BY <1>0, <2>1 DEF Ops
  <2>4. o.at = label /\ o.fn = op[p].fn /\ o.input = op[p].input
    BY <1>0 DEF Ops
  <2>5. Fits(o)
    BY <1>0, <1>3, <2>1, <2>2, <2>4 DEF Fits, Read, At, Ops, AllFunctions
  <2>6. op' = [op EXCEPT ![p] = o] /\ rec' = rec /\ logs' = logs
    BY <1>3 DEF Read
  <2> QED BY <1>0, <2>3, <2>5, <2>6, Replaced
<1>4. ASSUME NEW p \in Requests, NEW new \in Recs, NEW label \in Labels,
             Overwrite(p, new, label), logs' = logs,
             label \in {"attach", "result"} => op[p].fn = "start",
             label = "outcome" /\ op[p].fn # "start" =>
                 op[p].fn \in {"cancel", "complete", "connected"},
             label \in {"result", "outcome"} /\ op[p].fn = "start" =>
                 op[p].input.status \in {"connected", "timeout", "failed"},
             label \notin {"cas", "read", "put"}
      PROVE  Typed'
  <2> DEFINE o == [op[p] EXCEPT !.seen = new, !.at = label, !.ok = (label = "done")]
  <2>1. o \in Ops
    BY <1>0 DEF Ops
  <2>2. o.at = label /\ o.fn = op[p].fn /\ o.input = op[p].input
    BY <1>0 DEF Ops
  <2>3. Fits(o)
    BY <1>4, <2>2 DEF Fits
  <2>4. op' = [op EXCEPT ![p] = o] /\ rec' = new
    BY <1>4 DEF Overwrite
  <2> QED BY <1>0, <1>4, <2>1, <2>3, <2>4, Replaced
<1>5. ASSUME NEW p \in Requests, NEW ok \in BOOLEAN, Return(p, ok),
             rec' \in Recs, logs' \in Seq(Rows)
      PROVE  Typed'
  <2> DEFINE o == [op[p] EXCEPT !.at = "done", !.ok = ok]
  <2>1. o \in Ops /\ o.at = "done"
    BY <1>0 DEF Ops, Labels
  <2>2. Fits(o)
    BY <2>1 DEF Fits
  <2>3. op' = [op EXCEPT ![p] = o]
    BY <1>5 DEF Return
  <2> QED BY <1>5, <2>1, <2>2, <2>3, Replaced
<1>6. ASSUME NEW p \in Requests, ApplyEvent(p) PROVE Typed'
  <2> DEFINE label == CASE op[p].fn = "fallback" -> "find"
                        [] op[p].fn = "start" /\ op[p].input.status = "calling" -> "attach"
                        [] op[p].fn = "start" /\ op[p].input.status # "calling" -> "result"
                        [] OTHER -> "outcome"
  <2>1. PICK t \in Targets(op[p].seen.state, EventOf(op[p].fn)) :
           Overwrite(p, [op[p].seen EXCEPT !.state = t], label)
    BY <1>6 DEF ApplyEvent
  <2>2. op[p].seen \in Recs /\ op[p].seen.state \in States
    BY <1>0 DEF Ops, Recs
  <2>3. t \in States
    BY <2>1, <2>2, TargetsAreStates
  <2>4. [op[p].seen EXCEPT !.state = t] \in Recs
    BY <2>2, <2>3 DEF Recs
  <2>5. label \in Labels /\ label \notin {"cas", "read", "put"}
    BY DEF Labels
  <2>6. /\ label \in {"attach", "result"} => op[p].fn = "start"
        /\ label = "result" => op[p].input.status # "calling"
        /\ label = "outcome" => op[p].fn \notin {"start", "fallback"}
    OBVIOUS
  <2>7. op[p].at = "put" /\ logs' = logs /\ op[p] \in Ops /\ Fits(op[p])
    BY <1>0, <1>6 DEF ApplyEvent, At
  <2>8. label = "result" => op[p].input.status \in {"connected", "timeout", "failed"}
    BY <2>6, <2>7 DEF Fits, Ops, Inputs
  <2>9. label = "outcome" => op[p].fn \in {"cancel", "complete", "connected"}
    BY <2>6, <2>7 DEF Fits
  <2> QED BY <1>4, <2>1, <2>4, <2>5, <2>6, <2>7, <2>8, <2>9
<1>7. ASSUME NEW p \in Requests, Attach(p) PROVE Typed'
  <2>1. [op[p].seen EXCEPT !.call = op[p].input.call] \in Recs
    BY <1>0 DEF Ops, Recs, Inputs
  <2> QED BY <1>4, <1>7, <2>1 DEF Attach, Labels
<1>8. ASSUME NEW p \in Requests, ApplyResult(p) PROVE Typed'
  <2>1. PICK t \in Targets(op[p].seen.state, ResultEvent(op[p].input.status)) :
           Overwrite(p, [op[p].seen EXCEPT !.state = t], "outcome")
    BY <1>8 DEF ApplyResult
  <2>2. op[p].seen \in Recs /\ op[p].seen.state \in States
    BY <1>0 DEF Ops, Recs
  <2>3. t \in States
    BY <2>1, <2>2, TargetsAreStates
  <2>4. [op[p].seen EXCEPT !.state = t] \in Recs
    BY <2>2, <2>3 DEF Recs
  <2> QED BY <1>0, <1>4, <1>8, <2>1, <2>4 DEF ApplyResult, At, Fits, Labels
<1>9. ASSUME NEW p \in Requests, PutOutcome(p) PROVE Typed'
  <2> DEFINE label == IF Files(p) THEN "record" ELSE "done"
  <2>1. op[p].seen \in Recs /\ op[p].seen.outcome \in Outcomes
    BY <1>0 DEF Ops, Recs
  <2>2. op[p].fn = "start" => op[p].input.status \in {"connected", "timeout", "failed"}
    BY <1>0, <1>9 DEF PutOutcome, At, Fits
  <2>3. OutcomeOf(p) \in Outcomes
    BY <2>1, <2>2 DEF OutcomeOf, Outcomes
  <2>4. [op[p].seen EXCEPT !.outcome = OutcomeOf(p)] \in Recs
    BY <2>1, <2>3 DEF Recs
  <2>5. label \in Labels /\ label \in {"record", "done"}
    BY DEF Labels
  <2>6. Overwrite(p, [op[p].seen EXCEPT !.outcome = OutcomeOf(p)], label) /\ logs' = logs
    BY <1>9 DEF PutOutcome
  <2> QED BY <1>4, <2>4, <2>5, <2>6
<1>10. ASSUME NEW p \in Requests, PutResponse(p) PROVE Typed'
  <2>1. [op[p].seen EXCEPT !.response = TRUE] \in Recs
    BY <1>0 DEF Ops, Recs
  <2> QED BY <1>4, <1>10, <2>1 DEF PutResponse, Labels
<1>11. ASSUME NEW p \in Requests, Settle(p) PROVE Typed'
  <2>1. op[p].fn \in {"timeout", "failed"} /\ logs' = logs
    BY <1>0, <1>11 DEF Settle, At, Fits
  <2>2. CASE rec.state # op[p].seen.state
    BY <1>0, <1>5, <1>11, <2>2 DEF Settle
  <2>3. CASE rec.state = op[p].seen.state
    <3>1. PICK t \in Targets(op[p].seen.state, EventOf(op[p].fn)) :
             /\ rec' = [rec EXCEPT !.state = t, !.outcome = op[p].fn]
             /\ op' = [op EXCEPT ![p].seen.state = t, ![p].seen.outcome = op[p].fn,
                                 ![p].at = "record"]
      BY <1>11, <2>3 DEF Settle, WriteEnding
    <3>2. t \in States
      BY <3>1, <1>0, TargetsAreStates DEF Ops, Recs
    <3> DEFINE o == [op[p] EXCEPT !.seen.state = t, !.seen.outcome = op[p].fn, !.at = "record"]
    <3>3. op[p].fn \in Outcomes /\ "record" \in Labels
      BY <2>1 DEF Outcomes, Labels
    <3>4. o \in Ops /\ o.at = "record"
      BY <1>0, <3>2, <3>3 DEF Ops, Recs
    <3>5. Fits(o)
      BY <3>4 DEF Fits
    <3>6. op' = [op EXCEPT ![p] = o]
      BY <3>1
    <3>7. rec' \in Recs
      BY <1>0, <3>1, <3>2, <3>3 DEF Recs
    <3> QED BY <1>0, <2>1, <3>4, <3>5, <3>6, <3>7, Replaced
  <2> QED BY <2>2, <2>3
<1>12. ASSUME NEW p \in Requests, Repoint(p) PROVE Typed'
  <2>1. [rec EXCEPT !.call = op[p].input.call] \in Recs
    BY <1>0 DEF Ops, Inputs, Recs
  <2> QED BY <1>0, <1>5, <1>12, <2>1 DEF Repoint
<1>13. ASSUME NEW p \in Requests, Record(p) PROVE Typed'
  <2> DEFINE row == [NoRow EXCEPT !.outcome =
                       IF op[p].seen.outcome = "none" THEN "failed" ELSE op[p].seen.outcome]
  <2>1. row \in Rows
    BY <1>0 DEF Ops, Recs, Rows, NoRow, Outcomes
  <2>2. Append(logs, row) \in Seq(Rows)
    BY <1>0, <2>1, AppendProperties
  <2> QED BY <1>0, <1>5, <1>13, <2>2 DEF Record
<1>14. ASSUME NEW p \in Requests, FindRow(p) PROVE Typed'
  <2>1. CASE logs = <<>>
    BY <1>0, <1>5, <1>14, <2>1 DEF FindRow
  <2>2. CASE logs # <<>>
    <3> DEFINE o == [op[p] EXCEPT !.index = Len(logs), !.row = logs[Len(logs)], !.at = "mark"]
    <3>1. Len(logs) \in Nat /\ logs[Len(logs)] \in Rows /\ "mark" \in Labels
      BY <1>0, <2>2, LenProperties, ElementOfSeq, EmptySeq DEF Labels
    <3>2. o \in Ops /\ o.at = "mark"
      BY <1>0, <3>1 DEF Ops
    <3>3. Fits(o)
      BY <3>2 DEF Fits
    <3>4. op' = [op EXCEPT ![p] = o] /\ rec' = rec /\ logs' = logs
      BY <1>14, <2>2 DEF FindRow
    <3> QED BY <1>0, <3>2, <3>3, <3>4, Replaced
  <2> QED BY <2>1, <2>2
<1>15. ASSUME NEW p \in Requests, PutRow(p) PROVE Typed'
  <2> DEFINE row == IF op[p].fn = "fallback" THEN [op[p].row EXCEPT !.fallback = TRUE]
                    ELSE [op[p].row EXCEPT !.rated = TRUE]
  <2>1. row \in Rows /\ op[p].index \in Nat
    BY <1>0 DEF Ops, Rows
  <2>2. [logs EXCEPT ![op[p].index] = row] \in Seq(Rows)
    BY <1>0, <2>1, RowReplaced
  <2> QED BY <1>0, <1>5, <1>15, <2>2 DEF PutRow
<1>16. ASSUME NEW p \in Requests, Throw(p) PROVE Typed'
  BY <1>0, <1>5, <1>16 DEF Throw
<1> QED BY <1>1, <1>2, <1>3, <1>6, <1>7, <1>8, <1>9, <1>10, <1>11, <1>12, <1>13, <1>14,
           <1>15, <1>16 DEF Next, Step

\* The records, the history and the progress of the requests keep their types:
\* for any number of requests, functions, calls and failures, no function ever
\* stores a state, an outcome or a history row the store does not know.
THEOREM TypesHold == Spec => []TypeOK
<1>1. Typed => TypeOK
  BY DEF Typed
<1> QED BY InitTyped, NextTyped, <1>1, PTL DEF Spec

-----------------------------------------------------------------------------
(* From here on: only functions that write conditionally, and startCall with *)
(* nothing beside it.                                                        *)

Conditional == /\ Functions \subseteq {"start", "timeout", "failed", "repoint"}
               /\ StartAlone

Open == {"confirming", "calling"}

\* What a request knows of the record at each of its steps: startCall acts on
\* the record as it is, settleTerminal on a state it may have lost, and who is
\* about to file the result is the one that wrote it.
Knows(o, r, l) ==
    /\ o.at \notin {"respond", "find", "mark"}
    /\ o.at \notin {"new", "done"} => o.fn \in {"start", "timeout", "failed", "repoint"}
    /\ o.at \in {"read", "put"} /\ o.fn = "start" /\ o.input.status = "calling"
          => o.input.call \in Calls
    /\ o.at = "repoint" => o.fn = "repoint" /\ o.input.call \in Calls
    /\ o.at = "cas" => /\ o.seen.state \in Open
                       /\ o.seen.state = "confirming" => o.fn = "failed"
    /\ o.at \in {"put", "attach", "result", "outcome"} => o.fn = "start" /\ o.seen = r
    /\ o.at = "put" => r.state = "confirming"
    /\ o.at \in {"attach", "result"} => r.state = "calling"
    /\ o.at = "attach" => o.input.call \in Calls
    /\ o.at = "outcome" => r.state = o.input.status /\ l = <<>>
    /\ o.at = "record" => /\ r.state \in {"timeout", "failed"}
                          /\ r.outcome = r.state /\ o.seen.outcome = r.state
                          /\ l = <<>>

\* startCall runs alone, and at most one request has a result to file.
Alone == \A p, q \in Requests :
            Active(p) /\ Active(q) /\ op[p].fn = "start" => p = q
OneFiler == \A p, q \in Requests :
            op[p].at \in {"outcome", "record"} /\ op[q].at \in {"outcome", "record"} => p = q

\* How the record and the history fit together.
RecordFits ==
    /\ rec.state \in Open \cup {"connected", "timeout", "failed"}
    /\ rec.outcome \in {"none", rec.state}
    /\ rec.state \in Open => rec.outcome = "none"
    /\ \/ logs = <<>>
       \/ /\ Len(logs) = 1 /\ logs[1].outcome = rec.state /\ rec.outcome = rec.state
          /\ rec.state \in {"timeout", "failed"}

IInv == /\ Typed /\ RecordFits /\ Alone /\ OneFiler
        /\ \A p \in Requests : Knows(op[p], rec, logs)

\* The table, in the states the invariant allows.
LEMMA TargetsKnown ==
    /\ Targets("confirming", "CONFIRM") = {"calling"}
    /\ Targets("calling", "CALL_CONNECTED") = {"connected"}
    /\ Targets("calling", "CALL_TIMEOUT") = {"timeout"}
    /\ Targets("calling", "CALL_FAILED") = {"failed"}
    /\ Targets("confirming", "CALL_FAILED") = {"failed"}
    /\ Targets("confirming", "CALL_TIMEOUT") = {}
    /\ \A s \in States : Targets(s, "CONFIRM") # {} => s = "confirming"
    /\ \A s \in States : Targets(s, "CALL_TIMEOUT") # {} => s = "calling"
    /\ \A s \in States : Targets(s, "CALL_FAILED") # {} => s \in Open
<1>1. /\ Targets("confirming", "CONFIRM") = {"calling"}
      /\ Targets("calling", "CALL_CONNECTED") = {"connected"}
      /\ Targets("calling", "CALL_TIMEOUT") = {"timeout"}
  BY DEF Targets, Edges, States
<1>2. /\ Targets("calling", "CALL_FAILED") = {"failed"}
      /\ Targets("confirming", "CALL_FAILED") = {"failed"}
      /\ Targets("confirming", "CALL_TIMEOUT") = {}
  BY DEF Targets, Edges, States
<1>3. \A s \in States : Targets(s, "CONFIRM") # {} => s = "confirming"
  BY DEF Targets, Edges
<1>4. \A s \in States : Targets(s, "CALL_TIMEOUT") # {} => s = "calling"
  BY DEF Targets, Edges
<1>5. \A s \in States : Targets(s, "CALL_FAILED") # {} => s \in Open
  BY DEF Targets, Edges, Open
<1> QED BY <1>1, <1>2, <1>3, <1>4, <1>5

\* The invariant holds at the start.
LEMMA InitKnows == Init => IInv
<1> SUFFICES ASSUME Init PROVE IInv
  OBVIOUS
<1>1. Typed
  BY InitTyped
<1>2. RecordFits
  BY DEF Init, RecordFits, Created, Open
<1>3. \A p \in Requests : op[p].at = "new"
  BY DEF Init, Idle
<1>4. Alone /\ OneFiler
  BY <1>3 DEF Alone, OneFiler, Active
<1>5. \A p \in Requests : Knows(op[p], rec, logs)
  BY <1>3 DEF Knows
<1> QED BY <1>1, <1>2, <1>4, <1>5 DEF IInv

\* What one step has to establish for the invariant to be kept.
LEMMA Kept ==
    ASSUME IInv, Typed', NEW p \in Requests, NEW o \in Ops,
           op' = [op EXCEPT ![p] = o],
           RecordFits',
           Knows(o, rec', logs'),
           \A q \in Requests \ {p} : Knows(op[q], rec', logs'),
           o.at \notin {"new", "done"} =>
               \/ Active(p) /\ o.fn = op[p].fn
               \/ \A q \in Requests \ {p} : Active(q) => o.fn # "start" /\ op[q].fn # "start",
           o.at \in {"outcome", "record"} =>
               \/ op[p].at \in {"outcome", "record"}
               \/ \A q \in Requests \ {p} : op[q].at \notin {"outcome", "record"}
    PROVE  IInv'
<1>1. \A q \in Requests : op'[q] = IF q = p THEN o ELSE op[q]
  BY DEF IInv, Typed, TypeOK
<1>2. \A q \in Requests : Knows(op[q], rec, logs)'
  BY <1>1
<1>3. Alone'
  BY <1>1 DEF IInv, Alone, Active
<1>4. OneFiler'
  BY <1>1 DEF IInv, OneFiler
<1> QED BY <1>2, <1>3, <1>4 DEF IInv

\* A request that is not running knows nothing that could become false.
LEMMA IdleKnows ==
    ASSUME NEW o, NEW r, NEW l, NEW r2, NEW l2, Knows(o, r, l), o.at \in {"new", "done"}
    PROVE  Knows(o, r2, l2)
BY DEF Knows

\* A step that ends its request keeps the invariant if it leaves the record
\* right and makes nothing false that another request relies on.
LEMMA Returned ==
    ASSUME IInv, Typed', NEW p \in Requests, NEW o \in Ops,
           op' = [op EXCEPT ![p] = o], o.at = "done", RecordFits',
           \A q \in Requests \ {p} : Knows(op[q], rec', logs')
    PROVE  IInv'
<1>1. Knows(o, rec', logs')
  BY DEF Knows
<1> QED BY <1>1, Kept

\* Every step of every request keeps the invariant.
LEMMA NextKnows ==
    ASSUME Conditional
    PROVE  IInv /\ [Next]_vars => IInv'
<1> SUFFICES ASSUME IInv, [Next]_vars PROVE IInv'
  OBVIOUS
<1>0. /\ rec \in Recs /\ logs \in Seq(Rows) /\ RecordFits
      /\ \A q \in Requests : op[q] \in Ops /\ Fits(op[q]) /\ Knows(op[q], rec, logs)
  BY DEF IInv, Typed, TypeOK
<1>t. Typed'
  BY NextTyped DEF IInv
<1>1. CASE UNCHANGED vars
  BY <1>1, <1>t DEF vars, IInv, RecordFits, Alone, OneFiler, Active
<1>2. ASSUME NEW p \in Requests, op[p].fn = "start", Active(p)
      PROVE  \A q \in Requests \ {p} : Knows(op[q], rec', logs')
  <2>1. \A q \in Requests \ {p} : op[q].at \in {"new", "done"}
    BY <1>2 DEF IInv, Alone, Active
  <2> QED BY <1>0, <2>1, IdleKnows
<1>3. ASSUME NEW p \in Requests, Active(p), op[p].fn # "start", rec.state \in Open,
             logs' = logs
      PROVE  /\ \A q \in Requests \ {p} : Knows(op[q], rec', logs')
             /\ \A q \in Requests \ {p} : op[q].at \notin {"outcome", "record"}
  <2> SUFFICES ASSUME NEW q \in Requests \ {p}
               PROVE  Knows(op[q], rec', logs') /\ op[q].at \notin {"outcome", "record"}
    OBVIOUS
  <2>1. Active(q) => op[q].fn # "start"
    BY <1>3 DEF IInv, Alone
  <2>2. op[q].at \notin {"put", "attach", "result", "outcome"}
    BY <1>0, <2>1 DEF Active, Knows
  <2>3. op[q].at # "record"
    BY <1>0, <1>3 DEF Knows, Open
  <2> QED BY <1>0, <2>2, <2>3 DEF Knows
<1>4. ASSUME NEW p \in Requests, Request(p) PROVE IInv'
  <2>1. PICK fn \in Functions : \E input \in InputsOf(fn) : MayBegin(fn) /\ Begin(p, fn, input)
    BY <1>4 DEF Request
  <2>2. PICK input \in InputsOf(fn) : MayBegin(fn) /\ Begin(p, fn, input)
    BY <2>1
  <2>3. fn \in {"start", "timeout", "failed", "repoint"} /\ fn \in AllFunctions
    BY StoreAssumption DEF Conditional
  <2>4. /\ input \in Inputs
        /\ fn = "start" /\ input.status = "calling" => input.call \in Calls
        /\ fn = "repoint" => input.call \in Calls
    BY <2>3 DEF InputsOf, Inputs, NoInput
  <2> DEFINE label == CASE fn = "repoint" -> "repoint" [] fn = "feedback" -> "find"
                        [] OTHER -> "read"
             o == [op[p] EXCEPT !.fn = fn, !.input = input, !.at = label]
  <2>5. label = IF fn = "repoint" THEN "repoint" ELSE "read"
    BY <2>3
  <2>6. label \in Labels
    BY <2>5 DEF Labels
  <2>7. o \in Ops
    BY <1>0, <2>3, <2>4, <2>6 DEF Ops
  <2>8. o.at = label /\ o.fn = fn /\ o.input = input
    BY <1>0 DEF Ops
  <2>9. op' = [op EXCEPT ![p] = o] /\ rec' = rec /\ logs' = logs
    BY <2>2 DEF Begin
  <2>10. Knows(o, rec', logs')
    BY <2>3, <2>4, <2>5, <2>8 DEF Knows
  <2>11. \A q \in Requests : Active(q) => o.fn # "start" /\ op[q].fn # "start"
    BY <2>2, <2>8 DEF MayBegin, Conditional
  <2>12. RecordFits'
    BY <1>0, <2>9 DEF RecordFits
  <2>13. o.at \notin {"outcome", "record"}
    BY <2>5, <2>8
  <2> HIDE DEF o
  <2> QED BY <1>0, <1>t, <2>7, <2>9, <2>10, <2>11, <2>12, <2>13, Kept
<1>5. ASSUME NEW p \in Requests, Read(p) PROVE IInv'
  <2> DEFINE label == IF Allowed(op[p].fn, rec.state) THEN FirstWrite(op[p].fn) ELSE "done"
             o == [op[p] EXCEPT !.seen = rec, !.at = label]
  <2>1. op[p].at = "read" /\ op' = [op EXCEPT ![p] = o] /\ rec' = rec /\ logs' = logs
    BY <1>5 DEF Read, At
  <2>2. op[p].fn \in {"start", "timeout", "failed"} /\ Active(p)
    BY <1>0, <2>1 DEF Knows, Fits, Active
  <2>3. label \in {"put", "cas", "done"} /\ label \in Labels
    BY <2>2 DEF FirstWrite, Labels
  <2>4. o \in Ops /\ o.at = label /\ o.fn = op[p].fn /\ o.input = op[p].input /\ o.seen = rec
    BY <1>0, <2>3 DEF Ops
  <2>5. /\ label = "put" => o.fn = "start" /\ Targets(rec.state, "CONFIRM") # {}
        /\ label = "cas" => \/ o.fn = "timeout" /\ Targets(rec.state, "CALL_TIMEOUT") # {}
                            \/ o.fn = "failed" /\ Targets(rec.state, "CALL_FAILED") # {}
    BY <2>2, <2>4 DEF Allowed, FirstWrite, EventOf
  <2>6. rec.state \in States
    BY <1>0 DEF Recs
  <2>7. /\ label = "put" => rec.state = "confirming"
        /\ label = "cas" => rec.state \in Open /\ (rec.state = "confirming" => o.fn = "failed")
    BY <2>5, <2>6, TargetsKnown DEF Open
  <2>8. op[p].fn = "start" /\ op[p].input.status = "calling" => op[p].input.call \in Calls
    BY <1>0, <2>1 DEF Knows
  <2> HIDE DEF label, o
  <2>9. Knows(o, rec', logs')
    BY <2>1, <2>2, <2>3, <2>4, <2>5, <2>7, <2>8 DEF Knows
  <2>10. RecordFits'
    BY <1>0, <2>1 DEF RecordFits
  <2> QED BY <1>0, <1>t, <2>1, <2>2, <2>3, <2>4, <2>9, <2>10, Kept
<1>6. ASSUME NEW p \in Requests, ApplyEvent(p) PROVE IInv'
  <2>1. /\ op[p].at = "put" /\ op[p].fn = "start" /\ op[p].seen = rec
        /\ rec.state = "confirming" /\ logs' = logs /\ Active(p)
    BY <1>0, <1>6 DEF ApplyEvent, At, Knows, Active
  <2> DEFINE label == IF op[p].input.status = "calling" THEN "attach" ELSE "result"
             new == [rec EXCEPT !.state = "calling"]
             o == [op[p] EXCEPT !.seen = new, !.at = label, !.ok = (label = "done")]
  <2>2. Targets(rec.state, EventOf("start")) = {"calling"}
    BY <2>1, TargetsKnown DEF EventOf
  <2>3. Overwrite(p, new, label)
    BY <1>6, <2>1, <2>2 DEF ApplyEvent
  <2>4. op' = [op EXCEPT ![p] = o] /\ rec' = new
    BY <2>3 DEF Overwrite
  <2>5. new \in Recs /\ new.state = "calling" /\ new.outcome = rec.outcome
    BY <1>0 DEF Recs, States
  <2>6. label \in Labels
    BY DEF Labels
  <2>7. /\ o \in Ops /\ o.at = label /\ o.fn = "start" /\ o.seen = new
        /\ o.input = op[p].input
    BY <1>0, <2>1, <2>5, <2>6 DEF Ops
  <2>8. logs = <<>> /\ rec.outcome = "none"
    BY <1>0, <2>1 DEF RecordFits, Open
  <2>9. RecordFits'
    BY <2>1, <2>4, <2>5, <2>8 DEF RecordFits, Open
  <2>10. label = "attach" => op[p].input.call \in Calls
    BY <1>0, <2>1 DEF Knows
  <2>11. label \in {"attach", "result"}
    OBVIOUS
  <2>12. \A q \in Requests \ {p} : Knows(op[q], rec', logs')
    BY <1>2, <2>1
  <2> HIDE DEF label, new, o
  <2>13. Knows(o, rec', logs')
    BY <2>4, <2>5, <2>7, <2>10, <2>11 DEF Knows
  <2> QED BY <1>t, <2>1, <2>4, <2>7, <2>9, <2>11, <2>12, <2>13, Kept
<1>7. ASSUME NEW p \in Requests, Attach(p) PROVE IInv'
  <2>1. /\ op[p].fn = "start" /\ op[p].seen = rec /\ rec.state = "calling"
        /\ logs' = logs /\ Active(p)
    BY <1>0, <1>7 DEF Attach, At, Knows, Active
  <2> DEFINE new == [rec EXCEPT !.call = op[p].input.call]
             o == [op[p] EXCEPT !.seen = new, !.at = "done", !.ok = TRUE]
  <2>2. op' = [op EXCEPT ![p] = o] /\ rec' = new
    BY <1>7, <2>1 DEF Attach, Overwrite
  <2>3. new \in Recs /\ new.state = rec.state /\ new.outcome = rec.outcome
    BY <1>0 DEF Recs, Ops, Inputs
  <2>4. o \in Ops /\ o.at = "done"
    BY <1>0, <2>3 DEF Ops, Labels
  <2>5. RecordFits'
    BY <1>0, <2>1, <2>2, <2>3 DEF RecordFits
  <2>6. \A q \in Requests \ {p} : Knows(op[q], rec', logs')
    BY <1>2, <2>1
  <2> HIDE DEF new, o
  <2> QED BY <1>t, <2>2, <2>4, <2>5, <2>6, Returned
<1>8. ASSUME NEW p \in Requests, ApplyResult(p) PROVE IInv'
  <2> DEFINE status == op[p].input.status
  <2>1. /\ op[p].fn = "start" /\ op[p].seen = rec /\ rec.state = "calling"
        /\ logs' = logs /\ Active(p) /\ status \in {"connected", "timeout", "failed"}
    BY <1>0, <1>8 DEF ApplyResult, At, Knows, Active, Fits
  <2>2. Targets(rec.state, ResultEvent(status)) = {status}
    BY <2>1, TargetsKnown DEF ResultEvent
  <2> DEFINE new == [rec EXCEPT !.state = status]
             o == [op[p] EXCEPT !.seen = new, !.at = "outcome", !.ok = FALSE]
  <2>3. op' = [op EXCEPT ![p] = o] /\ rec' = new
    BY <1>8, <2>1, <2>2 DEF ApplyResult, Overwrite
  <2>4. new \in Recs /\ new.state = status /\ new.outcome = rec.outcome
    BY <1>0, <2>1 DEF Recs, States
  <2>5. /\ o \in Ops /\ o.at = "outcome" /\ o.fn = "start" /\ o.seen = new
        /\ o.input = op[p].input
    BY <1>0, <2>1, <2>4 DEF Ops, Labels
  <2>6. logs = <<>> /\ rec.outcome = "none"
    BY <1>0, <2>1 DEF RecordFits, Open
  <2>7. RecordFits'
    BY <2>1, <2>3, <2>4, <2>6 DEF RecordFits, Open
  <2>8. \A q \in Requests \ {p} : Knows(op[q], rec', logs') /\ op[q].at \in {"new", "done"}
    BY <1>2, <2>1 DEF IInv, Alone, Active
  <2> HIDE DEF new, o
  <2>9. Knows(o, rec', logs')
    BY <2>1, <2>3, <2>4, <2>5, <2>6 DEF Knows
  <2> QED BY <1>t, <2>1, <2>3, <2>5, <2>7, <2>8, <2>9, Kept
<1>9. ASSUME NEW p \in Requests, PutOutcome(p) PROVE IInv'
  <2> DEFINE status == op[p].input.status
             label == IF status # "connected" THEN "record" ELSE "done"
             new == [rec EXCEPT !.outcome = status]
             o == [op[p] EXCEPT !.seen = new, !.at = label, !.ok = (label = "done")]
  <2>1. /\ op[p].at = "outcome" /\ op[p].fn = "start" /\ op[p].seen = rec
        /\ rec.state = status /\ logs = <<>> /\ logs' = logs /\ Active(p)
        /\ status \in {"connected", "timeout", "failed"}
    BY <1>0, <1>9 DEF PutOutcome, At, Knows, Active, Fits
  <2>2. Overwrite(p, new, label)
    BY <1>9, <2>1 DEF PutOutcome, OutcomeOf, Files
  <2>3. op' = [op EXCEPT ![p] = o] /\ rec' = new
    BY <2>2 DEF Overwrite
  <2>4. new \in Recs /\ new.state = status /\ new.outcome = status
    BY <1>0, <2>1 DEF Recs, Outcomes
  <2>5. label \in Labels /\ label \in {"record", "done"}
        /\ (label = "record" => status \in {"timeout", "failed"})
    BY <2>1 DEF Labels
  <2>6. o \in Ops /\ o.at = label /\ o.fn = "start" /\ o.seen = new
    BY <1>0, <2>1, <2>4, <2>5 DEF Ops
  <2>7. RecordFits'
    BY <2>1, <2>3, <2>4 DEF RecordFits, Open
  <2>8. \A q \in Requests \ {p} : Knows(op[q], rec', logs')
    BY <1>2, <2>1
  <2> HIDE DEF label, new, o
  <2>9. Knows(o, rec', logs')
    BY <2>1, <2>3, <2>4, <2>5, <2>6 DEF Knows
  <2> QED BY <1>t, <2>1, <2>3, <2>5, <2>6, <2>7, <2>8, <2>9, Kept
<1>10. ASSUME NEW p \in Requests, PutResponse(p) \/ FindRow(p) \/ PutRow(p) PROVE IInv'
  BY <1>0, <1>10 DEF PutResponse, FindRow, PutRow, At, Knows
<1>11. ASSUME NEW p \in Requests, NEW ok \in BOOLEAN, Return(p, ok),
              RecordFits', \A q \in Requests \ {p} : Knows(op[q], rec', logs')
       PROVE  IInv'
  <2> DEFINE o == [op[p] EXCEPT !.at = "done", !.ok = ok]
  <2>1. o \in Ops /\ o.at = "done"
    BY <1>0 DEF Ops, Labels
  <2>2. op' = [op EXCEPT ![p] = o]
    BY <1>11 DEF Return
  <2> HIDE DEF o
  <2> QED BY <1>t, <1>11, <2>1, <2>2, Returned
<1>12. ASSUME NEW p \in Requests, Settle(p) PROVE IInv'
  <2> DEFINE fn == op[p].fn
  <2>1. /\ fn \in {"timeout", "failed"} /\ logs' = logs /\ Active(p)
        /\ op[p].seen.state \in Open
        /\ op[p].seen.state = "confirming" => fn = "failed"
    BY <1>0, <1>12 DEF Settle, At, Fits, Knows, Active
  <2>2. CASE rec.state # op[p].seen.state
    <3>1. Return(p, FALSE) /\ rec' = rec
      BY <1>12, <2>2 DEF Settle
    <3>2. RecordFits' /\ \A q \in Requests \ {p} : Knows(op[q], rec', logs')
      BY <1>0, <2>1, <3>1 DEF RecordFits
    <3> QED BY <1>11, <3>1, <3>2
  <2>3. CASE rec.state = op[p].seen.state
    <3>1. Targets(op[p].seen.state, EventOf(fn)) = {fn}
      BY <2>1, TargetsKnown DEF EventOf, Open
    <3> DEFINE o == [op[p] EXCEPT !.seen.state = fn, !.seen.outcome = fn, !.at = "record"]
               new == [rec EXCEPT !.state = fn, !.outcome = fn]
    <3>2. op' = [op EXCEPT ![p] = o] /\ rec' = new
      BY <1>12, <2>3, <3>1 DEF Settle, WriteEnding
    <3>3. fn \in States /\ fn \in Outcomes /\ "record" \in Labels
      BY <2>1 DEF States, Outcomes, Labels
    <3>4. new.state = fn /\ new.outcome = fn
      BY <1>0 DEF Recs
    <3>5. o \in Ops /\ o.at = "record" /\ o.fn = fn /\ o.seen.outcome = fn
      BY <1>0, <3>3 DEF Ops, Recs
    <3>6. logs = <<>> /\ rec.state \in Open
      BY <1>0, <2>1, <2>3 DEF RecordFits, Open
    <3>7. RecordFits'
      BY <2>1, <3>2, <3>4, <3>6 DEF RecordFits, Open
    <3>8. /\ \A q \in Requests \ {p} : Knows(op[q], rec', logs')
          /\ \A q \in Requests \ {p} : op[q].at \notin {"outcome", "record"}
      BY <1>3, <2>1, <3>6
    <3>9. Knows(o, rec', logs')
      <4> HIDE DEF o, new
      <4> QED BY <2>1, <3>2, <3>4, <3>5, <3>6 DEF Knows
    <3> HIDE DEF o, new
    <3> QED BY <1>t, <2>1, <3>2, <3>5, <3>7, <3>8, <3>9, Kept
  <2> QED BY <2>2, <2>3
<1>13. ASSUME NEW p \in Requests, Repoint(p) PROVE IInv'
  <2>1. op[p].fn = "repoint" /\ Active(p) /\ logs' = logs
    BY <1>0, <1>13 DEF Repoint, At, Knows, Active
  <2>2. CASE rec.state # "calling"
    <3>1. Return(p, FALSE) /\ rec' = rec
      BY <1>13, <2>2 DEF Repoint
    <3>2. RecordFits' /\ \A q \in Requests \ {p} : Knows(op[q], rec', logs')
      BY <1>0, <2>1, <3>1 DEF RecordFits
    <3> QED BY <1>11, <3>1, <3>2
  <2>3. CASE rec.state = "calling"
    <3>1. Return(p, TRUE) /\ rec' = [rec EXCEPT !.call = op[p].input.call]
      BY <1>13, <2>3 DEF Repoint
    <3>2. rec'.state = rec.state /\ rec'.outcome = rec.outcome
      BY <1>0, <3>1 DEF Recs
    <3>3. RecordFits'
      BY <1>0, <2>1, <3>2 DEF RecordFits
    <3>4. \A q \in Requests \ {p} : Knows(op[q], rec', logs')
      BY <1>3, <2>1, <2>3 DEF Open
    <3> QED BY <1>11, <3>1, <3>3, <3>4
  <2> QED BY <2>2, <2>3
<1>14. ASSUME NEW p \in Requests, Record(p) PROVE IInv'
  <2>1. /\ op[p].at = "record" /\ rec.state \in {"timeout", "failed"}
        /\ rec.outcome = rec.state /\ op[p].seen.outcome = rec.state /\ logs = <<>>
        /\ rec' = rec /\ Return(p, TRUE)
    BY <1>0, <1>14 DEF Record, At, Knows
  <2> DEFINE row == [NoRow EXCEPT !.outcome = rec.state]
  <2>2. logs' = Append(<<>>, row)
    BY <1>14, <2>1 DEF Record
  <2>3. row.outcome = rec.state
    BY DEF NoRow
  <2> HIDE DEF row
  <2>4. Len(logs') = 1 /\ logs'[1] = row
    BY <2>2
  <2>5. RecordFits'
    BY <1>0, <2>1, <2>3, <2>4 DEF RecordFits, Open
  <2>6. \A q \in Requests \ {p} : op[q].at \notin {"outcome", "record"}
    BY <2>1 DEF IInv, OneFiler
  <2>7. \A q \in Requests \ {p} : Knows(op[q], rec', logs')
    BY <1>0, <2>1, <2>6 DEF Knows
  <2> QED BY <1>11, <2>1, <2>5, <2>7
<1>15. ASSUME NEW p \in Requests, Throw(p) PROVE IInv'
  <2>1. Return(p, FALSE) /\ rec' = rec /\ logs' = logs
    BY <1>15 DEF Throw
  <2>2. RecordFits' /\ \A q \in Requests \ {p} : Knows(op[q], rec', logs')
    BY <1>0, <2>1 DEF RecordFits
  <2> QED BY <1>11, <2>1, <2>2
<1> QED BY <1>1, <1>4, <1>5, <1>6, <1>7, <1>8, <1>9, <1>10, <1>12, <1>13, <1>14, <1>15
        DEF Next, Step

\* Conditional writers leave at most one history row, however many timeouts,
\* failures and moves to another call meet and wherever they fail: the loser
\* of applyIfState does not file.
THEOREM FiledOnce ==
    ASSUME Conditional
    PROVE  Spec => []HistoryOnce
<1>1. IInv => HistoryOnce
  <2> SUFFICES ASSUME RecordFits PROVE Len(logs) <= 1
    BY DEF IInv, HistoryOnce
  <2>1. logs = <<>> => Len(logs) = 0
    OBVIOUS
  <2>2. Len(logs) \in {0, 1}
    BY <2>1 DEF RecordFits
  <2>3. \A n \in {0, 1} : n <= 1
    OBVIOUS
  <2> QED BY <2>2, <2>3
<1> QED BY InitKnows, NextKnows, <1>1, PTL DEF Spec

\* The history row of conditional writers tells how the call of the reception
\* ended, and a reception that is still open has none.
THEOREM FiledTruthfully ==
    ASSUME Conditional
    PROVE  Spec => []HistoryTruthful
<1>1. IInv => HistoryTruthful
  <2> SUFFICES ASSUME RecordFits PROVE HistoryTruthful
    BY DEF IInv
  <2>1. CASE logs = <<>>
    BY <2>1 DEF HistoryTruthful
  <2>2. CASE logs # <<>>
    BY <2>2 DEF RecordFits, HistoryTruthful, Filed
  <2> QED BY <2>1, <2>2
<1> QED BY InitKnows, NextKnows, <1>1, PTL DEF Spec

\* A repoint that has succeeded began after the reception was calling, so that
\* startCall has attached its own call before.
Waits ==
    /\ \A p \in Requests :
          /\ op[p].ok => op[p].at = "done"
          /\ op[p].fn = "repoint" => op[p].at \in {"repoint", "done"}
          /\ op[p].at = "attach" => Repointed = {}
    /\ Repointed # {} => rec.call \in Repointed /\ rec.state # "confirming"

\* A step of one request adds the call of its own repoint at most.
LEMMA Repoints ==
    ASSUME IInv, Waits, NEW p \in Requests, NEW o, op' = [op EXCEPT ![p] = o],
           op[p].at # "done"
    PROVE  Repointed' = IF o.fn = "repoint" /\ o.ok
                        THEN Repointed \cup {o.input.call} ELSE Repointed
<1>1. ~op[p].ok /\ op'[p] = o /\ \A q \in Requests : q # p => op'[q] = op[q]
  BY DEF Waits, IInv, Typed, TypeOK
<1>2. Repointed' = {op'[q].input.call : q \in {q \in Requests : op'[q].fn = "repoint" /\ op'[q].ok}}
  BY DEF Repointed
<1> QED BY <1>1, <1>2 DEF Repointed

\* A step that installs no call leaves the reception waiting for the same one.
LEMMA WaitsOn ==
    ASSUME IInv, Waits, NEW p \in Requests, NEW o, op' = [op EXCEPT ![p] = o],
           op[p].at # "done", o.fn = "repoint" => ~o.ok,
           o.ok => o.at = "done",
           o.fn = "repoint" => o.at \in {"repoint", "done"},
           o.at = "attach" => rec.state = "confirming",
           rec'.call = rec.call \/ Repointed = {},
           rec'.state = "confirming" => rec.state = "confirming"
    PROVE  Waits'
<1>1. Repointed' = Repointed
  BY Repoints
<1>2. \A q \in Requests : op'[q] = IF q = p THEN o ELSE op[q]
  BY DEF IInv, Typed, TypeOK
<1>3. \A q \in Requests : /\ op'[q].ok => op'[q].at = "done"
                          /\ op'[q].fn = "repoint" => op'[q].at \in {"repoint", "done"}
                          /\ op'[q].at = "attach" => Repointed = {}
  BY <1>2 DEF Waits
<1> QED BY <1>1, <1>3 DEF Waits

LEMMA NextWaits ==
    ASSUME Conditional
    PROVE  IInv /\ Waits /\ [Next]_vars => Waits'
<1> SUFFICES ASSUME IInv, Waits, [Next]_vars PROVE Waits'
  OBVIOUS
<1>0. /\ rec \in Recs
      /\ \A q \in Requests : op[q] \in Ops /\ Fits(op[q]) /\ Knows(op[q], rec, logs)
      /\ \A q \in Requests : op[q].ok => op[q].at = "done"
      /\ \A q \in Requests : op[q].fn = "repoint" => op[q].at \in {"repoint", "done"}
  BY DEF IInv, Typed, TypeOK, Waits
<1>1. CASE UNCHANGED vars
  BY <1>1 DEF vars, Waits, Repointed
<1>2. ASSUME NEW p \in Requests, Request(p) PROVE Waits'
  <2>1. PICK fn \in Functions : \E input \in InputsOf(fn) : Begin(p, fn, input)
    BY <1>2 DEF Request
  <2>2. PICK input \in InputsOf(fn) : Begin(p, fn, input)
    BY <2>1
  <2> DEFINE label == CASE fn = "repoint" -> "repoint" [] fn = "feedback" -> "find"
                        [] OTHER -> "read"
             o == [op[p] EXCEPT !.fn = fn, !.input = input, !.at = label]
  <2>3. op' = [op EXCEPT ![p] = o] /\ op[p].at = "new" /\ rec' = rec
    BY <2>2 DEF Begin, At
  <2>4. o.fn = fn /\ o.at = label /\ ~o.ok
    BY <1>0, <2>3 DEF Ops
  <2>5. label # "attach" /\ (fn = "repoint" => label = "repoint")
    OBVIOUS
  <2> HIDE DEF o, label
  <2> QED BY <2>3, <2>4, <2>5, WaitsOn
<1>3. ASSUME NEW p \in Requests, Read(p) PROVE Waits'
  <2> DEFINE label == IF Allowed(op[p].fn, rec.state) THEN FirstWrite(op[p].fn) ELSE "done"
             o == [op[p] EXCEPT !.seen = rec, !.at = label]
  <2>1. op' = [op EXCEPT ![p] = o] /\ op[p].at = "read" /\ rec' = rec
    BY <1>3 DEF Read, At
  <2>2. o.fn = op[p].fn /\ o.at = label /\ ~o.ok /\ op[p].fn # "repoint"
    BY <1>0, <2>1 DEF Ops
  <2>3. label # "attach"
    BY DEF FirstWrite
  <2> HIDE DEF o, label
  <2> QED BY <2>1, <2>2, <2>3, WaitsOn
<1>4. ASSUME NEW p \in Requests, NEW new, NEW label, Overwrite(p, new, label),
             op[p].fn # "repoint", op[p].at # "done",
             new.call = rec.call \/ Repointed = {}, new.state = "confirming" => rec.state = "confirming",
             label = "attach" => rec.state = "confirming"
      PROVE  Waits'
  <2> DEFINE o == [op[p] EXCEPT !.seen = new, !.at = label, !.ok = (label = "done")]
  <2>1. op' = [op EXCEPT ![p] = o] /\ rec' = new
    BY <1>4 DEF Overwrite
  <2>2. o.fn = op[p].fn /\ o.at = label /\ o.ok = (label = "done")
    BY <1>0 DEF Ops
  <2> HIDE DEF o
  <2> QED BY <1>4, <2>1, <2>2, WaitsOn
<1>5. ASSUME NEW p \in Requests, NEW ok \in BOOLEAN, Return(p, ok), op[p].at # "done",
             op[p].fn = "repoint" => ~ok, rec' = rec
      PROVE  Waits'
  <2> DEFINE o == [op[p] EXCEPT !.at = "done", !.ok = ok]
  <2>1. op' = [op EXCEPT ![p] = o]
    BY <1>5 DEF Return
  <2>2. o.fn = op[p].fn /\ o.at = "done" /\ o.ok = ok
    BY <1>0 DEF Ops
  <2> HIDE DEF o
  <2> QED BY <1>5, <2>1, <2>2, WaitsOn
<1>6. ASSUME NEW p \in Requests, ApplyEvent(p) \/ ApplyResult(p) \/ PutOutcome(p) \/ Attach(p)
      PROVE  /\ op[p].fn = "start" /\ op[p].seen = rec /\ op[p].at # "done"
             /\ ApplyEvent(p) => rec.state = "confirming"
             /\ ApplyResult(p) => rec.state = "calling"
  BY <1>0, <1>6 DEF ApplyEvent, ApplyResult, PutOutcome, Attach, At, Knows
<1>7. ASSUME NEW p \in Requests, ApplyEvent(p) PROVE Waits'
  <2>1. PICK label : \E t \in Targets(rec.state, EventOf("start")) :
           Overwrite(p, [rec EXCEPT !.state = t], label)
    BY <1>6, <1>7 DEF ApplyEvent
  <2>2. Overwrite(p, [rec EXCEPT !.state = "calling"], label)
    BY <1>6, <1>7, <2>1, TargetsKnown DEF EventOf
  <2>3. [rec EXCEPT !.state = "calling"].call = rec.call
        /\ [rec EXCEPT !.state = "calling"].state = "calling"
    BY <1>0 DEF Recs
  <2> QED BY <1>4, <1>6, <1>7, <2>2, <2>3
<1>8. ASSUME NEW p \in Requests, ApplyResult(p) PROVE Waits'
  <2>1. PICK t \in Targets("calling", ResultEvent(op[p].input.status)) :
           Overwrite(p, [rec EXCEPT !.state = t], "outcome")
    BY <1>6, <1>8 DEF ApplyResult
  <2>2. t # "confirming"
    BY <2>1, TargetsKnown DEF ResultEvent
  <2>3. [rec EXCEPT !.state = t].call = rec.call /\ [rec EXCEPT !.state = t].state = t
    BY <1>0 DEF Recs
  <2> QED BY <1>4, <1>6, <1>8, <2>1, <2>2, <2>3
<1>9. ASSUME NEW p \in Requests, PutOutcome(p) PROVE Waits'
  <2>1. PICK label \in {"record", "done"} :
           Overwrite(p, [rec EXCEPT !.outcome = OutcomeOf(p)], label)
    BY <1>6, <1>9 DEF PutOutcome
  <2>2. [rec EXCEPT !.outcome = OutcomeOf(p)].call = rec.call
        /\ [rec EXCEPT !.outcome = OutcomeOf(p)].state = rec.state
    BY <1>0 DEF Recs
  <2> QED BY <1>4, <1>6, <1>9, <2>1, <2>2
<1>10. ASSUME NEW p \in Requests, Attach(p) PROVE Waits'
  <2>1. Overwrite(p, [rec EXCEPT !.call = op[p].input.call], "done") /\ Repointed = {}
    BY <1>6, <1>10 DEF Attach, At, Waits
  <2>2. [rec EXCEPT !.call = op[p].input.call].state = rec.state
    BY <1>0 DEF Recs
  <2> QED BY <1>4, <1>6, <1>10, <2>1, <2>2
<1>11. ASSUME NEW p \in Requests, Settle(p) PROVE Waits'
  <2>1. op[p].at = "cas" /\ op[p].fn # "repoint"
    BY <1>0, <1>11 DEF Settle, At
  <2>2. CASE rec.state # op[p].seen.state
    BY <1>5, <1>11, <2>1, <2>2 DEF Settle
  <2>3. CASE rec.state = op[p].seen.state
    <3>1. PICK t \in Targets(op[p].seen.state, EventOf(op[p].fn)) : WriteEnding(p, rec, t)
      BY <1>11, <2>3 DEF Settle
    <3>2. t # "confirming"
      <4>1. op[p].seen.state \in Open /\ op[p].fn \in {"timeout", "failed"}
            /\ (op[p].seen.state = "confirming" => op[p].fn = "failed")
        BY <1>0, <2>1 DEF Knows, Fits
      <4> QED BY <3>1, <4>1, TargetsKnown DEF EventOf, Open
    <3> DEFINE new == [rec EXCEPT !.state = t, !.outcome = op[p].fn]
               o == [op[p] EXCEPT !.seen.state = t, !.seen.outcome = op[p].fn, !.at = "record"]
    <3>3. op' = [op EXCEPT ![p] = o] /\ rec' = new
      BY <3>1 DEF WriteEnding
    <3>4. new.call = rec.call /\ new.state = t
      BY <1>0 DEF Recs
    <3>5. o.fn = op[p].fn /\ o.at = "record" /\ ~o.ok
      BY <1>0, <2>1 DEF Ops
    <3> HIDE DEF o, new
    <3> QED BY <2>1, <3>2, <3>3, <3>4, <3>5, WaitsOn
  <2> QED BY <2>2, <2>3
<1>12. ASSUME NEW p \in Requests, Repoint(p) PROVE Waits'
  <2>1. op[p].at = "repoint"
    BY <1>12 DEF Repoint, At
  <2>2. CASE rec.state # "calling"
    BY <1>5, <1>12, <2>1, <2>2 DEF Repoint
  <2>3. CASE rec.state = "calling"
    <3> DEFINE c == op[p].input.call
               o == [op[p] EXCEPT !.at = "done", !.ok = TRUE]
    <3>1. op' = [op EXCEPT ![p] = o] /\ rec' = [rec EXCEPT !.call = c]
      BY <1>12, <2>3 DEF Repoint, Return
    <3>2. op[p].fn = "repoint" /\ o.fn = "repoint" /\ o.ok /\ o.at = "done" /\ o.input.call = c
      BY <1>0, <2>1 DEF Knows, Ops
    <3>3. rec'.call = c /\ rec'.state = "calling"
      BY <1>0, <2>3, <3>1 DEF Recs
    <3> HIDE DEF o, c
    <3>4. Repointed' = Repointed \cup {c}
      BY <2>1, <3>1, <3>2, Repoints
    <3>5. \A q \in Requests : op'[q] = IF q = p THEN o ELSE op[q]
      BY <3>1 DEF IInv, Typed, TypeOK
    <3>6. \A q \in Requests : op[q].at # "attach"
      <4>1. \A q \in Requests : Active(q) => op[q].fn # "start" \/ q = p
        BY <2>1 DEF IInv, Alone, Active
      <4> QED BY <1>0, <2>1, <4>1 DEF Active, Knows
    <3>7. \A q \in Requests : /\ op'[q].ok => op'[q].at = "done"
                              /\ op'[q].fn = "repoint" => op'[q].at \in {"repoint", "done"}
                              /\ op'[q].at # "attach"
      BY <1>0, <3>2, <3>5, <3>6
    <3> QED BY <3>3, <3>4, <3>7 DEF Waits
  <2> QED BY <2>2, <2>3
<1>13. ASSUME NEW p \in Requests, Record(p) PROVE Waits'
  BY <1>0, <1>5, <1>13 DEF Record, At
<1>14. ASSUME NEW p \in Requests, Throw(p) PROVE Waits'
  BY <1>5, <1>14 DEF Throw, Active
<1>15. ASSUME NEW p \in Requests, PutResponse(p) \/ FindRow(p) \/ PutRow(p) PROVE Waits'
  BY <1>0, <1>15 DEF PutResponse, FindRow, PutRow, At, Knows
<1> QED BY <1>1, <1>2, <1>3, <1>7, <1>8, <1>9, <1>10, <1>11, <1>12, <1>13, <1>14, <1>15
        DEF Next, Step

\* Among conditional writers, a call that repointProviderCall has installed is
\* replaced only by one that another repoint installs.
THEOREM RepointHolds ==
    ASSUME Conditional
    PROVE  Spec => []RepointSticks
<1>1. Init => Waits
  BY DEF Init, Waits, Repointed, Idle
<1>2. Waits => RepointSticks
  BY DEF Waits, RepointSticks
<1> QED BY InitKnows, NextKnows, NextWaits, <1>1, <1>2, PTL DEF Spec

\* What a step of a conditional writer does to the record: nothing, or one of
\* the moves of ReceptionPromise.  This is the fact about single steps that the
\* action property and the refinement share.
Moved ==
    \/ rec' = rec /\ logs' = logs
    \/ /\ rec.state = "confirming" /\ rec.outcome = "none" /\ logs' = logs
       /\ rec' = [rec EXCEPT !.state = "calling"]
    \/ /\ rec.state = "calling" /\ logs' = logs
       /\ \E c \in Calls : rec' = [rec EXCEPT !.call = c]
    \/ /\ rec.state = "calling" /\ logs' = logs
       /\ \E v \in {"connected", "timeout", "failed"} : rec' = [rec EXCEPT !.state = v]
    \/ /\ rec.state \in Open /\ logs' = logs
       /\ \E v \in {"timeout", "failed"} :
             /\ rec.state = "confirming" => v = "failed"
             /\ rec' = [rec EXCEPT !.state = v, !.outcome = v]
    \/ /\ rec.state \notin Open /\ logs' = logs
       /\ rec' = [rec EXCEPT !.outcome = rec.state]
    \/ /\ rec.state \in {"timeout", "failed"} /\ rec.outcome = rec.state /\ logs = <<>>
       /\ rec' = rec /\ logs' = <<[NoRow EXCEPT !.outcome = rec.state]>>

\* Every step of a conditional writer is one of these.
LEMMA NextMoves ==
    ASSUME Conditional
    PROVE  IInv /\ [Next]_vars => Moved
<1> SUFFICES ASSUME IInv, [Next]_vars PROVE Moved
  OBVIOUS
<1>0. /\ rec \in Recs /\ RecordFits
      /\ \A q \in Requests : op[q] \in Ops /\ Fits(op[q]) /\ Knows(op[q], rec, logs)
  BY DEF IInv, Typed, TypeOK
<1>1. CASE UNCHANGED vars
  BY <1>1 DEF vars, Moved
<1>2. ASSUME NEW p \in Requests, Request(p) PROVE Moved
  BY <1>2 DEF Request, Begin, Moved
<1>3. ASSUME NEW p \in Requests, Read(p) \/ Throw(p) PROVE Moved
  BY <1>3 DEF Read, Throw, Moved
<1>4. ASSUME NEW p \in Requests, ApplyEvent(p) PROVE Moved
  <2>1. /\ op[p].fn = "start" /\ op[p].seen = rec /\ rec.state = "confirming"
        /\ rec.outcome = "none" /\ logs' = logs
    BY <1>0, <1>4 DEF ApplyEvent, At, Knows, RecordFits, Open
  <2>2. Targets(rec.state, EventOf("start")) = {"calling"}
    BY <2>1, TargetsKnown DEF EventOf
  <2>3. rec' = [rec EXCEPT !.state = "calling"]
    BY <1>4, <2>1, <2>2 DEF ApplyEvent, Overwrite
  <2> QED BY <2>1, <2>3 DEF Moved
<1>5. ASSUME NEW p \in Requests, Attach(p) PROVE Moved
  <2>1. /\ op[p].seen = rec /\ rec.state = "calling" /\ logs' = logs
        /\ op[p].input.call \in Calls
    BY <1>0, <1>5 DEF Attach, At, Knows
  <2>2. rec' = [rec EXCEPT !.call = op[p].input.call]
    BY <1>5, <2>1 DEF Attach, Overwrite
  <2> QED BY <2>1, <2>2 DEF Moved
<1>6. ASSUME NEW p \in Requests, ApplyResult(p) PROVE Moved
  <2> DEFINE status == op[p].input.status
  <2>1. /\ op[p].seen = rec /\ rec.state = "calling"
        /\ logs' = logs /\ status \in {"connected", "timeout", "failed"}
    BY <1>0, <1>6 DEF ApplyResult, At, Knows, Fits
  <2>2. Targets(rec.state, ResultEvent(status)) = {status}
    BY <2>1, TargetsKnown DEF ResultEvent
  <2>3. rec' = [rec EXCEPT !.state = status]
    BY <1>6, <2>1, <2>2 DEF ApplyResult, Overwrite
  <2> QED BY <2>1, <2>3 DEF Moved
<1>7. ASSUME NEW p \in Requests, PutOutcome(p) PROVE Moved
  <2> DEFINE status == op[p].input.status
  <2>1. /\ op[p].fn = "start" /\ op[p].seen = rec /\ rec.state = status /\ logs' = logs
        /\ status \in {"connected", "timeout", "failed"}
    BY <1>0, <1>7 DEF PutOutcome, At, Knows, Fits
  <2>2. rec' = [rec EXCEPT !.outcome = status]
    BY <1>7, <2>1 DEF PutOutcome, OutcomeOf, Overwrite
  <2> QED BY <2>1, <2>2 DEF Moved, Open
<1>8. ASSUME NEW p \in Requests, PutResponse(p) \/ FindRow(p) \/ PutRow(p) PROVE Moved
  BY <1>0, <1>8 DEF PutResponse, FindRow, PutRow, At, Knows
<1>9. ASSUME NEW p \in Requests, Settle(p) PROVE Moved
  <2> DEFINE fn == op[p].fn
  <2>1. /\ fn \in {"timeout", "failed"} /\ logs' = logs
        /\ op[p].seen.state \in Open
        /\ op[p].seen.state = "confirming" => fn = "failed"
    BY <1>0, <1>9 DEF Settle, At, Fits, Knows
  <2>2. Targets(op[p].seen.state, EventOf(fn)) = {fn}
    BY <2>1, TargetsKnown DEF EventOf, Open
  <2>3. \/ rec' = rec
        \/ rec.state = op[p].seen.state /\ rec' = [rec EXCEPT !.state = fn, !.outcome = fn]
    BY <1>9, <2>2 DEF Settle, WriteEnding
  <2> QED BY <2>1, <2>3 DEF Moved
<1>10. ASSUME NEW p \in Requests, Repoint(p) PROVE Moved
  <2>1. op[p].input.call \in Calls /\ logs' = logs
    BY <1>0, <1>10 DEF Repoint, At, Knows
  <2>2. \/ rec' = rec
        \/ rec.state = "calling" /\ rec' = [rec EXCEPT !.call = op[p].input.call]
    BY <1>10 DEF Repoint
  <2> QED BY <2>1, <2>2 DEF Moved
<1>11. ASSUME NEW p \in Requests, Record(p) PROVE Moved
  <2>1. /\ rec.state \in {"timeout", "failed"} /\ rec.outcome = rec.state
        /\ op[p].seen.outcome = rec.state /\ logs = <<>> /\ rec' = rec
    BY <1>0, <1>11 DEF Record, At, Knows
  <2> DEFINE row == [NoRow EXCEPT !.outcome = rec.state]
  <2>2. logs' = Append(<<>>, row)
    BY <1>11, <2>1 DEF Record
  <2> HIDE DEF row
  <2>3. logs' = <<row>>
    BY <2>2
  <2> USE DEF row
  <2> QED BY <2>1, <2>3 DEF Moved
<1> QED BY <1>1, <1>2, <1>3, <1>4, <1>5, <1>6, <1>7, <1>8, <1>9, <1>10, <1>11 DEF Next, Step

\* Conditional writers change the stored state only along the transition table,
\* so a reception they have ended is never calling again.
THEOREM TableFollowed ==
    ASSUME Conditional
    PROVE  Spec => StateFollowsTable
<1>1. IInv /\ [Next]_vars =>
        [rec'.state # rec.state => \E e \in Events : rec'.state \in Targets(rec.state, e)]_rec
  <2> SUFFICES ASSUME IInv, [Next]_vars, rec'.state # rec.state
               PROVE  \E e \in Events : rec'.state \in Targets(rec.state, e)
    OBVIOUS
  <2>1. rec \in Recs /\ Moved
    BY NextMoves DEF IInv, Typed, TypeOK
  <2>2. \/ rec.state = "confirming" /\ rec'.state \in {"calling", "failed"}
        \/ rec.state = "calling" /\ rec'.state \in {"connected", "timeout", "failed"}
    BY <2>1 DEF Moved, Recs, Open
  <2>3. {"CONFIRM", "CALL_CONNECTED", "CALL_TIMEOUT", "CALL_FAILED"} \subseteq Events
    BY DEF Events
  <2> QED BY <2>2, <2>3, TargetsKnown
<1> QED BY InitKnows, NextKnows, <1>1, PTL DEF Spec, StateFollowsTable

-----------------------------------------------------------------------------
\* In a state of the invariant the ending is the state once the call is over.
LEMMA EndingIs ==
    ASSUME RecordFits
    PROVE  Ending = IF rec.state \in Open THEN "none" ELSE rec.state
BY DEF RecordFits, Ending, Open

\* The initial state shows the initial state of the promise.
LEMMA InitPromised == Init => Promise!Init
<1> SUFFICES ASSUME Init PROVE Promise!Init
  OBVIOUS
<1>1. rec.state = "confirming" /\ rec.call = NoCall /\ Ending = "none"
  BY DEF Init, Created, Ending
<1>2. [i \in DOMAIN logs |-> logs[i].outcome] = <<>>
  BY DEF Init
<1> QED BY <1>1, <1>2 DEF Promise!Init

\* Every move of the record shows a step of the promise, or none.
LEMMA MovesPromised ==
    IInv /\ IInv' /\ Moved => [Promise!Next]_(Promise!vars)
<1> SUFFICES ASSUME IInv, IInv', Moved PROVE [Promise!Next]_(Promise!vars)
  OBVIOUS
<1>0. rec \in Recs /\ rec' \in Recs /\ RecordFits /\ RecordFits'
  BY DEF IInv, Typed, TypeOK
<1>1. /\ Ending = IF rec.state \in Open THEN "none" ELSE rec.state
      /\ Ending' = IF rec'.state \in Open THEN "none" ELSE rec'.state
  BY <1>0, EndingIs DEF RecordFits, Ending, Open
<1> DEFINE shown == [i \in DOMAIN logs |-> logs[i].outcome]
           shown2 == [i \in DOMAIN logs' |-> logs'[i].outcome]
<1>2. logs' = logs => shown2 = shown
  OBVIOUS
<1>3. CASE /\ logs' = logs /\ rec'.state = rec.state /\ rec'.call = rec.call
  <2>1. Ending' = Ending
    BY <1>1, <1>3
  <2> QED BY <1>2, <1>3, <2>1 DEF Promise!vars
<1>4. CASE /\ rec.state = "confirming" /\ rec'.state = "calling" /\ rec'.call = rec.call
           /\ logs' = logs
  <2>1. Promise!Confirm
    BY <1>1, <1>2, <1>4 DEF Promise!Confirm, Open
  <2> QED BY <2>1 DEF Promise!Next
<1>5. ASSUME NEW c \in Calls, rec.state = "calling", rec'.state = "calling",
             rec'.call = c, logs' = logs
      PROVE  [Promise!Next]_(Promise!vars)
  <2>1. Promise!Await(c)
    BY <1>1, <1>2, <1>5 DEF Promise!Await, Open
  <2> QED BY <2>1 DEF Promise!Next
<1>6. ASSUME NEW v \in {"connected", "timeout", "failed"}, rec'.state = v,
             \/ rec.state = "calling"
             \/ rec.state = "confirming" /\ v = "failed",
             rec'.call = rec.call, logs' = logs
      PROVE  [Promise!Next]_(Promise!vars)
  <2>1. Promise!Conclude(v) /\ v \in Promise!Endings
    BY <1>1, <1>2, <1>6 DEF Promise!Conclude, Promise!Endings, Open
  <2> QED BY <2>1 DEF Promise!Next
<1>7. CASE /\ rec.state \in {"timeout", "failed"} /\ logs = <<>> /\ rec' = rec
           /\ logs' = <<[NoRow EXCEPT !.outcome = rec.state]>>
  <2>1. shown = <<>>
    BY <1>7
  <2>2. shown2 = <<rec.state>>
    BY <1>7 DEF NoRow
  <2>3. Promise!File
    BY <1>1, <1>7, <2>1, <2>2 DEF Promise!File, Open
  <2> QED BY <2>3 DEF Promise!Next
<1>8. \/ rec' = rec /\ logs' = logs
      \/ /\ rec.state = "confirming" /\ rec'.state = "calling"
         /\ rec'.call = rec.call /\ logs' = logs
      \/ /\ rec.state = "calling" /\ rec'.state = "calling" /\ logs' = logs
         /\ rec'.call \in Calls
      \/ /\ rec'.state \in {"connected", "timeout", "failed"}
         /\ rec.state = "calling" \/ (rec.state = "confirming" /\ rec'.state = "failed")
         /\ rec'.call = rec.call /\ logs' = logs
      \/ logs' = logs /\ rec'.state = rec.state /\ rec'.call = rec.call
      \/ /\ rec.state \in {"timeout", "failed"} /\ logs = <<>> /\ rec' = rec
         /\ logs' = <<[NoRow EXCEPT !.outcome = rec.state]>>
  BY <1>0 DEF Moved, Recs, Open
<1> QED BY <1>3, <1>4, <1>5, <1>6, <1>7, <1>8

\* For any number of conditional writers, whatever fails, the store implements
\* the machine of ReceptionPromise: one ending, a call that moves only while
\* the reception is calling, and the ending filed at most once.
THEOREM PromiseKept ==
    ASSUME Conditional
    PROVE  Spec => KeepsPromise
<1>1. IInv /\ IInv' /\ [Next]_vars => [Promise!Next]_(Promise!vars)
  BY NextMoves, MovesPromised
<1> QED BY InitKnows, NextKnows, InitPromised, <1>1, PTL DEF Spec, KeepsPromise, Promise!Spec

-----------------------------------------------------------------------------
(* From here on: every function, of requests that follow one another.        *)

Reached == {"confirming", "calling", "connected", "timeout", "failed", "cancelled",
            "fallback", "completed"}

\* A record and a history between two requests.
Whole(r, l) ==
    /\ r.state \in Reached
    /\ r.state \in Open => r.outcome = "none"
    /\ r.state \in {"connected", "timeout", "failed", "cancelled"} => r.outcome = r.state
    /\ r.state = "fallback" => r.outcome \in {"timeout", "failed"}
    /\ r.state = "completed" => r.outcome \in {"connected", "timeout", "failed"}
    /\ IF r.state \in Filed THEN Len(l) = 1 /\ l[1].outcome = r.outcome ELSE l = <<>>

\* What a function that is about to add the outcome has done.
Concluded(o, r, l) ==
    \/ /\ r.outcome = "none" /\ l = <<>>
       /\ \/ o.fn = "start" /\ r.state = o.input.status
          \/ o.fn = "cancel" /\ r.state = "cancelled"
          \/ o.fn = "connected" /\ r.state = "connected"
    \/ /\ o.fn = "complete" /\ r.state = "completed"
       /\ \/ r.outcome = "connected" /\ l = <<>>
          \/ r.outcome \in {"timeout", "failed"} /\ Len(l) = 1 /\ l[1].outcome = r.outcome

\* The record and the history within a function: it works on the record as it is.
Within(o, r, l) ==
    /\ o.fn = "repoint" \/ (o.fn = "start" /\ o.input.status = "calling")
          => o.input.call \in Calls
    /\ o.at = "repoint" => o.fn = "repoint"
    /\ o.at \in {"read", "put", "respond", "cas", "repoint", "find", "mark"} => Whole(r, l)
    /\ o.at \in {"put", "attach", "result", "outcome", "respond", "cas"} => o.seen = r
    /\ o.at = "put" => o.fn # "respond"
    /\ o.at = "respond" => r.state \in StaffMayRespond
    /\ o.at = "attach" => o.input.status = "calling"
    /\ o.at \in {"attach", "result"} => r.state = "calling" /\ r.outcome = "none" /\ l = <<>>
    /\ o.at = "outcome" => Concluded(o, r, l)
    /\ o.at = "record" =>
          /\ l = <<>> /\ o.seen.outcome = r.outcome
          /\ \/ r.state \in {"timeout", "failed", "cancelled"} /\ r.outcome = r.state
             \/ r.state = "completed" /\ r.outcome = "connected"
    /\ o.at = "mark" => l # <<>> /\ o.index = Len(l) /\ o.row = l[Len(l)]

SInv == /\ Typed
        /\ \A p, q \in Requests : Active(p) /\ Active(q) => p = q
        /\ Quiet => Whole(rec, logs)
        /\ \A p \in Requests : Active(p) => Within(op[p], rec, logs)

\* The table, in the states that are reached.
LEMMA TargetsReached ==
    \A s \in Reached :
      /\ Targets(s, "CONFIRM") = IF s = "confirming" THEN {"calling"} ELSE {}
      /\ Targets(s, "CANCEL") = IF s \in Open THEN {"cancelled"} ELSE {}
      /\ Targets(s, "COMPLETE") = IF s \in {"connected", "fallback"} THEN {"completed"} ELSE {}
      /\ Targets(s, "CALL_CONNECTED") = IF s = "calling" THEN {"connected"} ELSE {}
      /\ Targets(s, "CALL_TIMEOUT") = IF s = "calling" THEN {"timeout"} ELSE {}
      /\ Targets(s, "CALL_FAILED") = IF s \in Open THEN {"failed"} ELSE {}
      /\ Targets(s, "USE_FALLBACK") = IF s \in {"timeout", "failed"} THEN {"fallback"} ELSE {}
BY DEF Targets, Edges, States, Reached, Open

LEMMA InitSerial == Init => SInv
<1> SUFFICES ASSUME Init PROVE SInv
  OBVIOUS
<1>1. \A p \in Requests : ~Active(p)
  BY DEF Init, Idle, Active
<1>2. Whole(rec, logs)
  BY DEF Init, Created, Whole, Reached, Open, Filed
<1> QED BY <1>1, <1>2, InitTyped DEF SInv

\* The step of the only request that runs.
LEMMA SerialKept ==
    ASSUME SInv, Typed', NEW p \in Requests, Active(p) \/ Quiet, NEW o,
           op' = [op EXCEPT ![p] = o], o.at # "new",
           IF o.at = "done" THEN Whole(rec', logs') ELSE Within(o, rec', logs')
    PROVE  SInv'
<1>1. \A q \in Requests : op'[q] = IF q = p THEN o ELSE op[q]
  BY DEF SInv, Typed, TypeOK
<1>2. \A q \in Requests : q # p => ~Active(q)
  BY DEF SInv, Quiet
<1>3. \A q \in Requests : Active(q)' => q = p
  BY <1>1, <1>2 DEF Active
<1>4. Quiet' => Whole(rec', logs')
  <2>1. Quiet' => o.at = "done"
    BY <1>1 DEF Quiet, Active
  <2> QED BY <2>1
<1>5. \A q \in Requests : Active(q)' => Within(op'[q], rec', logs')
  BY <1>1, <1>3 DEF Active
<1> QED BY <1>3, <1>4, <1>5 DEF SInv

\* What the promise shows of a record and a history.
EndOf(r) == IF r.outcome # "none" THEN r.outcome
            ELSE IF r.state \in {"connected", "timeout", "failed", "cancelled"}
                 THEN r.state ELSE "none"

Rowed(l) == [i \in DOMAIN l |-> l[i].outcome]

Shown == [Promise!Next]_(Promise!vars)

LEMMA EndOfRecord == Ending = EndOf(rec) /\ Ending' = EndOf(rec')
BY DEF Ending, EndOf

LEMMA ShownSame ==
    ASSUME rec'.state = rec.state, rec'.call = rec.call, EndOf(rec') = EndOf(rec),
           Rowed(logs') = Rowed(logs)
    PROVE  Shown
BY EndOfRecord DEF Shown, Promise!vars, Rowed

LEMMA ShownConclusion ==
    ASSUME NEW v \in {"connected", "timeout", "failed", "cancelled"},
           \/ rec.state = "calling"
           \/ rec.state = "confirming" /\ v \in {"failed", "cancelled"},
           rec'.state = v, EndOf(rec') = v, rec'.call = rec.call, logs' = logs
    PROVE  Shown
BY EndOfRecord DEF Shown, Promise!Next, Promise!Conclude, Promise!Endings

LEMMA ShownAwait ==
    ASSUME NEW c \in Calls, rec.state = "calling", rec'.state = "calling", rec'.call = c,
           EndOf(rec') = EndOf(rec), logs' = logs
    PROVE  Shown
BY EndOfRecord DEF Shown, Promise!Next, Promise!Await

LEMMA ShownOn ==
    ASSUME \/ rec.state = "confirming" /\ rec'.state = "calling"
           \/ rec.state \in {"timeout", "failed"} /\ rec'.state = "fallback"
           \/ rec.state \in {"connected", "fallback"} /\ rec'.state = "completed",
           EndOf(rec') = EndOf(rec), rec'.call = rec.call, logs' = logs
    PROVE  Shown
BY EndOfRecord DEF Shown, Promise!Next, Promise!Confirm, Promise!UseFallback, Promise!Complete

LEMMA ShownFile ==
    ASSUME EndOf(rec) # "none", EndOf(rec) = "connected" => rec.state = "completed",
           logs = <<>>, rec' = rec, Rowed(logs') = <<EndOf(rec)>>
    PROVE  Shown
<1>1. Rowed(logs) = <<>>
  BY DEF Rowed
<1> QED BY <1>1, EndOfRecord DEF Shown, Promise!Next, Promise!File, Rowed

\* The request that takes a step is the one that runs.
LEMMA Running ==
    ASSUME SInv, NEW p \in Requests, op[p].at \notin {"new", "done"}
    PROVE  /\ Active(p) /\ Within(op[p], rec, logs)
           /\ op[p] \in Ops /\ Fits(op[p]) /\ rec \in Recs /\ logs \in Seq(Rows)
BY DEF SInv, Typed, TypeOK, Active

\* A request that returns leaves a record and a history that are whole.
LEMMA SerialReturned ==
    ASSUME SInv, Typed', NEW p \in Requests, op[p].at \notin {"new", "done"},
           NEW ok \in BOOLEAN, Return(p, ok), Whole(rec', logs')
    PROVE  SInv'
<1> DEFINE o == [op[p] EXCEPT !.at = "done", !.ok = ok]
<1>1. op' = [op EXCEPT ![p] = o]
  BY DEF Return
<1>2. op[p] \in Ops /\ Active(p)
  BY Running
<1>3. o.at = "done"
  BY <1>2 DEF Ops
<1> HIDE DEF o
<1> QED BY <1>1, <1>2, <1>3, SerialKept

LEMMA SerialBegin ==
    ASSUME SInv, Typed', NEW p \in Requests, Quiet, Request(p)
    PROVE  SInv' /\ Shown
<1>1. PICK fn \in Functions : \E input \in InputsOf(fn) : Begin(p, fn, input)
  BY DEF Request
<1>2. PICK input \in InputsOf(fn) : Begin(p, fn, input)
  BY <1>1
<1> DEFINE at == CASE fn = "repoint"  -> "repoint"
                   [] fn = "feedback" -> "find"
                   [] OTHER           -> "read"
<1> DEFINE o == [op[p] EXCEPT !.fn = fn, !.input = input, !.at = at]
<1>3. op' = [op EXCEPT ![p] = o] /\ rec' = rec /\ logs' = logs
  BY <1>2 DEF Begin
<1>4. op[p] \in Ops /\ Whole(rec, logs)
  BY DEF SInv, Typed, TypeOK
<1>5. o.at = at /\ o.fn = fn /\ o.input = input
  BY <1>4 DEF Ops
<1>6. at \in {"repoint", "find", "read"} /\ (at = "repoint" => fn = "repoint")
  OBVIOUS
<1>7. fn \in AllFunctions
  BY StoreAssumption
<1>8. fn = "repoint" \/ (fn = "start" /\ input.status = "calling") => input.call \in Calls
  BY <1>7 DEF InputsOf
<1>9. Within(o, rec, logs)
  <2> HIDE DEF o, at
  <2> QED BY <1>4, <1>5, <1>6, <1>8 DEF Within
<1>10. SInv'
  <2> HIDE DEF o, at
  <2> QED BY <1>3, <1>5, <1>6, <1>9, SerialKept
<1>11. Shown
  BY <1>3, ShownSame
<1> QED BY <1>10, <1>11

LEMMA SerialRead ==
    ASSUME SInv, Typed', NEW p \in Requests, Read(p)
    PROVE  SInv' /\ Shown
<1>0. /\ Active(p) /\ Within(op[p], rec, logs) /\ op[p] \in Ops /\ Fits(op[p])
      /\ rec \in Recs /\ op[p].at = "read"
  BY Running DEF Read, At
<1> DEFINE at == IF Allowed(op[p].fn, rec.state) THEN FirstWrite(op[p].fn) ELSE "done"
<1> DEFINE o == [op[p] EXCEPT !.seen = rec, !.at = at]
<1>1. op' = [op EXCEPT ![p] = o] /\ rec' = rec /\ logs' = logs
  BY DEF Read
<1>2. o.at = at /\ o.seen = rec /\ o.fn = op[p].fn /\ o.input = op[p].input
  BY <1>0 DEF Ops
<1>3. Whole(rec, logs)
  BY <1>0 DEF Within
<1>4. /\ at \in {"cas", "respond", "put", "done"}
      /\ at = "put" => op[p].fn # "respond"
      /\ at = "respond" => rec.state \in StaffMayRespond
  BY <1>0 DEF FirstWrite, Allowed
<1>5. Within(o, rec, logs)
  <2> HIDE DEF o, at
  <2> QED BY <1>0, <1>2, <1>3, <1>4 DEF Within
<1>6. SInv'
  <2> HIDE DEF o, at
  <2> QED BY <1>0, <1>1, <1>2, <1>3, <1>4, <1>5, SerialKept
<1>7. Shown
  BY <1>1, ShownSame
<1> QED BY <1>6, <1>7

LEMMA SerialRecord ==
    ASSUME SInv, Typed', NEW p \in Requests, Record(p)
    PROVE  SInv' /\ Shown
<1>0. /\ Within(op[p], rec, logs) /\ op[p] \in Ops /\ rec \in Recs /\ op[p].at = "record"
  BY Running DEF Record, At
<1>1. /\ logs = <<>> /\ op[p].seen.outcome = rec.outcome /\ rec.outcome # "none"
      /\ \/ rec.state \in {"timeout", "failed", "cancelled"} /\ rec.outcome = rec.state
         \/ rec.state = "completed" /\ rec.outcome = "connected"
  BY <1>0 DEF Within
<1> DEFINE row == [NoRow EXCEPT !.outcome = rec.outcome]
<1>2. logs' = <<row>> /\ rec' = rec /\ Return(p, TRUE)
  <2>1. logs' = Append(logs, row) /\ rec' = rec /\ Return(p, TRUE)
    BY <1>1 DEF Record
  <2>2. row \in Rows
    BY <1>0 DEF NoRow, Rows, Recs
  <2>3. Append(<<>>, row) = <<row>>
    <3> HIDE DEF row
    <3> QED BY <2>2
  <2> QED BY <1>1, <2>1, <2>3
<1>3. row.outcome = rec.outcome
  BY DEF NoRow
<1> HIDE DEF row
<1>4. Whole(rec', logs')
  BY <1>1, <1>2, <1>3 DEF Whole, Reached, Filed, Open
<1>5. SInv'
  BY <1>0, <1>2, <1>4, SerialReturned
<1>6. EndOf(rec) = rec.outcome
  BY <1>1 DEF EndOf
<1>7. Rowed(logs') = <<EndOf(rec)>>
  BY <1>2, <1>3, <1>6 DEF Rowed
<1>8. Shown
  BY <1>1, <1>2, <1>6, <1>7, ShownFile
<1> QED BY <1>5, <1>8

LEMMA SerialFind ==
    ASSUME SInv, Typed', NEW p \in Requests, FindRow(p)
    PROVE  SInv' /\ Shown
<1>0. /\ Active(p) /\ Within(op[p], rec, logs) /\ op[p] \in Ops /\ op[p].at = "find"
      /\ logs \in Seq(Rows)
  BY Running DEF FindRow, At
<1>1. rec' = rec /\ logs' = logs /\ Whole(rec, logs)
  BY <1>0 DEF FindRow, Within
<1>2. Shown
  BY <1>1, ShownSame
<1>3. CASE logs = <<>>
  <2>1. PICK ok \in BOOLEAN : Return(p, ok)
    BY <1>3 DEF FindRow
  <2> QED BY <1>0, <1>1, <1>2, <2>1, SerialReturned
<1>4. CASE logs # <<>>
  <2> DEFINE o == [op[p] EXCEPT !.index = Len(logs), !.row = logs[Len(logs)], !.at = "mark"]
  <2>1. op' = [op EXCEPT ![p] = o]
    BY <1>4 DEF FindRow
  <2>2. /\ o.at = "mark" /\ o.index = Len(logs) /\ o.row = logs[Len(logs)]
        /\ o.fn = op[p].fn /\ o.input = op[p].input
    BY <1>0 DEF Ops
  <2> HIDE DEF o
  <2>3. Within(o, rec, logs)
    BY <1>0, <1>1, <1>4, <2>2 DEF Within
  <2>4. Active(p) /\ o.at # "new" /\ o.at # "done" /\ Within(o, rec', logs')
    BY <1>0, <1>1, <2>2, <2>3
  <2> QED BY <1>2, <2>1, <2>4, SerialKept
<1> QED BY <1>3, <1>4

LEMMA SerialPutRow ==
    ASSUME SInv, Typed', NEW p \in Requests, PutRow(p)
    PROVE  SInv' /\ Shown
<1>0. /\ Within(op[p], rec, logs) /\ op[p] \in Ops /\ op[p].at = "mark" /\ logs \in Seq(Rows)
  BY Running DEF PutRow, At
<1>1. /\ logs # <<>> /\ op[p].index = Len(logs) /\ op[p].row = logs[Len(logs)]
      /\ Whole(rec, logs)
  BY <1>0 DEF Within
<1> DEFINE row == IF op[p].fn = "fallback" THEN [op[p].row EXCEPT !.fallback = TRUE]
                  ELSE [op[p].row EXCEPT !.rated = TRUE]
<1>2. rec' = rec /\ logs' = [logs EXCEPT ![Len(logs)] = row] /\ Return(p, TRUE)
  BY <1>1 DEF PutRow
<1>3. Len(logs) \in Nat /\ Len(logs) > 0 /\ logs[Len(logs)] \in Rows
  BY <1>0, <1>1
<1>4. row.outcome = logs[Len(logs)].outcome
  BY <1>1, <1>3 DEF Rows
<1> HIDE DEF row
<1>5. DOMAIN logs' = DOMAIN logs /\ Len(logs') = Len(logs)
  BY <1>0, <1>2, <1>3
<1>6. \A i \in DOMAIN logs : logs'[i].outcome = logs[i].outcome
  BY <1>0, <1>2, <1>4
<1>7. Whole(rec', logs')
  BY <1>0, <1>1, <1>2, <1>3, <1>5, <1>6 DEF Whole
<1>8. SInv'
  BY <1>0, <1>2, <1>7, SerialReturned
<1>9. Rowed(logs') = Rowed(logs)
  BY <1>5, <1>6 DEF Rowed
<1>10. Shown
  BY <1>2, <1>9, ShownSame
<1> QED BY <1>8, <1>10

LEMMA SerialRepoint ==
    ASSUME SInv, Typed', NEW p \in Requests, Repoint(p)
    PROVE  SInv' /\ Shown
<1>0. /\ Within(op[p], rec, logs) /\ op[p] \in Ops /\ op[p].at = "repoint" /\ rec \in Recs
  BY Running DEF Repoint, At
<1>1. Whole(rec, logs) /\ op[p].input.call \in Calls /\ logs' = logs
  BY <1>0 DEF Within, Repoint
<1>2. CASE rec.state = "calling"
  <2>1. rec' = [rec EXCEPT !.call = op[p].input.call] /\ Return(p, TRUE)
    BY <1>2 DEF Repoint
  <2>2. /\ rec'.state = rec.state /\ rec'.outcome = rec.outcome
        /\ rec'.call = op[p].input.call
    BY <1>0, <2>1 DEF Recs
  <2>3. Whole(rec', logs')
    BY <1>1, <2>2 DEF Whole
  <2>4. SInv'
    BY <1>0, <2>1, <2>3, SerialReturned
  <2>5. EndOf(rec') = EndOf(rec)
    BY <2>2 DEF EndOf
  <2>6. Shown
    BY <1>1, <1>2, <2>2, <2>5, ShownAwait
  <2> QED BY <2>4, <2>6
<1>3. CASE rec.state # "calling"
  <2>1. rec' = rec /\ Return(p, FALSE)
    BY <1>3 DEF Repoint
  <2>2. SInv'
    BY <1>0, <1>1, <2>1, SerialReturned
  <2>3. Shown
    BY <1>1, <2>1, ShownSame
  <2> QED BY <2>2, <2>3
<1> QED BY <1>2, <1>3

\* A request puts a record and goes on at a label, or returns.
LEMMA SerialWrites ==
    ASSUME SInv, Typed', NEW p \in Requests, op[p].at \notin {"new", "done"},
           NEW r \in Recs, NEW at \in Labels \ {"new"}, Overwrite(p, r, at), logs' = logs,
           IF at = "done" THEN Whole(r, logs)
           ELSE \A o \in Ops : /\ o.fn = op[p].fn /\ o.input = op[p].input
                               /\ o.at = at /\ o.seen = r
                               => Within(o, r, logs)
    PROVE  SInv'
<1> DEFINE ok == (at = "done")
<1> DEFINE o == [op[p] EXCEPT !.seen = r, !.at = at, !.ok = ok]
<1>1. op' = [op EXCEPT ![p] = o] /\ rec' = r
  BY DEF Overwrite
<1>2. op[p] \in Ops /\ Active(p) /\ ok \in BOOLEAN
  BY Running
<1> HIDE DEF ok
<1>3. o \in Ops /\ o.fn = op[p].fn /\ o.input = op[p].input /\ o.at = at /\ o.seen = r
  BY <1>2 DEF Ops
<1> HIDE DEF o
<1>4. IF o.at = "done" THEN Whole(rec', logs') ELSE Within(o, rec', logs')
  BY <1>1, <1>3
<1>5. o.at # "new"
  BY <1>3
<1> QED BY <1>1, <1>2, <1>4, <1>5, SerialKept

LEMMA SerialApply ==
    ASSUME SInv, Typed', NEW p \in Requests, ApplyEvent(p)
    PROVE  SInv' /\ Shown
<1>0. /\ Within(op[p], rec, logs) /\ op[p] \in Ops /\ Fits(op[p]) /\ op[p].at = "put"
      /\ rec \in Recs
  BY Running DEF ApplyEvent, At
<1>1. /\ Whole(rec, logs) /\ op[p].seen = rec /\ logs' = logs
      /\ op[p].fn \in {"start", "cancel", "complete", "connected", "fallback"}
  BY <1>0 DEF Within, Fits, ApplyEvent
<1> DEFINE to == CASE op[p].fn = "fallback" -> "find"
                   [] op[p].fn = "start" /\ op[p].input.status = "calling" -> "attach"
                   [] op[p].fn = "start" /\ op[p].input.status # "calling" -> "result"
                   [] OTHER -> "outcome"
<1>2. PICK t \in Targets(rec.state, EventOf(op[p].fn)) :
         Overwrite(p, [rec EXCEPT !.state = t], to)
  BY <1>1 DEF ApplyEvent
<1>3. rec.state \in Reached
  BY <1>1 DEF Whole
<1>4. \/ op[p].fn = "start" /\ rec.state = "confirming" /\ t = "calling"
      \/ op[p].fn = "cancel" /\ rec.state \in Open /\ t = "cancelled"
      \/ op[p].fn = "complete" /\ rec.state \in {"connected", "fallback"} /\ t = "completed"
      \/ op[p].fn = "connected" /\ rec.state = "calling" /\ t = "connected"
      \/ op[p].fn = "fallback" /\ rec.state \in {"timeout", "failed"} /\ t = "fallback"
  BY <1>1, <1>2, <1>3, TargetsReached DEF EventOf
<1> DEFINE r == [rec EXCEPT !.state = t]
<1>5. r \in Recs /\ r.state = t /\ r.call = rec.call /\ r.outcome = rec.outcome
  BY <1>0, <1>4 DEF Recs, States
<1>6. rec' = r
  BY <1>2 DEF Overwrite
<1> HIDE DEF r
<1>7. /\ to \in {"find", "attach", "result", "outcome"}
      /\ to = "find" => op[p].fn = "fallback"
      /\ to = "attach" => op[p].fn = "start" /\ op[p].input.status = "calling"
      /\ to = "result" => op[p].fn = "start"
      /\ to = "outcome" => op[p].fn \in {"cancel", "complete", "connected"}
  BY <1>1
<1>8. Overwrite(p, r, to)
  BY <1>2 DEF r
<1> HIDE DEF to
<1>9. ASSUME NEW o \in Ops, o.fn = op[p].fn, o.input = op[p].input, o.at = to, o.seen = r
      PROVE  Within(o, r, logs)
  <2>1. to = "find" => Whole(r, logs)
    BY <1>1, <1>4, <1>5, <1>7 DEF Whole, Reached, Open, Filed
  <2>2. to \in {"attach", "result"} => r.state = "calling" /\ r.outcome = "none" /\ logs = <<>>
    BY <1>1, <1>4, <1>5, <1>7 DEF Whole, Open, Filed
  <2>3. to = "outcome" => Concluded(o, r, logs)
    BY <1>1, <1>4, <1>5, <1>7, <1>9 DEF Whole, Open, Filed, Concluded
  <2>4. o.fn = "repoint" \/ (o.fn = "start" /\ o.input.status = "calling")
           => o.input.call \in Calls
    BY <1>0, <1>9 DEF Within
  <2> QED BY <1>7, <1>9, <2>1, <2>2, <2>3, <2>4 DEF Within
<1>10. SInv'
  <2>1. to \in Labels \ {"new"} /\ to # "done" /\ op[p].at \notin {"new", "done"}
    BY <1>0, <1>7 DEF Labels
  <2> QED BY <1>1, <1>5, <1>8, <1>9, <2>1, SerialWrites
<1>11. Shown
  <2>1. CASE op[p].fn \in {"cancel", "connected"}
    <3>1. /\ t \in {"connected", "timeout", "failed", "cancelled"}
          /\ \/ rec.state = "calling"
             \/ rec.state = "confirming" /\ t \in {"failed", "cancelled"}
      BY <1>4, <2>1 DEF Open
    <3>2. rec.outcome = "none"
      BY <1>1, <1>4, <2>1 DEF Whole, Open
    <3>3. EndOf(r) = t
      BY <1>5, <3>1, <3>2 DEF EndOf
    <3> QED BY <1>1, <1>5, <1>6, <3>1, <3>3, ShownConclusion
  <2>2. CASE op[p].fn \notin {"cancel", "connected"}
    <3>1. EndOf(r) = EndOf(rec)
      BY <1>1, <1>4, <1>5, <2>2 DEF EndOf, Whole, Open
    <3>2. \/ rec.state = "confirming" /\ r.state = "calling"
          \/ rec.state \in {"timeout", "failed"} /\ r.state = "fallback"
          \/ rec.state \in {"connected", "fallback"} /\ r.state = "completed"
      BY <1>4, <1>5, <2>2
    <3> QED BY <1>1, <1>5, <1>6, <3>1, <3>2, ShownOn
  <2> QED BY <2>1, <2>2
<1> QED BY <1>10, <1>11

LEMMA SerialAttach ==
    ASSUME SInv, Typed', NEW p \in Requests, Attach(p)
    PROVE  SInv' /\ Shown
<1>0. /\ Within(op[p], rec, logs) /\ op[p] \in Ops /\ Fits(op[p]) /\ op[p].at = "attach"
      /\ rec \in Recs
  BY Running DEF Attach, At
<1>1. /\ rec.state = "calling" /\ rec.outcome = "none" /\ logs = <<>> /\ op[p].seen = rec
      /\ op[p].input.call \in Calls /\ logs' = logs
  BY <1>0 DEF Within, Fits, Attach
<1> DEFINE r == [rec EXCEPT !.call = op[p].input.call]
<1>2. /\ r \in Recs /\ r.state = "calling" /\ r.call = op[p].input.call
      /\ r.outcome = "none"
  BY <1>0, <1>1 DEF Recs
<1>3. Overwrite(p, r, "done") /\ rec' = r
  BY <1>1 DEF Attach, Overwrite
<1> HIDE DEF r
<1>4. Whole(r, logs)
  BY <1>1, <1>2 DEF Whole, Reached, Open, Filed
<1>5. SInv'
  BY <1>0, <1>1, <1>2, <1>3, <1>4, SerialWrites DEF Labels
<1>6. EndOf(r) = EndOf(rec)
  BY <1>1, <1>2 DEF EndOf
<1>7. Shown
  BY <1>1, <1>2, <1>3, <1>6, ShownAwait
<1> QED BY <1>5, <1>7

LEMMA SerialResult ==
    ASSUME SInv, Typed', NEW p \in Requests, ApplyResult(p)
    PROVE  SInv' /\ Shown
<1>0. /\ Within(op[p], rec, logs) /\ op[p] \in Ops /\ Fits(op[p]) /\ op[p].at = "result"
      /\ rec \in Recs
  BY Running DEF ApplyResult, At
<1>1. /\ rec.state = "calling" /\ rec.outcome = "none" /\ logs = <<>> /\ op[p].seen = rec
      /\ op[p].fn = "start" /\ op[p].input.status \in {"connected", "timeout", "failed"}
      /\ logs' = logs
  BY <1>0 DEF Within, Fits, ApplyResult
<1> DEFINE t == op[p].input.status
<1> DEFINE r == [rec EXCEPT !.state = t]
<1>2. Overwrite(p, r, "outcome") /\ rec' = r
  <2>1. PICK u \in Targets(rec.state, ResultEvent(t)) :
           Overwrite(p, [rec EXCEPT !.state = u], "outcome")
    BY <1>1 DEF ApplyResult
  <2>2. rec.state \in Reached
    BY <1>1 DEF Reached
  <2>3. u = t
    BY <1>1, <2>1, <2>2, TargetsReached DEF ResultEvent
  <2> QED BY <2>1, <2>3 DEF Overwrite
<1>3. t \in {"connected", "timeout", "failed"}
  BY <1>1
<1>4. r \in Recs /\ r.state = t /\ r.call = rec.call /\ r.outcome = "none"
  BY <1>0, <1>1, <1>3 DEF Recs, States
<1> HIDE DEF r
<1>5. ASSUME NEW o \in Ops, o.fn = op[p].fn, o.input = op[p].input, o.at = "outcome",
             o.seen = r
      PROVE  Within(o, r, logs)
  BY <1>1, <1>4, <1>5 DEF Within, Concluded
<1>6. SInv'
  BY <1>0, <1>1, <1>2, <1>4, <1>5, SerialWrites DEF Labels
<1>7. EndOf(r) = t
  BY <1>3, <1>4 DEF EndOf
<1>8. Shown
  BY <1>1, <1>2, <1>3, <1>4, <1>7, ShownConclusion
<1> QED BY <1>6, <1>8

LEMMA SerialOutcome ==
    ASSUME SInv, Typed', NEW p \in Requests, PutOutcome(p)
    PROVE  SInv' /\ Shown
<1>0. /\ Within(op[p], rec, logs) /\ op[p] \in Ops /\ Fits(op[p]) /\ op[p].at = "outcome"
      /\ rec \in Recs
  BY Running DEF PutOutcome, At
<1>1. Concluded(op[p], rec, logs) /\ op[p].seen = rec /\ logs' = logs
  BY <1>0 DEF Within, PutOutcome
<1> DEFINE out == OutcomeOf(p)
<1> DEFINE to == IF Files(p) THEN "record" ELSE "done"
<1> DEFINE r == [rec EXCEPT !.outcome = out]
<1>2. Overwrite(p, r, to) /\ rec' = r
  BY <1>1 DEF PutOutcome, Overwrite
<1>3. \/ /\ logs = <<>> /\ rec.outcome = "none" /\ out = rec.state
         /\ rec.state \in {"connected", "timeout", "failed", "cancelled"}
         /\ to = IF rec.state = "connected" THEN "done" ELSE "record"
      \/ /\ logs = <<>> /\ rec.outcome = "connected" /\ out = "connected"
         /\ rec.state = "completed" /\ to = "record"
      \/ /\ Len(logs) = 1 /\ logs[1].outcome = rec.outcome /\ out = rec.outcome
         /\ rec.outcome \in {"timeout", "failed"}
         /\ rec.state = "completed" /\ to = "done"
  BY <1>0, <1>1 DEF Concluded, OutcomeOf, Files, Fits
<1>4. out \in {"connected", "timeout", "failed", "cancelled"}
  BY <1>3
<1> HIDE DEF out, to
<1>5. r \in Recs /\ r.state = rec.state /\ r.call = rec.call /\ r.outcome = out
  BY <1>0, <1>4 DEF Recs, Outcomes
<1> HIDE DEF r
<1>6. to = "done" => Whole(r, logs)
  BY <1>3, <1>5 DEF Whole, Reached, Open, Filed
<1>7. ASSUME to # "done", NEW o \in Ops, o.fn = op[p].fn, o.input = op[p].input,
             o.at = to, o.seen = r
      PROVE  Within(o, r, logs)
  <2>1. to = "record" /\ logs = <<>>
    BY <1>3, <1>7
  <2>2. \/ r.state \in {"timeout", "failed", "cancelled"} /\ r.outcome = r.state
        \/ r.state = "completed" /\ r.outcome = "connected"
    BY <1>3, <1>5, <2>1
  <2>3. o.fn = "repoint" \/ (o.fn = "start" /\ o.input.status = "calling")
           => o.input.call \in Calls
    BY <1>0, <1>7 DEF Within
  <2> QED BY <1>7, <2>1, <2>2, <2>3 DEF Within
<1>8. SInv'
  <2>1. to \in Labels \ {"new"} /\ op[p].at \notin {"new", "done"}
    BY <1>0, <1>3 DEF Labels
  <2> QED BY <1>1, <1>2, <1>5, <1>6, <1>7, <2>1, SerialWrites
<1>9. EndOf(r) = EndOf(rec)
  BY <1>3, <1>4, <1>5 DEF EndOf
<1>10. Shown
  BY <1>1, <1>2, <1>5, <1>9, ShownSame
<1> QED BY <1>8, <1>10

LEMMA SerialResponse ==
    ASSUME SInv, Typed', NEW p \in Requests, PutResponse(p)
    PROVE  SInv' /\ Shown
<1>0. /\ Within(op[p], rec, logs) /\ op[p] \in Ops /\ op[p].at = "respond" /\ rec \in Recs
  BY Running DEF PutResponse, At
<1>1. Whole(rec, logs) /\ op[p].seen = rec /\ logs' = logs
  BY <1>0 DEF Within, PutResponse
<1> DEFINE r == [rec EXCEPT !.response = TRUE]
<1>2. Overwrite(p, r, "done") /\ rec' = r
  BY <1>1 DEF PutResponse, Overwrite
<1>3. r \in Recs /\ r.state = rec.state /\ r.call = rec.call /\ r.outcome = rec.outcome
  BY <1>0 DEF Recs
<1> HIDE DEF r
<1>4. Whole(r, logs)
  BY <1>1, <1>3 DEF Whole
<1>5. SInv'
  BY <1>0, <1>1, <1>2, <1>3, <1>4, SerialWrites DEF Labels
<1>6. EndOf(r) = EndOf(rec)
  BY <1>3 DEF EndOf
<1>7. Shown
  BY <1>1, <1>2, <1>3, <1>6, ShownSame
<1> QED BY <1>5, <1>7

LEMMA SerialSettle ==
    ASSUME SInv, Typed', NEW p \in Requests, Settle(p)
    PROVE  SInv' /\ Shown
<1>0. /\ Active(p) /\ Within(op[p], rec, logs) /\ op[p] \in Ops /\ Fits(op[p])
      /\ op[p].at = "cas" /\ rec \in Recs
  BY Running DEF Settle, At
<1>1. Whole(rec, logs) /\ op[p].seen = rec /\ op[p].fn \in {"timeout", "failed"}
  BY <1>0 DEF Within, Fits
<1>2. PICK t \in Targets(rec.state, EventOf(op[p].fn)) : WriteEnding(p, rec, t)
  BY <1>1 DEF Settle
<1>3. logs' = logs
  BY DEF Settle
<1>4. /\ t = op[p].fn /\ t \in {"timeout", "failed"}
      /\ rec.state = "calling" \/ (rec.state = "confirming" /\ t = "failed")
      /\ logs = <<>>
  <2>1. rec.state \in Reached
    BY <1>1 DEF Whole
  <2> QED BY <1>1, <1>2, <2>1, TargetsReached DEF EventOf, Open, Whole, Filed
<1> DEFINE o == [op[p] EXCEPT !.seen.state = t, !.seen.outcome = op[p].fn, !.at = "record"]
<1>5. op' = [op EXCEPT ![p] = o] /\ rec' = [rec EXCEPT !.state = t, !.outcome = t]
  BY <1>2, <1>4 DEF WriteEnding
<1>6. rec'.state = t /\ rec'.outcome = t /\ rec'.call = rec.call
  BY <1>0, <1>5 DEF Recs
<1>7. o.at = "record" /\ o.seen.outcome = t /\ o.fn = op[p].fn /\ o.input = op[p].input
  BY <1>0, <1>4 DEF Ops, Recs
<1> HIDE DEF o
<1>8. Within(o, rec', logs')
  BY <1>0, <1>3, <1>4, <1>6, <1>7 DEF Within
<1>9. SInv'
  BY <1>0, <1>5, <1>7, <1>8, SerialKept
<1>10. EndOf(rec') = t
  BY <1>4, <1>6 DEF EndOf
<1>11. Shown
  BY <1>3, <1>4, <1>6, <1>10, ShownConclusion
<1> QED BY <1>9, <1>11

\* Requests that follow one another keep SInv, and each of their steps is one of
\* the promise or none that it shows.
LEMMA NextSerial == SInv /\ [SerialNext]_vars => SInv' /\ Shown
<1>1. ASSUME SInv, UNCHANGED vars PROVE SInv' /\ Shown
  <2>1. rec' = rec /\ logs' = logs /\ op' = op
    BY <1>1 DEF vars
  <2>2. Shown
    BY <2>1, ShownSame
  <2>3. SInv'
    BY <1>1, <2>1 DEF SInv, Typed, TypeOK, Quiet, Active
  <2> QED BY <2>2, <2>3
<1>2. ASSUME SInv, SerialNext PROVE SInv' /\ Shown
  <2>1. PICK p \in Requests : Step(p) \/ (Quiet /\ Request(p))
    BY <1>2 DEF SerialNext, Quiet
  <2>2. Typed'
    BY <1>2, <2>1, NextTyped DEF SInv, Next
  <2>3. CASE Quiet /\ Request(p)
    BY <1>2, <2>2, <2>3, SerialBegin
  <2>4. CASE Step(p)
    BY <1>2, <2>2, <2>4, SerialRead, SerialApply, SerialAttach, SerialResult,
       SerialOutcome, SerialResponse, SerialSettle, SerialRepoint, SerialRecord,
       SerialFind, SerialPutRow DEF Step
  <2> QED BY <2>1, <2>3, <2>4
<1> QED BY <1>1, <1>2

\* For any number of requests that follow one another, of all functions: between
\* two of them the reception is in the history exactly when it is over, once,
\* and the row tells how the call ended (recordReceptionOutcome in each function
\* that ends a reception, in reception-store.ts).
THEOREM SerialHistory == SerialSpec => []HistoryMatches
<1>1. SInv => HistoryMatches
  BY DEF SInv, HistoryMatches, Whole
<1> QED BY InitSerial, NextSerial, <1>1, PTL DEF SerialSpec

\* And the store then implements the machine of ReceptionPromise, whichever
\* functions are called in whichever order.
THEOREM SerialPromise == SerialSpec => KeepsPromise
<1>1. SInv /\ [SerialNext]_vars => [Promise!Next]_(Promise!vars)
  BY NextSerial DEF Shown
<1> QED BY InitSerial, NextSerial, InitPromised, <1>1, PTL
        DEF SerialSpec, KeepsPromise, Promise!Spec

=============================================================================
