----------------------------- MODULE KioskScreen -----------------------------
(***************************************************************************)
(* The reception terminal: the flow of the screen (KioskFlow, its reducer, *)
(* the status poll, the notice hold and the video call controller) against *)
(* a server that answers late or never.  Visitors use one terminal one     *)
(* after another, and the answers to the requests of one may arrive while  *)
(* the next is at the screen.                                              *)
(*                                                                         *)
(* A visit is one START.  The calling screen is entered once in a visit,   *)
(* so a visit creates at most one reception, and that reception is named   *)
(* by the number of the visit.                                             *)
(***************************************************************************)
EXTENDS ReceptionState, Naturals, FiniteSets

CONSTANTS
    Visits,      \* bound: the number of visits that are explored
    MaxFaults,   \* bound: the requests that are lost, and those of one visit
                 \* still on their way when the next begins
    MaxPolls,    \* bound: the status requests on their way at a time
    None

ASSUME BoundsAssumption == Visits \in Nat \ {0} /\ MaxPolls \in Nat \ {0} /\ MaxFaults \in Nat

VARIABLES
    flow,        \* the reducer's data: state, whose details, session
    visit,       \* the number of the visit that began last
    medium,      \* vonageCallId or pstnCallId: "video", "pstn" or None
    overdue,     \* the poll has run for longer than CALL_STATUS_POLL_MAX_MS
    pending,     \* pendingTimeout: a timeout that waits for the notice hold
    banner,      \* a staff answer that offers the fallback, on the screen
    credential,  \* checkoutCredential: the reception it was issued for
    net,         \* requests on their way and answers on their way back
    server,      \* the state of every reception at the server
    phones,      \* the receptions whose telephone rings
    faults       \* the requests that were lost or late so far

vars == <<flow, visit, medium, overdue, pending, banner, credential, net, server, phones, faults>>
screen == <<flow, medium, overdue, pending, banner, credential>>

Ids == 1 .. Visits
Posted == {"cancel", "giveUp", "connected", "timeout"}   \* nobody awaits these
Awaited == {"create", "call", "status", "complete", "fallback", "stay", "issue"}
Answers == States \cup {"none", "ok", "no", "video", "declined"}   \* "no": refused or lost
\* What is absent is neither an identifier nor a medium nor an answer.
ASSUME NoneAssumption == None \notin Nat \cup {"pstn"} \cup Answers

Messages == [op : Posted \cup Awaited, id : Ids, answer : Answers \cup {None}]

Request(op, id) == [op |-> op, id |-> id, answer |-> None]
Outstanding(op, id) == Request(op, id) \in net

Blank == [state |-> "idle", visitor |-> None, session |-> None]

Init == /\ flow = Blank
        /\ visit = 0
        /\ medium = None /\ overdue = FALSE /\ pending = None
        /\ banner = None /\ credential = None
        /\ net = {}
        /\ server = [id \in Ids |-> "none"] /\ phones = {} /\ faults = 0

-----------------------------------------------------------------------------
\* The reducer and the effects of a committed state.

\* reducer(flow, event): an event the state does not allow changes nothing.
\* id is the session the action carries, or None.

Reduced(event, id) ==
    IF event = "RESET" THEN Blank
    ELSE IF Targets(flow.state, event) = {} THEN flow
    ELSE [state   |-> CHOOSE s \in Targets(flow.state, event) : TRUE,
          visitor |-> IF event = "SUBMIT_VISITOR_INFO" THEN visit ELSE flow.visitor,
          session |-> IF id # None THEN id ELSE flow.session]

\* What the effects do when the screen shows f: a call that is left drops its
\* pending timeout, a call that begins forgets the call before it, the idle
\* screen drops the credential, a new session the answers for the last one.
Show(f) ==
    /\ flow' = f
    /\ pending' = IF f.state = "calling" THEN pending ELSE None
    /\ medium' = IF f.state = "calling" /\ flow.state # "calling" THEN None ELSE medium
    /\ overdue' = (overdue /\ f.state = "calling")
    /\ banner' = IF f.session = flow.session THEN banner ELSE None
    /\ credential' = IF f.state = "idle" /\ flow.state # "idle" THEN None ELSE credential

Dispatch(event, id) == Show(Reduced(event, id))

Hold(id) == /\ pending' = id
            /\ UNCHANGED <<flow, medium, overdue, banner, credential>>

\* The call effect of a visit is not cancelled while its calling screen stands.
Live(id) == flow.state = "calling" /\ visit = id

\* The poll of a session goes on while its screen waits for an answer.
PolledAnySession(id) == flow.state \in {"calling", "connected"}   \* mutant

Polled(id) == flow.session = id /\ flow.state \in {"calling", "connected"}

-----------------------------------------------------------------------------
\* The visitor.

Start == /\ flow.state = "idle" /\ visit < Visits
         /\ faults + Cardinality(net) <= MaxFaults
         /\ faults' = faults + Cardinality(net)
         /\ visit' = visit + 1
         /\ Dispatch("START", None)
         /\ UNCHANGED <<net, server, phones>>

Press == /\ \E event \in {"SELECT_PURPOSE", "SELECT_TARGET", "SUBMIT_VISITOR_INFO", "BACK"} :
              /\ Targets(flow.state, event) # {}
              /\ Dispatch(event, None)
         /\ UNCHANGED <<visit, net, server, phones, faults>>

\* The confirmation enters the calling screen, whose effect creates the reception.
Confirm == /\ flow.state = "confirming"
           /\ Dispatch("CONFIRM", None)
           /\ net' = net \cup {Request("create", visit)}
           /\ UNCHANGED <<visit, server, phones, faults>>

\* leaveWithServer: the server is told when the call has a session.
Leave == /\ flow.state # "idle"
         /\ Dispatch("RESET", None)
         /\ net' = IF flow.state = "calling" /\ flow.session # None
                   THEN net \cup {Request("cancel", flow.session)} ELSE net
         /\ UNCHANGED <<visit, server, phones, faults>>

Complete == /\ flow.state = "connected" /\ ~Outstanding("complete", flow.session)
            /\ net' = net \cup {Request("complete", flow.session)}
            /\ UNCHANGED <<screen, visit, server, phones, faults>>

\* handleFallback, from the result screen or from the chat.
AskFallback ==
    /\ flow.state \notin {"idle", "cancelled", "completed"}
    /\ IF flow.session = None
       THEN Dispatch("USE_FALLBACK", None) /\ UNCHANGED net
       ELSE /\ ~Outstanding("fallback", flow.session)
            /\ net' = net \cup {Request("fallback", flow.session)}
            /\ UNCHANGED screen
    /\ UNCHANGED <<visit, server, phones, faults>>

\* handleStaffResponseFallback during the call: the screen gives the call up
\* without a word to the server.
TakeFallback == /\ flow.state = "calling" /\ banner # None
                /\ Dispatch("CALL_FAILED", flow.session)
                /\ UNCHANGED <<visit, net, server, phones, faults>>

-----------------------------------------------------------------------------
\* The timers and the heartbeat of the terminal.

InactivityReset == /\ flow.state \notin {"idle", "calling", "completed", "cancelled"}
                   /\ Dispatch("RESET", None)
                   /\ UNCHANGED <<visit, net, server, phones, faults>>

AutoReset == /\ flow.state \in {"completed", "cancelled"}
             /\ Dispatch("RESET", None)
             /\ UNCHANGED <<visit, net, server, phones, faults>>

Revoked == /\ flow.state # "idle"
           /\ Dispatch("RESET", None)
           /\ UNCHANGED <<visit, net, server, phones, faults>>

NoticeHeld == /\ flow.state = "calling" /\ pending # None
              /\ Dispatch("CALL_TIMEOUT", pending)
              /\ UNCHANGED <<visit, net, server, phones, faults>>

PollBudgetEnds == /\ flow.state = "calling" /\ medium = "pstn" /\ ~overdue
                  /\ overdue' = TRUE
                  /\ UNCHANGED <<flow, medium, pending, banner, credential, visit, net, server, phones, faults>>

Poll == /\ flow.session # None /\ Polled(flow.session)
        /\ Cardinality({m \in net : m.op = "status"}) < MaxPolls
        /\ net' = net \cup {Request("status", flow.session)}
        /\ UNCHANGED <<screen, visit, server, phones, faults>>

-----------------------------------------------------------------------------
\* The answers.

\* The reception exists: the call is asked for, whether or not the visitor is
\* still there.
CreatedAnyway(m) ==          \* mutant: the session is taken without asking who waits
    /\ net' = (net \ {m}) \cup
              (IF m.answer = "ok" THEN {Request("call", m.id)} ELSE {})
    /\ IF m.answer = "ok" THEN Show([flow EXCEPT !.session = m.id])
       ELSE Dispatch("CALL_FAILED", None)

Created(m) ==
    /\ net' = (net \ {m}) \cup
              (IF m.answer = "ok" THEN {Request("call", m.id)} ELSE {})
    /\ IF ~Live(m.id) THEN UNCHANGED screen
       ELSE IF m.answer = "ok" THEN Show([flow EXCEPT !.session = m.id])
       ELSE Dispatch("CALL_FAILED", None)

CalledPending(m) ==          \* mutant: a call that rings counts as connected
    /\ net' = net \ {m}
    /\ IF ~Live(m.id) THEN UNCHANGED screen
       ELSE IF m.answer \in {"connected", "video", "calling"}
       THEN Dispatch("CALL_CONNECTED", m.id) ELSE Dispatch("CALL_FAILED", m.id)

Called(m) ==
    /\ net' = net \ {m}
    /\ IF ~Live(m.id) THEN UNCHANGED screen
       ELSE CASE m.answer = "connected" -> Dispatch("CALL_CONNECTED", m.id)
              [] m.answer = "timeout"   -> Hold(m.id)
              [] m.answer \in {"video", "calling"} ->
                    /\ medium' = IF m.answer = "video" THEN "video" ELSE "pstn"
                    /\ UNCHANGED <<flow, overdue, pending, banner, credential>>
              [] OTHER -> Dispatch("CALL_FAILED", m.id)

\* decidePollAction: a state other than those of a call ends the wait too.
GivesUpNever(answer) ==      \* mutant: the poll budget is not used
    answer \notin {"no", "calling", "declined", "connected", "timeout", "failed"}

GivesUp(answer) ==
    \/ answer \in {"no", "calling", "declined"} /\ overdue
    \/ answer \notin {"no", "calling", "declined", "connected", "timeout", "failed"}

Polls(m) ==
    IF ~Polled(m.id) THEN net' = net \ {m} /\ UNCHANGED screen
    ELSE IF medium # "pstn" \/ flow.state # "calling"
    THEN /\ net' = net \ {m}
         /\ banner' = IF m.answer = "declined" THEN m.id ELSE banner
         /\ UNCHANGED <<flow, medium, overdue, pending, credential>>
    ELSE IF GivesUp(m.answer)
    THEN net' = (net \ {m}) \cup {Request("giveUp", m.id)} /\ Dispatch("CALL_FAILED", m.id)
    ELSE /\ net' = net \ {m}
         /\ CASE m.answer = "connected" -> Dispatch("CALL_CONNECTED", m.id)
              [] m.answer = "failed"    -> Dispatch("CALL_FAILED", m.id)
              [] m.answer = "timeout"   -> Hold(m.id)
              [] m.answer = "declined"  -> banner' = m.id
                     /\ UNCHANGED <<flow, medium, overdue, pending, credential>>
              [] OTHER -> UNCHANGED screen

\* The stay and the credential are asked for after the completion, whoever is
\* at the screen by then.
Completed(m) == /\ net' = (net \ {m}) \cup {Request("stay", m.id)}
                /\ Dispatch("COMPLETE", None)

Issued(m) == /\ net' = net \ {m}
             /\ IF m.answer = "ok"
                THEN credential' = m.id /\ UNCHANGED <<flow, medium, overdue, pending, banner>>
                ELSE UNCHANGED screen

Answered(op) ==
    \E m \in net :
      /\ m.op = op /\ m.answer # None
      /\ \/ op = "create" /\ Created(m)
         \/ op = "call" /\ Called(m)
         \/ op = "status" /\ Polls(m)
         \/ op = "complete" /\ Completed(m)
         \/ op = "fallback" /\ net' = net \ {m} /\ Dispatch("USE_FALLBACK", None)
         \/ op = "stay" /\ UNCHANGED screen
              /\ net' = (net \ {m}) \cup
                        (IF m.answer = "ok" THEN {Request("issue", m.id)} ELSE {})
         \/ op = "issue" /\ Issued(m)
      /\ UNCHANGED <<visit, server, phones, faults>>

-----------------------------------------------------------------------------
\* The video call (call-controller.ts).  A failure of the call falls back and
\* takes the view, and with it the controller's timer, off the screen.

InVideo == flow.state = "calling" /\ medium = "video" /\ pending = None

VideoAnswered == /\ InVideo
                 /\ net' = net \cup {Request("connected", flow.session)}
                 /\ Dispatch("CALL_CONNECTED", flow.session)
                 /\ UNCHANGED <<visit, server, phones, faults>>

VideoUnanswered == /\ InVideo
                   /\ net' = net \cup {Request("timeout", flow.session)}
                   /\ Hold(flow.session)
                   /\ UNCHANGED <<visit, server, phones, faults>>

VideoFails == /\ InVideo
              /\ Dispatch("CALL_FAILED", flow.session)
              /\ UNCHANGED <<visit, net, server, phones, faults>>

-----------------------------------------------------------------------------
\* The server.

EventOf == [cancel |-> "CANCEL", giveUp |-> "CALL_FAILED", connected |-> "CALL_CONNECTED",
            timeout |-> "CALL_TIMEOUT", complete |-> "COMPLETE", fallback |-> "USE_FALLBACK"]

\* The pairs <<state, answer>> the server may come to by handling a request.
Handled(op, s) ==
    CASE op = "create" -> {<<"confirming", "ok">>, <<s, "no">>}
      [] op = "call" -> IF s # "confirming" THEN {<<s, "no">>}
                        ELSE {<<t, t>> : t \in {"connected", "timeout", "failed", "calling"}}
                             \cup {<<"calling", "video">>, <<"confirming", "no">>}
      [] op = "status" -> {<<s, s>>} \cup
                          (IF s = "calling" THEN {<<s, "declined">>} ELSE {})
      [] op = "stay" -> {<<s, "no">>} \cup (IF s = "completed" THEN {<<s, "ok">>} ELSE {})
      [] op = "issue" -> {<<s, "ok">>, <<s, "no">>}
      [] OTHER -> IF Targets(s, EventOf[op]) = {} THEN {<<s, "ok">>}
                  ELSE {<<t, "ok">> : t \in Targets(s, EventOf[op])}

\* The answer to an awaited request is on its way, or the connection breaks:
\* then the terminal reads a failure, whether or not the server handled it.
Replies(m, answer) ==
    net' = (net \ {m}) \cup
           (IF m.op \in Posted THEN {} ELSE {[m EXCEPT !.answer = answer]})

Loses(m) == faults < MaxFaults /\ faults' = faults + 1 /\ Replies(m, "no")

Serves(m) ==
    \E r \in Handled(m.op, server[m.id]) :
      /\ server' = [server EXCEPT ![m.id] = r[1]]
      /\ phones' = IF r[1] # "calling" THEN phones \ {m.id}
                   ELSE IF m.op = "call" /\ r[2] = "calling" THEN phones \cup {m.id} ELSE phones
      /\ \/ Replies(m, r[2]) /\ UNCHANGED faults
         \/ Loses(m)

Serve(op) == /\ \E m \in net : m.op = op /\ m.answer = None
                             /\ \/ Serves(m)
                                \/ Loses(m) /\ UNCHANGED <<server, phones>>
             /\ UNCHANGED <<screen, visit>>

\* A webhook or the ring budget settles a reception whose telephone rings.
Settle ==
    \E id \in phones :
      /\ \E t \in {"connected", "timeout", "failed"} :
           server' = [server EXCEPT ![id] = t]
      /\ phones' = phones \ {id}
      /\ UNCHANGED <<screen, visit, net, faults>>

Next == \/ Start \/ Press \/ Confirm \/ Leave \/ Complete \/ AskFallback \/ TakeFallback
        \/ InactivityReset \/ AutoReset \/ Revoked \/ NoticeHeld \/ PollBudgetEnds \/ Poll
        \/ VideoAnswered \/ VideoUnanswered \/ VideoFails
        \/ \E op \in Awaited : Answered(op)
        \/ \E op \in Posted \cup Awaited : Serve(op)
        \/ Settle

Spec == Init /\ [][Next]_vars

\* The timers of the terminal run, a fetch ends, the video call comes to an
\* end; nothing is assumed of the visitor, the telephone or the fallback.
Fairness ==
    /\ WF_vars(InactivityReset) /\ WF_vars(AutoReset)
    /\ WF_vars(NoticeHeld) /\ WF_vars(PollBudgetEnds) /\ WF_vars(Poll)
    /\ WF_vars(VideoAnswered \/ VideoUnanswered \/ VideoFails)
    /\ \A op \in {"create", "call", "status"} : WF_vars(Serve(op)) /\ WF_vars(Answered(op))

FairSpec == Spec /\ Fairness

-----------------------------------------------------------------------------
TypeOK ==
    /\ flow \in [state : States, visitor : Ids \cup {None}, session : Ids \cup {None}]
    /\ visit \in 0 .. Visits
    /\ medium \in {"video", "pstn", None} /\ overdue \in BOOLEAN
    /\ {pending, banner, credential} \subseteq Ids \cup {None}
    /\ net \subseteq Messages
    /\ server \in [Ids -> States \cup {"none"}]
    /\ phones \subseteq Ids /\ faults \in Nat

\* Nothing of an earlier visitor reaches the screen of the next, whatever of
\* his is still on its way: neither his details nor his session, his pending
\* timeout or the answer of the staff to him.
OwnVisitor == {flow.visitor, flow.session, pending, banner} \subseteq {visit, None}

\* A terminal that waits for a visitor holds nothing of the last one.
IdleIsBlank ==
    flow.state = "idle" => flow = Blank /\ pending = None /\ banner = None

\* The screen never says more than the server knows: it shows a telephone
\* call as answered or unanswered only when the server has settled it so.  (A
\* video call is settled by the terminal itself.)
ScreenTellsTruth ==
    medium # "video" =>
      /\ flow.state = "connected" => server[flow.session] \in {"connected", "completed"}
      /\ flow.state = "timeout" => server[flow.session] \in {"timeout", "fallback"}

\* Whatever is lost, the terminal comes back to the waiting screen.
BackToIdle == []<>(flow.state = "idle")

\* A call is asked for only while its visitor is at the calling screen
\* (cancel/route.ts: a left call must not ring for nobody).
RingsForSomebody ==
    [][\A id \in Ids : Outstanding("call", id)' /\ ~Outstanding("call", id) => Live(id)]_vars

\* The credential on the screen of a completed visit is its own visitor's.
CredentialIsOwn == flow.state = "completed" => credential \in {visit, None}

\* The terminal gives a ringing call up only when the poll budget has ended.
GiveUpIsLate ==
    [][\A id \in Ids : Outstanding("giveUp", id)' /\ ~Outstanding("giveUp", id)
          => overdue \/ server[id] # "calling"]_vars
=============================================================================
