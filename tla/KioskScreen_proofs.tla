-------------------------- MODULE KioskScreen_proofs --------------------------
(***************************************************************************)
(* Theorems about the screen of the reception terminal, for any number of  *)
(* visits and any number of lost and late requests.                        *)
(***************************************************************************)
EXTENDS KioskScreen, FiniteSetTheorems, TLAPS

Flows == [state : States, visitor : Ids \cup {None}, session : Ids \cup {None}]

\* The screens before the call of a visit.
PreCall == {"selectingPurpose", "selectingTarget", "inputVisitorInfo", "confirming"}

ScreenTyped ==
    /\ flow \in Flows
    /\ medium \in {"video", "pstn", None} /\ overdue \in BOOLEAN
    /\ {pending, banner, credential} \subseteq Ids \cup {None}

\* What the screen holds, it holds of the visit that began last.
ScreenInv ==
    /\ flow.state = "idle" => flow = Blank
    /\ flow.state # "idle" => visit # 0
    /\ flow.visitor \in {visit, None} /\ flow.session \in {visit, None}
    /\ pending # None => flow.state = "calling" /\ pending = visit
    /\ banner \in {flow.session, None}
    /\ flow.state \in PreCall => flow.session = None
    /\ flow.state = "calling" /\ medium # None => flow.session # None
    /\ flow.state = "connected" => flow.session # None

\* A visit has sent nothing before its call, and its call has a session.
NetInv ==
    /\ IsFiniteSet(net)
    /\ \A m \in net : m.id <= visit
    /\ flow.state \in PreCall => \A m \in net : m.id # visit
    /\ flow.state = "calling" => \A m \in net : m.op = "call" /\ m.id = visit => flow.session = visit

IInv == TypeOK /\ ScreenInv /\ NetInv

USE BoundsAssumption, NoneAssumption

-----------------------------------------------------------------------------
LEMMA BlankTyped == Blank \in Flows
BY DEF Blank, Flows, States

LEMMA RequestTyped ==
    ASSUME NEW o \in Posted \cup Awaited, NEW id \in Ids
    PROVE  Request(o, id) \in Messages /\ Request(o, id).id = id /\ Request(o, id).op = o
           /\ Request(o, id).answer = None
BY DEF Request, Messages

\* What an event makes of the flow.
LEMMA ReducedFlow ==
    ASSUME flow \in Flows, ScreenInv, visit \in 0 .. Visits,
           NEW event \in Events \ {"CANCEL"}, NEW id \in Ids \cup {None}
    PROVE  \/ event = "RESET" /\ Reduced(event, id) = Blank
           \/ Reduced(event, id) = flow
           \/ /\ Reduced(event, id) \in Flows
              /\ event # "RESET" /\ <<flow.state, event, Reduced(event, id).state>> \in Edges
              /\ Reduced(event, id).visitor \in {flow.visitor, visit}
              /\ Reduced(event, id).session = IF id # None THEN id ELSE flow.session
<1>1. CASE event = "RESET"
  BY <1>1 DEF Reduced
<1>2. CASE event # "RESET" /\ Targets(flow.state, event) = {}
  BY <1>2 DEF Reduced
<1>3. CASE event # "RESET" /\ Targets(flow.state, event) # {}
  <2> DEFINE t == CHOOSE s \in Targets(flow.state, event) : TRUE
             v == IF event = "SUBMIT_VISITOR_INFO" THEN visit ELSE flow.visitor
             s == IF id # None THEN id ELSE flow.session
  <2>1. t \in Targets(flow.state, event)
    BY <1>3
  <2>2. Reduced(event, id) = [state |-> t, visitor |-> v, session |-> s]
    BY <1>3 DEF Reduced
  <2> HIDE DEF t
  <2>3. t \in States /\ <<flow.state, event, t>> \in Edges
    BY <1>3, <2>1 DEF Targets
  <2>4. event = "SUBMIT_VISITOR_INFO" => flow.state # "idle"
    BY <2>3 DEF Edges
  <2>5. v \in Ids \cup {None} /\ v \in {flow.visitor, visit}
    BY <2>4 DEF ScreenInv, Ids, Flows
  <2>6. s \in Ids \cup {None}
    BY DEF Flows
  <2> HIDE DEF v
  <2>7. [state |-> t, visitor |-> v, session |-> s] \in Flows
    BY <2>3, <2>5, <2>6 DEF Flows
  <2> QED BY <1>3, <2>2, <2>3, <2>5, <2>7
<1> QED BY <1>1, <1>2, <1>3

\* A screen that is shown for the same visit.
LEMMA ShowKeeps ==
    ASSUME ScreenTyped, ScreenInv, visit' = visit, NEW f \in Flows, Show(f),
           f.state = "idle" => f = Blank,
           f.state # "idle" => visit # 0,
           f.visitor \in {visit, None}, f.session \in {visit, None},
           f.state \in PreCall => f.session = None,
           f.state = "calling" => \/ flow.state # "calling"
                                  \/ f.session \in {flow.session, visit},
           f.state = "connected" => f.session # None
    PROVE  ScreenTyped' /\ ScreenInv' /\ flow' = f
<1>1. flow' = f
  BY DEF Show
<1>2. ScreenTyped'
  BY <1>1 DEF Show, ScreenTyped
<1>3. pending' # None => f.state = "calling" /\ pending' = visit
  BY DEF Show, ScreenInv
<1>4. banner' \in {f.session, None}
  BY DEF Show, ScreenInv
<1>5. f.state = "calling" /\ medium' # None => f.session # None
  BY DEF Show, ScreenInv, ScreenTyped, Ids
<1> QED BY <1>1, <1>2, <1>3, <1>4, <1>5 DEF ScreenInv

\* An event of the same visit.
LEMMA DispatchKeeps ==
    ASSUME ScreenTyped, ScreenInv, visit \in 0 .. Visits, visit' = visit,
           NEW event \in Events \ {"CANCEL", "START"}, NEW id \in Ids \cup {None},
           id \in {visit, None}, event = "CALL_CONNECTED" => id # None,
           event \in {"CALL_CONNECTED", "CALL_TIMEOUT"} \/ flow.state \notin PreCall \/ id = None,
           Dispatch(event, id)
    PROVE  /\ ScreenTyped' /\ ScreenInv'
           /\ flow'.state \in PreCall => flow.state \in PreCall
           /\ flow'.state = "calling" => \/ flow' = flow
                                        \/ (event = "CONFIRM" /\ flow.state = "confirming")
<1> DEFINE f == Reduced(event, id)
<1>1. Show(f) /\ flow \in Flows
  BY DEF Dispatch, ScreenTyped
<1>2. \/ event = "RESET" /\ f = Blank
      \/ f = flow
      \/ /\ f \in Flows /\ event # "RESET" /\ <<flow.state, event, f.state>> \in Edges
         /\ f.visitor \in {flow.visitor, visit}
         /\ f.session = IF id # None THEN id ELSE flow.session
  BY <1>1, ReducedFlow
<1> HIDE DEF f
<1>3. CASE event = "RESET" /\ f = Blank
  <2>1. f \in Flows /\ f.state = "idle" /\ f.visitor = None /\ f.session = None
    BY <1>3, BlankTyped DEF Blank
  <2>2. ScreenTyped' /\ ScreenInv' /\ flow' = f
    BY <1>1, <1>3, <2>1, ShowKeeps DEF PreCall
  <2> QED BY <2>1, <2>2 DEF PreCall
<1>4. CASE f = flow
  <2>1. ScreenTyped' /\ ScreenInv' /\ flow' = f
    BY <1>1, <1>4, ShowKeeps DEF ScreenInv
  <2> QED BY <1>4, <2>1
<1>5. CASE /\ f \in Flows /\ event # "RESET" /\ <<flow.state, event, f.state>> \in Edges
           /\ f.visitor \in {flow.visitor, visit}
           /\ f.session = IF id # None THEN id ELSE flow.session
  <2>1. /\ flow.state # "idle" /\ f.state # "idle"
        /\ f.state \in PreCall => flow.state \in PreCall /\ event \notin {"CALL_CONNECTED", "CALL_TIMEOUT"}
        /\ f.state = "calling" => event = "CONFIRM" /\ flow.state = "confirming"
        /\ f.state = "connected" => event = "CALL_CONNECTED"
    BY <1>5 DEF Edges, PreCall
  <2>2. visit # 0 /\ f.visitor \in {visit, None} /\ f.session \in {visit, None}
    BY <1>5, <2>1 DEF ScreenInv
  <2>3. f.state \in PreCall => f.session = None
    BY <1>5, <2>1 DEF ScreenInv
  <2>4. f.state = "connected" => f.session # None
    BY <1>5, <2>1
  <2>5. ScreenTyped' /\ ScreenInv' /\ flow' = f
    BY <1>1, <1>5, <2>1, <2>2, <2>3, <2>4, ShowKeeps
  <2> QED BY <2>1, <2>5
<1> QED BY <1>2, <1>3, <1>4, <1>5

\* Requests that may follow: they are about the session on the screen, or
\* about what an earlier request was about.
Follow(X) ==
    /\ X \subseteq Messages /\ IsFiniteSet(X)
    /\ \A x \in X : \/ x.op # "call" /\ x.id = flow.session
                    \/ \E n \in net : n.id = x.id /\ (x.op = "call" => n.op = "call")

LEMMA FollowNone == Follow({})
BY FS_EmptySet DEF Follow

LEMMA FollowOne ==
    ASSUME NEW x \in Messages,
           \/ x.op # "call" /\ x.id = flow.session
           \/ \E n \in net : n.id = x.id /\ (x.op = "call" => n.op = "call")
    PROVE  Follow({x})
BY FS_Singleton DEF Follow

LEMMA NetKeeps ==
    ASSUME TypeOK, ScreenInv, NetInv, visit' = visit,
           NEW X, Follow(X), net' \subseteq net \cup X,
           flow'.state \in PreCall => flow.state \in PreCall,
           flow'.state = "calling" =>
             flow.state = "calling" /\ flow'.session \in {flow.session, visit}
    PROVE  NetInv' /\ net' \subseteq Messages
<1>1. net' \subseteq Messages
  BY DEF Follow, TypeOK
<1>2. \A m \in net' : m.id \in Ids /\ m.id # None
  BY <1>1 DEF Messages, Ids
<1>3. ASSUME NEW m \in net'
      PROVE  \/ m.op # "call" /\ m.id = flow.session
             \/ \E n \in net : n.id = m.id /\ (m.op = "call" => n.op = "call")
  BY DEF Follow
<1>4. \A m \in net' : m.id <= visit
  BY <1>2, <1>3 DEF ScreenInv, NetInv, Ids
<1>5. ASSUME flow'.state \in PreCall, NEW m \in net' PROVE m.id # visit
  BY <1>2, <1>3, <1>5 DEF NetInv, ScreenInv
<1>6. ASSUME flow'.state = "calling", NEW m \in net', m.op = "call", m.id = visit
      PROVE  flow'.session = visit
  BY <1>3, <1>6 DEF NetInv
<1>7. IsFiniteSet(net')
  <2>1. IsFiniteSet(net \cup X)
    BY FS_Union DEF NetInv, Follow
  <2> QED BY <2>1, FS_Subset
<1> QED BY <1>1, <1>4, <1>5, <1>6, <1>7 DEF NetInv

\* The server's part of the type.
ServerTyped == /\ server \in [Ids -> States \cup {"none"}]
               /\ phones \subseteq Ids /\ faults \in Nat

LEMMA InvParts == TypeOK <=> /\ ScreenTyped /\ ServerTyped
                             /\ visit \in 0 .. Visits /\ net \subseteq Messages
BY DEF TypeOK, ScreenTyped, ServerTyped, Flows

\* A step that leaves the flow alone.
LEMMA QuietKeeps ==
    ASSUME IInv, UNCHANGED <<flow, visit>>, ScreenTyped', ScreenInv', ServerTyped',
           NEW X, Follow(X), net' \subseteq net \cup X
    PROVE  IInv'
<1>1. NetInv' /\ net' \subseteq Messages
  BY NetKeeps DEF IInv
<1>2. visit' \in 0 .. Visits
  BY InvParts DEF IInv
<1>3. TypeOK' <=> /\ ScreenTyped' /\ ServerTyped'
                  /\ visit' \in 0 .. Visits /\ net' \subseteq Messages
  BY DEF TypeOK, ScreenTyped, ServerTyped, Flows
<1> QED BY <1>1, <1>2, <1>3 DEF IInv

LEMMA ScreenStays ==
    ASSUME IInv, UNCHANGED <<screen, visit>>, ServerTyped',
           NEW X, Follow(X), net' \subseteq net \cup X
    PROVE  IInv'
<1>1. ScreenTyped' /\ ScreenInv'
  BY InvParts DEF IInv, ScreenTyped, ScreenInv, screen
<1> QED BY <1>1, QuietKeeps DEF screen

\* A timeout waits for the notice.
LEMMA HoldKeeps ==
    ASSUME IInv, UNCHANGED <<visit, server, phones, faults>>,
           flow.state = "calling", NEW id \in Ids, id = visit, Hold(id),
           NEW X, Follow(X), net' \subseteq net \cup X
    PROVE  IInv'
<1>1. ScreenTyped' /\ ScreenInv'
  BY InvParts DEF IInv, ScreenTyped, ScreenInv, Hold
<1>2. ServerTyped'
  BY InvParts DEF IInv, ServerTyped
<1> QED BY <1>1, <1>2, QuietKeeps DEF Hold

\* An event of the same visit.
LEMMA EventKeeps ==
    ASSUME IInv, UNCHANGED <<visit, server, phones, faults>>,
           NEW event \in Events \ {"CANCEL", "START", "CONFIRM"}, NEW id \in Ids \cup {None},
           id \in {visit, None}, event = "CALL_CONNECTED" => id # None,
           event \in {"CALL_CONNECTED", "CALL_TIMEOUT"} \/ flow.state \notin PreCall \/ id = None,
           Dispatch(event, id),
           NEW X, Follow(X), net' \subseteq net \cup X
    PROVE  IInv'
<1>1. ScreenTyped /\ ServerTyped /\ visit \in 0 .. Visits /\ TypeOK /\ ScreenInv /\ NetInv
  BY InvParts DEF IInv
<1>2. /\ ScreenTyped' /\ ScreenInv'
      /\ flow'.state \in PreCall => flow.state \in PreCall
      /\ flow'.state = "calling" => flow' = flow
  BY <1>1, DispatchKeeps
<1>3. NetInv' /\ net' \subseteq Messages
  BY <1>1, <1>2, NetKeeps
<1>4. ServerTyped' /\ visit' \in 0 .. Visits
  BY <1>1 DEF ServerTyped
<1>5. TypeOK' <=> /\ ScreenTyped' /\ ServerTyped'
                  /\ visit' \in 0 .. Visits /\ net' \subseteq Messages
  BY DEF TypeOK, ScreenTyped, ServerTyped, Flows
<1> QED BY <1>2, <1>3, <1>4, <1>5 DEF IInv

-----------------------------------------------------------------------------
LEMMA InitInv == Init => IInv
<1> SUFFICES ASSUME Init PROVE IInv
  OBVIOUS
<1>1. ScreenTyped
  BY BlankTyped DEF Init, ScreenTyped
<1>2. ServerTyped /\ visit \in 0 .. Visits /\ net \subseteq Messages
  BY DEF Init, ServerTyped
<1>3. ScreenInv
  BY DEF Init, ScreenInv, Blank, PreCall
<1>4. NetInv
  BY FS_EmptySet DEF Init, NetInv
<1> QED BY <1>1, <1>2, <1>3, <1>4, InvParts DEF IInv

\* A visit begins with nothing of its own on the way.
LEMMA StartKeeps == IInv /\ Start => IInv'
<1> SUFFICES ASSUME IInv, Start PROVE IInv'
  OBVIOUS
<1> DEFINE f == Reduced("START", None)
<1>0. /\ ScreenTyped /\ ServerTyped /\ visit \in 0 .. Visits /\ net \subseteq Messages
      /\ ScreenInv /\ NetInv
  BY InvParts DEF IInv
<1>1. flow = Blank /\ visit' = visit + 1 /\ visit < Visits /\ UNCHANGED <<net, server, phones>>
  BY <1>0 DEF Start, ScreenInv
<1>2. Targets(flow.state, "START") = {"selectingPurpose"}
  BY <1>1 DEF Targets, Edges, Blank, States
<1>3. f = [state |-> "selectingPurpose", visitor |-> None, session |-> None]
  BY <1>1, <1>2 DEF Reduced, Blank
<1>4. Show(f)
  BY DEF Start, Dispatch
<1> HIDE DEF f
<1>5. f \in Flows /\ f.state = "selectingPurpose" /\ f.visitor = None /\ f.session = None
  BY <1>3 DEF Flows, States
<1>6. /\ flow' = f /\ pending' = None /\ medium' = medium /\ overdue' = FALSE
      /\ banner' = None /\ credential' = credential
  BY <1>0, <1>1, <1>4, <1>5 DEF Show, ScreenInv, Blank
<1>7. ScreenTyped' /\ ScreenInv'
  <2>1. ScreenTyped'
    BY <1>0, <1>5, <1>6 DEF ScreenTyped
  <2>2. visit' # 0
    BY <1>0, <1>1
  <2> QED BY <1>5, <1>6, <2>1, <2>2 DEF ScreenInv
<1>8. NetInv'
  <2>1. \A m \in net : m.id \in Nat /\ m.id <= visit
    BY <1>0 DEF Messages, Ids, NetInv
  <2> QED BY <1>0, <1>1, <1>5, <1>6, <2>1 DEF NetInv
<1>9. visit' \in 0 .. Visits
  BY <1>0, <1>1
<1>10. faults' \in Nat
  BY <1>0, FS_CardinalityType DEF Start, ServerTyped, NetInv
<1>11. ServerTyped'
  BY <1>0, <1>1, <1>10 DEF ServerTyped
<1> QED BY <1>0, <1>1, <1>7, <1>8, <1>9, <1>11
        DEF IInv, TypeOK, ScreenTyped, ServerTyped, Flows

\* The call of a visit begins.
LEMMA ConfirmKeeps == IInv /\ Confirm => IInv'
<1> SUFFICES ASSUME IInv, Confirm PROVE IInv'
  OBVIOUS
<1>0. /\ ScreenTyped /\ ServerTyped /\ visit \in 0 .. Visits /\ net \subseteq Messages
      /\ ScreenInv /\ NetInv
  BY InvParts DEF IInv
<1>1. /\ flow.state = "confirming" /\ Dispatch("CONFIRM", None)
      /\ net' = net \cup {Request("create", visit)} /\ UNCHANGED <<visit, server, phones, faults>>
  BY DEF Confirm
<1>2. visit \in Ids
  BY <1>0, <1>1 DEF ScreenInv, Ids
<1>3. /\ Request("create", visit) \in Messages
      /\ Request("create", visit).id = visit /\ Request("create", visit).op = "create"
  BY <1>2, RequestTyped DEF Awaited
<1>4. /\ ScreenTyped' /\ ScreenInv'
      /\ flow'.state \in PreCall => flow.state \in PreCall
  <2>1. None \in Ids \cup {None} /\ None \in {visit, None} /\ "CONFIRM" \in Events \ {"CANCEL", "START"}
    BY DEF Events
  <2> QED BY <1>0, <1>1, <2>1, DispatchKeeps
<1>5. flow'.state = "calling"
  <2>1. Targets("confirming", "CONFIRM") = {"calling"}
    BY DEF Targets, Edges, States
  <2> QED BY <1>1, <2>1 DEF Dispatch, Show, Reduced
<1>6. IsFiniteSet(net')
  BY <1>0, <1>1, FS_Union, FS_Singleton DEF NetInv
<1>7. NetInv'
  <2>1. \A m \in net : m.id <= visit /\ m.id # visit
    BY <1>0, <1>1 DEF NetInv, PreCall
  <2>2. \A m \in net' : m.id <= visit /\ (m.op = "call" => m.id # visit)
    BY <1>0, <1>1, <1>3, <2>1 DEF Ids
  <2> QED BY <1>1, <1>5, <1>6, <2>2 DEF NetInv, PreCall
<1>8. ServerTyped' /\ net' \subseteq Messages /\ visit' \in 0 .. Visits
  BY <1>0, <1>1, <1>3 DEF ServerTyped
<1> QED BY <1>4, <1>7, <1>8 DEF IInv, TypeOK, ScreenTyped, ServerTyped, Flows

\* The answer to the creation: the call of the visit has a session from then on.
LEMMA CreatedKeeps ==
    ASSUME IInv, NEW m \in net, m.op = "create", Created(m), UNCHANGED <<visit, server, phones, faults>>
    PROVE  IInv'
<1>0. /\ ScreenTyped /\ ServerTyped /\ visit \in 0 .. Visits /\ net \subseteq Messages
      /\ ScreenInv /\ NetInv /\ m.id \in Ids
  BY InvParts DEF IInv, Messages
<1>1. CASE m.answer # "ok"
  <2>1. net' \subseteq net \cup {}
    BY <1>1 DEF Created
  <2>2. CASE Live(m.id)
    <3>1. Dispatch("CALL_FAILED", None)
      BY <1>1, <2>2 DEF Created
    <3>2. None \in {visit, None} /\ "CALL_FAILED" \in Events \ {"CANCEL", "START", "CONFIRM"}
      BY DEF Events
    <3> QED BY <2>1, <3>1, <3>2, FollowNone, EventKeeps
  <2>3. CASE ~Live(m.id)
    <3>1. UNCHANGED screen /\ ServerTyped'
      BY <1>0, <2>3 DEF Created, ServerTyped
    <3> QED BY <2>1, <3>1, FollowNone, ScreenStays
  <2> QED BY <2>2, <2>3
<1>2. CASE m.answer = "ok"
  <2> DEFINE r == Request("call", m.id)
  <2>1. net' = (net \ {m}) \cup {r}
    BY <1>2 DEF Created
  <2>2. r \in Messages /\ r.id = m.id /\ r.op = "call"
    BY <1>0, RequestTyped DEF Awaited
  <2> HIDE DEF r
  <2>3. IsFiniteSet(net')
    <3>1. IsFiniteSet(net \ {m})
      BY <1>0, FS_Subset DEF NetInv
    <3> QED BY <2>1, <3>1, FS_Union, FS_Singleton
  <2>4. \A n \in net' : n.id <= visit
    BY <1>0, <2>1, <2>2 DEF NetInv
  <2>5. ServerTyped' /\ net' \subseteq Messages /\ visit' \in 0 .. Visits
    BY <1>0, <2>1, <2>2 DEF ServerTyped
  <2>6. CASE Live(m.id)
    <3> DEFINE f == [flow EXCEPT !.session = m.id]
    <3>1. Show(f) /\ flow.state = "calling" /\ m.id = visit
      BY <1>2, <2>6 DEF Created, Live
    <3>2. /\ f \in Flows /\ f.state = "calling" /\ f.session = visit /\ f.visitor = flow.visitor
      BY <1>0, <3>1 DEF ScreenTyped, Flows
    <3> HIDE DEF f
    <3>3. ScreenTyped' /\ ScreenInv' /\ flow' = f
      <4>1. visit # 0 /\ f.visitor \in {visit, None}
        BY <1>0, <3>1, <3>2 DEF ScreenInv
      <4> QED BY <1>0, <3>1, <3>2, <4>1, ShowKeeps DEF PreCall
    <3>4. NetInv'
      BY <2>3, <2>4, <3>2, <3>3 DEF NetInv, PreCall
    <3> QED BY <2>5, <3>3, <3>4 DEF IInv, TypeOK, ScreenTyped, ServerTyped, Flows
  <2>7. CASE ~Live(m.id)
    <3>1. UNCHANGED screen
      BY <2>7 DEF Created
    <3>2. ScreenTyped' /\ ScreenInv'
      BY <1>0, <3>1 DEF ScreenTyped, ScreenInv, screen
    <3>3. NetInv'
      BY <1>0, <2>1, <2>2, <2>3, <2>4, <2>7, <3>1 DEF NetInv, screen, Live
    <3> QED BY <2>5, <3>2, <3>3 DEF IInv, TypeOK, ScreenTyped, ServerTyped, Flows
  <2> QED BY <2>6, <2>7
<1> QED BY <1>1, <1>2

LEMMA CalledKeeps ==
    ASSUME IInv, NEW m \in net, Called(m), UNCHANGED <<visit, server, phones, faults>>, m.op = "call"
    PROVE  IInv'
<1>0. ScreenTyped /\ ServerTyped /\ ScreenInv /\ NetInv /\ m.id \in Ids
  BY InvParts DEF IInv, TypeOK, Messages
<1>1. net' \subseteq net \cup {}
  BY DEF Called
<1>2. CASE ~Live(m.id)
  <2>1. UNCHANGED screen /\ ServerTyped'
    BY <1>0, <1>2 DEF Called, ServerTyped
  <2> QED BY <1>1, <2>1, FollowNone, ScreenStays
<1>3. CASE Live(m.id)
  <2>1. /\ flow.state = "calling" /\ m.id = visit /\ flow.session = visit
    BY <1>0, <1>3 DEF Live, NetInv
  <2>2. \/ \E event \in {"CALL_CONNECTED", "CALL_FAILED"} : Dispatch(event, m.id)
        \/ Hold(m.id)
        \/ /\ medium' \in {"video", "pstn"}
           /\ UNCHANGED <<flow, overdue, pending, banner, credential>>
    BY <1>3 DEF Called
  <2>3. ASSUME NEW event \in {"CALL_CONNECTED", "CALL_FAILED"}, Dispatch(event, m.id) PROVE IInv'
    <3>1. event \in Events \ {"CANCEL", "START", "CONFIRM"} /\ m.id # None /\ flow.state \notin PreCall
      BY <1>0, <2>1 DEF Events, PreCall, Ids
    <3>2. m.id \in {visit, None} /\ m.id \in Ids \cup {None}
      BY <1>0, <2>1
    <3> QED BY <1>1, <2>3, <3>1, <3>2, FollowNone, EventKeeps
  <2>4. CASE Hold(m.id)
    BY <1>0, <1>1, <2>1, <2>4, FollowNone, HoldKeeps
  <2>5. CASE /\ medium' \in {"video", "pstn"}
             /\ UNCHANGED <<flow, overdue, pending, banner, credential>>
    <3>1. ScreenTyped' /\ ScreenInv' /\ ServerTyped'
      BY <1>0, <2>1, <2>5 DEF ScreenTyped, ScreenInv, ServerTyped, Ids
    <3> QED BY <1>1, <2>5, <3>1, FollowNone, QuietKeeps
  <2> QED BY <2>2, <2>3, <2>4, <2>5
<1> QED BY <1>2, <1>3

LEMMA PollsKeeps ==
    ASSUME IInv, NEW m \in net, Polls(m), UNCHANGED <<visit, server, phones, faults>>
    PROVE  IInv'
<1>0. ScreenTyped /\ ServerTyped /\ ScreenInv /\ NetInv /\ m.id \in Ids /\ m.id # None
  BY InvParts DEF IInv, TypeOK, Messages, Ids
<1>1. ServerTyped'
  BY <1>0 DEF ServerTyped
<1>2. CASE ~Polled(m.id)
  BY <1>1, <1>2, FollowNone, ScreenStays DEF Polls
<1>3. CASE Polled(m.id)
  <2>1. /\ flow.session = m.id /\ m.id = visit /\ flow.state \in {"calling", "connected"}
        /\ flow.state \notin PreCall
    BY <1>0, <1>3 DEF Polled, ScreenInv, PreCall
  <2>2. ASSUME banner' \in {banner, m.id}, net' \subseteq net,
               UNCHANGED <<flow, medium, overdue, pending, credential>>
        PROVE  IInv'
    <3>1. ScreenTyped' /\ ScreenInv'
      BY <1>0, <2>1, <2>2 DEF ScreenTyped, ScreenInv
    <3> QED BY <1>1, <2>2, <3>1, FollowNone, QuietKeeps
  <2>3. ASSUME NEW event \in {"CALL_CONNECTED", "CALL_FAILED"}, Dispatch(event, m.id),
               NEW X, Follow(X), net' \subseteq net \cup X
        PROVE  IInv'
    <3>1. event \in Events \ {"CANCEL", "START", "CONFIRM"}
      BY DEF Events
    <3>2. m.id \in {visit, None} /\ m.id \in Ids \cup {None}
      BY <1>0, <2>1
    <3> QED BY <1>0, <2>1, <2>3, <3>1, <3>2, EventKeeps
  <2>4. CASE medium # "pstn" \/ flow.state # "calling"
    BY <1>3, <2>2, <2>4 DEF Polls
  <2>5. CASE ~(medium # "pstn" \/ flow.state # "calling") /\ GivesUp(m.answer)
    <3> DEFINE r == Request("giveUp", m.id)
    <3>1. r \in Messages /\ r.id = m.id /\ r.op = "giveUp"
      BY <1>0, RequestTyped DEF Posted
    <3>2. net' = (net \ {m}) \cup {r} /\ Dispatch("CALL_FAILED", m.id)
      BY <1>3, <2>5 DEF Polls
    <3> HIDE DEF r
    <3>3. Follow({r})
      BY <2>1, <3>1, FollowOne
    <3> QED BY <2>3, <3>2, <3>3
  <2>6. CASE ~(medium # "pstn" \/ flow.state # "calling") /\ ~GivesUp(m.answer)
    <3>1. /\ net' = net \ {m}
          /\ \/ \E event \in {"CALL_CONNECTED", "CALL_FAILED"} : Dispatch(event, m.id)
             \/ Hold(m.id)
             \/ banner' = m.id /\ UNCHANGED <<flow, medium, overdue, pending, credential>>
             \/ UNCHANGED screen
      BY <1>3, <2>6 DEF Polls
    <3>2. net' \subseteq net \cup {}
      BY <3>1
    <3>3. CASE Hold(m.id)
      BY <1>0, <2>1, <2>6, <3>2, <3>3, FollowNone, HoldKeeps
    <3>4. CASE UNCHANGED screen
      BY <1>1, <3>2, <3>4, FollowNone, ScreenStays
    <3> QED BY <2>2, <2>3, <3>1, <3>2, <3>3, <3>4, FollowNone
  <2> QED BY <2>4, <2>5, <2>6
<1> QED BY <1>2, <1>3

LEMMA AnsweredKeeps == ASSUME IInv, NEW op \in Awaited, Answered(op) PROVE IInv'
<1>1. PICK m \in net :
        /\ m.op = op /\ m.answer # None
        /\ \/ op = "create" /\ Created(m)
           \/ op = "call" /\ Called(m)
           \/ op = "status" /\ Polls(m)
           \/ op = "complete" /\ Completed(m)
           \/ op = "fallback" /\ net' = net \ {m} /\ Dispatch("USE_FALLBACK", None)
           \/ op = "stay" /\ UNCHANGED screen
                /\ net' = (net \ {m}) \cup
                          (IF m.answer = "ok" THEN {Request("issue", m.id)} ELSE {})
           \/ op = "issue" /\ Issued(m)
        /\ UNCHANGED <<visit, server, phones, faults>>
  BY DEF Answered
<1>0. m.id \in Ids /\ ScreenTyped /\ ScreenInv /\ ServerTyped'
  BY <1>1, InvParts DEF IInv, TypeOK, Messages, ServerTyped
<1>2. CASE op = "create" /\ Created(m)
  BY <1>1, <1>2, CreatedKeeps
<1>3. CASE op = "call" /\ Called(m)
  BY <1>1, <1>3, CalledKeeps
<1>4. CASE op = "status" /\ Polls(m)
  BY <1>1, <1>4, PollsKeeps
<1>5. CASE op = "complete" /\ Completed(m)
  <2> DEFINE r == Request("stay", m.id)
  <2>1. r \in Messages /\ r.id = m.id /\ r.op = "stay"
    BY <1>0, RequestTyped DEF Awaited
  <2>2. net' = (net \ {m}) \cup {r} /\ Dispatch("COMPLETE", None)
    BY <1>5 DEF Completed
  <2> HIDE DEF r
  <2>3. Follow({r})
    BY <2>1, FollowOne
  <2>4. None \in {visit, None} /\ "COMPLETE" \in Events \ {"CANCEL", "START", "CONFIRM"}
    BY DEF Events
  <2> QED BY <1>1, <2>2, <2>3, <2>4, EventKeeps
<1>6. CASE op = "fallback" /\ net' = net \ {m} /\ Dispatch("USE_FALLBACK", None)
  <2>1. None \in {visit, None} /\ "USE_FALLBACK" \in Events \ {"CANCEL", "START", "CONFIRM"}
    BY DEF Events
  <2>2. net' \subseteq net \cup {}
    BY <1>6
  <2> QED BY <1>1, <1>6, <2>1, <2>2, FollowNone, EventKeeps
<1>7. CASE op = "stay" /\ UNCHANGED screen
           /\ net' = (net \ {m}) \cup (IF m.answer = "ok" THEN {Request("issue", m.id)} ELSE {})
  <2> DEFINE r == Request("issue", m.id)
  <2>1. r \in Messages /\ r.id = m.id /\ r.op = "issue"
    BY <1>0, RequestTyped DEF Awaited
  <2>2. net' \subseteq net \cup {r}
    BY <1>7
  <2> HIDE DEF r
  <2>3. Follow({r})
    BY <2>1, FollowOne
  <2> QED BY <1>0, <1>1, <1>7, <2>2, <2>3, ScreenStays
<1>8. CASE op = "issue" /\ Issued(m)
  <2>1. net' \subseteq net \cup {} /\ credential' \in {credential, m.id}
        /\ UNCHANGED <<flow, medium, overdue, pending, banner>>
    BY <1>8 DEF Issued, screen
  <2>2. ScreenTyped' /\ ScreenInv'
    BY <1>0, <1>1, <2>1 DEF ScreenTyped, ScreenInv
  <2> QED BY <1>0, <1>1, <2>1, <2>2, FollowNone, QuietKeeps
<1> QED BY <1>1, <1>2, <1>3, <1>4, <1>5, <1>6, <1>7, <1>8

\* The visitor and the timers.
LEMMA ResetKeeps ==
    ASSUME IInv, Dispatch("RESET", None), UNCHANGED <<visit, server, phones, faults>>,
           NEW X, Follow(X), net' \subseteq net \cup X
    PROVE  IInv'
<1>1. None \in {visit, None} /\ "RESET" \in Events \ {"CANCEL", "START", "CONFIRM"}
  BY DEF Events
<1> QED BY <1>1, EventKeeps

LEMMA RequestFollows ==
    ASSUME IInv, NEW o \in (Posted \cup Awaited) \ {"call"}, flow.session # None
    PROVE  Follow({Request(o, flow.session)}) /\ flow.session \in Ids
<1>1. flow.session \in Ids
  BY DEF IInv, TypeOK
<1>2. /\ Request(o, flow.session) \in Messages /\ Request(o, flow.session).id = flow.session
      /\ Request(o, flow.session).op # "call"
  BY <1>1, RequestTyped
<1> QED BY <1>1, <1>2, FollowOne

LEMMA VisitorKeeps ==
    ASSUME IInv, Press \/ Leave \/ Complete \/ AskFallback \/ TakeFallback
    PROVE  IInv'
<1>0. ScreenTyped /\ ServerTyped /\ ScreenInv
  BY InvParts DEF IInv
<1>1. CASE Press
  <2>1. PICK event \in {"SELECT_PURPOSE", "SELECT_TARGET", "SUBMIT_VISITOR_INFO", "BACK"} :
          Dispatch(event, None)
    BY <1>1 DEF Press
  <2>2. event \in Events \ {"CANCEL", "START", "CONFIRM"} /\ None \in {visit, None}
        /\ event # "CALL_CONNECTED"
    BY DEF Events
  <2>3. net' \subseteq net \cup {} /\ UNCHANGED <<visit, server, phones, faults>>
    BY <1>1 DEF Press
  <2> QED BY <2>1, <2>2, <2>3, FollowNone, EventKeeps
<1>2. CASE Leave
  <2>1. CASE flow.state = "calling" /\ flow.session # None
    <3>1. Follow({Request("cancel", flow.session)})
      BY <2>1, RequestFollows DEF Posted
    <3> QED BY <1>2, <2>1, <3>1, ResetKeeps DEF Leave
  <2>2. CASE ~(flow.state = "calling" /\ flow.session # None)
    <3>1. net' \subseteq net \cup {}
      BY <1>2, <2>2 DEF Leave
    <3> QED BY <1>2, <3>1, FollowNone, ResetKeeps DEF Leave
  <2> QED BY <2>1, <2>2
<1>3. CASE Complete
  <2>1. Follow({Request("complete", flow.session)})
    BY <1>0, <1>3, RequestFollows DEF Awaited, Complete, ScreenInv
  <2>2. ServerTyped'
    BY <1>0, <1>3 DEF Complete, ServerTyped
  <2> QED BY <1>3, <2>1, <2>2, ScreenStays DEF Complete
<1>4. CASE AskFallback
  <2>1. CASE flow.session = None
    <3>1. None \in {visit, None} /\ "USE_FALLBACK" \in Events \ {"CANCEL", "START", "CONFIRM"}
      BY DEF Events
    <3>2. net' \subseteq net \cup {} /\ Dispatch("USE_FALLBACK", None)
          /\ UNCHANGED <<visit, server, phones, faults>>
      BY <1>4, <2>1 DEF AskFallback
    <3> QED BY <3>1, <3>2, FollowNone, EventKeeps
  <2>2. CASE flow.session # None
    <3>1. Follow({Request("fallback", flow.session)})
      BY <2>2, RequestFollows DEF Awaited
    <3>2. ServerTyped'
      BY <1>0, <1>4 DEF AskFallback, ServerTyped
    <3> QED BY <1>4, <2>2, <3>1, <3>2, ScreenStays DEF AskFallback
  <2> QED BY <2>1, <2>2
<1>5. CASE TakeFallback
  <2>1. /\ "CALL_FAILED" \in Events \ {"CANCEL", "START", "CONFIRM"}
        /\ flow.session \in {visit, None} /\ flow.session \in Ids \cup {None}
        /\ flow.state \notin PreCall
    BY <1>0, <1>5 DEF Events, ScreenInv, ScreenTyped, Flows, TakeFallback, PreCall
  <2>2. net' \subseteq net \cup {} /\ Dispatch("CALL_FAILED", flow.session)
        /\ UNCHANGED <<visit, server, phones, faults>>
    BY <1>5 DEF TakeFallback
  <2> QED BY <2>1, <2>2, FollowNone, EventKeeps
<1> QED BY <1>1, <1>2, <1>3, <1>4, <1>5

LEMMA TimersKeep ==
    ASSUME IInv,
           InactivityReset \/ AutoReset \/ Revoked \/ NoticeHeld \/ PollBudgetEnds \/ Poll
    PROVE  IInv'
<1>0. ScreenTyped /\ ServerTyped /\ ScreenInv
  BY InvParts DEF IInv
<1>1. CASE InactivityReset \/ AutoReset \/ Revoked
  <2>1. Dispatch("RESET", None) /\ UNCHANGED <<visit, server, phones, faults>> /\ net' \subseteq net \cup {}
    BY <1>1 DEF InactivityReset, AutoReset, Revoked
  <2> QED BY <2>1, FollowNone, ResetKeeps
<1>2. CASE NoticeHeld
  <2>1. /\ "CALL_TIMEOUT" \in Events \ {"CANCEL", "START", "CONFIRM"}
        /\ pending \in {visit, None} /\ pending \in Ids \cup {None}
    BY <1>0 DEF Events, ScreenInv, ScreenTyped
  <2>2. net' \subseteq net \cup {} /\ Dispatch("CALL_TIMEOUT", pending)
        /\ UNCHANGED <<visit, server, phones, faults>>
    BY <1>2 DEF NoticeHeld
  <2> QED BY <2>1, <2>2, FollowNone, EventKeeps
<1>3. CASE PollBudgetEnds
  <2>1. ScreenTyped' /\ ScreenInv' /\ ServerTyped'
    BY <1>0, <1>3 DEF PollBudgetEnds, ScreenTyped, ScreenInv, ServerTyped
  <2>2. UNCHANGED <<flow, visit>> /\ net' \subseteq net \cup {}
    BY <1>3 DEF PollBudgetEnds
  <2> QED BY <2>1, <2>2, FollowNone, QuietKeeps
<1>4. CASE Poll
  <2>1. Follow({Request("status", flow.session)})
    BY <1>4, RequestFollows DEF Awaited, Poll
  <2>2. ServerTyped'
    BY <1>0, <1>4 DEF Poll, ServerTyped
  <2> QED BY <1>4, <2>1, <2>2, ScreenStays DEF Poll
<1> QED BY <1>1, <1>2, <1>3, <1>4

LEMMA VideoKeeps ==
    ASSUME IInv, VideoAnswered \/ VideoUnanswered \/ VideoFails
    PROVE  IInv'
<1>0. ScreenTyped /\ ServerTyped /\ ScreenInv
  BY InvParts DEF IInv
<1>1. flow.state = "calling" /\ medium = "video" /\ flow.state \notin PreCall
  BY DEF VideoAnswered, VideoUnanswered, VideoFails, InVideo, PreCall
<1>2. flow.session # None /\ flow.session = visit
  BY <1>0, <1>1 DEF ScreenInv, Answers
<1>3. flow.session \in Ids /\ flow.session \in {visit, None}
  BY <1>0, <1>2 DEF ScreenTyped, Flows
<1>4. ASSUME NEW event \in {"CALL_CONNECTED", "CALL_FAILED"}, Dispatch(event, flow.session),
             NEW X, Follow(X), net' \subseteq net \cup X, UNCHANGED <<visit, server, phones, faults>>
      PROVE  IInv'
  <2>1. event \in Events \ {"CANCEL", "START", "CONFIRM"}
    BY DEF Events
  <2> QED BY <1>1, <1>2, <1>3, <1>4, <2>1, EventKeeps
<1>5. CASE VideoAnswered
  <2>1. Follow({Request("connected", flow.session)})
    BY <1>2, RequestFollows DEF Posted
  <2> QED BY <1>4, <1>5, <2>1 DEF VideoAnswered
<1>6. CASE VideoUnanswered
  <2>1. Follow({Request("timeout", flow.session)})
    BY <1>2, RequestFollows DEF Posted
  <2> QED BY <1>1, <1>2, <1>3, <1>6, <2>1, HoldKeeps DEF VideoUnanswered
<1>7. CASE VideoFails
  <2>1. net' \subseteq net \cup {}
    BY <1>7 DEF VideoFails
  <2> QED BY <1>4, <1>7, <2>1, FollowNone DEF VideoFails
<1> QED BY <1>5, <1>6, <1>7

-----------------------------------------------------------------------------
\* The server.
LEMMA HandledTyped ==
    ASSUME NEW o \in Posted \cup Awaited, NEW s \in States \cup {"none"}, NEW r \in Handled(o, s)
    PROVE  r[1] \in States \cup {"none"} /\ r[2] \in Answers
<1>1. CASE o = "create"
  BY <1>1 DEF Handled, States, Answers
<1>2. CASE o = "call"
  BY <1>2 DEF Handled, States, Answers
<1>3. CASE o = "status"
  BY <1>3 DEF Handled, Answers
<1>4. CASE o = "stay"
  BY <1>4 DEF Handled, Answers
<1>5. CASE o = "issue"
  BY <1>5 DEF Handled, Answers
<1>6. CASE o \notin {"create", "call", "status", "stay", "issue"}
  <2>1. r \in (IF Targets(s, EventOf[o]) = {} THEN {<<s, "ok">>}
               ELSE {<<t, "ok">> : t \in Targets(s, EventOf[o])})
    BY <1>6 DEF Handled
  <2>2. Targets(s, EventOf[o]) \subseteq States
    BY DEF Targets, States
  <2> QED BY <2>1, <2>2 DEF Answers
<1> QED BY <1>1, <1>2, <1>3, <1>4, <1>5, <1>6

\* What comes back is about what was asked.
LEMMA RepliesFollow ==
    ASSUME IInv, NEW m \in net, NEW a \in Answers, Replies(m, a)
    PROVE  \E X : Follow(X) /\ net' \subseteq net \cup X
<1>1. CASE m.op \in Posted
  BY <1>1, FollowNone DEF Replies
<1>2. CASE m.op \notin Posted
  <2> DEFINE x == [m EXCEPT !.answer = a]
  <2>1. m \in Messages
    BY DEF IInv, TypeOK
  <2>2. x \in Messages /\ x.id = m.id /\ x.op = m.op
    BY <2>1 DEF Messages
  <2>3. net' = (net \ {m}) \cup {x}
    BY <1>2 DEF Replies
  <2> HIDE DEF x
  <2>4. Follow({x})
    BY <2>2, FollowOne
  <2> QED BY <2>3, <2>4
<1> QED BY <1>1, <1>2

LEMMA ServeKeeps == ASSUME IInv, NEW o, Serve(o) PROVE IInv'
<1>0. ServerTyped /\ net \subseteq Messages
  BY InvParts DEF IInv
<1>1. PICK m \in net : m.op = o /\ m.answer = None
                       /\ (Serves(m) \/ (Loses(m) /\ UNCHANGED <<server, phones>>))
  BY DEF Serve
<1>2. m.id \in Ids /\ m.op \in Posted \cup Awaited
  BY <1>0 DEF Messages
<1>3. UNCHANGED <<screen, visit>>
  BY DEF Serve
<1>4. Loses(m) => faults' \in Nat /\ Replies(m, "no")
  BY <1>0 DEF Loses, ServerTyped
<1>5. CASE Serves(m)
  <2>1. PICK r \in Handled(m.op, server[m.id]) :
          /\ server' = [server EXCEPT ![m.id] = r[1]]
          /\ phones' = IF r[1] # "calling" THEN phones \ {m.id}
                       ELSE IF m.op = "call" /\ r[2] = "calling" THEN phones \cup {m.id} ELSE phones
          /\ ((Replies(m, r[2]) /\ UNCHANGED faults) \/ Loses(m))
    BY <1>5 DEF Serves
  <2>2. r[1] \in States \cup {"none"} /\ r[2] \in Answers
    BY <1>0, <1>2, HandledTyped DEF ServerTyped
  <2>3. server' \in [Ids -> States \cup {"none"}] /\ phones' \subseteq Ids
    BY <1>0, <1>2, <2>1, <2>2 DEF ServerTyped
  <2>4. ServerTyped'
    BY <1>0, <1>4, <2>1, <2>3 DEF ServerTyped
  <2>5. \E a \in Answers : Replies(m, a)
    BY <1>4, <2>1, <2>2 DEF Answers
  <2> QED BY <1>3, <2>4, <2>5, RepliesFollow, ScreenStays
<1>6. CASE Loses(m) /\ UNCHANGED <<server, phones>>
  <2>1. ServerTyped'
    BY <1>0, <1>4, <1>6 DEF ServerTyped
  <2>2. "no" \in Answers /\ Replies(m, "no")
    BY <1>4, <1>6 DEF Answers
  <2> QED BY <1>3, <2>1, <2>2, RepliesFollow, ScreenStays
<1> QED BY <1>1, <1>5, <1>6

LEMMA SettleKeeps == IInv /\ Settle => IInv'
<1> SUFFICES ASSUME IInv, Settle PROVE IInv'
  OBVIOUS
<1>0. ServerTyped
  BY InvParts DEF IInv
<1>1. PICK id \in phones, t \in {"connected", "timeout", "failed"} :
        server' = [server EXCEPT ![id] = t] /\ phones' = phones \ {id}
  BY DEF Settle
<1>2. ServerTyped'
  BY <1>0, <1>1 DEF Settle, ServerTyped, States
<1>3. net' \subseteq net \cup {} /\ UNCHANGED <<screen, visit>>
  BY DEF Settle
<1> QED BY <1>2, <1>3, FollowNone, ScreenStays

LEMMA NextInv == IInv /\ [Next]_vars => IInv'
<1> SUFFICES ASSUME IInv, [Next]_vars PROVE IInv'
  OBVIOUS
<1>1. CASE UNCHANGED vars
  BY <1>1 DEF vars, IInv, TypeOK, ScreenInv, NetInv
<1> QED BY <1>1, StartKeeps, ConfirmKeeps, VisitorKeeps, TimersKeep, VideoKeeps, AnsweredKeeps,
           ServeKeeps, SettleKeeps DEF Next

LEMMA SpecInv == Spec => []IInv
<1> QED BY InitInv, NextInv, PTL DEF Spec

-----------------------------------------------------------------------------
\* The screen, the messages and the server's records keep their types.
THEOREM TypeCorrect == Spec => []TypeOK
<1>1. IInv => TypeOK
  BY DEF IInv
<1> QED BY <1>1, SpecInv, PTL

\* However late the answers to an earlier visitor come, nothing of him is on
\* the screen of the next (the guards `cancelled` and `active` of the effects).
THEOREM NothingCrossesVisits == Spec => []OwnVisitor
<1>1. IInv => OwnVisitor
  BY DEF IInv, ScreenInv, OwnVisitor
<1> QED BY <1>1, SpecInv, PTL

\* The waiting screen is blank (reducer RESET, the effects on leaving a call).
THEOREM WaitingIsBlank == Spec => []IdleIsBlank
<1>1. IInv => IdleIsBlank
  BY DEF IInv, ScreenInv, IdleIsBlank, Blank
<1> QED BY <1>1, SpecInv, PTL
-----------------------------------------------------------------------------
(* The screen and the server.  An answer on its way tells what the server   *)
(* has settled, and what is settled is only carried on.                      *)

\* The requests that create a reception or place its call.
Placing == {m \in net : m.op \in {"create", "call"}}

Settled == {"connected", "completed"}
Unanswered == {"timeout", "fallback"}

\* What the server knows of a reception, and what is on its way of it.
ServerInv ==
    /\ \A id \in phones : server[id] = "calling"
    /\ \A id \in Ids : id > visit \/ (id = visit /\ flow.state \in PreCall) => server[id] = "none"
    /\ \A m \in net : m.op = "create" /\ m.answer = None => server[m.id] = "none"
    /\ \A m \in net : m.op \in {"call", "status"} =>
          /\ m.answer = "connected" => server[m.id] \in Settled
          /\ m.answer = "timeout" => server[m.id] \in Unanswered \cup {"completed"}
    /\ flow.state \in {"calling", "timeout"} => server[visit] # "completed"

\* A reception is created and called once; it is completed from the screen of
\* its answered call.
PlacingInv ==
    /\ \A m, n \in Placing : m.id = n.id => m = n
    /\ flow.state = "calling" /\ (medium # None \/ pending # None)
         => \A m \in Placing : m.id # visit
    /\ \A m \in net : m.op = "complete" /\ m.id = visit
                        => flow.state \in {"idle", "connected", "completed"}

\* A timeout that waits for the notice is one the server has settled, and the
\* screen of a timeout has a session.
HeldTruth ==
    /\ medium # "video" /\ pending # None => server[pending] \in Unanswered
    /\ flow.state = "timeout" => flow.session # None

Truth == ServerInv /\ PlacingInv /\ HeldTruth /\ ScreenTellsTruth

\* The requests that a step of the terminal sends place and complete nothing.
Plain == \A n \in net' : \/ n \in net
                         \/ n.answer = None /\ n.op \notin {"create", "call", "complete"}

\* A step of the terminal that places nothing and completes nothing.
LEMMA TruthKept ==
    ASSUME IInv, IInv', Truth, UNCHANGED <<visit, server, phones>>,
           Plain,
           flow'.state \in PreCall => flow.state \in PreCall,
           flow'.state = "calling" /\ (medium' # None \/ pending' # None) =>
             \/ flow.state = "calling" /\ (medium # None \/ pending # None)
             \/ \A m \in Placing : m \in net' => m.id # visit,
           flow.state \in {"idle", "connected", "completed"} =>
             flow'.state \in {"idle", "connected", "completed"},
           flow'.state \in {"calling", "timeout"} => flow.state \in {"calling", "timeout"},
           HeldTruth', ScreenTellsTruth'
    PROVE  Truth'
<1>1. \A m \in net' : m.op \in {"create", "call", "complete"} \/ m.answer # None => m \in net
  BY DEF Plain
<1>2. "connected" # None /\ "timeout" # None
  BY DEF Answers, States
<1>3. ServerInv'
  BY <1>1, <1>2 DEF Truth, ServerInv
<1>4. Placing' \subseteq Placing /\ \A m \in Placing' : m \in net'
  BY <1>1 DEF Placing
<1>5. PlacingInv'
  BY <1>1, <1>4 DEF Truth, PlacingInv
<1> QED BY <1>3, <1>5 DEF Truth

\* An event of the same visit: what it settles on the screen is settled.
LEMMA EventTruth ==
    ASSUME IInv, IInv', Truth, UNCHANGED <<visit, server, phones>>,
           NEW event \in Events \ {"CANCEL", "START", "CONFIRM"}, NEW id \in Ids \cup {None},
           Dispatch(event, id),
           event = "CALL_CONNECTED" /\ flow.state = "calling" /\ medium # "video" =>
             id # None /\ server[id] \in Settled,
           event = "CALL_TIMEOUT" => id # None,
           event = "CALL_TIMEOUT" /\ flow.state = "calling" /\ medium # "video" =>
             server[id] \in Unanswered,
           Plain
    PROVE  Truth'
<1> DEFINE f == Reduced(event, id)
<1>0. /\ ScreenTyped /\ ScreenInv /\ visit \in 0 .. Visits /\ flow \in Flows
      /\ flow.state = "idle" => flow = Blank
  BY InvParts DEF IInv, ScreenTyped, ScreenInv
<1>1. /\ flow' = f /\ Show(f)
      /\ pending' = IF f.state = "calling" THEN pending ELSE None
      /\ medium' = IF f.state = "calling" /\ flow.state # "calling" THEN None ELSE medium
  BY DEF Dispatch, Show
<1>2. \/ event = "RESET" /\ f = Blank
      \/ f = flow
      \/ /\ f \in Flows /\ event # "RESET" /\ <<flow.state, event, f.state>> \in Edges
         /\ f.visitor \in {flow.visitor, visit}
         /\ f.session = IF id # None THEN id ELSE flow.session
  BY <1>0, ReducedFlow
<1> HIDE DEF f
<1>3. \/ f.state = "idle"
      \/ f = flow
      \/ /\ flow.state \in PreCall /\ f.state \in PreCall
      \/ /\ flow.state = "calling" /\ f.state = "connected" /\ event = "CALL_CONNECTED"
         /\ f.session = IF id # None THEN id ELSE flow.session
      \/ /\ flow.state = "calling" /\ f.state = "timeout" /\ event = "CALL_TIMEOUT"
         /\ f.session = IF id # None THEN id ELSE flow.session
      \/ flow.state \notin {"idle", "connected", "completed"} /\ f.state \in {"failed", "fallback"}
      \/ f.state = "completed"
  <2>1. CASE event = "RESET" /\ f = Blank
    BY <2>1 DEF Blank
  <2>2. CASE /\ f \in Flows /\ event # "RESET" /\ <<flow.state, event, f.state>> \in Edges
             /\ f.session = IF id # None THEN id ELSE flow.session
    BY <2>2 DEF Edges, PreCall
  <2> QED BY <1>2, <2>1, <2>2
<1>4. /\ flow'.state \in PreCall => flow.state \in PreCall
      /\ flow'.state = "calling" => flow' = flow /\ medium' = medium /\ pending' = pending
      /\ flow.state \in {"idle", "connected", "completed"} =>
             flow'.state \in {"idle", "connected", "completed"}
      /\ flow'.state \in {"calling", "timeout"} => flow.state \in {"calling", "timeout"}
      /\ medium' = medium
      /\ pending' \in {pending, None}
  BY <1>1, <1>3 DEF PreCall
<1>5. HeldTruth'
  <2>1. f.state = "timeout" => f = flow \/ f.session # None
    BY <1>3 DEF PreCall
  <2> QED BY <1>1, <1>4, <2>1 DEF Truth, HeldTruth
<1>6. ScreenTellsTruth'
  <2>1. CASE f = flow
    BY <1>1, <1>4, <2>1 DEF Truth, ScreenTellsTruth
  <2>2. CASE f # flow /\ f.state = "connected"
    <3>1. flow.state = "calling" /\ event = "CALL_CONNECTED" /\ (id # None => f.session = id)
      BY <1>3, <2>2 DEF PreCall
    <3> QED BY <1>1, <1>4, <2>2, <3>1 DEF ScreenTellsTruth, Settled
  <2>3. CASE f # flow /\ f.state = "timeout"
    <3>1. flow.state = "calling" /\ event = "CALL_TIMEOUT" /\ (id # None => f.session = id)
      BY <1>3, <2>3 DEF PreCall
    <3> QED BY <1>1, <1>4, <2>3, <3>1 DEF ScreenTellsTruth, Unanswered
  <2>4. CASE f.state \notin {"connected", "timeout"}
    BY <1>1, <2>4 DEF ScreenTellsTruth
  <2> QED BY <2>1, <2>2, <2>3, <2>4
<1> QED BY <1>4, <1>5, <1>6, TruthKept

\* A step of the terminal that shows the same screen.
LEMMA SameScreen ==
    ASSUME IInv, IInv', Truth, UNCHANGED <<visit, server, phones, flow, medium, pending>>,
           Plain
    PROVE  Truth'
<1>1. HeldTruth' /\ ScreenTellsTruth'
  BY DEF Truth, HeldTruth, ScreenTellsTruth
<1> QED BY <1>1, TruthKept

LEMMA InitTruth == Init => Truth
BY DEF Init, Truth, ServerInv, PlacingInv, Placing, HeldTruth, ScreenTellsTruth, Blank

LEMMA StartTruth ==
    ASSUME IInv, IInv', Truth, Start
    PROVE  Truth'
<1>1. /\ visit' = visit + 1 /\ visit \in Nat /\ UNCHANGED <<net, server, phones>>
      /\ \A m \in net : m.id \in Ids /\ m.id <= visit /\ m.id # visit + 1
      /\ flow.state = "idle" /\ flow = Blank
  BY InvParts DEF Start, IInv, ScreenInv, NetInv, Messages, Ids
<1>2. flow'.state = "selectingPurpose" /\ pending' = None /\ net' = net
  <2>1. Targets("idle", "START") = {"selectingPurpose"}
    BY DEF Targets, Edges, States
  <2>2. Reduced("START", None).state = "selectingPurpose"
    BY <1>1, <2>1 DEF Reduced
  <2> QED BY <1>1, <2>2 DEF Start, Dispatch, Show
<1>3. ServerInv'
  <2>1. \A id \in Ids : id > visit' \/ (id = visit' /\ flow'.state \in PreCall) => server'[id] = "none"
    BY <1>1 DEF Truth, ServerInv, Ids
  <2> QED BY <1>1, <1>2, <2>1 DEF Truth, ServerInv
<1>4. PlacingInv'
  BY <1>1, <1>2 DEF Truth, PlacingInv, Placing
<1> QED BY <1>2, <1>3, <1>4 DEF Truth, HeldTruth, ScreenTellsTruth

LEMMA ConfirmTruth ==
    ASSUME IInv, IInv', Truth, Confirm
    PROVE  Truth'
<1> DEFINE r == Request("create", visit)
<1>1. /\ flow.state = "confirming" /\ Dispatch("CONFIRM", None)
      /\ net' = net \cup {r} /\ UNCHANGED <<visit, server, phones>>
      /\ visit \in Ids /\ \A m \in net : m.id # visit
  BY InvParts DEF Confirm, IInv, ScreenInv, NetInv, PreCall, Ids
<1>2. r.op = "create" /\ r.id = visit /\ r.answer = None
  BY DEF Request
<1> HIDE DEF r
<1>3. pending = None
  BY <1>1 DEF IInv, ScreenInv
<1>4. flow'.state = "calling" /\ medium' = None /\ pending' = None
  <2>1. Targets("confirming", "CONFIRM") = {"calling"}
    BY DEF Targets, Edges, States
  <2>2. Reduced("CONFIRM", None).state = "calling"
    BY <1>1, <2>1 DEF Reduced
  <2> QED BY <1>1, <1>3, <2>2 DEF Dispatch, Show
<1>5. ServerInv'
  <2>1. server[visit] = "none"
    BY <1>1 DEF Truth, ServerInv, PreCall
  <2>2. \A m \in net' : m \in net \/ m = r
    BY <1>1
  <2> QED BY <1>1, <1>2, <1>4, <2>1, <2>2 DEF Truth, ServerInv, PreCall
<1>6. PlacingInv'
  <2>1. Placing' = Placing \cup {r} /\ \A m \in Placing : m.id # r.id
    BY <1>1, <1>2 DEF Placing
  <2>2. \A m, n \in Placing' : m.id = n.id => m = n
    BY <2>1 DEF Truth, PlacingInv
  <2>3. \A m \in net' : m.op = "complete" => m.id # visit'
    BY <1>1, <1>2
  <2> QED BY <1>4, <2>2, <2>3 DEF PlacingInv
<1> QED BY <1>4, <1>5, <1>6 DEF Truth, HeldTruth, ScreenTellsTruth

LEMMA CreatedTruth ==
    ASSUME IInv, IInv', Truth, NEW m \in net, m.op = "create", Created(m),
           UNCHANGED <<visit, server, phones>>
    PROVE  Truth'
<1>1. CASE m.answer # "ok"
  <2>1. Plain
    BY <1>1 DEF Created, Plain
  <2>2. CASE Live(m.id)
    <3>1. Dispatch("CALL_FAILED", None)
      BY <1>1, <2>2 DEF Created
    <3>2. "CALL_FAILED" \in Events \ {"CANCEL", "START", "CONFIRM"}
      BY DEF Events
    <3> QED BY <2>1, <3>1, <3>2, EventTruth
  <2>3. CASE ~Live(m.id)
    <3>1. UNCHANGED <<flow, medium, pending>>
      BY <2>3 DEF Created, screen
    <3> QED BY <2>1, <3>1, SameScreen
  <2> QED BY <2>2, <2>3
<1>2. CASE m.answer = "ok"
  <2> DEFINE r == Request("call", m.id)
  <2>1. net' = (net \ {m}) \cup {r} /\ r.op = "call" /\ r.id = m.id /\ r.answer = None
    BY <1>2 DEF Created, Request
  <2> HIDE DEF r
  <2>2. flow'.state = flow.state /\ medium' = medium /\ pending' = pending
        /\ (flow' = flow \/ flow.state = "calling")
    <3>1. flow \in Flows /\ (pending # None => flow.state = "calling")
      BY InvParts DEF IInv, ScreenTyped, ScreenInv
    <3>2. CASE Live(m.id)
      <4> DEFINE f == [flow EXCEPT !.session = m.id]
      <4>1. Show(f) /\ flow.state = "calling"
        BY <1>2, <3>2 DEF Created, Live
      <4>2. f.state = "calling"
        BY <3>1, <4>1 DEF Flows
      <4> HIDE DEF f
      <4> QED BY <4>1, <4>2 DEF Show
    <3>3. CASE ~Live(m.id)
      BY <3>3 DEF Created, screen
    <3> QED BY <3>2, <3>3
  <2>3. ServerInv'
    <3>1. \A n \in net' : n \in net \/ n = r
      BY <2>1
    <3>2. None \notin {"connected", "timeout"}
      BY DEF Answers, States
    <3> QED BY <2>1, <2>2, <3>1, <3>2 DEF Truth, ServerInv
  <2>4. PlacingInv'
    <3>1. Placing' = (Placing \ {m}) \cup {r} /\ m \in Placing
      BY <2>1 DEF Placing
    <3>2. \A n, o \in Placing' : n.id = o.id => n = o
      BY <2>1, <3>1 DEF Truth, PlacingInv
    <3>3. flow'.state = "calling" /\ (medium' # None \/ pending' # None)
            => \A n \in Placing' : n.id # visit'
      BY <2>1, <2>2, <3>1 DEF Truth, PlacingInv
    <3>4. \A n \in net' : n.op = "complete" => n \in net
      BY <2>1
    <3> QED BY <2>2, <3>2, <3>3, <3>4 DEF Truth, PlacingInv
  <2>5. HeldTruth'
    BY <2>2 DEF Truth, HeldTruth
  <2>6. ScreenTellsTruth'
    BY <2>2 DEF Truth, ScreenTellsTruth
  <2> QED BY <2>3, <2>4, <2>5, <2>6 DEF Truth
<1> QED BY <1>1, <1>2

LEMMA CalledTruth ==
    ASSUME IInv, IInv', Truth, NEW m \in net, m.op = "call", Called(m),
           UNCHANGED <<visit, server, phones>>
    PROVE  Truth'
<1>1. net' = net \ {m} /\ Plain /\ m \in Placing
  BY DEF Called, Plain, Placing
<1>2. CASE ~Live(m.id)
  <2>1. UNCHANGED <<flow, medium, pending>>
    BY <1>2 DEF Called, screen
  <2> QED BY <1>1, <2>1, SameScreen
<1>3. CASE Live(m.id)
  <2>1. flow.state = "calling" /\ m.id = visit /\ m.id \in Ids
    BY <1>3, InvParts DEF Live, IInv, Messages
  <2>2. /\ medium = None /\ pending = None
        /\ \A n \in Placing : n \in net' => n.id # visit
    BY <1>1, <2>1 DEF Truth, PlacingInv
  <2>3. /\ m.answer = "connected" => server[m.id] \in Settled
        /\ m.answer = "timeout" => server[m.id] \in Unanswered
    BY <2>1 DEF Truth, ServerInv
  <2>4. CASE m.answer = "connected"
    <3>1. Dispatch("CALL_CONNECTED", m.id) /\ "CALL_CONNECTED" \in Events \ {"CANCEL", "START", "CONFIRM"}
      BY <1>3, <2>4 DEF Called, Events
    <3>2. m.id # None /\ m.id \in Ids \cup {None}
      BY <1>1, <2>1 DEF Ids
    <3> QED BY <1>1, <2>3, <2>4, <3>1, <3>2, EventTruth
  <2>5. CASE m.answer = "timeout"
    <3>1. Hold(m.id)
      BY <1>3, <2>5 DEF Called
    <3>2. HeldTruth' /\ ScreenTellsTruth'
      BY <2>1, <2>3, <2>5, <3>1 DEF Hold, HeldTruth, ScreenTellsTruth
    <3> QED BY <1>1, <2>1, <2>2, <3>1, <3>2, TruthKept DEF Hold
  <2>6. CASE m.answer \in {"video", "calling"}
    <3>1. UNCHANGED <<flow, pending>>
      BY <1>3, <2>6 DEF Called
    <3>2. HeldTruth' /\ ScreenTellsTruth'
      BY <2>1, <2>2, <3>1 DEF HeldTruth, ScreenTellsTruth
    <3> QED BY <1>1, <2>1, <2>2, <3>1, <3>2, TruthKept
  <2>7. CASE m.answer \notin {"connected", "timeout", "video", "calling"}
    <3>1. Dispatch("CALL_FAILED", m.id) /\ "CALL_FAILED" \in Events \ {"CANCEL", "START", "CONFIRM"}
      BY <1>3, <2>7 DEF Called, Events
    <3>2. m.id \in Ids \cup {None}
      BY <2>1
    <3> QED BY <1>1, <3>1, <3>2, EventTruth
  <2> QED BY <2>4, <2>5, <2>6, <2>7
<1> QED BY <1>2, <1>3

LEMMA PollsTruth ==
    ASSUME IInv, IInv', Truth, NEW m \in net, m.op = "status", Polls(m),
           UNCHANGED <<visit, server, phones>>
    PROVE  Truth'
<1>0. m.id \in Ids /\ m.id # None /\ (flow.session \in {visit, None})
  BY InvParts DEF IInv, Messages, Ids, ScreenInv
<1>1. CASE ~Polled(m.id) \/ medium # "pstn" \/ flow.state # "calling"
  <2>1. Plain /\ UNCHANGED <<flow, medium, pending>>
    BY <1>1 DEF Polls, Plain, screen
  <2> QED BY <2>1, SameScreen
<1>2. CASE Polled(m.id) /\ medium = "pstn" /\ flow.state = "calling"
  <2>1. m.id = visit /\ medium # None
    BY <1>0, <1>2 DEF Polled, Answers
  <2>2. /\ m.answer = "connected" => server[m.id] \in Settled
        /\ m.answer = "timeout" => server[m.id] \in Unanswered
    BY <1>2, <2>1 DEF Truth, ServerInv
  <2>3. ASSUME NEW event \in {"CALL_CONNECTED", "CALL_FAILED"}, Dispatch(event, m.id),
               event = "CALL_CONNECTED" => m.answer = "connected",
               Plain
        PROVE  Truth'
    <3>1. event \in Events \ {"CANCEL", "START", "CONFIRM"} /\ event # "CALL_TIMEOUT"
      BY DEF Events
    <3>2. m.id \in Ids \cup {None}
      BY <1>0
    <3> QED BY <1>0, <2>2, <2>3, <3>1, <3>2, EventTruth
  <2>4. CASE GivesUp(m.answer)
    <3> DEFINE r == Request("giveUp", m.id)
    <3>1. net' = (net \ {m}) \cup {r} /\ Dispatch("CALL_FAILED", m.id)
      BY <1>2, <2>4 DEF Polls
    <3>2. r.answer = None /\ r.op \notin {"create", "call", "complete"}
      BY DEF Request
    <3> HIDE DEF r
    <3>3. Plain
      BY <3>1, <3>2 DEF Plain
    <3> QED BY <2>3, <3>1, <3>3
  <2>5. CASE ~GivesUp(m.answer)
    <3>1. /\ Plain
          /\ \/ m.answer = "connected" /\ Dispatch("CALL_CONNECTED", m.id)
             \/ Dispatch("CALL_FAILED", m.id)
             \/ m.answer = "timeout" /\ Hold(m.id)
             \/ UNCHANGED <<flow, medium, pending>>
      BY <1>2, <2>5 DEF Polls, Plain, screen
    <3>2. CASE m.answer = "timeout" /\ Hold(m.id)
      <4>1. HeldTruth' /\ ScreenTellsTruth'
        BY <1>2, <2>2, <3>2 DEF Hold, HeldTruth, ScreenTellsTruth
      <4> QED BY <1>2, <2>1, <3>1, <3>2, <4>1, TruthKept DEF Hold
    <3>3. CASE UNCHANGED <<flow, medium, pending>>
      BY <3>1, <3>3, SameScreen
    <3> QED BY <2>3, <3>1, <3>2, <3>3
  <2> QED BY <2>4, <2>5
<1> QED BY <1>1, <1>2

LEMMA AnsweredTruth ==
    ASSUME IInv, IInv', Truth, NEW op \in Awaited, Answered(op)
    PROVE  Truth'
<1>1. PICK m \in net :
        /\ m.op = op /\ m.answer # None
        /\ \/ op = "create" /\ Created(m)
           \/ op = "call" /\ Called(m)
           \/ op = "status" /\ Polls(m)
           \/ op = "complete" /\ Completed(m)
           \/ op = "fallback" /\ net' = net \ {m} /\ Dispatch("USE_FALLBACK", None)
           \/ op = "stay" /\ UNCHANGED screen
                /\ net' = (net \ {m}) \cup
                          (IF m.answer = "ok" THEN {Request("issue", m.id)} ELSE {})
           \/ op = "issue" /\ Issued(m)
        /\ UNCHANGED <<visit, server, phones, faults>>
  BY DEF Answered
<1>2. CASE op = "create" /\ Created(m)
  BY <1>1, <1>2, CreatedTruth
<1>3. CASE op = "call" /\ Called(m)
  BY <1>1, <1>3, CalledTruth
<1>4. CASE op = "status" /\ Polls(m)
  BY <1>1, <1>4, PollsTruth
<1>5. CASE op = "complete" /\ Completed(m)
  <2>1. Plain /\ Dispatch("COMPLETE", None)
    BY <1>5 DEF Completed, Plain, Request
  <2>2. "COMPLETE" \in Events \ {"CANCEL", "START", "CONFIRM"}
    BY DEF Events
  <2> QED BY <1>1, <2>1, <2>2, EventTruth
<1>6. CASE op = "fallback" /\ net' = net \ {m} /\ Dispatch("USE_FALLBACK", None)
  <2>1. Plain /\ "USE_FALLBACK" \in Events \ {"CANCEL", "START", "CONFIRM"}
    BY <1>6 DEF Plain, Events
  <2> QED BY <1>1, <1>6, <2>1, EventTruth
<1>7. CASE op = "stay" /\ UNCHANGED screen
           /\ net' = (net \ {m}) \cup (IF m.answer = "ok" THEN {Request("issue", m.id)} ELSE {})
  <2>1. Plain /\ UNCHANGED <<flow, medium, pending>>
    BY <1>7 DEF Plain, Request, screen
  <2> QED BY <1>1, <2>1, SameScreen
<1>8. CASE op = "issue" /\ Issued(m)
  <2>1. Plain /\ UNCHANGED <<flow, medium, pending>>
    BY <1>8 DEF Issued, Plain, screen
  <2> QED BY <1>1, <2>1, SameScreen
<1> QED BY <1>1, <1>2, <1>3, <1>4, <1>5, <1>6, <1>7, <1>8

LEMMA CompleteTruth ==
    ASSUME IInv, IInv', Truth, Complete
    PROVE  Truth'
<1> DEFINE r == Request("complete", flow.session)
<1>1. /\ flow.state = "connected" /\ net' = net \cup {r}
      /\ UNCHANGED <<flow, medium, pending, visit, server, phones>>
  BY DEF Complete, screen
<1>2. r.op = "complete"
  BY DEF Request
<1> HIDE DEF r
<1>3. \A n \in net' : n \in net \/ n = r
  BY <1>1
<1>4. ServerInv'
  BY <1>1, <1>2, <1>3 DEF Truth, ServerInv, PreCall
<1>5. PlacingInv'
  <2>1. Placing' = Placing
    BY <1>1, <1>2 DEF Placing
  <2> QED BY <1>1, <2>1 DEF Truth, PlacingInv
<1>6. HeldTruth' /\ ScreenTellsTruth'
  BY <1>1 DEF Truth, HeldTruth, ScreenTellsTruth
<1> QED BY <1>4, <1>5, <1>6 DEF Truth

LEMMA VisitorTruth ==
    ASSUME IInv, IInv', Truth, Press \/ Leave \/ AskFallback \/ TakeFallback
    PROVE  Truth'
<1>0. flow.session \in Ids \cup {None}
  BY InvParts DEF IInv, ScreenTyped, Flows
<1>1. CASE Press
  <2>1. PICK event \in {"SELECT_PURPOSE", "SELECT_TARGET", "SUBMIT_VISITOR_INFO", "BACK"} :
          Dispatch(event, None)
    BY <1>1 DEF Press
  <2>2. event \in Events \ {"CANCEL", "START", "CONFIRM"}
        /\ event \notin {"CALL_CONNECTED", "CALL_TIMEOUT"}
    BY DEF Events
  <2>3. Plain /\ UNCHANGED <<visit, server, phones>>
    BY <1>1 DEF Press, Plain
  <2> QED BY <2>1, <2>2, <2>3, EventTruth
<1>2. CASE Leave
  <2>1. Plain /\ Dispatch("RESET", None) /\ UNCHANGED <<visit, server, phones>>
    BY <1>2 DEF Leave, Plain, Request
  <2>2. "RESET" \in Events \ {"CANCEL", "START", "CONFIRM"}
    BY DEF Events
  <2> QED BY <2>1, <2>2, EventTruth
<1>3. CASE AskFallback
  <2>1. CASE flow.session = None
    <3>1. Plain /\ Dispatch("USE_FALLBACK", None) /\ UNCHANGED <<visit, server, phones>>
      BY <1>3, <2>1 DEF AskFallback, Plain
    <3>2. "USE_FALLBACK" \in Events \ {"CANCEL", "START", "CONFIRM"}
      BY DEF Events
    <3> QED BY <3>1, <3>2, EventTruth
  <2>2. CASE flow.session # None
    <3>1. Plain /\ UNCHANGED <<flow, medium, pending, visit, server, phones>>
      BY <1>3, <2>2 DEF AskFallback, Plain, Request, screen
    <3> QED BY <3>1, SameScreen
  <2> QED BY <2>1, <2>2
<1>4. CASE TakeFallback
  <2>1. Plain /\ Dispatch("CALL_FAILED", flow.session) /\ UNCHANGED <<visit, server, phones>>
    BY <1>4 DEF TakeFallback, Plain
  <2>2. "CALL_FAILED" \in Events \ {"CANCEL", "START", "CONFIRM"}
    BY DEF Events
  <2> QED BY <1>0, <2>1, <2>2, EventTruth
<1> QED BY <1>1, <1>2, <1>3, <1>4

LEMMA TimersTruth ==
    ASSUME IInv, IInv', Truth,
           InactivityReset \/ AutoReset \/ Revoked \/ NoticeHeld \/ PollBudgetEnds \/ Poll
    PROVE  Truth'
<1>1. CASE InactivityReset \/ AutoReset \/ Revoked
  <2>1. Plain /\ Dispatch("RESET", None) /\ UNCHANGED <<visit, server, phones>>
    BY <1>1 DEF InactivityReset, AutoReset, Revoked, Plain
  <2>2. "RESET" \in Events \ {"CANCEL", "START", "CONFIRM"}
    BY DEF Events
  <2> QED BY <2>1, <2>2, EventTruth
<1>2. CASE NoticeHeld
  <2>1. Plain /\ Dispatch("CALL_TIMEOUT", pending) /\ UNCHANGED <<visit, server, phones>>
        /\ pending # None
    BY <1>2 DEF NoticeHeld, Plain
  <2>2. "CALL_TIMEOUT" \in Events \ {"CANCEL", "START", "CONFIRM"} /\ pending \in Ids \cup {None}
    BY InvParts DEF Events, IInv, ScreenTyped
  <2>3. medium # "video" => server[pending] \in Unanswered
    BY <2>1 DEF Truth, HeldTruth
  <2> QED BY <2>1, <2>2, <2>3, EventTruth
<1>3. CASE PollBudgetEnds
  <2>1. Plain /\ UNCHANGED <<flow, medium, pending, visit, server, phones>>
    BY <1>3 DEF PollBudgetEnds, Plain
  <2> QED BY <2>1, SameScreen
<1>4. CASE Poll
  <2>1. Plain /\ UNCHANGED <<flow, medium, pending, visit, server, phones>>
    BY <1>4 DEF Poll, Plain, Request, screen
  <2> QED BY <2>1, SameScreen
<1> QED BY <1>1, <1>2, <1>3, <1>4

LEMMA VideoTruth ==
    ASSUME IInv, IInv', Truth, VideoAnswered \/ VideoUnanswered \/ VideoFails
    PROVE  Truth'
<1>1. flow.state = "calling" /\ medium = "video" /\ medium # None
      /\ flow.session \in Ids \cup {None}
  BY InvParts DEF VideoAnswered, VideoUnanswered, VideoFails, InVideo, Answers,
                  IInv, ScreenTyped, Flows
<1>2. Plain /\ UNCHANGED <<visit, server, phones>>
  BY DEF VideoAnswered, VideoUnanswered, VideoFails, Plain, Request
<1>3. CASE \E event \in {"CALL_CONNECTED", "CALL_FAILED"} : Dispatch(event, flow.session)
  <2>1. PICK event \in {"CALL_CONNECTED", "CALL_FAILED"} : Dispatch(event, flow.session)
    BY <1>3
  <2>2. event \in Events \ {"CANCEL", "START", "CONFIRM"} /\ event # "CALL_TIMEOUT"
    BY DEF Events
  <2> QED BY <1>1, <1>2, <2>1, <2>2, EventTruth
<1>4. CASE Hold(flow.session)
  <2>1. HeldTruth' /\ ScreenTellsTruth'
    BY <1>1, <1>4 DEF Hold, HeldTruth, ScreenTellsTruth
  <2> QED BY <1>1, <1>2, <1>4, <2>1, TruthKept DEF Hold
<1> QED BY <1>3, <1>4 DEF VideoAnswered, VideoUnanswered, VideoFails

-----------------------------------------------------------------------------
\* What the screen shows stays true while the server carries on what is settled.
LEMMA SettledStays ==
    ASSUME IInv, Truth, UNCHANGED <<flow, medium, pending, visit>>,
           \A id \in Ids : /\ server[id] \in Settled => server'[id] \in Settled
                           /\ server[id] \in Unanswered \cup {"completed"}
                                => server'[id] \in Unanswered \cup {"completed"},
           flow.state \in {"calling", "timeout"} => server'[visit] # "completed"
    PROVE  HeldTruth' /\ ScreenTellsTruth'
<1>0. /\ flow.session \in Ids \cup {None} /\ pending \in Ids \cup {None}
      /\ flow.session \in {visit, None}
      /\ pending # None => flow.state = "calling" /\ pending = visit
      /\ flow.state = "connected" => flow.session # None
      /\ flow.state = "timeout" => flow.session # None
  BY InvParts DEF IInv, ScreenTyped, ScreenInv, Flows, Truth, HeldTruth
<1>1. HeldTruth'
  BY <1>0 DEF Truth, HeldTruth, Unanswered
<1>2. ScreenTellsTruth'
  <2>1. CASE flow.state = "connected"
    BY <1>0, <2>1 DEF Truth, ScreenTellsTruth, Settled
  <2>2. CASE flow.state = "timeout"
    BY <1>0, <2>2 DEF Truth, ScreenTellsTruth, Unanswered
  <2>3. CASE flow.state \notin {"connected", "timeout"}
    BY <2>3 DEF ScreenTellsTruth
  <2> QED BY <2>1, <2>2, <2>3
<1> QED BY <1>1, <1>2

\* What the server makes of a reception that a request is about.
LEMMA HandledMoves ==
    ASSUME NEW o \in Posted \cup Awaited, NEW s \in States \cup {"none"}, NEW r \in Handled(o, s)
    PROVE  /\ o # "create" /\ s = "none" => r[1] = "none"
           /\ o # "create" /\ s \in Settled => r[1] \in Settled
           /\ o # "create" /\ s \in Unanswered \cup {"completed"}
                => r[1] \in Unanswered \cup {"completed"}
           /\ r[1] = "completed" => s = "completed" \/ o = "complete"
           /\ o \in {"call", "status"} /\ r[2] \in {"connected", "timeout"} => r[1] = r[2]
<1>1. CASE o = "create"
  BY <1>1 DEF Handled
<1>2. CASE o = "call"
  BY <1>2 DEF Handled, Settled, Unanswered
<1>3. CASE o = "status"
  BY <1>3 DEF Handled
<1>4. CASE o \in {"stay", "issue"}
  BY <1>4 DEF Handled
<1>5. CASE o \notin {"create", "call", "status", "stay", "issue"}
  <2>1. r[1] = s \/ r[1] \in Targets(s, EventOf[o])
    BY <1>5 DEF Handled
  <2>2. \A e \in {"CANCEL", "CALL_FAILED", "CALL_CONNECTED", "CALL_TIMEOUT", "USE_FALLBACK"} :
          \A t \in Targets(s, e) :
             /\ s \notin Settled \cup {"none", "completed"} /\ t # "completed"
             /\ s \in Unanswered => t \in Unanswered
    BY DEF Targets, Edges, Settled, Unanswered
  <2>3. \A t \in Targets(s, "COMPLETE") : s \in {"connected", "fallback"} /\ t = "completed"
    BY DEF Targets, Edges
  <2>4. CASE o = "complete"
    BY <2>1, <2>3, <2>4 DEF EventOf, Settled, Unanswered
  <2>5. CASE o # "complete"
    <3>1. EventOf[o] \in {"CANCEL", "CALL_FAILED", "CALL_CONNECTED", "CALL_TIMEOUT", "USE_FALLBACK"}
      BY <1>5, <2>5 DEF EventOf, Posted, Awaited
    <3> QED BY <1>5, <2>1, <2>2, <2>5, <3>1 DEF Settled, Unanswered
  <2> QED BY <2>4, <2>5
<1> QED BY <1>1, <1>2, <1>3, <1>4, <1>5

\* The server handles a request, or answers nothing of it.
LEMMA ServeTruth ==
    ASSUME IInv, IInv', Truth, NEW o, Serve(o)
    PROVE  Truth'
<1>0. ServerTyped /\ net \subseteq Messages
  BY InvParts DEF IInv
<1>1. PICK m \in net : m.op = o /\ m.answer = None
                       /\ (Serves(m) \/ (Loses(m) /\ UNCHANGED <<server, phones>>))
  BY DEF Serve
<1>2. m.id \in Ids /\ m.op \in Posted \cup Awaited /\ server[m.id] \in States \cup {"none"}
  BY <1>0 DEF Messages, ServerTyped
<1>3. UNCHANGED <<flow, medium, pending, visit>>
  BY DEF Serve, screen
<1>4. \E s \in States \cup {"none"}, a \in Answers :
         /\ server' = [server EXCEPT ![m.id] = s]
         /\ \A id \in phones' : (id \in phones /\ id # m.id) \/ (id = m.id /\ s = "calling")
         /\ Replies(m, a)
         /\ m.op # "create" =>
               /\ server[m.id] = "none" => s = "none"
               /\ server[m.id] \in Settled => s \in Settled
               /\ server[m.id] \in Unanswered \cup {"completed"}
                    => s \in Unanswered \cup {"completed"}
         /\ s = "completed" => server[m.id] = "completed" \/ m.op = "complete"
         /\ m.op \in {"call", "status"} /\ a \in {"connected", "timeout"} => s = a
  <2>1. CASE Serves(m)
    <3>1. PICK r \in Handled(m.op, server[m.id]) :
            /\ server' = [server EXCEPT ![m.id] = r[1]]
            /\ phones' = IF r[1] # "calling" THEN phones \ {m.id}
                         ELSE IF m.op = "call" /\ r[2] = "calling" THEN phones \cup {m.id}
                         ELSE phones
            /\ ((Replies(m, r[2]) /\ UNCHANGED faults) \/ Loses(m))
      BY <2>1 DEF Serves
    <3>2. r[1] \in States \cup {"none"} /\ r[2] \in Answers /\ "no" \in Answers
      BY <1>2, HandledTyped DEF Answers
    <3>3. \A id \in phones' : (id \in phones /\ id # m.id) \/ (id = m.id /\ r[1] = "calling")
      BY <3>1
    <3>4. PICK a \in {r[2], "no"} : Replies(m, a)
      BY <3>1 DEF Loses
    <3>5. /\ m.op # "create" =>
               /\ server[m.id] = "none" => r[1] = "none"
               /\ server[m.id] \in Settled => r[1] \in Settled
               /\ server[m.id] \in Unanswered \cup {"completed"}
                    => r[1] \in Unanswered \cup {"completed"}
          /\ r[1] = "completed" => server[m.id] = "completed" \/ m.op = "complete"
          /\ m.op \in {"call", "status"} /\ a \in {"connected", "timeout"} => r[1] = a
      BY <1>2, <3>4, HandledMoves
    <3> QED BY <3>1, <3>2, <3>3, <3>4, <3>5
  <2>2. CASE Loses(m) /\ UNCHANGED <<server, phones>>
    <3>1. /\ server' = [server EXCEPT ![m.id] = server[m.id]] /\ "no" \in Answers
          /\ Replies(m, "no")
      BY <1>0, <1>2, <2>2 DEF ServerTyped, Loses, Answers
    <3>2. \A id \in phones' : (id \in phones /\ id # m.id) \/ (id = m.id /\ server[m.id] = "calling")
      BY <2>2 DEF Truth, ServerInv
    <3> QED BY <1>2, <3>1, <3>2
  <2> QED BY <1>1, <2>1, <2>2
<1>5. PICK s \in States \cup {"none"}, a \in Answers :
         /\ server' = [server EXCEPT ![m.id] = s]
         /\ \A id \in phones' : (id \in phones /\ id # m.id) \/ (id = m.id /\ s = "calling")
         /\ Replies(m, a)
         /\ m.op # "create" =>
               /\ server[m.id] = "none" => s = "none"
               /\ server[m.id] \in Settled => s \in Settled
               /\ server[m.id] \in Unanswered \cup {"completed"}
                    => s \in Unanswered \cup {"completed"}
         /\ s = "completed" => server[m.id] = "completed" \/ m.op = "complete"
         /\ m.op \in {"call", "status"} /\ a \in {"connected", "timeout"} => s = a
  BY <1>4
<1> DEFINE x == [m EXCEPT !.answer = a]
<1>6. net' \subseteq (net \ {m}) \cup {x}
  BY <1>5 DEF Replies
<1>7. x.id = m.id /\ x.op = m.op /\ x.answer = a /\ a # None
  BY <1>0 DEF Messages
<1> HIDE DEF x
<1>8. \A id \in Ids : server'[id] = IF id = m.id THEN s ELSE server[id]
  BY <1>0, <1>2, <1>5 DEF ServerTyped
<1>9. /\ m.op = "create" => server[m.id] = "none"
      /\ \A n \in net : n.id \in Ids /\ n.id <= visit
      /\ flow.state \in PreCall => m.id # visit
  BY <1>0, <1>1 DEF IInv, NetInv, Truth, ServerInv, Messages
<1>10. \A id \in Ids : /\ server[id] \in Settled => server'[id] \in Settled
                       /\ server[id] \in Unanswered \cup {"completed"}
                            => server'[id] \in Unanswered \cup {"completed"}
  BY <1>5, <1>8, <1>9 DEF Settled, Unanswered
<1>11. flow.state \in {"calling", "timeout"} => server'[visit] # "completed"
  <2> SUFFICES ASSUME flow.state \in {"calling", "timeout"} PROVE server'[visit] # "completed"
    OBVIOUS
  <2>1. server[visit] # "completed" /\ visit \in Ids
    BY InvParts DEF Truth, ServerInv, IInv, ScreenInv, Ids
  <2>2. m.op = "complete" => m.id # visit
    BY DEF Truth, PlacingInv
  <2> QED BY <1>5, <1>8, <2>1, <2>2
<1>12. ServerInv'
  <2>1. \A id \in phones' : server'[id] = "calling"
    BY <1>0, <1>2, <1>5, <1>8 DEF Truth, ServerInv, ServerTyped
  <2>2. \A id \in Ids : id > visit \/ (id = visit /\ flow.state \in PreCall) => server'[id] = "none"
    <3>1. \A id \in Ids : id > visit \/ (id = visit /\ flow.state \in PreCall)
                            => server[id] = "none" /\ id # m.id
      <4>1. visit \in Nat /\ m.id \in Nat /\ m.id <= visit
        BY <1>2, <1>9, InvParts DEF IInv, Ids
      <4>2. \A id \in Ids : id \in Nat
        BY DEF Ids
      <4> QED BY <1>9, <4>1, <4>2 DEF Truth, ServerInv
    <3> QED BY <1>8, <3>1
  <2>3. ASSUME NEW n \in net', n.op = "create", n.answer = None PROVE server'[n.id] = "none"
    <3>1. n \in net /\ n # m
      BY <1>6, <1>7, <2>3
    <3>2. server[n.id] = "none" /\ n.id \in Ids
      BY <1>9, <2>3, <3>1 DEF Truth, ServerInv
    <3>3. m.op = "create" => m.id # n.id
      BY <2>3, <3>1 DEF Truth, PlacingInv, Placing
    <3> QED BY <1>5, <1>8, <3>2, <3>3
  <2>4. ASSUME NEW n \in net', n.op \in {"call", "status"}
        PROVE  /\ n.answer = "connected" => server'[n.id] \in Settled
               /\ n.answer = "timeout" => server'[n.id] \in Unanswered \cup {"completed"}
    <3>1. CASE n \in net
      BY <1>9, <1>10, <2>4, <3>1 DEF Truth, ServerInv
    <3>2. CASE n = x
      BY <1>2, <1>5, <1>7, <1>8, <2>4, <3>2 DEF Settled, Unanswered
    <3> QED BY <1>6, <3>1, <3>2
  <2> QED BY <1>3, <1>11, <2>1, <2>2, <2>3, <2>4 DEF ServerInv
<1>13. PlacingInv'
  <2>1. ASSUME NEW n \in net' PROVE \E k \in net : k.id = n.id /\ k.op = n.op /\ (n = x \/ n = k)
    BY <1>6, <1>7
  <2>2. \A n, k \in Placing' : n.id = k.id => n = k
    <3>1. ASSUME NEW n \in net', NEW k \in net', n.op \in {"create", "call"},
                 k.op \in {"create", "call"}, n.id = k.id
          PROVE  n = k
      <4>1. CASE n \in net /\ k \in net
        BY <3>1, <4>1 DEF Truth, PlacingInv, Placing
      <4>2. CASE n = x /\ k \in net /\ k # m
        BY <1>7, <3>1, <4>2 DEF Truth, PlacingInv, Placing
      <4>3. CASE k = x /\ n \in net /\ n # m
        BY <1>7, <3>1, <4>3 DEF Truth, PlacingInv, Placing
      <4> QED BY <1>6, <4>1, <4>2, <4>3
    <3> QED BY <3>1 DEF Placing
  <2>3. flow.state = "calling" /\ (medium # None \/ pending # None)
          => \A n \in Placing' : n.id # visit
    BY <2>1 DEF Truth, PlacingInv, Placing
  <2>4. \A n \in net' : n.op = "complete" /\ n.id = visit
                          => flow.state \in {"idle", "connected", "completed"}
    BY <2>1 DEF Truth, PlacingInv
  <2> QED BY <1>3, <2>2, <2>3, <2>4 DEF PlacingInv
<1>14. HeldTruth' /\ ScreenTellsTruth'
  BY <1>3, <1>10, <1>11, SettledStays
<1> QED BY <1>12, <1>13, <1>14 DEF Truth

LEMMA SettleTruth ==
    ASSUME IInv, IInv', Truth, Settle
    PROVE  Truth'
<1>0. ServerTyped /\ net \subseteq Messages
  BY InvParts DEF IInv
<1>1. PICK i \in phones, t \in {"connected", "timeout", "failed"} :
        server' = [server EXCEPT ![i] = t] /\ phones' = phones \ {i}
  BY DEF Settle
<1>2. UNCHANGED <<flow, medium, pending, visit, net>>
  BY DEF Settle, screen
<1>3. server[i] = "calling" /\ i \in Ids /\ \A n \in net : n.id \in Ids
  BY <1>0 DEF Truth, ServerInv, ServerTyped, Messages
<1>4. \A id \in Ids : server'[id] = IF id = i THEN t ELSE server[id]
  BY <1>0, <1>1 DEF ServerTyped
<1>5. \A id \in Ids : /\ server[id] = "none" => server'[id] = "none"
                      /\ server[id] \in Settled => server'[id] \in Settled
                      /\ server[id] \in Unanswered \cup {"completed"}
                           => server'[id] \in Unanswered \cup {"completed"}
  BY <1>3, <1>4 DEF Settled, Unanswered
<1>6. flow.state \in {"calling", "timeout"} => server'[visit] # "completed"
  <2>1. flow.state \in {"calling", "timeout"} => visit \in Ids
    BY InvParts DEF IInv, ScreenInv, Ids
  <2> QED BY <1>4, <2>1 DEF Truth, ServerInv
<1>7. \A id \in phones' : server'[id] = "calling"
  BY <1>0, <1>1, <1>4 DEF Truth, ServerInv, ServerTyped
<1>8. ServerInv'
  BY <1>2, <1>3, <1>5, <1>6, <1>7 DEF Truth, ServerInv
<1>9. PlacingInv'
  BY <1>2 DEF Truth, PlacingInv, Placing
<1>10. HeldTruth' /\ ScreenTellsTruth'
  BY <1>2, <1>5, <1>6, SettledStays
<1> QED BY <1>8, <1>9, <1>10 DEF Truth

\* Every step keeps the screen and the server in agreement.
LEMMA NextTruth == IInv /\ Truth /\ [Next]_vars => Truth'
<1> SUFFICES ASSUME IInv, Truth, [Next]_vars PROVE Truth'
  OBVIOUS
<1>1. IInv'
  BY NextInv
<1>2. CASE UNCHANGED vars
  BY <1>2 DEF vars, Truth, ServerInv, PlacingInv, Placing, HeldTruth, ScreenTellsTruth
<1> QED BY <1>1, <1>2, StartTruth, ConfirmTruth, CompleteTruth, VisitorTruth, TimersTruth,
           VideoTruth, AnsweredTruth, ServeTruth, SettleTruth DEF Next

\* However late, lost or out of order the answers are, the screen shows a
\* telephone call as answered or unanswered only when the server has settled it
\* so, in this visit and not in the one before (the guards of the call effect
\* and of the status poll in KioskFlow.tsx).
THEOREM ScreenIsTrue == Spec => []ScreenTellsTruth
<1>1. Truth => ScreenTellsTruth
  BY DEF Truth
<1> QED BY InitInv, NextInv, InitTruth, NextTruth, <1>1, PTL DEF Spec

=============================================================================
