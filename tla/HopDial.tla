------------------------------ MODULE HopDial -------------------------------
(***************************************************************************)
(* The webhook side of routing a visitor's call over a telephone provider: *)
(* src/src/lib/routing/voice-event.ts (applyVoiceEventToCorrelation),      *)
(* next-hop-dial.ts (dialNextHop), call-correlation.ts and the pure        *)
(* domain/routing/webhook-advance.ts they call.                            *)
(*                                                                         *)
(* The provider reports on each call it carries through webhooks, at least  *)
(* once, in any order and to independent server instances.  A webhook folds *)
(* its event into the correlation record of the call and, when the call is  *)
(* over without an answer, dials the next hop of the routing, which is a    *)
(* new call with a new correlation record.                                 *)
(*                                                                         *)
(* The reception the routing serves is written by others; this module lets *)
(* them write anything (Elsewhere), so what holds here holds beside every  *)
(* other part of the program.  One reception is enough: correlations of     *)
(* different receptions share nothing.                                     *)
(***************************************************************************)
EXTENDS RoutingPolicy, FiniteSets

CONSTANTS
    Workers,          \* server instances that handle one webhook each
    Calls,            \* provider call ids
    NoCall,
    FirstCalls,       \* the calls that POST /call may place as a first hop
    Heard,            \* the events the provider reports
    Policies,         \* the stored routing policies
    Entry,            \* the policy a routing starts from
    MaxHops,          \* DEFAULT_MAX_HOPS
    MaxEvents,        \* DEFAULT_MAX_EVENTS
    ReceptionStates,  \* the states of the reception
    Faults,           \* what may go wrong, see AllFaults
    ClockTicks        \* TRUE: no two writes of a record in one millisecond

\* unwired: no usable initiator or endpoint; dial: initiate throws, before or
\* after the provider has placed the call; the others: the backend throws.
AllFaults == {"unwired", "reserve", "dial", "unreached", "create", "repoint", "save"}

ASSUME HopDialAssumption ==
    /\ FirstCalls \subseteq Calls /\ NoCall \notin Calls
    /\ IsFiniteSet(Calls)
    /\ Heard \subseteq VoiceEvents
    /\ MaxHops \in Nat \ {0} /\ MaxEvents \in Nat
    /\ "calling" \in ReceptionStates
    /\ Faults \subseteq AllFaults
    /\ ClockTicks \in BOOLEAN

VARIABLES
    reception,  \* [state, call]: what the webhooks see of the reception
    corr,       \* corr[c]: the correlation record of call c
    lapsed,     \* lapsed[c]: the dial budget of record c has run out
    line,       \* line[c]: the provider's view of call c
    dialer,     \* dialer[c]: the call whose webhook dialed c
    worker      \* worker[w]: the progress of one webhook

vars == <<reception, corr, lapsed, line, dialer, worker>>

Messages == Calls \X Heard      \* a report of the provider, and its jti

StepIds == UNION {{Policies[p].steps[i].id : i \in DOMAIN Policies[p].steps} :
                  p \in DOMAIN Policies}

\* StoredCallCorrelation; status "none" when there is no record.  policy, step,
\* hops, ledger and count are its RoutingPosition.
Correlations == [status : {"none", "in_flight", "settled"},
                 voice  : VoiceStates,
                 policy : DOMAIN Policies \cup {NoPolicy},
                 step   : StepIds \cup {NoPolicy},
                 hops   : Nat,
                 ledger : SUBSET Messages,
                 count  : Nat,
                 stamp  : Nat]              \* updatedAt

NoRecord == [status |-> "none", voice |-> "queued", policy |-> NoPolicy,
             step |-> NoPolicy, hops |-> 0, ledger |-> {}, count |-> 0, stamp |-> 0]

Idle == [at |-> "idle", call |-> NoCall, event |-> "started", seen |-> NoRecord,
         next |-> NoRecord, new |-> NoCall]

-----------------------------------------------------------------------------
\* The event budget of the routing is used up.
Spent(seen) == seen.count >= MaxEvents

\* advanceFromWebhook on the record seen: ignored, save (in progress or
\* settled) or dial, and the record the event leads to.
Ignored == [kind |-> "ignored", next |-> NoRecord]

Advance(seen, message) ==
    LET voice == ApplyVoiceEvent(seen.voice, message[2])
        heard == [seen EXCEPT !.voice = voice, !.count = @ + 1]
        at    == AdvanceRouting(Policies, seen, seen.hops, voice, MaxHops)
    IN CASE seen.status = "settled" \/ Spent(seen) -> Ignored
         [] seen.status # "settled" /\ ~Spent(seen) ->
              IF voice \in Undecided THEN [kind |-> "save", next |-> heard]
              ELSE IF message \in seen.ledger THEN Ignored
              ELSE IF at.kind = "settled"
                   THEN [kind |-> "save", next |-> [heard EXCEPT !.status = "settled"]]
              ELSE [kind |-> "dial",
                    next |-> [heard EXCEPT !.policy = at.policy, !.step = at.step,
                                           !.hops = @ + 1,
                                           !.ledger = @ \cup {message}]]

\* What is saved when a decided dial does not take place: the position stays.
NotDialed(seen, next) ==
    [next EXCEPT !.policy = seen.policy, !.step = seen.step, !.hops = seen.hops]

\* The reservation: the ledger and the count advance, the call state does not.
Reservation(seen, next) ==
    [seen EXCEPT !.ledger = next.ledger, !.count = next.count, !.status = "settled"]

\* updatedAt of a write that follows a write stamped s.
StampsAfter(s) == IF ClockTicks THEN {s + 1} ELSE {s, s + 1}

\* Mutations of Unchanged: a put in place of updateIf; the time alone.
UnchangedNever(w) == TRUE
UnchangedByTime(w) == corr[worker[w].call].stamp = worker[w].seen.stamp

\* updateIfUnchanged succeeds for worker w.
Unchanged(w) == LET c == worker[w].call
                IN /\ corr[c].status = "in_flight"
                   /\ corr[c].stamp = worker[w].seen.stamp

WriteIfUnchanged(w, record) ==
    LET c == worker[w].call
    IN IF Unchanged(w)
       THEN \E s \in StampsAfter(corr[c].stamp) :
               corr' = [corr EXCEPT ![c] = [record EXCEPT !.stamp = s]]
       ELSE UNCHANGED corr

At(w, label) == worker[w].at = label
Goto(w, label) == worker' = [worker EXCEPT ![w].at = label]
Finish(w) == worker' = [worker EXCEPT ![w] = Idle]
Fault(f) == f \in Faults

-----------------------------------------------------------------------------
\* No call has been placed.
Init == /\ reception \in [state : ReceptionStates, call : {NoCall}]
        /\ corr = [c \in Calls |-> NoRecord]
        /\ lapsed = [c \in Calls |-> FALSE]
        /\ line = [c \in Calls |-> "free"]
        /\ dialer = [c \in Calls |-> NoCall]
        /\ worker = [w \in Workers |-> Idle]

\* verifyRequest reads the correlation (a webhook of an unknown call is
\* refused); the decision is taken on that copy.
Receive(w, message) ==
    LET c == message[1]
        decision == Advance(corr[c], message)
    IN /\ At(w, "idle")
       /\ line[c] # "free"
       /\ corr[c].status # "none"
       /\ decision.kind # "ignored"
       /\ worker' = [worker EXCEPT ![w] =
              [at |-> IF decision.kind = "dial" THEN "check" ELSE "save",
               call |-> c, event |-> message[2], seen |-> corr[c],
               next |-> decision.next, new |-> NoCall]]
       /\ UNCHANGED <<reception, corr, lapsed, line, dialer>>

GiveUpDial(w) ==
    worker' = [worker EXCEPT ![w].at = "save",
                             ![w].next = NotDialed(worker[w].seen, worker[w].next)]

\* dialNextHop up to the reservation: not wired, endpoint unavailable, or
\* decideRoutingStop on the state of the reception.
Check(w) ==
    /\ At(w, "check")
    /\ \/ reception.state = "calling" /\ Goto(w, "reserve")
       \/ reception.state # "calling" /\ GiveUpDial(w)
       \/ Fault("unwired") /\ GiveUpDial(w)
    /\ UNCHANGED <<reception, corr, lapsed, line, dialer>>

\* The right to dial goes to one webhook; the dial budget is renewed.
Reserve(w) ==
    /\ At(w, "reserve")
    /\ WriteIfUnchanged(w, Reservation(worker[w].seen, worker[w].next))
    /\ lapsed' = IF Unchanged(w) THEN [lapsed EXCEPT ![worker[w].call] = FALSE] ELSE lapsed
    /\ \/ Unchanged(w) /\ Goto(w, "dial")
       \/ ~Unchanged(w) /\ Finish(w)
       \/ Fault("reserve") /\ Unchanged(w) /\ GiveUpDial(w)
    /\ UNCHANGED <<reception, line, dialer>>

\* ... and the reservation may throw without having been written.
ReserveThrows(w) ==
    /\ At(w, "reserve")
    /\ Fault("reserve")
    /\ GiveUpDial(w)
    /\ UNCHANGED <<reception, corr, lapsed, line, dialer>>

\* initiator.initiate: the provider places a new call, or refuses.  It may have
\* placed the call and throw all the same: nobody then knows of the call.
Dial(w) ==
    /\ At(w, "dial")
    /\ \/ \E n \in {c \in Calls \ FirstCalls : line[c] = "free"} :
             /\ line' = [line EXCEPT ![n] = "ringing"]
             /\ dialer' = [dialer EXCEPT ![n] = worker[w].call]
             /\ \/ worker' = [worker EXCEPT ![w].at = "create", ![w].new = n]
                \/ Fault("dial") /\ Goto(w, "unreached")
       \/ /\ Fault("dial")
          /\ Goto(w, "unreached")
          /\ UNCHANGED <<line, dialer>>
    /\ UNCHANGED <<reception, corr, lapsed>>

\* settleAsUnreached: an unconditional put of the record seen, decided and
\* settled.  (Its dial budget is the old one, which a decided call ignores.)
Unreached(w) ==
    LET c == worker[w].call
        record == [Reservation(worker[w].seen, worker[w].next)
                      EXCEPT !.voice = worker[w].next.voice]
    IN /\ At(w, "unreached")
       /\ \/ \E s \in StampsAfter(corr[c].stamp) :
                corr' = [corr EXCEPT ![c] = [record EXCEPT !.stamp = s]]
          \/ Fault("unreached") /\ UNCHANGED corr
       /\ Finish(w)
       /\ UNCHANGED <<reception, lapsed, line, dialer>>

\* Mutations of NextRecord: the events, or the hops, are counted anew.
NextRecordNoCount(w) ==
    [worker[w].next EXCEPT !.voice = "queued", !.status = "in_flight", !.stamp = 0,
                           !.count = 0]
NextRecordNoHops(w) ==
    [worker[w].next EXCEPT !.voice = "queued", !.status = "in_flight", !.stamp = 0,
                           !.hops = 0]

\* The correlation of the new call carries the position, ledger and count on.
NextRecord(w) ==
    [worker[w].next EXCEPT !.voice = "queued", !.status = "in_flight", !.stamp = 0]

\* The correlation of the new call is put.
Create(w) ==
    LET n == worker[w].new
    IN /\ At(w, "create")
       /\ \/ /\ corr' = [corr EXCEPT ![n] = NextRecord(w)]
             /\ lapsed' = [lapsed EXCEPT ![n] = FALSE]
             /\ Goto(w, "repoint")
          \/ /\ Fault("create")
             /\ Goto(w, "abandon")
             /\ UNCHANGED <<corr, lapsed>>
       /\ UNCHANGED <<reception, line, dialer>>

\* repointProviderCall; what it refuses or throws ends in hanging up.
Repoint(w) ==
    /\ At(w, "repoint")
    /\ \/ /\ reception.state = "calling"
          /\ reception' = [reception EXCEPT !.call = worker[w].new]
          /\ Finish(w) \/ (Fault("repoint") /\ Goto(w, "abandon"))
       \/ /\ reception.state # "calling" \/ Fault("repoint")
          /\ Goto(w, "abandon")
          /\ UNCHANGED reception
    /\ UNCHANGED <<corr, lapsed, line, dialer>>

\* hangUpIfRinging, best effort.
HangUp(c) == line' = IF c # NoCall /\ line[c] = "ringing"
                     THEN [line EXCEPT ![c] = "over"] ELSE line

Abandon(w) ==
    /\ At(w, "abandon")
    /\ HangUp(worker[w].new) \/ UNCHANGED line
    /\ Finish(w)
    /\ UNCHANGED <<reception, corr, lapsed, dialer>>

\* Mutation of Save: a put in place of updateIf.
SaveByPut(w) ==
    /\ At(w, "save")
    /\ corr' = [corr EXCEPT ![worker[w].call] =
                   [worker[w].next EXCEPT !.stamp = corr[worker[w].call].stamp + 1]]
    /\ Finish(w)
    /\ UNCHANGED <<reception, lapsed, line, dialer>>

\* The save of applyVoiceEventToCorrelation; who loses the race does nothing.
Save(w) ==
    /\ At(w, "save")
    /\ \/ WriteIfUnchanged(w, worker[w].next)
       \/ Fault("save") /\ UNCHANGED corr
    /\ Finish(w)
    /\ UNCHANGED <<reception, lapsed, line, dialer>>

Webhook(w) == \/ Check(w) \/ Reserve(w) \/ ReserveThrows(w) \/ Dial(w)
              \/ Unreached(w) \/ Create(w) \/ Repoint(w) \/ Abandon(w) \/ Save(w)

-----------------------------------------------------------------------------
\* runVoiceRoutedCall: the first hop is placed, and then its record is put.
FirstDial(n) ==
    /\ n \in FirstCalls /\ line[n] = "free"
    /\ line' = [line EXCEPT ![n] = "ringing"]
    /\ UNCHANGED <<reception, corr, lapsed, dialer, worker>>

FirstCreate(n) ==
    LET start == StartRouting(Policies, Entry)
    IN /\ n \in FirstCalls /\ line[n] # "free"
       /\ corr[n].status = "none"
       /\ corr' = [corr EXCEPT ![n] = [NoRecord EXCEPT !.status = "in_flight",
                                       !.policy = start.policy, !.step = start.step]]
       /\ UNCHANGED <<reception, lapsed, line, dialer, worker>>

\* A call ends, at the provider or because somebody hangs it up.
EndCall(c) ==
    /\ line[c] = "ringing"
    /\ line' = [line EXCEPT ![c] = "over"]
    /\ UNCHANGED <<reception, corr, lapsed, dialer, worker>>

\* Time passes beyond dialExpiresAt.
Lapse(c) ==
    /\ corr[c].status # "none" /\ ~lapsed[c]
    /\ lapsed' = [lapsed EXCEPT ![c] = TRUE]
    /\ UNCHANGED <<reception, corr, line, dialer, worker>>

\* The rest of the program writes the reception.
Elsewhere(r) ==
    /\ reception' = r
    /\ UNCHANGED <<corr, lapsed, line, dialer, worker>>

Next == \/ \E w \in Workers : Webhook(w) \/ \E m \in Messages : Receive(w, m)
        \/ \E c \in Calls : FirstDial(c) \/ FirstCreate(c) \/ EndCall(c) \/ Lapse(c)
        \/ \E r \in [state : ReceptionStates, call : Calls \cup {NoCall}] : Elsewhere(r)

Spec == Init /\ [][Next]_vars

-----------------------------------------------------------------------------
Labels == {"idle", "check", "reserve", "dial", "unreached", "create", "repoint",
           "abandon", "save"}

\* The types of the state.
TypeOK ==
    /\ reception \in [state : ReceptionStates, call : Calls \cup {NoCall}]
    /\ corr \in [Calls -> Correlations]
    /\ lapsed \in [Calls -> BOOLEAN]
    /\ line \in [Calls -> {"free", "ringing", "over"}]
    /\ dialer \in [Calls -> Calls \cup {NoCall}]
    /\ worker \in [Workers -> [at : Labels, call : Calls \cup {NoCall},
                                event : VoiceEvents, seen : Correlations,
                                next : Correlations, new : Calls \cup {NoCall}]]

\* However many webhooks report the end of a call, in whatever order and on
\* whatever servers, and whichever write fails, at most one next call is dialed
\* because of it.  This holds even when two writes carry the same time.
OneChild == \A a, b \in Calls : dialer[a] = dialer[b] /\ dialer[a] # NoCall => a = b

\* Once a record says that a member of staff takes the visitor, no call has
\* been or will be dialed because of that call.
AcceptedStops == \A n \in Calls :
    dialer[n] # NoCall => corr[dialer[n]].voice \notin Success

\* The record of a next call continues the routing of the call before it: one
\* hop further, with every handled report and the spent event budget carried
\* on, so that no bound starts again at a new record.
ChainCarries == \A n \in Calls :
    LET before == corr[dialer[n]] IN
    dialer[n] # NoCall /\ corr[n].status # "none" =>
        /\ before.status = "settled"
        /\ corr[n].hops = before.hops + 1
        /\ before.ledger \subseteq corr[n].ledger
        /\ corr[n].count >= before.count /\ before.count > 0

\* A routing places at most MaxHops calls.
PlacedCalls == {c \in Calls : line[c] # "free"}
DialsBounded ==
    Cardinality(PlacedCalls) <= MaxHops * Cardinality(PlacedCalls \cap FirstCalls)

\* A record that is settled is settled for good: no late or concurrent
\* webhook reopens it or takes another hop from it.
SettledStays == [][\A c \in Calls : corr[c].status = "settled" =>
                        /\ corr'[c].status = "settled"
                        /\ corr'[c].hops = corr[c].hops]_vars

\* Whoever loses the race to save does nothing (voice-event.ts:131 "the side
\* that won is right"), and still the member of staff is told that the choice
\* was taken (choice/route.ts:56).  Then an acceptance that was handled
\* without an error should have decided the call.
AcceptanceKept == [][\A w \in Workers :
    /\ worker[w].at = "save" /\ worker'[w].at = "idle"
    /\ worker[w].event \in {"accept", "coming"}
    => corr'[worker[w].call].voice \in Decided]_vars
=============================================================================
