----------------------------- MODULE CallSystem -----------------------------
(***************************************************************************)
(* One reception whose call goes over a telephone provider, whole: the      *)
(* store functions of ReceptionStore, the webhooks of HopDial and, here,   *)
(* the kiosk routes that call them,                                        *)
(*   src/src/app/api/kiosk/receptions/[id]/call, status, cancel, give-up,  *)
(* with resolve-pending-call.ts and runVoiceRoutedCall.                    *)
(*                                                                         *)
(* A request is one HTTP request of the kiosk.  A poll of /status starts   *)
(* over when it is answered; the other requests are sent once.             *)
(***************************************************************************)
EXTENDS ReceptionState, Naturals, FiniteSets

CONSTANTS Posts, Polls, Cancels, GiveUps,   \* requests, by route
          Workers, Calls, NoCall, FirstCalls, Heard, Policies, NoPolicy, Entry,
          MaxHops, MaxEvents, Faults        \* as in HopDial

Requests == Posts \cup Polls \cup Cancels \cup GiveUps

VARIABLES
    rec, logs, op,                          \* as in ReceptionStore
    corr, lapsed, line, dialer, worker,     \* as in HopDial
    hand                                    \* hand[p]: the progress of a route

vars == <<rec, logs, op, corr, lapsed, line, dialer, worker, hand>>
storeVars == <<rec, logs, op>>
hopVars == <<corr, lapsed, line, dialer, worker>>

\* What HopDial sees of the reception.
reception == [state |-> rec.state, call |-> rec.call]

S == INSTANCE ReceptionStore WITH StartAlone <- FALSE, Failing <- FALSE,
         Functions <- {"start", "cancel", "connected", "timeout", "failed"}
H == INSTANCE HopDial WITH ReceptionStates <- States, ClockTicks <- TRUE

ASSUME PartsAssumption == S!StoreAssumption /\ H!HopDialAssumption

\* The kiosk sends finitely many requests, each of them to one route.
ASSUME PostsAssumption == IsFiniteSet(Posts) /\ Posts \cap Polls = {}

Arrived == [at |-> "new", state |-> "confirming", call |-> NoCall]

Init == S!Init /\ H!Init /\ hand = [p \in Requests |-> Arrived]

At(p, label) == hand[p].at = label

\* The route has read the reception it owns.
Reads(p, label) ==
    hand' = [hand EXCEPT ![p] = [at |-> label, state |-> rec.state, call |-> rec.call]]

Goto(p, label) == hand' = [hand EXCEPT ![p].at = label]

-----------------------------------------------------------------------------
\* POST /call: requireOwnedReception does not look at the state.  A request
\* refused for the opening hours changes nothing; one that goes to the mock
\* adapter is not modelled.
CallArrives(p) ==
    /\ p \in Posts /\ At(p, "new")
    /\ Reads(p, "dial")
    /\ UNCHANGED <<storeVars, hopVars>>

\* Dialing is disabled, or there is no usable route: refuseToDial marks the
\* reception failed.
CallRefuses(p) ==
    /\ p \in Posts /\ At(p, "new")
    /\ S!Begin(p, "failed", S!NoInput)
    /\ Goto(p, "store")
    /\ UNCHANGED hopVars

StartWith(p, status, call) ==
    S!Begin(p, "start", [status |-> status, call |-> call])

\* runVoiceRoutedCall: the provider takes the call or refuses it, ...
CallDials(p) ==
    /\ At(p, "dial")
    /\ \/ /\ UNCHANGED storeVars
          /\ \E n \in FirstCalls :
                /\ H!FirstDial(n)
                /\ hand' = [hand EXCEPT ![p].at = "create", ![p].call = n]
       \/ /\ "dial" \in Faults
          /\ StartWith(p, "failed", NoCall)
          /\ Goto(p, "store")
          /\ UNCHANGED hopVars

\* Mutation of CallCreates: the record of the call is left out.
CallCreatesNothing(p) ==
    /\ At(p, "create")
    /\ StartWith(p, "calling", hand[p].call)
    /\ Goto(p, "store")
    /\ UNCHANGED hopVars

\* ... the record of the call is put or that fails, and startCall is called
\* with the result.
CallCreates(p) ==
    /\ At(p, "create")
    /\ \/ StartWith(p, "calling", hand[p].call) /\ H!FirstCreate(hand[p].call)
       \/ "create" \in Faults /\ StartWith(p, "failed", NoCall) /\ UNCHANGED hopVars
    /\ Goto(p, "store")

-----------------------------------------------------------------------------
\* GET /status and resolvePendingCall: only a reception that is calling and
\* has a provider call may be settled.
StatusArrives(p) ==
    /\ p \in Polls /\ At(p, "new")
    /\ rec.state = "calling" /\ rec.call # NoCall
    /\ Reads(p, "resolve")
    /\ UNCHANGED <<storeVars, hopVars>>

\* Mutations of Resolution: every call that is over counts as taken; the dial budget is not looked at.
ResolutionOver(c) ==
    IF corr[c].voice \in H!Decided THEN "connected"
    ELSE IF lapsed[c] THEN "timeout" ELSE "pending"
ResolutionUnbounded(c) ==
    CASE corr[c].voice \in H!Success -> "connected"
      [] corr[c].voice = "failed"    -> "failed"
      [] corr[c].voice \in H!Decided \ (H!Success \cup {"failed"}) -> "timeout"
      [] OTHER -> "pending"

\* resolveCallResolution: the state of the call first, the dial budget second.
Resolution(c) ==
    CASE corr[c].voice \in H!Success -> "connected"
      [] corr[c].voice = "failed"    -> "failed"
      [] corr[c].voice \in H!Decided \ (H!Success \cup {"failed"}) -> "timeout"
      [] OTHER -> IF lapsed[c] THEN "timeout" ELSE "pending"

StatusResolves(p) ==
    LET c == hand[p].call IN
    /\ At(p, "resolve")
    /\ IF corr[c].status = "none" \/ Resolution(c) = "pending"
       THEN /\ hand' = [hand EXCEPT ![p] = Arrived]
            /\ UNCHANGED storeVars
       ELSE /\ S!Begin(p, Resolution(c), S!NoInput)
            /\ Goto(p, "store")
    /\ UNCHANGED hopVars

\* The answer, and the next poll.
StatusAnswers(p) ==
    /\ p \in Polls /\ At(p, "store") /\ op[p].at = "done"
    /\ hand' = [hand EXCEPT ![p] = Arrived]
    /\ op' = [op EXCEPT ![p] = S!Idle]
    /\ UNCHANGED <<rec, logs, hopVars>>

-----------------------------------------------------------------------------
\* POST /cancel reads the call id, cancels, and hangs up if it has cancelled.
CancelArrives(p) ==
    /\ p \in Cancels /\ At(p, "new")
    /\ Reads(p, "store")
    /\ S!Begin(p, "cancel", S!NoInput)
    /\ UNCHANGED hopVars

\* POST /give-up does nothing to a reception that is not calling; otherwise it
\* marks it failed and hangs up, whether or not markCallFailed has won.
GiveUpArrives(p) ==
    /\ p \in GiveUps /\ At(p, "new")
    /\ IF rec.state = "calling"
       THEN S!Begin(p, "failed", S!NoInput) /\ Reads(p, "store")
       ELSE UNCHANGED storeVars /\ Reads(p, "done")
    /\ UNCHANGED hopVars

\* Mutation of HangsUp: the record of the call is settled by a put, too.
HangsUpAndSettles(p) ==
    /\ p \in Cancels \cup GiveUps /\ At(p, "store") /\ op[p].at = "done"
    /\ hand[p].call # NoCall
    /\ Goto(p, "done")
    /\ line' = [line EXCEPT ![hand[p].call] = "over"]
    /\ corr' = [corr EXCEPT ![hand[p].call].status = "settled"]
    /\ UNCHANGED <<storeVars, lapsed, dialer, worker>>

\* hangUpIfRinging on the call id read on arrival.
HangsUp(p) ==
    LET c == hand[p].call IN
    /\ p \in Cancels \cup GiveUps /\ At(p, "store") /\ op[p].at = "done"
    /\ Goto(p, "done")
    /\ UNCHANGED storeVars
    /\ IF (p \in Cancels => op[p].ok) /\ c # NoCall /\ line[c] = "ringing"
       THEN H!EndCall(c) ELSE UNCHANGED hopVars

\* One step of the store function a route has called.
StoreStep(p) == At(p, "store") /\ S!Step(p) /\ UNCHANGED <<hopVars, hand>>

Route(p) == \/ CallArrives(p) \/ CallRefuses(p) \/ CallDials(p) \/ CallCreates(p)
            \/ StatusArrives(p) \/ StatusResolves(p) \/ StatusAnswers(p)
            \/ CancelArrives(p) \/ GiveUpArrives(p) \/ HangsUp(p) \/ StoreStep(p)

-----------------------------------------------------------------------------
\* The reports that a call is over.
Final == {"busy", "cancelled", "unanswered", "disconnected", "timeout", "rejected",
          "failed", "completed"}

\* The provider reports the end of a call after it.
Report(w, message) ==
    /\ message[2] \in Final => line[message[1]] = "over"
    /\ UNCHANGED <<storeVars, hand>>
    /\ H!Receive(w, message)

\* A webhook changes the reception only by repointing it to the call it dialed.
WebhookStep(w) ==
    /\ rec' \in {rec, [rec EXCEPT !.call = worker[w].new]}
    /\ H!Webhook(w)
    /\ UNCHANGED <<logs, op, hand>>

EndCall(c) == UNCHANGED <<storeVars, hand>> /\ H!EndCall(c)
Lapse(c) == UNCHANGED <<storeVars, hand>> /\ H!Lapse(c)

Next == \/ \E p \in Requests : Route(p)
        \/ \E w \in Workers : WebhookStep(w) \/ \E m \in H!Messages : Report(w, m)
        \/ \E c \in Calls : EndCall(c) \/ Lapse(c)

Spec == Init /\ [][Next]_vars

\* Handlers that run finish, the kiosk goes on polling, and time passes.  The
\* kiosk need not cancel or give up.
Fairness == /\ \A p \in Posts \cup Polls : WF_vars(Route(p))
            /\ \A p \in Cancels \cup GiveUps : WF_vars(StoreStep(p) \/ HangsUp(p))
            /\ \A w \in Workers : WF_vars(WebhookStep(w))
            /\ \A c \in Calls : WF_vars(Lapse(c))

FairSpec == Spec /\ Fairness

-----------------------------------------------------------------------------
\* The types of the state; those of the parts are S!TypeOK and H!TypeOK.
TypeOK ==
    /\ S!TypeOK /\ H!TypeOK
    /\ hand \in [Requests -> [at : {"new", "dial", "create", "resolve", "store", "done"},
                              state : States, call : Calls \cup {NoCall}]]

\* The whole is an environment in which the webhooks of HopDial run: every
\* invariant and action property of HopDial holds of it.
HopSpec == H!Spec

\* A visitor who is told that somebody answers is told the truth: some member
\* of staff has taken one of the calls of the reception.
ConnectedIsAnswered ==
    rec.state = "connected" => \E c \in Calls : corr[c].voice \in H!Success

\* The reception never points at a call without a record, whose result /status
\* could never learn.
PointsAtRecord == rec.call # NoCall => corr[rec.call].status # "none"

\* The phones of two members of staff do not ring at once for one visitor
\* (when nobody declines by key and stays on the line).
OneRinging == Cardinality({c \in Calls : line[c] = "ringing"}) <= Cardinality(Posts)

\* A visitor who waits is not left waiting, even when no webhook ever arrives.
CallEnds == (rec.state = "calling") ~> (rec.state # "calling")

\* However its call has ended, a reception that was not answered reaches the
\* history (recordReceptionOutcome), whatever the other routes do beside it.
EndedIsFiled == S!EndedIsFiled

\* While a next call rings, the visitor is not told that nobody answered
\* (next-hop-dial.ts:17, reception-store.ts:321): a reception times out on the
\* result, or the spent dial budget, of the call it waits for.
TimeoutIsCurrent ==
    [][rec.state = "calling" /\ rec'.state = "timeout" => Resolution(rec.call) = "timeout"]_vars

\* After a cancelled reception no phone rings for nobody (cancel/route.ts:14):
\* when every handler has ended, the hang-up has reached the call in progress.
AllEnded == /\ \A p \in Requests \ Polls : At(p, "done") \/ (p \in Posts /\ op[p].at = "done")
            /\ \A w \in Workers : worker[w].at = "idle"

NoUnattendedCall ==
    AllEnded /\ rec.state = "cancelled" => \A c \in Calls : line[c] # "ringing"

\* /give-up leaves the call of a visitor alone who has just been connected
\* (give-up/route.ts:41).
GiveUpSparesConnected ==
    [][\A p \in GiveUps : HangsUp(p) /\ rec.state = "connected" => UNCHANGED line]_vars

\* A routing stops before its next call only because the reception has been
\* cancelled or settled (next-hop-dial.ts:102), not because it has not begun.
RefusedOnlyAfterCalling ==
    [][\A w \in Workers :
         worker[w].at = "check" /\ worker'[w].at = "save" => rec.state # "confirming"]_vars
=============================================================================
