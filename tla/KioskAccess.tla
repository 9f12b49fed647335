----------------------------- MODULE KioskAccess -----------------------------
(***************************************************************************)
(* Who may run a reception terminal: the device registry with its          *)
(* enrolment links and credentials (DeviceService), and the authorization  *)
(* by PIN of an enrolled terminal (the authorize route), whose attempts    *)
(* are counted per origin and over all (attempt-store.ts).                 *)
(*                                                                         *)
(* Every backend call is a step.  A request reads a record, decides, and   *)
(* writes on the condition that what it has read still stands.             *)
(***************************************************************************)
EXTENDS Naturals, FiniteSets

CONSTANTS
    Requests,      \* the requests that run at a time
    Origins,       \* the addresses that attempts come from
    Global,        \* the key all origins share; the origin when there is none
    Anonymous,     \* some attempts have no origin
    Budget,        \* the attempts a key admits in a window
    Window,        \* the length of a window
    Skew,          \* the tolerated difference of clocks
    CasRetries,    \* the tries of a conditional write
    MaxTime,       \* bound: the clock
    MaxTokens,     \* bound: the links that are issued
    MaxGeneration, \* bound: the generations of the credentials
    None

Keys == Origins \cup {Global}
Times == 0 .. MaxTime
Never == MaxTime + Skew + 1    \* a time no clock reaches
Tokens == 1 .. MaxTokens
Generations == 0 .. MaxGeneration

ASSUME TimesAssumption == MaxTime \in Nat /\ Window \in Nat \ {0} /\ Skew \in Nat
ASSUME BoundsAssumption ==
    CasRetries \in Nat \ {0} /\ MaxTokens \in Nat /\ MaxGeneration \in Nat
ASSUME BudgetAssumption == Budget \in [Keys -> Nat \ {0}]
ASSUME OriginsAssumption == Anonymous \in BOOLEAN /\ Global \notin Origins

VARIABLES
    clock,
    window,       \* the stored attempts of every key
    device,       \* the stored device
    issued,       \* the links issued so far; they are numbered
    credentials,  \* the credentials that terminals hold
    session,      \* a terminal holds a session
    op,           \* the requests
    entries,      \* the attempts each key has admitted, by window (not in the code)
    consumed,     \* how often each link was consumed (not in the code)
    latest,       \* the link of the credential that counts (not in the code)
    stopped       \* the links issued before the last switch (not in the code)

deviceVars == <<device, issued, credentials, consumed, latest, stopped>>
attemptVars == <<window, entries>>
vars == <<clock, session, op, deviceVars, attemptVars>>

Statuses == {"active", "revoked"}
Devices == [status : Statuses, token : Tokens \cup {None}, generation : Generations]
Records == [startedAt : Times \cup {Never}, attempts : Nat]

ASSUME NoneAssumption == None \notin Records \cup Devices \cup Tokens \cup Keys

\* A record nothing in this code has written: its window starts in the far future.
Broken == [startedAt |-> Never, attempts |-> Budget[Global]]

Free == [at |-> "done", key |-> None, origin |-> None, now |-> 0, seen |-> None,
         tries |-> 0, want |-> None]

Nothing == [s \in Times |-> 0]

Init == /\ clock = 0
        /\ window \in [Keys -> {None, Broken}]
        /\ device = [status |-> "active", token |-> None, generation |-> 0]
        /\ issued = 0 /\ credentials = {} /\ session = FALSE
        /\ op = [p \in Requests |-> Free]
        /\ entries = [k \in Keys |-> Nothing]
        /\ consumed = [j \in Tokens |-> 0] /\ latest = None /\ stopped = 0

-----------------------------------------------------------------------------
\* The budget of attempts (attempt-budget.ts, toWindow).

Readable(r, now) == r # None /\ r.startedAt <= now + Skew

OpenLong(r, now) == Readable(r, now) /\ ~(now > r.startedAt + Window)   \* mutant: > for >=

OpenShort(r, now) == Readable(r, now) /\ now + 1 < r.startedAt + Window   \* mutant: too short by one

Open(r, now) == Readable(r, now) /\ now < r.startedAt + Window

Full(k, r, now) == Open(r, now) /\ r.attempts >= Budget[k]

Counted(r, now) == IF Open(r, now) THEN [r EXCEPT !.attempts = @ + 1]
                   ELSE [startedAt |-> now, attempts |-> 1]

-----------------------------------------------------------------------------
\* The authorization by PIN.

\* The registry is read: only an enrolled device goes on to the attempt.
Authorize(p) ==
    /\ op[p].at = "done"
    /\ device.status = "active"
    /\ session \/ \E c \in credentials : c.generation = device.generation
    /\ \E k \in IF Anonymous THEN Keys ELSE Origins :
         op' = [op EXCEPT ![p] = [Free EXCEPT !.at = "get", !.key = k, !.origin = k, !.now = clock]]
    /\ UNCHANGED <<clock, session, deviceVars, attemptVars>>

Refused(p) == /\ op[p].at = "get"
              /\ Full(op[p].key, window[op[p].key], op[p].now)
              /\ op' = [op EXCEPT ![p] = Free]
              /\ UNCHANGED <<clock, session, deviceVars, attemptVars>>

Get(p) == /\ op[p].at = "get"
          /\ ~Full(op[p].key, window[op[p].key], op[p].now)
          /\ op' = [op EXCEPT ![p].at = "cas", ![p].seen = window[op[p].key]]
          /\ UNCHANGED <<clock, session, deviceVars, attemptVars>>

\* The own budget of the origin comes first, then the budget of all.
Admitted(p) ==
    op' = [op EXCEPT ![p] = IF @.key = Global THEN [@ EXCEPT !.at = "verify", !.seen = None]
                            ELSE [@ EXCEPT !.at = "get", !.key = Global, !.seen = None, !.tries = 0]]


\* The tries are used up: the request is answered as if the store had failed.
Retry(p) ==
    op' = [op EXCEPT ![p] =
             IF op[p].tries + 1 < CasRetries
             THEN [op[p] EXCEPT !.at = "get", !.tries = op[p].tries + 1, !.seen = None] ELSE Free]

CasAlways(p) ==     \* mutant: the window is put whatever it is now
    LET k == op[p].key
        r == Counted(op[p].seen, op[p].now) IN
    /\ op[p].at = "cas"
    /\ window' = [window EXCEPT ![k] = r]
    /\ entries' = [entries EXCEPT ![k][r.startedAt] = @ + 1]
    /\ Admitted(p)
    /\ UNCHANGED <<clock, session, deviceVars>>

Cas(p) ==
    LET k == op[p].key
        r == Counted(op[p].seen, op[p].now) IN
    /\ op[p].at = "cas"
    /\ IF window[k] = op[p].seen
       THEN /\ window' = [window EXCEPT ![k] = r]
            /\ entries' = [entries EXCEPT ![k][r.startedAt] = @ + 1]
            /\ Admitted(p)
       ELSE Retry(p) /\ UNCHANGED attemptVars
    /\ UNCHANGED <<clock, session, deviceVars>>

\* The PIN is right.  A wrong one ends the request (Abandon).
Verify(p) == /\ op[p].at = "verify"
             /\ op' = [op EXCEPT ![p].at = "forget", ![p].key = op[p].origin]
             /\ UNCHANGED <<clock, session, deviceVars, attemptVars>>

\* A success drops the windows of the origin and of all; when that fails the
\* session is issued nevertheless.
Forget(p) ==
    LET k == op[p].key IN
    /\ op[p].at = "forget"
    /\ \/ /\ window' = [window EXCEPT ![k] = None]
          /\ entries' = [entries EXCEPT ![k] = Nothing]
          /\ IF k = Global THEN session' = TRUE /\ op' = [op EXCEPT ![p] = Free]
             ELSE op' = [op EXCEPT ![p].key = Global] /\ UNCHANGED session
       \/ session' = TRUE /\ op' = [op EXCEPT ![p] = Free] /\ UNCHANGED attemptVars
    /\ UNCHANGED <<clock, deviceVars>>

-----------------------------------------------------------------------------
\* The registry.  A link is issued without a condition.

Issue == /\ issued < MaxTokens
         /\ issued' = issued + 1
         /\ device' = [device EXCEPT !.token = issued + 1]
         /\ UNCHANGED <<clock, session, op, credentials, consumed, latest, stopped, attemptVars>>

\* A terminal opens a link: the registry is read and the link checked.
Enroll(p) ==
    /\ op[p].at = "done"
    /\ device.token # None /\ device.status = "active" /\ device.generation < MaxGeneration
    /\ op' = [op EXCEPT ![p] = [Free EXCEPT !.at = "consume", !.seen = device]]
    /\ UNCHANGED <<clock, session, deviceVars, attemptVars>>

\* The link is consumed; the answer with the credential may be lost.
Consumes(p) ==
    LET seen == op[p].seen
        made == [token |-> seen.token, generation |-> seen.generation + 1] IN
    /\ device' = [device EXCEPT !.token = None, !.generation = made.generation]
    /\ consumed' = [consumed EXCEPT ![seen.token] = @ + 1]
    /\ latest' = seen.token
    /\ \E delivered \in BOOLEAN :
         IF delivered THEN credentials' = credentials \cup {made} /\ session' = TRUE
         ELSE UNCHANGED <<credentials, session>>

ConsumeAlways(p) ==     \* mutant: the changed copy is put
    /\ op[p].at = "consume"
    /\ Consumes(p)
    /\ op' = [op EXCEPT ![p] = Free]
    /\ UNCHANGED <<clock, issued, stopped, attemptVars>>

Consume(p) ==
    /\ op[p].at = "consume"
    /\ IF device.token = op[p].seen.token /\ device.generation = op[p].seen.generation
       THEN Consumes(p)
       ELSE UNCHANGED <<session, device, credentials, consumed, latest>>
    /\ op' = [op EXCEPT ![p] = Free]
    /\ UNCHANGED <<clock, issued, stopped, attemptVars>>

\* An administrator enables or disables the device; the copy of a kiosk's
\* state (syncKioskState) does nothing when the status is the same.
Switch(p, status) ==
    /\ op[p].at = "done" /\ device.generation < MaxGeneration
    /\ op' = [op EXCEPT ![p] = [Free EXCEPT !.at = "change", !.seen = device, !.want = status]]
    /\ UNCHANGED <<clock, session, deviceVars, attemptVars>>

GenerationKept(seen, status) == seen.generation     \* mutant: a switch keeps the generation

GenerationAfter(seen, status) ==
    IF seen.status = status THEN seen.generation ELSE seen.generation + 1

ChangeKeepsLink(p) ==     \* mutant: the pending link survives the switch
    LET seen == op[p].seen
        want == op[p].want IN
    /\ op[p].at = "change"
    /\ IF device.generation = seen.generation
       THEN /\ device' = [device EXCEPT !.status = want, !.generation = GenerationAfter(seen, want)]
            /\ latest' = IF seen.status = want THEN latest ELSE None
            /\ stopped' = issued
            /\ op' = [op EXCEPT ![p] = Free]
       ELSE /\ op' = [op EXCEPT ![p].seen = device] /\ UNCHANGED <<device, latest, stopped>>
    /\ UNCHANGED <<clock, session, issued, credentials, consumed, attemptVars>>

\* The switch is written if no generation has passed; else it starts again
\* from what is stored now, a bounded number of times.
Change(p) ==
    LET seen == op[p].seen
        want == op[p].want IN
    /\ op[p].at = "change"
    /\ IF device.generation = seen.generation
       THEN /\ device' = [status |-> want, token |-> None,
                          generation |-> GenerationAfter(seen, want)]
            /\ latest' = IF seen.status = want THEN latest ELSE None
            /\ stopped' = issued
            /\ op' = [op EXCEPT ![p] = Free]
       ELSE /\ op' = [op EXCEPT ![p] =
                        IF op[p].tries + 1 < CasRetries /\ device.generation < MaxGeneration
                        THEN [op[p] EXCEPT !.tries = op[p].tries + 1, !.seen = device] ELSE Free]
            /\ UNCHANGED <<device, latest, stopped>>
    /\ UNCHANGED <<clock, session, issued, credentials, consumed, attemptVars>>

-----------------------------------------------------------------------------
\* A request fails, or its answer is lost after its write took effect.
Abandon(p) == /\ op[p].at # "done"
              /\ op' = [op EXCEPT ![p] = Free]
              /\ UNCHANGED <<clock, session, deviceVars, attemptVars>>

SessionEnds == session /\ session' = FALSE
               /\ UNCHANGED <<clock, op, deviceVars, attemptVars>>

\* A request is over, and a clock behind by, no more than Skew.
Tick == /\ clock < MaxTime
        /\ \A p \in Requests : op[p].at \in {"get", "cas"} => clock < op[p].now + Skew
        /\ clock' = clock + 1
        /\ UNCHANGED <<session, op, deviceVars, attemptVars>>

Next == \/ \E p \in Requests :
             \/ Authorize(p) \/ Refused(p) \/ Get(p) \/ Cas(p) \/ Verify(p) \/ Forget(p)
             \/ Enroll(p) \/ Consume(p) \/ Change(p) \/ Abandon(p)
             \/ \E status \in Statuses : Switch(p, status)
        \/ Issue \/ SessionEnds \/ Tick

Spec == Init /\ [][Next]_vars

-----------------------------------------------------------------------------
Ops == [at : {"done", "get", "cas", "verify", "forget", "consume", "change"},
        key : Keys \cup {None}, origin : Keys \cup {None}, now : Times,
        seen : Records \cup Devices \cup {None}, tries : 0 .. CasRetries - 1,
        want : Statuses \cup {None}]

TypeOK ==
    /\ clock \in Times /\ session \in BOOLEAN
    /\ window \in [Keys -> Records \cup {None}]
    /\ device \in Devices /\ issued \in 0 .. MaxTokens /\ stopped \in 0 .. MaxTokens
    /\ credentials \subseteq [token : Tokens, generation : Generations]
    /\ op \in [Requests -> Ops]
    /\ entries \in [Keys -> [Times -> Nat]]
    /\ consumed \in [Tokens -> Nat] /\ latest \in Tokens \cup {None}

\* The upper bound of attempt-budget.ts: however many requests come at once
\* and whenever a window is opened again, a window admits its budget of
\* attempts at most, unless one of them was right.
WindowBudget == \A k \in Keys, s \in Times : entries[k][s] <= Budget[k]

\* The windows that have admitted attempts do not overlap.
WindowsApart ==
    \A k \in Keys, s, t \in Times :
      entries[k][s] > 0 /\ entries[k][t] > 0 /\ s < t => s + Window <= t

\* The lower bound: an attempt is refused only because the budget was really
\* used within the last window (and the tolerated difference of clocks), and
\* never because of a record that nobody can have written.
RefusedForCause ==
    [][\A p \in Requests : Refused(p) =>
         \E s \in Times : /\ s + Window > op[p].now /\ s <= op[p].now + Skew
                          /\ entries[op[p].key][s] >= Budget[op[p].key]]_vars

\* A link enrols one terminal, however many open it at once.
EnrolledOnce == \A j \in Tokens : consumed[j] <= 1

\* A link that was pending when the device was switched on or off enrols
\* nobody afterwards, and a disabled device enrols nobody (setEnabled).
LinksStop ==
    [][\A j \in Tokens : consumed'[j] > consumed[j] => j > stopped /\ device.status = "active"]_vars

\* Only the credential of the last enrolment is accepted, and none from
\* before the device was last switched on or off (device-credential.ts).
AcceptedIsLatest ==
    \A c \in credentials : c.generation = device.generation => c.token = latest
=============================================================================
