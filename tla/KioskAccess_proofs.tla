-------------------------- MODULE KioskAccess_proofs --------------------------
(***************************************************************************)
(* Theorems about the access of terminals, for any number of requests,     *)
(* origins, links and any budgets.                                         *)
(***************************************************************************)
EXTENDS KioskAccess, TLAPS

\* What a request that is under way knows about the clock.
OnTime(p) == op[p].at \in {"get", "cas"} => /\ op[p].key \in Keys
                                            /\ op[p].now <= clock
                                            /\ clock <= op[p].now + Skew

\* A request that is about to count has seen a window with room.
SawRoom(p) == op[p].at = "cas" => /\ op[p].seen \in Records \cup {None}
                                  /\ ~Full(op[p].key, op[p].seen, op[p].now)

\* A success belongs to a key.
Forgets(p) == /\ op[p].at \in {"verify", "forget"} => op[p].origin \in Keys
              /\ op[p].at = "get" => op[p].origin \in Keys
              /\ op[p].at = "cas" => op[p].origin \in Keys
              /\ op[p].at = "forget" => op[p].key \in Keys

\* A record of a window that admits attempts agrees with what was admitted.
Ledger(k) ==
    IF window[k] \in {None, Broken} THEN entries[k] = Nothing
    ELSE /\ window[k].startedAt \in Times /\ window[k].startedAt <= clock
         /\ entries[k][window[k].startedAt] = window[k].attempts /\ window[k].attempts > 0
         /\ \A t \in Times : entries[k][t] > 0 => t <= window[k].startedAt

\* What a request that changes the registry has seen.
SawDevice(p) ==
    /\ op[p].at \in {"consume", "change"} =>
         /\ op[p].seen \in Devices
         /\ op[p].seen.generation < MaxGeneration
         /\ op[p].seen.generation <= device.generation
         /\ op[p].seen.generation = device.generation => op[p].seen.status = device.status
    /\ op[p].at = "consume" => op[p].seen.token \in Tokens /\ op[p].seen.status = "active"
    /\ op[p].at = "change" => op[p].want \in Statuses

\* A pending link is unused and was issued after the last switch; no
\* credential is ahead of the registry.
Registry ==
    /\ stopped <= issued
    /\ device.token # None => /\ device.token <= issued /\ stopped < device.token
                              /\ consumed[device.token] = 0
    /\ \A j \in Tokens : consumed[j] > 0 => j <= issued
    /\ \A c \in credentials : c.generation <= device.generation

Attempts == \A p \in Requests : OnTime(p) /\ SawRoom(p) /\ Forgets(p)

AttemptInv == Attempts /\ (\A k \in Keys : Ledger(k)) /\ WindowBudget /\ WindowsApart

DeviceInv == (\A p \in Requests : SawDevice(p)) /\ Registry /\ EnrolledOnce /\ AcceptedIsLatest

IInv == TypeOK /\ AttemptInv /\ DeviceInv

USE TimesAssumption, BoundsAssumption, BudgetAssumption, OriginsAssumption, NoneAssumption

-----------------------------------------------------------------------------
\* A window with room admits one more attempt and stays in its budget; a
\* window that is over is followed by one that begins with its first attempt.
LEMMA CountedIsRecord ==
    ASSUME NEW r \in Records \cup {None}, NEW now \in Times
    PROVE  Counted(r, now) \in Records /\ Counted(r, now).startedAt \in Times
BY DEF Counted, Open, Readable, Records, Times, Never

\* A try that is left may be used.
LEMMA OneMoreTry ==
    ASSUME NEW o \in Ops, NEW t \in Nat, t < CasRetries
    PROVE  [o EXCEPT !.tries = t] \in Ops
<1>1. t \in 0 .. CasRetries - 1
  OBVIOUS
<1> QED BY <1>1 DEF Ops

LEMMA FreeOps == Free \in Ops
BY DEF Free, Ops, Times

\* A step of a request replaces its progress.
LEMMA OpReplaced ==
    ASSUME op \in [Requests -> Ops], NEW p \in Requests, NEW o \in Ops,
           op' = [op EXCEPT ![p] = o]
    PROVE  /\ op' \in [Requests -> Ops]
           /\ op'[p] = o
           /\ \A q \in Requests : q # p => op'[q] = op[q]
OBVIOUS

LEMMA InitInv == Init => IInv
<1> SUFFICES ASSUME Init PROVE IInv
  OBVIOUS
<1>1. TypeOK
  <2>1. Broken \in Records
    BY DEF Broken, Records, Keys
  <2>2. device \in Devices
    BY DEF Init, Devices, Statuses, Generations
  <2>3. op \in [Requests -> Ops]
    BY FreeOps DEF Init
  <2>4. entries \in [Keys -> [Times -> Nat]]
    BY DEF Init, Nothing
  <2>5. window \in [Keys -> Records \cup {None}]
    BY <2>1 DEF Init
  <2>6. consumed \in [Tokens -> Nat] /\ latest \in Tokens \cup {None} /\ session \in BOOLEAN
    BY DEF Init
  <2>7. /\ clock \in Times /\ issued \in 0 .. MaxTokens /\ stopped \in 0 .. MaxTokens
        /\ credentials \subseteq [token : Tokens, generation : Generations]
    BY DEF Init, Times
  <2> QED BY <2>2, <2>3, <2>4, <2>5, <2>6, <2>7 DEF TypeOK
<1>2. AttemptInv
  <2>1. \A k \in Keys : window[k] \in {None, Broken} /\ entries[k] = Nothing
    BY DEF Init
  <2>2. \A p \in Requests : op[p].at = "done"
    BY DEF Init, Free
  <2>3. WindowBudget /\ WindowsApart
    BY <2>1 DEF WindowBudget, WindowsApart, Nothing, Times
  <2> QED BY <2>1, <2>2, <2>3 DEF AttemptInv, Attempts, OnTime, SawRoom, Forgets, Ledger
<1>3. DeviceInv
  BY DEF Init, DeviceInv, SawDevice, Registry, EnrolledOnce, AcceptedIsLatest, Free, Tokens
<1> QED BY <1>1, <1>2, <1>3 DEF IInv

LEMMA NextTyped == IInv /\ Next => TypeOK'
<1> SUFFICES ASSUME IInv, Next PROVE TypeOK'
  OBVIOUS
<1>0. op \in [Requests -> Ops] /\ TypeOK /\ \A p \in Requests : op[p] \in Ops
  BY DEF IInv, TypeOK
<1>1. ASSUME NEW p \in Requests, NEW o \in Ops, op' = [op EXCEPT ![p] = o],
             UNCHANGED <<clock, session, deviceVars, attemptVars>>
      PROVE  TypeOK'
  BY <1>0, <1>1, OpReplaced DEF TypeOK, deviceVars, attemptVars
<1>2. ASSUME NEW p \in Requests, Authorize(p) PROVE TypeOK'
  <2>1. PICK k \in Keys :
          op' = [op EXCEPT ![p] = [Free EXCEPT !.at = "get", !.key = k, !.origin = k, !.now = clock]]
    BY <1>2 DEF Authorize, Keys
  <2>2. [Free EXCEPT !.at = "get", !.key = k, !.origin = k, !.now = clock] \in Ops
    BY <1>0, FreeOps DEF Ops, TypeOK
  <2> QED BY <1>1, <1>2, <2>1, <2>2 DEF Authorize
<1>3. ASSUME NEW p \in Requests, op' = [op EXCEPT ![p] = Free],
             UNCHANGED <<clock, session, deviceVars, attemptVars>>
      PROVE  TypeOK'
  BY <1>1, <1>3, FreeOps
<1>4. ASSUME NEW p \in Requests, Get(p) PROVE TypeOK'
  <2>1. window[op[p].key] \in Records \cup {None}
    BY <1>4 DEF Get, IInv, TypeOK, AttemptInv, Attempts, OnTime
  <2>2. [op[p] EXCEPT !.at = "cas", !.seen = window[op[p].key]] \in Ops
    BY <1>0, <2>1 DEF Ops
  <2> QED BY <1>1, <1>4, <2>2 DEF Get
<1>5. ASSUME NEW p \in Requests, Cas(p) PROVE TypeOK'
  <2>1. /\ op[p].at = "cas" /\ op[p].key \in Keys /\ op[p].now \in Times
        /\ op[p].seen \in Records \cup {None}
    BY <1>0, <1>5 DEF Cas, Ops, IInv, AttemptInv, Attempts, OnTime, SawRoom
  <2> DEFINE r == Counted(op[p].seen, op[p].now)
             k == op[p].key
  <2>2. r \in Records /\ r.startedAt \in Times
    BY <2>1, CountedIsRecord
  <2>3. CASE window[k] = op[p].seen
    <3> DEFINE o == IF k = Global THEN [op[p] EXCEPT !.at = "verify", !.seen = None]
                    ELSE [op[p] EXCEPT !.at = "get", !.key = Global, !.seen = None, !.tries = 0]
    <3>0. /\ [op[p] EXCEPT !.at = "verify", !.seen = None] \in Ops
          /\ [op[p] EXCEPT !.at = "get", !.key = Global, !.seen = None, !.tries = 0] \in Ops
      <4>1. 0 \in 0 .. CasRetries - 1
        OBVIOUS
      <4>2. Global \in Keys
        BY DEF Keys
      <4>3. op[p] \in Ops
        BY <1>0
      <4> QED BY <4>1, <4>2, <4>3 DEF Ops
    <3>1. o \in Ops
      BY <3>0
    <3>2. op' = [op EXCEPT ![p] = o]
      BY <1>5, <2>3 DEF Cas, Admitted
    <3>3. window' = [window EXCEPT ![k] = r] /\ entries' = [entries EXCEPT ![k][r.startedAt] = @ + 1]
      BY <1>5, <2>3 DEF Cas
    <3>4. window' \in [Keys -> Records \cup {None}]
      BY <1>0, <2>1, <2>2, <3>3 DEF TypeOK
    <3>5. entries' \in [Keys -> [Times -> Nat]]
      BY <1>0, <2>1, <2>2, <3>3 DEF TypeOK
    <3>6. UNCHANGED <<clock, session, deviceVars>>
      BY <1>5 DEF Cas
    <3>7. op' \in [Requests -> Ops]
      BY <1>0, <3>1, <3>2
    <3> QED BY <1>0, <3>4, <3>5, <3>6, <3>7 DEF TypeOK, deviceVars
  <2>4. CASE window[k] # op[p].seen
    <3> DEFINE o == IF op[p].tries + 1 < CasRetries
                    THEN [op[p] EXCEPT !.at = "get", !.tries = op[p].tries + 1, !.seen = None] ELSE Free
    <3>0. op[p].tries + 1 < CasRetries =>
            [op[p] EXCEPT !.at = "get", !.tries = op[p].tries + 1, !.seen = None] \in Ops
      <4> DEFINE o2 == [op[p] EXCEPT !.at = "get", !.seen = None]
      <4>1. o2 \in Ops
        BY <1>0 DEF Ops
      <4>2. op[p].tries + 1 \in Nat
        BY <1>0 DEF Ops
      <4>3. [o2 EXCEPT !.tries = op[p].tries + 1]
              = [op[p] EXCEPT !.at = "get", !.tries = op[p].tries + 1, !.seen = None]
        BY <1>0 DEF Ops
      <4> HIDE DEF o2
      <4> QED BY <4>1, <4>2, <4>3, OneMoreTry
    <3>1. o \in Ops
      BY <3>0, FreeOps
    <3>2. Retry(p) /\ UNCHANGED <<clock, session, deviceVars, attemptVars>>
      BY <1>5, <2>4 DEF Cas
    <3>3. op' = [op EXCEPT ![p] = o]
      BY <3>2 DEF Retry
    <3> HIDE DEF o
    <3> QED BY <1>1, <3>1, <3>2, <3>3
  <2> QED BY <2>3, <2>4
<1>6. ASSUME NEW p \in Requests, Verify(p) PROVE TypeOK'
  <2>1. [op[p] EXCEPT !.at = "forget", !.key = op[p].origin] \in Ops
    BY <1>0 DEF Ops
  <2> QED BY <1>1, <1>6, <2>1 DEF Verify
<1>7. ASSUME NEW p \in Requests, Forget(p) PROVE TypeOK'
  <2> DEFINE k == op[p].key
  <2>1. k \in Keys
    BY <1>7 DEF Forget, IInv, AttemptInv, Attempts, Forgets
  <2>2. [op[p] EXCEPT !.key = Global] \in Ops
    BY <1>0 DEF Ops, Keys
  <2>3. op' \in [Requests -> Ops]
    BY <1>0, <1>7, <2>2, FreeOps DEF Forget
  <2>4. Nothing \in [Times -> Nat]
    BY DEF Nothing
  <2>5. window' \in [Keys -> Records \cup {None}] /\ entries' \in [Keys -> [Times -> Nat]]
    <3>1. CASE UNCHANGED attemptVars
      BY <1>0, <3>1 DEF TypeOK, attemptVars
    <3>2. CASE window' = [window EXCEPT ![k] = None] /\ entries' = [entries EXCEPT ![k] = Nothing]
      BY <1>0, <2>1, <2>4, <3>2 DEF TypeOK
    <3> QED BY <1>7, <3>1, <3>2 DEF Forget
  <2>6. session' \in BOOLEAN
    BY <1>0, <1>7 DEF Forget, TypeOK
  <2> QED BY <1>0, <1>7, <2>3, <2>5, <2>6 DEF Forget, TypeOK, deviceVars
<1>8. ASSUME NEW p \in Requests, Enroll(p) PROVE TypeOK'
  <2>1. [Free EXCEPT !.at = "consume", !.seen = device] \in Ops
    BY <1>0, FreeOps DEF Ops, TypeOK
  <2> QED BY <1>1, <1>8, <2>1 DEF Enroll
<1>9. ASSUME NEW p \in Requests, Consume(p) PROVE TypeOK'
  <2>1. op' \in [Requests -> Ops]
    BY <1>0, <1>9, FreeOps DEF Consume
  <2>2. /\ op[p].seen \in Devices /\ op[p].seen.generation < MaxGeneration
        /\ op[p].seen.token \in Tokens
    BY <1>9 DEF Consume, IInv, DeviceInv, SawDevice
  <2>3. op[p].seen.generation + 1 \in Generations
    BY <2>2 DEF Devices, Generations
  <2>4. CASE Consumes(p)
    <3>1. device' \in Devices
      BY <1>0, <2>3, <2>4 DEF Consumes, TypeOK, Devices
    <3>2. consumed' \in [Tokens -> Nat] /\ latest' \in Tokens \cup {None}
      BY <1>0, <2>2, <2>4 DEF Consumes, TypeOK
    <3>3. credentials' \subseteq [token : Tokens, generation : Generations] /\ session' \in BOOLEAN
      <4> DEFINE made == [token |-> op[p].seen.token, generation |-> op[p].seen.generation + 1]
      <4>1. made \in [token : Tokens, generation : Generations]
        BY <2>2, <2>3
      <4>2. \/ credentials' = credentials \cup {made} /\ session' = TRUE
            \/ credentials' = credentials /\ session' = session
        BY <2>4 DEF Consumes
      <4> HIDE DEF made
      <4> QED BY <1>0, <4>1, <4>2 DEF TypeOK
    <3> QED BY <1>0, <1>9, <2>1, <3>1, <3>2, <3>3 DEF Consume, TypeOK, attemptVars
  <2>5. CASE UNCHANGED <<session, device, credentials, consumed, latest>>
    BY <1>0, <1>9, <2>1, <2>5 DEF Consume, TypeOK, attemptVars
  <2> QED BY <1>9, <2>4, <2>5 DEF Consume
<1>10. ASSUME NEW p \in Requests, Change(p) PROVE TypeOK'
  <2> DEFINE seen == op[p].seen
             want == op[p].want
  <2>1. seen \in Devices /\ seen.generation < MaxGeneration /\ want \in Statuses
    BY <1>10 DEF Change, IInv, DeviceInv, SawDevice
  <2>2. GenerationAfter(seen, want) \in Generations
    BY <2>1 DEF GenerationAfter, Devices, Generations
  <2>3. CASE device.generation = seen.generation
    <3>1. device' \in Devices
      BY <1>10, <2>1, <2>2, <2>3 DEF Change, Devices
    <3>2. op' \in [Requests -> Ops]
      BY <1>0, <1>10, <2>3, FreeOps DEF Change
    <3> QED BY <1>0, <1>10, <2>3, <3>1, <3>2 DEF Change, TypeOK, attemptVars
  <2>4. CASE device.generation # seen.generation
    <3> DEFINE o == IF op[p].tries + 1 < CasRetries /\ device.generation < MaxGeneration
                    THEN [op[p] EXCEPT !.tries = op[p].tries + 1, !.seen = device] ELSE Free
    <3>0. op[p].tries + 1 < CasRetries =>
            [op[p] EXCEPT !.tries = op[p].tries + 1, !.seen = device] \in Ops
      <4> DEFINE o2 == [op[p] EXCEPT !.seen = device]
      <4>1. o2 \in Ops
        BY <1>0 DEF Ops, TypeOK
      <4>2. op[p].tries + 1 \in Nat
        BY <1>0 DEF Ops
      <4>3. [o2 EXCEPT !.tries = op[p].tries + 1]
              = [op[p] EXCEPT !.tries = op[p].tries + 1, !.seen = device]
        BY <1>0 DEF Ops
      <4> HIDE DEF o2
      <4> QED BY <4>1, <4>2, <4>3, OneMoreTry
    <3>1. o \in Ops
      BY <3>0, FreeOps
    <3>2. UNCHANGED <<clock, session, deviceVars, attemptVars>>
      BY <1>10, <2>4 DEF Change, deviceVars, attemptVars
    <3>3. op' = [op EXCEPT ![p] = o]
      BY <1>10, <2>4 DEF Change
    <3> HIDE DEF o
    <3> QED BY <1>1, <3>1, <3>2, <3>3
  <2> QED BY <2>3, <2>4
<1>11. ASSUME NEW p \in Requests, NEW status \in Statuses, Switch(p, status) PROVE TypeOK'
  <2>1. [Free EXCEPT !.at = "change", !.seen = device, !.want = status] \in Ops
    BY <1>0, FreeOps DEF Ops, TypeOK
  <2> QED BY <1>1, <1>11, <2>1 DEF Switch
<1>12. CASE Issue
  <2>1. issued' \in 0 .. MaxTokens /\ issued + 1 \in Tokens
    BY <1>0, <1>12 DEF Issue, TypeOK, Tokens
  <2>2. device' \in Devices
    BY <1>0, <1>12, <2>1 DEF Issue, TypeOK, Devices
  <2> QED BY <1>0, <1>12, <2>1, <2>2 DEF Issue, TypeOK, attemptVars
<1>13. CASE SessionEnds
  BY <1>0, <1>13 DEF SessionEnds, TypeOK, deviceVars, attemptVars
<1>14. CASE Tick
  BY <1>0, <1>14 DEF Tick, TypeOK, Times, deviceVars, attemptVars
<1> QED
  BY <1>2, <1>3, <1>4, <1>5, <1>6, <1>7, <1>8, <1>9, <1>10, <1>11, <1>12, <1>13, <1>14
     DEF Next, Refused, Abandon

-----------------------------------------------------------------------------
\* A request that moves on without touching the windows.
LEMMA AttemptsMove ==
    ASSUME IInv, NEW p \in Requests, NEW o \in Ops, op' = [op EXCEPT ![p] = o],
           clock' = clock, UNCHANGED attemptVars,
           OnTime(p)', SawRoom(p)', Forgets(p)'
    PROVE  AttemptInv'
<1>1. \A q \in Requests : q # p => op'[q] = op[q]
  BY OpReplaced DEF IInv, TypeOK
<1>2. \A q \in Requests : q # p => OnTime(q)' /\ SawRoom(q)' /\ Forgets(q)'
  BY <1>1 DEF IInv, AttemptInv, Attempts, OnTime, SawRoom, Forgets
<1>3. Attempts'
  BY <1>2 DEF Attempts
<1>4. \A k \in Keys : Ledger(k)'
  BY DEF IInv, AttemptInv, Ledger, attemptVars
<1>5. WindowBudget' /\ WindowsApart'
  BY DEF IInv, AttemptInv, WindowBudget, WindowsApart, attemptVars
<1> QED BY <1>3, <1>4, <1>5 DEF AttemptInv

\* One more attempt at the start of the newest window.
LEMMA OneMore ==
    ASSUME NEW e \in [Times -> Nat], NEW f \in [Times -> Nat], NEW u \in Times,
           \A t \in Times : f[t] = IF t = u THEN e[t] + 1 ELSE e[t],
           \A t \in Times : e[t] > 0 => t <= u,
           \A t \in Times : e[t] > 0 /\ t # u => t + Window <= u,
           \A s, t \in Times : e[s] > 0 /\ e[t] > 0 /\ s < t => s + Window <= t
    PROVE  /\ \A t \in Times : f[t] > 0 => t <= u
           /\ \A s, t \in Times : f[s] > 0 /\ f[t] > 0 /\ s < t => s + Window <= t
<1>1. ASSUME NEW t \in Times, f[t] > 0 PROVE t <= u /\ (t # u => e[t] > 0)
  <2>1. CASE t = u
    BY <2>1 DEF Times
  <2>2. CASE t # u
    BY <1>1, <2>2
  <2> QED BY <2>1, <2>2
<1>2. ASSUME NEW s \in Times, NEW t \in Times, f[s] > 0, f[t] > 0, s < t
      PROVE  s + Window <= t
  <2>1. s # u
    BY <1>1, <1>2 DEF Times
  <2>2. e[s] > 0
    BY <1>1, <1>2, <2>1
  <2>3. CASE t = u
    BY <2>1, <2>2, <2>3
  <2>4. CASE t # u
    <3>1. e[t] > 0
      BY <1>1, <1>2, <2>4
    <3> QED BY <1>2, <2>2, <3>1
  <2> QED BY <2>3, <2>4
<1> QED BY <1>1, <1>2

\* A window that is over gives way to one that begins with its first attempt;
\* one with room counts one more.
LEMMA AttemptCounts ==
    ASSUME IInv, NEW p \in Requests, op[p].at = "cas", NEW k, k = op[p].key,
           window[k] = op[p].seen, NEW r, r = Counted(op[p].seen, op[p].now),
           window' = [window EXCEPT ![k] = r],
           entries' = [entries EXCEPT ![k][r.startedAt] = @ + 1],
           clock' = clock
    PROVE  (\A j \in Keys : Ledger(j)') /\ WindowBudget' /\ WindowsApart'
<1>1. /\ k \in Keys /\ op[p].now \in Times /\ op[p].now <= clock /\ clock <= op[p].now + Skew
      /\ ~Full(k, window[k], op[p].now)
  BY DEF IInv, AttemptInv, Attempts, OnTime, SawRoom, TypeOK, Ops
<1>2. /\ window \in [Keys -> Records \cup {None}] /\ entries \in [Keys -> [Times -> Nat]]
      /\ clock \in Times
  BY DEF IInv, TypeOK
<1>3. r \in Records /\ r.startedAt \in Times
  BY <1>1, <1>2, CountedIsRecord
<1>4. r # None /\ r # Broken
  BY <1>3 DEF Broken, Times, Never
<1>5. /\ window'[k] = r
      /\ \A j \in Keys : j # k => window'[j] = window[j] /\ entries'[j] = entries[j]
      /\ \A t \in Times : entries'[k][t] = IF t = r.startedAt THEN entries[k][t] + 1 ELSE entries[k][t]
  BY <1>1, <1>2, <1>3
<1>6. /\ r.startedAt <= clock
      /\ entries[k][r.startedAt] + 1 = r.attempts /\ r.attempts > 0
      /\ \A t \in Times : entries[k][t] > 0 => t <= r.startedAt
      /\ r.attempts <= Budget[k]
      /\ \A t \in Times : entries[k][t] > 0 /\ t # r.startedAt => t + Window <= r.startedAt
  <2>1. CASE window[k] \in {None, Broken}
    <3>1. ~Open(window[k], op[p].now)
      BY <1>1, <2>1 DEF Open, Readable, Broken, Never, Times
    <3>2. r = [startedAt |-> op[p].now, attempts |-> 1]
      BY <3>1 DEF Counted
    <3>3. \A t \in Times : entries[k][t] = 0
      BY <1>1, <2>1 DEF IInv, AttemptInv, Ledger, Nothing
    <3>4. 1 <= Budget[k]
      BY <1>1
    <3> QED BY <1>1, <3>2, <3>3, <3>4
  <2>2. CASE window[k] \notin {None, Broken}
    <3> DEFINE w == window[k]
    <3>1. /\ w \in Records /\ w.startedAt \in Times /\ w.startedAt <= clock
          /\ entries[k][w.startedAt] = w.attempts /\ w.attempts > 0
          /\ \A t \in Times : entries[k][t] > 0 => t <= w.startedAt
      BY <1>1, <1>2, <2>2 DEF IInv, AttemptInv, Ledger
    <3>2. w.attempts \in Nat /\ w.startedAt \in Nat /\ op[p].now \in Nat /\ clock \in Nat
      BY <1>1, <1>2, <3>1 DEF Records, Times
    <3>3. Readable(w, op[p].now)
      BY <1>1, <2>2, <3>1, <3>2 DEF Readable
    <3>4. CASE Open(w, op[p].now)
      <4>1. r = [w EXCEPT !.attempts = @ + 1]
        BY <3>4 DEF Counted
      <4>2. r.startedAt = w.startedAt /\ r.attempts = w.attempts + 1
        BY <3>1, <4>1 DEF Records
      <4>3. w.attempts < Budget[k] /\ Budget[k] \in Nat
        BY <1>1, <3>2, <3>4 DEF Full
      <4>4. \A t \in Times : entries[k][t] > 0 /\ t # w.startedAt => t + Window <= w.startedAt
        <5> SUFFICES ASSUME NEW t \in Times, entries[k][t] > 0, t # w.startedAt
                     PROVE  t + Window <= w.startedAt
          OBVIOUS
        <5>1. t < w.startedAt
          BY <3>1, <3>2 DEF Times
        <5>2. entries[k][w.startedAt] > 0
          BY <3>1
        <5> QED BY <1>1, <3>1, <5>1, <5>2 DEF IInv, AttemptInv, WindowsApart
      <4> QED BY <3>1, <3>2, <4>2, <4>3, <4>4
    <3>5. CASE ~Open(w, op[p].now)
      <4>1. r = [startedAt |-> op[p].now, attempts |-> 1]
        BY <3>5 DEF Counted
      <4>2. w.startedAt + Window <= op[p].now
        BY <3>2, <3>3, <3>5 DEF Open
      <4>3. entries[k][op[p].now] = 0
        BY <1>1, <1>2, <3>1, <3>2, <4>2
      <4>4. 1 <= Budget[k]
        BY <1>1
      <4>5. \A t \in Times : entries[k][t] > 0 => t + Window <= op[p].now
        BY <3>1, <3>2, <4>2 DEF Times
      <4>6. \A t \in Times : entries[k][t] > 0 => t <= op[p].now
        BY <3>1, <3>2, <4>2 DEF Times
      <4> QED BY <1>1, <4>1, <4>3, <4>4, <4>5, <4>6
    <3> QED BY <3>4, <3>5
  <2> QED BY <2>1, <2>2
<1>7. /\ \A t \in Times : entries'[k][t] > 0 => t <= r.startedAt
      /\ \A s, t \in Times : entries'[k][s] > 0 /\ entries'[k][t] > 0 /\ s < t => s + Window <= t
  <2>1. entries[k] \in [Times -> Nat] /\ entries'[k] \in [Times -> Nat]
    BY <1>1, <1>2, <1>3
  <2>2. \A s, t \in Times : entries[k][s] > 0 /\ entries[k][t] > 0 /\ s < t => s + Window <= t
    BY <1>1 DEF IInv, AttemptInv, WindowsApart
  <2> QED BY <1>3, <1>5, <1>6, <2>1, <2>2, OneMore
<1>8. \A j \in Keys : Ledger(j)'
  <2>1. ASSUME NEW j \in Keys, j # k PROVE Ledger(j)'
    BY <1>5, <2>1 DEF IInv, AttemptInv, Ledger
  <2>2. Ledger(k)'
    <3>1. \A t \in Times : entries'[k][t] > 0 => t <= r.startedAt
      BY <1>7
    <3>2. entries'[k][r.startedAt] = r.attempts
      BY <1>3, <1>5, <1>6
    <3> QED BY <1>3, <1>4, <1>5, <1>6, <3>1, <3>2 DEF Ledger
  <2> QED BY <2>1, <2>2
<1>9. WindowBudget'
  <2>1. ASSUME NEW t \in Times PROVE entries'[k][t] <= Budget[k]
    <3>1. CASE t = r.startedAt
      BY <1>5, <1>6, <3>1
    <3>2. CASE t # r.startedAt
      <4>1. entries[k][t] <= Budget[k]
        BY <1>1 DEF IInv, AttemptInv, WindowBudget
      <4> QED BY <1>5, <3>2, <4>1
    <3> QED BY <3>1, <3>2
  <2> QED BY <1>5, <2>1 DEF IInv, AttemptInv, WindowBudget
<1>10. WindowsApart'
  <2>1. ASSUME NEW j \in Keys, j # k, NEW s \in Times, NEW t \in Times,
               entries'[j][s] > 0, entries'[j][t] > 0, s < t
        PROVE  s + Window <= t
    BY <1>5, <2>1 DEF IInv, AttemptInv, WindowsApart
  <2> QED BY <1>7, <2>1 DEF WindowsApart
<1> QED BY <1>8, <1>9, <1>10

LEMMA NextAttempts == IInv /\ Next => AttemptInv'
<1> SUFFICES ASSUME IInv, Next PROVE AttemptInv'
  OBVIOUS
<1>0. /\ op \in [Requests -> Ops] /\ \A p \in Requests : op[p] \in Ops
      /\ clock \in Times /\ device \in Devices
      /\ \A p \in Requests : OnTime(p) /\ SawRoom(p) /\ Forgets(p)
  BY DEF IInv, TypeOK, AttemptInv, Attempts
\* A request that ends, or that works on the registry.
<1>1. ASSUME NEW p \in Requests, NEW o \in Ops, op' = [op EXCEPT ![p] = o],
             o.at \in {"done", "consume", "change"}, clock' = clock, UNCHANGED attemptVars
      PROVE  AttemptInv'
  <2>1. op'[p] = o
    BY <1>0, <1>1
  <2>2. OnTime(p)' /\ SawRoom(p)' /\ Forgets(p)'
    BY <1>1, <2>1 DEF OnTime, SawRoom, Forgets
  <2> QED BY <1>1, <2>2, AttemptsMove
<1>2. ASSUME NEW p \in Requests, op' = [op EXCEPT ![p] = Free], clock' = clock, UNCHANGED attemptVars
      PROVE  AttemptInv'
  BY <1>1, <1>2, FreeOps DEF Free
<1>3. ASSUME NEW p \in Requests, Authorize(p) PROVE AttemptInv'
  <2>1. PICK k \in Keys :
          op' = [op EXCEPT ![p] = [Free EXCEPT !.at = "get", !.key = k, !.origin = k, !.now = clock]]
    BY <1>3 DEF Authorize, Keys
  <2> DEFINE o == [Free EXCEPT !.at = "get", !.key = k, !.origin = k, !.now = clock]
  <2>2. o \in Ops /\ o.at = "get" /\ o.key = k /\ o.origin = k /\ o.now = clock
    BY <1>0, FreeOps DEF Ops, Free
  <2>3. op'[p] = o /\ clock' = clock /\ UNCHANGED attemptVars
    BY <1>0, <1>3, <2>1 DEF Authorize
  <2>4. clock <= clock + Skew
    BY <1>0 DEF Times
  <2>5. OnTime(p)' /\ SawRoom(p)' /\ Forgets(p)'
    BY <1>0, <2>2, <2>3, <2>4 DEF OnTime, SawRoom, Forgets, Times
  <2> QED BY <2>1, <2>2, <2>3, <2>5, AttemptsMove
<1>4. ASSUME NEW p \in Requests, Get(p) PROVE AttemptInv'
  <2> DEFINE o == [op[p] EXCEPT !.at = "cas", !.seen = window[op[p].key]]
  <2>1. op[p].at = "get" /\ op[p].key \in Keys /\ window[op[p].key] \in Records \cup {None}
    BY <1>0, <1>4 DEF Get, OnTime, IInv, TypeOK
  <2>2. /\ o \in Ops /\ o.at = "cas" /\ o.seen = window[op[p].key]
        /\ o.key = op[p].key /\ o.origin = op[p].origin /\ o.now = op[p].now
    BY <1>0, <2>1 DEF Ops
  <2>3. op' = [op EXCEPT ![p] = o] /\ op'[p] = o /\ clock' = clock /\ UNCHANGED attemptVars
    BY <1>0, <1>4 DEF Get
  <2>4. OnTime(p)' /\ SawRoom(p)' /\ Forgets(p)'
    BY <1>0, <1>4, <2>1, <2>2, <2>3 DEF OnTime, SawRoom, Forgets, Get
  <2> QED BY <2>2, <2>3, <2>4, AttemptsMove
<1>5. ASSUME NEW p \in Requests, Cas(p) PROVE AttemptInv'
  <2> DEFINE k == op[p].key
             r == Counted(op[p].seen, op[p].now)
  <2>1. op[p].at = "cas" /\ k \in Keys /\ clock' = clock
    BY <1>0, <1>5 DEF Cas, OnTime
  <2>2. CASE window[k] = op[p].seen
    <3>1. (\A j \in Keys : Ledger(j)') /\ WindowBudget' /\ WindowsApart'
      BY <1>5, <2>1, <2>2, AttemptCounts DEF Cas
    <3>2. Admitted(p)
      BY <1>5, <2>2 DEF Cas
    <3>3. /\ \A q \in Requests : q # p => op'[q] = op[q]
          /\ op'[p].at \in {"verify", "get"} /\ op'[p].origin = op[p].origin /\ op'[p].now = op[p].now
          /\ op'[p].at = "get" => op'[p].key = Global
      BY <1>0, <3>2 DEF Admitted, Ops
    <3>4. OnTime(p)' /\ SawRoom(p)' /\ Forgets(p)'
      BY <1>0, <2>1, <3>3 DEF OnTime, SawRoom, Forgets, Keys
    <3>5. \A q \in Requests : q # p => OnTime(q)' /\ SawRoom(q)' /\ Forgets(q)'
      BY <1>0, <2>1, <3>3 DEF OnTime, SawRoom, Forgets
    <3> QED BY <3>1, <3>4, <3>5 DEF AttemptInv, Attempts
  <2>3. CASE window[k] # op[p].seen
    <3>1. Retry(p) /\ UNCHANGED attemptVars
      BY <1>5, <2>3 DEF Cas
    <3>2. CASE op' = [op EXCEPT ![p] = Free]
      BY <1>2, <2>1, <3>1, <3>2
    <3>3. CASE /\ op[p].tries + 1 < CasRetries
               /\ op' = [op EXCEPT ![p] = [op[p] EXCEPT !.at = "get", !.tries = op[p].tries + 1, !.seen = None]]
      <4> DEFINE o == [op[p] EXCEPT !.at = "get", !.tries = op[p].tries + 1, !.seen = None]
      <4>1. op' \in [Requests -> Ops]
        BY NextTyped DEF IInv, TypeOK
      <4>2. op'[p] = o
        BY <1>0, <3>3
      <4>3. o \in Ops
        BY <4>1, <4>2
      <4>4. o.at = "get" /\ o.key = k /\ o.origin = op[p].origin /\ o.now = op[p].now
        BY <1>0 DEF Ops
      <4>5. OnTime(p)' /\ SawRoom(p)' /\ Forgets(p)'
        BY <1>0, <2>1, <4>2, <4>4 DEF OnTime, SawRoom, Forgets
      <4> HIDE DEF o
      <4> QED BY <2>1, <3>1, <3>3, <4>3, <4>5, AttemptsMove DEF o
    <3> QED BY <3>1, <3>2, <3>3 DEF Retry
  <2> QED BY <2>2, <2>3
<1>6. ASSUME NEW p \in Requests, Verify(p) PROVE AttemptInv'
  <2> DEFINE o == [op[p] EXCEPT !.at = "forget", !.key = op[p].origin]
  <2>1. o \in Ops /\ o.at = "forget" /\ o.key = op[p].origin /\ o.origin = op[p].origin
    BY <1>0 DEF Ops
  <2>2. op' = [op EXCEPT ![p] = o] /\ op'[p] = o /\ clock' = clock /\ UNCHANGED attemptVars
    BY <1>0, <1>6 DEF Verify
  <2>3. OnTime(p)' /\ SawRoom(p)' /\ Forgets(p)'
    BY <1>0, <1>6, <2>1, <2>2 DEF OnTime, SawRoom, Forgets, Verify
  <2> QED BY <2>1, <2>2, <2>3, AttemptsMove
<1>7. ASSUME NEW p \in Requests, Forget(p) PROVE AttemptInv'
  <2> DEFINE k == op[p].key
  <2>1. op[p].at = "forget" /\ k \in Keys /\ op[p].origin \in Keys /\ clock' = clock
    BY <1>0, <1>7 DEF Forget, Forgets
  <2>2. CASE op' = [op EXCEPT ![p] = Free] /\ UNCHANGED attemptVars
    BY <1>2, <2>1, <2>2
  <2>3. CASE /\ window' = [window EXCEPT ![k] = None]
             /\ entries' = [entries EXCEPT ![k] = Nothing]
             /\ op' = [op EXCEPT ![p] = Free] \/ op' = [op EXCEPT ![p].key = Global]
    <3>1. /\ window'[k] = None /\ entries'[k] = Nothing
          /\ \A j \in Keys : j # k => window'[j] = window[j] /\ entries'[j] = entries[j]
      BY <2>1, <2>3 DEF IInv, TypeOK
    <3>2. \A j \in Keys : Ledger(j)'
      BY <2>1, <3>1 DEF IInv, AttemptInv, Ledger
    <3>3. WindowBudget' /\ WindowsApart'
      BY <3>1 DEF IInv, AttemptInv, WindowBudget, WindowsApart, Nothing
    <3>4. \A q \in Requests : q # p => op'[q] = op[q]
      BY <1>0, <2>3
    <3>5. op'[p] = Free \/ op'[p] = [op[p] EXCEPT !.key = Global]
      BY <1>0, <2>3
    <3>6. OnTime(p)' /\ SawRoom(p)' /\ Forgets(p)'
      BY <1>0, <2>1, <3>5 DEF OnTime, SawRoom, Forgets, Free, Keys, Ops
    <3>7. \A q \in Requests : q # p => OnTime(q)' /\ SawRoom(q)' /\ Forgets(q)'
      BY <1>0, <2>1, <3>4 DEF OnTime, SawRoom, Forgets
    <3> QED BY <3>2, <3>3, <3>6, <3>7 DEF AttemptInv, Attempts
  <2> QED BY <1>7, <2>2, <2>3 DEF Forget
<1>8. ASSUME NEW p \in Requests, Enroll(p) PROVE AttemptInv'
  <2>1. [Free EXCEPT !.at = "consume", !.seen = device] \in Ops
    BY <1>0, FreeOps DEF Ops
  <2>2. [Free EXCEPT !.at = "consume", !.seen = device].at = "consume"
    BY DEF Free
  <2> QED BY <1>1, <1>8, <2>1, <2>2 DEF Enroll
<1>9. ASSUME NEW p \in Requests, NEW status \in Statuses, Switch(p, status) PROVE AttemptInv'
  <2>1. [Free EXCEPT !.at = "change", !.seen = device, !.want = status] \in Ops
    BY <1>0, FreeOps DEF Ops
  <2>2. [Free EXCEPT !.at = "change", !.seen = device, !.want = status].at = "change"
    BY DEF Free
  <2> QED BY <1>1, <1>9, <2>1, <2>2 DEF Switch
<1>10. ASSUME NEW p \in Requests, Change(p) PROVE AttemptInv'
  <2>1. op' \in [Requests -> Ops]
    BY NextTyped DEF IInv, TypeOK
  <2>2. \E o : op' = [op EXCEPT ![p] = o]
    BY <1>10 DEF Change
  <2>3. PICK o : op' = [op EXCEPT ![p] = o]
    BY <2>2
  <2>4. op'[p] = o
    BY <1>0, <2>3
  <2>5. o.at \in {"done", "change"}
    <3> DEFINE o2 == [op[p] EXCEPT !.tries = op[p].tries + 1, !.seen = device]
    <3>1. o2.at = op[p].at /\ op[p].at = "change" /\ Free.at = "done"
      BY <1>0, <1>10 DEF Change, Free, Ops
    <3>2. op'[p] \in {Free, o2}
      BY <1>0, <1>10 DEF Change
    <3> QED BY <2>4, <3>1, <3>2
  <2> QED BY <1>1, <1>10, <2>1, <2>3, <2>4, <2>5 DEF Change
<1>11. CASE UNCHANGED <<clock, op, attemptVars>>
  BY <1>11 DEF IInv, AttemptInv, Attempts, OnTime, SawRoom, Forgets, Ledger, WindowBudget,
               WindowsApart, attemptVars
<1>12. CASE Tick
  <2>1. clock' = clock + 1 /\ UNCHANGED <<op, attemptVars>>
    BY <1>12 DEF Tick
  <2>2. \A p \in Requests : OnTime(p)' /\ SawRoom(p)' /\ Forgets(p)'
    <3> SUFFICES ASSUME NEW p \in Requests PROVE OnTime(p)' /\ SawRoom(p)' /\ Forgets(p)'
      OBVIOUS
    <3>1. op[p].at \in {"get", "cas"} => clock < op[p].now + Skew
      BY <1>12 DEF Tick
    <3>2. op[p].now \in Nat /\ clock \in Nat
      BY <1>0 DEF Ops, Times
    <3> QED BY <1>0, <2>1, <3>1, <3>2 DEF OnTime, SawRoom, Forgets
  <2>3. \A k \in Keys : Ledger(k)'
    <3> SUFFICES ASSUME NEW k \in Keys PROVE Ledger(k)'
      OBVIOUS
    <3> QED BY <1>0, <2>1 DEF IInv, AttemptInv, Ledger, attemptVars, Times
  <2>4. WindowBudget' /\ WindowsApart'
    BY <2>1 DEF IInv, AttemptInv, WindowBudget, WindowsApart, attemptVars
  <2> QED BY <2>2, <2>3, <2>4 DEF AttemptInv, Attempts
<1> QED
  BY <1>2, <1>3, <1>4, <1>5, <1>6, <1>7, <1>8, <1>1, <1>9, <1>10, <1>11, <1>12, FreeOps
     DEF Next, Refused, Abandon, Consume, Issue, SessionEnds, deviceVars

-----------------------------------------------------------------------------
\* A request that moves on without touching the registry.
LEMMA DeviceMoves ==
    ASSUME IInv, NEW p \in Requests, NEW o \in Ops, op' = [op EXCEPT ![p] = o],
           UNCHANGED deviceVars, SawDevice(p)'
    PROVE  DeviceInv'
<1>1. \A q \in Requests : q # p => op'[q] = op[q]
  BY OpReplaced DEF IInv, TypeOK
<1>2. \A q \in Requests : q # p => SawDevice(q)'
  BY <1>1 DEF IInv, DeviceInv, SawDevice, deviceVars
<1>3. Registry' /\ EnrolledOnce' /\ AcceptedIsLatest'
  BY DEF IInv, DeviceInv, Registry, EnrolledOnce, AcceptedIsLatest, deviceVars
<1> QED BY <1>2, <1>3 DEF DeviceInv

LEMMA NextDevice == IInv /\ Next => DeviceInv'
<1> SUFFICES ASSUME IInv, Next PROVE DeviceInv'
  OBVIOUS
<1>0. /\ op \in [Requests -> Ops] /\ \A p \in Requests : op[p] \in Ops
      /\ device \in Devices /\ issued \in Nat /\ stopped \in Nat
      /\ consumed \in [Tokens -> Nat]
      /\ credentials \subseteq [token : Tokens, generation : Generations]
      /\ \A p \in Requests : SawDevice(p)
      /\ Registry /\ EnrolledOnce /\ AcceptedIsLatest
  BY DEF IInv, TypeOK, DeviceInv
<1>00. op' \in [Requests -> Ops]
  BY NextTyped DEF TypeOK
<1>1. ASSUME NEW p \in Requests, NEW o \in Ops, op' = [op EXCEPT ![p] = o],
             o.at \notin {"consume", "change"}, UNCHANGED deviceVars
      PROVE  DeviceInv'
  <2>1. op'[p] = o
    BY <1>0, <1>1
  <2>2. SawDevice(p)'
    BY <1>1, <2>1 DEF SawDevice
  <2> QED BY <1>1, <2>2, DeviceMoves
<1>2. ASSUME NEW p \in Requests, op' = [op EXCEPT ![p] = Free], UNCHANGED deviceVars
      PROVE  DeviceInv'
  BY <1>1, <1>2, FreeOps DEF Free
\* The steps of the authorization never lead into the registry.
<1>3. ASSUME NEW p \in Requests, UNCHANGED deviceVars,
             \A q \in Requests : q # p => op'[q] = op[q],
             op'[p].at \notin {"consume", "change"}
      PROVE  DeviceInv'
  <2>1. \A q \in Requests : SawDevice(q)'
    BY <1>0, <1>3 DEF SawDevice, deviceVars
  <2> QED BY <1>0, <1>3, <2>1 DEF DeviceInv, Registry, EnrolledOnce, AcceptedIsLatest, deviceVars
<1>4. ASSUME NEW p \in Requests, Authorize(p) \/ Get(p) \/ Cas(p) \/ Verify(p) \/ Forget(p)
      PROVE  DeviceInv'
  <2>1. UNCHANGED deviceVars /\ \A q \in Requests : q # p => op'[q] = op[q]
    BY <1>0, <1>4 DEF Authorize, Get, Cas, Verify, Forget, Admitted, Retry
  <2>2. op'[p].at \notin {"consume", "change"}
    <3>1. CASE Authorize(p)
      BY <1>0, <3>1 DEF Authorize, Free
    <3>2. CASE Get(p)
      BY <1>0, <3>2 DEF Get, Ops
    <3>3. CASE Cas(p)
      <4>1. Admitted(p) \/ Retry(p)
        BY <3>3 DEF Cas
      <4>2. CASE Admitted(p)
        BY <1>0, <4>2 DEF Admitted, Ops
      <4>3. CASE Retry(p)
        <5> DEFINE o == [op[p] EXCEPT !.at = "get", !.tries = op[p].tries + 1, !.seen = None]
        <5>1. op'[p] = Free \/ op'[p] = o
          BY <1>0, <4>3 DEF Retry
        <5>2. o.at = "get" /\ Free.at = "done"
          BY <1>0 DEF Ops, Free
        <5> HIDE DEF o
        <5> QED BY <5>1, <5>2
      <4> QED BY <4>1, <4>2, <4>3
    <3>4. CASE Verify(p)
      BY <1>0, <3>4 DEF Verify, Ops
    <3>5. CASE Forget(p)
      BY <1>0, <3>5 DEF Forget, Free, Ops
    <3> QED BY <1>4, <3>1, <3>2, <3>3, <3>4, <3>5
  <2> QED BY <1>3, <2>1, <2>2
<1>5. ASSUME NEW p \in Requests, Enroll(p) PROVE DeviceInv'
  <2> DEFINE o == [Free EXCEPT !.at = "consume", !.seen = device]
  <2>1. o \in Ops /\ o.at = "consume" /\ o.seen = device
    BY <1>0, FreeOps DEF Ops, Free
  <2>2. op' = [op EXCEPT ![p] = o] /\ op'[p] = o /\ UNCHANGED deviceVars
    BY <1>0, <1>5 DEF Enroll
  <2>3. SawDevice(p)'
    BY <1>0, <1>5, <2>1, <2>2 DEF SawDevice, Enroll, Devices, deviceVars, Generations
  <2> QED BY <2>1, <2>2, <2>3, DeviceMoves
<1>6. ASSUME NEW p \in Requests, NEW status \in Statuses, Switch(p, status) PROVE DeviceInv'
  <2> DEFINE o == [Free EXCEPT !.at = "change", !.seen = device, !.want = status]
  <2>1. o \in Ops /\ o.at = "change" /\ o.seen = device /\ o.want = status
    BY <1>0, FreeOps DEF Ops, Free
  <2>2. op' = [op EXCEPT ![p] = o] /\ op'[p] = o /\ UNCHANGED deviceVars
    BY <1>0, <1>6 DEF Switch
  <2>3. SawDevice(p)'
    BY <1>0, <1>6, <2>1, <2>2 DEF SawDevice, Switch, Devices, deviceVars, Generations
  <2> QED BY <2>1, <2>2, <2>3, DeviceMoves
<1>7. ASSUME NEW p \in Requests, Consume(p) PROVE DeviceInv'
  <2> DEFINE seen == op[p].seen
             made == [token |-> seen.token, generation |-> seen.generation + 1]
  <2>1. CASE device.token = seen.token /\ device.generation = seen.generation
    <3>1. /\ op[p].at = "consume" /\ seen \in Devices /\ seen.token \in Tokens
          /\ device.generation \in Nat
      BY <1>0, <1>7 DEF Consume, SawDevice, Devices, Generations
    <3>2. /\ device' = [device EXCEPT !.token = None, !.generation = made.generation]
          /\ consumed' = [consumed EXCEPT ![seen.token] = @ + 1]
          /\ latest' = seen.token
          /\ credentials' \in {credentials, credentials \cup {made}}
          /\ UNCHANGED <<issued, stopped>> /\ op' = [op EXCEPT ![p] = Free]
      BY <1>7, <2>1 DEF Consume, Consumes
    <3>3. /\ device'.token = None /\ device'.generation = device.generation + 1
          /\ device'.status = device.status
      BY <1>0, <2>1, <3>1, <3>2 DEF Devices
    <3>4. op'[p] = Free /\ \A q \in Requests : q # p => op'[q] = op[q]
      BY <1>0, <3>2
    <3>5. \A q \in Requests : SawDevice(q)'
      <4> SUFFICES ASSUME NEW q \in Requests PROVE SawDevice(q)'
        OBVIOUS
      <4>1. CASE q = p
        BY <3>4, <4>1 DEF SawDevice, Free
      <4>2. CASE q # p
        BY <1>0, <3>1, <3>3, <3>4, <4>2 DEF SawDevice, Devices, Generations
      <4> QED BY <4>1, <4>2
    <3>6. consumed[seen.token] = 0 /\ seen.token <= issued
      BY <1>0, <2>1, <3>1, NoneAssumption DEF Registry
    <3>7. Registry'
      <4>1. \A c \in credentials' : c.generation <= device'.generation
        BY <1>0, <2>1, <3>1, <3>2, <3>3 DEF Registry, Generations
      <4>2. \A j \in Tokens : consumed'[j] > 0 => j <= issued
        BY <1>0, <3>1, <3>2, <3>6 DEF Registry
      <4> QED BY <1>0, <3>2, <3>3, <4>1, <4>2 DEF Registry
    <3>8. EnrolledOnce'
      BY <1>0, <3>1, <3>2, <3>6 DEF EnrolledOnce
    <3>9. AcceptedIsLatest'
      <4> SUFFICES ASSUME NEW c \in credentials', c.generation = device'.generation
                   PROVE  c.token = latest'
        BY DEF AcceptedIsLatest
      <4>1. c \notin credentials
        BY <1>0, <3>1, <3>3 DEF Registry, Generations
      <4> QED BY <3>2, <4>1
    <3> QED BY <3>5, <3>7, <3>8, <3>9 DEF DeviceInv
  <2>2. CASE ~(device.token = seen.token /\ device.generation = seen.generation)
    <3>1. op' = [op EXCEPT ![p] = Free] /\ UNCHANGED deviceVars
      BY <1>7, <2>2 DEF Consume, deviceVars
    <3> QED BY <1>2, <3>1
  <2> QED BY <2>1, <2>2
<1>8. ASSUME NEW p \in Requests, Change(p) PROVE DeviceInv'
  <2> DEFINE seen == op[p].seen
             want == op[p].want
  <2>0. /\ op[p].at = "change" /\ seen \in Devices /\ want \in Statuses
        /\ device.generation \in Nat /\ seen.generation \in Nat
    BY <1>0, <1>8 DEF Change, SawDevice, Devices, Generations
  <2>1. CASE device.generation = seen.generation
    <3>1. /\ device' = [status |-> want, token |-> None, generation |-> GenerationAfter(seen, want)]
          /\ latest' = IF seen.status = want THEN latest ELSE None
          /\ stopped' = issued
          /\ op' = [op EXCEPT ![p] = Free]
          /\ UNCHANGED <<issued, credentials, consumed>>
      BY <1>8, <2>1 DEF Change
    <3>2. /\ device'.token = None /\ device'.status = want
          /\ seen.status = want => device'.generation = device.generation /\ device.status = want
          /\ seen.status # want => device'.generation = device.generation + 1
      BY <1>0, <2>0, <2>1, <3>1 DEF GenerationAfter, SawDevice
    <3>3. op'[p] = Free /\ \A q \in Requests : q # p => op'[q] = op[q]
      BY <1>0, <3>1
    <3>4. \A q \in Requests : SawDevice(q)'
      <4> SUFFICES ASSUME NEW q \in Requests PROVE SawDevice(q)'
        OBVIOUS
      <4>1. CASE q = p
        BY <3>3, <4>1 DEF SawDevice, Free
      <4>2. CASE q # p
        BY <1>0, <2>0, <3>2, <3>3, <4>2 DEF SawDevice, Devices, Generations
      <4> QED BY <4>1, <4>2
    <3>5. \A c \in credentials : c.generation \in Nat /\ c.generation <= device.generation
      BY <1>0 DEF Registry, Generations
    <3>6. Registry'
      BY <1>0, <2>0, <3>1, <3>2, <3>5 DEF Registry
    <3>7. EnrolledOnce'
      BY <1>0, <3>1 DEF EnrolledOnce
    <3>8. AcceptedIsLatest'
      BY <1>0, <2>0, <3>1, <3>2, <3>5 DEF AcceptedIsLatest
    <3> QED BY <3>4, <3>6, <3>7, <3>8 DEF DeviceInv
  <2>2. CASE device.generation # seen.generation
    <3> DEFINE o2 == [op[p] EXCEPT !.tries = op[p].tries + 1, !.seen = device]
    <3>1. UNCHANGED deviceVars /\ \A q \in Requests : q # p => op'[q] = op[q]
      BY <1>0, <1>8, <2>2 DEF Change, deviceVars
    <3>2. op'[p] = Free \/ (op'[p] = o2 /\ device.generation < MaxGeneration)
      BY <1>0, <1>8, <2>2 DEF Change
    <3>3. CASE op'[p] = Free
      BY <1>3, <3>1, <3>3 DEF Free
    <3>4. CASE op'[p] = o2 /\ device.generation < MaxGeneration
      <4>1. o2.at = "change" /\ o2.seen = device /\ o2.want = want
        BY <1>0, <2>0 DEF Ops
      <4>2. SawDevice(p)'
        BY <1>0, <2>0, <3>1, <3>4, <4>1 DEF SawDevice, deviceVars
      <4>3. \A q \in Requests : q # p => SawDevice(q)'
        BY <1>0, <3>1 DEF SawDevice, deviceVars
      <4> QED BY <1>0, <3>1, <4>2, <4>3
              DEF DeviceInv, Registry, EnrolledOnce, AcceptedIsLatest, deviceVars
    <3> QED BY <3>2, <3>3, <3>4
  <2> QED BY <2>1, <2>2
<1>9. CASE Issue
  <2>1. /\ device'.token = issued + 1 /\ device'.generation = device.generation
        /\ device'.status = device.status
        /\ issued' = issued + 1 /\ issued + 1 \in Tokens
        /\ UNCHANGED <<op, credentials, consumed, latest, stopped>>
    BY <1>0, <1>9 DEF Issue, Devices, Tokens
  <2>2. consumed[issued + 1] = 0
    BY <1>0, <2>1 DEF Registry
  <2>3. Registry'
    BY <1>0, <2>1, <2>2 DEF Registry, Tokens
  <2>4. \A p \in Requests : SawDevice(p)'
    BY <1>0, <2>1 DEF SawDevice
  <2> QED BY <1>0, <2>1, <2>3, <2>4 DEF DeviceInv, EnrolledOnce, AcceptedIsLatest
<1>10. CASE UNCHANGED <<op, deviceVars>>
  BY <1>0, <1>10 DEF DeviceInv, SawDevice, Registry, EnrolledOnce, AcceptedIsLatest, deviceVars
<1> QED
  BY <1>2, <1>4, <1>5, <1>6, <1>7, <1>8, <1>9, <1>10
     DEF Next, Refused, Abandon, SessionEnds, Tick

-----------------------------------------------------------------------------
LEMMA Invariant == Spec => []IInv
<1>1. IInv /\ [Next]_vars => IInv'
  <2>1. ASSUME IInv, UNCHANGED vars PROVE IInv'
    BY <2>1 DEF IInv, TypeOK, AttemptInv, Attempts, OnTime, SawRoom, Forgets, Ledger, WindowBudget,
                WindowsApart, DeviceInv, SawDevice, Registry, EnrolledOnce, AcceptedIsLatest,
                vars, deviceVars, attemptVars
  <2> QED BY <2>1, NextTyped, NextAttempts, NextDevice DEF IInv
<1> QED BY <1>1, InitInv, PTL DEF Spec

\* Every variable has its type, whatever is answered late or not at all.
THEOREM TypeCorrect == Spec => []TypeOK
BY Invariant, PTL DEF IInv

\* No window of any key ever admits more than its budget (attempt-budget.ts,
\* upper bound): for any number of requests at once, any budget, any length
\* of a window.
THEOREM BudgetHolds == Spec => []WindowBudget
<1>1. IInv => WindowBudget
  BY DEF IInv, AttemptInv
<1> QED BY <1>1, Invariant, PTL

\* The windows of a key that have admitted attempts do not overlap, so that
\* the budget bounds the attempts of every stretch of time (consumeAttempt).
THEOREM WindowsDoNotOverlap == Spec => []WindowsApart
<1>1. IInv => WindowsApart
  BY DEF IInv, AttemptInv
<1> QED BY <1>1, Invariant, PTL

\* An attempt is refused only because the budget of its key was used within
\* the last window (attempt-budget.ts, lower bound).
THEOREM RefusedJustly == Spec => RefusedForCause
<1>1. ASSUME IInv, NEW p \in Requests, Refused(p)
      PROVE  \E s \in Times : /\ s + Window > op[p].now /\ s <= op[p].now + Skew
                              /\ entries[op[p].key][s] >= Budget[op[p].key]
  <2> DEFINE w == window[op[p].key]
  <2>1. op[p].key \in Keys /\ w \in Records \cup {None} /\ op[p].now \in Times
    BY <1>1 DEF Refused, IInv, AttemptInv, Attempts, OnTime, TypeOK, Ops
  <2>2. w # None /\ w # Broken /\ w.attempts >= Budget[op[p].key]
        /\ w.startedAt <= op[p].now + Skew /\ op[p].now < w.startedAt + Window
    BY <1>1, <2>1 DEF Refused, Full, Open, Readable, Broken, Never, Times
  <2>3. w.startedAt \in Times /\ entries[op[p].key][w.startedAt] = w.attempts
    BY <1>1, <2>1, <2>2 DEF IInv, AttemptInv, Ledger
  <2>4. w.startedAt + Window > op[p].now
    BY <2>1, <2>2, <2>3 DEF Times
  <2> QED BY <2>2, <2>3, <2>4
<1>2. IInv /\ [Next]_vars =>
        [\A p \in Requests : Refused(p) =>
           \E s \in Times : /\ s + Window > op[p].now /\ s <= op[p].now + Skew
                            /\ entries[op[p].key][s] >= Budget[op[p].key]]_vars
  BY <1>1
<1> QED BY <1>2, Invariant, PTL DEF Spec, RefusedForCause

\* A link enrols one terminal, however many open it at once (consumeEnrollment).
THEOREM OneEnrolment == Spec => []EnrolledOnce
<1>1. IInv => EnrolledOnce
  BY DEF IInv, DeviceInv
<1> QED BY <1>1, Invariant, PTL

\* Only the credential of the last enrolment since the last switch of the
\* device is accepted (device-credential.ts).
THEOREM LatestIsAccepted == Spec => []AcceptedIsLatest
<1>1. IInv => AcceptedIsLatest
  BY DEF IInv, DeviceInv
<1> QED BY <1>1, Invariant, PTL

\* A link from before the last switch of the device enrols nobody, and a
\* disabled device enrols nobody (setEnabled), whatever was read before.
THEOREM SwitchStopsLinks == Spec => LinksStop
<1>1. ASSUME IInv, Next, NEW j \in Tokens, consumed'[j] > consumed[j]
      PROVE  j > stopped /\ device.status = "active"
  <2>1. PICK p \in Requests : Consume(p) /\ Consumes(p)
    <3>1. consumed' # consumed
      BY <1>1 DEF IInv, TypeOK
    <3>2. ASSUME NEW p \in Requests, Authorize(p) \/ Refused(p) \/ Get(p) \/ Cas(p) \/ Verify(p)
                                     \/ Forget(p) \/ Enroll(p) \/ Abandon(p)
          PROVE  consumed' = consumed
      BY <3>2 DEF Authorize, Refused, Get, Cas, Verify, Forget, Enroll, Abandon, deviceVars
    <3>3. ASSUME NEW p \in Requests, Change(p) \/ \E status \in Statuses : Switch(p, status)
          PROVE  consumed' = consumed
      BY <3>3 DEF Change, Switch, deviceVars
    <3>4. Issue \/ SessionEnds \/ Tick => consumed' = consumed
      BY DEF Issue, SessionEnds, Tick, deviceVars
    <3>5. PICK p \in Requests : Consume(p)
      BY <1>1, <3>1, <3>2, <3>3, <3>4 DEF Next
    <3>6. Consumes(p)
      BY <3>1, <3>5 DEF Consume
    <3> QED BY <3>5, <3>6
  <2>2. /\ device.token = op[p].seen.token /\ device.generation = op[p].seen.generation
        /\ op[p].at = "consume"
    BY <1>1, <2>1 DEF Consume, Consumes, IInv, TypeOK
  <2>3. j = device.token
    BY <1>1, <2>1, <2>2 DEF Consumes, IInv, TypeOK
  <2>4. /\ stopped < device.token /\ device.status = "active"
    BY <1>1, <2>2, <2>3, NoneAssumption DEF IInv, DeviceInv, Registry, SawDevice
  <2> QED BY <1>1, <2>3, <2>4 DEF IInv, TypeOK, Tokens
<1>2. IInv /\ [Next]_vars =>
        [\A j \in Tokens : consumed'[j] > consumed[j] => j > stopped /\ device.status = "active"]_vars
  BY <1>1
<1> QED BY <1>2, Invariant, PTL DEF Spec, LinksStop
=============================================================================
