---------------------------- MODULE HopDial_proofs ----------------------------
(***************************************************************************)
(* Theorems about the webhooks: one next call for each call, none after an *)
(* acceptance, limits that are carried on and records that stay settled,   *)
(* for any number of calls, deliveries and events, any policies and limits, *)
(* any set of faults and writes that may carry the same time.              *)
(***************************************************************************)
EXTENDS HopDial, FiniteSetTheorems, TLAPS

Ops == [at : Labels, call : Calls \cup {NoCall}, event : VoiceEvents,
        seen : Correlations, next : Correlations, new : Calls \cup {NoCall}]

HasChild(c) == \E n \in Calls : dialer[n] = c

\* No call that was dialed because of c has a record.
Barren(c) == \A n \in Calls : dialer[n] = c => corr[n].status = "none"

\* A record r of call n continues the routing of the call that dialed n.
Continues(n, r) ==
    dialer[n] # NoCall => /\ r.hops = corr[dialer[n]].hops + 1
                          /\ corr[dialer[n]].ledger \subseteq r.ledger
                          /\ r.count >= corr[dialer[n]].count

\* What every call has: a free one nothing, one that was dialed a settled
\* parent that no member of staff has accepted.
CallOk(c) ==
    /\ line[c] = "free" => corr[c].status = "none" /\ dialer[c] = NoCall
    /\ corr[c].status # "settled" => corr[c].voice \notin Success
    /\ dialer[c] # NoCall => /\ c \notin FirstCalls
                             /\ corr[dialer[c]].status = "settled"
                             /\ corr[dialer[c]].voice \notin Success
                             /\ corr[dialer[c]].count > 0
    /\ corr[c].status # "none" => Continues(c, corr[c])

\* What a worker that handles a report has read.
SeenOk(w) ==
    /\ worker[w].call \in Calls
    /\ corr[worker[w].call].status # "none"
    /\ corr[worker[w].call].hops = worker[w].seen.hops
    /\ worker[w].seen.status = "in_flight" /\ worker[w].seen.voice \notin Success
    /\ Continues(worker[w].call, worker[w].seen)

\* What it is about to write.
NextOk(o) ==
    /\ o.next.count = o.seen.count + 1 /\ o.seen.ledger \subseteq o.next.ledger
    /\ o.next.status \in {"in_flight", "settled"}
    /\ o.next.status = "in_flight" => o.next.voice \notin Success
    /\ o.at = "save" => o.next.hops = o.seen.hops
    /\ o.at # "save" => /\ o.next.hops = o.seen.hops + 1 /\ o.next.hops < MaxHops
                        /\ o.next.status = "in_flight" /\ o.next.voice \in Decided

\* The worker has reserved the dial: the record it read is settled.
Reserved(w) ==
    LET c == worker[w].call IN
    /\ corr[c].status = "settled" /\ corr[c].voice \notin Success
    /\ corr[c].ledger = worker[w].next.ledger /\ corr[c].count = worker[w].next.count

\* The worker has taken the right to dial and has not stored what came of it.
Holding(w) == worker[w].at \in {"dial", "unreached", "create"}

\* The worker has dialed a call that has no record yet.
Dialed(w) ==
    LET n == worker[w].new IN
    /\ n \in Calls \ FirstCalls /\ dialer[n] = worker[w].call
    /\ corr[n].status = "none" /\ line[n] # "free"

\* It has a record when the reception is handed over to it.
HasRecord(w) == worker[w].new \in Calls /\ corr[worker[w].new].status # "none"

WorkerOk(w) ==
    /\ worker[w].at # "idle" => SeenOk(w) /\ NextOk(worker[w])
    /\ Holding(w) => Reserved(w)
    /\ worker[w].at = "dial" => ~HasChild(worker[w].call)
    /\ worker[w].at = "unreached" => Barren(worker[w].call)
    /\ worker[w].at = "create" => Dialed(w)
    /\ worker[w].at = "repoint" => HasRecord(w)

OneHolder == \A v, w \in Workers :
    Holding(v) /\ Holding(w) /\ worker[v].call = worker[w].call => v = w

OneCreator == \A v, w \in Workers :
    worker[v].at = "create" /\ worker[w].at = "create" /\ worker[v].new = worker[w].new
      => v = w

IInv == /\ TypeOK /\ OneChild /\ OneHolder /\ OneCreator
        /\ \A c \in Calls : CallOk(c)
        /\ \A w \in Workers : WorkerOk(w)

USE HopDialAssumption

-----------------------------------------------------------------------------
LEMMA FoldTyped ==
    ASSUME NEW state \in VoiceStates, NEW e \in VoiceEvents
    PROVE  ApplyVoiceEvent(state, e) \in VoiceStates
<1>1. e \in Decisive => DecisionOf[e] \in Decided
  BY DEF Decisive, DecisionOf, Decided
<1>2. CASE state \in Decided
  <2>1. state \notin Undecided /\ state # "queued"
    BY <1>2 DEF Undecided, Decided
  <2> QED BY <1>2, <2>1 DEF ApplyVoiceEvent
<1>3. CASE state \in Undecided
  <2>1. state \notin Decided
    BY <1>3 DEF Undecided, Decided
  <2> QED BY <1>1, <1>3, <2>1 DEF ApplyVoiceEvent, VoiceStates, Undecided
<1> QED BY <1>2, <1>3 DEF VoiceStates

LEMMA UndecidedIsNoSuccess == Undecided \cap Success = {}
BY DEF Undecided, Success

\* A routing that goes on dials a step of a stored policy, not after an
\* acceptance and not beyond the limit.
LEMMA RoutingDials ==
    ASSUME NEW pos, NEW hops, NEW result,
           AdvanceRouting(Policies, pos, hops, result, MaxHops).kind # "settled"
    PROVE  /\ result \notin Success /\ ~LastHop(hops, MaxHops)
           /\ AdvanceRouting(Policies, pos, hops, result, MaxHops).policy \in DOMAIN Policies
           /\ AdvanceRouting(Policies, pos, hops, result, MaxHops).step \in StepIds
<1> DEFINE A == AdvanceRouting(Policies, pos, hops, result, MaxHops)
           i == StepIndex(Policies[pos.policy], pos.step)
           next == NextTransition(Policies[pos.policy], i, result)
<1>1. \A p \in DOMAIN Policies : \A j : DialAt(Policies, p, j).kind # "settled" =>
         DialAt(Policies, p, j).policy \in DOMAIN Policies /\ DialAt(Policies, p, j).step \in StepIds
  BY DEF DialAt, Settled, StepIds
<1>2. \A p : StartRouting(Policies, p).kind # "settled" =>
         StartRouting(Policies, p).policy \in DOMAIN Policies /\ StartRouting(Policies, p).step \in StepIds
  BY <1>1 DEF StartRouting, Settled
<1>3. ~(\/ result \in Success \/ pos.policy \notin DOMAIN Policies \/ LastHop(hops, MaxHops))
  BY DEF AdvanceRouting, Settled
<1>4. A = CASE i = 0 \/ next.kind = "stop" -> Settled
            [] i # 0 /\ next.kind = "goto_step" ->
                  DialAt(Policies, pos.policy, StepIndex(Policies[pos.policy], next.to))
            [] OTHER -> StartRouting(Policies, next.to)
  BY <1>3 DEF AdvanceRouting
<1> HIDE DEF i, next
<1>5. CASE i = 0 \/ next.kind = "stop"
  <2>1. A = Settled
    BY <1>4, <1>5
  <2> QED BY <2>1 DEF Settled
<1>6. CASE i # 0 /\ next.kind = "goto_step"
  BY <1>1, <1>3, <1>4, <1>6
<1>7. CASE i # 0 /\ next.kind # "stop" /\ next.kind # "goto_step"
  BY <1>2, <1>3, <1>4, <1>7
<1> QED BY <1>5, <1>6, <1>7

\* A record with new values of its fields.
LEMMA Recorded ==
    ASSUME NEW r \in Correlations, NEW v \in VoiceStates, NEW k \in Nat
    PROVE  /\ [r EXCEPT !.voice = v, !.count = k] \in Correlations
           /\ [r EXCEPT !.status = "settled"] \in Correlations
           /\ [r EXCEPT !.stamp = k] \in Correlations
           /\ [r EXCEPT !.voice = v] \in Correlations
BY DEF Correlations

\* What advanceFromWebhook decides for a report that is not ignored.
LEMMA Advances ==
    ASSUME NEW seen \in Correlations, NEW m \in Messages,
           seen.status # "none", seen.voice \notin Success \/ seen.status # "in_flight",
           Advance(seen, m).kind # "ignored"
    PROVE  /\ seen.status = "in_flight"
           /\ Advance(seen, m).kind \in {"save", "dial"}
           /\ Advance(seen, m).next \in Correlations
           /\ \A o \in Ops : /\ o.seen = seen /\ o.next = Advance(seen, m).next
                             /\ o.at = "save" <=> Advance(seen, m).kind = "save"
                => NextOk(o)
<1> DEFINE voice == ApplyVoiceEvent(seen.voice, m[2])
           heard == [seen EXCEPT !.voice = voice, !.count = @ + 1]
           at == AdvanceRouting(Policies, seen, seen.hops, voice, MaxHops)
           A == Advance(seen, m)
<1>1. seen.status = "in_flight" /\ ~Spent(seen)
  BY DEF Advance, Ignored, Correlations
<1>2. voice \in VoiceStates
  BY FoldTyped DEF Correlations, Messages
<1>3. A = IF voice \in Undecided THEN [kind |-> "save", next |-> heard]
          ELSE IF m \in seen.ledger THEN Ignored
          ELSE IF at.kind = "settled"
               THEN [kind |-> "save", next |-> [heard EXCEPT !.status = "settled"]]
          ELSE [kind |-> "dial",
                next |-> [heard EXCEPT !.policy = at.policy, !.step = at.step,
                                       !.hops = @ + 1, !.ledger = @ \cup {m}]]
  BY <1>1 DEF Advance
<1>4. at.kind # "settled" => /\ voice \notin Success /\ ~LastHop(seen.hops, MaxHops)
                             /\ at.policy \in DOMAIN Policies /\ at.step \in StepIds
  BY RoutingDials
<1> HIDE DEF voice, at
<1>5. /\ heard \in Correlations /\ heard.status = "in_flight" /\ heard.voice = voice
      /\ heard.count = seen.count + 1 /\ heard.hops = seen.hops /\ heard.ledger = seen.ledger
  <2>1. seen.count + 1 \in Nat
    BY DEF Correlations
  <2>3. heard = [seen EXCEPT !.voice = voice, !.count = seen.count + 1]
    OBVIOUS
  <2>2. heard \in Correlations
    BY <1>2, <2>1, <2>3, Recorded
  <2> QED BY <1>1, <2>2, <2>3 DEF Correlations
<1> HIDE DEF heard, A
<1>6. CASE voice \in Undecided
  <2>1. A.kind = "save" /\ A.next = heard
    BY <1>3, <1>6
  <2>2. voice \notin Success
    BY <1>6, UndecidedIsNoSuccess
  <2> QED BY <1>1, <1>5, <2>1, <2>2 DEF NextOk, A
<1>7. CASE voice \notin Undecided /\ at.kind = "settled"
  <2>1. A.kind = "save" /\ A.next = [heard EXCEPT !.status = "settled"]
    BY <1>3, <1>7 DEF A, Ignored
  <2>2. /\ A.next \in Correlations /\ A.next.status = "settled" /\ A.next.count = seen.count + 1
        /\ A.next.hops = seen.hops /\ A.next.ledger = seen.ledger
    BY <1>5, <2>1 DEF Correlations
  <2> QED BY <1>1, <2>1, <2>2 DEF NextOk, A
<1>8. CASE voice \notin Undecided /\ at.kind # "settled"
  <2>1. /\ A.kind = "dial"
        /\ A.next = [heard EXCEPT !.policy = at.policy, !.step = at.step,
                                  !.hops = @ + 1, !.ledger = @ \cup {m}]
    BY <1>3, <1>8 DEF A, Ignored
  <2>2. A.next \in Correlations
    <3> DEFINE h == heard.hops + 1
               l == heard.ledger \cup {m}
    <3>1. h \in Nat /\ l \in SUBSET Messages
      BY <1>5 DEF Correlations
    <3>2. A.next = [heard EXCEPT !.policy = at.policy, !.step = at.step, !.hops = h, !.ledger = l]
      BY <2>1
    <3> HIDE DEF h, l
    <3>3. at.policy \in DOMAIN Policies \cup {NoPolicy} /\ at.step \in StepIds \cup {NoPolicy}
      BY <1>4, <1>8
    <3>4. heard \in Correlations
      BY <1>5
    <3> QED BY ONLY <3>1, <3>2, <3>3, <3>4 DEF Correlations
  <2>3. /\ A.next.status = "in_flight" /\ A.next.count = seen.count + 1
        /\ A.next.hops = seen.hops + 1 /\ seen.ledger \subseteq A.next.ledger
        /\ A.next.voice = voice /\ voice \notin Success
    BY <1>4, <1>5, <1>8, <2>1 DEF Correlations
  <2>4. seen.hops + 1 < MaxHops /\ voice \in Decided
    <3>1. seen.hops \in Nat /\ ~(seen.hops + 1 >= MaxHops)
      BY <1>4, <1>8 DEF LastHop, Correlations
    <3> QED BY <1>2, <1>8, <3>1 DEF VoiceStates
  <2> QED BY <1>1, <2>1, <2>2, <2>3, <2>4 DEF NextOk, A
<1> QED BY <1>6, <1>7, <1>8

-----------------------------------------------------------------------------
\* A worker that takes a new step.
LEMMA WorkerMoves ==
    ASSUME worker \in [Workers -> Ops], NEW w \in Workers, NEW o \in Ops,
           worker' = [worker EXCEPT ![w] = o]
    PROVE  /\ worker' \in [Workers -> Ops]
           /\ worker'[w] = o
           /\ \A v \in Workers : v # w => worker'[v] = worker[v]
OBVIOUS

\* A record that is written.
LEMMA RecordWritten ==
    ASSUME corr \in [Calls -> Correlations], NEW c \in Calls, NEW r \in Correlations,
           corr' = [corr EXCEPT ![c] = r]
    PROVE  /\ corr' \in [Calls -> Correlations]
           /\ corr'[c] = r
           /\ \A d \in Calls : d # c => corr'[d] = corr[d]
OBVIOUS

LEMMA IdleTyped == Idle \in Ops
BY DEF Idle, Ops, Labels, NoRecord, Correlations, VoiceEvents, StaffChoices, CallStatuses,
       VoiceStates, Undecided

LEMMA TypeSplit == TypeOK <=>
    /\ reception \in [state : ReceptionStates, call : Calls \cup {NoCall}]
    /\ corr \in [Calls -> Correlations]
    /\ lapsed \in [Calls -> BOOLEAN]
    /\ line \in [Calls -> {"free", "ringing", "over"}]
    /\ dialer \in [Calls -> Calls \cup {NoCall}]
    /\ worker \in [Workers -> Ops]
BY DEF TypeOK, Ops

-----------------------------------------------------------------------------
\* Steps that write no record and dial nothing: at most a call ends or begins
\* to ring, and one worker goes on.
LEMMA OnlyLines ==
    ASSUME IInv, TypeOK', UNCHANGED <<corr, dialer>>,
           \A c \in Calls : line'[c] = "free" => line[c] = "free"
    PROVE  /\ OneChild' /\ \A c \in Calls : CallOk(c)'
           /\ \A v \in Workers : worker'[v] = worker[v] => WorkerOk(v)'
<1>1. OneChild'
  BY DEF OneChild, IInv
<1>2. \A c \in Calls : CallOk(c)'
  BY DEF IInv, CallOk, Continues
<1>3. ASSUME NEW v \in Workers, worker'[v] = worker[v] PROVE WorkerOk(v)'
  <2>1. WorkerOk(v)
    BY DEF IInv
  <2>2. (worker[v].at # "idle" => SeenOk(v)' /\ NextOk(worker[v])')
    BY <1>3, <2>1 DEF WorkerOk, SeenOk, NextOk, Continues
  <2>3. worker[v].at \in {"dial", "unreached", "create"} => Reserved(v)'
    BY <1>3, <2>1 DEF WorkerOk, Holding, Reserved
  <2>4. /\ worker[v].at = "dial" => ~HasChild(worker[v].call)'
        /\ worker[v].at = "unreached" => Barren(worker[v].call)'
    BY <1>3, <2>1 DEF WorkerOk, HasChild, Barren
  <2>5. worker[v].at = "create" => Dialed(v)'
    BY <1>3, <2>1 DEF WorkerOk, Dialed
  <2>6. worker[v].at = "repoint" => HasRecord(v)'
    BY <1>3, <2>1 DEF WorkerOk, HasRecord
  <2> QED BY <1>3, <2>2, <2>3, <2>4, <2>5, <2>6 DEF WorkerOk, NextOk, Holding, HasChild, Barren
<1> QED BY <1>1, <1>2, <1>3

\* One worker moves to a step that reserves and creates nothing.
LEMMA QuietMove ==
    ASSUME IInv, TypeOK', UNCHANGED <<corr, dialer>>,
           \A c \in Calls : line'[c] = "free" => line[c] = "free",
           NEW w \in Workers, \A v \in Workers : v # w => worker'[v] = worker[v],
           WorkerOk(w)',
           worker'[w].at \in {"dial", "unreached"} => Holding(w) /\ worker'[w].call = worker[w].call,
           worker'[w].at # "create"
    PROVE  IInv'
<1>1. OneChild' /\ (\A c \in Calls : CallOk(c)') /\ \A v \in Workers : WorkerOk(v)'
  BY OnlyLines
<1>2. OneHolder'
  BY DEF IInv, OneHolder, Holding
<1>3. OneCreator'
  BY DEF IInv, OneCreator
<1> QED BY <1>1, <1>2, <1>3 DEF IInv

-----------------------------------------------------------------------------
\* A worker goes to another step, or decides against its dial.
LEMMA GotoTyped ==
    ASSUME worker \in [Workers -> Ops], NEW w \in Workers, NEW l \in Labels,
           worker' = [worker EXCEPT ![w].at = l]
    PROVE  /\ worker' \in [Workers -> Ops]
           /\ worker'[w] = [worker[w] EXCEPT !.at = l]
           /\ \A v \in Workers : v # w => worker'[v] = worker[v]
<1>1. [worker[w] EXCEPT !.at = l] \in Ops
  BY DEF Ops
<1> QED BY <1>1, WorkerMoves

LEMMA NotDialedTyped ==
    ASSUME NEW s \in Correlations, NEW n \in Correlations
    PROVE  /\ NotDialed(s, n) \in Correlations
           /\ NotDialed(s, n).hops = s.hops /\ NotDialed(s, n).status = n.status
           /\ NotDialed(s, n).count = n.count /\ NotDialed(s, n).ledger = n.ledger
           /\ NotDialed(s, n).voice = n.voice
BY DEF Correlations, NotDialed

LEMMA GiveUpTyped ==
    ASSUME worker \in [Workers -> Ops], NEW w \in Workers, GiveUpDial(w)
    PROVE  /\ worker' \in [Workers -> Ops]
           /\ worker'[w] = [worker[w] EXCEPT !.at = "save",
                                             !.next = NotDialed(worker[w].seen, worker[w].next)]
           /\ \A v \in Workers : v # w => worker'[v] = worker[v]
<1> DEFINE n == NotDialed(worker[w].seen, worker[w].next)
           o == [worker[w] EXCEPT !.at = "save", !.next = n]
<1>1. n \in Correlations
  BY NotDialedTyped DEF Ops
<1>2. worker' = [worker EXCEPT ![w] = o]
  BY DEF GiveUpDial
<1> HIDE DEF n
<1>3. o \in Ops
  BY <1>1 DEF Ops, Labels
<1> HIDE DEF o
<1>4. /\ worker' \in [Workers -> Ops] /\ worker'[w] = o
      /\ \A v \in Workers : v # w => worker'[v] = worker[v]
  BY <1>2, <1>3, WorkerMoves
<1> QED BY <1>4 DEF n, o

LEMMA FinishTyped ==
    ASSUME worker \in [Workers -> Ops], NEW w \in Workers, Finish(w)
    PROVE  /\ worker' \in [Workers -> Ops] /\ worker'[w] = Idle
           /\ \A v \in Workers : v # w => worker'[v] = worker[v]
BY IdleTyped, WorkerMoves DEF Finish

LEMMA ReservationTyped ==
    ASSUME NEW s \in Correlations, NEW n \in Correlations
    PROVE  /\ Reservation(s, n) \in Correlations
           /\ Reservation(s, n).status = "settled" /\ Reservation(s, n).hops = s.hops
           /\ Reservation(s, n).ledger = n.ledger /\ Reservation(s, n).count = n.count
           /\ Reservation(s, n).voice = s.voice
BY DEF Correlations, Reservation

LEMMA Stamped ==
    ASSUME NEW r \in Correlations, NEW c \in Calls, corr[c] \in Correlations,
           NEW s \in StampsAfter(corr[c].stamp)
    PROVE  /\ [r EXCEPT !.stamp = s] \in Correlations
           /\ [r EXCEPT !.stamp = s].status = r.status /\ [r EXCEPT !.stamp = s].voice = r.voice
           /\ [r EXCEPT !.stamp = s].hops = r.hops /\ [r EXCEPT !.stamp = s].count = r.count
           /\ [r EXCEPT !.stamp = s].ledger = r.ledger
<1>1. s \in Nat
  BY DEF StampsAfter, Correlations
<1> QED BY <1>1 DEF Correlations

\* What updateIfUnchanged stores.
LEMMA Updated ==
    ASSUME corr \in [Calls -> Correlations], NEW w \in Workers, worker[w].call \in Calls,
           NEW r \in Correlations, WriteIfUnchanged(w, r), Unchanged(w)
    PROVE  \E q \in Correlations :
              /\ corr' = [corr EXCEPT ![worker[w].call] = q]
              /\ q.status = r.status /\ q.voice = r.voice /\ q.hops = r.hops
              /\ q.count = r.count /\ q.ledger = r.ledger
<1>1. PICK s \in StampsAfter(corr[worker[w].call].stamp) :
         corr' = [corr EXCEPT ![worker[w].call] = [r EXCEPT !.stamp = s]]
  BY DEF WriteIfUnchanged
<1> QED BY <1>1, Stamped

LEMMA NotUpdated ==
    ASSUME NEW w \in Workers, NEW r, WriteIfUnchanged(w, r), ~Unchanged(w)
    PROVE  UNCHANGED corr
BY DEF WriteIfUnchanged

-----------------------------------------------------------------------------
\* While a record is in flight nobody has reserved or dialed because of it.
LEMMA InFlight ==
    ASSUME IInv, NEW c \in Calls, corr[c].status = "in_flight"
    PROVE  /\ ~HasChild(c)
           /\ \A v \in Workers : worker[v].call = c =>
                 worker[v].at \notin {"dial", "unreached", "create"}
BY DEF IInv, CallOk, HasChild, WorkerOk, Holding, Reserved

\* A record is written: it has no next call, or one without a record.
LEMMA Rewrites ==
    ASSUME IInv, TypeOK', UNCHANGED <<line, dialer>>, NEW c \in Calls, NEW r \in Correlations,
           corr' = [corr EXCEPT ![c] = r], corr[c].status # "none", Barren(c),
           r.status \in {"in_flight", "settled"}, r.hops = corr[c].hops, Continues(c, r),
           r.status = "in_flight" => r.voice \notin Success,
           HasChild(c) => r.status = "settled" /\ r.voice \notin Success /\ r.count > 0
    PROVE  /\ corr'[c] = r
           /\ \A d \in Calls : corr[d].status # "none" /\ dialer[d] \in Calls =>
                 corr'[dialer[d]] = corr[dialer[d]]
           /\ OneChild' /\ \A d \in Calls : CallOk(d)'
           /\ \A v \in Workers :
                 /\ worker'[v] = worker[v]
                 /\ Holding(v) => worker[v].call # c
                 => WorkerOk(v)'
<1>1. corr \in [Calls -> Correlations] /\ dialer \in [Calls -> Calls \cup {NoCall}]
  BY DEF IInv, TypeOK
<1>2. corr'[c] = r /\ \A d \in Calls : d # c => corr'[d] = corr[d]
  BY <1>1, RecordWritten
<1>3. \A d \in Calls : corr[d].status # "none" /\ dialer[d] \in Calls =>
         corr'[dialer[d]] = corr[dialer[d]]
  BY <1>2 DEF Barren
<1>4. OneChild'
  BY DEF IInv, OneChild
<1>5. ASSUME NEW d \in Calls PROVE CallOk(d)'
  <2>1. CallOk(d)
    BY DEF IInv
  <2>2. dialer[d] \in Calls \cup {NoCall}
    BY <1>1
  <2>3. CASE d = c
    <3>1. dialer[c] # NoCall => corr'[dialer[c]] = corr[dialer[c]]
      BY <1>3, <2>2, <2>3
    <3>2. /\ line'[c] # "free" /\ (corr'[c].status # "settled" => corr'[c].voice \notin Success)
          /\ Continues(c, corr[c])'
      BY <1>2, <2>1, <2>3, <3>1 DEF CallOk, Continues
    <3> QED BY <2>1, <2>3, <3>1, <3>2 DEF CallOk
  <2>4. CASE d # c
    <3>1. corr'[d] = corr[d]
      BY <1>2, <2>4
    <3>2. dialer[d] = c => /\ corr[d].status = "none"
                           /\ corr'[c].status = "settled" /\ corr'[c].voice \notin Success
                           /\ corr'[c].count > 0
      BY <1>2 DEF Barren, HasChild
    <3>3. dialer[d] # NoCall /\ dialer[d] # c => corr'[dialer[d]] = corr[dialer[d]]
      BY <1>2, <2>2
    <3> QED BY <2>1, <3>1, <3>2, <3>3 DEF CallOk, Continues
  <2> QED BY <2>3, <2>4
<1>6. ASSUME NEW v \in Workers, worker'[v] = worker[v],
             Holding(v) => worker[v].call # c
      PROVE  WorkerOk(v)'
  <2>1. WorkerOk(v)
    BY DEF IInv
  <2>2. CASE worker[v].at = "idle"
    BY <1>6, <2>2 DEF WorkerOk, Holding
  <2>3. CASE worker[v].at # "idle"
    <3>1. worker[v].call \in Calls /\ dialer[worker[v].call] \in Calls \cup {NoCall}
      BY <1>1, <2>1, <2>3 DEF WorkerOk, SeenOk
    <3>2. SeenOk(v)' /\ NextOk(worker[v])
      BY <1>2, <1>3, <1>6, <2>1, <2>3, <3>1 DEF WorkerOk, SeenOk, Continues
    <3>4. Holding(v) => Reserved(v)'
      BY <1>2, <1>6, <2>1, <3>1 DEF WorkerOk, Reserved
    <3>5. /\ worker[v].at = "dial" => ~HasChild(worker[v].call)'
          /\ worker[v].at = "unreached" => Barren(worker[v].call)'
      BY <1>2, <1>6, <2>1 DEF WorkerOk, HasChild, Barren
    <3>6. worker[v].at = "create" => Dialed(v)'
      BY <1>2, <1>6, <2>1 DEF WorkerOk, Dialed
    <3>7. worker[v].at = "repoint" => HasRecord(v)'
      BY <1>2, <1>6, <2>1 DEF WorkerOk, HasRecord
    <3> QED BY <1>6, <3>2, <3>4, <3>5, <3>6, <3>7
            DEF WorkerOk, NextOk, Holding, HasChild, Barren
  <2> QED BY <2>2, <2>3
<1> QED BY <1>2, <1>3, <1>4, <1>5, <1>6

\* A call gets its record.
LEMMA Recording ==
    ASSUME IInv, TypeOK', UNCHANGED <<line, dialer>>, NEW n \in Calls, NEW r \in Correlations,
           corr' = [corr EXCEPT ![n] = r], corr[n].status = "none", line[n] # "free",
           r.status = "in_flight", r.voice \notin Success, Continues(n, r)
    PROVE  /\ corr'[n] = r /\ \A d \in Calls : d # n => corr'[d] = corr[d]
           /\ OneChild' /\ \A d \in Calls : CallOk(d)'
           /\ \A v \in Workers :
                 /\ worker[v].at # "idle" => worker[v].call # n
                 /\ /\ worker'[v] = worker[v]
                    /\ worker[v].at = "create" => worker[v].new # n
                    /\ worker[v].at = "unreached" => worker[v].call # dialer[n]
                    => WorkerOk(v)'
<1>1. corr \in [Calls -> Correlations] /\ dialer \in [Calls -> Calls \cup {NoCall}]
  BY DEF IInv, TypeOK
<1>2. corr'[n] = r /\ \A d \in Calls : d # n => corr'[d] = corr[d]
  BY <1>1, RecordWritten
<1>3. \A d \in Calls : dialer[d] # n
  BY DEF IInv, CallOk
<1>4. OneChild'
  BY DEF IInv, OneChild
<1>5. ASSUME NEW d \in Calls PROVE CallOk(d)'
  <2>1. CallOk(d)
    BY DEF IInv
  <2>2. dialer[d] \in Calls \cup {NoCall}
    BY <1>1
  <2>3. CASE d = n
    BY <1>2, <1>3, <2>1, <2>2, <2>3 DEF CallOk, Continues
  <2>4. CASE d # n
    BY <1>2, <1>3, <2>1, <2>2, <2>4 DEF CallOk, Continues
  <2> QED BY <2>3, <2>4
<1>6. ASSUME NEW v \in Workers, worker[v].at # "idle" PROVE worker[v].call # n
  BY <1>6 DEF IInv, WorkerOk, SeenOk
<1>7. ASSUME NEW v \in Workers, worker'[v] = worker[v],
             worker[v].at = "create" => worker[v].new # n,
             worker[v].at = "unreached" => worker[v].call # dialer[n]
      PROVE  WorkerOk(v)'
  <2>1. WorkerOk(v)
    BY DEF IInv
  <2>2. CASE worker[v].at = "idle"
    BY <1>7, <2>2 DEF WorkerOk, Holding
  <2>3. CASE worker[v].at # "idle"
    <3>1. /\ worker[v].call \in Calls /\ worker[v].call # n
          /\ dialer[worker[v].call] \in Calls \cup {NoCall}
      BY <1>1, <1>6, <2>1, <2>3 DEF WorkerOk, SeenOk
    <3>2. SeenOk(v)' /\ NextOk(worker[v])
      BY <1>2, <1>3, <1>7, <2>1, <2>3, <3>1 DEF WorkerOk, SeenOk, Continues
    <3>4. Holding(v) => Reserved(v)'
      BY <1>2, <1>7, <2>1, <3>1 DEF WorkerOk, Reserved
    <3>5. /\ worker[v].at = "dial" => ~HasChild(worker[v].call)'
          /\ worker[v].at = "unreached" => Barren(worker[v].call)'
      BY <1>2, <1>7, <2>1 DEF WorkerOk, HasChild, Barren
    <3>6. worker[v].at = "create" => Dialed(v)'
      BY <1>2, <1>7, <2>1 DEF WorkerOk, Dialed
    <3>7. worker[v].at = "repoint" => HasRecord(v)'
      BY <1>2, <1>7, <2>1 DEF WorkerOk, HasRecord
    <3> QED BY <1>7, <3>2, <3>4, <3>5, <3>6, <3>7
            DEF WorkerOk, NextOk, Holding, HasChild, Barren
  <2> QED BY <2>2, <2>3
<1> QED BY <1>2, <1>4, <1>5, <1>6, <1>7

-----------------------------------------------------------------------------
\* A worker gives up the dial it was about to make.
LEMMA GiveUpKeeps ==
    ASSUME IInv, NEW w \in Workers, worker[w].at \in {"check", "reserve"}, GiveUpDial(w),
           UNCHANGED <<reception, corr, lapsed, line, dialer>>
    PROVE  IInv'
<1> DEFINE o == [worker[w] EXCEPT !.at = "save",
                                  !.next = NotDialed(worker[w].seen, worker[w].next)]
<1>1. worker \in [Workers -> Ops] /\ TypeOK
  BY TypeSplit DEF IInv
<1>2. /\ worker' \in [Workers -> Ops] /\ worker'[w] = o
      /\ \A v \in Workers : v # w => worker'[v] = worker[v]
  BY <1>1, GiveUpTyped
<1>3. TypeOK'
  BY <1>1, <1>2 DEF TypeOK, Ops
<1>4. SeenOk(w) /\ NextOk(worker[w])
  BY DEF IInv, WorkerOk
<1>5. /\ o.at = "save" /\ o.call = worker[w].call /\ o.seen = worker[w].seen
      /\ o.next = NotDialed(worker[w].seen, worker[w].next)
  BY <1>1 DEF Ops
<1>6. NextOk(o)
  <2>1. worker[w].seen \in Correlations /\ worker[w].next \in Correlations
    BY <1>1 DEF Ops
  <2> QED BY <1>4, <1>5, <2>1, NotDialedTyped DEF NextOk
<1> HIDE DEF o
<1>7. SeenOk(w)'
  BY <1>2, <1>4, <1>5 DEF SeenOk, Continues
<1>8. WorkerOk(w)'
  BY <1>2, <1>5, <1>6, <1>7 DEF WorkerOk, Holding, NextOk
<1> QED BY <1>2, <1>3, <1>5, <1>8, QuietMove

\* A worker that is done.
LEMMA FinishKeeps ==
    ASSUME IInv, NEW w \in Workers, Finish(w), TypeOK',
           UNCHANGED <<corr, dialer>>, \A c \in Calls : line'[c] = "free" => line[c] = "free"
    PROVE  IInv'
<1>1. worker \in [Workers -> Ops]
  BY TypeSplit DEF IInv
<1>2. worker'[w] = Idle /\ \A v \in Workers : v # w => worker'[v] = worker[v]
  BY <1>1, FinishTyped
<1>3. WorkerOk(w)'
  BY <1>2 DEF WorkerOk, Holding, Idle
<1> QED BY <1>2, <1>3, QuietMove DEF Idle

\* A worker goes on with what it has decided.
LEMMA GotoKeeps ==
    ASSUME IInv, NEW w \in Workers, worker[w].at \in Labels \ {"idle", "save"},
           NEW l \in {"reserve", "unreached", "abandon"}, Goto(w, l),
           l = "unreached" => worker[w].at = "dial", TypeOK',
           UNCHANGED <<corr, dialer>>, \A c \in Calls : line'[c] = "free" => line[c] = "free"
    PROVE  IInv'
<1> DEFINE o == [worker[w] EXCEPT !.at = l]
<1>1. worker \in [Workers -> Ops]
  BY TypeSplit DEF IInv
<1>2. worker'[w] = o /\ \A v \in Workers : v # w => worker'[v] = worker[v]
  BY <1>1, GotoTyped DEF Goto, Labels
<1>3. /\ o.at = l /\ o.call = worker[w].call /\ o.seen = worker[w].seen
      /\ o.next = worker[w].next
  BY <1>1 DEF Ops
<1> HIDE DEF o
<1>4. WorkerOk(w)
  BY DEF IInv
<1>5. SeenOk(w)' /\ NextOk(o)
  BY <1>2, <1>3, <1>4 DEF WorkerOk, SeenOk, NextOk, Continues
<1>6. l = "unreached" => Reserved(w)' /\ Barren(worker[w].call)'
  BY <1>2, <1>3, <1>4 DEF WorkerOk, Holding, Reserved, HasChild, Barren
<1>7. WorkerOk(w)'
  BY <1>2, <1>3, <1>5, <1>6 DEF WorkerOk, Holding, Barren, NextOk
<1>8. worker'[w].at = l /\ worker'[w].call = worker[w].call
  BY <1>2, <1>3
<1> QED BY <1>2, <1>7, <1>8, QuietMove DEF Holding

-----------------------------------------------------------------------------
\* Receive: the record is read and the decision taken.
LEMMA ReceiveKeeps ==
    ASSUME IInv, NEW w \in Workers, NEW m \in Messages, Receive(w, m)
    PROVE  IInv'
<1> DEFINE c == m[1]
           A == Advance(corr[c], m)
           o == [at |-> IF A.kind = "dial" THEN "check" ELSE "save", call |-> c,
                 event |-> m[2], seen |-> corr[c], next |-> A.next, new |-> NoCall]
<1>1. /\ worker \in [Workers -> Ops] /\ TypeOK
      /\ c \in Calls /\ m[2] \in VoiceEvents /\ corr[c] \in Correlations
  BY TypeSplit DEF IInv, TypeOK, Messages
<1>2. /\ corr[c].status # "none" /\ A.kind # "ignored" /\ worker' = [worker EXCEPT ![w] = o]
      /\ UNCHANGED <<reception, corr, lapsed, line, dialer>> /\ worker[w].at = "idle"
  BY DEF Receive, At
<1>3. CallOk(c)
  BY <1>1 DEF IInv
<1>4. /\ corr[c].status = "in_flight" /\ A.kind \in {"save", "dial"} /\ A.next \in Correlations
      /\ \A q \in Ops : /\ q.seen = corr[c] /\ q.next = A.next
                        /\ q.at = "save" <=> A.kind = "save"
           => NextOk(q)
  BY <1>1, <1>2, <1>3, Advances DEF CallOk
<1> HIDE DEF A
<1>5. o \in Ops
  BY <1>1, <1>4 DEF Ops, Labels
<1>6. /\ o.at \in {"check", "save"} /\ o.call = c /\ o.seen = corr[c] /\ NextOk(o)
  BY <1>4, <1>5
<1> HIDE DEF o
<1>7. /\ worker' \in [Workers -> Ops] /\ worker'[w] = o
      /\ \A v \in Workers : v # w => worker'[v] = worker[v]
  BY <1>1, <1>2, <1>5, WorkerMoves
<1>8. TypeOK'
  BY <1>1, <1>2, <1>7 DEF TypeOK, Ops
<1>9. SeenOk(w)'
  <2>1. worker'[w].call = c /\ worker'[w].seen = corr[c] /\ corr' = corr /\ dialer' = dialer
    BY <1>2, <1>6, <1>7
  <2> HIDE DEF c
  <2> QED BY <1>1, <1>3, <1>4, <2>1 DEF SeenOk, CallOk, Continues
<1>10. WorkerOk(w)'
  BY <1>6, <1>7, <1>9 DEF WorkerOk, Holding, NextOk
<1> QED BY <1>2, <1>6, <1>7, <1>8, <1>10, QuietMove

\* Check, and a reservation that throws without having been written.
LEMMA CheckKeeps ==
    ASSUME IInv, NEW w \in Workers, Check(w) \/ ReserveThrows(w)
    PROVE  IInv'
<1>1. UNCHANGED <<reception, corr, lapsed, line, dialer>> /\ worker[w].at \in {"check", "reserve"}
  BY DEF Check, ReserveThrows, At
<1>2. CASE GiveUpDial(w)
  BY <1>1, <1>2, GiveUpKeeps
<1>3. CASE Goto(w, "reserve")
  <2>1. TypeOK /\ worker \in [Workers -> Ops]
    BY TypeSplit DEF IInv
  <2>2. worker' \in [Workers -> Ops]
    BY <1>3, <2>1, GotoTyped DEF Goto, Labels
  <2>3. TypeOK'
    BY <1>1, <2>1, <2>2 DEF TypeOK, Ops
  <2> QED BY <1>1, <1>3, <2>3, GotoKeeps DEF Labels
<1> QED BY <1>2, <1>3 DEF Check, ReserveThrows

\* Reserve: the right to dial is taken, lost, or not known to be taken.
LEMMA ReserveKeeps ==
    ASSUME IInv, NEW w \in Workers, Reserve(w)
    PROVE  IInv'
<1> DEFINE c == worker[w].call
           r == Reservation(worker[w].seen, worker[w].next)
<1>1. /\ TypeOK /\ worker \in [Workers -> Ops] /\ corr \in [Calls -> Correlations]
      /\ worker[w].seen \in Correlations /\ worker[w].next \in Correlations
      /\ worker[w].at = "reserve" /\ WorkerOk(w) /\ c \in Calls
      /\ WriteIfUnchanged(w, r) /\ UNCHANGED <<reception, line, dialer>>
      /\ lapsed' \in [Calls -> BOOLEAN]
  <2>1. TypeOK /\ worker \in [Workers -> Ops] /\ worker[w].at = "reserve" /\ WorkerOk(w)
    BY TypeSplit DEF IInv, Reserve, At
  <2>2. /\ worker[w].seen \in Correlations /\ worker[w].next \in Correlations
        /\ corr \in [Calls -> Correlations] /\ lapsed \in [Calls -> BOOLEAN] /\ c \in Calls
    BY <2>1 DEF Ops, TypeOK, WorkerOk, SeenOk
  <2> QED BY <2>1, <2>2 DEF Reserve
<1>2. CASE ~Unchanged(w)
  <2>1. UNCHANGED corr /\ Finish(w)
    BY <1>1, <1>2, NotUpdated DEF Reserve
  <2>2. TypeOK'
    <3>1. worker' \in [Workers -> Ops]
      BY <1>1, <2>1, FinishTyped
    <3> QED BY <1>1, <2>1, <3>1 DEF TypeOK, Ops
  <2> QED BY <1>1, <2>1, <2>2, FinishKeeps
<1>3. CASE Unchanged(w)
  <2>1. PICK q \in Correlations :
           /\ corr' = [corr EXCEPT ![c] = q]
           /\ q.status = "settled" /\ q.voice = worker[w].seen.voice
           /\ q.hops = worker[w].seen.hops
           /\ q.count = worker[w].next.count /\ q.ledger = worker[w].next.ledger
    BY <1>1, <1>3, Updated, ReservationTyped
  <2>2. corr[c].status = "in_flight"
    BY <1>3 DEF Unchanged
  <2>3. /\ ~HasChild(c)
        /\ \A v \in Workers : worker[v].call = c =>
              worker[v].at \notin {"dial", "unreached", "create"}
    BY <1>1, <2>2, InFlight
  <2>4. SeenOk(w) /\ NextOk(worker[w])
    BY <1>1 DEF WorkerOk
  <2>5. Continues(c, q)
    <3>1. /\ corr[dialer[c]].ledger \subseteq worker[w].seen.ledger => corr[dialer[c]].ledger \subseteq q.ledger
      BY <2>1, <2>4 DEF NextOk
    <3>2. worker[w].seen.count \in Nat /\ q.count = worker[w].seen.count + 1
      BY <1>1, <2>1, <2>4 DEF NextOk, Correlations
    <3>3. dialer[c] # NoCall => corr[dialer[c]].count \in Nat
      BY <1>1 DEF TypeOK, Correlations
    <3> QED BY <2>1, <2>4, <3>1, <3>2, <3>3 DEF SeenOk, Continues
  <2>6. \/ Goto(w, "dial") \/ GiveUpDial(w)
    BY <1>3 DEF Reserve
  <2>7. /\ worker' \in [Workers -> Ops] /\ \A v \in Workers : v # w => worker'[v] = worker[v]
        /\ worker'[w].call = c /\ worker'[w].seen = worker[w].seen
        /\ NextOk(worker'[w])
        /\ \/ worker'[w].at = "save"
           \/ worker'[w].at = "dial" /\ worker'[w].next = worker[w].next
    <3>1. CASE Goto(w, "dial")
      <4>1. /\ worker' \in [Workers -> Ops] /\ worker'[w] = [worker[w] EXCEPT !.at = "dial"]
            /\ \A v \in Workers : v # w => worker'[v] = worker[v]
        BY <1>1, <3>1, GotoTyped DEF Goto, Labels
      <4> QED BY <1>1, <2>4, <4>1 DEF Ops, NextOk
    <3>2. CASE GiveUpDial(w)
      <4>1. /\ worker' \in [Workers -> Ops]
            /\ worker'[w] = [worker[w] EXCEPT !.at = "save",
                                !.next = NotDialed(worker[w].seen, worker[w].next)]
            /\ \A v \in Workers : v # w => worker'[v] = worker[v]
        BY <1>1, <3>2, GiveUpTyped
      <4>2. /\ worker'[w].at = "save" /\ worker'[w].call = c /\ worker'[w].seen = worker[w].seen
            /\ worker'[w].next = NotDialed(worker[w].seen, worker[w].next)
        BY <1>1, <4>1 DEF Ops
      <4> QED BY <1>1, <2>4, <4>1, <4>2, NotDialedTyped DEF NextOk
    <3> QED BY <2>6, <3>1, <3>2
  <2>8. TypeOK'
    <3>1. corr' \in [Calls -> Correlations]
      BY <1>1, <2>1, RecordWritten
    <3> QED BY <1>1, <2>7, <3>1 DEF TypeOK, Ops
  <2>9. q.hops = corr[c].hops /\ corr[c].status # "none"
    BY <2>1, <2>4 DEF SeenOk
  <2>10. /\ corr'[c] = q
         /\ \A d \in Calls : corr[d].status # "none" /\ dialer[d] \in Calls =>
               corr'[dialer[d]] = corr[dialer[d]]
         /\ OneChild' /\ \A d \in Calls : CallOk(d)'
         /\ \A v \in Workers : v # w => WorkerOk(v)'
    <3>1. q.status \in {"in_flight", "settled"} /\ (q.status = "in_flight" => q.voice \notin Success)
      BY <2>1
    <3> HIDE DEF c, r
    <3>2. /\ corr'[c] = q
          /\ \A d \in Calls : corr[d].status # "none" /\ dialer[d] \in Calls =>
                corr'[dialer[d]] = corr[dialer[d]]
          /\ OneChild' /\ \A d \in Calls : CallOk(d)'
          /\ \A v \in Workers :
                /\ worker'[v] = worker[v]
                /\ Holding(v) => worker[v].call # c
                => WorkerOk(v)'
      BY <1>1, <2>1, <2>3, <2>5, <2>8, <2>9, <3>1, Rewrites DEF Barren, HasChild
    <3> QED BY <2>3, <2>7, <3>2 DEF Holding
  <2>11. SeenOk(w)'
    <3>1. dialer[c] \in Calls \cup {NoCall}
      BY <1>1 DEF TypeOK
    <3> QED BY <1>1, <2>1, <2>4, <2>7, <2>10, <3>1 DEF SeenOk, Continues
  <2>12. worker'[w].at = "dial" => Reserved(w)' /\ ~HasChild(c)'
    BY <1>1, <2>1, <2>3, <2>4, <2>7, <2>10 DEF Reserved, SeenOk, HasChild
  <2>13. WorkerOk(w)'
    BY <2>7, <2>11, <2>12 DEF WorkerOk, Holding, NextOk, HasChild
  <2>14. OneHolder' /\ OneCreator'
    BY <2>3, <2>7 DEF IInv, OneHolder, OneCreator, Holding
  <2> QED BY <2>8, <2>10, <2>13, <2>14 DEF IInv
<1> QED BY <1>2, <1>3

\* Save: what a report that leads to no call stores, if it does.
LEMMA SaveKeeps ==
    ASSUME IInv, NEW w \in Workers, Save(w)
    PROVE  IInv'
<1> DEFINE c == worker[w].call
<1>1. /\ TypeOK /\ worker \in [Workers -> Ops] /\ corr \in [Calls -> Correlations]
      /\ worker[w].seen \in Correlations /\ worker[w].next \in Correlations
      /\ worker[w].at = "save" /\ WorkerOk(w) /\ c \in Calls
      /\ Finish(w) /\ UNCHANGED <<reception, lapsed, line, dialer>>
  <2>1. TypeOK /\ worker \in [Workers -> Ops] /\ worker[w].at = "save" /\ WorkerOk(w)
    BY TypeSplit DEF IInv, Save, At
  <2>2. /\ worker[w].seen \in Correlations /\ worker[w].next \in Correlations
        /\ corr \in [Calls -> Correlations] /\ c \in Calls
    BY <2>1 DEF Ops, TypeOK, WorkerOk, SeenOk
  <2> QED BY <2>1, <2>2 DEF Save
<1>2. /\ worker' \in [Workers -> Ops] /\ worker'[w] = Idle
      /\ \A v \in Workers : v # w => worker'[v] = worker[v]
  BY <1>1, FinishTyped
<1>3. CASE UNCHANGED corr
  <2>1. TypeOK'
    BY <1>1, <1>2, <1>3 DEF TypeOK, Ops
  <2> QED BY <1>1, <1>3, <2>1, FinishKeeps
<1>4. CASE WriteIfUnchanged(w, worker[w].next) /\ ~Unchanged(w)
  BY <1>3, <1>4, NotUpdated
<1>5. CASE WriteIfUnchanged(w, worker[w].next) /\ Unchanged(w)
  <2>1. PICK q \in Correlations :
           /\ corr' = [corr EXCEPT ![c] = q]
           /\ q.status = worker[w].next.status /\ q.voice = worker[w].next.voice
           /\ q.hops = worker[w].next.hops
           /\ q.count = worker[w].next.count /\ q.ledger = worker[w].next.ledger
    BY <1>1, <1>5, Updated
  <2>2. corr[c].status = "in_flight"
    BY <1>5 DEF Unchanged
  <2>3. /\ ~HasChild(c)
        /\ \A v \in Workers : worker[v].call = c =>
              worker[v].at \notin {"dial", "unreached", "create"}
    BY <1>1, <2>2, InFlight
  <2>4. SeenOk(w) /\ NextOk(worker[w])
    BY <1>1 DEF WorkerOk
  <2>5. Continues(c, q)
    <3>2. worker[w].seen.count \in Nat /\ q.count = worker[w].seen.count + 1
      BY <1>1, <2>1, <2>4 DEF NextOk, Correlations
    <3>3. dialer[c] # NoCall => corr[dialer[c]].count \in Nat
      BY <1>1 DEF TypeOK, Correlations
    <3> QED BY <1>1, <2>1, <2>4, <3>2, <3>3 DEF SeenOk, Continues, NextOk
  <2>6. TypeOK'
    <3>1. corr' \in [Calls -> Correlations]
      BY <1>1, <2>1, RecordWritten
    <3> QED BY <1>1, <1>2, <3>1 DEF TypeOK, Ops
  <2>7. /\ q.hops = corr[c].hops /\ corr[c].status # "none" /\ q.status \in {"in_flight", "settled"}
        /\ q.status = "in_flight" => q.voice \notin Success
    BY <1>1, <2>1, <2>4 DEF SeenOk, NextOk
  <2>8. /\ OneChild' /\ \A d \in Calls : CallOk(d)'
        /\ \A v \in Workers : v # w => WorkerOk(v)'
    <3> HIDE DEF c
    <3>1. /\ OneChild' /\ \A d \in Calls : CallOk(d)'
          /\ \A v \in Workers :
                /\ worker'[v] = worker[v]
                /\ Holding(v) => worker[v].call # c
                => WorkerOk(v)'
      BY <1>1, <2>1, <2>3, <2>5, <2>6, <2>7, Rewrites DEF Barren, HasChild
    <3> QED BY <1>2, <2>3, <3>1 DEF Holding
  <2>9. WorkerOk(w)'
    BY <1>2 DEF WorkerOk, Holding, Idle
  <2>10. OneHolder' /\ OneCreator'
    BY <1>2 DEF IInv, OneHolder, OneCreator, Holding, Idle
  <2> QED BY <2>6, <2>8, <2>9, <2>10 DEF IInv
<1> QED BY <1>3, <1>4, <1>5 DEF Save

\* Dial, when the provider places the call: the worker o knows of it or not.
LEMMA DialKeeps ==
    ASSUME IInv, NEW w \in Workers, worker[w].at = "dial",
           NEW n \in Calls \ FirstCalls, line[n] = "free",
           line' = [line EXCEPT ![n] = "ringing"],
           dialer' = [dialer EXCEPT ![n] = worker[w].call],
           NEW o \in Ops, worker' = [worker EXCEPT ![w] = o],
           \/ o.at = "create" /\ o.new = n
           \/ o.at = "unreached",
           o.call = worker[w].call, o.seen = worker[w].seen, o.next = worker[w].next,
           UNCHANGED <<reception, corr, lapsed>>
    PROVE  IInv'
<1> DEFINE c == worker[w].call
<1>1. /\ TypeOK /\ worker \in [Workers -> Ops] /\ WorkerOk(w) /\ c \in Calls
      /\ dialer \in [Calls -> Calls \cup {NoCall}]
      /\ line \in [Calls -> {"free", "ringing", "over"}]
      /\ worker[w].seen \in Correlations
  <2>1. TypeOK /\ worker \in [Workers -> Ops] /\ WorkerOk(w)
    BY TypeSplit DEF IInv
  <2> QED BY <2>1 DEF TypeOK, Ops, WorkerOk, SeenOk
<1>3. /\ o.at \in {"create", "unreached"} /\ (o.at = "create" => o.new = n)
      /\ o.call = c /\ o.seen = worker[w].seen /\ o.next = worker[w].next
  OBVIOUS
<1>4. /\ worker' \in [Workers -> Ops] /\ worker'[w] = o
      /\ \A v \in Workers : v # w => worker'[v] = worker[v]
  BY <1>1, WorkerMoves
<1>5. /\ dialer'[n] = c /\ \A d \in Calls : d # n => dialer'[d] = dialer[d]
      /\ line'[n] = "ringing" /\ \A d \in Calls : d # n => line'[d] = line[d]
      /\ dialer' \in [Calls -> Calls \cup {NoCall}]
      /\ line' \in [Calls -> {"free", "ringing", "over"}]
  BY <1>1
<1>6. TypeOK'
  BY <1>1, <1>4, <1>5 DEF TypeOK, Ops
<1>7. /\ SeenOk(w) /\ NextOk(worker[w]) /\ Reserved(w) /\ ~HasChild(c)
  BY <1>1 DEF WorkerOk, Holding
<1>8. corr[n].status = "none" /\ dialer[n] = NoCall /\ n # c
  BY <1>7 DEF IInv, CallOk, Reserved
<1>9. OneChild'
  <2>1. \A d \in Calls : dialer[d] # c
    BY <1>7 DEF HasChild
  <2> QED BY <1>5, <2>1 DEF IInv, OneChild
<1>10. ASSUME NEW d \in Calls PROVE CallOk(d)'
  <2>1. CallOk(d)
    BY DEF IInv
  <2>2. CASE d = n
    <3>1. corr[c].count > 0
      BY <1>1, <1>7 DEF Reserved, NextOk, Correlations
    <3> QED BY <1>5, <1>7, <1>8, <2>1, <2>2, <3>1 DEF CallOk, Reserved, Continues
  <2>3. CASE d # n
    BY <1>5, <2>1, <2>3 DEF CallOk, Continues
  <2> QED BY <2>2, <2>3
<1>11. ASSUME NEW v \in Workers, worker[v].at # "idle" PROVE worker[v].call # n
  BY <1>8, <1>11 DEF IInv, WorkerOk, SeenOk
<1>12. /\ SeenOk(w)' /\ Reserved(w)'
       /\ o.at = "create" => Dialed(w)'
       /\ Barren(c)'
  <2>1. SeenOk(w)'
    BY <1>3, <1>4, <1>5, <1>7, <1>8 DEF SeenOk, Continues
  <2>2. Reserved(w)'
    BY <1>3, <1>4, <1>7 DEF Reserved
  <2>3. o.at = "create" => Dialed(w)'
    BY <1>3, <1>4, <1>5, <1>8 DEF Dialed
  <2>4. Barren(c)'
    BY <1>3, <1>4, <1>5, <1>7, <1>8 DEF Barren, HasChild
  <2> QED BY <2>1, <2>2, <2>3, <2>4
<1>13. WorkerOk(w)'
  BY <1>3, <1>4, <1>7, <1>12 DEF WorkerOk, NextOk, Holding, Barren
<1>14. ASSUME NEW v \in Workers, v # w PROVE WorkerOk(v)'
  <2>1. WorkerOk(v) /\ worker'[v] = worker[v]
    BY <1>4, <1>14 DEF IInv
  <2>2. worker[v].at # "idle" => SeenOk(v)' /\ NextOk(worker[v])
    <3>1. worker[v].at # "idle" => /\ SeenOk(v) /\ NextOk(worker[v])
                                   /\ dialer'[worker[v].call] = dialer[worker[v].call]
      BY <1>5, <1>11, <2>1 DEF WorkerOk, SeenOk
    <3> QED BY <2>1, <3>1 DEF SeenOk, Continues
  <2>3. Holding(v) => Reserved(v)'
    BY <2>1 DEF WorkerOk, Reserved
  <2>4. /\ worker[v].at = "dial" => ~HasChild(worker[v].call)'
        /\ worker[v].at = "unreached" => Barren(worker[v].call)'
    <3>1. Holding(v) => worker[v].call # c
      BY <1>14 DEF IInv, OneHolder, Holding
    <3> QED BY <1>5, <2>1, <3>1 DEF WorkerOk, HasChild, Barren, Holding
  <2>5. worker[v].at = "create" => Dialed(v)'
    BY <1>5, <2>1 DEF WorkerOk, Dialed
  <2>6. worker[v].at = "repoint" => HasRecord(v)'
    BY <2>1 DEF WorkerOk, HasRecord
  <2> QED BY <2>1, <2>2, <2>3, <2>4, <2>5, <2>6
          DEF WorkerOk, NextOk, Holding, HasChild, Barren
<1>15. OneHolder'
  BY <1>3, <1>4 DEF IInv, OneHolder, Holding
<1>16. OneCreator'
  <2>1. \A v \in Workers : worker[v].at = "create" => worker[v].new # n
    BY DEF IInv, WorkerOk, Dialed
  <2> QED BY <1>3, <1>4, <2>1 DEF IInv, OneCreator
<1> QED BY <1>6, <1>9, <1>10, <1>13, <1>14, <1>15, <1>16 DEF IInv

\* Unreached: the record is decided and stays settled.
LEMMA UnreachedKeeps ==
    ASSUME IInv, NEW w \in Workers, Unreached(w)
    PROVE  /\ IInv'
           /\ \A d \in Calls : corr[d].status = "settled" =>
                 corr'[d].status = "settled" /\ corr'[d].hops = corr[d].hops
<1> DEFINE c == worker[w].call
           r == [Reservation(worker[w].seen, worker[w].next) EXCEPT !.voice = worker[w].next.voice]
<1>1. /\ TypeOK /\ worker \in [Workers -> Ops] /\ corr \in [Calls -> Correlations]
      /\ worker[w].seen \in Correlations /\ worker[w].next \in Correlations
      /\ worker[w].at = "unreached" /\ WorkerOk(w) /\ c \in Calls
      /\ Finish(w) /\ UNCHANGED <<reception, lapsed, line, dialer>>
  <2>1. /\ TypeOK /\ worker \in [Workers -> Ops] /\ worker[w].at = "unreached" /\ WorkerOk(w)
    BY TypeSplit DEF IInv, Unreached, At
  <2>2. /\ worker[w].seen \in Correlations /\ worker[w].next \in Correlations
        /\ corr \in [Calls -> Correlations] /\ c \in Calls
    BY <2>1 DEF Ops, TypeOK, WorkerOk, SeenOk
  <2> QED BY <2>1, <2>2 DEF Unreached
<1>2. /\ worker' \in [Workers -> Ops] /\ worker'[w] = Idle
      /\ \A v \in Workers : v # w => worker'[v] = worker[v]
  BY <1>1, FinishTyped
<1>3. CASE UNCHANGED corr
  <2>1. TypeOK'
    BY <1>1, <1>2, <1>3 DEF TypeOK, Ops
  <2> QED BY <1>1, <1>3, <2>1, FinishKeeps
<1>4. CASE \E s \in StampsAfter(corr[c].stamp) : corr' = [corr EXCEPT ![c] = [r EXCEPT !.stamp = s]]
  <2>1. /\ SeenOk(w) /\ NextOk(worker[w]) /\ Reserved(w) /\ Barren(c)
    BY <1>1 DEF WorkerOk, Holding
  <2>2. /\ r \in Correlations /\ r.status = "settled" /\ r.hops = worker[w].seen.hops
        /\ r.count = worker[w].next.count /\ r.ledger = worker[w].next.ledger
        /\ r.voice = worker[w].next.voice
    <3>1. /\ Reservation(worker[w].seen, worker[w].next) \in Correlations
          /\ worker[w].next.voice \in VoiceStates
      BY <1>1, ReservationTyped DEF Correlations
    <3>2. r \in Correlations
      BY <3>1, Recorded
    <3> QED BY <1>1, <3>1, <3>2, ReservationTyped DEF Correlations
  <2> HIDE DEF r
  <2>3. PICK q \in Correlations :
           /\ corr' = [corr EXCEPT ![c] = q]
           /\ q.status = "settled" /\ q.hops = worker[w].seen.hops
           /\ q.count = worker[w].next.count /\ q.ledger = worker[w].next.ledger
           /\ q.voice = worker[w].next.voice
    <3>1. PICK s \in StampsAfter(corr[c].stamp) : corr' = [corr EXCEPT ![c] = [r EXCEPT !.stamp = s]]
      BY <1>4
    <3> HIDE DEF c
    <3>2. corr[c] \in Correlations
      BY <1>1
    <3> DEFINE q == [r EXCEPT !.stamp = s]
    <3>3. /\ q \in Correlations /\ q.status = r.status /\ q.hops = r.hops
          /\ q.count = r.count /\ q.ledger = r.ledger /\ q.voice = r.voice
      BY <1>1, <2>2, <3>2, Stamped
    <3>4. corr' = [corr EXCEPT ![c] = q]
      BY <3>1
    <3> HIDE DEF q
    <3> QED BY <2>2, <3>3, <3>4
  <2>4. Continues(c, q)
    <3>1. worker[w].seen.count \in Nat /\ q.count = worker[w].seen.count + 1
      BY <1>1, <2>1, <2>3 DEF NextOk, Correlations
    <3>2. dialer[c] # NoCall => corr[dialer[c]].count \in Nat
      BY <1>1 DEF TypeOK, Correlations
    <3> QED BY <1>1, <2>1, <2>3, <3>1, <3>2 DEF SeenOk, Continues, NextOk
  <2>5. TypeOK'
    <3>1. corr' \in [Calls -> Correlations]
      BY <1>1, <2>3, RecordWritten
    <3> QED BY <1>1, <1>2, <3>1 DEF TypeOK, Ops
  <2>6. q.hops = corr[c].hops /\ corr[c].status # "none"
    BY <2>1, <2>3 DEF SeenOk
  <2>7. \A v \in Workers : v # w /\ Holding(v) => worker[v].call # c
    BY <1>1 DEF IInv, OneHolder, Holding
  <2>8. /\ corr'[c] = q
        /\ OneChild' /\ \A d \in Calls : CallOk(d)'
        /\ \A v \in Workers : v # w => WorkerOk(v)'
    <3>1. /\ q.status \in {"in_flight", "settled"}
          /\ q.status = "in_flight" => q.voice \notin Success
          /\ q.status = "settled" /\ q.voice \notin Success
      BY <1>1, <2>1, <2>3 DEF NextOk
    <3>3. q.count > 0
      BY <1>1, <2>1, <2>3 DEF NextOk, Correlations
    <3> HIDE DEF c
    <3>2. /\ corr'[c] = q
          /\ OneChild' /\ \A d \in Calls : CallOk(d)'
          /\ \A v \in Workers :
                /\ worker'[v] = worker[v]
                /\ Holding(v) => worker[v].call # c
                => WorkerOk(v)'
      BY <1>1, <2>1, <2>3, <2>4, <2>5, <2>6, <3>1, <3>3, Rewrites
    <3> QED BY <1>2, <2>7, <3>2
  <2>9. WorkerOk(w)'
    BY <1>2 DEF WorkerOk, Holding, Idle
  <2>10. OneHolder' /\ OneCreator'
    BY <1>2 DEF IInv, OneHolder, OneCreator, Holding, Idle
  <2>11. \A d \in Calls : d # c => corr'[d] = corr[d]
    BY <1>1, <2>3, RecordWritten
  <2> QED BY <2>3, <2>5, <2>6, <2>8, <2>9, <2>10, <2>11 DEF IInv
<1> QED BY <1>3, <1>4 DEF Unreached

\* Create: the new call gets its record, or the write fails.
LEMMA CreateKeeps ==
    ASSUME IInv, NEW w \in Workers, Create(w)
    PROVE  /\ IInv'
           /\ \A d \in Calls : corr[d].status = "settled" => corr'[d] = corr[d]
<1> DEFINE c == worker[w].call
           n == worker[w].new
           r == NextRecord(w)
<1>1. /\ TypeOK /\ worker \in [Workers -> Ops] /\ worker[w].next \in Correlations
      /\ worker[w].at = "create" /\ SeenOk(w) /\ NextOk(worker[w]) /\ Reserved(w) /\ Dialed(w)
      /\ UNCHANGED <<reception, line, dialer>>
  <2>1. /\ TypeOK /\ worker \in [Workers -> Ops] /\ worker[w].at = "create" /\ WorkerOk(w)
    BY TypeSplit DEF IInv, Create, At
  <2> QED BY <2>1 DEF Ops, WorkerOk, Holding, Create
<1>2. CASE Goto(w, "abandon") /\ UNCHANGED <<corr, lapsed>>
  <2>1. worker' \in [Workers -> Ops]
    BY <1>1, <1>2, GotoTyped DEF Goto, Labels
  <2>2. TypeOK'
    BY <1>1, <1>2, <2>1 DEF TypeOK, Ops
  <2> QED BY <1>1, <1>2, <2>2, GotoKeeps DEF Labels
<1>3. CASE /\ corr' = [corr EXCEPT ![n] = r] /\ lapsed' = [lapsed EXCEPT ![n] = FALSE]
           /\ Goto(w, "repoint")
  <2>1. /\ n \in Calls /\ dialer[n] = c /\ c \in Calls /\ corr[n].status = "none" /\ line[n] # "free"
    BY <1>1 DEF Dialed, SeenOk
  <2>2. /\ r \in Correlations /\ r.status = "in_flight" /\ r.voice \notin Success
        /\ r.hops = worker[w].next.hops /\ r.count = worker[w].next.count
        /\ r.ledger = worker[w].next.ledger
    <3>1. "queued" \in VoiceStates /\ "queued" \notin Success
      BY DEF VoiceStates, Undecided, Success
    <3> QED BY <1>1, <3>1 DEF NextRecord, Correlations
  <2> HIDE DEF r
  <2>3. Continues(n, r)
    <3>1. corr[c].hops = worker[w].seen.hops /\ corr[c].ledger = worker[w].next.ledger
          /\ corr[c].count = worker[w].next.count /\ worker[w].next.count \in Nat
      BY <1>1 DEF SeenOk, Reserved, Correlations
    <3> QED BY <1>1, <2>1, <2>2, <3>1 DEF Continues, NextOk
  <2>4. /\ worker' \in [Workers -> Ops] /\ worker'[w] = [worker[w] EXCEPT !.at = "repoint"]
        /\ \A v \in Workers : v # w => worker'[v] = worker[v]
    BY <1>1, <1>3, GotoTyped DEF Goto, Labels
  <2>5. /\ worker'[w].at = "repoint" /\ worker'[w].call = c /\ worker'[w].new = n
        /\ worker'[w].seen = worker[w].seen /\ worker'[w].next = worker[w].next
    BY <1>1, <2>4 DEF Ops
  <2>6. TypeOK'
    <3>1. corr' \in [Calls -> Correlations] /\ lapsed' \in [Calls -> BOOLEAN]
      BY <1>1, <1>3, <2>1, <2>2 DEF TypeOK
    <3> QED BY <1>1, <2>4, <3>1 DEF TypeOK, Ops
  <2>7. \A v \in Workers : v # w =>
           /\ worker[v].at = "create" => worker[v].new # n
           /\ worker[v].at = "unreached" => worker[v].call # dialer[n]
    BY <1>1, <2>1 DEF IInv, OneCreator, OneHolder, Holding
  <2>8. /\ corr'[n] = r /\ \A d \in Calls : d # n => corr'[d] = corr[d]
        /\ OneChild' /\ \A d \in Calls : CallOk(d)'
        /\ \A v \in Workers : v # w => WorkerOk(v)'
    <3> HIDE DEF c, n
    <3>1. /\ corr'[n] = r /\ \A d \in Calls : d # n => corr'[d] = corr[d]
          /\ OneChild' /\ \A d \in Calls : CallOk(d)'
          /\ \A v \in Workers :
                /\ worker[v].at # "idle" => worker[v].call # n
                /\ /\ worker'[v] = worker[v]
                   /\ worker[v].at = "create" => worker[v].new # n
                   /\ worker[v].at = "unreached" => worker[v].call # dialer[n]
                   => WorkerOk(v)'
      BY <1>1, <1>3, <2>1, <2>2, <2>3, <2>6, Recording
    <3> QED BY <2>4, <2>7, <3>1
  <2>9. SeenOk(w)'
    <3>1. c # n /\ dialer[c] # n
      BY <1>1, <2>1 DEF Reserved, IInv, CallOk
    <3>2. dialer[c] \in Calls \cup {NoCall}
      BY <1>1, <2>1 DEF TypeOK
    <3> QED BY <1>1, <2>1, <2>5, <2>8, <3>1, <3>2 DEF SeenOk, Continues
  <2>10. WorkerOk(w)'
    <3>1. HasRecord(w)'
      BY <2>1, <2>2, <2>5, <2>8 DEF HasRecord
    <3> QED BY <1>1, <2>5, <2>9, <3>1 DEF WorkerOk, NextOk, Holding
  <2>11. OneHolder' /\ OneCreator'
    <3>1. \A v \in Workers :
             /\ Holding(v)' => Holding(v)
             /\ worker'[v].at = "create" => worker[v].at = "create"
             /\ v # w => worker'[v].call = worker[v].call /\ worker'[v].new = worker[v].new
      BY <2>4, <2>5 DEF Holding
    <3>2. ~Holding(w)' /\ worker'[w].at # "create"
      BY <2>5 DEF Holding
    <3>3. OneHolder'
      BY <3>1, <3>2 DEF IInv, OneHolder
    <3>4. OneCreator'
      BY <3>1, <3>2 DEF IInv, OneCreator
    <3> QED BY <3>3, <3>4
  <2> QED BY <2>1, <2>6, <2>8, <2>10, <2>11 DEF IInv
<1> QED BY <1>2, <1>3 DEF Create

\* FirstCreate: the first hop gets its record.
LEMMA FirstCreateKeeps ==
    ASSUME IInv, NEW n \in Calls, FirstCreate(n)
    PROVE  /\ IInv'
           /\ \A d \in Calls : corr[d].status = "settled" => corr'[d] = corr[d]
<1> DEFINE start == StartRouting(Policies, Entry)
           r == [NoRecord EXCEPT !.status = "in_flight", !.policy = start.policy,
                                 !.step = start.step]
<1>1. /\ TypeOK /\ n \in FirstCalls /\ line[n] # "free" /\ corr[n].status = "none"
      /\ corr' = [corr EXCEPT ![n] = r] /\ UNCHANGED <<reception, lapsed, line, dialer, worker>>
  BY DEF IInv, FirstCreate
<1>2. start.policy \in DOMAIN Policies \cup {NoPolicy} /\ start.step \in StepIds \cup {NoPolicy}
  BY DEF StartRouting, DialAt, Settled, StepIds
<1> HIDE DEF start
<1>3. r \in Correlations /\ r.status = "in_flight" /\ r.voice \notin Success
  BY <1>2 DEF NoRecord, Correlations, VoiceStates, Undecided, Success
<1>4. Continues(n, r)
  BY <1>1 DEF IInv, CallOk, Continues
<1> HIDE DEF r
<1>5. TypeOK'
  BY <1>1, <1>3 DEF TypeOK
<1>6. \A v \in Workers :
         /\ worker[v].at = "create" => worker[v].new # n
         /\ worker[v].at = "unreached" => worker[v].call # dialer[n]
  <2>1. dialer[n] = NoCall
    BY <1>1 DEF IInv, CallOk
  <2> QED BY <1>1, <2>1 DEF IInv, WorkerOk, SeenOk, Dialed
<1>7. /\ \A d \in Calls : d # n => corr'[d] = corr[d]
      /\ OneChild' /\ \A d \in Calls : CallOk(d)'
      /\ \A v \in Workers :
            /\ worker[v].at # "idle" => worker[v].call # n
            /\ /\ worker'[v] = worker[v]
               /\ worker[v].at = "create" => worker[v].new # n
               /\ worker[v].at = "unreached" => worker[v].call # dialer[n]
               => WorkerOk(v)'
  BY <1>1, <1>3, <1>4, <1>5, Recording
<1>8. OneHolder' /\ OneCreator'
  BY <1>1 DEF IInv, OneHolder, OneCreator, Holding
<1> QED BY <1>1, <1>5, <1>6, <1>7, <1>8 DEF IInv

\* Repoint and Abandon: the reception or the line changes, no record does.
LEMMA RepointKeeps ==
    ASSUME IInv, NEW w \in Workers, Repoint(w) \/ Abandon(w)
    PROVE  IInv'
<1>1. /\ TypeOK /\ worker \in [Workers -> Ops] /\ worker[w].at \in {"repoint", "abandon"}
      /\ UNCHANGED <<corr, lapsed, dialer>> /\ (Finish(w) \/ Goto(w, "abandon"))
  BY TypeSplit DEF IInv, Repoint, Abandon, At
<1>2. /\ reception' \in [state : ReceptionStates, call : Calls \cup {NoCall}]
      /\ line' \in [Calls -> {"free", "ringing", "over"}]
      /\ \A c \in Calls : line'[c] = "free" => line[c] = "free"
  <2>1. CASE Repoint(w)
    <3>1. worker[w].new \in Calls \cup {NoCall}
      BY <1>1 DEF Ops
    <3> QED BY <1>1, <2>1, <3>1 DEF TypeOK, Repoint
  <2>2. CASE Abandon(w)
    BY <1>1, <2>2 DEF TypeOK, Abandon, HangUp
  <2> QED BY <2>1, <2>2
<1>3. worker' \in [Workers -> Ops]
  BY <1>1, FinishTyped, GotoTyped DEF Goto, Labels
<1>4. TypeOK'
  BY <1>1, <1>2, <1>3 DEF TypeOK, Ops
<1>5. CASE Finish(w)
  BY <1>1, <1>2, <1>4, <1>5, FinishKeeps
<1>6. CASE Goto(w, "abandon")
  BY <1>1, <1>2, <1>4, <1>6, GotoKeeps DEF Labels
<1> QED BY <1>1, <1>5, <1>6

\* What other parts of the program, the provider and the clock do.
LEMMA OthersKeep ==
    ASSUME IInv, UNCHANGED <<corr, dialer, worker>>,
           \/ \E c \in Calls : FirstDial(c) \/ EndCall(c) \/ Lapse(c)
           \/ \E r \in [state : ReceptionStates, call : Calls \cup {NoCall}] : Elsewhere(r)
    PROVE  IInv'
<1>1. /\ reception' \in [state : ReceptionStates, call : Calls \cup {NoCall}]
      /\ line' \in [Calls -> {"free", "ringing", "over"}] /\ lapsed' \in [Calls -> BOOLEAN]
      /\ \A c \in Calls : line'[c] = "free" => line[c] = "free"
  BY DEF IInv, TypeOK, FirstDial, EndCall, Lapse, Elsewhere
<1>2. TypeOK'
  BY <1>1 DEF IInv, TypeOK
<1>3. OneChild' /\ (\A c \in Calls : CallOk(c)') /\ \A v \in Workers : WorkerOk(v)'
  BY <1>1, <1>2, OnlyLines
<1>4. OneHolder' /\ OneCreator'
  BY DEF IInv, OneHolder, OneCreator, Holding
<1> QED BY <1>2, <1>3, <1>4 DEF IInv

-----------------------------------------------------------------------------
LEMMA InitHolds == Init => IInv
<1> SUFFICES ASSUME Init PROVE IInv
  OBVIOUS
<1>1. NoRecord \in Correlations /\ NoRecord.status = "none" /\ NoRecord.voice \notin Success
  BY DEF NoRecord, Correlations, VoiceStates, Undecided, Success
<1>2. TypeOK
  BY <1>1, IdleTyped, TypeSplit DEF Init
<1>3. OneChild /\ \A c \in Calls : CallOk(c)
  BY <1>1 DEF Init, OneChild, CallOk, Continues
<1>4. OneHolder /\ OneCreator /\ \A w \in Workers : WorkerOk(w)
  BY DEF Init, OneHolder, OneCreator, WorkerOk, Holding, Idle
<1> QED BY <1>2, <1>3, <1>4 DEF IInv

LEMMA NextKeeps == IInv /\ [Next]_vars => IInv'
<1> SUFFICES ASSUME IInv, [Next]_vars PROVE IInv'
  OBVIOUS
<1>1. ASSUME NEW w \in Workers, Webhook(w) PROVE IInv'
  <2>1. CASE Check(w) \/ ReserveThrows(w)
    BY <2>1, CheckKeeps
  <2>2. CASE Reserve(w)
    BY <2>2, ReserveKeeps
  <2>3. CASE Dial(w)
    <3>1. ASSUME NEW n \in Calls \ FirstCalls, line[n] = "free",
                 line' = [line EXCEPT ![n] = "ringing"],
                 dialer' = [dialer EXCEPT ![n] = worker[w].call],
                 \/ worker' = [worker EXCEPT ![w].at = "create", ![w].new = n]
                 \/ Goto(w, "unreached")
          PROVE  IInv'
      <4>1. worker \in [Workers -> Ops] /\ worker[w].at = "dial"
            /\ UNCHANGED <<reception, corr, lapsed>>
        BY <2>3, TypeSplit DEF IInv, Dial, At
      <4>2. PICK o \in Ops :
               /\ worker' = [worker EXCEPT ![w] = o]
               /\ \/ o.at = "create" /\ o.new = n
                  \/ o.at = "unreached"
               /\ o.call = worker[w].call /\ o.seen = worker[w].seen
               /\ o.next = worker[w].next
        <5> DEFINE p == [worker[w] EXCEPT !.at = "create", !.new = n]
                   q == [worker[w] EXCEPT !.at = "unreached"]
        <5>1. p \in Ops /\ q \in Ops
          BY <4>1 DEF Ops, Labels
        <5>2. /\ p.at = "create" /\ p.new = n /\ p.call = worker[w].call
              /\ p.seen = worker[w].seen /\ p.next = worker[w].next
              /\ q.at = "unreached" /\ q.call = worker[w].call
              /\ q.seen = worker[w].seen /\ q.next = worker[w].next
          BY <4>1 DEF Ops
        <5>3. worker' = [worker EXCEPT ![w] = p] \/ worker' = [worker EXCEPT ![w] = q]
          BY <3>1 DEF Goto
        <5> HIDE DEF p, q
        <5> QED BY <5>1, <5>2, <5>3
      <4> QED BY <3>1, <4>1, <4>2, DialKeeps
    <3>2. CASE Goto(w, "unreached") /\ UNCHANGED <<line, dialer>>
      <4>1. /\ TypeOK /\ worker \in [Workers -> Ops] /\ worker[w].at = "dial"
            /\ UNCHANGED <<reception, corr, lapsed>>
        BY <2>3, TypeSplit DEF IInv, Dial, At
      <4>2. worker' \in [Workers -> Ops]
        BY <3>2, <4>1, GotoTyped DEF Goto, Labels
      <4>3. TypeOK'
        BY <3>2, <4>1, <4>2 DEF TypeOK, Ops
      <4> QED BY <3>2, <4>1, <4>3, GotoKeeps DEF Labels
    <3> QED BY <2>3, <3>1, <3>2 DEF Dial
  <2>4. CASE Unreached(w)
    BY <2>4, UnreachedKeeps
  <2>5. CASE Create(w)
    BY <2>5, CreateKeeps
  <2>6. CASE Repoint(w) \/ Abandon(w)
    BY <2>6, RepointKeeps
  <2>7. CASE Save(w)
    BY <2>7, SaveKeeps
  <2> QED BY <1>1, <2>1, <2>2, <2>3, <2>4, <2>5, <2>6, <2>7 DEF Webhook
<1>2. ASSUME NEW w \in Workers, NEW m \in Messages, Receive(w, m) PROVE IInv'
  BY <1>2, ReceiveKeeps
<1>3. ASSUME NEW c \in Calls, FirstCreate(c) PROVE IInv'
  BY <1>3, FirstCreateKeeps
<1>4. CASE \/ \E c \in Calls : FirstDial(c) \/ EndCall(c) \/ Lapse(c)
           \/ \E r \in [state : ReceptionStates, call : Calls \cup {NoCall}] : Elsewhere(r)
  <2>1. UNCHANGED <<corr, dialer, worker>>
    BY <1>4 DEF FirstDial, EndCall, Lapse, Elsewhere
  <2> QED BY <1>4, <2>1, OthersKeep
<1>5. CASE UNCHANGED vars
  <2>1. TypeOK'
    BY <1>5 DEF vars, IInv, TypeOK
  <2>2. OneChild' /\ (\A c \in Calls : CallOk(c)') /\ \A v \in Workers : WorkerOk(v)'
    BY <1>5, <2>1, OnlyLines DEF vars
  <2>3. OneHolder' /\ OneCreator'
    BY <1>5 DEF vars, IInv, OneHolder, OneCreator, Holding
  <2> QED BY <2>1, <2>2, <2>3 DEF IInv
<1> QED BY <1>1, <1>2, <1>3, <1>4, <1>5 DEF Next

\* A settled record is written only by the webhook that found the provider out
\* of reach, and that one leaves it settled.
LEMMA NextSettles ==
    ASSUME IInv, [Next]_vars
    PROVE  \A c \in Calls : corr[c].status = "settled" =>
              corr'[c].status = "settled" /\ corr'[c].hops = corr[c].hops
<1> DEFINE Stays == \A c \in Calls : corr[c].status = "settled" =>
                       corr'[c].status = "settled" /\ corr'[c].hops = corr[c].hops
<1>1. UNCHANGED corr => Stays
  OBVIOUS
<1>2. ASSUME NEW w \in Workers, NEW r \in Correlations, WriteIfUnchanged(w, r),
             worker[w].call \in Calls
      PROVE  Stays
  <2>1. CASE Unchanged(w)
    <3>1. corr \in [Calls -> Correlations]
      BY DEF IInv, TypeOK
    <3>2. PICK q \in Correlations : corr' = [corr EXCEPT ![worker[w].call] = q]
      BY <1>2, <2>1, <3>1, Updated
    <3>3. corr[worker[w].call].status = "in_flight"
      BY <2>1 DEF Unchanged
    <3> QED BY <1>2, <3>1, <3>2, <3>3
  <2>2. CASE ~Unchanged(w)
    BY <1>1, <1>2, <2>2, NotUpdated
  <2> QED BY <2>1, <2>2
<1>3. ASSUME NEW w \in Workers PROVE
        worker[w].at # "idle" => /\ worker[w].call \in Calls /\ worker[w].next \in Correlations
                                 /\ Reservation(worker[w].seen, worker[w].next) \in Correlations
  <2>1. worker \in [Workers -> Ops] /\ WorkerOk(w)
    BY TypeSplit DEF IInv
  <2> QED BY <2>1, ReservationTyped DEF Ops, WorkerOk, SeenOk
<1>4. ASSUME NEW w \in Workers, Webhook(w) PROVE Stays
  <2>1. CASE Reserve(w)
    BY <1>2, <1>3, <2>1 DEF Reserve, At
  <2>2. CASE Save(w)
    BY <1>1, <1>2, <1>3, <2>2 DEF Save, At
  <2>3. CASE Unreached(w)
    BY <2>3, UnreachedKeeps
  <2>4. CASE Create(w)
    BY <2>4, CreateKeeps
  <2>5. CASE Check(w) \/ ReserveThrows(w) \/ Dial(w) \/ Repoint(w) \/ Abandon(w)
    BY <1>1, <2>5 DEF Check, ReserveThrows, Dial, Repoint, Abandon
  <2> QED BY <1>4, <2>1, <2>2, <2>3, <2>4, <2>5 DEF Webhook
<1>5. ASSUME NEW w \in Workers, NEW m \in Messages, Receive(w, m) PROVE Stays
  BY <1>1, <1>5 DEF Receive
<1>6. ASSUME NEW c \in Calls, FirstCreate(c) PROVE Stays
  BY <1>6, FirstCreateKeeps
<1>7. CASE \/ \E c \in Calls : FirstDial(c) \/ EndCall(c) \/ Lapse(c)
           \/ \E r \in [state : ReceptionStates, call : Calls \cup {NoCall}] : Elsewhere(r)
           \/ UNCHANGED vars
  BY <1>1, <1>7 DEF FirstDial, EndCall, Lapse, Elsewhere, vars
<1> QED BY <1>4, <1>5, <1>6, <1>7 DEF Next

\* A call that has a record keeps one, with the hops it counts, and what a
\* member of staff has accepted stays accepted.  The first record of a routing
\* counts none.
RecordsKept == \A c \in Calls :
    /\ corr[c].status # "none" => corr'[c].status # "none" /\ corr'[c].hops = corr[c].hops
    /\ corr[c].voice \in Success => corr'[c].voice \in Success
    /\ corr[c].status = "none" /\ corr'[c].status # "none" /\ dialer[c] = NoCall
         => corr'[c].hops = 0

LEMMA NextKeepsRecords == IInv /\ [Next]_vars => RecordsKept
<1> SUFFICES ASSUME IInv, [Next]_vars PROVE RecordsKept
  OBVIOUS
<1>0. corr \in [Calls -> Correlations] /\ \A c \in Calls : CallOk(c)
  BY DEF IInv, TypeOK
<1>1. UNCHANGED corr => RecordsKept
  BY DEF RecordsKept
<1>2. ASSUME NEW c \in Calls, NEW r \in Correlations, corr' = [corr EXCEPT ![c] = r],
             corr[c].voice \notin Success, r.status # "none",
             IF corr[c].status = "none" THEN dialer[c] = NoCall => r.hops = 0
                                        ELSE r.hops = corr[c].hops
      PROVE  RecordsKept
  BY <1>0, <1>2 DEF RecordsKept
<1>3. ASSUME NEW w \in Workers, NEW r \in Correlations, WriteIfUnchanged(w, r),
             worker[w].call \in Calls, r.status # "none", r.hops = corr[worker[w].call].hops
      PROVE  RecordsKept
  <2>1. CASE Unchanged(w)
    <3>1. PICK q \in Correlations : /\ corr' = [corr EXCEPT ![worker[w].call] = q]
                                    /\ q.status = r.status /\ q.hops = r.hops
      BY <1>0, <1>3, <2>1, Updated
    <3>2. corr[worker[w].call].status = "in_flight"
      BY <2>1 DEF Unchanged
    <3>3. corr[worker[w].call].voice \notin Success
      BY <1>0, <1>3, <3>2 DEF CallOk
    <3> QED BY <1>2, <1>3, <3>1, <3>2, <3>3
  <2>2. CASE ~Unchanged(w)
    BY <1>1, <1>3, <2>2, NotUpdated
  <2> QED BY <2>1, <2>2
<1>4. ASSUME NEW w \in Workers, worker[w].at # "idle"
      PROVE  LET r == Reservation(worker[w].seen, worker[w].next) IN
             /\ worker[w].call \in Calls /\ worker[w].next \in Correlations
             /\ worker[w].next.status # "none" /\ r \in Correlations /\ r.status = "settled"
             /\ r.hops = corr[worker[w].call].hops /\ corr[worker[w].call].status # "none"
             /\ worker[w].at = "save" => worker[w].next.hops = corr[worker[w].call].hops
             /\ [r EXCEPT !.voice = worker[w].next.voice] \in Correlations
             /\ [r EXCEPT !.voice = worker[w].next.voice].status = "settled"
             /\ [r EXCEPT !.voice = worker[w].next.voice].hops = corr[worker[w].call].hops
  <2>1. worker \in [Workers -> Ops] /\ WorkerOk(w)
    BY TypeSplit DEF IInv
  <2>2. /\ worker[w].seen \in Correlations /\ worker[w].next \in Correlations
        /\ worker[w].next.voice \in VoiceStates
    BY <2>1 DEF Ops, Correlations
  <2> DEFINE r == Reservation(worker[w].seen, worker[w].next)
  <2>3. r \in Correlations /\ r.status = "settled" /\ r.hops = worker[w].seen.hops
    BY <2>2, ReservationTyped
  <2> HIDE DEF r
  <2>4. /\ [r EXCEPT !.voice = worker[w].next.voice] \in Correlations
        /\ [r EXCEPT !.voice = worker[w].next.voice].status = "settled"
        /\ [r EXCEPT !.voice = worker[w].next.voice].hops = r.hops
    BY <2>2, <2>3, Recorded DEF Correlations
  <2> QED BY <1>4, <2>1, <2>2, <2>3, <2>4 DEF WorkerOk, SeenOk, NextOk, r
<1>5. ASSUME NEW w \in Workers, Webhook(w) PROVE RecordsKept
  <2>1. CASE Reserve(w)
    BY <1>3, <1>4, <2>1 DEF Reserve, At
  <2>2. CASE Save(w)
    BY <1>1, <1>3, <1>4, <2>2 DEF Save, At
  <2>3. CASE Unreached(w)
    <3> DEFINE r == [Reservation(worker[w].seen, worker[w].next)
                       EXCEPT !.voice = worker[w].next.voice]
    <3>1. /\ worker[w].at = "unreached" /\ worker[w].call \in Calls
          /\ r \in Correlations /\ r.status = "settled"
          /\ r.hops = corr[worker[w].call].hops /\ corr[worker[w].call].status # "none"
      BY <1>4, <2>3 DEF Unreached, At
    <3>2. corr[worker[w].call].voice \notin Success
      BY <3>1 DEF IInv, WorkerOk, Holding, Reserved
    <3>3. CASE \E s \in StampsAfter(corr[worker[w].call].stamp) :
                  corr' = [corr EXCEPT ![worker[w].call] = [r EXCEPT !.stamp = s]]
      <4> HIDE DEF r
      <4>1. PICK s \in StampsAfter(corr[worker[w].call].stamp) :
                  corr' = [corr EXCEPT ![worker[w].call] = [r EXCEPT !.stamp = s]]
        BY <3>3
      <4>2. /\ [r EXCEPT !.stamp = s] \in Correlations /\ [r EXCEPT !.stamp = s].status = "settled"
            /\ [r EXCEPT !.stamp = s].hops = r.hops
        <5>1. worker[w].call \in Calls /\ corr[worker[w].call] \in Correlations /\ r \in Correlations
          BY <1>0, <3>1
        <5>2. /\ [r EXCEPT !.stamp = s] \in Correlations
              /\ [r EXCEPT !.stamp = s].status = r.status
              /\ [r EXCEPT !.stamp = s].hops = r.hops
          BY <4>1, <5>1, Stamped
        <5> QED BY <3>1, <5>2
      <4> QED BY <1>2, <3>1, <3>2, <4>1, <4>2
    <3> QED BY <1>1, <2>3, <3>3 DEF Unreached
  <2>4. CASE Create(w)
    <3>1. worker \in [Workers -> Ops] /\ WorkerOk(w) /\ worker[w].at = "create"
      BY <2>4, TypeSplit DEF IInv, Create, At
    <3>2. /\ worker[w].new \in Calls /\ corr[worker[w].new].status = "none"
          /\ worker[w].next \in Correlations /\ dialer[worker[w].new] # NoCall
      BY <3>1 DEF WorkerOk, Dialed, SeenOk, Ops
    <3>3. NextRecord(w) \in Correlations /\ NextRecord(w).status = "in_flight"
      BY <3>2 DEF NextRecord, Correlations, VoiceStates, Undecided
    <3>4. corr[worker[w].new].voice \notin Success
      BY <1>0, <3>2 DEF CallOk
    <3> QED BY <1>1, <1>2, <2>4, <3>2, <3>3, <3>4 DEF Create
  <2>5. CASE Check(w) \/ ReserveThrows(w) \/ Dial(w) \/ Repoint(w) \/ Abandon(w)
    BY <1>1, <2>5 DEF Check, ReserveThrows, Dial, Repoint, Abandon
  <2> QED BY <1>5, <2>1, <2>2, <2>3, <2>4, <2>5 DEF Webhook
<1>6. ASSUME NEW w \in Workers, NEW m \in Messages, Receive(w, m) PROVE RecordsKept
  BY <1>1, <1>6 DEF Receive
<1>7. ASSUME NEW n \in Calls, FirstCreate(n) PROVE RecordsKept
  <2>1. corr[n].voice \notin Success /\ corr[n].status = "none"
    BY <1>0, <1>7 DEF CallOk, FirstCreate
  <2> DEFINE r == [NoRecord EXCEPT !.status = "in_flight",
                     !.policy = StartRouting(Policies, Entry).policy,
                     !.step = StartRouting(Policies, Entry).step]
  <2>2. corr' = [corr EXCEPT ![n] = r] /\ r.status = "in_flight" /\ r.hops = 0
    BY <1>7 DEF FirstCreate, NoRecord
  <2> HIDE DEF r
  <2> QED BY <1>0, <2>1, <2>2 DEF RecordsKept
<1>8. CASE \/ \E c \in Calls : FirstDial(c) \/ EndCall(c) \/ Lapse(c)
           \/ \E r \in [state : ReceptionStates, call : Calls \cup {NoCall}] : Elsewhere(r)
           \/ UNCHANGED vars
  BY <1>1, <1>8 DEF FirstDial, EndCall, Lapse, Elsewhere, vars
<1> QED BY <1>5, <1>6, <1>7, <1>8 DEF Next

-----------------------------------------------------------------------------
\* Which hop of its routing a call is.
Depth(c) == IF dialer[c] = NoCall THEN 1 ELSE corr[dialer[c]].hops + 2

\* The hops that the records count are those of the routing.
HopsInv == \A c \in Calls :
    /\ c \in PlacedCalls /\ dialer[c] = NoCall => c \in FirstCalls
    /\ corr[c].status # "none" => corr[c].hops + 1 = Depth(c)
    /\ Depth(c) \in 1 .. MaxHops

\* root leads each call to the first call of its routing.  A routing has one
\* call at each hop, and each but the last has dialed the next one.
RootedAt(root) == \A c \in PlacedCalls :
    /\ root[c] \in PlacedCalls \cap FirstCalls
    /\ dialer[c] # NoCall => root[c] = root[dialer[c]]
    /\ \A d \in PlacedCalls : root[c] = root[d] /\ Depth(c) = Depth(d) => c = d
    /\ \A k \in 1 .. Depth(c) - 1 :
         \E a \in PlacedCalls : root[a] = root[c] /\ Depth(a) = k /\ HasChild(a)

Rooted == \E root \in [Calls -> Calls] : RootedAt(root)

\* A step places no call, a first call, or the next call of a worker.
LEMMA Places ==
    ASSUME IInv, [Next]_vars
    PROVE  \/ PlacedCalls' = PlacedCalls /\ dialer' = dialer
           \/ \E n \in FirstCalls \ PlacedCalls :
                 PlacedCalls' = PlacedCalls \cup {n} /\ dialer' = dialer
           \/ \E w \in Workers : \E n \in Calls \ (FirstCalls \cup PlacedCalls) :
                 /\ worker[w].at = "dial" /\ PlacedCalls' = PlacedCalls \cup {n}
                 /\ dialer' = [dialer EXCEPT ![n] = worker[w].call] /\ corr' = corr
<1>0. line \in [Calls -> {"free", "ringing", "over"}]
  BY DEF IInv, TypeOK
<1>1. ASSUME dialer' = dialer, line' \in [Calls -> {"free", "ringing", "over"}],
             \A c \in Calls : line[c] = "free" <=> line'[c] = "free"
      PROVE  PlacedCalls' = PlacedCalls /\ dialer' = dialer
  BY <1>1 DEF PlacedCalls
<1>2. ASSUME NEW n \in Calls, line[n] = "free", line' = [line EXCEPT ![n] = "ringing"]
      PROVE  n \notin PlacedCalls /\ PlacedCalls' = PlacedCalls \cup {n}
  BY <1>0, <1>2 DEF PlacedCalls
<1>3. ASSUME NEW w \in Workers, Dial(w), dialer' # dialer
      PROVE  \E n \in Calls \ (FirstCalls \cup PlacedCalls) :
                /\ worker[w].at = "dial" /\ PlacedCalls' = PlacedCalls \cup {n}
                /\ dialer' = [dialer EXCEPT ![n] = worker[w].call] /\ corr' = corr
  <2>1. PICK n \in {c \in Calls \ FirstCalls : line[c] = "free"} :
           /\ line' = [line EXCEPT ![n] = "ringing"]
           /\ dialer' = [dialer EXCEPT ![n] = worker[w].call]
    BY <1>3 DEF Dial
  <2> QED BY <1>2, <1>3, <2>1 DEF Dial, At
<1>4. ASSUME NEW n \in Calls, FirstDial(n)
      PROVE  \E m \in FirstCalls \ PlacedCalls :
                 PlacedCalls' = PlacedCalls \cup {m} /\ dialer' = dialer
  BY <1>2, <1>4 DEF FirstDial
<1>5. ASSUME UNCHANGED <<line, dialer>> PROVE PlacedCalls' = PlacedCalls /\ dialer' = dialer
  BY <1>5 DEF PlacedCalls
<1>6. ASSUME NEW w \in Workers, Abandon(w) PROVE PlacedCalls' = PlacedCalls /\ dialer' = dialer
  BY <1>0, <1>6 DEF Abandon, HangUp, PlacedCalls
<1>7. ASSUME NEW c \in Calls, EndCall(c) PROVE PlacedCalls' = PlacedCalls /\ dialer' = dialer
  BY <1>0, <1>7 DEF EndCall, PlacedCalls
<1>8. ASSUME NEW w \in Workers, Dial(w), dialer' = dialer
      PROVE  PlacedCalls' = PlacedCalls /\ dialer' = dialer
  <2>1. CASE UNCHANGED <<line, dialer>>
    BY <1>5, <2>1
  <2>2. ASSUME NEW n \in Calls \ FirstCalls, line[n] = "free",
               dialer' = [dialer EXCEPT ![n] = worker[w].call]
        PROVE  FALSE
    <3>1. dialer \in [Calls -> Calls \cup {NoCall}] /\ dialer[n] = NoCall
      BY <2>2 DEF IInv, TypeOK, CallOk
    <3>2. worker[w].call \in Calls
      BY <1>8 DEF IInv, WorkerOk, SeenOk, Dial, At
    <3> QED BY <1>8, <2>2, <3>1, <3>2
  <2> QED BY <1>8, <2>1, <2>2 DEF Dial
<1>9. ASSUME NEW w \in Workers,
             Check(w) \/ Reserve(w) \/ ReserveThrows(w) \/ Unreached(w) \/ Create(w)
               \/ Repoint(w) \/ Save(w)
      PROVE  UNCHANGED <<line, dialer>>
  BY <1>9 DEF Check, Reserve, ReserveThrows, Unreached, Create, Repoint, Save
<1>10. ASSUME NEW w \in Workers, NEW m \in Messages, Receive(w, m)
       PROVE  UNCHANGED <<line, dialer>>
  BY <1>10 DEF Receive
<1>11. ASSUME NEW c \in Calls, FirstCreate(c) \/ Lapse(c) PROVE UNCHANGED <<line, dialer>>
  BY <1>11 DEF FirstCreate, Lapse
<1>12. ASSUME NEW r, Elsewhere(r) PROVE UNCHANGED <<line, dialer>>
  BY <1>12 DEF Elsewhere
<1>13. ASSUME NEW w \in Workers, Webhook(w)
       PROVE  Dial(w) \/ Abandon(w) \/ UNCHANGED <<line, dialer>>
  BY <1>9, <1>13 DEF Webhook
<1>14. CASE UNCHANGED vars
  BY <1>5, <1>14 DEF vars
<1> QED BY <1>3, <1>4, <1>5, <1>6, <1>7, <1>8, <1>10, <1>11, <1>12, <1>13, <1>14 DEF Next

\* A call that is placed stays the hop it is.
LEMMA DepthStays ==
    ASSUME IInv, [Next]_vars, NEW c \in Calls, dialer'[c] = dialer[c]
    PROVE  Depth(c)' = Depth(c)
<1>1. CASE dialer[c] = NoCall
  BY <1>1 DEF Depth
<1>2. CASE dialer[c] # NoCall
  <2>1. dialer[c] \in Calls /\ corr[dialer[c]].status # "none"
    BY <1>2 DEF IInv, TypeOK, CallOk
  <2> QED BY <1>2, <2>1, NextKeepsRecords DEF RecordsKept, Depth
<1> QED BY <1>1, <1>2

\* What a worker is about to dial is one hop further and within the limit.
LEMMA DialsOneFurther ==
    ASSUME IInv, HopsInv, NEW w \in Workers, worker[w].at = "dial"
    PROVE  /\ worker[w].call \in PlacedCalls /\ ~HasChild(worker[w].call)
           /\ corr[worker[w].call].hops + 2 = Depth(worker[w].call) + 1
           /\ corr[worker[w].call].hops + 2 \in 1 .. MaxHops
<1> DEFINE c == worker[w].call
<1>1. /\ WorkerOk(w) /\ worker \in [Workers -> Ops]
      /\ c \in Calls /\ corr[c].status # "none" /\ CallOk(c) /\ corr[c].hops \in Nat
  <2>1. WorkerOk(w) /\ worker \in [Workers -> Ops] /\ c \in Calls /\ corr[c].status # "none"
    BY TypeSplit DEF IInv, WorkerOk, SeenOk
  <2> QED BY <2>1 DEF IInv, TypeOK, Correlations
<1>2. c \in PlacedCalls /\ ~HasChild(c)
  BY <1>1 DEF CallOk, PlacedCalls, WorkerOk
<1>3. corr[c].hops + 1 = Depth(c)
  BY <1>1 DEF HopsInv
<1>4. corr[c].hops + 1 < MaxHops
  BY <1>1 DEF WorkerOk, SeenOk, NextOk
<1> QED BY <1>1, <1>2, <1>3, <1>4

LEMMA HopsKept == IInv /\ HopsInv /\ [Next]_vars => HopsInv'
<1> SUFFICES ASSUME IInv, HopsInv, [Next]_vars PROVE HopsInv'
  OBVIOUS
<1>0. /\ TypeOK /\ IInv' /\ RecordsKept
      /\ dialer \in [Calls -> Calls \cup {NoCall}]
      /\ \A c \in Calls : CallOk(c) /\ CallOk(c)'
      /\ \A c \in Calls : corr[c].hops \in Nat /\ corr'[c].hops \in Nat
  BY NextKeeps, NextKeepsRecords DEF IInv, TypeOK, Correlations
<1>1. ASSUME NEW c \in Calls, dialer'[c] = dialer[c], corr'[c].status # "none"
      PROVE  corr'[c].hops + 1 = Depth(c)'
  <2>1. Depth(c)' = Depth(c)
    BY <1>1, DepthStays
  <2>2. CASE corr[c].status # "none"
    BY <1>0, <2>1, <2>2 DEF RecordsKept, HopsInv
  <2>3. CASE corr[c].status = "none" /\ dialer[c] = NoCall
    BY <1>0, <1>1, <2>1, <2>3 DEF RecordsKept, Depth
  <2>4. CASE corr[c].status = "none" /\ dialer[c] # NoCall
    <3>1. dialer'[c] \in Calls /\ corr'[c].hops = corr'[dialer'[c]].hops + 1
      BY <1>0, <1>1, <2>4 DEF CallOk, Continues
    <3>2. Depth(c)' = corr'[dialer'[c]].hops + 2
      BY <1>1, <2>4 DEF Depth
    <3> QED BY <1>0, <3>1, <3>2
  <2> QED BY <2>2, <2>3, <2>4
<1>2. ASSUME NEW c \in Calls, dialer'[c] = dialer[c] PROVE Depth(c)' \in 1 .. MaxHops
  BY <1>2, DepthStays DEF HopsInv
<1>3. CASE PlacedCalls' = PlacedCalls /\ dialer' = dialer
  BY <1>1, <1>2, <1>3 DEF HopsInv
<1>4. ASSUME NEW n \in FirstCalls \ PlacedCalls, PlacedCalls' = PlacedCalls \cup {n},
             dialer' = dialer
      PROVE  HopsInv'
  BY <1>1, <1>2, <1>4 DEF HopsInv
<1>5. ASSUME NEW w \in Workers, NEW n \in Calls \ (FirstCalls \cup PlacedCalls),
             worker[w].at = "dial", PlacedCalls' = PlacedCalls \cup {n},
             dialer' = [dialer EXCEPT ![n] = worker[w].call], corr' = corr
      PROVE  HopsInv'
  <2>1. /\ worker[w].call \in PlacedCalls /\ corr[worker[w].call].hops + 2 \in 1 .. MaxHops
        /\ worker[w].call # NoCall
    BY <1>5, DialsOneFurther DEF PlacedCalls
  <2>2. /\ dialer'[n] = worker[w].call /\ \A c \in Calls : c # n => dialer'[c] = dialer[c]
    BY <1>0, <1>5
  <2>3. Depth(n)' \in 1 .. MaxHops
    BY <1>5, <2>1, <2>2 DEF Depth
  <2>4. corr'[n].status = "none"
    BY <1>0, <1>5 DEF CallOk, PlacedCalls
  <2>5. ASSUME NEW c \in Calls, c # n
        PROVE  /\ c \in PlacedCalls' /\ dialer'[c] = NoCall => c \in FirstCalls
               /\ corr'[c].status # "none" => corr'[c].hops + 1 = Depth(c)'
               /\ Depth(c)' \in 1 .. MaxHops
    BY <1>1, <1>2, <1>5, <2>2, <2>5 DEF HopsInv
  <2> QED BY <2>1, <2>2, <2>3, <2>4, <2>5 DEF HopsInv
<1> QED BY <1>3, <1>4, <1>5, Places

\* The dialer of a call is placed, one hop before it.
LEMMA DialerBefore ==
    ASSUME IInv, HopsInv, NEW c \in PlacedCalls, dialer[c] # NoCall
    PROVE  dialer[c] \in PlacedCalls /\ Depth(c) = Depth(dialer[c]) + 1
<1>1. c \in Calls /\ dialer[c] \in Calls /\ corr[dialer[c]].status # "none"
      /\ corr[dialer[c]].hops \in Nat
  <2>1. c \in Calls /\ dialer[c] \in Calls
    BY DEF PlacedCalls, IInv, TypeOK
  <2> QED BY <2>1 DEF IInv, CallOk, TypeOK, Correlations
<1>2. dialer[c] \in PlacedCalls
  BY <1>1 DEF IInv, CallOk, PlacedCalls
<1>3. corr[dialer[c]].hops + 1 = Depth(dialer[c])
  BY <1>1 DEF HopsInv
<1>4. Depth(c) = corr[dialer[c]].hops + 2
  BY DEF Depth
<1> QED BY <1>1, <1>2, <1>3, <1>4

\* The routings go on as they are.
LEMMA RootStays ==
    ASSUME IInv, [Next]_vars, NEW root, RootedAt(root),
           PlacedCalls' = PlacedCalls, dialer' = dialer
    PROVE  RootedAt(root)'
<1>1. \A c \in PlacedCalls : c \in Calls /\ Depth(c)' = Depth(c)
  BY DepthStays DEF PlacedCalls
<1>2. \A c : HasChild(c) => HasChild(c)'
  BY DEF HasChild
<1> HIDE DEF PlacedCalls
<1> QED BY <1>1, <1>2 DEF RootedAt

\* A first call begins a routing.
LEMMA RootBegins ==
    ASSUME IInv, [Next]_vars, NEW root \in [Calls -> Calls], RootedAt(root),
           NEW n \in FirstCalls \ PlacedCalls, PlacedCalls' = PlacedCalls \cup {n},
           dialer' = dialer
    PROVE  RootedAt([root EXCEPT ![n] = n])'
<1> DEFINE more == [root EXCEPT ![n] = n]
<1>0. n \in Calls /\ dialer[n] = NoCall
  BY DEF IInv, CallOk, PlacedCalls
<1>1. \A c \in PlacedCalls : c \in Calls /\ c # n /\ Depth(c)' = Depth(c)
  BY DepthStays DEF PlacedCalls
<1>2. \A c : HasChild(c) => HasChild(c)'
  BY DEF HasChild
<1>3. more[n] = n /\ (\A c \in PlacedCalls : more[c] = root[c]) /\ Depth(n)' = 1
  BY <1>0, <1>1 DEF Depth
<1>4. \A c \in PlacedCalls : dialer[c] # NoCall => dialer[c] \in PlacedCalls
  BY DEF IInv, TypeOK, CallOk, PlacedCalls
<1> HIDE DEF more, PlacedCalls
<1>5. ASSUME NEW c \in PlacedCalls'
      PROVE  /\ more[c] \in PlacedCalls' \cap FirstCalls
             /\ dialer'[c] # NoCall => more[c] = more[dialer'[c]]
             /\ \A d \in PlacedCalls' : more[c] = more[d] /\ Depth(c)' = Depth(d)' => c = d
             /\ \A k \in 1 .. Depth(c)' - 1 :
                  \E a \in PlacedCalls' : /\ more[a] = more[c] /\ Depth(a)' = k
                                          /\ HasChild(a)'
  <2>1. CASE c = n
    BY <1>0, <1>1, <1>3, <2>1 DEF RootedAt
  <2>2. CASE c \in PlacedCalls
    <3>1. /\ more[c] \in PlacedCalls \cap FirstCalls
          /\ \A k \in 1 .. Depth(c) - 1 :
                \E a \in PlacedCalls : more[a] = more[c] /\ Depth(a) = k /\ HasChild(a)
      BY <1>3, <2>2 DEF RootedAt
    <3>2. dialer'[c] # NoCall => more[c] = more[dialer'[c]]
      BY <1>3, <1>4, <2>2 DEF RootedAt
    <3>3. \A d \in PlacedCalls : more[c] = more[d] /\ Depth(c)' = Depth(d)' => c = d
      BY <1>1, <1>3, <2>2 DEF RootedAt
    <3>4. more[c] # more[n]
      BY <1>3, <3>1
    <3>5. \A k \in 1 .. Depth(c)' - 1 :
             \E a \in PlacedCalls : more[a] = more[c] /\ Depth(a)' = k /\ HasChild(a)'
      BY <1>1, <1>2, <2>2, <3>1
    <3> QED BY <3>1, <3>2, <3>3, <3>4, <3>5
  <2> QED BY <2>1, <2>2
<1> QED BY <1>5 DEF RootedAt, more

\* The next call goes on the routing of the call that it is dialed for, which
\* was the last one.
LEMMA RootGoesOn ==
    ASSUME IInv, HopsInv, [Next]_vars, NEW root \in [Calls -> Calls], RootedAt(root),
           NEW w \in Workers, NEW p \in Calls, p = worker[w].call,
           NEW n \in Calls \ (FirstCalls \cup PlacedCalls),
           worker[w].at = "dial", PlacedCalls' = PlacedCalls \cup {n},
           dialer' = [dialer EXCEPT ![n] = p], corr' = corr
    PROVE  RootedAt([root EXCEPT ![n] = root[p]])'
<1> DEFINE more == [root EXCEPT ![n] = root[p]]
<1>1. /\ p \in PlacedCalls /\ p # NoCall /\ ~HasChild(p)
      /\ corr[p].hops + 2 = Depth(p) + 1 /\ Depth(p) \in 1 .. MaxHops
  BY DialsOneFurther DEF PlacedCalls, HopsInv
<1>2. /\ dialer \in [Calls -> Calls \cup {NoCall}]
      /\ dialer'[n] = p /\ \A c \in Calls : c # n => dialer'[c] = dialer[c]
  BY DEF IInv, TypeOK
<1>3. \A c \in PlacedCalls : c \in Calls /\ c # n /\ Depth(c)' = Depth(c) /\ Depth(c) \in Nat
  BY <1>2, DepthStays DEF PlacedCalls, HopsInv
<1>4. more[n] = root[p] /\ \A c \in PlacedCalls : more[c] = root[c]
  BY <1>3
<1>5. Depth(n)' = Depth(p) + 1
  BY <1>1, <1>2 DEF Depth
<1>6. HasChild(p)' /\ \A a \in PlacedCalls : HasChild(a) => HasChild(a)'
  <2>1. dialer[n] = NoCall
    BY DEF IInv, CallOk, PlacedCalls
  <2>2. HasChild(p)'
    BY <1>2 DEF HasChild
  <2>3. ASSUME NEW a \in PlacedCalls, HasChild(a) PROVE HasChild(a)'
    <3>1. PICK c \in Calls : dialer[c] = a
      BY <2>3 DEF HasChild
    <3>2. c # n
      BY <2>1, <3>1 DEF PlacedCalls
    <3> QED BY <1>2, <3>1, <3>2 DEF HasChild
  <2> QED BY <2>2, <2>3
<1>7. ASSUME NEW c \in PlacedCalls, root[c] = root[p] PROVE Depth(c) # Depth(p) + 1
  <2> SUFFICES ASSUME Depth(c) = Depth(p) + 1 PROVE FALSE
    OBVIOUS
  <2>1. dialer[c] # NoCall
    BY <1>1 DEF Depth
  <2>2. dialer[c] \in PlacedCalls /\ Depth(c) = Depth(dialer[c]) + 1
    BY <2>1, DialerBefore
  <2>3. root[dialer[c]] = root[p] /\ Depth(dialer[c]) = Depth(p)
    BY <1>1, <1>3, <1>7, <2>1, <2>2 DEF RootedAt
  <2>4. dialer[c] = p
    BY <1>1, <2>2, <2>3 DEF RootedAt
  <2> QED BY <1>1, <1>3, <2>4 DEF HasChild
<1>8. \A c \in PlacedCalls : dialer[c] # NoCall => dialer[c] \in PlacedCalls
  BY DialerBefore
<1> HIDE DEF more, PlacedCalls
<1>9. ASSUME NEW c \in PlacedCalls'
      PROVE  /\ more[c] \in PlacedCalls' \cap FirstCalls
             /\ dialer'[c] # NoCall => more[c] = more[dialer'[c]]
             /\ \A d \in PlacedCalls' : more[c] = more[d] /\ Depth(c)' = Depth(d)' => c = d
             /\ \A k \in 1 .. Depth(c)' - 1 :
                  \E a \in PlacedCalls' : /\ more[a] = more[c] /\ Depth(a)' = k
                                          /\ HasChild(a)'
  <2>1. CASE c = n
    <3>1. more[n] \in PlacedCalls \cap FirstCalls
      BY <1>1, <1>4 DEF RootedAt
    <3>2. more[n] = more[dialer'[n]]
      BY <1>1, <1>2, <1>4
    <3>3. \A d \in PlacedCalls : ~(more[n] = more[d] /\ Depth(n)' = Depth(d)')
      BY <1>3, <1>4, <1>5, <1>7
    <3>4. ASSUME NEW k \in 1 .. Depth(n)' - 1
          PROVE  \E a \in PlacedCalls : more[a] = more[n] /\ Depth(a)' = k /\ HasChild(a)'
      <4>1. CASE k = Depth(p)
        <5>1. more[p] = more[n] /\ Depth(p)' = k /\ HasChild(p)'
          BY <1>1, <1>3, <1>4, <1>6, <4>1
        <5> QED BY <1>1, <5>1
      <4>2. CASE k # Depth(p)
        <5>1. k \in 1 .. Depth(p) - 1
          BY <1>1, <1>5, <4>2
        <5>2. PICK a \in PlacedCalls : root[a] = root[p] /\ Depth(a) = k /\ HasChild(a)
          BY <1>1, <5>1 DEF RootedAt
        <5> QED BY <1>3, <1>4, <1>6, <5>2
      <4> QED BY <4>1, <4>2
    <3> QED BY <2>1, <3>1, <3>2, <3>3, <3>4
  <2>2. CASE c \in PlacedCalls
    <3>1. more[c] \in PlacedCalls \cap FirstCalls
      BY <1>4, <2>2 DEF RootedAt
    <3>2. dialer'[c] # NoCall => more[c] = more[dialer'[c]]
      BY <1>2, <1>3, <1>4, <1>8, <2>2 DEF RootedAt
    <3>3. \A d \in PlacedCalls : more[c] = more[d] /\ Depth(c)' = Depth(d)' => c = d
      BY <1>3, <1>4, <2>2 DEF RootedAt
    <3>4. ~(more[c] = more[n] /\ Depth(c)' = Depth(n)')
      BY <1>3, <1>4, <1>5, <1>7, <2>2
    <3>5. \A k \in 1 .. Depth(c)' - 1 :
             \E a \in PlacedCalls : more[a] = more[c] /\ Depth(a)' = k /\ HasChild(a)'
      <4> SUFFICES ASSUME NEW k \in 1 .. Depth(c)' - 1
                   PROVE  \E a \in PlacedCalls : /\ more[a] = more[c] /\ Depth(a)' = k
                                                 /\ HasChild(a)'
        OBVIOUS
      <4>1. k \in 1 .. Depth(c) - 1
        BY <1>3, <2>2
      <4>2. PICK a \in PlacedCalls : root[a] = root[c] /\ Depth(a) = k /\ HasChild(a)
        BY <2>2, <4>1 DEF RootedAt
      <4> QED BY <1>3, <1>4, <1>6, <2>2, <4>2
    <3> QED BY <3>1, <3>2, <3>3, <3>4, <3>5
  <2> QED BY <2>1, <2>2
<1> QED BY <1>9 DEF RootedAt, more

LEMMA RootsKept == IInv /\ HopsInv /\ Rooted /\ [Next]_vars => Rooted'
<1> SUFFICES ASSUME IInv, HopsInv, Rooted, [Next]_vars PROVE Rooted'
  OBVIOUS
<1>1. PICK root \in [Calls -> Calls] : RootedAt(root)
  BY DEF Rooted
<1>2. ASSUME NEW more \in [Calls -> Calls], RootedAt(more)' PROVE Rooted'
  BY <1>2 DEF Rooted
<1>3. CASE PlacedCalls' = PlacedCalls /\ dialer' = dialer
  BY <1>1, <1>2, <1>3, RootStays
<1>4. ASSUME NEW n \in FirstCalls \ PlacedCalls, PlacedCalls' = PlacedCalls \cup {n},
             dialer' = dialer
      PROVE  Rooted'
  <2>1. [root EXCEPT ![n] = n] \in [Calls -> Calls]
    BY <1>1
  <2> QED BY <1>1, <1>2, <1>4, <2>1, RootBegins
<1>5. ASSUME NEW w \in Workers, NEW n \in Calls \ (FirstCalls \cup PlacedCalls),
             worker[w].at = "dial", PlacedCalls' = PlacedCalls \cup {n},
             dialer' = [dialer EXCEPT ![n] = worker[w].call], corr' = corr
      PROVE  Rooted'
  <2>1. worker[w].call \in Calls
    BY <1>5, DialsOneFurther DEF PlacedCalls
  <2>2. PICK p \in Calls : p = worker[w].call
    BY <2>1
  <2> DEFINE more == [root EXCEPT ![n] = root[p]]
  <2>3. more \in [Calls -> Calls]
    BY <1>1
  <2>4. RootedAt(more)'
    BY <1>1, <1>5, <2>2, RootGoesOn
  <2> HIDE DEF more
  <2> QED BY <1>2, <2>3, <2>4
<1> QED BY <1>3, <1>4, <1>5, Places

LEMMA InitRooted == Init => HopsInv /\ Rooted
<1> SUFFICES ASSUME Init PROVE HopsInv /\ Rooted
  OBVIOUS
<1>1. PlacedCalls = {}
  BY DEF Init, PlacedCalls
<1>2. HopsInv
  BY <1>1 DEF Init, HopsInv, Depth, NoRecord
<1>3. [c \in Calls |-> c] \in [Calls -> Calls]
  OBVIOUS
<1>4. RootedAt([c \in Calls |-> c])
  BY <1>1 DEF RootedAt
<1> QED BY <1>2, <1>3, <1>4 DEF Rooted

\* A call is known by the first call of its routing and by its hop.
LEMMA Numbered ==
    HopsInv /\ Rooted =>
      \E f \in [PlacedCalls -> (PlacedCalls \cap FirstCalls) \X (1 .. MaxHops)] :
         \A c, d \in PlacedCalls : f[c] = f[d] => c = d
<1> SUFFICES ASSUME HopsInv, Rooted
             PROVE  \E f \in [PlacedCalls -> (PlacedCalls \cap FirstCalls) \X (1 .. MaxHops)] :
                       \A c, d \in PlacedCalls : f[c] = f[d] => c = d
  OBVIOUS
<1>1. PICK root \in [Calls -> Calls] : RootedAt(root)
  BY DEF Rooted
<1> DEFINE f == [c \in PlacedCalls |-> <<root[c], Depth(c)>>]
<1>2. f \in [PlacedCalls -> (PlacedCalls \cap FirstCalls) \X (1 .. MaxHops)]
  BY <1>1 DEF RootedAt, HopsInv, PlacedCalls
<1>3. \A c, d \in PlacedCalls : f[c] = f[d] => c = d
  BY <1>1 DEF RootedAt
<1> HIDE DEF f
<1> QED BY <1>2, <1>3

\* A routing has a call for each hop at most.
LEMMA FewCalls == HopsInv /\ Rooted => DialsBounded
<1> SUFFICES ASSUME HopsInv, Rooted PROVE DialsBounded
  OBVIOUS
<1> DEFINE F == PlacedCalls \cap FirstCalls
           H == 1 .. MaxHops
<1>1. IsFiniteSet(F)
  <2>1. IsFiniteSet(Calls) /\ F \subseteq Calls
    BY DEF PlacedCalls
  <2> QED BY <2>1, FS_Subset
<1>2. IsFiniteSet(H) /\ Cardinality(H) = MaxHops
  BY FS_Interval
<1>3. PICK f \in [PlacedCalls -> F \X H] : \A c, d \in PlacedCalls : f[c] = f[d] => c = d
  BY Numbered
<1> HIDE DEF F, H
<1>4. IsFiniteSet(F \X H) /\ Cardinality(F \X H) = Cardinality(F) * Cardinality(H)
  BY <1>1, <1>2, FS_Product
<1>5. f \in Injection(PlacedCalls, F \X H)
  BY <1>3 DEF Injection, IsInjective
<1>6. Cardinality(PlacedCalls) <= Cardinality(F \X H)
  BY <1>4, <1>5, FS_Injection
<1>7. Cardinality(F) \in Nat
  BY <1>1, FS_CardinalityType
<1> QED BY <1>2, <1>4, <1>6, <1>7 DEF DialsBounded, F

\* When each call is over that has dialed a next one, no two calls of a routing
\* ring at once.
RingingCalls == {c \in Calls : line[c] = "ringing"}

LEMMA FewRing ==
    /\ HopsInv /\ Rooted
    /\ \A c \in Calls : HasChild(c) => line[c] = "over"
    => \E f \in [RingingCalls -> PlacedCalls \cap FirstCalls] :
          \A c, d \in RingingCalls : f[c] = f[d] => c = d
<1> SUFFICES ASSUME HopsInv, Rooted, \A c \in Calls : HasChild(c) => line[c] = "over"
             PROVE  \E f \in [RingingCalls -> PlacedCalls \cap FirstCalls] :
                       \A c, d \in RingingCalls : f[c] = f[d] => c = d
  OBVIOUS
<1>1. PICK root \in [Calls -> Calls] : RootedAt(root)
  BY DEF Rooted
<1>2. \A c \in RingingCalls : c \in PlacedCalls /\ ~HasChild(c) /\ Depth(c) \in 1 .. MaxHops
  BY DEF RingingCalls, PlacedCalls, HopsInv
<1>3. ASSUME NEW c \in RingingCalls, NEW d \in RingingCalls, root[c] = root[d]
      PROVE  ~(Depth(c) < Depth(d))
  <2> SUFFICES ASSUME Depth(c) < Depth(d) PROVE FALSE
    OBVIOUS
  <2>1. Depth(c) \in 1 .. Depth(d) - 1
    BY <1>2
  <2>2. PICK a \in PlacedCalls : root[a] = root[d] /\ Depth(a) = Depth(c) /\ HasChild(a)
    BY <1>1, <1>2, <2>1 DEF RootedAt
  <2>3. a = c
    BY <1>1, <1>2, <1>3, <2>2 DEF RootedAt
  <2> QED BY <1>2, <2>2, <2>3
<1>4. ASSUME NEW c \in RingingCalls, NEW d \in RingingCalls, root[c] = root[d]
      PROVE  c = d
  <2>1. Depth(c) = Depth(d)
    BY <1>2, <1>3, <1>4
  <2> QED BY <1>1, <1>2, <1>4, <2>1 DEF RootedAt
<1> DEFINE f == [c \in RingingCalls |-> root[c]]
<1>5. f \in [RingingCalls -> PlacedCalls \cap FirstCalls]
  BY <1>1, <1>2 DEF RootedAt
<1>6. \A c, d \in RingingCalls : f[c] = f[d] => c = d
  BY <1>4
<1> QED BY <1>5, <1>6

\* Where a webhook takes the state of a call from.
LEMMA VoicesWritten ==
    \A w \in Workers : IInv /\ Webhook(w) =>
      \A c \in Calls :
        \/ corr'[c].voice \in {corr[c].voice, "queued"}
        \/ /\ worker[w].at # "idle" /\ worker[w].call = c
           /\ corr'[c].voice \in {worker[w].seen.voice, worker[w].next.voice}
<1> SUFFICES ASSUME NEW w \in Workers, IInv, Webhook(w), NEW c \in Calls
             PROVE  \/ corr'[c].voice \in {corr[c].voice, "queued"}
                    \/ /\ worker[w].at # "idle" /\ worker[w].call = c
                       /\ corr'[c].voice \in {worker[w].seen.voice, worker[w].next.voice}
  OBVIOUS
<1>0. corr \in [Calls -> Correlations] /\ worker[w].seen \in Correlations
      /\ worker[w].next \in Correlations
  BY TypeSplit DEF IInv, TypeOK, Ops
<1>1. CASE UNCHANGED corr
  BY <1>1
<1>2. ASSUME NEW d, NEW r, corr' = [corr EXCEPT ![d] = r], c # d \/ worker[w].call = d,
             worker[w].at # "idle", r.voice \in {worker[w].seen.voice, worker[w].next.voice}
      PROVE  \/ corr'[c].voice \in {corr[c].voice, "queued"}
             \/ /\ worker[w].at # "idle" /\ worker[w].call = c
                /\ corr'[c].voice \in {worker[w].seen.voice, worker[w].next.voice}
  BY <1>0, <1>2
<1>3. ASSUME NEW r, WriteIfUnchanged(w, r), worker[w].at # "idle", r \in Correlations,
             r.voice \in {worker[w].seen.voice, worker[w].next.voice}
      PROVE  \/ corr'[c].voice \in {corr[c].voice, "queued"}
             \/ /\ worker[w].at # "idle" /\ worker[w].call = c
                /\ corr'[c].voice \in {worker[w].seen.voice, worker[w].next.voice}
  <2>1. CASE Unchanged(w)
    <3>1. PICK s : corr' = [corr EXCEPT ![worker[w].call] = [r EXCEPT !.stamp = s]]
      BY <1>3, <2>1 DEF WriteIfUnchanged
    <3>2. [r EXCEPT !.stamp = s].voice = r.voice
      BY <1>3 DEF Correlations
    <3> QED BY <1>2, <1>3, <3>1, <3>2
  <2>2. CASE ~Unchanged(w)
    BY <1>1, <1>3, <2>2 DEF WriteIfUnchanged
  <2> QED BY <2>1, <2>2
<1>4. Reservation(worker[w].seen, worker[w].next) \in Correlations
      /\ Reservation(worker[w].seen, worker[w].next).voice = worker[w].seen.voice
  BY <1>0, ReservationTyped DEF Reservation, Correlations
<1>5. CASE Reserve(w)
  BY <1>3, <1>4, <1>5 DEF Reserve, At
<1>6. CASE Save(w)
  BY <1>0, <1>1, <1>3, <1>6 DEF Save, At
<1>7. CASE Unreached(w)
  <2> DEFINE r == Reservation(worker[w].seen, worker[w].next)
  <2>1. CASE UNCHANGED corr
    BY <1>1, <2>1
  <2>2. CASE \E s \in StampsAfter(corr[worker[w].call].stamp) :
               corr' = [corr EXCEPT ![worker[w].call] =
                          [[r EXCEPT !.voice = worker[w].next.voice] EXCEPT !.stamp = s]]
    <3> HIDE DEF r
    <3>1. PICK s : corr' = [corr EXCEPT ![worker[w].call] =
                          [[r EXCEPT !.voice = worker[w].next.voice] EXCEPT !.stamp = s]]
      BY <2>2
    <3>2. [[r EXCEPT !.voice = worker[w].next.voice] EXCEPT !.stamp = s].voice
            = worker[w].next.voice
      BY <1>4 DEF r, Correlations
    <3> QED BY <1>2, <1>7, <3>1, <3>2 DEF Unreached, At
  <2> QED BY <1>7, <2>1, <2>2 DEF Unreached
<1>8. CASE Create(w)
  <2>1. NextRecord(w).voice = "queued"
    BY <1>0 DEF NextRecord, Correlations
  <2> QED BY <1>0, <1>1, <1>8, <2>1 DEF Create
<1>9. CASE Check(w) \/ ReserveThrows(w) \/ Dial(w) \/ Repoint(w) \/ Abandon(w)
  BY <1>1, <1>9 DEF Check, ReserveThrows, Dial, Repoint, Abandon
<1> QED BY <1>5, <1>6, <1>7, <1>8, <1>9 DEF Webhook

\* A webhook that goes on handles the report it has handled.
LEMMA WebhookGoesOn ==
    \A w \in Workers : IInv /\ Webhook(w) =>
      \A v \in Workers :
        \/ worker'[v].at = "idle"
        \/ /\ worker[v].at # "idle" /\ worker'[v].call = worker[v].call
           /\ worker'[v].seen = worker[v].seen
           /\ worker'[v].next.voice = worker[v].next.voice
<1> SUFFICES ASSUME NEW w \in Workers, IInv, Webhook(w), NEW v \in Workers
             PROVE  \/ worker'[v].at = "idle"
                    \/ /\ worker[v].at # "idle" /\ worker'[v].call = worker[v].call
                       /\ worker'[v].seen = worker[v].seen
                       /\ worker'[v].next.voice = worker[v].next.voice
  OBVIOUS
<1>0. worker \in [Workers -> Ops] /\ worker[w] \in Ops
  BY TypeSplit DEF IInv
<1>1. worker[w].at # "idle"
  BY DEF Webhook, Check, Reserve, ReserveThrows, Dial, Unreached, Create, Repoint,
         Abandon, Save, At
<1>2. CASE \E label : Goto(w, label)
  BY <1>0, <1>1, <1>2 DEF Goto, Ops
<1>3. CASE Finish(w)
  BY <1>0, <1>3 DEF Finish, Idle
<1>4. CASE GiveUpDial(w)
  <2> DEFINE n == NotDialed(worker[w].seen, worker[w].next)
  <2>1. n.voice = worker[w].next.voice
    BY <1>0 DEF NotDialed, Ops, Correlations
  <2>2. worker' = [worker EXCEPT ![w].at = "save", ![w].next = n]
    BY <1>4 DEF GiveUpDial
  <2> HIDE DEF n
  <2> QED BY <1>0, <1>1, <2>1, <2>2 DEF Ops
<1>5. CASE \E n : worker' = [worker EXCEPT ![w].at = "create", ![w].new = n]
  BY <1>0, <1>1, <1>5 DEF Ops
<1> QED BY <1>2, <1>3, <1>4, <1>5 DEF Webhook, Check, Reserve, ReserveThrows, Dial,
           Unreached, Create, Repoint, Abandon, Save

\* What a report makes of the state of its call.
Lost == Decided \ Success

LEMMA ReportReceived ==
    \A w \in Workers, m \in Messages : IInv /\ Receive(w, m) =>
      /\ UNCHANGED <<corr, line, dialer>>
      /\ m[1] \in Calls /\ m[2] \in Heard
      /\ worker'[w].call = m[1] /\ worker'[w].seen = corr[m[1]]
      /\ worker'[w].next.voice = ApplyVoiceEvent(corr[m[1]].voice, m[2])
      /\ \A v \in Workers : v # w => worker'[v] = worker[v]
<1> SUFFICES ASSUME NEW w \in Workers, NEW m \in Messages, IInv, Receive(w, m)
             PROVE  /\ UNCHANGED <<corr, line, dialer>>
                    /\ m[1] \in Calls /\ m[2] \in Heard
                    /\ worker'[w].call = m[1] /\ worker'[w].seen = corr[m[1]]
                    /\ worker'[w].next.voice = ApplyVoiceEvent(corr[m[1]].voice, m[2])
                    /\ \A v \in Workers : v # w => worker'[v] = worker[v]
  OBVIOUS
<1> DEFINE seen == corr[m[1]]
           voice == ApplyVoiceEvent(seen.voice, m[2])
           A == Advance(seen, m)
<1>1. /\ m[1] \in Calls /\ m[2] \in Heard /\ seen \in Correlations
      /\ worker \in [Workers -> Ops]
  BY TypeSplit DEF Messages, IInv, TypeOK
<1>2. /\ UNCHANGED <<corr, line, dialer>> /\ A.kind # "ignored"
      /\ worker' = [worker EXCEPT ![w] =
            [at |-> IF A.kind = "dial" THEN "check" ELSE "save",
             call |-> m[1], event |-> m[2], seen |-> seen, next |-> A.next, new |-> NoCall]]
  BY DEF Receive
<1>3. A.next.voice = voice
  <2> DEFINE heard == [seen EXCEPT !.voice = voice, !.count = @ + 1]
             at == AdvanceRouting(Policies, seen, seen.hops, voice, MaxHops)
  <2>1. \/ A.next = heard \/ A.next = [heard EXCEPT !.status = "settled"]
        \/ A.next = [heard EXCEPT !.policy = at.policy, !.step = at.step,
                                  !.hops = @ + 1, !.ledger = @ \cup {m}]
    <3> HIDE DEF heard, at, seen
    <3>1. ~(seen.status = "settled" \/ Spent(seen))
      BY <1>2 DEF Advance, Ignored
    <3>2. A = IF voice \in Undecided THEN [kind |-> "save", next |-> heard]
              ELSE IF m \in seen.ledger THEN Ignored
              ELSE IF at.kind = "settled"
                   THEN [kind |-> "save", next |-> [heard EXCEPT !.status = "settled"]]
              ELSE [kind |-> "dial",
                    next |-> [heard EXCEPT !.policy = at.policy, !.step = at.step,
                                           !.hops = @ + 1, !.ledger = @ \cup {m}]]
      BY <3>1 DEF Advance, heard, at
    <3> HIDE DEF A
    <3> QED BY <1>2, <3>2 DEF Ignored
  <2> HIDE DEF at, voice, A, seen
  <2>2. heard.voice = voice /\ heard = [seen EXCEPT !.voice = voice, !.count = seen.count + 1]
    BY <1>1 DEF Correlations
  <2>3. heard \in [{"status", "voice", "policy", "step", "hops", "ledger", "count", "stamp"}
                     -> UNION {{heard[f]} : f \in {"status", "voice", "policy", "step",
                                                   "hops", "ledger", "count", "stamp"}}]
    BY <1>1 DEF Correlations
  <2> QED BY <2>1, <2>2, <2>3
<1> HIDE DEF A, seen, voice
<1>4. /\ worker'[w].call = m[1] /\ worker'[w].seen = seen /\ worker'[w].next = A.next
      /\ \A v \in Workers : v # w => worker'[v] = worker[v]
  BY <1>1, <1>2
<1> QED BY <1>1, <1>2, <1>3, <1>4 DEF seen, voice

\* The reports that lose a call, but for the two keys that decline it.
LEMMA LosingReports ==
    \A state \in VoiceStates, e \in VoiceEvents :
      ApplyVoiceEvent(state, e) \in Lost =>
        \/ state \in Lost
        \/ e \in {"declined", "delegate", "busy", "cancelled", "unanswered", "disconnected",
                  "timeout", "rejected", "failed", "completed"}
<1> SUFFICES ASSUME NEW state \in VoiceStates, NEW e \in VoiceEvents,
                    ApplyVoiceEvent(state, e) \in Lost, state \notin Lost
             PROVE  e \in {"declined", "delegate", "busy", "cancelled", "unanswered",
                           "disconnected", "timeout", "rejected", "failed", "completed"}
  OBVIOUS
<1>1. state \in Undecided /\ state \notin Decided
  <2>1. CASE state \in Decided
    <3>1. state \notin Undecided /\ state # "queued"
      BY <2>1 DEF Undecided, Decided
    <3> QED BY <2>1, <3>1 DEF ApplyVoiceEvent
  <2> QED BY <2>1 DEF VoiceStates, Undecided, Decided
<1>2. e \in Decisive
  <2> SUFFICES ASSUME e \notin Decisive PROVE FALSE
    OBVIOUS
  <2>1. ApplyVoiceEvent(state, e) \in {"awaiting_acceptance", "ringing", state}
    BY <1>1 DEF ApplyVoiceEvent
  <2> QED BY <1>1, <2>1 DEF Lost, Undecided, Decided
<1>3. ApplyVoiceEvent(state, e) = DecisionOf[e]
  <2>1. e \notin {"answered", "ringing"}
    BY <1>2 DEF Decisive, DecisionOf
  <2> QED BY <1>1, <1>2, <2>1 DEF ApplyVoiceEvent
<1>4. e \notin {"accept", "coming"}
  BY <1>2, <1>3 DEF DecisionOf, Decisive, Lost, Success
<1> QED BY <1>2, <1>4 DEF Decisive, DecisionOf, VoiceEvents, StaffChoices, CallStatuses

\* A call that is over stays over.
LEMMA OverStays == IInv /\ [Next]_vars => \A c \in Calls : line[c] = "over" => line'[c] = "over"
<1> SUFFICES ASSUME IInv, [Next]_vars, NEW c \in Calls, line[c] = "over" PROVE line'[c] = "over"
  OBVIOUS
<1>0. line \in [Calls -> {"free", "ringing", "over"}]
  BY DEF IInv, TypeOK
<1>1. UNCHANGED line => line'[c] = "over"
  OBVIOUS
<1>2. ASSUME NEW d, NEW l \in {"ringing", "over"}, line[d] # "over" \/ l = "over",
             line' = [line EXCEPT ![d] = l]
      PROVE  line'[c] = "over"
  BY <1>0, <1>2
<1>3. ASSUME NEW w \in Workers, Webhook(w) PROVE line'[c] = "over"
  <2>1. CASE Dial(w)
    BY <1>1, <1>2, <2>1 DEF Dial
  <2>2. CASE Abandon(w)
    BY <1>1, <1>2, <2>2 DEF Abandon, HangUp
  <2>3. CASE Check(w) \/ Reserve(w) \/ ReserveThrows(w) \/ Unreached(w) \/ Create(w)
               \/ Repoint(w) \/ Save(w)
    BY <1>1, <2>3 DEF Check, Reserve, ReserveThrows, Unreached, Create, Repoint, Save
  <2> QED BY <1>3, <2>1, <2>2, <2>3 DEF Webhook
<1>4. ASSUME NEW w \in Workers, NEW m \in Messages, Receive(w, m) PROVE line'[c] = "over"
  BY <1>1, <1>4 DEF Receive
<1>5. ASSUME NEW d \in Calls, FirstDial(d) \/ FirstCreate(d) \/ EndCall(d) \/ Lapse(d)
      PROVE  line'[c] = "over"
  BY <1>1, <1>2, <1>5 DEF FirstDial, FirstCreate, EndCall, Lapse
<1>6. ASSUME NEW r, Elsewhere(r) PROVE line'[c] = "over"
  BY <1>1, <1>6 DEF Elsewhere
<1>7. CASE UNCHANGED vars
  BY <1>1, <1>7 DEF vars
<1> QED BY <1>3, <1>4, <1>5, <1>6, <1>7 DEF Next

\* A webhook places no first call, and dials for a call that is lost.
LEMMA WebhookDials ==
    \A w \in Workers : IInv /\ Webhook(w) =>
      /\ PlacedCalls' \cap FirstCalls = PlacedCalls \cap FirstCalls
      /\ \A c \in Calls : HasChild(c)' =>
            \/ HasChild(c)
            \/ /\ worker[w].at # "idle" /\ worker[w].call = c
               /\ worker[w].next.voice \in Lost
<1> SUFFICES ASSUME NEW w \in Workers, IInv, Webhook(w)
             PROVE  /\ PlacedCalls' \cap FirstCalls = PlacedCalls \cap FirstCalls
                    /\ \A c \in Calls : HasChild(c)' =>
                          \/ HasChild(c)
                          \/ /\ worker[w].at # "idle" /\ worker[w].call = c
                             /\ worker[w].next.voice \in Lost
  OBVIOUS
<1>0. /\ line \in [Calls -> {"free", "ringing", "over"}]
      /\ dialer \in [Calls -> Calls \cup {NoCall}] /\ FirstCalls \subseteq Calls
  BY DEF IInv, TypeOK
<1>1. CASE Dial(w)
  <2>1. worker[w].next.voice \in Lost /\ worker[w].at = "dial"
    BY <1>1 DEF IInv, WorkerOk, NextOk, Dial, At, Lost
  <2>2. CASE UNCHANGED <<line, dialer>>
    BY <2>2 DEF PlacedCalls, HasChild
  <2>3. ASSUME NEW n \in Calls \ FirstCalls, line' = [line EXCEPT ![n] = "ringing"],
               dialer' = [dialer EXCEPT ![n] = worker[w].call]
        PROVE  /\ PlacedCalls' \cap FirstCalls = PlacedCalls \cap FirstCalls
               /\ \A c \in Calls : HasChild(c)' => HasChild(c) \/ worker[w].call = c
    BY <1>0, <2>3 DEF PlacedCalls, HasChild
  <2> QED BY <1>1, <2>1, <2>2, <2>3 DEF Dial
<1>2. CASE Abandon(w)
  BY <1>0, <1>2 DEF Abandon, HangUp, PlacedCalls, HasChild
<1>3. CASE Check(w) \/ Reserve(w) \/ ReserveThrows(w) \/ Unreached(w) \/ Create(w)
             \/ Repoint(w) \/ Save(w)
  <2>1. UNCHANGED <<line, dialer>>
    BY <1>3 DEF Check, Reserve, ReserveThrows, Unreached, Create, Repoint, Save
  <2> QED BY <2>1 DEF PlacedCalls, HasChild
<1> QED BY <1>1, <1>2, <1>3 DEF Webhook

LEMMA InvDialsOnce == IInv => OneChild /\ AcceptedStops
BY DEF IInv, CallOk, AcceptedStops

LEMMA InvHolds == Spec => []IInv
BY InitHolds, NextKeeps, PTL DEF Spec

-----------------------------------------------------------------------------
\* The records, workers and calls have their types, whatever the policies are.
THEOREM TypeCorrect == Spec => []TypeOK
<1>1. IInv => TypeOK
  BY DEF IInv
<1> QED BY <1>1, InvHolds, PTL

\* However many webhooks report the end of a call, in whatever order and with
\* whatever fails, at most one next call is dialed because of it (dialNextHop).
THEOREM OneNextCall == Spec => []OneChild
BY InvDialsOnce, InvHolds, PTL

\* No call is dialed because of a call that a member of staff has taken.
THEOREM AcceptanceEndsDialing == Spec => []AcceptedStops
BY InvDialsOnce, InvHolds, PTL

\* Hops, handled reports and spent events are carried on at every next call
\* (toCorrelationRouting), so that no limit begins anew.
THEOREM LimitsCarriedOn == Spec => []ChainCarries
<1>1. IInv => ChainCarries
  BY DEF IInv, CallOk, Continues, ChainCarries
<1> QED BY <1>1, InvHolds, PTL

\* A routing places at most MaxHops calls, however many webhooks report the end
\* of each of them (DEFAULT_MAX_HOPS).
THEOREM FewDials == Spec => []DialsBounded
<1>1. Spec => [](HopsInv /\ Rooted)
  BY InvHolds, InitRooted, HopsKept, RootsKept, PTL DEF Spec
<1> QED BY <1>1, FewCalls, PTL

\* A settled record stays settled and takes no further hop.
THEOREM SettledForGood == Spec => SettledStays
<1>1. IInv /\ [Next]_vars =>
        [\A c \in Calls : corr[c].status = "settled" =>
            /\ corr'[c].status = "settled"
            /\ corr'[c].hops = corr[c].hops]_vars
  BY NextSettles
<1> QED BY <1>1, InvHolds, PTL DEF Spec, SettledStays
=============================================================================
