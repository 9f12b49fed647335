# Verification of open-reception

open-reception is an unattended reception: a visitor chooses whom to see on an
iPad, the server calls that person over a telephone provider, and the screen
follows the call. The server is a Next.js application whose requests run on
independent, short-lived instances over a key-value backend (memory or
DynamoDB) that makes one `get`, `put` or `updateIf` atomic and nothing larger.
The difficulty of the system is what happens between two of those calls.

The kiosk is a React screen whose effects send requests and take up their
answers, late ones included.

This directory holds TLA+ models of the reception and its call routing, of the
kiosk's two visitor flows, of the visitors in the house and their checkout, and
of who may run a kiosk; the TLC runs that check them; and proofs. Paths below
are relative to `src/src/`.

## 1. Inventory

### The reception flow

| Part | State | Operations | Talks to |
|---|---|---|---|
| Reception state machine, `domain/reception/state.ts` | a state of twelve | `transition` over thirteen events | the kiosk screen and the store use the same table |
| Reception store, `lib/data-stores/reception-store.ts`, `reception-repository.ts` | one session per reception: state, `providerCallId`, `callOutcome`, `staffResponse` | `createReception`, `startCall`, `cancelReception`, `completeReception`, `markConnected`, `markTimeout`, `markCallFailed`, `recordStaffResponse`, `repointProviderCall`, `recordFallback` | reception log |
| Reception log, `reception-log-store.ts` | rows under fresh ids, found again by reception id | `recordReceptionOutcome`, `markFallbackUsed`, `recordSatisfactionFeedback` | audit log (append only) |
| Kiosk routes, `app/api/kiosk/receptions/[id]/*` | none of their own | `call`, `status`, `cancel`, `give-up`, ... | store, routing, provider |
| Provider call state, `domain/call/voice-call-state.ts` | one state of nine per provider call | `applyVoiceEvent` | folded by the webhooks |
| Routing policies, `domain/routing/` | steps, transitions by result, a fallback policy | `runRouting` (loop), `startRouting` / `advanceRouting` (resumable), validation | |
| Correlation records, `lib/routing/call-correlation.ts` | per provider call: reception, routing position (policy, step, hops, ledger), call state, event count, status, `dialExpiresAt`, `updatedAt` | `put`, `updateIfUnchanged` | webhooks write, `/status` reads |
| Webhooks, `lib/routing/voice-event.ts`, `next-hop-dial.ts` | none of their own | fold an event, dial the next hop, hand over | correlation records, store, provider |
| Routing settings, `lib/routing/service.ts` | stored endpoints and policies | create, update, remove, validate | |

The kiosk sends one `/call`, polls `/status` every three seconds for at most
five minutes, and sends `/cancel` or `/give-up` without waiting for the answer.
The provider sends webhooks at least once, in any order, to any instance.
`/call` places the first call and stores its record; each webhook that learns
that a call is over without an answer places the next call, stores *its*
record, and moves the reception's `providerCallId` to it; `/status` turns the
record of the call the reception points at into `connected`, `timeout` or
`failed`.

What makes these parts correct:

* store: the stored state moves along the table only; a reception has one
  ending, filed once and truthfully; the call it waits for never goes back;
* call state: the first decision stands, whatever comes later or out of order;
* routing: the two executions agree, end, and fit the time the kiosk waits;
* webhooks: one next call per call, none after somebody has accepted, limits
  that survive the hand-over from record to record, records settled for good;
* the whole: a visitor is told the truth about the call, is not left waiting,
  and no phone rings for a visitor who has gone.

### Around the reception

| Part | State | Operations | Talks to |
|---|---|---|---|
| Kiosk screen, `components/kiosk/KioskFlow.tsx`, `flow-state.ts`, `useStaffResponse.ts`, `use-calling-notice-hold.ts`, `lib/call/call-controller.ts` | the reducer's data, the medium and age of the call, a pending timeout, the staff's answer, the checkout credential | the reducer, the effects of each state, timers, polls, the answers to seven kinds of request | kiosk routes |
| Reservations, `domain/reservation/lifecycle.ts`, `lib/reservation/service.ts` | one document per reservation: status, token, dates | create, edit, cancel, revoke, reissue, expiry on read | check-in |
| Check-in, `lib/checkin`, `components/kiosk/CheckinFlow.tsx`, `domain/checkin/state.ts` | the screen; the chain of requests behind it | scan, resolve, confirm, call, poll, give up | reservations, kiosk routes |
| Stays and checkout, `lib/visit`, `domain/visit` | a document per stay; credentials and the count of wrong codes in the memory of a process | arrive, check out, cancel, issue, redeem by token or by code | reception routes |
| Attempt limiter, `lib/security/attempt-store.ts`, `domain/security/attempt-budget.ts` | a window per origin and one for all | reserve by compare-and-set, forget | authorize route |
| Device registry, `lib/tenant/device-service.ts`, `domain/tenant/device-credential.ts` | a document per device: status, pending link, generation | issue, consume, switch on and off | enrol and authorize routes |

What makes these parts correct:

* screen: nothing of one visitor reaches the next; a result is shown only when
  the server has it; the waiting screen always returns;
* check-in: a code admits once, an ended reservation stays ended, "completed"
  means that somebody answered, nobody is left at the calling screen;
* stays: who has left stays away, a failed checkout does not cost the
  credential, a code leads to one visitor, wrong codes are bounded;
* limiter: the budget holds under bursts, and a refusal always has a cause;
* registry: a link enrols one terminal, and no link or credential survives a
  switch of the device.

### The rest of the program

| Part | Hard behaviour | Status |
|---|---|---|
| Operating policy, runtime policy, security settings | versions and compare-and-set; the creation race | not modelled, see 5 |
| Privileged elevation (`lib/platform`) | revocation against use | not modelled, see 5 |
| Experience versions (`lib/experience-version`) | publish and roll back; kiosks' reports merged by get and put | not modelled |
| Voice session and turns (`lib/voice-session`, `domain/voice-turn`) | barge-in, queues of speech | not modelled, see 5 |
| Voice transport, TTS, STT, notifications, presence, signage, i18n, three | audio, media and outgoing I/O | not modelled |
| Organisation, directory, branding, assets, motion | single-document forms | not modelled |
| Authentication | signatures and libraries | not modelled |
| Other React components, CDK stacks | rendering; deployment | not modelled |

`PROJECT.json` lists every part under `components`, and every hazard of the
code with its line under `hazards`.

## 2. Modules

```
ReceptionState      the transition table
ReceptionPromise    what the store promises: one-step operations
ReceptionStore      the store, one backend call per step  --implements--> ReceptionPromise
  ReceptionStore_proofs
  MCReceptionStore
VoiceCall           the fold of provider events (operators)
VoiceCallHistory    the fold driven by any sequence of events
RoutingPolicy       policies and advanceRouting (operators)
RoutingRun          loop and resumable routing side by side
  MCRoutingRun
Routing_proofs      theorems of RoutingRun and VoiceCallHistory
HopDial             webhooks over correlation records
  HopDial_proofs
  MCHopDial
CallSystem          routes + ReceptionStore + HopDial  --implements--> HopDial
  CallSystem_proofs
  MCCallSystem
KioskScreen         the flow of the screen against late answers (uses ReceptionState)
  KioskScreen_proofs
Checkin             reservation, check-in requests and their screen
  Checkin_proofs
VisitStay           stays, checkout credentials, the throttle of codes
  VisitStay_proofs
  MCVisitStay
KioskAccess         device registry and attempt limiter
  KioskAccess_proofs
  MCKioskAccess
```

**ReceptionStore.** A process is one request that calls one store function
(`op[p].fn`). `op[p].at` is the backend call it makes next and `op[p].seen` the
copy of the session it holds; `Overwrite` is a `put` of that copy, so whatever
was stored since is lost in the model exactly where it is lost in the code.
`Settle` and `Repoint` are the conditional updates: they write named fields over
the *stored* record. `Throw` is a backend call that throws, or the end of the
instance. The audit log is append-only and read by nothing here, so it is left
out, and so are times and texts of the session.

**VoiceCall, VoiceCallHistory.** `ApplyVoiceEvent` is `applyVoiceEvent`;
the history module drives it with any sequence of events and keeps the list.

**RoutingPolicy, RoutingRun.** `AdvanceRouting` and `NextTransition` are the
functions of `resumable.ts` and `policy.ts`. `RoutingRun` feeds the same results
to `runRouting`'s loop (`LoopTurn`) and to the resumable steps (`Resume`). Its
initial states are all the policy sets the settings service would have stored
(`Storable`) with any of the policies but the entry deleted since, because
`removePolicy` does not ask who refers to what it deletes.

**HopDial.** A worker is one delivery. `worker[w].seen` is the record it read
when its signature was checked, `next` what its event leads to; the labels
`check`, `reserve`, `dial`, `create`, `repoint` and `save` are the asynchronous
calls of `dialNextHop` and `applyVoiceEventToCorrelation`, in order, and
`unreached` and `abandon` the two clean-ups. `lapsed[c]` stands for "the clock
has passed `dialExpiresAt`", `stamp` for `updatedAt`, `line[c]` for the call at
the provider, and `dialer[c]`, which the code does not have, remembers whose
webhook dialed a call. An event's id (jti) is the pair of its call and its kind:
a second delivery of the same event has the same id. `Faults` says which steps
may fail; a failing write may or may not have taken effect where the code can
not tell; a dial that throws may have been placed, as a call nobody has a record
of. The reception is written by an arbitrary environment (`Elsewhere`).

**CallSystem.** Instantiates the two modules above on one reception and adds the
routes: `/call` (`CallArrives`, `CallRefuses`, `CallDials`, `CallCreates`, then
the store's `startCall`), `/status` (`StatusArrives` reads the reception,
`StatusResolves` reads the correlation and decides, then a store function),
`/cancel` and `/give-up` (a store function, then `HangsUp` on the call id read
on arrival). The property `HopSpec` says that this composition only behaves in
ways `HopDial` allows, so `HopDial`'s invariants hold of it, too.

**KioskScreen.** `flow` is the reducer's data, `Reduced` the reducer; `Show` is
what the effects do when React commits a state, so that every action that
dispatches ends in `Dispatch`. A fetch is a message in `net`: the request, then
the answer that the server or a broken connection puts in its place. A closure
that React keeps (the calling effect, the poll) is its message's `id` together
with `Live` and `Polled`, which say whether the effect that started it has been
cleaned up. Visits are numbered, and so are the receptions they create; the
server is the table of `ReceptionState` with any order of requests, since the
store's own races are the business of `ReceptionStore`. `Start` demands that no
more than `MaxFaults` messages of earlier visits are still on their way.

**Checkin.** A process is one administrator's request, or one chain of requests
of a terminal: read, the put of the expiry noticed, the put of the changed copy,
the reception, the call. `op[p].seen` is the copy that will be put. The screen
asks (`Asks`), leaves (`Exit`, the chain goes on without it) and takes up the
answer (`Answer`). A call that was placed may lose its answer on the way back.
`admissions` counts the puts of a use since an edit was stored last, and is not
in the code. `Functions` says what administrators do, `Policies` which usage
policies reservations have.

**VisitStay.** A process is one request over the stored stays. `credentials` is
`byToken` in the order of insertion, which matters, because `matchCode` takes
the first that fits; `failures` is the code's list of the times of failures,
and `compared`, which the code does not have, the times at which wrong codes were
really compared.
`Restart` empties what lives in memory. A draw of a colliding code is repeated,
so `Issue` draws from `Fresh`, or fails: after fifty colliding draws
`freshCode` throws, whether or not a free code was left.

**KioskAccess.** The windows are read (`Get`) and written on the condition that
they still read the same (`Cas`), as often as the code tries; first the origin's
and then the shared one. Times are integers, `now` is read once when a request
arrives, and `Skew` bounds both how long a request may take and how far clocks
may differ. `entries` counts what each window has admitted since it was last
forgotten; it, `consumed`, `latest` and `stopped` are not in the code. A missing
generation of an old device record counts as 0, as in `credentialGenerationOf`.
Unreadable records are those whose fields can be compared. One whose fields can
not (`NaN`, an object, an unconfirmed `null`) is replaced by an unconditional
put, for which `attempt-store.ts:172-185` accepts that a burst may exceed the
budget once; the code never writes such a record, and it is left out.

`PROJECT.json` maps each definition to its lines under `map`.

## 3. Runs

Deadlock checking is off where a run ends by itself (requests are used up,
events are counted); `HopDial` never stops, because its environment goes on.

| Run | Question | Bounds | States |
|---|---|---|---|
| `store_conditional` | Do the conditional writers keep the reception consistent under any interleaving and failure? | 4 requests, 2 call ids | 50 k |
| `store_serial` | Is every function right when requests follow one another? | 5 requests, all ten functions | 287 k |
| `voice_call` | Does the first decision stand, whatever comes late, twice or not at all? | all 15 events, sequences of 4 | 54 k |
| `routing_run` | Do loop and resumable steps dial alike, and end? | two policies of at most two steps, every reaction to a missed call, 3 hops | 30 k |
| `hop_faults` | Two deliveries, every fault, equal times: one next call each, limits carried on, nothing reopened? | 3 calls, 2 hops, 3 events | 2.2 M, two and a half minutes |
| `call_race` | A cancellation against the call, its polls and two deliveries | 3 calls, 2 hops, 2 events | 845 k |
| `call_liveness` | Does waiting end, and is the end filed, with every fault and without any webhook? | 2 calls, 4 events, a give-up | 130 k |
| `kiosk` | Does anything of one visitor reach the next, does the screen say more than the server knows, does it always come back? | 2 visits, one lost or late request, one status request at a time | 1.9 M, two and a half minutes |
| `checkin` | Is a code that has admitted refused, and one out of force not revived, "completed" only after an answer, no endless calling screen? | 2 chains of one terminal, an administrator who reissues, 2 codes, 2 days | 658 k |
| `stay` | Is nobody locked out or brought back, do codes differ, are guesses bounded, with failing calls and restarts? | 2 requests, 2 stays, 2 credentials over 2 codes, 3 times | 3.3 M |
| `access` | Do budget and registry hold under concurrent requests, lost answers and clock differences? | 2 requests, an origin and none, budgets 1 and 2, 2 links, 3 generations | 2.9 M |

Why these bounds reach the interesting cases. A race in the store needs a
`start`, a writer with an old copy and a writer in between: three requests; the
fourth allows a repointing before or after. A double dial needs two deliveries
about one call and a second new call; a limit that starts anew at a hand-over
shows at the record after it. `MaxHops` (5 by default in the code,
`resumable.ts:40`) is smaller than the number of calls and `MaxEvents` (100,
`webhook-advance.ts:74`) smaller than the number of deliveries, so both limits
are met; the loop's own default is 16 (`orchestrator.ts:81`), and `SameRoute`
compares the two routings under one limit; the policies of `MCHopDial` never end by themselves, so
only the limits do. `ClientWait` (300 s) and the timeouts of `RoutingRun` are
in units of 30 s. Requests, workers and new calls are symmetric; no run with a
liveness property uses symmetry.

A crossing from one visitor to the next needs two visits and one message that
outlives the first; the third visit is the second again, and `KioskScreen_proofs`
covers any number. `checkin` explores two scans of one code, by one visitor who
scans twice or by two after one another, whose confirmations may overlap, with
an administrator whose reissue was read before. `UsedIsRefused` is about
`single_use` codes, so `Policies` has only these; the day of the visit matters to
`same_day` alone, whose behaviour `checkin_same_day` shows. The four properties also
hold with `Functions` `{"revoke", "reissue"}` (2.3 M states) and `{"edit",
"reissue"}` (2.7 M, minutes more), and the proofs cover all four functions
together. Two
credentials over two codes let a code be reused after its first credential has
expired (`Ttl` 1 of 3 times); two wrong codes fill `ThrottleMax` and the third
time empties the window. In `access` a window of 2 with 3 times opens twice;
budgets of 1 and 2 are used up by two requests, and two links with three
generations let a link meet a second one and a switch.

### What does not hold

`stay_code_shadowed` checks what the design of the checkout states, that a code
leads to one visitor, and TLC finds the behaviour of the code that breaks it
(`PROJECT.json` quotes the text under `findings`): `freshCode` may reuse the code
of an expired credential, and `matchCode` finds the expired one first.

The configurations below each check one more statement of a comment or a
document of the repository that the code does not keep; TLC ends each with a
behaviour (`tlc -config X.cfg M`).

| Configuration, module | What happens | The statement |
|---|---|---|
| `store_respond_reopens`, MCReceptionStore | `recordStaffResponse` puts back a session it read while it was calling; a timeout stored in between is undone. | `StateFollowsTable` |
| `store_cancel_files_twice`, MCReceptionStore | `cancelReception` writes unconditionally: a timeout and a cancellation both file a row. | `HistoryOnce` |
| `store_fallback_unmarked`, MCReceptionStore | The fallback is used after `timeout` is stored and before its row exists; the row is never marked. | `FallbackMarked` |
| `routing_overruns`, MCRoutingRun | The wait is checked per policy; the routing goes on into the fallback policy. | `FitsClientWait` |
| `hop_acceptance_lost`, MCHopDial | A webhook that loses the race to save drops the acceptance it carries and reports success. | `AcceptanceKept` |
| `call_late_result`, MCCallSystem | A poll applies the first call's result after the reception was moved to the second. | `TimeoutIsCurrent` |
| `call_give_up_cuts`, MCCallSystem | `/give-up` hangs up even when it has lost to an answer. | `GiveUpSparesConnected` |
| `call_rings_on`, MCCallSystem | `/cancel` hangs up the call id it read on arrival; the next call is already ringing. | `NoUnattendedCall` |
| `call_not_begun`, MCCallSystem | A call that ends before `startCall` has stored `calling` stops the routing as if the visitor had left. | `RefusedOnlyAfterCalling` |
| `kiosk_rings_nobody`, KioskScreen | The visitor leaves while the reception is created; there is no session to cancel, and `/call` is sent when the creation is answered (`KioskFlow.tsx:709` asks nobody). | `RingsForSomebody` |
| `kiosk_credential`, KioskScreen | The credential is answered after the completed screen has returned to idle and is shown to the next visitor who completes (`KioskFlow.tsx:1026`), although idle is to discard it. | `CredentialIsOwn` |
| `kiosk_gives_up_early`, KioskScreen | A status request that the server handles before `/call` says `confirming`, which `decidePollAction` reads as a reason to give up. | `GiveUpIsLate` |
| `checkin_scanned_twice`, Checkin | Two confirmations both read a `single_use` reservation active and both put it as used. | `OneAdmission` |
| `checkin_reissue_reopens`, Checkin | A reissue that was read before makes a used reservation active again, under a new code; `Functions <- {"edit"}` shows the same of an edit, under the old one. | `UsedStaysUsed` |
| `checkin_rings_nobody`, Checkin | The visitor leaves during the confirmation; the second request of the chain still places the call. | `RingsForSomebody` |
| `checkin_polls_once`, Checkin | A refused status request has no state, so the first ends the wait (`CheckinFlow.tsx:302` says that one failure does not). | `OneFailureWaits` |
| `checkin_same_day`, Checkin | `markUsed` treats both usage policies alike; a `same_day` code is refused the second time on its day (`domain/reservation/types.ts:54`). | `SameDayReadsAgain` |
| `stay_time_overwritten`, MCVisitStay | Two checkouts read the stay present; the second overwrites the time (`domain/visit/state.ts:30`). | `TimeStands` |
| `stay_twice`, MCVisitStay | `/stay` sent twice at once, or again after the checkout, makes a second stay (`stay/route.ts:22` calls it idempotent). | `OneStay` |

### Fairness

`call_liveness` assumes that handlers that run go on (the store function of a
request that has begun is carried through, and a webhook finishes), that the
kiosk keeps polling, and that time passes. The kiosk polls every three seconds
until the reception is over or five minutes have passed; a dial budget is shorter
than that. It need not cancel or give up, and nothing is assumed of the provider:
no webhook has to arrive and no call has to end. `routing_run` assumes that
every dial has a result, which is what awaiting the provider in the loop means.

`kiosk` assumes that the timers of the terminal fire, that it polls, that a
fetch ends (with the answer or with a failure) and that a video call ends in one
of its three ways, since the controller has a timer of its own. Nothing is
assumed of the visitor, the telephone, or any request that is not awaited.
`checkin` assumes the same of its timers and that a chain of requests that has
begun ends; no call need be settled and no request need succeed.

## 4. Proofs

### The reception store

`ReceptionStore_proofs` proves, for any number of requests and call ids, and in
the first two groups with any step failing:

* `TypesHold`: `Spec => []TypeOK`, for every choice of `Functions`;
* under `Conditional`, that is, `Functions` within `{start, timeout, failed,
  repoint}` and `StartAlone`:
  `FiledOnce` (`HistoryOnce`), `FiledTruthfully` (`HistoryTruthful`),
  `TableFollowed` (`StateFollowsTable`), `RepointHolds` (`RepointSticks`) and
  `PromiseKept` (`KeepsPromise`: the store implements `ReceptionPromise`);
* when requests come one at a time and each is carried through (`SerialSpec`),
  for *every* function:
  `SerialHistory` (`HistoryMatches`) and `SerialPromise` (`KeepsPromise`).

The condition is not a convenience: the `store_*` violations above show
that with `cancel`, `respond` or `fallback` in `Functions`, or with another
request inside `startCall`, these properties are false of the code. The theorems
say that the conditional updates the code introduced for them are enough.

None of the properties is inductive: whether a row may be appended depends on
what other requests have yet to write. The inductive invariant `IInv` is the
conjunction of

* `Typed`: the types, with the labels each function can be at;
* `RecordFits`: the stored outcome and the rows fit the stored state;
* `Alone`: while `startCall` runs nothing else does;
* `OneFiler`: at most one request is about to file, and then no row exists;
* `Knows`: what a request's copy says about the stored record
  at each label.

`NextTyped` and `NextKnows` show that every step keeps the invariant, with one
step per action; `Kept` is the shared part of the latter, what a step owes to the
request that moves and to those that look on. `NextMoves` reads off, again per
action, what a step does to the record (`Moved`): `TableFollowed` follows from
it, and `MovesPromised` maps each such move to a step of `ReceptionPromise` or
to a stutter. The temporal theorems combine these with `PTL`.

`RepointSticks` needs `Waits` besides: a reception that some repoint has
succeeded on has left `confirming` for good, so no `startCall` is left that
would attach its own call over the repointed one.

The serial theorems have an invariant of their own, `SInv`. Between requests
the record is `Whole`: filed with the one row that tells its outcome, or not
over and without a row. While a request runs, `Within` says for each label what
its copy still owes: the copy is the stored record (nobody else writes), a row
about to be appended is the first and tells the stored outcome, a row about to
be marked is the last one. A request that throws between the reception and its
row leaves the store in just such a state for good, which is why `SerialSpec`
has no `Throw`. `SerialBegin` to `SerialPutRow` are one lemma per kind of step.

### Routing and provider calls

`Routing_proofs` proves, for every set of policies the settings service can
store, whatever part of it was deleted later, and for any results and hop limit:

* `OneRoute` (`SameRoute`): the loop and the resumable webhooks dial the same
  steps in the same order and stop together;
* `HopsRunOut`: every result is one hop more, and after `maxHops` of them both
  have ended. This is why a routing ends although `goto_step` may go back and
  deletions may leave any policy: `Terminates` adds only that results come.

`SameRoute` compares what was dialed, not what will be, so it is not inductive.
`RouteInv` says that the two are at the same *place* (`SamePlace`): the loop
keeps an index, the resumable routing the id of a step, and what connects them
is that ids differ within a policy (`FoundAgain`), that a stored `goto_step`
finds its target (`FoundInside`), and that the loop's check `hops >= maxHops` at
the head of the next turn is `LastHop` in `advanceRouting`. `PolicyOK` is what
`Storable` leaves of this in every policy in force (`InForceOK`); what a fallback
names may be gone, and then both stop.

`DecidedOnce` (`FirstDecisionStands`) is proved for sequences of events of any
length: a decided call keeps its first decision, and an undecided one is either
decided by the event that comes or only led forward. The property is inductive
as it stands.

### The webhooks

`HopDial_proofs` proves, for any number of calls, deliveries and events, any
stored policies and limits, any set of faults, and with or without writes that
carry the same time (`ClockTicks`): `OneNextCall` (`OneChild`),
`AcceptanceEndsDialing` (`AcceptedStops`), `LimitsCarriedOn` (`ChainCarries`),
`SettledForGood` (`SettledStays`), `FewDials` (`DialsBounded`) and the types.
Nothing is assumed of the
policies: a step that leads nowhere or a cycle of policies is covered.

`OneChild` is not inductive, because a delivery that has reserved the dial has
yet to place it. The invariant `IInv` adds

* `CallOk`: a call that is free has no record and no dialer; whatever dialed a
  call is settled, was not accepted, and is continued by the record of the new
  call; an unsettled record is not accepted;
* `WorkerOk`: what a delivery has read still names a record with the same hop,
  and, once it has reserved, that record is settled as it has written it
  (`Reserved`); before it dials, no call was dialed from it, and when `initiate`
  has thrown, at most one that has no record (`Barren`); the call it has dialed
  is its own until the record is put (`Dialed`, `HasRecord`);
* `OneHolder` and `OneCreator`: two deliveries never hold the same reservation
  or the same new call.

The reservation is what makes these hold: only `Unchanged`, which demands a
record in flight, lets a worker in, and the write settles the record, so a
second worker is shut out even when the time it compares is the same.

`DialsBounded` counts calls along their chains. No recursion is needed: `HopsInv`
reads the place of a call in its routing off the records (`Depth`), and `Rooted`
says that some function `root` leads every call to the first one of its routing,
so that a call is known by its root and its depth. The next call gets the root of
its dialer and a depth that is new there, since the dialer had no child. Calls
are then at most roots times `MaxHops`, by an injection into pairs.

### The whole

`CallSystem_proofs` proves, for any number of requests, deliveries and calls:
`ImplementsHop` (`HopSpec`: the routes and the store are an environment that
`HopDial` allows, so its theorems hold of the whole), `ConnectedTruthfully`
(`ConnectedIsAnswered`), `PointsToRecords` (`PointsAtRecord`) and, where nobody
declines by key (`NobodyDeclines`), `OnePhoneRings` (`OneRinging`). The argument
takes `HopDial_proofs`' invariant as it is (`HP!IInv`, with
`HP!NextKeeps`), adds `Typed`, which says which store function a request may be
in and at which of its steps, and `Knows`, which says that the reception, every
copy of it and every pending input name a call with a record or none, and are
connected only if some call was accepted. A stale copy does no harm to these
two, since records never vanish and an acceptance is never taken back
(`HP!NextKeepsAcceptance`): that is why they hold although the store overwrites.
`StoreMoves` says what one step of a store function may write, `RouteSteps` what
one step of a route does to each of the parts.

`OneRinging` rests on two more: `Ended`, that a call which is lost, or has dialed
the next one, is over at the provider (who declines by key is still on the line,
hence the condition), and `Begun`, that requests to `/call` have placed a first
call each at most. Two calls that ring have no child, `Rooted` gives them
different roots, and there are no more roots than requests. The same counting,
without the condition, gives `DialsPerRequest`: each request to `/call` costs
`maxHops` calls at most. `WholeDialsOnce` states `OneChild` and `AcceptedStops` of
the composition. That `/call` and
`/status` are different requests, and that there are finitely many, is
`PostsAssumption`.

### The kiosk screen

`KioskScreen_proofs` proves, for any number of visits, lost requests and polls,
`NothingCrossesVisits` (`OwnVisitor`) and `WaitingIsBlank` (`IdleIsBlank`), and
the types. `OwnVisitor` is not inductive: an answer that is still on its way may
bring back an old session. The invariant adds `ScreenInv`, which says in which
states of the screen each of its parts may be set at all (a session from the
calling screen on, a pending timeout only there), and `NetInv`, which says that
no message belongs to a later visit than the present one, and none to the
present one before its calling screen. `Live` and `Polled`, the cleanups of the
effects, close the step: an answer taken up while they hold is the present
visitor's.

`ScreenIsTrue` (`ScreenTellsTruth`) adds `Truth`, which follows the knowledge of
the server to the screen: an answer on its way tells what the server had settled
and has not taken back (`ServerInv`), a reception is created and called by one
request each (`PlacingInv`), and a timeout held back for the staff's notice is
one the server has settled (`HeldTruth`). That a call the server has completed
is never again shown as calling follows from its `complete` being sent from the
connected screen only. `NoneAssumption` says that what is absent is neither an
identifier nor a medium nor an answer, as `null` and `undefined` are.

### The check-in

`Checkin_proofs` proves, for any number of terminals, chains, administrators'
requests, days and tokens:

* `CompletedTruthfully` (`CompletedIsAnswered`) and the types;
* `UsedCodesRefused` (`UsedIsRefused`): a `single_use` code that has admitted a
  visitor is refused from then on, until an edit is stored;
* `OutOfForceForGood` (`OnlyEditsRevive`): a code that is out of force (used,
  cancelled, revoked, expired or replaced) comes back by a stored edit only.

None of them has a condition: they hold for every choice of `Functions` and
`Policies`, however confirmations overlap and however stale the copies are that
requests put. They say what the unconditional puts leave of the promise
that a code admits once, which is false as it stands: two confirmations that
were both read before the first put admit twice (`checkin_scanned_twice`), and a
stale reissue or edit reopens a used reservation (`checkin_reissue_reopens`). What
remains is that whoever reads the reservation *after* the admission is refused,
that a reissue reopens it under a code nobody has used, and that only an edit
can bring back the old one.

`Base` gives types and what a chain has been told, and carries the first. For
the others, `SpentIsOut` says that a code that has admitted is out of force
(`OutOfForce`): the record does not name it as active, and no reissue is about to
store it. This is inductive with `Unshared`, a code about to be stored for the
first time is in no other copy, because it was issued after all of them
(`Issued`). `NextCodes` shows that every step but the put of an edit leaves what
is out of force so (`StaysOut`); a copy that ends a reservation may be as stale
as it likes.

### The stays

`VisitStay_proofs` proves `NobodyLockedOut` (`NotLockedOut`), `OneVisitorPerCode`
(`CodesDiffer`), `EndIsFinal` (`NeverBack`) and `GuessesAreFew`
(`GuessesBounded`), for any number of requests, stays, codes and times. The invariant says what a request knows: one that is to
put an end has read its stay when it was there, one that is to consume a
credential comes from a stay that has ended, and a token points into the list.
`CodesDiffer` needs no more than `Fresh` and that time passes; it is proved as a
step invariant of its own. So is `GuessesBounded`, with `Counted`: whatever is
compared in vain is recorded in the same step, so the list the throttle counts
is the list of what was compared, and `WindowCounts` says that one more time adds
one at most to a window.

### Access

`KioskAccess_proofs` proves, for any number of requests, origins, retries,
links, any budget and any window: `BudgetHolds` (`WindowBudget`),
`WindowsDoNotOverlap` (`WindowsApart`), `RefusedJustly` (`RefusedForCause`),
`OneEnrolment` (`EnrolledOnce`), `LatestIsAccepted` (`AcceptedIsLatest`) and
`SwitchStopsLinks` (`LinksStop`). Two invariants carry them: `AttemptInv`
relates the stored record of a key to what its window has admitted (the count is
exact for the window it names, nothing is admitted before it ends, a broken
record has admitted nothing) and `DeviceInv` the registry to the generations
handed out (no credential is ahead of the device, a pending link is unused and
younger than the last switch, and the copy a request holds is of an earlier
generation or has the device's own status).

### What stays with TLC

Every safety invariant and action property that a passing run checks is also a
theorem. What is only model-checked is liveness (`EndedIsFiled`, `Terminates`,
`CallEnds`, `BackToIdle`, `CallingEnds`): the prover has no rule for fairness and
`ENABLED`. `HopsRunOut` is the part of `Terminates` that can be proved. The theorems
under a condition (`Conditional`, `SerialSpec`, `NobodyDeclines`) say nothing
outside it, and the violations in section 3 show what happens there.

## 5. Assumptions and omissions

* A read sees the current record. DynamoDB's `Collection.get` is eventually
  consistent (`lib/data/dynamodb.ts` asks for strong reads of singletons only);
  older reads only widen the races above and cannot break what rests on `updateIf`.
* A hang-up sent by `/cancel` and `/give-up` reaches the provider; the
  violations do not depend on losing it. In `Abandon` it may fail.
* A webhook of a call whose record does not exist yet is refused, and the
  provider may send it again.
* Left out of the modelled parts: signature checks, regions, audit entries,
  times other than those named, `/call` over the mock adapter, the wording of
  announcements and errors.
* The assumptions on constants (`StoreAssumption`, `HopDialAssumption`, ...) say
  that sets are finite or disjoint, limits are numbers and policies have the
  shape of their TypeScript type (`PoliciesAssumption`); `PartsAssumption` of
  `CallSystem` repeats those of its parts.
* One reception, one reservation, one device: their records share nothing with
  those of others. The attempt windows, which origins share, are several.
* Clocks of two servers differ by `Skew` at most (`ATTEMPT_CLOCK_SKEW_MS`).

### Not modelled

* **Saves of settings by several administrators** (routing policies, operating
  policy, runtime policy, security settings, branding, signage, assets). Each
  reads one document and puts it back, most with a version; what a race costs is
  one save. `RoutingRun` and `HopDial` show that no stored policy set, cyclic
  ones included, makes a routing endless.
* **Privileged elevation and experience versions.** One administrator, one
  record, steps that follow one another.
* **Voice session, turns, transport, synthesis and recognition.** Their order is
  set by audio devices, a browser and a language model, none of which is under
  `src/`; a model would be mostly external.
* **Everything else under `src/`**: forms, rendering, translations, deployment,
  outgoing notifications, signatures. It has state, but no protocol in which
  two steps could meet in a wrong order.

The map covers a few per cent of the repository, because most of its lines are of
the last kind; of the parts listed as modelled it covers the control flow.

## 6. What could follow

The data backend's eventually consistent reads as a choice in `ReceptionStore`;
an abstract routing, as a sequence of dials, that `HopDial` implements; the
kiosk screen composed with `CallSystem` instead of the transition table;
concurrent saves of routing policies.
