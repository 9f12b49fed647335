--------------------------- MODULE VisitStay_proofs ---------------------------
(***************************************************************************)
(* Theorems about stays and checkout credentials, for any number of        *)
(* requests, stays and codes, any lifetime and any throttle.               *)
(***************************************************************************)
EXTENDS VisitStay, FiniteSetTheorems, TLAPS

Ended == {"checked_out", "cancelled"}

\* What a request that is under way has seen.
Holds(p) ==
    /\ op[p].at \in {"list", "create"} => op[p].target \in Receptions
    /\ op[p].at \in {"read", "put", "issue", "consume"} => op[p].target \in StayIds
    /\ op[p].at \in {"resolve", "consume"} => op[p].fn = "confirm"
    /\ op[p].at = "put" => stays[op[p].target].status # "none"
    /\ op[p].at = "consume" => stays[op[p].target].status \in Ended

\* The token of a confirmation is a credential of the stay it is about.
HasToken(p) ==
    op[p].fn = "confirm" /\ op[p].at \in {"read", "put", "consume"}
      => op[p].token \in DOMAIN credentials /\ credentials[op[p].token].stay = op[p].target

IInv == /\ TypeOK /\ NotLockedOut
        /\ \A p \in Requests : Holds(p) /\ HasToken(p)

USE TimesAssumption, BoundsAssumption, NoneAssumption

-----------------------------------------------------------------------------
LEMMA FreeOps == Free \in Ops
BY DEF Free, Ops

\* A step of a request replaces its progress.
LEMMA OpReplaced ==
    ASSUME op \in [Requests -> Ops], NEW p \in Requests, NEW o \in Ops,
           op' = [op EXCEPT ![p] = o]
    PROVE  /\ op' \in [Requests -> Ops]
           /\ op'[p] = o
           /\ \A q \in Requests : q # p => op'[q] = op[q]
OBVIOUS

\* A credential that is issued goes behind the others.
LEMMA Appended ==
    ASSUME credentials \in Seq(Credentials), NEW c \in Credentials,
           credentials' = Append(credentials, c)
    PROVE  /\ credentials' \in Seq(Credentials)
           /\ DOMAIN credentials' = DOMAIN credentials \cup {Len(credentials) + 1}
           /\ Len(credentials) + 1 \notin DOMAIN credentials
           /\ credentials'[Len(credentials) + 1] = c
           /\ \A i \in DOMAIN credentials : credentials'[i] = credentials[i]
OBVIOUS

\* A credential that is consumed is otherwise as it was.
LEMMA Consumed ==
    ASSUME credentials \in Seq(Credentials), NEW i \in DOMAIN credentials,
           credentials' = [credentials EXCEPT ![i].status = "consumed"]
    PROVE  /\ credentials' \in Seq(Credentials)
           /\ DOMAIN credentials' = DOMAIN credentials
           /\ credentials'[i].status = "consumed"
           /\ \A j \in DOMAIN credentials : /\ credentials'[j].stay = credentials[j].stay
                                            /\ credentials'[j].code = credentials[j].code
                                            /\ credentials'[j].expires = credentials[j].expires
                                            /\ j # i => credentials'[j] = credentials[j]
<1>1. credentials[i] \in Credentials
  OBVIOUS
<1>2. [credentials[i] EXCEPT !.status = "consumed"] \in Credentials
  BY <1>1 DEF Credentials
<1>3. credentials' = [credentials EXCEPT ![i] = [credentials[i] EXCEPT !.status = "consumed"]]
  OBVIOUS
<1>4. credentials'[i] = [credentials[i] EXCEPT !.status = "consumed"]
  BY <1>3
<1>5. \A j \in DOMAIN credentials : credentials[j] \in Credentials
  OBVIOUS
<1>6. credentials' \in Seq(Credentials) /\ DOMAIN credentials' = DOMAIN credentials
  BY <1>2, <1>3
<1>7. \A j \in DOMAIN credentials : j # i => credentials'[j] = credentials[j]
  BY <1>3
<1> QED BY <1>1, <1>4, <1>5, <1>6, <1>7 DEF Credentials

\* A stay that ends is a stay.
LEMMA StayEnds ==
    ASSUME NEW v \in Stays, NEW status \in Ended, NEW out \in Times \cup {None}
    PROVE  /\ [v EXCEPT !.status = status, !.out = out] \in Stays
           /\ [v EXCEPT !.status = status, !.out = out].status = status
BY DEF Stays, Ended

LEMMA InitInv == Init => IInv
<1> SUFFICES ASSUME Init PROVE IInv
  OBVIOUS
<1>1. op \in [Requests -> Ops] /\ \A p \in Requests : op[p].at = "done"
  BY FreeOps DEF Init, Free
<1>2. stays \in [StayIds -> Stays]
  BY DEF Init, NoStay, Stays
<1>3. TypeOK
  BY <1>1, <1>2 DEF Init, TypeOK, Times
<1>4. NotLockedOut
  BY DEF Init, NotLockedOut
<1> QED BY <1>1, <1>3, <1>4 DEF IInv, Holds, HasToken

\* A request that goes on or ends touches nothing but its progress.
LEMMA ProgressKeeps ==
    ASSUME IInv, NEW p \in Requests, NEW o \in Ops, op' = [op EXCEPT ![p] = o],
           UNCHANGED <<stays, credentials>>, Holds(p)', HasToken(p)'
    PROVE  /\ op' \in [Requests -> Ops]
           /\ NotLockedOut' /\ \A q \in Requests : Holds(q)' /\ HasToken(q)'
<1>1. op' \in [Requests -> Ops] /\ \A q \in Requests : q # p => op'[q] = op[q]
  BY OpReplaced DEF IInv, TypeOK
<1>2. NotLockedOut'
  BY DEF IInv, NotLockedOut
<1>3. \A q \in Requests : q # p => Holds(q)' /\ HasToken(q)'
  BY <1>1 DEF IInv, Holds, HasToken
<1> QED BY <1>1, <1>2, <1>3

\* A step that only moves a request between two points keeps the invariant.
LEMMA MoveKeeps ==
    ASSUME IInv, NEW p \in Requests, NEW o \in Ops, op' = [op EXCEPT ![p] = o],
           UNCHANGED <<now, stays, memory>>, Holds(p)', HasToken(p)'
    PROVE  IInv'
<1>1. op' \in [Requests -> Ops] /\ NotLockedOut' /\ \A q \in Requests : Holds(q)' /\ HasToken(q)'
  BY ProgressKeeps DEF memory
<1> QED BY <1>1 DEF IInv, TypeOK, memory

\* A comparison of a code records times.
LEMMA CompareTyped ==
    ASSUME TypeOK, NEW k, NEW right, Compare(k, right)
    PROVE  failures' \in Seq(Times) /\ compared' \in Seq(Times)
<1>1. CASE Recognized(k, right) = {}
  <2>1. Append(failures, now) \in Seq(Times) /\ Append(compared, now) \in Seq(Times)
    BY DEF TypeOK
  <2> QED BY <1>1, <2>1 DEF Compare, RecordFailure
<1>2. CASE Recognized(k, right) # {}
  BY <1>2 DEF Compare, TypeOK
<1> QED BY <1>1, <1>2

LEMMA NextInv == IInv /\ [Next]_vars => IInv'
<1> SUFFICES ASSUME IInv, [Next]_vars PROVE IInv'
  OBVIOUS
<1>0. /\ TypeOK /\ op \in [Requests -> Ops] /\ credentials \in Seq(Credentials)
      /\ \A p \in Requests : op[p] \in Ops /\ Holds(p) /\ HasToken(p)
      /\ \A s \in StayIds : stays[s] \in Stays
      /\ \A i \in DOMAIN credentials : credentials[i] \in Credentials
  BY DEF IInv, TypeOK
<1>1. ASSUME NEW p \in Requests, NEW fn, NEW at, NEW t, Begin(p, fn, at, t),
             [fn |-> fn, at |-> at, target |-> t, token |-> None] \in Ops,
             at \in {"list", "create"} => t \in Receptions, at = "read" => t \in StayIds,
             at \in {"list", "read", "resolve"}, at = "read" => fn # "confirm",
             at = "resolve" => fn = "confirm"
      PROVE  IInv'
  <2> DEFINE o == [fn |-> fn, at |-> at, target |-> t, token |-> None]
  <2>1. op' = [op EXCEPT ![p] = o] /\ UNCHANGED <<now, stays, memory>>
    BY <1>1 DEF Begin
  <2>2. op'[p] = o
    BY <1>0, <2>1
  <2>3. Holds(p)' /\ HasToken(p)'
    BY <1>1, <2>2 DEF Holds, HasToken
  <2>4. o \in Ops
    BY <1>1
  <2> HIDE DEF o
  <2> QED BY <2>1, <2>3, <2>4, MoveKeeps
<1>2. ASSUME NEW p \in Requests, Arrive(p) PROVE IInv'
  <2>1. ASSUME NEW r \in Receptions, Begin(p, "stay", "list", r) PROVE IInv'
    <3>1. [fn |-> "stay", at |-> "list", target |-> r, token |-> None] \in Ops
      BY DEF Ops
    <3> QED BY <1>1, <2>1, <3>1
  <2>2. ASSUME NEW s \in StayIds, NEW fn \in {"checkout", "cancel", "issue"},
               Begin(p, fn, "read", s)
        PROVE  IInv'
    <3>1. [fn |-> fn, at |-> "read", target |-> s, token |-> None] \in Ops
      BY DEF Ops
    <3> QED BY <1>1, <2>2, <3>1
  <2>3. CASE Begin(p, "confirm", "resolve", None)
    <3>1. [fn |-> "confirm", at |-> "resolve", target |-> None, token |-> None] \in Ops
      BY DEF Ops
    <3> QED BY <1>1, <2>3, <3>1
  <2> QED BY <1>2, <2>1, <2>2, <2>3 DEF Arrive
<1>3. ASSUME NEW p \in Requests, Ends(p), UNCHANGED <<now, stays, memory>> PROVE IInv'
  <2>1. op'[p] = Free
    BY <1>0, <1>3 DEF Ends
  <2>2. Holds(p)' /\ HasToken(p)'
    BY <2>1 DEF Holds, HasToken, Free
  <2> QED BY <1>3, <2>2, FreeOps, MoveKeeps DEF Ends
<1>4. ASSUME NEW p \in Requests, ListPresent(p) PROVE IInv'
  <2>1. CASE Ends(p)
    BY <1>3, <1>4, <2>1 DEF ListPresent
  <2>2. CASE Moves(p, "create")
    <3> DEFINE o == [op[p] EXCEPT !.at = "create"]
    <3>1. o \in Ops /\ op' = [op EXCEPT ![p] = o]
      BY <1>0, <2>2 DEF Moves, Ops
    <3>2. op'[p] = o /\ op[p].target \in Receptions
      BY <1>0, <1>4, <3>1 DEF ListPresent, Holds
    <3>3. Holds(p)' /\ HasToken(p)'
      BY <1>0, <3>2 DEF Holds, HasToken, Ops
    <3> HIDE DEF o
    <3> QED BY <1>4, <3>1, <3>3, MoveKeeps DEF ListPresent
  <2> QED BY <1>4, <2>1, <2>2 DEF ListPresent
<1>5. ASSUME NEW p \in Requests, Create(p) PROVE IInv'
  <2>1. op'[p] = Free /\ op' \in [Requests -> Ops] /\ \A q \in Requests : q # p => op'[q] = op[q]
    BY <1>0, <1>5, FreeOps, OpReplaced DEF Create, Ends
  <2>2. PICK s \in StayIds :
          /\ stays[s].status = "none"
          /\ stays' = [stays EXCEPT ![s] = [status |-> "present", reception |-> op[p].target,
                                            out |-> None]]
    BY <1>5 DEF Create
  <2>3. op[p].target \in Receptions
    BY <1>0, <1>5 DEF Create, Holds
  <2>4. [status |-> "present", reception |-> op[p].target, out |-> None] \in Stays
    BY <2>3 DEF Stays
  <2>5. stays' \in [StayIds -> Stays] /\ stays'[s].status = "present"
        /\ \A u \in StayIds : u # s => stays'[u] = stays[u]
    BY <1>0, <2>2, <2>4 DEF TypeOK
  <2>6. UNCHANGED <<now, memory>>
    BY <1>5 DEF Create
  <2>7. TypeOK'
    BY <1>0, <2>1, <2>5, <2>6 DEF TypeOK, memory
  <2>8. NotLockedOut'
    <3>1. \A i \in DOMAIN credentials : credentials[i].stay \in StayIds
      BY <1>0 DEF Credentials
    <3> QED BY <2>2, <2>5, <2>6, <3>1 DEF IInv, NotLockedOut, memory
  <2>9. \A q \in Requests : Holds(q)' /\ HasToken(q)'
    <3>1. Holds(p)' /\ HasToken(p)'
      BY <2>1 DEF Holds, HasToken, Free
    <3>2. ASSUME NEW q \in Requests, q # p PROVE Holds(q)' /\ HasToken(q)'
      BY <1>0, <2>1, <2>2, <2>5, <2>6, <3>2 DEF Holds, HasToken, memory, Ended
    <3> QED BY <3>1, <3>2
  <2> QED BY <2>7, <2>8, <2>9 DEF IInv
<1>6. ASSUME NEW p \in Requests, Read(p) PROVE IInv'
  <2>1. CASE Ends(p)
    BY <1>3, <1>6, <2>1 DEF Read
  <2>2. ASSUME NEW at \in {"issue", "put"}, Moves(p, at), stays[op[p].target].status = "present"
        PROVE  IInv'
    <3> DEFINE o == [op[p] EXCEPT !.at = at]
    <3>1. o \in Ops /\ op' = [op EXCEPT ![p] = o]
      BY <1>0, <2>2 DEF Moves, Ops
    <3>2. op'[p] = o /\ op[p].target \in StayIds
      BY <1>0, <1>6, <3>1 DEF Read, Holds
    <3>3. UNCHANGED <<stays, credentials>> /\ op[p].at = "read"
      BY <1>6 DEF Read, memory
    <3>4. op'[p].at = at /\ op'[p].fn = op[p].fn /\ op'[p].target = op[p].target
          /\ op'[p].token = op[p].token
      BY <1>0, <3>2 DEF Ops
    <3>5. Holds(p)'
      BY <2>2, <3>2, <3>3, <3>4 DEF Holds
    <3>6. HasToken(p)'
      BY <1>0, <3>3, <3>4 DEF HasToken
    <3> HIDE DEF o
    <3> QED BY <1>6, <3>1, <3>5, <3>6, MoveKeeps DEF Read
  <2> QED BY <1>6, <2>1, <2>2 DEF Read
<1>7. ASSUME NEW p \in Requests, Put(p) PROVE IInv'
  <2> DEFINE s == op[p].target
             status == IF op[p].fn = "cancel" THEN "cancelled" ELSE "checked_out"
             out == IF op[p].fn = "cancel" THEN None ELSE now
             v == [stays[s] EXCEPT !.status = status, !.out = out]
  <2>1. s \in StayIds /\ op[p].at = "put"
    BY <1>0, <1>7 DEF Put, Holds
  <2>2. v \in Stays /\ v.status \in Ended
    <3>1. stays[s] \in Stays /\ now \in Times
      BY <1>0, <2>1 DEF TypeOK
    <3> HIDE DEF s
    <3>2. status \in Ended /\ out \in Times \cup {None}
      BY <3>1 DEF Ended
    <3> HIDE DEF status, out
    <3> QED BY <3>1, <3>2, StayEnds
  <2>3. stays' = [stays EXCEPT ![s] = v]
    BY <1>0, <1>7, <2>1 DEF Put, TypeOK
  <2>4. UNCHANGED <<now, memory>>
    BY <1>7 DEF Put
  <2>5. stays' \in [StayIds -> Stays] /\ stays'[s].status \in Ended
        /\ \A u \in StayIds : u # s => stays'[u] = stays[u]
    <3> HIDE DEF v
    <3> QED BY <1>0, <2>1, <2>2, <2>3 DEF TypeOK
  <2>6. \/ op[p].fn = "confirm" /\ op' = [op EXCEPT ![p] = [op[p] EXCEPT !.at = "consume"]]
        \/ op' = [op EXCEPT ![p] = Free]
    BY <1>0, <1>7 DEF Put, Moves, Ends
  <2>7. [op[p] EXCEPT !.at = "consume"] \in Ops
    BY <1>0 DEF Ops
  <2>8. op' \in [Requests -> Ops] /\ \A q \in Requests : q # p => op'[q] = op[q]
    BY <1>0, <2>6, <2>7, FreeOps, OpReplaced
  <2>9. Holds(p)' /\ HasToken(p)'
    <3>1. CASE op[p].fn = "confirm" /\ op' = [op EXCEPT ![p] = [op[p] EXCEPT !.at = "consume"]]
      <4>1. op'[p].at = "consume" /\ op'[p].fn = "confirm" /\ op'[p].target = s
            /\ op'[p].token = op[p].token
        BY <1>0, <3>1 DEF Ops
      <4>2. op[p].token \in DOMAIN credentials /\ credentials[op[p].token].stay = s
        BY <1>0, <2>1, <3>1 DEF HasToken
      <4> HIDE DEF s, v
      <4> QED BY <2>1, <2>4, <2>5, <4>1, <4>2 DEF Holds, HasToken, memory
    <3>2. CASE op' = [op EXCEPT ![p] = Free]
      <4>1. op'[p] = Free
        BY <1>0, <3>2
      <4> QED BY <4>1 DEF Holds, HasToken, Free
    <3> QED BY <2>6, <3>1, <3>2
  <2> HIDE DEF s, v
  <2>10. ASSUME NEW q \in Requests, q # p PROVE Holds(q)' /\ HasToken(q)'
    <3>1. op'[q] = op[q] /\ Holds(q) /\ HasToken(q)
      BY <1>0, <2>8, <2>10
    <3> QED BY <2>1, <2>4, <2>5, <3>1 DEF Holds, HasToken, memory, Ended
  <2>11. TypeOK'
    BY <1>0, <2>4, <2>5, <2>8 DEF TypeOK, memory
  <2>12. NotLockedOut'
    <3>1. \A i \in DOMAIN credentials : credentials[i].stay \in StayIds
      BY <1>0 DEF Credentials
    <3> QED BY <2>1, <2>4, <2>5, <3>1 DEF IInv, NotLockedOut, memory, Ended
  <2> QED BY <2>9, <2>10, <2>11, <2>12 DEF IInv
<1>8. ASSUME NEW p \in Requests, Issue(p) PROVE IInv'
  <2>1. op'[p] = Free /\ op' \in [Requests -> Ops] /\ \A q \in Requests : q # p => op'[q] = op[q]
    BY <1>0, <1>8, FreeOps, OpReplaced DEF Issue, Ends
  <2>2. CASE UNCHANGED credentials
    <3>1. UNCHANGED <<now, stays, memory>> /\ Ends(p)
      BY <1>8, <2>2 DEF Issue, memory
    <3> QED BY <1>3, <3>1
  <2>3. ASSUME NEW k \in Fresh,
               credentials' = Append(credentials, [code |-> k, stay |-> op[p].target,
                                                   expires |-> now + Ttl, status |-> "active"])
        PROVE  IInv'
    <3> DEFINE c == [code |-> k, stay |-> op[p].target, expires |-> now + Ttl, status |-> "active"]
    <3>1. c \in Credentials
      BY <1>0, <1>8 DEF Issue, Holds, Fresh, Credentials, TypeOK, Times
    <3>2. c.status = "active"
      OBVIOUS
    <3> HIDE DEF c
    <3>3. /\ credentials' \in Seq(Credentials)
          /\ DOMAIN credentials' = DOMAIN credentials \cup {Len(credentials) + 1}
          /\ credentials'[Len(credentials) + 1].status = "active"
          /\ \A i \in DOMAIN credentials : credentials'[i] = credentials[i]
      BY <1>0, <2>3, <3>1, <3>2, Appended DEF c
    <3>4. UNCHANGED <<now, stays, failures, compared>>
      BY <1>8 DEF Issue
    <3>5. TypeOK'
      BY <1>0, <2>1, <3>3, <3>4 DEF TypeOK
    <3>6. NotLockedOut'
      BY <3>3, <3>4 DEF IInv, NotLockedOut
    <3>7. Holds(p)' /\ HasToken(p)'
      BY <2>1 DEF Holds, HasToken, Free
    <3>8. ASSUME NEW q \in Requests, q # p PROVE Holds(q)' /\ HasToken(q)'
      BY <1>0, <2>1, <3>3, <3>4, <3>8 DEF Holds, HasToken
    <3> QED BY <3>5, <3>6, <3>7, <3>8 DEF IInv
  <2> QED BY <1>8, <2>2, <2>3 DEF Issue
<1>9. ASSUME NEW p \in Requests, NEW i \in DOMAIN credentials, ResolvedFor(p, i),
             op[p].at = "resolve", UNCHANGED <<now, stays, credentials>>,
             failures' \in Seq(Times), compared' \in Seq(Times)
      PROVE  IInv'
  <2> DEFINE o == [op[p] EXCEPT !.at = "read", !.target = credentials[i].stay, !.token = i]
  <2>1. op' = [op EXCEPT ![p] = o]
    BY <1>0, <1>9 DEF ResolvedFor
  <2>2. i \in Nat /\ credentials[i].stay \in StayIds
    BY <1>0 DEF Credentials
  <2>3. o \in Ops
    BY <1>0, <2>2 DEF Ops
  <2>4. op'[p] = o
    BY <1>0, <2>1
  <2>5. op'[p].at = "read" /\ op'[p].target = credentials[i].stay /\ op'[p].token = i
    BY <1>0, <2>4 DEF Ops
  <2>6. Holds(p)' /\ HasToken(p)'
    BY <1>9, <2>2, <2>5 DEF Holds, HasToken
  <2> HIDE DEF o
  <2>7. op' \in [Requests -> Ops] /\ NotLockedOut' /\ \A q \in Requests : Holds(q)' /\ HasToken(q)'
    BY <1>9, <2>1, <2>3, <2>6, ProgressKeeps
  <2> QED BY <1>0, <1>9, <2>7 DEF IInv, TypeOK
<1>10. ASSUME NEW p \in Requests, Ends(p), UNCHANGED <<now, stays, credentials>>,
              failures' \in Seq(Times), compared' \in Seq(Times)
       PROVE  IInv'
  <2>1. op'[p] = Free
    BY <1>0, <1>10 DEF Ends
  <2>2. Holds(p)' /\ HasToken(p)'
    BY <2>1 DEF Holds, HasToken, Free
  <2>3. op' \in [Requests -> Ops] /\ NotLockedOut' /\ \A q \in Requests : Holds(q)' /\ HasToken(q)'
    BY <1>10, <2>2, FreeOps, ProgressKeeps DEF Ends
  <2> QED BY <1>0, <1>10, <2>3 DEF IInv, TypeOK
<1>11. ASSUME NEW p \in Requests, ByToken(p) PROVE IInv'
  BY <1>0, <1>9, <1>10, <1>11 DEF ByToken, KeptUntilDone, TypeOK
<1>12. ASSUME NEW p \in Requests, ByCode(p) PROVE IInv'
  <2>1. PICK k \in Codes, right \in BOOLEAN :
          IF Throttled THEN Ends(p) /\ UNCHANGED memory
          ELSE /\ Compare(k, right)
               /\ IF Recognized(k, right) = {} THEN Ends(p) /\ UNCHANGED credentials
                  ELSE \E i \in Recognized(k, right) : ResolvedFor(p, i) /\ KeptUntilDone(p, i)
    BY <1>12 DEF ByCode
  <2>2. UNCHANGED <<now, stays>> /\ op[p].at = "resolve"
    BY <1>12 DEF ByCode
  <2>3. CASE Throttled
    BY <1>3, <2>1, <2>2, <2>3
  <2>4. CASE ~Throttled
    <3>1. failures' \in Seq(Times) /\ compared' \in Seq(Times)
      BY <1>0, <2>1, <2>4, CompareTyped
    <3>2. CASE Recognized(k, right) = {}
      BY <1>10, <2>1, <2>2, <2>4, <3>1, <3>2
    <3>3. CASE Recognized(k, right) # {}
      <4>1. PICK i \in Recognized(k, right) : ResolvedFor(p, i) /\ KeptUntilDone(p, i)
        BY <2>1, <2>4, <3>3
      <4>2. i \in DOMAIN credentials
        BY DEF Recognized, Matching
      <4> QED BY <1>9, <2>2, <3>1, <4>1, <4>2 DEF KeptUntilDone
    <3> QED BY <3>2, <3>3
  <2> QED BY <2>3, <2>4
<1>13. ASSUME NEW p \in Requests, Consume(p) PROVE IInv'
  <2>1. op'[p] = Free /\ op' \in [Requests -> Ops] /\ \A q \in Requests : q # p => op'[q] = op[q]
    BY <1>0, <1>13, FreeOps, OpReplaced DEF Consume, Ends
  <2>2. /\ op[p].token \in DOMAIN credentials /\ credentials[op[p].token].stay = op[p].target
        /\ stays[op[p].target].status \in Ended
    BY <1>0, <1>13 DEF Consume, Holds, HasToken
  <2>3. UNCHANGED <<now, stays, failures, compared>>
        /\ credentials' = [credentials EXCEPT ![op[p].token].status = "consumed"]
    BY <1>13 DEF Consume
  <2>4. /\ credentials' \in Seq(Credentials) /\ DOMAIN credentials' = DOMAIN credentials
        /\ \A j \in DOMAIN credentials : /\ credentials'[j].stay = credentials[j].stay
                                         /\ j # op[p].token => credentials'[j] = credentials[j]
    BY <1>0, <2>2, <2>3, Consumed
  <2>5. TypeOK'
    BY <1>0, <2>1, <2>3, <2>4 DEF TypeOK
  <2>6. NotLockedOut'
    BY <2>2, <2>3, <2>4 DEF IInv, NotLockedOut, Ended
  <2>7. Holds(p)' /\ HasToken(p)'
    BY <2>1 DEF Holds, HasToken, Free
  <2>8. ASSUME NEW q \in Requests, q # p PROVE Holds(q)' /\ HasToken(q)'
    BY <1>0, <2>1, <2>3, <2>4, <2>8 DEF Holds, HasToken
  <2> QED BY <2>5, <2>6, <2>7, <2>8 DEF IInv
<1>14. ASSUME NEW p \in Requests, Fail(p) PROVE IInv'
  BY <1>3, <1>14 DEF Fail
<1>15. CASE LookUp
  <2>1. failures' \in Seq(Times) /\ compared' \in Seq(Times)
    BY <1>0, <1>15, CompareTyped DEF LookUp
  <2>2. UNCHANGED <<now, stays, credentials, op>>
    BY <1>15 DEF LookUp
  <2> QED BY <2>1, <2>2 DEF IInv, TypeOK, NotLockedOut, Holds, HasToken
<1>16. CASE Restart
  <2>1. op' \in [Requests -> Ops] /\ \A p \in Requests : op'[p].at = "done"
    BY <1>16, FreeOps DEF Restart, Free
  <2>2. TypeOK'
    BY <1>0, <1>16, <2>1 DEF Restart, TypeOK
  <2> QED BY <1>16, <2>1, <2>2 DEF IInv, NotLockedOut, Holds, HasToken, Restart
<1>17. CASE Tick
  BY <1>17 DEF Tick, IInv, TypeOK, Times, NotLockedOut, Holds, HasToken, memory
<1>18. CASE UNCHANGED vars
  BY <1>18 DEF vars, memory, IInv, TypeOK, NotLockedOut, Holds, HasToken
<1> QED BY <1>2, <1>4, <1>5, <1>6, <1>7, <1>8, <1>11, <1>12, <1>13, <1>14, <1>15, <1>16, <1>17, <1>18
        DEF Next

-----------------------------------------------------------------------------
\* What is recorded as a failure is what was compared in vain.
Counted == compared = failures /\ GuessesBounded

\* A window holds finitely many times; one more time adds at most one.
LEMMA WindowCounts ==
    ASSUME NEW times \in Seq(Times), now \in Times
    PROVE  /\ InWindow(times) \in Nat
           /\ InWindow(Append(times, now)) <= InWindow(times) + 1
<1> DEFINE W(s) == {i \in DOMAIN s : s[i] + Window > now}
           n == Len(times) + 1
           more == Append(times, now)
<1>1. /\ DOMAIN times = 1 .. Len(times) /\ Len(times) \in Nat
      /\ DOMAIN more = DOMAIN times \cup {n}
      /\ \A i \in DOMAIN times : more[i] = times[i]
  OBVIOUS
<1>2. IsFiniteSet(W(times)) /\ Cardinality(W(times)) \in Nat
  <2>1. IsFiniteSet(DOMAIN times)
    BY <1>1, FS_Interval
  <2> QED BY <2>1, FS_Subset, FS_CardinalityType
<1>3. W(more) \subseteq W(times) \cup {n}
  BY <1>1
<1> HIDE DEF W, n, more
<1>4. IsFiniteSet(W(times) \cup {n}) /\ Cardinality(W(times) \cup {n}) <= Cardinality(W(times)) + 1
  <2>1. /\ IsFiniteSet(W(times) \cup {n})
        /\ Cardinality(W(times) \cup {n})
             = IF n \in W(times) THEN Cardinality(W(times)) ELSE Cardinality(W(times)) + 1
    BY <1>2, FS_AddElement
  <2>2. Cardinality(W(times) \cup {n}) \in {Cardinality(W(times)), Cardinality(W(times)) + 1}
    BY <2>1
  <2> QED BY <1>2, <2>1, <2>2
<1>5. Cardinality(W(more)) <= Cardinality(W(times) \cup {n}) /\ IsFiniteSet(W(more))
  BY <1>3, <1>4, FS_Subset
<1>6. Cardinality(W(more)) \in Nat /\ Cardinality(W(times) \cup {n}) \in Nat
  BY <1>4, <1>5, FS_CardinalityType
<1>7. Cardinality(W(more)) <= Cardinality(W(times)) + 1
  BY <1>2, <1>4, <1>5, <1>6
<1> QED BY <1>2, <1>7 DEF InWindow, W, more

\* A process that is not throttled may compare one more code.
LEMMA CompareCounts ==
    ASSUME TypeOK, Counted, ~Throttled, now' = now, NEW k, NEW right, Compare(k, right)
    PROVE  Counted'
<1>0. compared \in Seq(Times) /\ now \in Times /\ compared = failures
  BY DEF TypeOK, Counted
<1>1. CASE Recognized(k, right) = {}
  <2>1. compared' = Append(compared, now) /\ failures' = Append(failures, now)
    BY <1>1 DEF Compare, RecordFailure
  <2>2. InWindow(compared) \in Nat /\ InWindow(Append(compared, now)) <= InWindow(compared) + 1
    BY <1>0, WindowCounts
  <2>3. ~(InWindow(compared) >= ThrottleMax)
    BY <1>0 DEF Throttled
  <2>4. InWindow(Append(compared, now)) \in Nat
    <3>1. Append(compared, now) \in Seq(Times)
      BY <1>0
    <3> QED BY <1>0, <3>1, WindowCounts
  <2>5. InWindow(compared)' = InWindow(Append(compared, now))
    BY <2>1 DEF InWindow
  <2>6. InWindow(Append(compared, now)) <= ThrottleMax
    BY <2>2, <2>3, <2>4
  <2> QED BY <1>0, <2>1, <2>5, <2>6 DEF Counted, GuessesBounded
<1>2. CASE Recognized(k, right) # {}
  BY <1>2 DEF Compare, Counted, GuessesBounded, InWindow
<1> QED BY <1>1, <1>2

LEMMA CountsKept == TypeOK /\ Counted /\ [Next]_vars => Counted'
<1> SUFFICES ASSUME TypeOK, Counted, [Next]_vars PROVE Counted'
  OBVIOUS
<1>1. CASE UNCHANGED <<now, failures, compared>>
  BY <1>1 DEF Counted, GuessesBounded, InWindow
<1>2. ASSUME NEW p \in Requests, ByCode(p) PROVE Counted'
  <2>1. now' = now
    BY <1>2 DEF ByCode
  <2>2. CASE Throttled
    BY <1>1, <1>2, <2>1, <2>2 DEF ByCode, memory
  <2>3. CASE ~Throttled
    BY <1>2, <2>1, <2>3, CompareCounts DEF ByCode
  <2> QED BY <2>2, <2>3
<1>3. CASE LookUp
  BY <1>3, CompareCounts DEF LookUp
<1>4. CASE Restart
  <2>1. compared' = <<>> /\ failures' = <<>>
    BY <1>4 DEF Restart
  <2>2. InWindow(compared)' = Cardinality({})
    BY <2>1 DEF InWindow
  <2> QED BY <2>1, <2>2, FS_EmptySet DEF Counted, GuessesBounded
<1>5. CASE Tick
  <2> DEFINE W == {i \in DOMAIN compared : compared[i] + Window > now}
  <2>1. now' = now + 1 /\ UNCHANGED <<failures, compared>> /\ now \in Nat
    BY <1>5 DEF Tick, memory, TypeOK, Times
  <2>2. \A i \in DOMAIN compared : compared[i] \in Nat
    BY DEF TypeOK, Times
  <2>3. W' \subseteq W
    BY <2>1, <2>2
  <2>4. IsFiniteSet(DOMAIN compared)
    <3>1. DOMAIN compared = 1 .. Len(compared) /\ Len(compared) \in Nat
      BY DEF TypeOK
    <3> QED BY <3>1, FS_Interval
  <2>5. IsFiniteSet(W) /\ Cardinality(W) \in Nat
    BY <2>4, FS_Subset, FS_CardinalityType
  <2>6. InWindow(compared) = Cardinality(W) /\ InWindow(compared)' = Cardinality(W')
    BY DEF InWindow
  <2> HIDE DEF W
  <2>7. Cardinality(W') <= Cardinality(W) /\ Cardinality(W') \in Nat
    BY <2>3, <2>5, FS_Subset, FS_CardinalityType
  <2>8. Cardinality(W') <= ThrottleMax
    BY <2>5, <2>6, <2>7 DEF Counted, GuessesBounded
  <2> QED BY <2>1, <2>6, <2>8 DEF Counted, GuessesBounded
<1>6. ASSUME NEW p \in Requests,
             Arrive(p) \/ ListPresent(p) \/ Create(p) \/ Read(p) \/ Put(p) \/ Issue(p)
               \/ ByToken(p) \/ Consume(p) \/ Fail(p)
      PROVE  UNCHANGED <<now, failures, compared>>
  BY <1>6 DEF Arrive, Begin, ListPresent, Create, Read, Put, Issue, ByToken, Consume, Fail, memory
<1> QED BY <1>1, <1>2, <1>3, <1>4, <1>5, <1>6 DEF Next, vars

-----------------------------------------------------------------------------
\* A step of a credential, a look at a code or a move of time leaves at most
\* one credential that can be redeemed with a code.
LEMMA CodesStayApart == IInv /\ CodesDiffer /\ [Next]_vars => CodesDiffer'
<1> SUFFICES ASSUME IInv, CodesDiffer, [Next]_vars PROVE CodesDiffer'
  OBVIOUS
<1>0. /\ TypeOK /\ credentials \in Seq(Credentials) /\ op \in [Requests -> Ops]
      /\ \A p \in Requests : Holds(p) /\ HasToken(p)
      /\ \A i \in DOMAIN credentials : credentials[i] \in Credentials
  BY DEF IInv, TypeOK
<1>1. CASE UNCHANGED <<now, credentials>>
  BY <1>1 DEF CodesDiffer, Active, Expired
<1>2. ASSUME NEW p \in Requests, Issue(p) PROVE CodesDiffer'
  <2>1. CASE UNCHANGED credentials
    BY <1>1, <1>2, <2>1 DEF Issue
  <2>2. ASSUME NEW k \in Fresh,
               credentials' = Append(credentials, [code |-> k, stay |-> op[p].target,
                                                   expires |-> now + Ttl, status |-> "active"])
        PROVE  CodesDiffer'
    <3> DEFINE c == [code |-> k, stay |-> op[p].target, expires |-> now + Ttl, status |-> "active"]
               n == Len(credentials) + 1
    <3>1. c \in Credentials
      BY <1>0, <1>2 DEF Issue, Holds, Fresh, Credentials, TypeOK, Times
    <3>2. c.code = k
      OBVIOUS
    <3> HIDE DEF c
    <3>3. /\ DOMAIN credentials' = DOMAIN credentials \cup {n} /\ n \notin DOMAIN credentials
          /\ credentials'[n].code = k
          /\ \A i \in DOMAIN credentials : credentials'[i] = credentials[i]
      BY <1>0, <2>2, <3>1, <3>2, Appended DEF c
    <3>4. now' = now
      BY <1>2 DEF Issue
    <3> HIDE DEF n
    <3>5. \A i \in DOMAIN credentials :
            credentials'[i].code = k => ~Active(i)' \/ Expired(credentials[i])'
      BY <3>3, <3>4 DEF Fresh, Active, Expired
    <3>6. \A i \in DOMAIN credentials : /\ Active(i)' <=> Active(i)
                                        /\ Expired(credentials[i])' <=> Expired(credentials[i])
      BY <3>3, <3>4 DEF Active, Expired
    <3> QED BY <3>3, <3>4, <3>5, <3>6 DEF CodesDiffer, Active, Expired
  <2> QED BY <1>2, <2>1, <2>2 DEF Issue
<1>3. ASSUME NEW p \in Requests, Consume(p) PROVE CodesDiffer'
  <2>1. op[p].token \in DOMAIN credentials /\ now' = now
    BY <1>0, <1>3 DEF Consume, Holds, HasToken
  <2>2. /\ DOMAIN credentials' = DOMAIN credentials
        /\ credentials'[op[p].token].status = "consumed"
        /\ \A j \in DOMAIN credentials : /\ credentials'[j].code = credentials[j].code
                                         /\ credentials'[j].expires = credentials[j].expires
                                         /\ j # op[p].token => credentials'[j] = credentials[j]
    BY <1>0, <1>3, <2>1, Consumed DEF Consume
  <2> QED BY <2>1, <2>2 DEF CodesDiffer, Active, Expired
<1>4. CASE Restart
  BY <1>4 DEF Restart, CodesDiffer
<1>5. CASE Tick
  <2>1. now' = now + 1 /\ credentials' = credentials /\ now \in Nat
    BY <1>0, <1>5 DEF Tick, memory, TypeOK, Times
  <2>2. \A i \in DOMAIN credentials : Expired(credentials[i]) => Expired(credentials[i])'
    BY <1>0, <2>1 DEF Expired, Credentials
  <2> QED BY <2>1, <2>2 DEF CodesDiffer, Active
<1>6. ASSUME NEW p \in Requests, ByToken(p) \/ ByCode(p) PROVE UNCHANGED <<now, credentials>>
  BY <1>6 DEF ByToken, ByCode, KeptUntilDone, memory
<1>7. ASSUME NEW p \in Requests,
             Arrive(p) \/ ListPresent(p) \/ Create(p) \/ Read(p) \/ Put(p) \/ Fail(p)
      PROVE  UNCHANGED <<now, credentials>>
  BY <1>7 DEF Arrive, Begin, ListPresent, Create, Read, Put, Fail, memory
<1> QED BY <1>1, <1>2, <1>3, <1>4, <1>5, <1>6, <1>7 DEF Next, LookUp, vars, memory

\* A stay is created under an id that is free and stored again only as ended.
LEMMA StaysEnded ==
    ASSUME IInv, [Next]_vars, NEW s \in StayIds, stays[s].status \in Ended
    PROVE  stays'[s].status \notin {"none", "present"}
<1>0. \A p \in Requests : Holds(p) /\ stays \in [StayIds -> Stays]
  BY DEF IInv, TypeOK
<1>1. ASSUME NEW p \in Requests, Put(p) PROVE stays'[s].status \notin {"none", "present"}
  <2>1. op[p].target \in StayIds
    BY <1>0, <1>1 DEF Put, Holds
  <2> QED BY <1>0, <1>1, <2>1 DEF Put, Ended, Stays
<1>2. ASSUME NEW p \in Requests, Create(p) PROVE stays'[s].status \notin {"none", "present"}
  BY <1>0, <1>2 DEF Create, Ended
<1>3. CASE UNCHANGED stays
  BY <1>3 DEF Ended
<1>4. ASSUME NEW p \in Requests,
             Arrive(p) \/ ListPresent(p) \/ Read(p) \/ Issue(p) \/ ByToken(p) \/ ByCode(p)
               \/ Consume(p) \/ Fail(p)
      PROVE  UNCHANGED stays
  BY <1>4 DEF Arrive, Begin, ListPresent, Read, Issue, ByToken, ByCode, Consume, Fail
<1> QED BY <1>1, <1>2, <1>3, <1>4 DEF Next, LookUp, Restart, Tick, vars

LEMMA SpecInv == Spec => []IInv
<1> QED BY InitInv, NextInv, PTL DEF Spec

\* The requests and the memory of a process keep their types.
THEOREM TypeCorrect == Spec => []TypeOK
<1>1. IInv => TypeOK
  BY DEF IInv
<1> QED BY <1>1, SpecInv, PTL

\* A credential is consumed only for a stay that has ended, however many
\* requests fail half way (checkout/confirm/route.ts).
THEOREM NobodyLockedOut == Spec => []NotLockedOut
<1>1. IInv => NotLockedOut
  BY DEF IInv
<1> QED BY <1>1, SpecInv, PTL

\* No two credentials that can be redeemed share a code (freshCode).
THEOREM OneVisitorPerCode == Spec => []CodesDiffer
<1>1. Init => CodesDiffer
  BY DEF Init, CodesDiffer
<1> QED BY <1>1, SpecInv, CodesStayApart, PTL DEF Spec

\* However the requests overlap and whenever the process restarts, it has
\* compared at most ThrottleMax wrong codes within a window
\* (isCodeThrottled before every comparison of a code).
THEOREM GuessesAreFew == Spec => []GuessesBounded
<1>1. Init => Counted
  <2> SUFFICES ASSUME Init PROVE Counted
    OBVIOUS
  <2>1. compared = <<>> /\ failures = <<>>
    BY DEF Init
  <2>2. InWindow(compared) = Cardinality({})
    BY <2>1 DEF InWindow
  <2> QED BY <2>1, <2>2, FS_EmptySet DEF Counted, GuessesBounded
<1>2. IInv => TypeOK
  BY DEF IInv
<1>3. Counted => GuessesBounded
  BY DEF Counted
<1> QED BY <1>1, <1>2, <1>3, SpecInv, CountsKept, PTL DEF Spec

\* A stay that has ended is never present again (checkOut, cancelStay).
THEOREM EndIsFinal == Spec => NeverBack
<1>1. IInv /\ [Next]_vars => [\A s \in StayIds : stays[s].status \in {"checked_out", "cancelled"}
                                 => stays'[s].status \notin {"none", "present"}]_vars
  BY StaysEnded DEF Ended
<1> QED BY <1>1, SpecInv, PTL DEF Spec, NeverBack
=============================================================================
