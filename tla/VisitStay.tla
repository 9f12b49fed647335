------------------------------ MODULE VisitStay ------------------------------
(***************************************************************************)
(* The visitors who are in the house, and the credentials with which they  *)
(* check out at a terminal: StayService and KioskStayService over the      *)
(* stored stays, and the CheckoutCredentialService of one server process,  *)
(* which keeps its credentials and its count of failed codes in memory.    *)
(*                                                                         *)
(* A request is a process; each call of the backend is a step.             *)
(***************************************************************************)
EXTENDS Naturals, Sequences, FiniteSets

CONSTANTS
    Receptions,      \* completed receptions that somebody answered
    StayIds,         \* the ids that may be drawn
    Requests,        \* the requests that run at a time
    Codes,           \* the code space, 10 ^ CHECKOUT_CODE_LENGTH
    MaxTime,         \* bound: the time that is explored
    MaxCredentials,  \* bound: the credentials that one process issues
    Ttl,             \* ttlMs
    Window,          \* codeThrottleWindowMs
    ThrottleMax,     \* codeThrottleMax
    None

ASSUME TimesAssumption == MaxTime \in Nat /\ Ttl \in Nat \ {0} /\ Window \in Nat \ {0}
ASSUME BoundsAssumption == MaxCredentials \in Nat \ {0} /\ ThrottleMax \in Nat \ {0}
ASSUME NoneAssumption == None \notin Receptions \cup StayIds \cup Nat

VARIABLES
    now,
    stays,         \* the stored stays
    credentials,   \* byToken, in the order of insertion; a token is its position
    failures,      \* codeFailures: when a failed code was recorded
    compared,      \* when a code was compared in vain (not in the code)
    op             \* the requests

vars == <<now, stays, credentials, failures, compared, op>>
memory == <<credentials, failures, compared>>

Times == 0 .. MaxTime
NoStay == [status |-> "none", reception |-> None, out |-> None]
Free == [fn |-> "none", at |-> "done", target |-> None, token |-> None]

Init == /\ now = 0
        /\ stays = [s \in StayIds |-> NoStay]
        /\ credentials = <<>> /\ failures = <<>> /\ compared = <<>>
        /\ op = [p \in Requests |-> Free]

-----------------------------------------------------------------------------
\* The credentials.

Expired(c) == c.expires <= now
Active(i) == credentials[i].status = "active"

FreshAny == Codes         \* mutant: a code is drawn without a look at the others

\* freshCode: a code no credential of the site can be redeemed with.
Fresh == {k \in Codes : \A i \in DOMAIN credentials :
                          credentials[i].code = k => ~Active(i) \/ Expired(credentials[i])}

\* matchCode takes the first active credential with the code, expired or not.
Matching(code) == {i \in DOMAIN credentials : credentials[i].code = code /\ Active(i)}

\* prunedFailures keeps what is younger than the window.
InWindow(times) == Cardinality({i \in DOMAIN times : times[i] + Window > now})

Throttled == InWindow(failures) >= ThrottleMax

\* The credential a code is redeemed for; right: the label fits, too.
Recognized(code, right) ==
    {i \in Matching(code) : /\ right /\ ~Expired(credentials[i])
                            /\ \A j \in Matching(code) : i <= j}

RecordsWrong(code) ==     \* mutant: only a code nobody holds counts as a failure
    failures' = IF Matching(code) = {} THEN Append(failures, now) ELSE failures

RecordFailure(code) == failures' = Append(failures, now)

Compare(code, right) ==
    IF Recognized(code, right) = {}
    THEN RecordFailure(code) /\ compared' = Append(compared, now)
    ELSE UNCHANGED <<failures, compared>>

-----------------------------------------------------------------------------
\* The requests.

Moves(p, at) == op' = [op EXCEPT ![p].at = at]
Ends(p) == op' = [op EXCEPT ![p] = Free]

Begin(p, fn, at, target) ==
    /\ op[p] = Free
    /\ op' = [op EXCEPT ![p] = [fn |-> fn, at |-> at, target |-> target, token |-> None]]
    /\ UNCHANGED <<now, stays, memory>>

Arrive(p) == \/ \E r \in Receptions : Begin(p, "stay", "list", r)
             \/ \E s \in StayIds, fn \in {"checkout", "cancel", "issue"} :
                  stays[s].status # "none" /\ Begin(p, fn, "read", s)
             \/ Begin(p, "confirm", "resolve", None)

\* createPresentForReception: the present stay of the reception, or a new one.
ListPresent(p) ==
    /\ op[p].at = "list"
    /\ IF \E s \in StayIds : stays[s].status = "present" /\ stays[s].reception = op[p].target
       THEN Ends(p) ELSE Moves(p, "create")
    /\ UNCHANGED <<now, stays, memory>>

CreateByReception(p) ==   \* mutant: the id is made from the reception
    /\ op[p].at = "create"
    /\ \E s \in StayIds :
         /\ stays[s].status = "none" \/ stays[s].reception = op[p].target
         /\ stays' = [stays EXCEPT ![s] = [status |-> "present", reception |-> op[p].target,
                                           out |-> None]]
    /\ Ends(p)
    /\ UNCHANGED <<now, memory>>

Create(p) ==
    /\ op[p].at = "create"
    /\ \E s \in StayIds :
         /\ stays[s].status = "none"
         /\ stays' = [stays EXCEPT ![s] = [status |-> "present", reception |-> op[p].target,
                                           out |-> None]]
    /\ Ends(p)
    /\ UNCHANGED <<now, memory>>

\* checkOut and cancelStay, and the issue of a credential, ask for a present stay.
Read(p) ==
    /\ op[p].at = "read"
    /\ IF stays[op[p].target].status = "present"
       THEN Moves(p, IF op[p].fn = "issue" THEN "issue" ELSE "put")
       ELSE Ends(p)
    /\ UNCHANGED <<now, stays, memory>>

\* The put of the copy that was read present.
Put(p) ==
    /\ op[p].at = "put"
    /\ stays' = [stays EXCEPT ![op[p].target].status =
                                  IF op[p].fn = "cancel" THEN "cancelled" ELSE "checked_out",
                              ![op[p].target].out = IF op[p].fn = "cancel" THEN None ELSE now]
    /\ IF op[p].fn = "confirm" THEN Moves(p, "consume") ELSE Ends(p)
    /\ UNCHANGED <<now, memory>>

\* The code space may be exhausted, or every one of the draws may hit a live
\* code although others are free: then issue throws.
Issue(p) ==
    /\ op[p].at = "issue" /\ Len(credentials) < MaxCredentials
    /\ \/ UNCHANGED credentials
       \/ \E k \in Fresh :
            credentials' = Append(credentials, [code |-> k, stay |-> op[p].target,
                                                expires |-> now + Ttl, status |-> "active"])
    /\ Ends(p)
    /\ UNCHANGED <<now, stays, failures, compared>>


\* resolveForCheckout does not change the credential; it is consumed after
\* the stay has been checked out.
ResolvedFor(p, i) == op' = [op EXCEPT ![p].at = "read", ![p].target = credentials[i].stay,
                                      ![p].token = i]

SpentBefore(p, i) ==      \* mutant: the credential is spent when it is presented
    credentials' = [credentials EXCEPT ![i].status = "consumed"]

KeptUntilDone(p, i) == UNCHANGED credentials

ByToken(p) ==
    /\ op[p].at = "resolve"
    /\ \E i \in DOMAIN credentials :
         IF Active(i) /\ ~Expired(credentials[i])
         THEN ResolvedFor(p, i) /\ KeptUntilDone(p, i)
         ELSE Ends(p) /\ UNCHANGED credentials
    /\ UNCHANGED <<now, stays, failures, compared>>

ByCode(p) ==
    /\ op[p].at = "resolve"
    /\ \E k \in Codes, right \in BOOLEAN :
         IF Throttled THEN Ends(p) /\ UNCHANGED memory
         ELSE /\ Compare(k, right)
              /\ IF Recognized(k, right) = {} THEN Ends(p) /\ UNCHANGED credentials
                 ELSE \E i \in Recognized(k, right) : ResolvedFor(p, i) /\ KeptUntilDone(p, i)
    /\ UNCHANGED <<now, stays>>

\* The resolve route compares a code for the confirmation screen.
LookUp == /\ ~Throttled
          /\ \E k \in Codes, right \in BOOLEAN : Recognized(k, right) = {} /\ Compare(k, right)
          /\ UNCHANGED <<now, stays, credentials, op>>

Consume(p) == /\ op[p].at = "consume"
              /\ credentials' = [credentials EXCEPT ![op[p].token].status = "consumed"]
              /\ Ends(p)
              /\ UNCHANGED <<now, stays, failures, compared>>

\* A call of the backend throws, before or after it has taken effect.
Fail(p) == /\ op[p].at \in {"list", "create", "read", "put", "consume"}
           /\ Ends(p)
           /\ UNCHANGED <<now, stays, memory>>

\* The server process ends, and with it what it keeps in memory.
Restart == /\ credentials' = <<>> /\ failures' = <<>> /\ compared' = <<>>
           /\ op' = [p \in Requests |-> Free]
           /\ UNCHANGED <<now, stays>>

Tick == now < MaxTime /\ now' = now + 1 /\ UNCHANGED <<stays, memory, op>>

Next == \/ \E p \in Requests : \/ Arrive(p) \/ ListPresent(p) \/ Create(p) \/ Read(p) \/ Put(p)
                               \/ Issue(p) \/ ByToken(p) \/ ByCode(p) \/ Consume(p) \/ Fail(p)
        \/ LookUp \/ Restart \/ Tick

Spec == Init /\ [][Next]_vars

-----------------------------------------------------------------------------
Stays == [status : {"none", "present", "checked_out", "cancelled"},
          reception : Receptions \cup {None}, out : Times \cup {None}]

Credentials == [code : Codes, stay : StayIds, expires : Nat, status : {"active", "consumed"}]

Ops == [fn : {"none", "stay", "checkout", "cancel", "issue", "confirm"},
        at : {"done", "list", "create", "read", "put", "issue", "resolve", "consume"},
        target : Receptions \cup StayIds \cup {None}, token : Nat \cup {None}]

TypeOK ==
    /\ now \in Times
    /\ stays \in [StayIds -> Stays] /\ credentials \in Seq(Credentials)
    /\ failures \in Seq(Times) /\ compared \in Seq(Times)
    /\ op \in [Requests -> Ops]

\* Nobody is locked out: a credential is spent only when its stay has ended,
\* also when the checkout fails half way (confirm/route.ts: a failed checkout
\* does not burn the credential).
NotLockedOut ==
    \A i \in DOMAIN credentials :
      credentials[i].status = "consumed" => stays[credentials[i].stay].status \notin {"none", "present"}

\* Who has left does not come back into the list of those present, whatever
\* copy a late request stores.
NeverBack ==
    [][\A s \in StayIds : stays[s].status \in {"checked_out", "cancelled"}
                            => stays'[s].status \notin {"none", "present"}]_vars

\* A code leads to one visitor: no two credentials that can be redeemed carry
\* the same one.
CodesDiffer ==
    \A i, j \in DOMAIN credentials :
      i # j /\ credentials[i].code = credentials[j].code
        => \E n \in {i, j} : ~Active(n) \/ Expired(credentials[n])

\* However the requests overlap, a process compares no more than ThrottleMax
\* wrong codes within a window.
GuessesBounded == InWindow(compared) <= ThrottleMax

\* A code that has not expired leads to the stay it was issued for.
CodeWorks ==
    \A i \in DOMAIN credentials :
      Active(i) /\ ~Expired(credentials[i]) => Recognized(credentials[i].code, TRUE) = {i}

\* The time of a checkout is final.
TimeStands ==
    [][\A s \in StayIds : stays[s].status = "checked_out" => stays'[s].out = stays[s].out]_vars

\* A reception leads to one stay, whatever is sent twice.
OneStay ==
    \A s, u \in StayIds :
      s # u /\ stays[s].reception = stays[u].reception => stays[s].reception = None
=============================================================================
