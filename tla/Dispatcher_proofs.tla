-------------------------- MODULE Dispatcher_proofs --------------------------
(***************************************************************************)
(* Proofs about the dispatcher, for any number of accounts, models and     *)
(* requests.                                                               *)
(***************************************************************************)
EXTENDS Dispatcher, FiniteSetTheorems, TLAPS

InCall == {"project", "stream", "guarded"}

\* The parts of TypeOK, by who changes them.
PoolOK == pool \subseteq Objects /\ \A o, p \in pool : Email(o) = Email(p) => o = p
AcctOK == acct \in [Objects -> Account]
ThrottleOK == until \in [Models -> Nat] /\ recent \in [Models -> [Emails -> 0..Window]]
ReqOK == /\ req \in [Requests -> Request]
         /\ \A r \in Requests : req[r].step \in Chosen => req[r].acc # None
         /\ \A r \in Requests : req[r].step # "idle" => req[r].model # None
         /\ \A r \in Requests : req[r].step = "switch" => req[r].wait \in Long
MeterOK == inFlight \in [Emails -> Nat] /\ tail \in [Requests -> Emails \cup {None}]
RunOK == closing \in {"open", "closing", "closed"} /\ edits \in 0..MaxEdits

\* A stream is read on only for a request that has its answer.
TailOver == \A r \in Requests :
              tail[r] # None => \/ req[r].step = "idle"
                                \/ req[r].step = "over" /\ req[r].out = "ok"

Accounts == PoolOK /\ AcctOK /\ ThrottleOK
Calls == ReqOK /\ MeterOK /\ RunOK /\ TailOver /\ MeterExact /\ ClosedQuiet
IInv == Accounts /\ Calls

LEMMA Facts ==
  /\ FailLimit \in Nat /\ FailLimit >= 1 /\ Window \in Nat /\ Window >= 1
  /\ MaxAttempts \in Nat /\ MaxAttempts >= 1 /\ MaxCapacity \in Nat /\ MaxEdits \in Nat
  /\ Minute \in Nat /\ Day \in Nat /\ \A w \in Waits : w \in Nat
BY DispatcherAssumption DEF Waits

-----------------------------------------------------------------------------
(* What the marks do to an account and to the throttles. *)

LEMMA OneMoreType == ASSUME NEW n \in 0..FailLimit PROVE OneMore(n) \in 0..FailLimit
BY Facts DEF OneMore

LEMMA AcctSet ==
  ASSUME AcctOK, NEW o \in Objects, NEW a \in Account, acct' = [acct EXCEPT ![o] = a]
  PROVE  AcctOK'
BY DEF AcctOK

LEMMA FailureType ==
  ASSUME AcctOK, NEW o \in Objects, NEW m \in Models, MarkFailure(o, m)
  PROVE  AcctOK'
<1>. DEFINE n == OneMore(acct[o].failures)
            l == [acct[o].lock EXCEPT ![m] = IF n >= FailLimit THEN Minute ELSE acct[o].lock[m]]
            a == [acct[o] EXCEPT !.failures = n, !.lock = l]
<1>1. acct[o] \in Account /\ acct[o].failures \in 0..FailLimit /\ acct[o].lock \in [Models -> Nat]
  BY DEF AcctOK, Account
<1>2. n \in 0..FailLimit
  BY <1>1, OneMoreType
<1>3. l \in [Models -> Nat]
  BY <1>1, Facts
<1>4. a \in Account
  <2>. HIDE DEF n, l
  <2>. QED  BY <1>1, <1>2, <1>3 DEF Account
<1>5. acct' = [acct EXCEPT ![o] = a]
  BY DEF MarkFailure, AcctOK, Account
<1>. QED
  <2>. HIDE DEF a
  <2>. QED  BY <1>4, <1>5, AcctSet

LEMMA InvalidType ==
  ASSUME AcctOK, NEW o \in Objects, MarkInvalid(o)
  PROVE  AcctOK'
<1>1. [acct[o] EXCEPT !.invalid = TRUE] \in Account
  BY DEF AcctOK, Account
<1>2. acct' = [acct EXCEPT ![o] = [acct[o] EXCEPT !.invalid = TRUE]]
  BY DEF MarkInvalid, AcctOK
<1>. QED  BY <1>1, <1>2, AcctSet

LEMMA IncrementType ==
  ASSUME AcctOK, NEW o \in Objects, IncrementFailure(o)
  PROVE  AcctOK'
<1>1. acct[o] \in Account /\ OneMore(acct[o].failures) \in 0..FailLimit
  BY OneMoreType DEF AcctOK, Account
<1>2. [acct[o] EXCEPT !.failures = OneMore(acct[o].failures)] \in Account
  BY <1>1 DEF Account
<1>3. acct' = [acct EXCEPT ![o] = [acct[o] EXCEPT !.failures = OneMore(acct[o].failures)]]
  BY DEF IncrementFailure, AcctOK
<1>. QED  BY <1>2, <1>3, AcctSet

LEMMA UnavailableType ==
  ASSUME AcctOK, NEW o \in Objects, NEW m \in Models, MarkModelUnavailable(o, m)
  PROVE  AcctOK'
<1>1. acct[o] \in Account /\ [acct[o].lock EXCEPT ![m] = Day] \in [Models -> Nat]
  BY Facts DEF AcctOK, Account
<1>2. [acct[o] EXCEPT !.lock = [acct[o].lock EXCEPT ![m] = Day]] \in Account
  BY <1>1 DEF Account
<1>3. acct' = [acct EXCEPT ![o] = [acct[o] EXCEPT !.lock = [acct[o].lock EXCEPT ![m] = Day]]]
  BY DEF MarkModelUnavailable, AcctOK, Account
<1>. QED  BY <1>2, <1>3, AcctSet

LEMMA RateLimitedType ==
  ASSUME AcctOK, ThrottleOK, NEW o \in Objects, NEW m \in Models, NEW w \in Nat,
         MarkRateLimited(o, m, w)
  PROVE  AcctOK' /\ ThrottleOK'
<1>1. acct[o] \in Account /\ OneMore(acct[o].failures) \in 0..FailLimit
      /\ [acct[o].lock EXCEPT ![m] = w] \in [Models -> Nat]
  BY OneMoreType DEF AcctOK, Account
<1>. DEFINE a == [acct[o] EXCEPT !.lock = [acct[o].lock EXCEPT ![m] = w],
                                 !.failures = OneMore(acct[o].failures)]
<1>2. a \in Account
  BY <1>1 DEF Account
<1>3. acct' = [acct EXCEPT ![o] = a]
  BY DEF MarkRateLimited, AcctOK, Account
<1>4. AcctOK'
  <2>. HIDE DEF a
  <2>. QED  BY <1>2, <1>3, AcctSet
<1>5. Email(o) \in Emails
  BY DEF Email, Objects
<1>6. CASE Cardinality(pool) < 2
  BY <1>4, <1>6 DEF MarkRateLimited, RecordSharedThrottle, throttles, ThrottleOK
<1>7. CASE ~(Cardinality(pool) < 2)
  <2>. DEFINE seen == [recent[m] EXCEPT ![Email(o)] = Window]
              b == \E f \in Emails \ {Email(o)} : seen[f] > 0
  <2>1. seen \in [Emails -> 0..Window]
    BY <1>5, Facts DEF ThrottleOK
  <2>2. recent' = [recent EXCEPT ![m] = seen]
    BY <1>7 DEF MarkRateLimited, RecordSharedThrottle
  <2>3. until' = [until EXCEPT ![m] = IF b THEN Longest(until[m], w) ELSE until[m]]
    BY <1>7 DEF MarkRateLimited, RecordSharedThrottle, ThrottleOK
  <2>4. until[m] \in Nat /\ Longest(until[m], w) \in Nat
    BY DEF ThrottleOK, Longest
  <2>. HIDE DEF seen, b
  <2>5. (IF b THEN Longest(until[m], w) ELSE until[m]) \in Nat
    BY <2>4
  <2>. QED  BY <1>4, <2>1, <2>2, <2>3, <2>5 DEF ThrottleOK
<1>. QED  BY <1>6, <1>7

LEMMA SuccessType ==
  ASSUME AcctOK, ThrottleOK, NEW o \in Objects, NEW m \in Models, MarkSuccess(o, m)
  PROVE  AcctOK' /\ ThrottleOK'
<1>1. acct[o] \in Account /\ 0 \in 0..FailLimit
      /\ [acct[o].lock EXCEPT ![m] = 0] \in [Models -> Nat]
  BY Facts DEF AcctOK, Account
<1>2. [acct[o] EXCEPT !.failures = 0, !.lock = [acct[o].lock EXCEPT ![m] = 0]] \in Account
  BY <1>1 DEF Account
<1>3. acct' = [acct EXCEPT ![o] = [acct[o] EXCEPT !.failures = 0,
                                                  !.lock = [acct[o].lock EXCEPT ![m] = 0]]]
  BY DEF MarkSuccess, AcctOK, Account
<1>4. AcctOK'
  BY <1>2, <1>3, AcctSet
<1>5. until' \in [Models -> Nat]
  BY DEF MarkSuccess, ThrottleOK
<1>6. [e \in Emails |-> 0] \in [Emails -> 0..Window]
  BY Facts
<1>7. recent' \in [Models -> [Emails -> 0..Window]]
  BY <1>6 DEF MarkSuccess, ThrottleOK
<1>. QED  BY <1>4, <1>5, <1>7 DEF ThrottleOK

-----------------------------------------------------------------------------
(* What a request may become. *)

Shaped(q) == /\ q \in Request /\ (q.step \in Chosen => q.acc # None)
             /\ (q.step # "idle" => q.model # None)
             /\ (q.step = "switch" => q.wait \in Long)

LEMMA IdleShaped == Shaped(Idle) /\ Idle.step = "idle"
BY Facts DEF Shaped, Idle, Request, Steps, Outcomes, Chosen

LEMMA ReqSet ==
  ASSUME ReqOK, NEW r \in Requests, NEW q, Shaped(q), req' = [req EXCEPT ![r] = q]
  PROVE  ReqOK'
BY DEF ReqOK, Shaped

LEMMA Active ==
  ASSUME ReqOK, NEW r \in Requests
  PROVE  /\ req[r] \in Request
         /\ req[r].step # "idle" => req[r].model \in Models
         /\ req[r].step \in Chosen => req[r].acc \in Objects /\ Email(req[r].acc) \in Emails
<1>1. req[r] \in Request
  BY DEF ReqOK
<1>2. req[r].step # "idle" => req[r].model \in Models
  BY <1>1 DEF ReqOK, Request
<1>3. req[r].step \in Chosen => req[r].acc \in Objects
  BY <1>1 DEF ReqOK, Request
<1>4. \A o \in Objects : Email(o) \in Emails
  BY DEF Objects, Email
<1>. QED  BY <1>1, <1>2, <1>3, <1>4

LEMMA NextShaped ==
  ASSUME ReqOK, NEW r \in Requests, req[r].step # "idle", NextAttempt(r)
  PROVE  \E q : Shaped(q) /\ q.step \in {"idle", "select"} /\ req' = [req EXCEPT ![r] = q]
<1>. DEFINE n == req[r].attempt + 1
            s == [Idle EXCEPT !.step = "select", !.model = req[r].model, !.left = req[r].left,
                              !.attempt = n]
<1>1. req[r] \in Request /\ req[r].model \in Models /\ req[r].left \in BOOLEAN
      /\ req[r].attempt \in 0..(MaxAttempts - 1)
  BY Active DEF Request
<1>2. CASE n < MaxAttempts
  <2>1. n \in 0..(MaxAttempts - 1)
    BY <1>1, <1>2, Facts
  <2>2. req[r].model # None
    BY <1>1, DispatcherAssumption
  <2>3. Shaped(s) /\ s.step = "select"
    <3>. HIDE DEF n
    <3>. QED  BY <1>1, <2>1, <2>2, IdleShaped DEF Shaped, Idle, Request, Steps, Chosen
  <2>4. req' = [req EXCEPT ![r] = s]
    BY <1>2 DEF NextAttempt
  <2>. QED  BY <2>3, <2>4
<1>3. CASE ~(n < MaxAttempts)
  BY <1>3, IdleShaped DEF NextAttempt
<1>. QED  BY <1>2, <1>3

-----------------------------------------------------------------------------
(* The count of an account and the calls outstanding on it. *)

LEMMA CallersFinite ==
  ASSUME NEW e PROVE IsFiniteSet(Callers(e)) /\ Cardinality(Callers(e)) \in Nat
BY DispatcherAssumption, FS_Subset, FS_CardinalityType DEF Callers

\* A step of r that leaves its outstanding call, or the lack of one, alone.
LEMMA MeterSame ==
  ASSUME MeterExact, NEW r \in Requests, UNCHANGED inFlight,
         \A x \in Requests \ {r} : req'[x] = req[x] /\ tail'[x] = tail[x],
         \A e \in Emails : Calling(r, e)' <=> Calling(r, e)
  PROVE  MeterExact'
<1>1. ASSUME NEW e \in Emails PROVE Callers(e)' = Callers(e)
  BY <1>1 DEF Callers, Calling
<1>. QED  BY <1>1 DEF MeterExact

LEMMA MeterBegin ==
  ASSUME MeterExact, MeterOK, NEW r \in Requests, NEW e \in Emails, Begin(e),
         \A x \in Requests \ {r} : req'[x] = req[x] /\ tail'[x] = tail[x],
         \A f \in Emails : ~Calling(r, f) /\ (Calling(r, f)' <=> f = e)
  PROVE  MeterExact' /\ inFlight' \in [Emails -> Nat]
<1>1. ASSUME NEW f \in Emails, f # e PROVE Callers(f)' = Callers(f)
  BY <1>1 DEF Callers, Calling
<1>2. Callers(e)' = Callers(e) \cup {r} /\ r \notin Callers(e)
  BY DEF Callers, Calling
<1>3. Cardinality(Callers(e)') = Cardinality(Callers(e)) + 1
  BY <1>2, CallersFinite, FS_AddElement
<1>4. inFlight \in [Emails -> Nat] /\ inFlight' = [inFlight EXCEPT ![e] = inFlight[e] + 1]
  BY DEF MeterOK, Begin
<1>. QED  BY <1>1, <1>3, <1>4 DEF MeterExact

LEMMA MeterReturn ==
  ASSUME MeterExact, MeterOK, NEW r \in Requests, NEW e \in Emails, Return(e),
         \A x \in Requests \ {r} : req'[x] = req[x] /\ tail'[x] = tail[x],
         \A f \in Emails : ~Calling(r, f)' /\ (Calling(r, f) <=> f = e)
  PROVE  MeterExact' /\ inFlight' \in [Emails -> Nat]
<1>1. ASSUME NEW f \in Emails, f # e PROVE Callers(f)' = Callers(f)
  BY <1>1 DEF Callers, Calling
<1>2. Callers(e)' = Callers(e) \ {r} /\ r \in Callers(e)
  BY DEF Callers, Calling
<1>3. /\ Cardinality(Callers(e)') = Cardinality(Callers(e)) - 1
      /\ Cardinality(Callers(e)) \in Nat /\ Cardinality(Callers(e)') \in Nat
  <2>1. Cardinality(Callers(e) \ {r}) \in Nat
    BY CallersFinite, FS_RemoveElement, FS_CardinalityType
  <2>. QED  BY <1>2, <2>1, CallersFinite, FS_RemoveElement
<1>4. /\ inFlight \in [Emails -> Nat]
      /\ inFlight' = [inFlight EXCEPT ![e] = IF inFlight[e] > 0 THEN inFlight[e] - 1 ELSE 0]
  BY DEF MeterOK, Return
<1>5. inFlight[e] = Cardinality(Callers(e)) /\ inFlight[e] > 0
  BY <1>3 DEF MeterExact
<1>6. inFlight' = [inFlight EXCEPT ![e] = inFlight[e] - 1] /\ inFlight[e] - 1 \in Nat
  BY <1>4, <1>5, <1>3
<1>7. inFlight' \in [Emails -> Nat]
  BY <1>4, <1>6
<1>8. ASSUME NEW f \in Emails PROVE inFlight'[f] = Cardinality(Callers(f)')
  <2>1. CASE f = e
    BY <1>3, <1>5, <1>6, <1>4, <2>1
  <2>2. CASE f # e
    BY <1>1, <1>6, <1>4, <2>2 DEF MeterExact
  <2>. QED  BY <2>1, <2>2
<1>. QED  BY <1>7, <1>8 DEF MeterExact

-----------------------------------------------------------------------------
(* The steps of a request keep the invariant of its calls. *)

\* A step that neither begins nor ends a call.
LEMMA Uncalled ==
  ASSUME Calls, NEW r \in Requests, NEW q, Shaped(q), req' = [req EXCEPT ![r] = q],
         req[r].step \notin InCall, q.step \notin InCall,
         q.step = "idle" \/ tail[r] = None,
         UNCHANGED <<inFlight, tail, closing, edits>>
  PROVE  Calls'
<1>1. req \in [Requests -> Request] /\ \A x \in Requests \ {r} : req'[x] = req[x]
  BY DEF Calls, ReqOK
<1>2. req'[r] = q
  BY <1>1
<1>3. ReqOK'
  BY ReqSet DEF Calls
<1>4. MeterOK' /\ RunOK'
  BY DEF Calls, MeterOK, RunOK
<1>5. TailOver'
  BY <1>1, <1>2 DEF Calls, TailOver
<1>6. MeterExact'
  <2>1. \A e \in Emails : Calling(r, e)' <=> Calling(r, e)
    BY <1>2 DEF Calling, InCall
  <2>. QED  BY <1>1, <2>1, MeterSame DEF Calls
<1>7. ClosedQuiet'
  BY <1>1, <1>2 DEF Calls, ClosedQuiet, Background, InCall
<1>. QED  BY <1>3, <1>4, <1>5, <1>6, <1>7 DEF Calls

LEMMA CallBegins ==
  ASSUME Calls, NEW r \in Requests, NEW q, Shaped(q), req' = [req EXCEPT ![r] = q],
         req[r].step \in {"resolve", "ready"}, q.step \in InCall, q.acc = req[r].acc,
         q.step = "guarded" => closing = "open",
         Begin(Email(req[r].acc)), UNCHANGED <<tail, closing, edits>>
  PROVE  Calls'
<1>1. req \in [Requests -> Request] /\ \A x \in Requests \ {r} : req'[x] = req[x]
  BY DEF Calls, ReqOK
<1>2. req'[r] = q /\ tail[r] = None /\ Email(req[r].acc) \in Emails
  BY <1>1, Active DEF Calls, TailOver, Chosen
<1>3. ReqOK' /\ RunOK'
  BY ReqSet DEF Calls, RunOK
<1>5. TailOver'
  BY <1>1, <1>2 DEF Calls, TailOver
<1>6. MeterExact' /\ inFlight' \in [Emails -> Nat]
  <2>1. \A f \in Emails : ~Calling(r, f) /\ (Calling(r, f)' <=> f = Email(req[r].acc))
    BY <1>2, DispatcherAssumption DEF Calling, InCall
  <2>. QED  BY <1>1, <1>2, <2>1, MeterBegin DEF Calls
<1>7. ClosedQuiet'
  BY <1>1, <1>2 DEF Calls, ClosedQuiet, Background, InCall
<1>. QED  BY <1>3, <1>5, <1>6, <1>7 DEF Calls, MeterOK

LEMMA CallEnds ==
  ASSUME Calls, NEW r \in Requests, NEW q, Shaped(q), req' = [req EXCEPT ![r] = q],
         req[r].step \in InCall, q.step \notin InCall,
         Return(Email(req[r].acc)), UNCHANGED <<tail, closing, edits>>
  PROVE  Calls'
<1>1. req \in [Requests -> Request] /\ \A x \in Requests \ {r} : req'[x] = req[x]
  BY DEF Calls, ReqOK
<1>2. req'[r] = q /\ tail[r] = None /\ Email(req[r].acc) \in Emails
  BY <1>1, Active DEF Calls, TailOver, Chosen, InCall
<1>3. ReqOK' /\ RunOK'
  BY ReqSet DEF Calls, RunOK
<1>5. TailOver'
  BY <1>1, <1>2 DEF Calls, TailOver
<1>6. MeterExact' /\ inFlight' \in [Emails -> Nat]
  <2>1. \A f \in Emails : ~Calling(r, f)' /\ (Calling(r, f) <=> f = Email(req[r].acc))
    BY <1>2, DispatcherAssumption DEF Calling, InCall
  <2>. QED  BY <1>1, <1>2, <2>1, MeterReturn DEF Calls
<1>7. ClosedQuiet'
  BY <1>1, <1>2 DEF Calls, ClosedQuiet, Background, InCall
<1>. QED  BY <1>3, <1>5, <1>6, <1>7 DEF Calls, MeterOK

-----------------------------------------------------------------------------
(* A request that steps on keeps its shape. *)

LEMMA GoesOn ==
  ASSUME ReqOK, NEW r \in Requests, req[r].step # "idle", NEW s \in Steps \ {"switch"},
         s \in Chosen => req[r].acc # None,
         NEW c \in 0..MaxCapacity, NEW w \in Nat, NEW out \in Outcomes
  PROVE  /\ Shaped([req[r] EXCEPT !.step = s])
         /\ Shaped([req[r] EXCEPT !.step = s, !.wait = w])
         /\ Shaped([req[r] EXCEPT !.step = s, !.out = out])
         /\ Shaped([req[r] EXCEPT !.step = s, !.capacity = c, !.out = out])
<1>1. req[r] \in Request /\ req[r].model # None
  BY DEF ReqOK
<1>. QED  BY <1>1 DEF Shaped, Request

\* A request that is not over with "ok" has no stream read on.
LEMMA NoTail ==
  ASSUME TailOver, NEW r \in Requests, req[r].step # "idle",
         req[r].step # "over" \/ req[r].out # "ok"
  PROVE  tail[r] = None
BY DEF TailOver

LEMMA EndCalls ==
  ASSUME Calls, NEW r \in Requests, req[r].step \notin InCall, End(r), CallsSame
  PROVE  Calls'
<1>1. req' = [req EXCEPT ![r] = Idle]
  BY DEF End
<1>2. Idle.step \notin InCall
  BY IdleShaped DEF InCall
<1>. QED  BY <1>1, <1>2, IdleShaped, Uncalled DEF CallsSame

LEMMA NextCalls ==
  ASSUME Calls, NEW r \in Requests, req[r].step \notin InCall \cup {"idle"},
         req[r].step # "over" \/ req[r].out # "ok", NextAttempt(r), CallsSame
  PROVE  Calls'
<1>1. PICK q : Shaped(q) /\ q.step \in {"idle", "select"} /\ req' = [req EXCEPT ![r] = q]
  BY NextShaped DEF Calls
<1>2. tail[r] = None
  BY NoTail DEF Calls
<1>. QED  BY <1>1, <1>2, Uncalled DEF CallsSame, InCall

-----------------------------------------------------------------------------
(* The steps of a request. *)

LEMMA SameAccounts == ASSUME Accounts, UNCHANGED manager PROVE Accounts'
BY DEF Accounts, PoolOK, AcctOK, ThrottleOK, manager, throttles

LEMMA Beginning ==
  ASSUME IInv, NEW r \in Requests,
         \/ \E m \in Models : Start(r, m)
         \/ Select(r) \/ Empty(r) \/ Wake(r)
  PROVE  IInv'
<1>1. req[r] \in Request /\ 0 \in 0..MaxCapacity
  BY Active, Facts DEF IInv, Calls
<1>2. CASE \E m \in Models : Start(r, m)
  <2>1. PICK m \in Models : Start(r, m)
    BY <1>2
  <2>. DEFINE q == [Idle EXCEPT !.step = "select", !.model = m]
  <2>2. Shaped(q) /\ q.step \notin InCall
    BY IdleShaped, DispatcherAssumption DEF Shaped, Idle, Request, Steps, Chosen, InCall
  <2>3. req' = [req EXCEPT ![r] = q] /\ tail[r] = None /\ req[r].step \notin InCall
    BY <2>1 DEF Start, InCall
  <2>. HIDE DEF q
  <2>4. Calls'
    BY <2>1, <2>2, <2>3, Uncalled DEF IInv, Start, NoMarks, CallsSame
  <2>. QED  BY <2>1, <2>4, SameAccounts DEF IInv, Start, NoMarks
<1>3. CASE Select(r)
  <2>1. tail[r] = None /\ req[r].step = "select"
    BY <1>3, NoTail DEF IInv, Calls, Select
  <2>2. \E q : Shaped(q) /\ q.step \notin InCall /\ req' = [req EXCEPT ![r] = q]
    <3>. DEFINE m == req[r].model
                usable == {o \in pool : Usable(o, m)}
    <3>1. CASE until[m] = 0 /\ usable # {}
      <4>1. PICK o \in usable : req' = [req EXCEPT ![r] = [req[r] EXCEPT !.step = "resolve", !.acc = o]]
        BY <1>3, <3>1 DEF Select, IInv, Calls, ReqOK
      <4>2. o \in Objects /\ o # None
        BY <4>1, DispatcherAssumption DEF IInv, Accounts, PoolOK
      <4>3. Shaped([req[r] EXCEPT !.step = "resolve", !.acc = o])
        BY <1>1, <2>1, <4>2 DEF Shaped, Request, Steps, IInv, Calls, ReqOK
      <4>. QED  BY <1>1, <4>1, <4>3 DEF InCall, Request
    <3>2. CASE ~(until[m] = 0 /\ usable # {})
      <4>1. PICK w \in SelectWaits(m) :
              req' = [req EXCEPT ![r] = [req[r] EXCEPT !.step = "empty", !.wait = w]]
        BY <1>3, <3>2 DEF Select, IInv, Calls, ReqOK
      <4>2. \A o \in Objects : acct[o].lock[m] \in Nat
        BY <2>1, Active DEF IInv, Accounts, Calls, AcctOK, Account
      <4>3. w \in Nat
        BY <4>1, <4>2, <2>1, Active
        DEF SelectWaits, IInv, Accounts, Calls, ThrottleOK, PoolOK
      <4>4. Shaped([req[r] EXCEPT !.step = "empty", !.wait = w])
        BY <1>1, <2>1, <4>3, GoesOn DEF IInv, Calls, Steps, Chosen, Outcomes
      <4>. QED  BY <1>1, <4>1, <4>4 DEF InCall, Request
    <3>. QED  BY <3>1, <3>2
  <2>3. PICK q : Shaped(q) /\ q.step \notin InCall /\ req' = [req EXCEPT ![r] = q]
    BY <2>2
  <2>4. Calls'
    BY <1>3, <2>1, <2>3, Uncalled DEF IInv, Select, NoMarks, CallsSame, InCall
  <2>. QED  BY <1>3, <2>4, SameAccounts DEF IInv, Select, NoMarks
<1>4. CASE Empty(r)
  <2>1. tail[r] = None /\ req[r].step = "empty"
    BY <1>4, NoTail DEF IInv, Calls, Empty
  <2>2. Shaped([req[r] EXCEPT !.step = "sleep", !.wait = 0])
    BY <1>1, <2>1, GoesOn DEF IInv, Calls, Steps, Chosen, Outcomes
  <2>3. CASE End(r)
    BY <1>4, <2>1, <2>3, EndCalls, SameAccounts DEF Empty, IInv, NoMarks, InCall
  <2>4. CASE ~End(r)
    <3>1. req' = [req EXCEPT ![r] = [req[r] EXCEPT !.step = "sleep", !.wait = 0]]
      BY <1>4, <2>4 DEF Empty, IInv, Calls, ReqOK
    <3>2. [req[r] EXCEPT !.step = "sleep", !.wait = 0].step = "sleep"
      BY <1>1 DEF Request
    <3>3. Calls'
      BY <1>4, <2>1, <2>2, <3>1, <3>2, Uncalled DEF IInv, Empty, NoMarks, CallsSame, InCall
    <3>. QED  BY <1>4, <3>3, SameAccounts DEF IInv, Empty, NoMarks
  <2>. QED  BY <2>3, <2>4
<1>5. CASE Wake(r)
  <2>1. tail[r] = None /\ req[r].step = "sleep"
    BY <1>5, NoTail DEF IInv, Calls, Wake
  <2>2. Shaped([req[r] EXCEPT !.step = "select"])
    BY <1>1, <2>1, GoesOn DEF IInv, Calls, Steps, Chosen, Outcomes
  <2>3. CASE End(r)
    BY <1>5, <2>1, <2>3, EndCalls, SameAccounts DEF Wake, IInv, NoMarks, InCall
  <2>4. CASE ~End(r)
    <3>1. req' = [req EXCEPT ![r] = [req[r] EXCEPT !.step = "select"]]
      BY <1>5, <2>4 DEF Wake, Goto, IInv, Calls, ReqOK
    <3>2. [req[r] EXCEPT !.step = "select"].step = "select"
      BY <1>1 DEF Request
    <3>3. Calls'
      BY <1>5, <2>1, <2>2, <3>1, <3>2, Uncalled DEF IInv, Wake, NoMarks, CallsSame, InCall
    <3>. QED  BY <1>5, <3>3, SameAccounts DEF IInv, Wake, NoMarks
  <2>. QED  BY <2>3, <2>4
<1>. QED  BY <1>2, <1>3, <1>4, <1>5

LEMMA Credentials ==
  ASSUME IInv, NEW r \in Requests,
         BadCredentials(r) \/ Resolved(r) \/ AskProject(r) \/ GotProject(r) \/ NoProject(r)
  PROVE  IInv'
<1>1. req[r] \in Request /\ 0 \in 0..MaxCapacity /\ 0 \in Nat /\ "none" \in Outcomes
  BY Active, Facts DEF IInv, Calls, Outcomes
<1>2. /\ req[r].step \in {"resolve", "project"} /\ tail[r] = None
      /\ req[r].acc \in Objects /\ req[r].acc # None /\ req[r].model \in Models
  <2>1. req[r].step \in {"resolve", "project"}
    BY DEF BadCredentials, Resolved, AskProject, GotProject, NoProject
  <2>. QED  BY <2>1, Active, NoTail DEF IInv, Calls, ReqOK, Chosen
<1>. DEFINE ready == [req[r] EXCEPT !.step = "ready"]
            project == [req[r] EXCEPT !.step = "project"]
<1>3. /\ Shaped(ready) /\ ready.step = "ready"
      /\ Shaped(project) /\ project.step = "project" /\ project.acc = req[r].acc
  <2>1. Shaped(ready) /\ Shaped(project)
    BY <1>1, <1>2, GoesOn DEF IInv, Calls, Steps
  <2>. QED  BY <1>1, <2>1 DEF Request
<1>4. /\ Goto(r, "ready") => req' = [req EXCEPT ![r] = ready]
      /\ Goto(r, "project") => req' = [req EXCEPT ![r] = project]
  BY DEF Goto, IInv, Calls, ReqOK
<1>. HIDE DEF ready, project
<1>5. CASE BadCredentials(r)
  <2>1. AcctOK'
    BY <1>2, <1>5, InvalidType, IncrementType DEF BadCredentials, IInv, Accounts
  <2>2. Calls'
    BY <1>5, NextCalls DEF BadCredentials, MarksOnly, IInv, InCall
  <2>. QED  BY <1>5, <2>1, <2>2
            DEF BadCredentials, MarksOnly, throttles, IInv, Accounts, PoolOK, ThrottleOK
<1>6. CASE Resolved(r)
  <2>1. Calls'
    BY <1>2, <1>3, <1>4, <1>6, Uncalled DEF Resolved, NoMarks, CallsSame, IInv, InCall
  <2>. QED  BY <1>6, <2>1, SameAccounts DEF Resolved, NoMarks, IInv
<1>7. CASE AskProject(r)
  <2>1. Calls'
    BY <1>3, <1>4, <1>7, CallBegins DEF AskProject, IInv, InCall
  <2>. QED  BY <1>7, <2>1, SameAccounts DEF AskProject, IInv
<1>8. CASE GotProject(r)
  <2>1. Calls'
    BY <1>3, <1>4, <1>8, CallEnds DEF GotProject, IInv, InCall
  <2>. QED  BY <1>8, <2>1, SameAccounts DEF GotProject, IInv
<1>9. CASE NoProject(r)
  <2>1. AcctOK'
    BY <1>2, <1>9, FailureType DEF NoProject, IInv, Accounts
  <2>2. PICK q : Shaped(q) /\ q.step \in {"idle", "select"} /\ req' = [req EXCEPT ![r] = q]
    BY <1>9, NextShaped DEF NoProject, IInv, Calls
  <2>3. Calls'
    BY <1>9, <2>2, CallEnds DEF NoProject, IInv, InCall
  <2>. QED  BY <1>9, <2>1, <2>3
            DEF NoProject, throttles, IInv, Accounts, PoolOK, ThrottleOK
<1>. QED  BY <1>5, <1>6, <1>7, <1>8, <1>9

LEMMA Exchange ==
  ASSUME IInv, NEW r \in Requests,
         \/ \E how \in {"stream", "guarded"} : Send(r, how)
         \/ \E out \in Outcomes : Answered(r, out)
  PROVE  IInv'
<1>1. req[r] \in Request /\ 0 \in 0..MaxCapacity /\ 0 \in Nat /\ "none" \in Outcomes
  BY Active, Facts DEF IInv, Calls, Outcomes
<1>2. CASE \E how \in {"stream", "guarded"} : Send(r, how)
  <2>1. PICK how \in {"stream", "guarded"} : Send(r, how)
    BY <1>2
  <2>2. req[r].step = "ready" /\ req[r].acc # None
    BY <2>1 DEF Send, IInv, Calls, ReqOK, Chosen
  <2>3. CASE req[r].left \/ (how = "guarded" /\ closing # "open")
    BY <2>1, <2>2, <2>3, EndCalls, SameAccounts DEF Send, CallsSame, IInv, InCall
  <2>4. CASE ~(req[r].left \/ (how = "guarded" /\ closing # "open"))
    <3>. DEFINE q == [req[r] EXCEPT !.step = how]
    <3>1. Shaped(q)
      BY <1>1, <2>2, GoesOn DEF IInv, Calls, Steps
    <3>2. q.step = how /\ q.acc = req[r].acc
      BY <1>1 DEF Request
    <3>3. req' = [req EXCEPT ![r] = q]
      BY <2>1, <2>4 DEF Send, Goto, IInv, Calls, ReqOK
    <3>. HIDE DEF q
    <3>4. Calls'
      BY <2>1, <2>2, <2>4, <3>1, <3>2, <3>3, CallBegins DEF Send, IInv, InCall
    <3>. QED  BY <2>1, <3>4, SameAccounts DEF Send, IInv
  <2>. QED  BY <2>3, <2>4
<1>3. CASE \E out \in Outcomes : Answered(r, out)
  <2>1. PICK out \in Outcomes : Answered(r, out)
    BY <1>3
  <2>2. req[r].step \in InCall /\ req[r].acc # None /\ req[r].step # "idle"
    BY <2>1 DEF Answered, IInv, Calls, ReqOK, Chosen, InCall
  <2>. DEFINE q == [req[r] EXCEPT !.step = "over", !.out = out]
  <2>3. Shaped(q)
    BY <1>1, <2>2, GoesOn DEF IInv, Calls, Steps
  <2>4. q.step = "over"
    BY <1>1 DEF Request
  <2>5. req' = [req EXCEPT ![r] = q]
    BY <2>1 DEF Answered, IInv, Calls, ReqOK
  <2>. HIDE DEF q
  <2>6. Calls'
    BY <2>1, <2>2, <2>3, <2>4, <2>5, CallEnds DEF Answered, IInv, InCall
  <2>. QED  BY <2>1, <2>6, SameAccounts DEF Answered, IInv
<1>. QED  BY <1>2, <1>3

\* A stream read on: it begins with its client's answer and ends by itself.
LEMMA ReadOn ==
  ASSUME IInv, NEW r \in Requests, PastLimit(r) \/ TailEnd(r)
  PROVE  IInv'
<1>1. req[r] \in Request /\ 0 \in 0..MaxCapacity /\ 0 \in Nat /\ "ok" \in Outcomes
  BY Active, Facts DEF IInv, Calls, Outcomes
<1>2. req \in [Requests -> Request] /\ tail \in [Requests -> Emails \cup {None}]
  BY DEF IInv, Calls, ReqOK, MeterOK
<1>3. CASE PastLimit(r)
  <2>1. /\ req[r].step = "guarded" /\ req[r].acc # None /\ tail[r] = None
        /\ Email(req[r].acc) \in Emails
    BY <1>3, Active, NoTail DEF PastLimit, IInv, Calls, ReqOK, Chosen
  <2>. DEFINE q == [req[r] EXCEPT !.step = "over", !.out = "ok"]
  <2>2. Shaped(q)
    BY <1>1, <2>1, GoesOn DEF IInv, Calls, Steps
  <2>3. q.step = "over" /\ q.out = "ok"
    BY <1>1 DEF Request
  <2>4. req' = [req EXCEPT ![r] = q]
    BY <1>2, <1>3 DEF PastLimit
  <2>. HIDE DEF q
  <2>5. /\ req'[r] = q /\ tail'[r] = Email(req[r].acc)
        /\ \A x \in Requests \ {r} : req'[x] = req[x] /\ tail'[x] = tail[x]
    BY <1>2, <1>3, <2>4 DEF PastLimit
  <2>6. ReqOK'
    BY <2>2, <2>4, ReqSet DEF IInv, Calls
  <2>7. MeterOK' /\ RunOK'
    BY <1>3, <2>1 DEF PastLimit, IInv, Calls, MeterOK, RunOK
  <2>8. TailOver'
    BY <2>3, <2>5 DEF IInv, Calls, TailOver
  <2>9. MeterExact'
    <3>1. \A e \in Emails : Calling(r, e)' <=> Calling(r, e)
      BY <2>1, <2>3, <2>5, DispatcherAssumption DEF Calling
    <3>. QED  BY <1>3, <2>5, <3>1, MeterSame DEF PastLimit, IInv, Calls
  <2>10. ClosedQuiet'
    BY <1>3, <2>1 DEF PastLimit, IInv, Calls, ClosedQuiet, Background
  <2>. QED  BY <1>3, <2>6, <2>7, <2>8, <2>9, <2>10, SameAccounts DEF PastLimit, IInv, Calls
<1>4. CASE TailEnd(r)
  <2>1. /\ tail[r] \in Emails /\ req[r].step \notin InCall
    BY <1>2, <1>4 DEF TailEnd, IInv, Calls, TailOver, InCall
  <2>2. /\ tail'[r] = None /\ UNCHANGED req
        /\ \A x \in Requests \ {r} : req'[x] = req[x] /\ tail'[x] = tail[x]
    BY <1>2, <1>4 DEF TailEnd
  <2>3. MeterExact' /\ inFlight' \in [Emails -> Nat]
    <3>1. \A f \in Emails : ~Calling(r, f)' /\ (Calling(r, f) <=> f = tail[r])
      BY <2>1, <2>2, DispatcherAssumption DEF Calling, InCall
    <3>2. Return(tail[r])
      BY <1>4 DEF TailEnd
    <3>. QED  BY <2>1, <2>2, <3>1, <3>2, MeterReturn DEF IInv, Calls
  <2>4. ReqOK' /\ RunOK'
    BY <1>4, <2>2 DEF TailEnd, IInv, Calls, ReqOK, RunOK
  <2>5. MeterOK' /\ TailOver'
    BY <1>2, <1>4, <2>2, <2>3 DEF TailEnd, IInv, Calls, MeterOK, TailOver
  <2>6. ClosedQuiet'
    BY <1>4, <2>2 DEF TailEnd, IInv, Calls, ClosedQuiet, Background
  <2>. QED  BY <1>4, <2>3, <2>4, <2>5, <2>6, SameAccounts DEF TailEnd, IInv, Calls
<1>. QED  BY <1>3, <1>4

LEMMA Retrying ==
  ASSUME IInv, NEW r \in Requests,
         \/ RetryCapacity(r) \/ RetryQuick(r)
         \/ \E w \in Waits : SwitchLater(r, w)
  PROVE  IInv'
<1>1. req[r] \in Request /\ 0 \in 0..MaxCapacity /\ 0 \in Nat /\ "none" \in Outcomes
  BY Active, Facts DEF IInv, Calls, Outcomes
<1>2. /\ req[r].step = "over" /\ req[r].out \in {"capacity", "overloaded", "limited"}
      /\ tail[r] = None /\ req[r].acc # None /\ req[r].acc \in Objects
  <2>1. req[r].step = "over" /\ req[r].out \in {"capacity", "overloaded", "limited"}
    BY DEF RetryCapacity, RetryQuick, SwitchLater, Ended
  <2>. QED  BY <2>1, Active, NoTail DEF IInv, Calls, ReqOK, Chosen
<1>3. CASE RetryCapacity(r)
  <2>1. req[r].capacity + 1 \in 0..MaxCapacity
    <3>1. req[r].capacity \in 0..MaxCapacity
      BY <1>1 DEF Request
    <3>2. req[r].capacity < MaxCapacity
      BY <1>3 DEF RetryCapacity, Patient
    <3>. QED  BY <3>1, <3>2, Facts
  <2>. DEFINE q == [req[r] EXCEPT !.step = "ready", !.capacity = req[r].capacity + 1, !.out = "none"]
  <2>2. Shaped(q)
    BY <1>1, <1>2, <2>1, GoesOn DEF IInv, Calls, Steps
  <2>3. q.step = "ready"
    BY <1>1 DEF Request
  <2>4. req' = [req EXCEPT ![r] = q]
    BY <1>3 DEF RetryCapacity, IInv, Calls, ReqOK
  <2>. HIDE DEF q
  <2>5. Calls'
    BY <1>2, <1>3, <2>2, <2>3, <2>4, Uncalled DEF RetryCapacity, MarksOnly, CallsSame, IInv, InCall
  <2>6. AcctOK'
    BY <1>2, <1>3, IncrementType DEF RetryCapacity, IInv, Accounts
  <2>. QED  BY <1>3, <2>5, <2>6
            DEF RetryCapacity, MarksOnly, throttles, IInv, Accounts, PoolOK, ThrottleOK
<1>4. CASE RetryQuick(r)
  <2>. DEFINE q == [req[r] EXCEPT !.step = "ready", !.out = "none"]
  <2>2. Shaped(q)
    BY <1>1, <1>2, GoesOn DEF IInv, Calls, Steps
  <2>3. q.step = "ready"
    BY <1>1 DEF Request
  <2>4. req' = [req EXCEPT ![r] = q]
    BY <1>4 DEF RetryQuick, IInv, Calls, ReqOK
  <2>. HIDE DEF q
  <2>5. Calls'
    BY <1>2, <1>4, <2>2, <2>3, <2>4, Uncalled DEF RetryQuick, MarksOnly, CallsSame, IInv, InCall
  <2>6. AcctOK'
    BY <1>2, <1>4, IncrementType DEF RetryQuick, IInv, Accounts
  <2>. QED  BY <1>4, <2>5, <2>6
            DEF RetryQuick, MarksOnly, throttles, IInv, Accounts, PoolOK, ThrottleOK
<1>5. CASE \E w \in Waits : SwitchLater(r, w)
  <2>1. PICK w \in Waits : SwitchLater(r, w)
    BY <1>5
  <2>. DEFINE q == [req[r] EXCEPT !.step = "switch", !.wait = w]
  <2>2. Shaped(q)
    <3>1. w \in Long /\ w \in Nat /\ req[r].model # None
      BY <1>2, <2>1, Facts DEF SwitchLater, IInv, Calls, ReqOK
    <3>. QED  BY <1>1, <1>2, <3>1 DEF Shaped, Request, Steps
  <2>3. q.step = "switch"
    BY <1>1 DEF Request
  <2>4. req' = [req EXCEPT ![r] = q]
    BY <2>1 DEF SwitchLater, IInv, Calls, ReqOK
  <2>. HIDE DEF q
  <2>5. Calls'
    BY <1>2, <2>1, <2>2, <2>3, <2>4, Uncalled DEF SwitchLater, NoMarks, CallsSame, IInv, InCall
  <2>. QED  BY <2>1, <2>5, SameAccounts DEF SwitchLater, NoMarks, IInv
<1>. QED  BY <1>3, <1>4, <1>5

LEMMA Verdict ==
  ASSUME IInv, NEW r \in Requests,
         \/ Succeed(r) \/ Refuse(r) \/ SwitchAbandoned(r)
         \/ \E w \in Waits : Limited(r, w)
         \/ Failed(r) \/ Invalid(r) \/ Missing(r)
  PROVE  IInv'
<1>1. req[r].step \in {"over", "switch"} /\ req[r].step \notin InCall \cup {"idle"}
  BY DEF Succeed, Refuse, SwitchAbandoned, Limited, LimitsNow, Failed, Invalid, Missing,
         Ended, InCall
<1>2. req[r].acc \in Objects /\ req[r].model \in Models
  BY <1>1, Active DEF IInv, Calls, Chosen
<1>3. CASE Succeed(r)
  <2>1. AcctOK' /\ ThrottleOK'
    BY <1>2, <1>3, SuccessType DEF Succeed, IInv, Accounts
  <2>2. Calls'
    BY <1>1, <1>3, EndCalls DEF Succeed, MarksOnly, IInv
  <2>. QED  BY <1>3, <2>1, <2>2 DEF Succeed, MarksOnly, IInv, Accounts, PoolOK
<1>4. CASE Refuse(r)
  BY <1>1, <1>4, EndCalls, SameAccounts DEF Refuse, NoMarks, IInv
<1>5. CASE SwitchAbandoned(r)
  BY <1>1, <1>5, EndCalls, SameAccounts DEF SwitchAbandoned, NoMarks, IInv
<1>6. CASE \E w \in Waits : Limited(r, w)
  <2>1. PICK w \in Waits : Limited(r, w)
    BY <1>6
  <2>2. AcctOK' /\ ThrottleOK'
    BY <1>2, <2>1, Facts, RateLimitedType DEF Limited, IInv, Accounts
  <2>3. req[r].step # "over" \/ req[r].out # "ok"
    BY <2>1 DEF Limited, LimitsNow, Ended
  <2>4. Calls'
    BY <1>1, <2>1, <2>3, NextCalls DEF Limited, MarksOnly, IInv
  <2>. QED  BY <2>1, <2>2, <2>4 DEF Limited, MarksOnly, IInv, Accounts, PoolOK
<1>7. CASE Failed(r)
  <2>1. AcctOK'
    BY <1>2, <1>7, FailureType DEF Failed, IInv, Accounts
  <2>2. Calls'
    BY <1>1, <1>7, NextCalls DEF Failed, Ended, MarksOnly, IInv
  <2>. QED  BY <1>7, <2>1, <2>2
            DEF Failed, MarksOnly, throttles, IInv, Accounts, PoolOK, ThrottleOK
<1>8. CASE Invalid(r)
  <2>1. AcctOK'
    BY <1>2, <1>8, InvalidType DEF Invalid, IInv, Accounts
  <2>2. Calls'
    BY <1>1, <1>8, NextCalls DEF Invalid, Ended, MarksOnly, IInv
  <2>. QED  BY <1>8, <2>1, <2>2
            DEF Invalid, MarksOnly, throttles, IInv, Accounts, PoolOK, ThrottleOK
<1>9. CASE Missing(r)
  <2>1. AcctOK'
    BY <1>2, <1>9, UnavailableType DEF Missing, IInv, Accounts, AcctOK
  <2>2. Calls'
    BY <1>1, <1>9, NextCalls, EndCalls DEF Missing, Ended, MarksOnly, IInv
  <2>. QED  BY <1>9, <2>1, <2>2
            DEF Missing, MarksOnly, throttles, IInv, Accounts, PoolOK, ThrottleOK
<1>. QED  BY <1>3, <1>4, <1>5, <1>6, <1>7, <1>8, <1>9

\* A client that leaves changes nothing but its request's mark.
LEMMA Leaving ==
  ASSUME IInv, NEW r \in Requests, Disconnect(r)
  PROVE  IInv'
<1>. DEFINE q == [req[r] EXCEPT !.left = TRUE]
<1>1. req[r] \in Request /\ req \in [Requests -> Request]
  BY DEF IInv, Calls, ReqOK
<1>2. /\ Shaped(q) /\ q.step = req[r].step /\ q.acc = req[r].acc /\ q.out = req[r].out
  BY <1>1 DEF Shaped, Request, IInv, Calls, ReqOK
<1>3. req' = [req EXCEPT ![r] = q]
  BY <1>1 DEF Disconnect
<1>. HIDE DEF q
<1>4. req'[r] = q /\ \A x \in Requests \ {r} : req'[x] = req[x]
  BY <1>1, <1>3
<1>5. ReqOK'
  BY <1>2, <1>3, ReqSet DEF IInv, Calls
<1>6. UNCHANGED <<inFlight, tail, closing, edits>>
  BY DEF Disconnect, NoMarks, CallsSame
<1>7. MeterOK' /\ RunOK'
  BY <1>6 DEF IInv, Calls, MeterOK, RunOK
<1>8. TailOver' /\ ClosedQuiet'
  BY <1>2, <1>4, <1>6 DEF IInv, Calls, TailOver, ClosedQuiet, Background
<1>9. MeterExact'
  <2>1. \A e \in Emails : Calling(r, e)' <=> Calling(r, e)
    BY <1>2, <1>4, <1>6 DEF Calling
  <2>. QED  BY <1>4, <1>6, <2>1, MeterSame DEF IInv, Calls
<1>. QED  BY <1>5, <1>7, <1>8, <1>9, SameAccounts DEF Disconnect, NoMarks, IInv, Calls

-----------------------------------------------------------------------------
(* The operator, the clock, the shutdown. *)

\* Who leaves the requests and the meter alone.
LEMMA CallsKept ==
  ASSUME Calls, UNCHANGED <<req, inFlight, tail>>, RunOK', ClosedQuiet'
  PROVE  Calls'
<1>1. MeterExact'
  BY DEF Calls, MeterExact, Callers, Calling
<1>2. ReqOK' /\ MeterOK' /\ TailOver'
  BY DEF Calls, ReqOK, MeterOK, TailOver
<1>. QED  BY <1>1, <1>2 DEF Calls

LEMMA Editing ==
  ASSUME IInv, Operator
  PROVE  IInv'
<1>1. /\ Edit /\ UNCHANGED <<throttles, req>>
  BY DEF Operator, SetAccountEnabled, ClearInvalid, RemoveAccount, AddOrUpdateAccount
<1>2. RunOK'
  BY <1>1, Facts DEF Edit, IInv, Calls, RunOK
<1>3. Calls'
  <2>1. ClosedQuiet'
    BY <1>1 DEF Edit, IInv, Calls, ClosedQuiet, Background
  <2>. QED  BY <1>1, <1>2, <2>1, CallsKept DEF Edit, IInv
<1>4. ThrottleOK'
  BY <1>1 DEF throttles, IInv, Accounts, ThrottleOK
<1>5. PICK o \in Objects : \/ \E b \in BOOLEAN : SetAccountEnabled(o, b)
                           \/ ClearInvalid(o) \/ RemoveAccount(o) \/ AddOrUpdateAccount(o)
  BY DEF Operator
<1>6. acct \in [Objects -> Account] /\ acct[o] \in Account
  BY DEF IInv, Accounts, AcctOK
<1>7. CASE \E b \in BOOLEAN : SetAccountEnabled(o, b)
  <2>1. PICK b \in BOOLEAN : SetAccountEnabled(o, b)
    BY <1>7
  <2>2. [acct[o] EXCEPT !.enabled = b] \in Account
    BY <1>6 DEF Account
  <2>3. AcctOK'
    BY <1>6, <2>1, <2>2, AcctSet DEF SetAccountEnabled, IInv, Accounts
  <2>. QED  BY <1>3, <1>4, <2>1, <2>3 DEF SetAccountEnabled, IInv, Accounts, PoolOK
<1>8. CASE ClearInvalid(o)
  <2>1. [acct[o] EXCEPT !.invalid = FALSE] \in Account
    BY <1>6 DEF Account
  <2>2. AcctOK'
    BY <1>6, <1>8, <2>1, AcctSet DEF ClearInvalid, IInv, Accounts
  <2>. QED  BY <1>3, <1>4, <1>8, <2>2 DEF ClearInvalid, IInv, Accounts, PoolOK
<1>9. CASE RemoveAccount(o)
  BY <1>3, <1>4, <1>9 DEF RemoveAccount, IInv, Accounts, PoolOK, AcctOK
<1>10. CASE AddOrUpdateAccount(o)
  <2>1. NewAccount \in Account
    BY Facts DEF NewAccount, Account, Free
  <2>2. AcctOK'
    BY <1>10, <2>1, AcctSet DEF AddOrUpdateAccount, IInv, Accounts
  <2>3. PoolOK'
    BY <1>10 DEF AddOrUpdateAccount, IInv, Accounts, PoolOK
  <2>. QED  BY <1>3, <1>4, <2>2, <2>3 DEF IInv, Accounts
<1>. QED  BY <1>5, <1>7, <1>8, <1>9, <1>10

LEMMA Passing ==
  ASSUME IInv, Tick
  PROVE  IInv'
<1>1. \A n \in Nat : Less(n) \in Nat /\ Less(n) <= n
  BY DEF Less
<1>2. AcctOK'
  <2>1. ASSUME NEW o \in Objects
        PROVE  [acct[o] EXCEPT !.lock = [m \in Models |-> Less(acct[o].lock[m])]] \in Account
    <3>1. acct[o] \in Account /\ acct[o].lock \in [Models -> Nat]
      BY DEF IInv, Accounts, AcctOK, Account
    <3>2. [m \in Models |-> Less(acct[o].lock[m])] \in [Models -> Nat]
      BY <1>1, <3>1
    <3>. QED  BY <3>1, <3>2 DEF Account
  <2>. QED  BY <2>1 DEF Tick, AcctOK
<1>3. ThrottleOK'
  <2>1. until \in [Models -> Nat] /\ recent \in [Models -> [Emails -> 0..Window]]
    BY DEF IInv, Accounts, ThrottleOK
  <2>2. [m \in Models |-> Less(until[m])] \in [Models -> Nat]
    BY <1>1, <2>1
  <2>3. ASSUME NEW m \in Models, NEW e \in Emails
        PROVE  Less(recent[m][e]) \in 0..Window
    <3>1. recent[m][e] \in 0..Window
      BY <2>1
    <3>. QED  BY <3>1, <1>1, Facts
  <2>. QED  BY <2>2, <2>3 DEF Tick, ThrottleOK
<1>4. Calls'
  <2>1. RunOK' /\ ClosedQuiet'
    BY DEF Tick, CallsSame, IInv, Calls, RunOK, ClosedQuiet, Background
  <2>. QED  BY <2>1, CallsKept DEF Tick, CallsSame, IInv
<1>. QED  BY <1>2, <1>3, <1>4 DEF Tick, IInv, Accounts, PoolOK

LEMMA Closing ==
  ASSUME IInv, Close \/ Closed
  PROVE  IInv'
<1>1. UNCHANGED <<manager, req, inFlight, tail>> /\ ClosedQuiet'
  BY DEF Close, Closed, ClosedQuiet, Background
<1>2. RunOK'
  BY Facts DEF Close, Closed, IInv, Calls, RunOK
<1>. QED  BY <1>1, <1>2, CallsKept, SameAccounts DEF IInv

LEMMA Still ==
  ASSUME IInv, UNCHANGED vars
  PROVE  IInv'
<1>1. UNCHANGED <<manager, req, inFlight, tail>>
  BY DEF vars
<1>2. RunOK' /\ ClosedQuiet'
  BY DEF vars, IInv, Calls, RunOK, ClosedQuiet, Background
<1>. QED  BY <1>1, <1>2, CallsKept, SameAccounts DEF IInv

LEMMA Initially == Init => IInv
<1>. SUFFICES ASSUME Init PROVE IInv
  OBVIOUS
<1>1. Accounts
  <2>1. NewAccount \in Account
    BY Facts DEF NewAccount, Account, Free
  <2>2. PoolOK /\ AcctOK
    BY <2>1 DEF Init, PoolOK, AcctOK
  <2>3. ThrottleOK
    BY Facts DEF Init, ThrottleOK
  <2>. QED  BY <2>2, <2>3 DEF Accounts
<1>2. ReqOK /\ MeterOK /\ RunOK /\ TailOver /\ ClosedQuiet
  BY IdleShaped, Facts DEF Init, ReqOK, Shaped, MeterOK, RunOK, TailOver, ClosedQuiet, Chosen
<1>3. MeterExact
  <2>1. \A e \in Emails : Callers(e) = {}
    BY IdleShaped, DispatcherAssumption DEF Init, Callers, Calling
  <2>. QED  BY <2>1, FS_EmptySet DEF Init, MeterExact
<1>. QED  BY <1>1, <1>2, <1>3 DEF IInv, Calls

LEMMA Stepping == IInv /\ [Next]_vars => IInv'
<1>. SUFFICES ASSUME IInv, [Next]_vars PROVE IInv'
  OBVIOUS
<1>1. ASSUME NEW r \in Requests,
             \/ \E m \in Models : Start(r, m)
             \/ Disconnect(r) \/ Step(r) \/ TailEnd(r)
      PROVE  IInv'
  <2>1. CASE Step(r)
    BY <2>1, Beginning, Credentials, Exchange, ReadOn, Retrying, Verdict DEF Step
  <2>. QED  BY <1>1, <2>1, Beginning, Leaving, ReadOn
<1>. QED  BY <1>1, Editing, Passing, Closing, Still DEF Next

LEMMA Always == Spec => []IInv
BY Initially, Stepping, PTL DEF Spec

-----------------------------------------------------------------------------
\* Every variable has its shape in every reachable state: a request makes at most
\* MaxAttempts attempts (dispatcher.go:428), and no two accounts share an email.
THEOREM TypeCorrect == Spec => []TypeOK
<1>1. IInv => TypeOK
  BY DEF IInv, Accounts, Calls, PoolOK, AcctOK, ThrottleOK, ReqOK, MeterOK, RunOK, TypeOK
<1>. QED  BY <1>1, Always, PTL

\* The meter's count of an account (throttlemeter.go) is the number of its
\* outstanding calls, for any number of requests, accounts and retries.
THEOREM MeterCorrect == Spec => []MeterExact
<1>1. IInv => MeterExact
  BY DEF IInv, Calls
<1>. QED  BY <1>1, Always, PTL

\* Once Close has returned, no work that outlives its client is left or begins
\* (outputlimit.go:16-31).
THEOREM CloseCorrect == Spec => []ClosedQuiet
<1>1. IInv => ClosedQuiet
  BY DEF IInv, Calls
<1>. QED  BY <1>1, Always, PTL

-----------------------------------------------------------------------------
(* No answer of upstream locks the whole pool for a day. *)

Brief == Quick \cup Long \cup {Minute}
Soon(o, m) == \E w \in Brief : acct[o].lock[m] <= w
\* A step that keeps every lock, shortens it or sets it to a brief one.
Mild(m) == \A o \in Objects : \/ acct'[o].lock[m] <= acct[o].lock[m]
                              \/ \E w \in Brief : acct'[o].lock[m] <= w

LEMMA LockType ==
  ASSUME AcctOK, NEW o \in Objects, NEW m \in Models
  PROVE  acct[o].lock[m] \in Nat /\ acct[o].lock \in [Models -> Nat]
BY DEF AcctOK, Account

LEMMA MildKeeps ==
  ASSUME IInv, NEW m \in Models, Mild(m), UNCHANGED pool, AcctOK', ~Gone(m)
  PROVE  ~Gone(m)'
<1>1. CASE pool = {}
  BY <1>1 DEF Gone
<1>2. CASE pool # {}
  <2>1. PICK o \in pool, w \in Brief : ~(acct[o].lock[m] > w)
    BY <1>2 DEF Gone, Brief
  <2>2. o \in Objects /\ w \in Nat /\ acct[o].lock[m] \in Nat
    BY <2>1, LockType, Facts DEF IInv, Accounts, PoolOK, Brief, Waits
  <2>3. acct'[o].lock[m] \in Nat
    BY <2>2 DEF AcctOK, Account
  <2>4. \A v \in Brief : v \in Nat
    BY Facts DEF Brief, Waits
  <2>5. \E v \in Brief : ~(acct'[o].lock[m] > v)
    <3>1. CASE acct'[o].lock[m] <= acct[o].lock[m]
      BY <2>1, <2>2, <2>3, <3>1
    <3>2. CASE \E v \in Brief : acct'[o].lock[m] <= v
      BY <2>3, <2>4, <3>2
    <3>. QED  BY <2>2, <3>1, <3>2 DEF Mild
  <2>. QED  BY <2>1, <2>5 DEF Gone, Brief
<1>. QED  BY <1>1, <1>2

\* Every mark but that of a 404 is mild.
LEMMA MarksMild ==
  ASSUME AcctOK, NEW m \in Models, NEW o \in Objects, NEW n \in Models,
         \/ MarkFailure(o, n) \/ MarkInvalid(o) \/ IncrementFailure(o) \/ MarkSuccess(o, n)
         \/ \E w \in Brief : MarkRateLimited(o, n, w)
  PROVE  Mild(m)
<1>1. /\ acct \in [Objects -> Account] /\ acct[o] \in Account
      /\ Minute \in Brief /\ Minute \in Nat /\ \A w \in Brief : w \in Nat
  BY Facts DEF AcctOK, Brief, Waits
<1>2. \A x \in Objects : acct[x].lock[m] \in Nat /\ acct[x].lock \in [Models -> Nat]
  BY LockType
<1>3. \A x \in Objects \ {o} : acct'[x] = acct[x]
  BY <1>1 DEF MarkFailure, MarkInvalid, IncrementFailure, MarkSuccess, MarkRateLimited
<1>4. \/ acct'[o].lock[m] = acct[o].lock[m]
      \/ acct'[o].lock[m] \in Brief \cup {0}
  <2>1. CASE MarkFailure(o, n)
    BY <1>1, <1>2, <2>1 DEF MarkFailure, Account
  <2>2. CASE MarkInvalid(o) \/ IncrementFailure(o)
    BY <1>1, <1>2, <2>2, SMTT(30) DEF MarkInvalid, IncrementFailure, Account
  <2>3. CASE MarkSuccess(o, n)
    BY <1>1, <1>2, <2>3 DEF MarkSuccess, Account
  <2>4. CASE \E w \in Brief : MarkRateLimited(o, n, w)
    <3>1. PICK w \in Brief : MarkRateLimited(o, n, w)
      BY <2>4
    <3>2. acct'[o].lock = [acct[o].lock EXCEPT ![n] = w]
      BY <1>1, <3>1 DEF MarkRateLimited, Account
    <3>. QED  BY <1>2, <3>1, <3>2
  <2>. QED  BY <2>1, <2>2, <2>3, <2>4
<1>5. ASSUME NEW x \in Objects, x # o PROVE acct'[x].lock[m] <= acct[x].lock[m]
  BY <1>2, <1>3, <1>5
<1>6. \/ acct'[o].lock[m] <= acct[o].lock[m]
      \/ \E w \in Brief : acct'[o].lock[m] <= w
  <2>1. CASE acct'[o].lock[m] = acct[o].lock[m]
    BY <1>2, <2>1
  <2>2. CASE acct'[o].lock[m] \in Brief
    <3>1. PICK w \in Brief : acct'[o].lock[m] = w
      BY <2>2
    <3>2. w \in Nat /\ acct'[o].lock[m] <= w
      <4>1. w \in Nat
        BY <1>1
      <4>. QED  BY <3>1, <4>1
    <3>. QED  BY <3>2
  <2>3. CASE acct'[o].lock[m] = 0
    BY <1>2, <2>3
  <2>. QED  BY <1>4, <2>1, <2>2, <2>3
<1>. QED  BY <1>5, <1>6 DEF Mild

LEMMA SameMild ==
  ASSUME AcctOK, NEW m \in Models, UNCHANGED acct
  PROVE  Mild(m)
BY LockType DEF Mild

\* The mark of a 404 leaves the account that is the alternative.
LEMMA MissingKeeps ==
  ASSUME IInv, NEW m \in Models, NEW r \in Requests, Missing(r), ~Gone(m)
  PROVE  ~Gone(m)'
<1>. DEFINE o == req[r].acc
            n == req[r].model
<1>1. o \in Objects /\ n \in Models /\ UNCHANGED pool
  BY Active DEF Missing, Ended, MarksOnly, IInv, Calls, Chosen
<1>2. AcctOK /\ AcctOK' /\ acct \in [Objects -> Account]
  BY Verdict DEF IInv, Accounts, AcctOK
<1>3. CASE ~Alternative(o, n)
  BY <1>1, <1>2, <1>3, SameMild, MildKeeps DEF Missing
<1>4. CASE Alternative(o, n) /\ n # m
  <2>1. \A x \in Objects : acct[x].lock[m] \in Nat /\ acct[x].lock \in [Models -> Nat]
    BY <1>2, LockType
  <2>2. MarkModelUnavailable(o, n)
    BY <1>4 DEF Missing
  <2>3. \A x \in Objects \ {o} : acct'[x] = acct[x]
    BY <1>2, <2>2 DEF MarkModelUnavailable
  <2>4. acct'[o].lock[m] = acct[o].lock[m]
    BY <1>1, <1>2, <1>4, <2>1, <2>2 DEF MarkModelUnavailable, Account
  <2>5. Mild(m)
    BY <2>1, <2>3, <2>4 DEF Mild
  <2>. QED  BY <1>1, <1>2, <2>5, MildKeeps
<1>5. CASE Alternative(o, n) /\ n = m
  <2>1. PICK p \in pool \ {o} : Usable(p, n)
    BY <1>5 DEF Alternative
  <2>2. p \in Objects /\ acct'[p] = acct[p]
    BY <1>2, <1>5, <2>1 DEF Missing, MarkModelUnavailable, IInv, Accounts, PoolOK
  <2>3. acct'[p].lock[m] = 0 /\ Minute \in Nat
    BY <1>5, <2>1, <2>2, Facts DEF Usable
  <2>. QED  BY <1>1, <2>1, <2>3 DEF Gone
<1>. QED  BY <1>3, <1>4, <1>5

\* A model's 404s never become a day-long outage of the whole pool, for any
\* number of accounts and requests: only the operator can leave nobody else
\* (MarkModelUnavailable, manager.go:601-638).
THEOREM NeverAllGone == Spec => NotAllGone
<1>1. ASSUME IInv, IInv', [Next]_vars, NEW m \in Models, edits' = edits, ~Gone(m)
      PROVE  ~Gone(m)'
  <2>1. AcctOK /\ AcctOK'
    BY <1>1 DEF IInv, Accounts
  <2>2. CASE UNCHANGED <<pool, acct>>
    BY <1>1, <2>1, <2>2, SameMild, MildKeeps
  <2>3. CASE Tick
    <3>1. ASSUME NEW o \in Objects PROVE acct'[o].lock[m] <= acct[o].lock[m]
      <4>1. acct[o].lock[m] \in Nat /\ acct[o].lock \in [Models -> Nat] /\ acct[o] \in Account
        BY <2>1, LockType DEF AcctOK
      <4>2. acct'[o].lock[m] = Less(acct[o].lock[m])
        BY <2>3, <4>1 DEF Tick, Account
      <4>. QED  BY <4>1, <4>2 DEF Less
    <3>2. Mild(m)
      BY <3>1 DEF Mild
    <3>. QED  BY <1>1, <2>1, <2>3, <3>2, MildKeeps DEF Tick
  <2>4. ASSUME NEW r \in Requests,
               \/ BadCredentials(r) \/ NoProject(r) \/ Succeed(r) \/ RetryCapacity(r)
               \/ RetryQuick(r) \/ \E w \in Waits : Limited(r, w)
               \/ Failed(r) \/ Invalid(r)
        PROVE  ~Gone(m)'
    <3>1. req[r].step \in Chosen /\ UNCHANGED pool
      BY <2>4 DEF BadCredentials, NoProject, Succeed, RetryCapacity, RetryQuick, Limited,
                  LimitsNow, Failed, Invalid, Ended, MarksOnly, Chosen
    <3>2. req[r].acc \in Objects /\ req[r].model \in Models
      BY <1>1, <3>1, Active DEF IInv, Calls, Chosen
    <3>3. \A w : Limited(r, w) => w \in Brief
      BY <1>1 DEF Limited, LimitsNow, IInv, Calls, ReqOK, Brief
    <3>4. \/ MarkFailure(req[r].acc, req[r].model) \/ MarkInvalid(req[r].acc)
          \/ IncrementFailure(req[r].acc) \/ MarkSuccess(req[r].acc, req[r].model)
          \/ \E w \in Brief : MarkRateLimited(req[r].acc, req[r].model, w)
      BY <2>4, <3>3 DEF BadCredentials, NoProject, Succeed, RetryCapacity, RetryQuick, Limited,
                        Failed, Invalid
    <3>. QED  BY <1>1, <2>1, <3>1, <3>2, <3>4, MarksMild, MildKeeps
  <2>5. ASSUME NEW r \in Requests,
               \/ \E n \in Models : Start(r, n)
               \/ Disconnect(r) \/ TailEnd(r)
               \/ Select(r) \/ Empty(r) \/ Wake(r)
               \/ Resolved(r) \/ AskProject(r) \/ GotProject(r)
               \/ \E how \in {"stream", "guarded"} : Send(r, how)
               \/ PastLimit(r) \/ \E out \in Outcomes : Answered(r, out)
               \/ Refuse(r) \/ \E w \in Waits : SwitchLater(r, w)
               \/ SwitchAbandoned(r)
        PROVE  UNCHANGED <<pool, acct>>
    BY <2>5 DEF Start, Disconnect, TailEnd, Select, Empty, Wake, Resolved, AskProject, GotProject,
                Send, PastLimit, Answered, Refuse, SwitchLater, SwitchAbandoned, NoMarks, manager
  <2>6. ~Operator /\ ~Close
    BY <1>1 DEF Operator, SetAccountEnabled, ClearInvalid, RemoveAccount, AddOrUpdateAccount,
                Edit, Close, IInv, Calls, RunOK
  <2>7. (Closed \/ UNCHANGED vars) => UNCHANGED <<pool, acct>>
    BY DEF Closed, vars, manager
  <2>8. ASSUME NEW r \in Requests, Missing(r) PROVE ~Gone(m)'
    BY <1>1, <2>8, MissingKeeps
  <2>. QED  BY <1>1, <2>2, <2>3, <2>4, <2>5, <2>6, <2>7, <2>8 DEF Next, Step
<1>2. IInv /\ IInv' /\ [Next]_vars
      => [\A m \in Models : Gone(m)' /\ ~Gone(m) => edits' # edits]_vars
  BY <1>1
<1>. QED  BY <1>2, Always, PTL DEF Spec, NotAllGone
=============================================================================
