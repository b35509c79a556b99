----------------------------- MODULE Dispatcher -----------------------------
(***************************************************************************)
(* The Google account pool (internal/accounts/manager.go) and the          *)
(* dispatcher that serves requests with it (dispatcher.go, outputlimit.go, *)
(* throttlemeter.go): which accounts may be selected, what each answer of  *)
(* upstream does to the account, when a request waits, moves to another    *)
(* account or gives up, and how many calls are counted for an account.     *)
(*                                                                         *)
(* The manager replaces account objects (an import, a login, a reload)     *)
(* while requests hold the old ones: an object is a pair <<email, n>>.     *)
(* The strategies (sticky, round-robin, hybrid) are preferences among the  *)
(* usable accounts; Select may return any of them.                         *)
(* Times are countdowns: a lock of w steps is over after w ticks.          *)
(***************************************************************************)
EXTENDS Integers, FiniteSets

CONSTANTS
  Emails, Copies,  \* the objects are Emails \X Copies
  Models,          \* models a client asks for
  Requests,
  None,
  MaxAttempts,     \* max(maxRetries, accounts + 1)
  MaxCapacity,     \* maxCapacityRetries
  FailLimit,       \* failures in a row that lock a model for a minute (3)
  MaxWait,         \* longest wait a request sleeps through
  Window,          \* sharedThrottleWindow
  Quick, Long,     \* waits of a 429: up to ten seconds, and longer ones
  Minute, Day,     \* the locks of MarkFailure and MarkModelUnavailable
  MaxEdits         \* bound: what the operator does, the shutdown included

Objects == Emails \X Copies
Email(o) == o[1]
Longest(a, b) == IF a > b THEN a ELSE b
Waits == Quick \cup Long \cup {Minute, Day}

ASSUME DispatcherAssumption ==
  /\ MaxAttempts \in Nat \ {0} /\ FailLimit \in Nat \ {0} /\ Window \in Nat \ {0}
  /\ MaxCapacity \in Nat /\ MaxEdits \in Nat /\ MaxWait \in Nat
  /\ Waits \subseteq Nat \ {0} /\ Quick \cap Long = {}
  /\ IsFiniteSet(Requests) /\ IsFiniteSet(Emails)
  /\ None \notin Objects \cup Emails \cup Models

VARIABLES
  pool,      \* Manager.accounts
  acct,      \* what each account object says of itself
  until,     \* sharedThrottle.untilMS of each model
  recent,    \* sharedThrottle.recent: accounts rejected inside the window
  inFlight,  \* throttleMeter.inFlight
  req,       \* what each request is doing
  tail,      \* the account of a stream read on after its client has its answer
  closing,   \* Dispatcher.Close
  edits      \* what the operator has done

throttles == <<until, recent>>
manager == <<pool, acct, throttles>>
vars == <<manager, inFlight, req, tail, closing, edits>>

Free == [m \in Models |-> 0]
NewAccount == [enabled |-> TRUE, invalid |-> FALSE, failures |-> 0, lock |-> Free]
Idle == [step |-> "idle", model |-> None, left |-> FALSE, acc |-> None,
         attempt |-> 0, capacity |-> 0, wait |-> 0, out |-> "none"]

Account == [enabled : BOOLEAN, invalid : BOOLEAN, failures : 0..FailLimit, lock : [Models -> Nat]]
Steps == {"idle", "select", "empty", "sleep", "resolve", "project", "ready", "stream", "guarded",
          "over", "switch"}
\* How a call ended, as the dispatcher tells the endings apart.
Outcomes == {"none", "ok", "refused", "failed", "invalid", "missing",
             "capacity", "overloaded", "limited"}
Request == [step : Steps, model : Models \cup {None}, left : BOOLEAN, acc : Objects \cup {None},
            attempt : 0..(MaxAttempts - 1), capacity : 0..MaxCapacity,
            wait : Nat, out : Outcomes]

Init ==
  /\ pool \in {P \in SUBSET Objects : \A o, p \in P : Email(o) = Email(p) => o = p}
  /\ acct = [o \in Objects |-> NewAccount]
  /\ until = [m \in Models |-> 0]
  /\ recent = [m \in Models |-> [e \in Emails |-> 0]]
  /\ inFlight = [e \in Emails |-> 0]
  /\ req = [r \in Requests |-> Idle]
  /\ tail = [r \in Requests |-> None]
  /\ closing = "open" /\ edits = 0

-----------------------------------------------------------------------------
(* The manager. *)

Eligible(o) == acct[o].enabled /\ ~acct[o].invalid
Usable(o, m) == Eligible(o) /\ acct[o].lock[m] = 0
Held(o) == \E r \in Requests : req[r].acc = o

\* One more failure in a row, counted up to the number that matters.
OneMore(n) == IF n < FailLimit THEN n + 1 ELSE n

MarkFailure(o, m) ==
  LET n == OneMore(acct[o].failures)
  IN acct' = [acct EXCEPT ![o].failures = n,
                          ![o].lock[m] = IF n >= FailLimit THEN Minute ELSE @]

MarkInvalid(o) == acct' = [acct EXCEPT ![o].invalid = TRUE]

IncrementFailure(o) == acct' = [acct EXCEPT ![o].failures = OneMore(@)]

\* One account's rejection becomes the pool's when another's is recent too.
RecordSharedThrottle(m, e, w) ==
  IF Cardinality(pool) < 2 THEN UNCHANGED throttles
  ELSE LET seen == [recent[m] EXCEPT ![e] = Window]
       IN /\ recent' = [recent EXCEPT ![m] = seen]
          /\ until' = [until EXCEPT ![m] = IF \E f \in Emails \ {e} : seen[f] > 0
                                           THEN Longest(@, w) ELSE @]

MarkRateLimited(o, m, w) ==
  /\ acct' = [acct EXCEPT ![o].lock[m] = w, ![o].failures = OneMore(@)]
  /\ RecordSharedThrottle(m, Email(o), w)

\* (wrong variant: an account that is locked counts)
AlternativeLocked(o, m) == \E p \in pool \ {o} : Eligible(p)

\* Another account that can serve the model.
Alternative(o, m) == \E p \in pool \ {o} : Usable(p, m)

MarkModelUnavailable(o, m) == acct' = [acct EXCEPT ![o].lock[m] = Day]

MarkSuccess(o, m) ==
  /\ acct' = [acct EXCEPT ![o].failures = 0, ![o].lock[m] = 0]
  /\ until' = [until EXCEPT ![m] = 0]
  /\ recent' = [recent EXCEPT ![m] = [e \in Emails |-> 0]]

AllInvalid == LET on == {o \in pool : acct[o].enabled}
              IN on # {} /\ \A o \in on : acct[o].invalid
\* The shortest lock of the model, of whatever account has it.
MinWait(m) == LET locks == {acct[o].lock[m] : o \in pool} \ {0}
              IN IF locks = {} THEN 0 ELSE CHOOSE w \in locks : \A v \in locks : w <= v

-----------------------------------------------------------------------------
(* A request, up to its call. *)

\* (wrong variant: one attempt too many)
NextAttemptLate(r) ==
  LET q == req[r]
  IN req' = [req EXCEPT ![r] =
               IF q.attempt < MaxAttempts
               THEN [Idle EXCEPT !.step = "select", !.model = q.model, !.left = q.left,
                                 !.attempt = q.attempt + 1]
               ELSE Idle]

\* The next attempt, or "max retries exceeded".
NextAttempt(r) ==
  LET q == req[r]
  IN req' = [req EXCEPT ![r] =
               IF q.attempt + 1 < MaxAttempts
               THEN [Idle EXCEPT !.step = "select", !.model = q.model, !.left = q.left,
                                 !.attempt = q.attempt + 1]
               ELSE Idle]
End(r) == req' = [req EXCEPT ![r] = Idle]
Goto(r, s) == req' = [req EXCEPT ![r].step = s]

Begin(e) == inFlight' = [inFlight EXCEPT ![e] = @ + 1]
Return(e) == inFlight' = [inFlight EXCEPT ![e] = IF @ > 0 THEN @ - 1 ELSE 0]

CallsSame == UNCHANGED <<inFlight, tail, closing, edits>>
NoMarks == CallsSame /\ UNCHANGED <<manager>>
MarksOnly == CallsSame /\ UNCHANGED pool

\* StreamGenerateContent.  The goroutine that reads a stream on after the
\* request has ended keeps the request's name.
Start(r, m) ==
  /\ req[r].step = "idle" /\ tail[r] = None
  /\ req' = [req EXCEPT ![r] = [Idle EXCEPT !.step = "select", !.model = m]]
  /\ NoMarks

\* Where it is noticed that the client is gone.
Watched == {"sleep", "resolve", "project", "ready", "stream", "guarded", "switch"}

\* The client goes away.  When it leaves at another step, that is noticed at the
\* next of these and at no other, as if it had left there.
Disconnect(r) ==
  /\ req[r].step \in Watched /\ ~req[r].left
  /\ req' = [req EXCEPT ![r].left = TRUE]
  /\ NoMarks

\* What Select says of the wait when it finds nobody: the pool's throttle, the
\* lock of the account that sticky stays with, or nothing.
SelectWaits(m) ==
  IF until[m] > 0 THEN {until[m]} ELSE {0} \cup {acct[o].lock[m] : o \in {p \in pool : Eligible(p)}}

Select(r) ==
  /\ req[r].step = "select"
  /\ LET m == req[r].model
         usable == {o \in pool : Usable(o, m)}
     IN IF until[m] = 0 /\ usable # {}
        THEN \E o \in usable : req' = [req EXCEPT ![r].step = "resolve", ![r].acc = o]
        ELSE \E w \in SelectWaits(m) : req' = [req EXCEPT ![r].step = "empty", ![r].wait = w]
  /\ NoMarks

\* Nobody can serve the model: sleep when the wait is short, else give up.
Empty(r) ==
  /\ req[r].step = "empty"
  /\ LET wait == IF req[r].wait > 0 THEN req[r].wait ELSE MinWait(req[r].model)
     IN IF ~AllInvalid /\ wait > 0 /\ wait <= MaxWait
        THEN req' = [req EXCEPT ![r].step = "sleep", ![r].wait = 0]
        ELSE End(r)
  /\ NoMarks

\* A sleep ends with its time or with the client.
Wake(r) ==
  /\ req[r].step = "sleep"
  /\ IF req[r].left THEN End(r) ELSE Goto(r, "select")
  /\ NoMarks

\* Resolver.Resolve fails: for good, or this time.  What runs under the context
\* of a client that left ends with the cancellation.
BadCredentials(r) ==
  /\ req[r].step = "resolve"
  /\ \/ ~req[r].left /\ MarkInvalid(req[r].acc)
     \/ IncrementFailure(req[r].acc)
  /\ NextAttempt(r)
  /\ MarksOnly /\ UNCHANGED throttles

\* The token and the project are known.
Resolved(r) ==
  /\ req[r].step = "resolve"
  /\ Goto(r, "ready")
  /\ NoMarks

\* LoadCodeAssist asks for the account's project.
AskProject(r) ==
  /\ req[r].step = "resolve"
  /\ Begin(Email(req[r].acc))
  /\ Goto(r, "project")
  /\ UNCHANGED <<manager, tail, closing, edits>>

GotProject(r) ==
  /\ req[r].step = "project" /\ ~req[r].left
  /\ Return(Email(req[r].acc))
  /\ Goto(r, "ready")
  /\ UNCHANGED <<manager, tail, closing, edits>>

NoProject(r) ==
  /\ req[r].step = "project"
  /\ Return(Email(req[r].acc))
  /\ MarkFailure(req[r].acc, req[r].model)
  /\ NextAttempt(r)
  /\ UNCHANGED <<pool, throttles, tail, closing, edits>>

-----------------------------------------------------------------------------
(* A request's call and what its answer does. *)

\* (wrong variant: what is refused after Close keeps its count)
SendCounted(r, how) ==
  /\ req[r].step = "ready"
  /\ Begin(Email(req[r].acc))
  /\ IF req[r].left \/ (how = "guarded" /\ closing # "open") THEN End(r) ELSE Goto(r, how)
  /\ UNCHANGED <<manager, tail, closing, edits>>

\* (wrong variant: a background read starts whether or not Close has begun)
SendAnyway(r, how) ==
  /\ req[r].step = "ready"
  /\ IF req[r].left THEN End(r) /\ UNCHANGED inFlight
     ELSE Goto(r, how) /\ Begin(Email(req[r].acc))
  /\ UNCHANGED <<manager, tail, closing, edits>>

\* The client asked for less than the catalog's limit (guarded) or not.  A read
\* that may outlive the client does not start once Close has begun: it is counted
\* before it is refused (dispatcher.go 498) and no longer afterwards (outputlimit.go
\* 156), which is one step here, and leaves the count as it was.
Send(r, how) ==
  /\ req[r].step = "ready"
  /\ IF req[r].left \/ (how = "guarded" /\ closing # "open")
     THEN End(r) /\ UNCHANGED inFlight
     ELSE Goto(r, how) /\ Begin(Email(req[r].acc))
  /\ UNCHANGED <<manager, tail, closing, edits>>

\* The client's limit is reached: it has its answer, the stream is read on.
PastLimit(r) ==
  /\ req[r].step = "guarded"
  /\ req' = [req EXCEPT ![r].step = "over", ![r].out = "ok"]
  /\ tail' = [tail EXCEPT ![r] = Email(req[r].acc)]
  /\ UNCHANGED <<manager, inFlight, closing, edits>>

TailEnd(r) ==
  /\ tail[r] # None
  /\ Return(tail[r])
  /\ tail' = [tail EXCEPT ![r] = None]
  /\ UNCHANGED <<manager, req, closing, edits>>

\* The call returns.  An error after the first event goes to the client as it
\* is, like a refusal.
Answered(r, out) ==
  /\ req[r].step \in {"stream", "guarded"} /\ out # "none"
  /\ req[r].left => out = "refused"
  /\ Return(Email(req[r].acc))
  /\ req' = [req EXCEPT ![r].step = "over", ![r].out = out]
  /\ UNCHANGED <<manager, tail, closing, edits>>

Ended(r, outs) == req[r].step = "over" /\ req[r].out \in outs

Succeed(r) ==
  /\ Ended(r, {"ok"})
  /\ MarkSuccess(req[r].acc, req[r].model)
  /\ End(r)
  /\ MarksOnly

Refuse(r) ==
  /\ Ended(r, {"refused"})
  /\ End(r)
  /\ NoMarks

\* No capacity upstream: the same account again, a bounded number of times.
Patient(r) == req[r].capacity < MaxCapacity

RetryCapacity(r) ==
  /\ Ended(r, {"capacity", "overloaded"}) /\ Patient(r)
  /\ IncrementFailure(req[r].acc)
  /\ req' = [req EXCEPT ![r].step = "ready", ![r].capacity = @ + 1, ![r].out = "none"]
  /\ MarksOnly /\ UNCHANGED throttles

\* A short limit on an account that had not failed: the same account again.
RetryQuick(r) ==
  /\ Ended(r, {"limited"})
  /\ Quick # {} /\ acct[req[r].acc].failures = 0
  /\ IncrementFailure(req[r].acc)
  /\ req' = [req EXCEPT ![r].step = "ready", ![r].out = "none"]
  /\ MarksOnly /\ UNCHANGED throttles

\* A long limit waits switchDelay before it is marked.
SwitchLater(r, w) ==
  /\ Ended(r, {"limited"}) /\ w \in Long
  /\ req' = [req EXCEPT ![r].step = "switch", ![r].wait = w]
  /\ NoMarks

\* The limits that are marked at once.
LimitsNow(r, w) ==
  \/ Ended(r, {"capacity"}) /\ ~Patient(r) /\ w \in Long
  \/ Ended(r, {"limited"}) /\ w \in Quick /\ acct[req[r].acc].failures > 0
  \/ req[r].step = "switch" /\ ~req[r].left /\ w = req[r].wait

Limited(r, w) ==
  /\ LimitsNow(r, w)
  /\ MarkRateLimited(req[r].acc, req[r].model, w)
  /\ NextAttempt(r)
  /\ MarksOnly

\* A client that leaves during switchDelay takes the limit with it.
SwitchAbandoned(r) ==
  /\ req[r].step = "switch" /\ req[r].left
  /\ End(r)
  /\ NoMarks

Failed(r) ==
  /\ \/ Ended(r, {"failed"})
     \/ Ended(r, {"overloaded"}) /\ ~Patient(r)
  /\ MarkFailure(req[r].acc, req[r].model)
  /\ NextAttempt(r)
  /\ MarksOnly /\ UNCHANGED throttles

Invalid(r) ==
  /\ Ended(r, {"invalid"})
  /\ MarkInvalid(req[r].acc)
  /\ NextAttempt(r)
  /\ MarksOnly /\ UNCHANGED throttles

\* A 404 is the answer unless another account can serve the model.
Missing(r) ==
  /\ Ended(r, {"missing"})
  /\ IF Alternative(req[r].acc, req[r].model)
     THEN MarkModelUnavailable(req[r].acc, req[r].model) /\ NextAttempt(r)
     ELSE End(r) /\ UNCHANGED acct
  /\ MarksOnly /\ UNCHANGED throttles

-----------------------------------------------------------------------------
(* The operator, the clock and the shutdown. *)

Edit == edits < MaxEdits /\ edits' = edits + 1 /\ UNCHANGED <<inFlight, tail, closing>>

SetAccountEnabled(o, b) ==
  /\ o \in pool /\ acct[o].enabled # b
  /\ acct' = [acct EXCEPT ![o].enabled = b]
  /\ Edit /\ UNCHANGED <<pool, throttles, req>>

ClearInvalid(o) ==
  /\ o \in pool /\ acct[o].invalid
  /\ acct' = [acct EXCEPT ![o].invalid = FALSE]
  /\ Edit /\ UNCHANGED <<pool, throttles, req>>

RemoveAccount(o) ==
  /\ o \in pool
  /\ pool' = pool \ {o}
  /\ Edit /\ UNCHANGED <<acct, throttles, req>>

\* A login or an import: a new object, in place of the one with its email.
AddOrUpdateAccount(o) ==
  /\ o \notin pool /\ ~Held(o)
  /\ pool' = {p \in pool : Email(p) # Email(o)} \cup {o}
  /\ acct' = [acct EXCEPT ![o] = NewAccount]
  /\ Edit /\ UNCHANGED <<throttles, req>>

Less(n) == IF n > 0 THEN n - 1 ELSE 0
Pending == \/ \E o \in Objects, m \in Models : acct[o].lock[m] > 0
           \/ \E m \in Models : until[m] > 0 \/ \E e \in Emails : recent[m][e] > 0

Tick ==
  /\ Pending
  /\ acct' = [o \in Objects |-> [acct[o] EXCEPT !.lock = [m \in Models |-> Less(acct[o].lock[m])]]]
  /\ until' = [m \in Models |-> Less(until[m])]
  /\ recent' = [m \in Models |-> [e \in Emails |-> Less(recent[m][e])]]
  /\ CallsSame /\ UNCHANGED <<pool, req>>

\* The reads of streams that may outlive their clients.  agy's calls at the start of
\* a conversation, not modelled, are counted and waited for in the same way
\* (goBackground); the shared fetch of the catalog and the search for a missing
\* model (dispatcher.go 285-306, 662) are goroutines Close knows nothing of.
Background(r) == tail[r] # None \/ req[r].step = "guarded"

Close ==
  /\ closing = "open" /\ edits < MaxEdits
  /\ closing' = "closing" /\ edits' = edits + 1
  /\ UNCHANGED <<manager, inFlight, req, tail>>

Closed ==
  /\ closing = "closing" /\ \A r \in Requests : ~Background(r)
  /\ closing' = "closed"
  /\ UNCHANGED <<manager, inFlight, req, tail, edits>>

-----------------------------------------------------------------------------
Step(r) ==
  \/ Select(r) \/ Empty(r) \/ Wake(r)
  \/ BadCredentials(r) \/ Resolved(r) \/ AskProject(r) \/ GotProject(r) \/ NoProject(r)
  \/ \E how \in {"stream", "guarded"} : Send(r, how)
  \/ PastLimit(r) \/ \E out \in Outcomes : Answered(r, out)
  \/ Succeed(r) \/ Refuse(r) \/ RetryCapacity(r) \/ RetryQuick(r)
  \/ \E w \in Waits : SwitchLater(r, w) \/ Limited(r, w)
  \/ SwitchAbandoned(r) \/ Failed(r) \/ Invalid(r) \/ Missing(r)

Operator ==
  \E o \in Objects : \/ \E b \in BOOLEAN : SetAccountEnabled(o, b)
                     \/ ClearInvalid(o) \/ RemoveAccount(o) \/ AddOrUpdateAccount(o)

Next ==
  \/ \E r \in Requests : \/ \E m \in Models : Start(r, m)
                        \/ Disconnect(r) \/ Step(r) \/ TailEnd(r)
  \/ Operator \/ Tick \/ Close \/ Closed

Spec == Init /\ [][Next]_vars

-----------------------------------------------------------------------------
Chosen == {"resolve", "project", "ready", "stream", "guarded", "over", "switch"}

\* Every variable has its shape: no two objects of the pool have one email, a
\* request makes at most MaxAttempts attempts, and past Select it has an account.
TypeOK ==
  /\ pool \subseteq Objects /\ \A o, p \in pool : Email(o) = Email(p) => o = p
  /\ acct \in [Objects -> Account]
  /\ until \in [Models -> Nat] /\ recent \in [Models -> [Emails -> 0..Window]]
  /\ inFlight \in [Emails -> Nat]
  /\ req \in [Requests -> Request]
  /\ \A r \in Requests : req[r].step \in Chosen => req[r].acc # None
  /\ tail \in [Requests -> Emails \cup {None}]
  /\ closing \in {"open", "closing", "closed"} /\ edits \in 0..MaxEdits

\* The calls that are outstanding on an account.
Calling(r, e) == \/ req[r].step \in {"project", "stream", "guarded"} /\ Email(req[r].acc) = e
                 \/ tail[r] = e
Callers(e) == {r \in Requests : Calling(r, e)}

\* The meter's in-flight count of an account (throttlemeter.go) is the number
\* of its outstanding calls, whatever way they begin and end: retries,
\* refusals after Close, streams read on past their client's limit
\* (outputlimit.go:60-75), accounts removed meanwhile.
MeterExact == \A e \in Emails : inFlight[e] = Cardinality(Callers(e))

\* Close (outputlimit.go:16-31) waits for the streams that are read on for clients
\* that have left: once it has returned none is being read and none begins.
ClosedQuiet == closing = "closed" => \A r \in Requests : ~Background(r)

\* Every account of the pool is locked for longer than any limit or failure does.
Gone(m) == pool # {} /\ \A o \in pool, w \in Quick \cup Long \cup {Minute} : acct[o].lock[m] > w

\* Answers of upstream never turn a model's 404s into a day-long outage of the
\* whole pool (manager.go:601-607), however those of concurrent requests and the
\* operator's edits are ordered: only the operator can leave nobody else.
NotAllGone == [][\A m \in Models : Gone(m)' /\ ~Gone(m) => edits' # edits]_vars
=============================================================================
