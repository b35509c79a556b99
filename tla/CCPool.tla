------------------------------- MODULE CCPool -------------------------------
(***************************************************************************)
(* The Claude Code account pool (internal/claudecode/pool.go) and the      *)
(* requests that use it (forwardToClaudeCode and sendClaudeCodeBump in     *)
(* internal/api): which account serves a session, how long an account that *)
(* failed is left alone, and how many requests each account carries.       *)
(*                                                                         *)
(* A request keeps the pool it started with; a change of the configuration *)
(* replaces the pool.  An account of a pool is a slot <<pool, account>>.   *)
(* Times are in steps of the default cooldowns (10 s and 30 s).            *)
(***************************************************************************)
EXTENDS Integers, FiniteSets

CONSTANTS
  Accounts, Sessions, Requests,
  None,
  Priority,    \* the configured priority of each account
  MaxAttempts, \* accounts a request tries (3)
  FailLimit,   \* failures in a row that cool an account down (3)
  MaxSticky,   \* maxStickyEntries
  EvictBatch,  \* entries evicted at once (maxStickyEntries / 10)
  Delays,      \* what upstream says of resets and retry-after, from now
  MaxGen,      \* bound: generations of the pool
  MaxTime      \* bound

Default == 1   \* the default cooldown

ASSUME PoolAssumption ==
  /\ MaxAttempts \in Nat \ {0} /\ FailLimit \in Nat \ {0}
  /\ MaxSticky \in Nat \ {0} /\ EvictBatch \in 1..MaxSticky
  /\ MaxGen \in Nat \ {0} /\ MaxTime \in Nat \ {0}
  /\ Delays \subseteq Nat \ {0}
  /\ Priority \in [Accounts -> Nat]
  /\ None \notin Accounts \cup Sessions
  /\ IsFiniteSet(Requests)

Gens == 1..MaxGen
Slots == Gens \X Accounts

VARIABLES
  now,
  current,    \* the pool handed to new requests
  live,       \* AccountPool.accounts has the account
  enabled, inFlight, fails, cooldown,  \* Enabled, InFlight, ConsecutiveFailures, CooldownUntil
  limits,     \* RateLimits: the unified snapshot u, and until when another limit is exhausted
  sticky, stickyAt,
  req,        \* what each request is doing
  removed,    \* history: the slots that were deleted
  closed      \* history: until when a 429 said the slot's window is closed

slotVars == <<live, enabled, inFlight, fails, cooldown, limits>>
stickyVars == <<sticky, stickyAt>>
history == <<removed, closed>>
vars == <<now, current, slotVars, stickyVars, req, history>>

NoUnified == [obs |-> 0, reset |-> 0, rejected |-> FALSE]
NoLimits == [u |-> NoUnified, busy |-> 0]
Idle == [step |-> "idle", bump |-> FALSE, gen |-> 1, sess |-> None, acc |-> None,
         tries |-> 0, excluded |-> {}, lim |-> NoLimits]

SlotOf(r) == <<req[r].gen, req[r].acc>>
\* The requests between Acquire and Release of an account.
Holders(k) == {r \in Requests : req[r].step \in {"sent", "stream", "copy"} /\ SlotOf(r) = k}

Later(a, b) == IF a > b THEN a ELSE b

(***************************************************************************)
(* Health of an account                                                    *)
(***************************************************************************)

IsRateLimited(lim) == (lim.u.rejected /\ lim.u.reset > now) \/ lim.busy > now

Healthy(k) == enabled[k] /\ cooldown[k] <= now /\ ~IsRateLimited(limits[k])

\* What the headers of an answer may say: nothing, a unified snapshot, a limit
\* of another kind (remaining 0, or a retry-after) that is exhausted for a
\* while, or both (beside a rejected window the cooldown heeds a retry-after
\* only); or a limit that is not exhausted (the time 1 has always passed).
Headers ==
  {[u |-> NoUnified, busy |-> 1]}
    \cup [u : {NoUnified} \cup {[obs |-> now, reset |-> now + d, rejected |-> b] :
                                  d \in Delays, b \in BOOLEAN},
          busy : {0} \cup {now + d : d \in Delays}]

\* The snapshots the account store may hold, from this run or an earlier one,
\* that still describe a window.
Stored ==
  {NoUnified}
    \cup {u \in {[obs |-> o, reset |-> o + d, rejected |-> b] :
                   o \in 1..now, d \in Delays, b \in BOOLEAN} : u.reset > now}

\* A limit that has passed is as good as none.
MergeRateLimits(prev, next) ==
  [u |-> IF next.u = NoUnified /\ prev.u.reset > now THEN prev.u ELSE next.u,
   busy |-> IF next.busy > now THEN next.busy ELSE 0]

\* Answers without limits change nothing.
Noted(k, lim) ==
  IF lim = NoLimits \/ ~live[k] THEN limits
  ELSE [limits EXCEPT ![k] = MergeRateLimits(@, lim)]

\* (wrong variant: a new cooldown replaces the one that runs)
ExtendedReplacing(k, until) ==
  IF live[k] THEN [cooldown EXCEPT ![k] = until] ELSE cooldown

\* A cooldown is only ever extended.
Extended(k, until) ==
  IF live[k] THEN [cooldown EXCEPT ![k] = Later(@, until)] ELSE cooldown

CooldownOf(lim) ==
  IF lim.u.rejected THEN Later(lim.u.reset, lim.busy)
  ELSE IF lim.busy > now THEN lim.busy ELSE now + Default

Released(k) == [inFlight EXCEPT ![k] = IF live[k] /\ @ > 0 THEN @ - 1 ELSE @]

(***************************************************************************)
(* Selection                                                               *)
(***************************************************************************)

Candidates(g, excluded) == {a \in Accounts \ excluded : live[<<g, a>>] /\ Healthy(<<g, a>>)}

\* By priority, then load, then failures; the total of requests breaks ties.
Better(g, a, b) ==
  LET k == <<g, a>>  l == <<g, b>> IN
  \/ Priority[a] < Priority[b]
  \/ /\ Priority[a] = Priority[b]
     /\ \/ inFlight[k] < inFlight[l]
        \/ inFlight[k] = inFlight[l] /\ fails[k] < fails[l]

Ranked(g, excluded) ==
  LET C == Candidates(g, excluded) IN {a \in C : ~\E b \in C : Better(g, b, a)}

Mapped(g) == {s \in Sessions : sticky[g][s] # None}

\* evictOldestSticky: the entries used longest ago.
EvictOldest(g, E) ==
  /\ E \subseteq Mapped(g) /\ Cardinality(E) = EvictBatch
  /\ \A e \in E, s \in Mapped(g) \ E : stickyAt[g][e] <= stickyAt[g][s]

\* The session s is mapped to a; a full map loses its oldest entries first.
Stick(g, s, a) ==
  \E E \in SUBSET Mapped(g) :
    /\ IF Cardinality(Mapped(g)) >= MaxSticky THEN EvictOldest(g, E) ELSE E = {}
    /\ sticky' = [sticky EXCEPT ![g] =
         [t \in Sessions |-> IF t = s THEN a ELSE IF t \in E THEN None ELSE @[t]]]
    /\ stickyAt' = [stickyAt EXCEPT ![g] =
         [t \in Sessions |-> IF t = s THEN now ELSE IF t \in E THEN 0 ELSE @[t]]]

Chosen(r, a) == req' = [req EXCEPT ![r].step = "chosen", ![r].acc = a]

\* (wrong variant: the affinity of the session is not looked at)
StickyHitNever(r) == {}

\* The account of the session, if it may serve this attempt.
StickyHit(r) ==
  LET g == req[r].gen  s == req[r].sess IN
  {a \in Candidates(g, req[r].excluded) : s # None /\ sticky[g][s] = a}

SelectAccount(r) ==
  LET g == req[r].gen  s == req[r].sess IN
  /\ req[r].step = "select" /\ req[r].tries < MaxAttempts
  /\ \/ \E a \in StickyHit(r) :
          /\ Chosen(r, a)
          /\ stickyAt' = [stickyAt EXCEPT ![g][s] = now]
          /\ UNCHANGED sticky
     \/ /\ StickyHit(r) = {}
        /\ \E a \in Ranked(g, req[r].excluded) :
             /\ Chosen(r, a)
             /\ IF s # None THEN Stick(g, s, a) ELSE UNCHANGED stickyVars
  /\ UNCHANGED <<now, current, slotVars, history>>

\* No account, or no attempt, is left: the client gets the last 429, or a 503.
GiveUp(r) ==
  /\ req[r].step = "select"
  /\ req[r].tries = MaxAttempts \/ Candidates(req[r].gen, req[r].excluded) = {}
  /\ req' = [req EXCEPT ![r] = Idle]
  /\ UNCHANGED <<now, current, slotVars, stickyVars, history>>

(***************************************************************************)
(* A request                                                               *)
(***************************************************************************)

Start(r, s) ==
  /\ req[r].step = "idle"
  /\ req' = [req EXCEPT ![r] = [Idle EXCEPT !.step = "select", !.gen = current, !.sess = s]]
  /\ UNCHANGED <<now, current, slotVars, stickyVars, history>>

\* A bump is pinned to the account of the turn it repeats.
StartBump(r, a) ==
  LET k == <<current, a>> IN
  /\ req[r].step = "idle"
  /\ live[k] /\ enabled[k] /\ cooldown[k] <= now
  /\ req' = [req EXCEPT ![r] = [Idle EXCEPT !.step = "chosen", !.bump = TRUE,
                                            !.gen = current, !.acc = a]]
  /\ UNCHANGED <<now, current, slotVars, stickyVars, history>>

Acquire(r) ==
  LET k == SlotOf(r) IN
  /\ req[r].step = "chosen"
  /\ inFlight' = [inFlight EXCEPT ![k] = IF live[k] THEN @ + 1 ELSE @]
  /\ req' = [req EXCEPT ![r].step = "sent"]
  /\ UNCHANGED <<now, current, live, enabled, fails, cooldown, limits, stickyVars, history>>

\* A turn tries another account, a bump ends.
FailOver(r) ==
  LET q == req[r] IN
  req' = [req EXCEPT ![r] =
    IF q.bump THEN Idle
    ELSE [q EXCEPT !.step = "select", !.acc = None, !.tries = q.tries + 1,
                   !.excluded = q.excluded \cup {q.acc}]]

\* RecordFailure (the count matters up to FailLimit): failures in a row cool the
\* account down like an error of the server.
Failed(k, is5xx, until) ==
  /\ fails' = IF live[k] /\ fails[k] < FailLimit THEN [fails EXCEPT ![k] = @ + 1] ELSE fails
  /\ cooldown' = IF is5xx \/ fails'[k] >= FailLimit THEN Extended(k, until) ELSE cooldown

\* No answer (a bump leaves no record of that), or a 401 that a fresh token
\* does not cure.
TransportError(r) ==
  LET k == SlotOf(r) IN
  /\ req[r].step = "sent"
  /\ inFlight' = Released(k)
  /\ IF req[r].bump THEN UNCHANGED <<fails, cooldown>>
     ELSE \E unauthorized \in BOOLEAN : Failed(k, unauthorized, now + Default)
  /\ FailOver(r)
  /\ UNCHANGED <<now, current, live, enabled, limits, stickyVars, history>>

\* (wrong variant: the account is not released before the failover)
RateLimitedHolding(r) ==
  LET k == SlotOf(r) IN
  /\ req[r].step = "sent"
  /\ \E lim \in Headers :
       /\ limits' = Noted(k, lim)
       /\ cooldown' = Extended(k, CooldownOf(lim))
       /\ closed' = [closed EXCEPT ![k] =
            IF live[k] /\ lim.u.rejected THEN Later(@, lim.u.reset) ELSE @]
  /\ FailOver(r)
  /\ UNCHANGED <<now, current, live, enabled, inFlight, fails, stickyVars, removed>>

\* 429: RecordRateLimit.
RateLimited(r) ==
  LET k == SlotOf(r) IN
  /\ req[r].step = "sent"
  /\ inFlight' = Released(k)
  /\ \E lim \in Headers :
       /\ limits' = Noted(k, lim)
       /\ cooldown' = Extended(k, CooldownOf(lim))
       /\ closed' = [closed EXCEPT ![k] =
            IF live[k] /\ lim.u.rejected THEN Later(@, lim.u.reset) ELSE @]
  /\ FailOver(r)
  /\ UNCHANGED <<now, current, live, enabled, fails, stickyVars, removed>>

\* An error that goes to the client as it is: a 5xx cools the account down, a
\* 4xx counts.
UpstreamError(r) ==
  /\ req[r].step = "sent"
  /\ \/ Failed(SlotOf(r), TRUE, now + Default)
     \/ Failed(SlotOf(r), FALSE, now)
  /\ req' = [req EXCEPT ![r].step = "copy"]
  /\ UNCHANGED <<now, current, live, enabled, inFlight, limits, stickyVars, history>>

\* RecordSuccess, with the limits the answer began with.
Succeeded(k, lim) ==
  /\ fails' = IF live[k] THEN [fails EXCEPT ![k] = 0] ELSE fails
  /\ limits' = Noted(k, lim)

\* A stream is recorded when it ends, a plain body at once unless it is too
\* long or cannot be read; a bump only tells the pool of the limits.
Answer(r) ==
  LET k == SlotOf(r) IN
  /\ req[r].step = "sent"
  /\ \E lim \in Headers :
     /\ \/ /\ ~req[r].bump
           /\ req' = [req EXCEPT ![r].step = "stream", ![r].lim = lim]
           /\ UNCHANGED <<fails, limits>>
        \/ /\ IF req[r].bump THEN limits' = Noted(k, lim) /\ UNCHANGED fails
              ELSE Succeeded(k, lim) \/ UNCHANGED <<fails, limits>>
           /\ req' = [req EXCEPT ![r].step = "copy"]
  /\ UNCHANGED <<now, current, live, enabled, inFlight, cooldown, stickyVars, removed, closed>>

\* The body has been copied, or the client is gone.
Finish(r) ==
  LET k == SlotOf(r) IN
  /\ \/ req[r].step = "stream" /\ Succeeded(k, req[r].lim)
     \/ req[r].step = "copy" /\ UNCHANGED <<fails, limits>>
  /\ inFlight' = Released(k)
  /\ req' = [req EXCEPT ![r] = Idle]
  /\ UNCHANGED <<now, current, live, enabled, cooldown, stickyVars, history>>

(***************************************************************************)
(* The operator                                                            *)
(***************************************************************************)

\* The slots S made anew, as NewAccountPool and AddOrUpdateAccount make them:
\* those of L live, those of E enabled, with the unified snapshots U.
Fresh(S, L, E, U) ==
  /\ live' = [k \in Slots |-> IF k \in S THEN k \in L ELSE live[k]]
  /\ enabled' = [k \in Slots |-> IF k \in S THEN k \in E ELSE enabled[k]]
  /\ inFlight' = [k \in Slots |-> IF k \in S THEN 0 ELSE inFlight[k]]
  /\ fails' = [k \in Slots |-> IF k \in S THEN 0 ELSE fails[k]]
  /\ cooldown' = [k \in Slots |-> IF k \in S THEN 0 ELSE cooldown[k]]
  /\ limits' = [k \in Slots |-> IF k \in S THEN [u |-> U[k], busy |-> 0] ELSE limits[k]]
  /\ closed' = [k \in Slots |-> IF k \in S THEN 0 ELSE closed[k]]

Blank == [k \in Slots |-> NoUnified]

\* (wrong variant: the sessions of the account stay mapped to it)
DeleteAccountOnly(a) ==
  LET k == <<current, a>> IN
  /\ live[k]
  /\ Fresh({k}, {}, {}, Blank)
  /\ removed' = removed \cup {k}
  /\ UNCHANGED <<now, current, stickyVars, req>>

DeleteAccount(a) ==
  LET k == <<current, a>> IN
  /\ live[k]
  /\ Fresh({k}, {}, {}, Blank)
  /\ sticky' = [sticky EXCEPT ![current] =
       [s \in Sessions |-> IF @[s] = a THEN None ELSE @[s]]]
  /\ stickyAt' = [stickyAt EXCEPT ![current] =
       [s \in Sessions |-> IF sticky[current][s] = a THEN 0 ELSE @[s]]]
  /\ removed' = removed \cup {k}
  /\ UNCHANGED <<now, current, req>>

\* A login adds the account, or enables the one there is.
AddOrUpdateAccount(a) ==
  LET k == <<current, a>> IN
  /\ IF live[k]
     THEN /\ enabled' = [enabled EXCEPT ![k] = TRUE]
          /\ UNCHANGED <<live, inFlight, fails, cooldown, limits, closed>>
     ELSE Fresh({k}, {k}, {k}, Blank)
  /\ UNCHANGED <<now, current, stickyVars, req, removed>>

\* InheritUnified, then RestoreStoredUnified where nothing was inherited.
Inherited(U) ==
  [k \in Slots |->
     LET l == <<current, k[2]>> IN
     IF live[l] /\ limits[l].u # NoUnified THEN limits[l].u ELSE U[k[2]]]

\* getOrCreateCCPool after a change of the accounts: of the accounts that
\* survive the new pool keeps the unified snapshots, and nothing else.
Rebuild ==
  /\ current < MaxGen
  /\ current' = current + 1
  /\ \E S \in SUBSET Accounts : \E E \in SUBSET S, U \in [Accounts -> Stored] :
       Fresh({current + 1} \X Accounts, {current + 1} \X S, {current + 1} \X E, Inherited(U))
  /\ UNCHANGED <<now, stickyVars, req, removed>>

\* A query of the limits from the management page, for the pool it began with.
UpdateAccountRateLimits(k) ==
  /\ k[1] <= current
  /\ \E lim \in Headers : limits' = Noted(k, lim)
  /\ UNCHANGED <<now, current, live, enabled, inFlight, fails, cooldown, stickyVars, req,
                 removed, closed>>

Tick == now < MaxTime /\ now' = now + 1
        /\ UNCHANGED <<current, slotVars, stickyVars, req, history>>

(***************************************************************************)
(* Specification                                                           *)
(***************************************************************************)

Init ==
  /\ now = 1 /\ current = 1
  /\ live = [k \in Slots |-> k[1] = 1]
  /\ enabled = [k \in Slots |-> k[1] = 1]
  /\ inFlight = [k \in Slots |-> 0]
  /\ fails = [k \in Slots |-> 0]
  /\ cooldown = [k \in Slots |-> 0]
  /\ \E U \in [Accounts -> Stored] :
       limits = [k \in Slots |-> [u |-> IF k[1] = 1 THEN U[k[2]] ELSE NoUnified, busy |-> 0]]
  /\ sticky = [g \in Gens |-> [s \in Sessions |-> None]]
  /\ stickyAt = [g \in Gens |-> [s \in Sessions |-> 0]]
  /\ req = [r \in Requests |-> Idle]
  /\ removed = {}
  /\ closed = [k \in Slots |-> 0]

Serve(r) ==
  \/ SelectAccount(r) \/ GiveUp(r) \/ Acquire(r) \/ TransportError(r)
  \/ RateLimited(r) \/ UpstreamError(r) \/ Answer(r) \/ Finish(r)

Operate ==
  \/ \E a \in Accounts : DeleteAccount(a) \/ AddOrUpdateAccount(a)
  \/ \E k \in Slots : UpdateAccountRateLimits(k)
  \/ Rebuild

Next ==
  \/ \E r \in Requests :
       \/ \E s \in Sessions \cup {None} : Start(r, s)
       \/ \E a \in Accounts : StartBump(r, a)
       \/ Serve(r)
  \/ Operate
  \/ Tick

Spec == Init /\ [][Next]_vars

(***************************************************************************)
(* Properties                                                              *)
(***************************************************************************)

Snapshot == [obs : Nat, reset : Nat, rejected : BOOLEAN]
Limits == [u : Snapshot, busy : Nat]

Request ==
  [step : {"idle", "select", "chosen", "sent", "stream", "copy"}, bump : BOOLEAN,
   gen : Gens, sess : Sessions \cup {None}, acc : Accounts \cup {None},
   tries : 0..MaxAttempts, excluded : SUBSET Accounts, lim : Limits]

TypeOK ==
  /\ now \in Nat \ {0} /\ current \in Gens
  /\ live \in [Slots -> BOOLEAN] /\ enabled \in [Slots -> BOOLEAN]
  /\ inFlight \in [Slots -> Nat] /\ fails \in [Slots -> Nat]
  /\ cooldown \in [Slots -> Nat] /\ limits \in [Slots -> Limits]
  /\ sticky \in [Gens -> [Sessions -> Accounts \cup {None}]]
  /\ stickyAt \in [Gens -> [Sessions -> Nat]]
  /\ req \in [Requests -> Request]
  /\ removed \subseteq Slots
  /\ closed \in [Slots -> Nat]
  /\ \A r \in Requests : req[r].step \notin {"idle", "select"} => req[r].acc \in Accounts

\* An account never looks busier than it is, and exactly as busy unless it was
\* deleted: what Acquire counted, every end of a request takes back once.
InFlightExact ==
  \A k \in Slots :
    /\ inFlight[k] <= Cardinality(Holders(k))
    /\ k \notin removed => inFlight[k] = Cardinality(Holders(k))

\* "A rejected subscription window stays closed until its reset" (pool.go), in
\* the pool that was told, whatever answers and errors come later.
ClosedStaysClosed ==
  \A k \in Slots : live[k] /\ closed[k] > now => ~Healthy(k)

\* The two sticky maps agree, hold only accounts of the pool and stay bounded.
StickySound ==
  \A g \in Gens :
    /\ \A s \in Sessions :
         /\ sticky[g][s] # None <=> stickyAt[g][s] # 0
         /\ sticky[g][s] # None => live[<<g, sticky[g][s]>>]
    /\ Cardinality(Mapped(g)) <= MaxSticky

\* A session is moved to another account only when its own cannot serve, or by
\* a request that has just failed on it.
AffinityKept ==
  [][\A g \in Gens, s \in Sessions :
       LET a == sticky[g][s]  b == sticky'[g][s] IN
       (a # None /\ b # None /\ b # a) =>
         \/ ~Healthy(<<g, a>>)
         \/ \E r \in Requests : req[r].sess = s /\ a \in req[r].excluded]_vars
=============================================================================
