------------------------------ MODULE CacheBump ------------------------------
(***************************************************************************)
(* The prompt-cache bumper (internal/cachebump and the part of             *)
(* internal/api/cachebump_server.go that drives it).                       *)
(*                                                                         *)
(* Client turns record a replayable body per session; one scheduler        *)
(* goroutine replays it shortly before the upstream cache entry expires    *)
(* and reschedules or stops the session on the outcome.  The Store is      *)
(* guarded by one mutex that is held for a single Store call only, so each *)
(* Store call is one step here and the code between two Store calls of the *)
(* scheduler interleaves with client turns and with the management page.   *)
(*                                                                         *)
(* Abstractions: a body is its size; the headers, model, account and       *)
(* endpoint of a record only shape the replayed request and are left out;  *)
(* the aggregate Stats counters and the OnEvent log are written and never  *)
(* read back, and are left out too.  A key stands for route|session.       *)
(***************************************************************************)
EXTENDS Integers, FiniteSets, FiniteSetsExt

CONSTANTS
  Keys,        \* store keys, one per session and route
  Sizes,       \* replay body sizes a turn may record
  TTLs,        \* prompt-cache lifetimes (5 minutes or 1 hour in the code)
  Configs,     \* settings the operator can choose in the WebUI
  StoreTTL,    \* age at which an insert prunes a record
  MaxEntries,  \* record capacity of the store
  MaxBytes,    \* byte capacity of the store
  RetryAfter,  \* delay of the single retry after a transient failure
  MaxTurns,    \* bound: turns recorded concurrently
  MaxTime,     \* bound: the clock stops here
  None         \* absence of a record, of a copy, of knobs

ASSUME ConstantsAssumption ==
  /\ Sizes \subseteq Nat
  /\ TTLs \subseteq {n \in Nat : n >= 5}
  /\ Configs \subseteq [enabled : BOOLEAN, lead : Int, maxBumps : Nat, maxIdle : Nat]
  /\ StoreTTL \in Nat \ {0}
  /\ MaxEntries \in Nat \ {0}
  /\ MaxBytes \in Nat \ {0}
  /\ RetryAfter \in Nat \ {0}
  /\ MaxTurns \in Nat \ {0}
  /\ MaxTime \in Nat

VARIABLES
  now,        \* the clock; no two turns complete at the same instant
  config,     \* cacheBump section of the configuration file
  schedCfg,   \* Scheduler.cfg: the knobs as last copied by Reconfigure
  turns,      \* records built by finished turns and not yet upserted
  records,    \* Store.records
  bytes,      \* Store.bytes
  pc,         \* where the scheduler goroutine is
  due,        \* copies of the due records this tick has not handled yet
  cur,        \* copy of the record being bumped
  bumpNow,    \* the time bump() read when it started
  bumpCfg,    \* the knobs bump() read when it started
  outcome     \* classified answer, or the reason of the stop to perform

vars == <<now, config, schedCfg, turns, records, bytes,
          pc, due, cur, bumpNow, bumpCfg, outcome>>
storeVars == <<records, bytes>>
schedVars == <<pc, due, cur, bumpNow, bumpCfg, outcome>>

Outcomes == {"unavailable", "rejected", "transient", "write", "read"}
Reasons == {"idle", "account_unavailable", "upstream_rejected",
            "upstream_unavailable", "paid_write", "bump_cap", "manual"}
Phases == {"ready", "next", "sending", "apply", "cap", "stop"}

Record ==
  [key : Keys, size : Nat, ttl : TTLs, lastSeen : Nat, nextBump : Int,
   bumps : Nat, retries : Nat, stopped : BOOLEAN, reason : Reasons \cup {""}]

ASSUME NoneAssumption == None \notin Record /\ None \notin Configs

(***************************************************************************)
(* Pure helpers                                                            *)
(***************************************************************************)

\* The lead is clamped to a fifth of the lifetime when it is absent or longer.
NextBumpTime(seen, ttl, lead) ==
  LET maxLead == ttl \div 5 IN
  seen + ttl - (IF lead <= 0 \/ lead > maxLead THEN maxLead ELSE lead)

Held(recs) == {k \in Keys : recs[k] # None}

SizeOf(recs, S) == MapThenSumSet(LAMBDA k : recs[k].size, S)

\* (wrong variant: eviction would take the newest record first)
OlderReversed(recs, k) == {j \in Held(recs) : recs[j].lastSeen > recs[k].lastSeen}

Older(recs, k) == {j \in Held(recs) : recs[j].lastSeen < recs[k].lastSeen}

(***************************************************************************)
(* The store.  Each operator maps the store to the store after one call.   *)
(***************************************************************************)

Expired(recs, t) == {k \in Held(recs) : recs[k].lastSeen < t - StoreTTL}

Due(recs, t) ==
  {recs[k] : k \in {j \in Held(recs) : ~recs[j].stopped /\ recs[j].nextBump <= t}}

\* (wrong variant: the byte budget forgets the body being inserted)
EvictedWithoutBody(recs, total, size) ==
  {k \in Held(recs) :
     \/ Cardinality(Held(recs)) >= MaxEntries /\ Older(recs, k) = {}
     \/ total - SizeOf(recs, Older(recs, k)) > MaxBytes}

\* What an insert of `size` bytes evicts, oldest first: one record when the
\* store is full, then records until the byte budget holds the new body.
Evicted(recs, total, size) ==
  {k \in Held(recs) :
     \/ Cardinality(Held(recs)) >= MaxEntries /\ Older(recs, k) = {}
     \/ total - SizeOf(recs, Older(recs, k)) + size > MaxBytes}

Without(recs, S) == [k \in Keys |-> IF k \in S THEN None ELSE recs[k]]

\* The insert prunes, drops the record it replaces, evicts, then arms afresh.
UpsertStore(t) ==
  LET gone  == Expired(records, t.lastSeen) \cup (Held(records) \cap {t.key})
      base  == Without(records, gone)
      left  == bytes - SizeOf(records, gone)
      out   == Evicted(base, left, t.size)
  IN /\ records' = [Without(base, out) EXCEPT ![t.key] = t]
     /\ bytes' = left - SizeOf(base, out) + t.size

\* A stop releases the body; the record stays listed until it is pruned.
StopStore(k, why) ==
  IF records[k] = None THEN UNCHANGED storeVars
  ELSE /\ records' = [records EXCEPT ![k] =
            [@ EXCEPT !.stopped = TRUE, !.reason = why, !.size = 0]]
       /\ bytes' = bytes - records[k].size

\* (wrong variant: the bumped record is armed again)
MarkBumpedRearming(k, next) ==
  /\ UNCHANGED bytes
  /\ IF records[k] = None THEN UNCHANGED records
     ELSE records' = [records EXCEPT ![k] =
            [@ EXCEPT !.bumps = @ + 1, !.retries = 0, !.stopped = FALSE,
                      !.nextBump = IF next = 0 THEN @ ELSE next]]

\* `next` is 0 when the schedule is to stay as it is.
Bumped(r, next) ==
  [r EXCEPT !.bumps = r.bumps + 1, !.retries = 0,
            !.nextBump = IF next = 0 THEN r.nextBump ELSE next]

Retried(r, next) == [r EXCEPT !.retries = r.retries + 1, !.nextBump = next]

MarkBumped(k, next) ==
  /\ UNCHANGED bytes
  /\ IF records[k] = None THEN UNCHANGED records
     ELSE records' = [records EXCEPT ![k] = Bumped(@, next)]

ScheduleRetry(k, next) ==
  /\ UNCHANGED bytes
  /\ IF records[k] = None THEN UNCHANGED records
     ELSE records' = [records EXCEPT ![k] = Retried(@, next)]

(***************************************************************************)
(* Client turns and the management page                                    *)
(***************************************************************************)

Tick == /\ now < MaxTime
        /\ now' = now + 1
        /\ UNCHANGED <<config, schedCfg, turns, storeVars, schedVars>>

EditConfig ==
  /\ \E c \in Configs : c # config /\ config' = c
  /\ UNCHANGED <<now, schedCfg, turns, storeVars, schedVars>>

\* A turn with cache_control markers succeeded: its record is built from the
\* clock and the configuration read now, and inserted later.
FinishTurn(k, size, ttl) ==
  /\ config.enabled
  /\ now < MaxTime
  /\ Cardinality(turns) < MaxTurns
  /\ now' = now + 1
  /\ turns' = turns \cup
       {[key |-> k, size |-> size, ttl |-> ttl, lastSeen |-> now + 1,
         nextBump |-> NextBumpTime(now + 1, ttl, config.lead),
         bumps |-> 0, retries |-> 0, stopped |-> FALSE, reason |-> ""]}
  /\ UNCHANGED <<config, schedCfg, storeVars, schedVars>>

\* getCacheBump reconfigures the live scheduler, then the store is updated; a
\* body larger than the whole budget is refused.
Upsert(t) ==
  /\ turns' = turns \ {t}
  /\ schedCfg' = config
  /\ IF t.size > MaxBytes THEN UNCHANGED storeVars ELSE UpsertStore(t)
  /\ UNCHANGED <<now, config, schedVars>>

ManualStop(k) ==
  /\ records[k] # None
  /\ StopStore(k, "manual")
  /\ schedCfg' = config
  /\ UNCHANGED <<now, config, turns, schedVars>>

Clear ==
  /\ records' = [k \in Keys |-> None]
  /\ bytes' = 0
  /\ schedCfg' = config
  /\ UNCHANGED <<now, config, turns, schedVars>>

\* Every entry point fetches the scheduler through getCacheBump, which copies
\* the current knobs into it: the page that lists the sessions does no more,
\* and neither does a scheduling pass that finds nothing due.
Reconfigure ==
  /\ schedCfg' = config
  /\ UNCHANGED <<now, config, turns, storeVars, schedVars>>

(***************************************************************************)
(* The scheduler goroutine                                                 *)
(***************************************************************************)

\* One pass begins: the due records are copied out of the store.
StartTick ==
  /\ pc = "ready"
  /\ config.enabled
  /\ Due(records, now) # {}
  /\ schedCfg' = config
  /\ due' = Due(records, now)
  /\ pc' = "next"
  /\ UNCHANGED <<now, config, turns, storeVars, cur, bumpNow, bumpCfg, outcome>>

\* The bump of cur is over: go on with the rest of the pass.
Leave(rest) ==
  /\ pc' = IF rest = {} THEN "ready" ELSE "next"
  /\ cur' = None
  /\ bumpNow' = 0
  /\ bumpCfg' = None
  /\ outcome' = ""

IsIdle(rec) == schedCfg.maxIdle > 0 /\ now - rec.lastSeen > schedCfg.maxIdle

\* bump() stops an idle session on its copy, without sending anything.
StopIdle(rec) ==
  /\ pc = "next"
  /\ IsIdle(rec)
  /\ StopStore(rec.key, "idle")
  /\ due' = due \ {rec}
  /\ Leave(due \ {rec})
  /\ UNCHANGED <<now, config, schedCfg, turns>>

Send(rec) ==
  /\ pc = "next"
  /\ ~IsIdle(rec)
  /\ due' = due \ {rec}
  /\ pc' = "sending"
  /\ cur' = rec
  /\ bumpNow' = now
  /\ bumpCfg' = schedCfg
  /\ UNCHANGED <<now, config, schedCfg, turns, storeVars, outcome>>

\* The answer (or the 30 second timeout) is dropped when the session was
\* re-armed or dropped from the store meanwhile.
Answer ==
  /\ pc = "sending"
  /\ IF records[cur.key] = None \/ records[cur.key].lastSeen > cur.lastSeen
     THEN Leave(due)
     ELSE /\ outcome' \in Outcomes
          /\ pc' = "apply"
          /\ UNCHANGED <<cur, bumpNow, bumpCfg>>
  /\ UNCHANGED <<now, config, schedCfg, turns, storeVars, due>>

\* (wrong variant: one retry too many)
ApplyFailureRetryTwice ==
  /\ pc = "apply"
  /\ outcome \in {"unavailable", "rejected", "transient"}
  /\ CASE outcome = "unavailable" -> StopStore(cur.key, "account_unavailable")
       [] outcome = "rejected" -> StopStore(cur.key, "upstream_rejected")
       [] outcome = "transient" /\ cur.retries > 1 ->
            StopStore(cur.key, "upstream_unavailable")
       [] OTHER -> ScheduleRetry(cur.key, bumpNow + RetryAfter)
  /\ Leave(due)
  /\ UNCHANGED <<now, config, schedCfg, turns, due>>

\* (wrong variant: a second failure is forgotten instead of stopping the session)
ApplyFailureForgets ==
  /\ pc = "apply"
  /\ outcome \in {"unavailable", "rejected", "transient"}
  /\ CASE outcome = "unavailable" -> StopStore(cur.key, "account_unavailable")
       [] outcome = "rejected" -> StopStore(cur.key, "upstream_rejected")
       [] outcome = "transient" /\ cur.retries >= 1 -> UNCHANGED storeVars
       [] OTHER -> ScheduleRetry(cur.key, bumpNow + RetryAfter)
  /\ Leave(due)
  /\ UNCHANGED <<now, config, schedCfg, turns, due>>

ApplyFailure ==
  /\ pc = "apply"
  /\ outcome \in {"unavailable", "rejected", "transient"}
  /\ CASE outcome = "unavailable" -> StopStore(cur.key, "account_unavailable")
       [] outcome = "rejected" -> StopStore(cur.key, "upstream_rejected")
       [] outcome = "transient" /\ cur.retries >= 1 ->
            StopStore(cur.key, "upstream_unavailable")
       [] OTHER -> ScheduleRetry(cur.key, bumpNow + RetryAfter)
  /\ Leave(due)
  /\ UNCHANGED <<now, config, schedCfg, turns, due>>

\* The entry was gone and the replay paid for a write: count it, then stop.
ApplyPaidWrite ==
  /\ pc = "apply"
  /\ outcome = "write"
  /\ MarkBumped(cur.key, 0)
  /\ pc' = "stop"
  /\ outcome' = "paid_write"
  /\ UNCHANGED <<now, config, schedCfg, turns, due, cur, bumpNow, bumpCfg>>

ApplyRead ==
  /\ pc = "apply"
  /\ outcome = "read"
  /\ MarkBumped(cur.key, NextBumpTime(bumpNow, cur.ttl, bumpCfg.lead))
  /\ pc' = "cap"
  /\ UNCHANGED <<now, config, schedCfg, turns, due, cur, bumpNow, bumpCfg, outcome>>

\* (wrong variant: the cap is passed by one)
CheckCapLate ==
  /\ pc = "cap"
  /\ IF /\ bumpCfg.maxBumps > 0
        /\ records[cur.key] # None
        /\ records[cur.key].bumps > bumpCfg.maxBumps
     THEN /\ pc' = "stop"
          /\ outcome' = "bump_cap"
          /\ UNCHANGED <<cur, bumpNow, bumpCfg>>
     ELSE Leave(due)
  /\ UNCHANGED <<now, config, schedCfg, turns, storeVars, due>>

\* The record is read again to see whether it reached the bump cap.
CheckCap ==
  /\ pc = "cap"
  /\ IF /\ bumpCfg.maxBumps > 0
        /\ records[cur.key] # None
        /\ records[cur.key].bumps >= bumpCfg.maxBumps
     THEN /\ pc' = "stop"
          /\ outcome' = "bump_cap"
          /\ UNCHANGED <<cur, bumpNow, bumpCfg>>
     ELSE Leave(due)
  /\ UNCHANGED <<now, config, schedCfg, turns, storeVars, due>>

StopCur ==
  /\ pc = "stop"
  /\ StopStore(cur.key, outcome)
  /\ Leave(due)
  /\ UNCHANGED <<now, config, schedCfg, turns, due>>

(***************************************************************************)
(* Specification                                                           *)
(***************************************************************************)

Init ==
  /\ now = 0
  /\ config \in Configs
  /\ schedCfg = config
  /\ turns = {}
  /\ records = [k \in Keys |-> None]
  /\ bytes = 0
  /\ pc = "ready"
  /\ due = {}
  /\ cur = None
  /\ bumpNow = 0
  /\ bumpCfg = None
  /\ outcome = ""

Client ==
  \/ \E k \in Keys, size \in Sizes, ttl \in TTLs : FinishTurn(k, size, ttl)
  \/ \E t \in turns : Upsert(t)

Operator ==
  \/ EditConfig
  \/ \E k \in Keys : ManualStop(k)
  \/ Clear
  \/ Reconfigure

Bump ==
  \/ \E rec \in due : StopIdle(rec) \/ Send(rec)
  \/ Answer
  \/ ApplyFailure
  \/ ApplyPaidWrite
  \/ ApplyRead
  \/ CheckCap
  \/ StopCur

Scheduler == StartTick \/ Bump

Next == Tick \/ Client \/ Operator \/ Scheduler

Spec == Init /\ [][Next]_vars

\* The ticker fires for ever and every send carries a 30 second deadline, so
\* the scheduler goroutine always takes its next step.
FairSpec == Spec /\ WF_vars(Scheduler)


(***************************************************************************)
(* Properties                                                              *)
(***************************************************************************)

\* Every variable keeps its shape: the copies the scheduler works on are
\* records, a stop always carries one of the documented reasons.  (The value
\* of bytes is the business of WithinBudget.)
TypeOK ==
  /\ now \in Nat
  /\ config \in Configs
  /\ schedCfg \in Configs
  /\ turns \subseteq Record
  /\ records \in [Keys -> Record \cup {None}]
  /\ pc \in Phases
  /\ due \subseteq Record
  /\ cur \in Record \cup {None}
  /\ bumpNow \in Nat
  /\ bumpCfg \in Configs \cup {None}
  /\ outcome \in Outcomes \cup Reasons \cup {""}

\* The byte count is the total of the bodies held, through every sequence of
\* inserts, replacements, prunes, evictions, stops and clears, and an insert
\* evicts until both limits hold (store.go:70-73), so neither is exceeded.
WithinBudget ==
  /\ bytes = SizeOf(records, Held(records)) /\ bytes <= MaxBytes
  /\ Cardinality(Held(records)) <= MaxEntries

\* "one retry after a short wait, then give up" (scheduler.go): whatever
\* re-arms, stops or clears the session meanwhile, no record waits for a
\* second retry.
RetriesOnce == \A k \in Held(records) : records[k].retries <= 1

\* The cap between two client turns (scheduler.go:42) is never passed: a
\* session at the cap is stopped, or the scheduler is on its way to stop it.
\* Stated for runs whose configurations share the cap.
BumpCap ==
  \A k \in Held(records) :
    LET r == records[k] IN
    config.maxBumps > 0 =>
      /\ r.bumps <= config.maxBumps
      /\ r.bumps = config.maxBumps /\ ~r.stopped =>
           pc \in {"cap", "stop"} /\ cur.key = k

\* Only a new turn re-arms a stopped session (store.go:62): no outcome of a
\* bump already under way does.
StoppedStaysStopped ==
  [][\A k \in Keys :
       LET r == records[k] IN
       /\ r # None /\ records'[k] # None
       /\ r.stopped /\ records'[k].lastSeen = r.lastSeen
       => records'[k].stopped]_vars

\* An insert never evicts a session seen later than one it keeps.
KeepsNewest ==
  [][\A t \in turns, j, k \in Held(records) :
       /\ Upsert(t) /\ j # t.key /\ k # t.key
       /\ records'[j] = None /\ records'[k] # None
       => records[j].lastSeen < records[k].lastSeen]_vars

(***************************************************************************)
(* Inductive strengthenings                                                *)
(***************************************************************************)

\* The scheduler holds a copy exactly while it bumps, and a pending stop
\* carries its reason.
PhaseOK ==
  /\ pc \in {"ready", "next"} => cur = None
  /\ pc \in {"sending", "apply", "cap", "stop"} => cur # None /\ bumpCfg # None
  /\ pc = "stop" => outcome \in {"paid_write", "bump_cap"}
  /\ \A k \in Held(records) : records[k].key = k

\* A pass handles every key at most once, and no copy lags behind the retries
\* of the record it was taken from: a record can only have been re-armed.
CopiesAhead ==
  /\ \A t \in turns : t.retries = 0
  /\ \A r, s \in due : r.key = s.key => r = s
  /\ \A r \in due :
       /\ r.retries <= 1
       /\ cur # None => r.key # cur.key
       /\ records[r.key] # None => records[r.key].retries <= r.retries
  /\ pc \in {"sending", "apply"} /\ records[cur.key] # None =>
       records[cur.key].retries <= cur.retries

\* The time of the last turn identifies one arming of a session.
StampsUnique ==
  /\ \A t \in turns : t.lastSeen <= now
  /\ \A k \in Held(records) : records[k].lastSeen <= now
  /\ \A t, u \in turns : t.lastSeen = u.lastSeen => t = u
  /\ \A t \in turns, k \in Held(records) : records[k].lastSeen # t.lastSeen

IInv == TypeOK /\ PhaseOK /\ RetriesOnce /\ CopiesAhead /\ StampsUnique

IsDue(k) ==
  /\ records[k] # None
  /\ ~records[k].stopped
  /\ records[k].nextBump <= now

\* While bumping stays enabled, a due session does not stay due: it is bumped,
\* retried later, stopped or dropped.
DueServed ==
  \A k \in Keys : IsDue(k) ~> (~IsDue(k) \/ ~config.enabled)

(***************************************************************************)
(* Claims of the comments that the interleaving refutes                    *)
(***************************************************************************)

\* scheduler.go: "The stale result must not touch the fresh state".  The
\* freshness test and the update are separate Store calls.
StaleResultIgnored ==
  [][ApplyFailure \/ ApplyPaidWrite \/ ApplyRead \/ StopCur
     => \/ UNCHANGED records
        \/ records[cur.key].lastSeen = cur.lastSeen]_vars
=============================================================================
