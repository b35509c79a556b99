--------------------------- MODULE CacheBump_proofs ---------------------------
(***************************************************************************)
(* Proofs about the prompt-cache bumper, for every value of the constants. *)
(***************************************************************************)
EXTENDS CacheBump, FiniteSetTheorems, WellFoundedInduction, TLAPS

\* The next bump falls after the turn it is computed from and strictly before
\* the upstream entry expires, whatever lead is configured (ttl.go).
THEOREM NextBumpInWindow ==
  ASSUME NEW seen \in Nat, NEW ttl \in TTLs, NEW lead \in Int
  PROVE  /\ NextBumpTime(seen, ttl, lead) \in Int
         /\ NextBumpTime(seen, ttl, lead) > seen
         /\ NextBumpTime(seen, ttl, lead) < seen + ttl
<1>1. ttl \in Nat /\ ttl >= 5
  BY ConstantsAssumption
<1>2. ttl \div 5 \in Nat /\ ttl \div 5 >= 1 /\ ttl \div 5 < ttl
  BY <1>1, SMT
<1>. QED
  BY <1>1, <1>2 DEF NextBumpTime

LEMMA InitIInv == Init => IInv
<1>. SUFFICES ASSUME Init PROVE IInv
  OBVIOUS
<1>1. TypeOK
  BY DEF Init, TypeOK, Phases
<1>2. Held(records) = {}
  BY DEF Init, Held
<1>. QED
  BY <1>1, <1>2 DEF Init, IInv, PhaseOK, RetriesOnce, CopiesAhead, StampsUnique

LEMMA RecordFields ==
  ASSUME NEW r \in Record
  PROVE  /\ r.key \in Keys /\ r.ttl \in TTLs
         /\ r.lastSeen \in Nat /\ r.bumps \in Nat /\ r.retries \in Nat
         /\ r.nextBump \in Int
BY DEF Record

\* The three ways a Store call changes a record leave every other key alone,
\* keep the record's identity (key and time of the last turn) and its type.
Same(k) ==
  /\ records'[k] # None => records[k] # None
  /\ records[k] # None =>
       /\ records'[k] # None
       /\ records'[k].key = records[k].key
       /\ records'[k].lastSeen = records[k].lastSeen
       /\ records[k].stopped => records'[k].stopped

LEMMA StopStoreEffect ==
  ASSUME NEW k \in Keys, NEW why \in Reasons, TypeOK, StopStore(k, why)
  PROVE  /\ records' \in [Keys -> Record \cup {None}]
         /\ \A j \in Keys \ {k} : records'[j] = records[j]
         /\ Same(k)
         /\ records[k] # None =>
              /\ records'[k].retries = records[k].retries
              /\ records'[k].bumps = records[k].bumps
              /\ records'[k].stopped /\ records'[k].size = 0
<1>1. CASE records[k] = None
  BY <1>1 DEF StopStore, storeVars, Same, TypeOK
<1>2. CASE records[k] # None
  <2>. DEFINE new == [records[k] EXCEPT !.stopped = TRUE, !.reason = why, !.size = 0]
  <2>1. records' = [records EXCEPT ![k] = new]
    BY <1>2 DEF StopStore
  <2>2. records[k] \in Record
    BY <1>2 DEF TypeOK
  <2>3. new \in Record /\ new.stopped /\ new.retries = records[k].retries
        /\ new.key = records[k].key /\ new.lastSeen = records[k].lastSeen
        /\ new.bumps = records[k].bumps /\ new.size = 0
    BY <2>2 DEF Record
  <2>. HIDE DEF new
  <2>. QED
    BY <2>1, <2>2, <2>3, NoneAssumption DEF TypeOK, Same
<1>. QED
  BY <1>1, <1>2

LEMMA BumpedRecord ==
  ASSUME NEW r \in Record, NEW next \in Int
  PROVE  LET new == Bumped(r, next) IN
         /\ new \in Record
         /\ new.stopped = r.stopped
         /\ new.key = r.key
         /\ new.lastSeen = r.lastSeen
         /\ new.retries = 0
         /\ new.bumps = r.bumps + 1
         /\ new.size = r.size
<1>. DEFINE b  == r.bumps + 1
            at == IF next = 0 THEN r.nextBump ELSE next
<1>1. b \in Nat /\ at \in Int
  BY RecordFields
<1>. DEFINE New(c, t) == [r EXCEPT !.bumps = c, !.retries = 0, !.nextBump = t]
            Good(new, c) == /\ new \in Record /\ new.stopped = r.stopped
                            /\ new.key = r.key /\ new.lastSeen = r.lastSeen
                            /\ new.retries = 0 /\ new.bumps = c /\ new.size = r.size
<1>2. Bumped(r, next) = New(b, at)
  BY DEF Bumped
<1>3. \A c \in Nat, t \in Int : Good(New(c, t), c)
  BY DEF Record
<1>. HIDE DEF b, at, New, Good
<1>4. Good(Bumped(r, next), b)
  BY <1>1, <1>2, <1>3
<1>. QED
  BY <1>4 DEF b, Good

LEMMA RetriedRecord ==
  ASSUME NEW r \in Record, NEW next \in Int
  PROVE  LET new == Retried(r, next) IN
         /\ new \in Record
         /\ new.stopped = r.stopped
         /\ new.key = r.key
         /\ new.lastSeen = r.lastSeen
         /\ new.retries = r.retries + 1
         /\ new.bumps = r.bumps
         /\ new.size = r.size
<1>. DEFINE n == r.retries + 1
<1>1. n \in Nat
  BY RecordFields
<1>. DEFINE New(m) == [r EXCEPT !.retries = m, !.nextBump = next]
            Good(new, m) == /\ new \in Record /\ new.stopped = r.stopped
                            /\ new.key = r.key /\ new.lastSeen = r.lastSeen
                            /\ new.retries = m /\ new.bumps = r.bumps /\ new.size = r.size
<1>2. Retried(r, next) = New(n)
  BY DEF Retried
<1>3. \A m \in Nat : Good(New(m), m)
  BY DEF Record
<1>. HIDE DEF n, New, Good
<1>4. Good(Retried(r, next), n)
  BY <1>1, <1>2, <1>3
<1>. QED
  BY <1>4 DEF n, Good

LEMMA MarkBumpedEffect ==
  ASSUME NEW k \in Keys, NEW next \in Int, TypeOK, MarkBumped(k, next)
  PROVE  /\ records' \in [Keys -> Record \cup {None}]
         /\ \A j \in Keys \ {k} : records'[j] = records[j]
         /\ Same(k)
         /\ records[k] # None =>
              /\ records'[k].retries = 0
              /\ records'[k].bumps = records[k].bumps + 1
              /\ records'[k].size = records[k].size
<1>1. CASE records[k] = None
  BY <1>1 DEF MarkBumped, Same, TypeOK
<1>2. CASE records[k] # None
  <2>1. records[k] \in Record
    BY <1>2 DEF TypeOK
  <2>2. records' = [records EXCEPT ![k] = Bumped(records[k], next)]
    BY <1>2 DEF MarkBumped
  <2>. QED
    BY <2>1, <2>2, BumpedRecord, NoneAssumption, ZenonT(30) DEF TypeOK, Same
<1>. QED
  BY <1>1, <1>2

LEMMA ScheduleRetryEffect ==
  ASSUME NEW k \in Keys, NEW next \in Int, TypeOK, ScheduleRetry(k, next)
  PROVE  /\ records' \in [Keys -> Record \cup {None}]
         /\ \A j \in Keys \ {k} : records'[j] = records[j]
         /\ Same(k)
         /\ records[k] # None =>
              /\ records'[k].retries = records[k].retries + 1
              /\ records'[k].bumps = records[k].bumps
              /\ records'[k].size = records[k].size
<1>1. CASE records[k] = None
  BY <1>1 DEF ScheduleRetry, Same, TypeOK
<1>2. CASE records[k] # None
  <2>1. records[k] \in Record
    BY <1>2 DEF TypeOK
  <2>2. records' = [records EXCEPT ![k] = Retried(records[k], next)]
    BY <1>2 DEF ScheduleRetry
  <2>. QED
    BY <2>1, <2>2, RetriedRecord, NoneAssumption, ZenonT(30) DEF TypeOK, Same
<1>. QED
  BY <1>1, <1>2

\* An insert installs the turn's record and keeps or drops every other one.
LEMMA UpsertEffect ==
  ASSUME NEW t \in turns, TypeOK, UpsertStore(t)
  PROVE  /\ records' \in [Keys -> Record \cup {None}]
         /\ records'[t.key] = t
         /\ \A k \in Keys \ {t.key} : records'[k] \in {None, records[k]}
<1>. DEFINE gone == Expired(records, t.lastSeen) \cup (Held(records) \cap {t.key})
            base == Without(records, gone)
            out  == Evicted(base, bytes - SizeOf(records, gone), t.size)
<1>1. records' = [Without(base, out) EXCEPT ![t.key] = t]
  BY DEF UpsertStore
<1>2. t \in Record /\ t.key \in Keys
  BY DEF TypeOK, Record
<1>. HIDE DEF gone, out
<1>3. \A k \in Keys : Without(base, out)[k] \in {None, records[k]}
  BY DEF Without
<1>4. Without(base, out) \in [Keys -> Record \cup {None}]
  BY DEF Without, TypeOK
<1>. HIDE DEF base
<1>. QED
  BY <1>1, <1>2, <1>3, <1>4

\* A store call on one key preserves the identity of every record held.
LEMMA CallKeepsStamps ==
  ASSUME IInv, NEW k \in Keys, Same(k),
         \A j \in Keys \ {k} : records'[j] = records[j],
         UNCHANGED <<now, turns>>
  PROVE  /\ StampsUnique'
         /\ \A j \in Held(records') : records'[j].key = j
<1>1. \A j \in Held(records') :
        /\ j \in Held(records)
        /\ records'[j].key = records[j].key
        /\ records'[j].lastSeen = records[j].lastSeen
  BY DEF Held, Same
<1>. QED
  BY <1>1 DEF IInv, StampsUnique, PhaseOK

\* Leaving a bump after a call on cur's record that adds a retry only where
\* the copy had none.
LEMMA LeaveIInv ==
  ASSUME IInv, cur \in Record, Leave(due),
         UNCHANGED <<now, config, schedCfg, turns, due>>,
         records' \in [Keys -> Record \cup {None}],
         \A j \in Keys \ {cur.key} : records'[j] = records[j],
         Same(cur.key),
         records[cur.key] # None => records'[cur.key].retries <= 1
  PROVE  IInv'
<1>1. cur.key \in Keys /\ cur # None
  BY RecordFields, NoneAssumption
<1>2. TypeOK'
  BY DEF IInv, TypeOK, Leave, Phases
<1>3. StampsUnique' /\ \A j \in Held(records') : records'[j].key = j
  BY <1>1, CallKeepsStamps
<1>4. PhaseOK'
  BY <1>3 DEF PhaseOK, Leave
<1>5. RetriesOnce'
  BY <1>1 DEF IInv, RetriesOnce, Held, Same
<1>6. \A r \in due : r.key \in Keys /\ r.key # cur.key
  BY <1>1, RecordFields DEF IInv, TypeOK, CopiesAhead
<1>7. CopiesAhead'
  BY <1>6 DEF IInv, CopiesAhead, Leave
<1>. QED
  BY <1>2, <1>3, <1>4, <1>5, <1>7 DEF IInv

LEMMA ClientIInv == IInv /\ Client => IInv'
<1>. SUFFICES ASSUME IInv, Client PROVE IInv'
  OBVIOUS
<1>1. ASSUME NEW k \in Keys, NEW size \in Sizes, NEW ttl \in TTLs,
             FinishTurn(k, size, ttl)
      PROVE  IInv'
  <2>. DEFINE t == [key |-> k, size |-> size, ttl |-> ttl, lastSeen |-> now + 1,
                    nextBump |-> NextBumpTime(now + 1, ttl, config.lead),
                    bumps |-> 0, retries |-> 0, stopped |-> FALSE, reason |-> ""]
  <2>1. /\ turns' = turns \cup {t} /\ now' = now + 1
        /\ UNCHANGED <<config, schedCfg, records, bytes, schedVars>>
    BY <1>1 DEF FinishTurn, storeVars
  <2>2. now + 1 \in Nat /\ config.lead \in Int /\ size \in Nat
    <3>1. config \in [enabled : BOOLEAN, lead : Int, maxBumps : Nat, maxIdle : Nat]
      BY ConstantsAssumption DEF IInv, TypeOK
    <3>2. config.lead \in Int
      BY <3>1
    <3>3. now \in Nat
      BY DEF IInv, TypeOK
    <3>4. size \in Nat
      BY ConstantsAssumption
    <3>. QED
      BY <3>2, <3>3, <3>4, SMT
  <2>3. NextBumpTime(now + 1, ttl, config.lead) \in Int
    BY <2>2, NextBumpInWindow
  <2>4. t \in Record /\ t.retries = 0 /\ t.lastSeen = now + 1
    BY <2>2, <2>3 DEF Record
  <2>. HIDE DEF t
  <2>5. TypeOK'
    BY <2>1, <2>2, <2>4 DEF IInv, TypeOK, schedVars
  <2>6. PhaseOK' /\ RetriesOnce' /\ CopiesAhead'
    BY <2>1, <2>4 DEF IInv, PhaseOK, RetriesOnce, CopiesAhead, Held, schedVars
  <2>7. now \in Nat /\ \A u \in turns : u.lastSeen \in Nat /\ u.lastSeen <= now
    BY RecordFields DEF IInv, TypeOK, StampsUnique
  <2>8. \A j \in Held(records) : records[j].lastSeen \in Nat /\ records[j].lastSeen <= now
    BY RecordFields DEF IInv, TypeOK, StampsUnique, Held
  <2>9. StampsUnique'
    <3>1. Held(records') = Held(records) /\ records' = records
      BY <2>1 DEF Held
    <3>2. \A u \in turns' : u = t \/ u \in turns
      BY <2>1
    <3>. QED
      BY <2>1, <2>4, <2>7, <2>8, <3>1, <3>2 DEF IInv, StampsUnique
  <2>. QED
    BY <2>5, <2>6, <2>9 DEF IInv
<1>2. ASSUME NEW t \in turns, Upsert(t)
      PROVE  IInv'
  <2>1. /\ turns' = turns \ {t} /\ schedCfg' = config
        /\ UNCHANGED <<now, config, pc, due, cur, bumpNow, bumpCfg, outcome>>
    BY <1>2 DEF Upsert, schedVars
  <2>2. t \in Record /\ t.key \in Keys /\ t.retries = 0
    BY RecordFields DEF IInv, TypeOK, CopiesAhead
  <2>3. /\ records' \in [Keys -> Record \cup {None}]
        /\ \A k \in Keys : \/ records'[k] \in {None, records[k]}
                           \/ k = t.key /\ records'[k] = t
    BY <1>2, <2>2, UpsertEffect DEF Upsert, storeVars, IInv, TypeOK
  <2>4. TypeOK'
    BY <2>1, <2>3 DEF IInv, TypeOK
  <2>5. \A k \in Held(records') : \/ k \in Held(records) /\ records'[k] = records[k]
                                  \/ k = t.key /\ records'[k] = t
    BY <2>3 DEF Held
  <2>6. PhaseOK' /\ RetriesOnce'
    BY <2>1, <2>2, <2>5 DEF IInv, PhaseOK, RetriesOnce
  <2>7. StampsUnique'
    BY <2>1, <2>5 DEF IInv, StampsUnique
  <2>8. \A r \in due : r.key \in Keys /\ r.retries \in Nat
    BY RecordFields DEF IInv, TypeOK
  <2>9. pc \in {"sending", "apply"} => cur.key \in Keys /\ cur.retries \in Nat
    BY RecordFields DEF IInv, TypeOK, PhaseOK
  <2>10. \A k \in Keys, n \in Nat :
           (records[k] # None => records[k].retries <= n)
           => (records'[k] # None => records'[k].retries <= n)
    BY <2>2, <2>3
  <2>11. CopiesAhead'
    BY <2>1, <2>8, <2>9, <2>10 DEF IInv, CopiesAhead
  <2>. QED
    BY <2>4, <2>6, <2>7, <2>11 DEF IInv
<1>. QED
  BY <1>1, <1>2 DEF Client

LEMMA OperatorIInv == IInv /\ Operator => IInv'
<1>. SUFFICES ASSUME IInv, Operator PROVE IInv'
  OBVIOUS
<1>1. CASE EditConfig
  <2>1. config' \in Configs /\ UNCHANGED <<now, schedCfg, turns, storeVars, schedVars>>
    BY <1>1 DEF EditConfig
  <2>. QED
    BY <2>1 DEF IInv, TypeOK, PhaseOK, RetriesOnce, CopiesAhead, StampsUnique, Held,
                storeVars, schedVars
<1>2. ASSUME NEW k \in Keys, ManualStop(k)
      PROVE  IInv'
  <2>1. /\ StopStore(k, "manual") /\ schedCfg' = config
        /\ UNCHANGED <<now, config, turns, pc, due, cur, bumpNow, bumpCfg, outcome>>
    BY <1>2 DEF ManualStop, schedVars
  <2>2. TypeOK /\ "manual" \in Reasons
    BY DEF IInv, Reasons
  <2>3. /\ records' \in [Keys -> Record \cup {None}]
        /\ \A j \in Keys \ {k} : records'[j] = records[j]
        /\ Same(k)
        /\ records[k] # None => records'[k].retries = records[k].retries
    BY <2>1, <2>2, StopStoreEffect
  <2>4. TypeOK'
    BY <2>1, <2>3 DEF IInv, TypeOK
  <2>5. StampsUnique' /\ \A j \in Held(records') : records'[j].key = j
    BY <2>1, <2>3, CallKeepsStamps
  <2>6. PhaseOK'
    BY <2>1, <2>5 DEF IInv, PhaseOK
  <2>7. \A j \in Keys : records'[j] # None =>
          records[j] # None /\ records'[j].retries = records[j].retries
    BY <2>3 DEF Same
  <2>8. RetriesOnce'
    BY <2>7 DEF IInv, RetriesOnce, Held
  <2>9. \A r \in due : r.key \in Keys
    BY RecordFields DEF IInv, TypeOK
  <2>10. pc \in {"sending", "apply"} => cur.key \in Keys
    BY RecordFields DEF IInv, TypeOK, PhaseOK
  <2>11. CopiesAhead'
    BY <2>1, <2>7, <2>9, <2>10 DEF IInv, CopiesAhead
  <2>. QED
    BY <2>4, <2>5, <2>6, <2>8, <2>11 DEF IInv
<1>3. CASE Clear
  <2>1. /\ records' = [k \in Keys |-> None] /\ schedCfg' = config
        /\ UNCHANGED <<now, config, turns, pc, due, cur, bumpNow, bumpCfg, outcome>>
    BY <1>3 DEF Clear, schedVars
  <2>2. Held(records') = {}
    BY <2>1 DEF Held
  <2>3. \A r \in due : r.key \in Keys
    BY RecordFields DEF IInv, TypeOK
  <2>4. pc \in {"sending", "apply"} => cur.key \in Keys
    BY RecordFields DEF IInv, TypeOK, PhaseOK
  <2>5. TypeOK'
    BY <2>1 DEF IInv, TypeOK
  <2>6. PhaseOK' /\ RetriesOnce' /\ StampsUnique'
    BY <2>1, <2>2 DEF IInv, PhaseOK, RetriesOnce, StampsUnique
  <2>7. CopiesAhead'
    BY <2>1, <2>3, <2>4 DEF IInv, CopiesAhead
  <2>. QED
    BY <2>5, <2>6, <2>7 DEF IInv
<1>4. CASE Reconfigure
  BY <1>4 DEF Reconfigure, IInv, TypeOK, PhaseOK, RetriesOnce, CopiesAhead,
              StampsUnique, Held, storeVars, schedVars
<1>. QED
  BY <1>1, <1>2, <1>3, <1>4 DEF Operator

LEMMA BumpIInv == IInv /\ Bump => IInv'
<1>. SUFFICES ASSUME IInv, Bump PROVE IInv'
  OBVIOUS
<1>1. TypeOK /\ PhaseOK /\ RetriesOnce /\ CopiesAhead /\ StampsUnique
  BY DEF IInv
<1>2. pc \in {"sending", "apply", "cap", "stop"} =>
        /\ cur \in Record /\ cur.key \in Keys /\ cur.retries \in Nat /\ cur.ttl \in TTLs
        /\ bumpCfg \in Configs
  BY <1>1, RecordFields DEF TypeOK, PhaseOK
<1>3. ASSUME NEW rec \in due, StopIdle(rec)
      PROVE  IInv'
  <2>1. /\ pc = "next" /\ cur = None /\ StopStore(rec.key, "idle")
        /\ due' = due \ {rec} /\ pc' \in {"ready", "next"} /\ cur' = None
        /\ bumpNow' = 0 /\ bumpCfg' = None /\ outcome' = ""
        /\ UNCHANGED <<now, config, schedCfg, turns>>
    BY <1>1, <1>3 DEF StopIdle, Leave, PhaseOK
  <2>2. rec \in Record /\ rec.key \in Keys /\ "idle" \in Reasons
    BY <1>1, RecordFields DEF TypeOK, Reasons
  <2>3. /\ records' \in [Keys -> Record \cup {None}]
        /\ \A j \in Keys \ {rec.key} : records'[j] = records[j]
        /\ Same(rec.key)
        /\ records[rec.key] # None => records'[rec.key].retries = records[rec.key].retries
    BY <1>1, <2>1, <2>2, StopStoreEffect
  <2>4. TypeOK'
    BY <1>1, <2>1, <2>3 DEF TypeOK, Phases
  <2>5. StampsUnique' /\ \A j \in Held(records') : records'[j].key = j
    BY <2>1, <2>2, <2>3, CallKeepsStamps
  <2>6. PhaseOK'
    BY <2>1, <2>5 DEF PhaseOK
  <2>7. \A j \in Keys : records'[j] # None =>
          records[j] # None /\ records'[j].retries = records[j].retries
    BY <2>2, <2>3 DEF Same
  <2>8. RetriesOnce'
    BY <1>1, <2>7 DEF RetriesOnce, Held
  <2>9. \A r \in due : r.key \in Keys
    BY <1>1, RecordFields DEF TypeOK
  <2>10. CopiesAhead'
    BY <1>1, <2>1, <2>7, <2>9 DEF CopiesAhead
  <2>. QED
    BY <2>4, <2>5, <2>6, <2>8, <2>10 DEF IInv
<1>4. ASSUME NEW rec \in due, Send(rec)
      PROVE  IInv'
  <2>1. /\ pc = "next" /\ due' = due \ {rec} /\ pc' = "sending" /\ cur' = rec
        /\ bumpNow' = now /\ bumpCfg' = schedCfg
        /\ UNCHANGED <<now, config, schedCfg, turns, records, bytes, outcome>>
    BY <1>4 DEF Send, storeVars
  <2>2. rec \in Record
    BY <1>1 DEF TypeOK
  <2>3. TypeOK'
    BY <1>1, <2>1, <2>2 DEF TypeOK, Phases
  <2>4. schedCfg # None
    BY <1>1, NoneAssumption DEF TypeOK
  <2>5. PhaseOK' /\ RetriesOnce' /\ StampsUnique'
    BY <1>1, <2>1, <2>2, <2>4, NoneAssumption DEF PhaseOK, RetriesOnce, StampsUnique, Held
  <2>6. \A r \in due' : r.key # rec.key
    BY <1>1, <2>1 DEF CopiesAhead
  <2>7. CopiesAhead'
    BY <1>1, <2>1, <2>6 DEF CopiesAhead
  <2>. QED
    BY <2>3, <2>5, <2>7 DEF IInv
<1>5. CASE Answer
  <2>1. pc = "sending" /\ UNCHANGED <<now, config, schedCfg, turns, records, bytes, due>>
    BY <1>5 DEF Answer, storeVars
  <2>2. CASE Leave(due)
    <3>1. Same(cur.key) /\ records' \in [Keys -> Record \cup {None}]
      BY <1>1, <2>1 DEF Same, TypeOK
    <3>2. records[cur.key] # None => records'[cur.key].retries <= 1
      BY <1>1, <1>2, <2>1 DEF RetriesOnce, Held
    <3>. QED
      BY <1>2, <2>1, <2>2, <3>1, <3>2, LeaveIInv
  <2>3. CASE outcome' \in Outcomes /\ pc' = "apply" /\ UNCHANGED <<cur, bumpNow, bumpCfg>>
    <3>1. TypeOK'
      BY <1>1, <2>1, <2>3 DEF TypeOK, Phases
    <3>2. PhaseOK' /\ RetriesOnce' /\ StampsUnique'
      BY <1>1, <2>1, <2>3 DEF PhaseOK, RetriesOnce, StampsUnique, Held
    <3>3. CopiesAhead'
      BY <1>1, <2>1, <2>3 DEF CopiesAhead
    <3>. QED
      BY <3>1, <3>2, <3>3 DEF IInv
  <2>. QED
    BY <1>5, <2>2, <2>3 DEF Answer
<1>6. CASE ApplyFailure
  <2>1. /\ pc = "apply" /\ Leave(due)
        /\ UNCHANGED <<now, config, schedCfg, turns, due>>
    BY <1>6 DEF ApplyFailure
  <2>2. /\ cur \in Record /\ cur.key \in Keys /\ cur.retries \in Nat
        /\ bumpNow + RetryAfter \in Int
    <3>1. bumpNow \in Nat
      BY <1>1 DEF TypeOK
    <3>2. RetryAfter \in Nat
      BY ConstantsAssumption
    <3>3. bumpNow + RetryAfter \in Int
      BY <3>1, <3>2, SMT
    <3>. QED
      BY <1>2, <2>1, <3>3
  <2>3. records[cur.key] # None =>
          /\ records[cur.key].retries \in Nat
          /\ records[cur.key].retries <= 1
          /\ records[cur.key].retries <= cur.retries
    BY <1>1, <2>1, <2>2, RecordFields DEF RetriesOnce, CopiesAhead, Held, TypeOK
  <2>4. \/ \E why \in Reasons : StopStore(cur.key, why)
        \/ cur.retries = 0 /\ ScheduleRetry(cur.key, bumpNow + RetryAfter)
    <3>1. {"account_unavailable", "upstream_rejected", "upstream_unavailable"} \subseteq Reasons
      BY DEF Reasons
    <3>2. cur.retries >= 1 \/ cur.retries = 0
      BY <2>2
    <3>. QED
      BY <1>6, <3>1, <3>2 DEF ApplyFailure
  <2>5. /\ records' \in [Keys -> Record \cup {None}]
        /\ \A j \in Keys \ {cur.key} : records'[j] = records[j]
        /\ Same(cur.key)
        /\ records[cur.key] # None => records'[cur.key].retries <= 1
    <3>1. ASSUME NEW why \in Reasons, StopStore(cur.key, why)
          PROVE  /\ records' \in [Keys -> Record \cup {None}]
                 /\ \A j \in Keys \ {cur.key} : records'[j] = records[j]
                 /\ Same(cur.key)
                 /\ records[cur.key] # None =>
                      records'[cur.key].retries = records[cur.key].retries
      BY <1>1, <2>2, <3>1, StopStoreEffect
    <3>2. ASSUME cur.retries = 0, ScheduleRetry(cur.key, bumpNow + RetryAfter)
          PROVE  /\ records' \in [Keys -> Record \cup {None}]
                 /\ \A j \in Keys \ {cur.key} : records'[j] = records[j]
                 /\ Same(cur.key)
                 /\ records[cur.key] # None =>
                      records'[cur.key].retries = records[cur.key].retries + 1
      BY <1>1, <2>2, <3>2, ScheduleRetryEffect
    <3>. QED
      BY <2>3, <2>4, <3>1, <3>2
  <2>. QED
    BY <2>1, <2>2, <2>5, LeaveIInv
<1>7. ASSUME NEW next \in Int, MarkBumped(cur.key, next), pc = "apply",
             \/ pc' = "stop" /\ outcome' = "paid_write"
             \/ pc' = "cap" /\ outcome' = outcome,
             UNCHANGED <<now, config, schedCfg, turns, due, cur, bumpNow, bumpCfg>>
      PROVE  IInv'
  <2>1. cur \in Record /\ cur.key \in Keys
    BY <1>2, <1>7
  <2>2. /\ records' \in [Keys -> Record \cup {None}]
        /\ \A j \in Keys \ {cur.key} : records'[j] = records[j]
        /\ Same(cur.key)
        /\ records[cur.key] # None => records'[cur.key].retries = 0
    BY <1>1, <1>7, <2>1, MarkBumpedEffect
  <2>3. TypeOK'
    BY <1>1, <1>7, <2>2 DEF TypeOK, Phases, Reasons
  <2>4. StampsUnique' /\ \A j \in Held(records') : records'[j].key = j
    BY <1>7, <2>1, <2>2, CallKeepsStamps
  <2>5. PhaseOK'
    BY <1>1, <1>7, <2>4 DEF PhaseOK
  <2>6. RetriesOnce'
    BY <1>1, <2>1, <2>2 DEF RetriesOnce, Held, Same
  <2>7. \A r \in due : r.key \in Keys /\ r.key # cur.key
    BY <1>1, <1>7, RecordFields DEF TypeOK, PhaseOK, CopiesAhead
  <2>8. CopiesAhead'
    BY <1>1, <1>7, <2>2, <2>7 DEF CopiesAhead
  <2>. QED
    BY <2>3, <2>4, <2>5, <2>6, <2>8 DEF IInv
<1>8. CASE ApplyPaidWrite
  BY <1>7, <1>8 DEF ApplyPaidWrite
<1>9. CASE ApplyRead
  <2>1. bumpNow \in Nat /\ cur.ttl \in TTLs /\ bumpCfg.lead \in Int
    <3>1. bumpCfg \in [enabled : BOOLEAN, lead : Int, maxBumps : Nat, maxIdle : Nat]
      BY <1>2, <1>9, ConstantsAssumption DEF ApplyRead
    <3>. QED
      BY <1>1, <1>2, <1>9, <3>1 DEF ApplyRead, TypeOK
  <2>2. NextBumpTime(bumpNow, cur.ttl, bumpCfg.lead) \in Int
    BY <2>1, NextBumpInWindow
  <2>. QED
    BY <1>7, <1>9, <2>2 DEF ApplyRead
<1>10. CASE CheckCap
  <2>1. pc = "cap" /\ UNCHANGED <<now, config, schedCfg, turns, records, bytes, due>>
    BY <1>10 DEF CheckCap, storeVars
  <2>2. CASE Leave(due)
    <3>1. Same(cur.key) /\ records' \in [Keys -> Record \cup {None}]
      BY <1>1, <2>1 DEF Same, TypeOK
    <3>2. records[cur.key] # None => records'[cur.key].retries <= 1
      BY <1>1, <1>2, <2>1 DEF RetriesOnce, Held
    <3>. QED
      BY <1>2, <2>1, <2>2, <3>1, <3>2, LeaveIInv
  <2>3. CASE outcome' = "bump_cap" /\ pc' = "stop" /\ UNCHANGED <<cur, bumpNow, bumpCfg>>
    <3>1. TypeOK'
      BY <1>1, <2>1, <2>3 DEF TypeOK, Phases, Reasons
    <3>2. PhaseOK' /\ RetriesOnce' /\ StampsUnique'
      BY <1>1, <2>1, <2>3 DEF PhaseOK, RetriesOnce, StampsUnique, Held
    <3>3. CopiesAhead'
      BY <1>1, <2>1, <2>3 DEF CopiesAhead
    <3>. QED
      BY <3>1, <3>2, <3>3 DEF IInv
  <2>. QED
    BY <1>10, <2>2, <2>3 DEF CheckCap
<1>11. CASE StopCur
  <2>1. /\ pc = "stop" /\ StopStore(cur.key, outcome) /\ Leave(due)
        /\ UNCHANGED <<now, config, schedCfg, turns, due>>
    BY <1>11 DEF StopCur
  <2>2. cur \in Record /\ cur.key \in Keys /\ outcome \in Reasons
    BY <1>1, <1>2, <2>1 DEF PhaseOK, Reasons
  <2>3. /\ records' \in [Keys -> Record \cup {None}]
        /\ \A j \in Keys \ {cur.key} : records'[j] = records[j]
        /\ Same(cur.key)
        /\ records[cur.key] # None => records'[cur.key].retries = records[cur.key].retries
    BY <1>1, <2>1, <2>2, StopStoreEffect
  <2>4. records[cur.key] # None => records'[cur.key].retries <= 1
    BY <1>1, <2>2, <2>3 DEF RetriesOnce, Held
  <2>. QED
    BY <2>1, <2>2, <2>3, <2>4, LeaveIInv
<1>. QED
  BY <1>3, <1>4, <1>5, <1>6, <1>8, <1>9, <1>10, <1>11 DEF Bump

LEMMA TickIInv == IInv /\ (Tick \/ StartTick \/ UNCHANGED vars) => IInv'
<1>1. ASSUME IInv, Tick PROVE IInv'
  <2>1. /\ now' = now + 1
        /\ UNCHANGED <<config, schedCfg, turns, records, bytes,
                       pc, due, cur, bumpNow, bumpCfg, outcome>>
    BY <1>1 DEF Tick, storeVars, schedVars
  <2>2. TypeOK' /\ PhaseOK' /\ RetriesOnce' /\ CopiesAhead'
    <3>1. now \in Nat
      BY <1>1 DEF IInv, TypeOK
    <3>2. now' \in Nat
      BY <2>1, <3>1, SMT
    <3>3. TypeOK'
      BY <1>1, <2>1, <3>2 DEF IInv, TypeOK
    <3>4. PhaseOK' /\ RetriesOnce'
      BY <1>1, <2>1 DEF IInv, PhaseOK, RetriesOnce, Held
    <3>5. CopiesAhead'
      BY <1>1, <2>1 DEF IInv, CopiesAhead
    <3>. QED
      BY <3>3, <3>4, <3>5
  <2>3. /\ \A t \in turns : t.lastSeen \in Nat
        /\ \A k \in Held(records) : records[k].lastSeen \in Nat
    BY <1>1, RecordFields DEF IInv, TypeOK, Held
  <2>4. now \in Nat
    BY <1>1 DEF IInv, TypeOK
  <2>5. StampsUnique'
    BY <1>1, <2>1, <2>3, <2>4 DEF IInv, StampsUnique, Held
  <2>. QED
    BY <2>2, <2>5 DEF IInv
<1>2. ASSUME IInv, StartTick PROVE IInv'
  <2>1. /\ pc = "ready" /\ due' = Due(records, now) /\ pc' = "next" /\ schedCfg' = config
        /\ UNCHANGED <<now, config, turns, records, bytes, cur, bumpNow, bumpCfg, outcome>>
    BY <1>2 DEF StartTick, storeVars
  <2>2. \A r \in due' : r \in Record /\ r.key \in Held(records) /\ r = records[r.key]
    BY <1>2, <2>1 DEF IInv, TypeOK, PhaseOK, Due, Held
  <2>3. TypeOK' /\ PhaseOK' /\ RetriesOnce' /\ StampsUnique'
    BY <1>2, <2>1, <2>2 DEF IInv, TypeOK, Phases, PhaseOK, RetriesOnce, StampsUnique, Held
  <2>4. \A r \in due' : r.retries \in Nat /\ r.retries <= 1
    BY <1>2, <2>2, RecordFields DEF IInv, RetriesOnce
  <2>5. cur = None
    BY <1>2, <2>1 DEF IInv, PhaseOK
  <2>6. CopiesAhead'
    BY <1>2, <2>1, <2>2, <2>4, <2>5 DEF IInv, CopiesAhead
  <2>. QED
    BY <2>3, <2>6 DEF IInv
<1>3. ASSUME IInv, UNCHANGED vars PROVE IInv'
  BY <1>3 DEF IInv, TypeOK, PhaseOK, RetriesOnce, CopiesAhead, StampsUnique, Held, vars
<1>. QED
  BY <1>1, <1>2, <1>3

\* IInv is inductive: the copies the scheduler works on never lag behind the
\* retries of the records they were taken from, whatever clients and operator do.
THEOREM Inductive == Spec => []IInv
<1>1. IInv /\ [Next]_vars => IInv'
  BY ClientIInv, OperatorIInv, BumpIInv, TickIInv DEF Next, Scheduler
<1>. QED
  BY InitIInv, <1>1, PTL DEF Spec

\* The bumper's state keeps its shape: scheduler.go only ever applies outcomes
\* of a copy it holds, and every stop carries a documented reason.
THEOREM TypeCorrect == Spec => []TypeOK
<1>1. IInv => TypeOK
  BY DEF IInv
<1>. QED
  BY <1>1, Inductive, PTL

\* A session is retried once at most between two good bumps, whatever turns,
\* stops and clears interleave with the bump (scheduler.go's transient case).
THEOREM RetriesOnceAlways == Spec => []RetriesOnce
<1>1. IInv => RetriesOnce
  BY DEF IInv
<1>. QED
  BY <1>1, Inductive, PTL

\* Every step of a bump makes at most one store call that changes a record.
LEMMA BumpIsOneCall ==
  ASSUME IInv, Bump
  PROVE  \/ records' = records
         \/ \E k \in Keys : Same(k) /\ \A j \in Keys \ {k} : records'[j] = records[j]
<1>1. TypeOK /\ PhaseOK
  BY DEF IInv
<1>2. pc \in {"apply", "stop"} => cur \in Record /\ cur.key \in Keys
  BY <1>1, RecordFields DEF TypeOK, PhaseOK
<1>. DEFINE OneCall(k) == Same(k) /\ \A j \in Keys \ {k} : records'[j] = records[j]
<1>. SUFFICES records' = records \/ \E k \in Keys : OneCall(k)
  OBVIOUS
<1>3. ASSUME NEW k \in Keys, NEW why \in Reasons, StopStore(k, why)
      PROVE  OneCall(k)
  BY <1>1, <1>3, StopStoreEffect
<1>4. ASSUME NEW k \in Keys, NEW next \in Int, MarkBumped(k, next) \/ ScheduleRetry(k, next)
      PROVE  OneCall(k)
  BY <1>1, <1>4, MarkBumpedEffect, ScheduleRetryEffect
<1>. HIDE DEF OneCall
<1>5. ASSUME NEW rec \in due, StopIdle(rec) \/ Send(rec)
      PROVE  records' = records \/ \E k \in Keys : OneCall(k)
  <2>1. rec.key \in Keys /\ "idle" \in Reasons
    BY <1>1, RecordFields DEF TypeOK, Reasons
  <2>. QED
    BY <1>3, <1>5, <2>1 DEF StopIdle, Send, storeVars
<1>6. CASE Answer \/ CheckCap
  BY <1>6 DEF Answer, CheckCap, storeVars
<1>7. CASE ApplyFailure
  <2>1. {"account_unavailable", "upstream_rejected", "upstream_unavailable"} \subseteq Reasons
    BY DEF Reasons
  <2>2. bumpNow + RetryAfter \in Int
    <3>1. bumpNow \in Nat
      BY <1>1 DEF TypeOK
    <3>2. RetryAfter \in Nat
      BY ConstantsAssumption
    <3>. QED
      BY <3>1, <3>2, SMT
  <2>. QED
    BY <1>2, <1>3, <1>4, <1>7, <2>1, <2>2 DEF ApplyFailure
<1>8. CASE ApplyPaidWrite
  <2>1. MarkBumped(cur.key, 0) /\ cur.key \in Keys /\ 0 \in Int
    BY <1>2, <1>8 DEF ApplyPaidWrite
  <2>. QED
    BY <1>4, <2>1
<1>9. CASE ApplyRead
  <2>1. pc = "apply" /\ MarkBumped(cur.key, NextBumpTime(bumpNow, cur.ttl, bumpCfg.lead))
    BY <1>9 DEF ApplyRead
  <2>2. bumpNow \in Nat /\ cur.ttl \in TTLs /\ bumpCfg \in Configs
    BY <1>1, <1>2, <2>1, RecordFields DEF TypeOK, PhaseOK
  <2>3. bumpCfg.lead \in Int
    <3>1. bumpCfg \in [enabled : BOOLEAN, lead : Int, maxBumps : Nat, maxIdle : Nat]
      BY <2>2, ConstantsAssumption
    <3>. QED
      BY <3>1
  <2>4. NextBumpTime(bumpNow, cur.ttl, bumpCfg.lead) \in Int
    BY <2>2, <2>3, NextBumpInWindow
  <2>. QED
    BY <1>2, <1>4, <2>1, <2>4
<1>10. CASE StopCur
  <2>1. StopStore(cur.key, outcome) /\ cur.key \in Keys /\ outcome \in Reasons
    BY <1>1, <1>2, <1>10 DEF StopCur, PhaseOK, Reasons
  <2>. QED
    BY <1>3, <2>1
<1>. QED
  BY <1>5, <1>6, <1>7, <1>8, <1>9, <1>10 DEF Bump

\* No outcome of a bump under way and no configuration change re-arms a stopped
\* session: a record that is armed again carries the time of a new turn.  Rests
\* on StampsUnique: the lastSeen of a turn identifies one arming.
THEOREM StoppedStays == Spec => StoppedStaysStopped
<1>. DEFINE Kept ==
       \A k \in Keys :
         LET r == records[k] IN
         /\ r # None /\ records'[k] # None
         /\ r.stopped /\ records'[k].lastSeen = r.lastSeen
         => records'[k].stopped
<1>1. ASSUME IInv, [Next]_vars PROVE Kept \/ UNCHANGED vars
  <2>1. CASE records' = records
    BY <2>1
  <2>2. ASSUME NEW k \in Keys, Same(k), \A j \in Keys \ {k} : records'[j] = records[j]
        PROVE  Kept
    BY <2>2 DEF Same
  <2>3. CASE Bump
    BY <1>1, <2>1, <2>2, <2>3, BumpIsOneCall
  <2>4. ASSUME NEW k \in Keys, ManualStop(k) PROVE Kept
    <3>1. TypeOK /\ "manual" \in Reasons /\ StopStore(k, "manual")
      BY <1>1, <2>4 DEF IInv, Reasons, ManualStop
    <3>. QED
      BY <2>2, <3>1, StopStoreEffect
  <2>5. CASE Clear
    BY <2>5 DEF Clear
  <2>6. ASSUME NEW t \in turns, Upsert(t) PROVE Kept
    <3>1. TypeOK /\ t \in Record /\ t.key \in Keys
      BY <1>1, RecordFields DEF IInv, TypeOK
    <3>2. \A k \in Keys : records'[k] \in {None, records[k]} \/ records'[k] = t
      BY <2>6, <3>1, UpsertEffect DEF Upsert, storeVars
    <3>3. \A k \in Keys : records[k] # None => records[k].lastSeen # t.lastSeen
      BY <1>1 DEF IInv, StampsUnique, Held
    <3>. QED
      BY <3>2, <3>3
  <2>7. CASE UNCHANGED vars
    BY <2>7
  <2>8. CASE Tick \/ EditConfig \/ Reconfigure \/ StartTick
    BY <2>1, <2>8 DEF Tick, EditConfig, Reconfigure, StartTick, storeVars
  <2>9. CASE \E k \in Keys, size \in Sizes, ttl \in TTLs : FinishTurn(k, size, ttl)
    BY <2>1, <2>9 DEF FinishTurn, storeVars
  <2>. HIDE DEF Kept
  <2>. QED
    BY <1>1, <2>3, <2>4, <2>5, <2>6, <2>7, <2>8, <2>9
    DEF Next, Client, Operator, Scheduler
<1>. QED
  BY <1>1, Inductive, PTL DEF Spec, StoppedStaysStopped

(***************************************************************************)
(* The sum of the sizes of a finite set of records.  SizeOf is a fold, a   *)
(* recursive function on sets; that the function exists, and each fact     *)
(* about it, is shown by the least counterexample in the size of the set.  *)
(***************************************************************************)

LEMMA LeastNat ==
  ASSUME NEW T, T \subseteq Nat, T # {}
  PROVE  \E m \in T : \A n \in T : m <= n
<1>1. PICK m \in T : \A n \in T : ~(<<n, m>> \in OpToRel(<, Nat))
  BY WFMin, NatLessThanWellFounded
<1>2. \A n \in T : ~(n < m)
  BY <1>1 DEF OpToRel
<1>. QED
  BY <1>2

\* What a set loses when one of its elements is taken out.
LEMMA Smaller ==
  ASSUME NEW S, IsFiniteSet(S), NEW x \in S
  PROVE  /\ IsFiniteSet(S \ {x}) /\ Cardinality(S) \in Nat \ {0}
         /\ Cardinality(S \ {x}) \in Nat /\ Cardinality(S \ {x}) = Cardinality(S) - 1
<1>1. IsFiniteSet(S \ {x}) /\ Cardinality(S \ {x}) = Cardinality(S) - 1
  BY FS_RemoveElement
<1>2. Cardinality(S) \in Nat /\ Cardinality(S \ {x}) \in Nat
  BY <1>1, FS_CardinalityType
<1>. QED
  BY <1>1, <1>2

Least(s) == CHOOSE x \in s : TRUE

SumRec(recs, f, s) == IF s = {} THEN 0 ELSE recs[Least(s)].size + f[s \ {Least(s)}]

IsSum(recs, f, S) == f = [s \in SUBSET S |-> SumRec(recs, f, s)]

LEMMA SumUnfold ==
  ASSUME NEW recs, NEW S
  PROVE  SizeOf(recs, S) = (CHOOSE f : IsSum(recs, f, S))[S]
BY DEF SizeOf, MapThenSumSet, MapThenFoldSet, IsSum, SumRec, Least

LEMMA SumExists ==
  ASSUME NEW recs, NEW S, IsFiniteSet(S)
  PROVE  \E f : IsSum(recs, f, S)
<1>. DEFINE Upto(n) == {s \in SUBSET S : Cardinality(s) <= n}
            Good(f, n) == \A s \in Upto(n) : f[s] = SumRec(recs, f, s)
            Bad == {n \in Nat : ~\E f : Good(f, n)}
<1>1. ASSUME NEW s \in SUBSET S PROVE IsFiniteSet(s) /\ Cardinality(s) \in Nat
  BY FS_Subset, FS_CardinalityType
<1>2. ASSUME NEW s \in SUBSET S, s # {}
      PROVE  /\ Least(s) \in s /\ s \ {Least(s)} \in SUBSET S
             /\ Cardinality(s \ {Least(s)}) = Cardinality(s) - 1
  <2>1. Least(s) \in s
    BY <1>2 DEF Least
  <2>. QED
    BY <1>1, <2>1, Smaller
<1>3. Bad = {}
  <2>. SUFFICES ASSUME Bad # {} PROVE FALSE
    OBVIOUS
  <2>1. PICK m \in Bad : \A n \in Bad : m <= n
    BY LeastNat
  <2>2. CASE m = 0
    <3>. DEFINE z == [s \in SUBSET S |-> 0]
    <3>1. ASSUME NEW s \in Upto(0) PROVE z[s] = SumRec(recs, z, s)
      <4>1. s = {} /\ s \in SUBSET S
        BY <1>1, <3>1, FS_EmptySet
      <4>. QED
        BY <4>1 DEF SumRec
    <3>2. Good(z, 0)
      BY <3>1
    <3>. HIDE DEF z, Good
    <3>. QED
      BY <2>1, <2>2, <3>2
  <2>3. CASE m # 0
    <3>1. m - 1 \in Nat /\ m - 1 \notin Bad
      BY <2>1, <2>3
    <3>2. PICK f : Good(f, m - 1)
      BY <3>1
    <3>. DEFINE g == [s \in SUBSET S |-> IF s \in Upto(m - 1) THEN f[s] ELSE SumRec(recs, f, s)]
    <3>3. ASSUME NEW s \in Upto(m) PROVE g[s] = SumRec(recs, g, s)
      <4>1. s \in SUBSET S /\ g[s] = SumRec(recs, f, s)
        BY <3>2
      <4>2. CASE s = {}
        BY <4>1, <4>2 DEF SumRec
      <4>3. CASE s # {}
        <5>. DEFINE t == s \ {Least(s)}
        <5>1. t \in Upto(m - 1) /\ t \in SUBSET S
          BY <1>1, <1>2, <2>1, <3>3, <4>1, <4>3
        <5>2. g[t] = f[t]
          BY <5>1
        <5>. HIDE DEF g
        <5>. QED
          BY <4>1, <4>3, <5>2 DEF SumRec
      <4>. QED
        BY <4>2, <4>3
    <3>4. Good(g, m)
      BY <3>3
    <3>. HIDE DEF g, Good
    <3>. QED
      BY <2>1, <3>4
  <2>. QED
    BY <2>2, <2>3
<1>4. PICK f : Good(f, Cardinality(S))
  BY <1>1, <1>3
<1>. DEFINE h == [s \in SUBSET S |-> f[s]]
<1>5. ASSUME NEW s \in SUBSET S PROVE f[s] = SumRec(recs, f, s)
  <2>1. s \in Upto(Cardinality(S))
    BY FS_Subset
  <2>. QED
    BY <1>4, <2>1
<1>6. ASSUME NEW s \in SUBSET S PROVE SumRec(recs, f, s) = SumRec(recs, h, s)
  BY <1>2 DEF SumRec
<1>7. h = [s \in SUBSET S |-> SumRec(recs, h, s)]
  BY <1>5, <1>6
<1>. QED
  BY <1>7 DEF IsSum

\* Sums over a set and over its subsets are the same function.
LEMMA SumAgree ==
  ASSUME NEW recs, NEW S, IsFiniteSet(S), NEW R \in SUBSET S,
         NEW f, NEW g, IsSum(recs, f, S), IsSum(recs, g, R)
  PROVE  f[R] = g[R]
<1>. DEFINE Bad == {n \in Nat : \E s \in SUBSET R : Cardinality(s) = n /\ f[s] # g[s]}
<1>1. Bad = {}
  <2>. SUFFICES ASSUME Bad # {} PROVE FALSE
    OBVIOUS
  <2>1. PICK m \in Bad : \A n \in Bad : m <= n
    BY LeastNat
  <2>2. PICK s \in SUBSET R : Cardinality(s) = m /\ f[s] # g[s]
    BY <2>1
  <2>3. f[s] = SumRec(recs, f, s) /\ g[s] = SumRec(recs, g, s)
    BY DEF IsSum
  <2>4. s # {}
    BY <2>2, <2>3 DEF SumRec
  <2>5. Least(s) \in s /\ IsFiniteSet(s)
    BY <2>4, FS_Subset DEF Least
  <2>. DEFINE t == s \ {Least(s)}
  <2>6. t \in SUBSET R /\ Cardinality(t) \in Nat /\ Cardinality(t) = m - 1
    BY <2>2, <2>5, Smaller
  <2>7. f[t] = g[t]
    BY <2>1, <2>6
  <2>. QED
    BY <2>2, <2>3, <2>4, <2>7 DEF SumRec
<1>2. IsFiniteSet(R) /\ Cardinality(R) \in Nat
  BY FS_Subset, FS_CardinalityType
<1>. QED
  BY <1>1, <1>2

LEMMA SumFirst ==
  ASSUME NEW recs, NEW S, IsFiniteSet(S)
  PROVE  SizeOf(recs, S) =
           IF S = {} THEN 0 ELSE recs[Least(S)].size + SizeOf(recs, S \ {Least(S)})
<1>. DEFINE R == S \ {Least(S)}
            f == CHOOSE h : IsSum(recs, h, S)
            g == CHOOSE h : IsSum(recs, h, R)
<1>1. IsFiniteSet(R) /\ R \in SUBSET S
  BY FS_Subset
<1>2. IsSum(recs, f, S) /\ IsSum(recs, g, R)
  BY <1>1, SumExists
<1>3. SizeOf(recs, S) = f[S] /\ SizeOf(recs, R) = g[R]
  BY SumUnfold
<1>. HIDE DEF f, g, R
<1>4. f[R] = g[R]
  BY <1>1, <1>2, SumAgree
<1>5. f[S] = SumRec(recs, f, S)
  BY <1>2 DEF IsSum
<1>6. f[S] = IF S = {} THEN 0 ELSE recs[Least(S)].size + f[R]
  BY <1>5 DEF SumRec, R
<1>7. SizeOf(recs, S) = IF S = {} THEN 0 ELSE recs[Least(S)].size + SizeOf(recs, R)
  BY <1>3, <1>4, <1>6
<1>. QED
  BY <1>7 DEF R

Sized(recs, S) == IsFiniteSet(S) /\ \A k \in S : recs[k].size \in Nat

LEMMA SumType ==
  ASSUME NEW recs, NEW S, Sized(recs, S)
  PROVE  SizeOf(recs, S) \in Nat
<1>. DEFINE Bad == {n \in Nat : \E s \in SUBSET S :
                      Cardinality(s) = n /\ SizeOf(recs, s) \notin Nat}
<1>1. Bad = {}
  <2>. SUFFICES ASSUME Bad # {} PROVE FALSE
    OBVIOUS
  <2>1. PICK m \in Bad : \A n \in Bad : m <= n
    BY LeastNat
  <2>2. PICK s \in SUBSET S : Cardinality(s) = m /\ SizeOf(recs, s) \notin Nat
    BY <2>1
  <2>3. IsFiniteSet(s)
    BY FS_Subset DEF Sized
  <2>4. s # {} /\ SizeOf(recs, s) = recs[Least(s)].size + SizeOf(recs, s \ {Least(s)})
    BY <2>2, <2>3, SumFirst
  <2>5. Least(s) \in s
    BY <2>4 DEF Least
  <2>. DEFINE t == s \ {Least(s)}
  <2>6. t \in SUBSET S /\ Cardinality(t) \in Nat /\ Cardinality(t) = m - 1
    BY <2>2, <2>3, <2>5, Smaller
  <2>7. SizeOf(recs, t) \in Nat
    BY <2>1, <2>6
  <2>. QED
    BY <2>2, <2>4, <2>5, <2>7 DEF Sized
<1>2. Cardinality(S) \in Nat
  BY FS_CardinalityType DEF Sized
<1>. QED
  BY <1>1, <1>2

\* The order of the sum does not matter.
LEMMA SumAny ==
  ASSUME NEW recs, NEW S, Sized(recs, S), NEW y \in S
  PROVE  SizeOf(recs, S) = recs[y].size + SizeOf(recs, S \ {y})
<1>. DEFINE Wrong(s) == \E x \in s : SizeOf(recs, s) # recs[x].size + SizeOf(recs, s \ {x})
            Bad == {n \in Nat : \E s \in SUBSET S : Cardinality(s) = n /\ Wrong(s)}
<1>0. ASSUME NEW s \in SUBSET S PROVE Sized(recs, s) /\ SizeOf(recs, s) \in Nat
  BY <1>0, FS_Subset, SumType DEF Sized
<1>1. Bad = {}
  <2>. SUFFICES ASSUME Bad # {} PROVE FALSE
    OBVIOUS
  <2>1. PICK m \in Bad : \A n \in Bad : m <= n
    BY LeastNat
  <2>12. PICK s \in SUBSET S : Cardinality(s) = m /\ Wrong(s)
    BY <2>1
  <2>2. PICK x \in s :
          Cardinality(s) = m /\ SizeOf(recs, s) # recs[x].size + SizeOf(recs, s \ {x})
    BY <2>12
  <2>. DEFINE l == Least(s)
  <2>3. l \in s /\ IsFiniteSet(s) /\ s # {}
    BY FS_Subset DEF Sized, Least
  <2>4. SizeOf(recs, s) = recs[l].size + SizeOf(recs, s \ {l})
    BY <2>3, SumFirst
  <2>5. x # l
    BY <2>2, <2>4
  <2>6. /\ s \ {l} \in SUBSET S /\ s \ {x} \in SUBSET S /\ (s \ {x}) \ {l} \in SUBSET S
        /\ Cardinality(s \ {l}) \in Nat /\ Cardinality(s \ {l}) = m - 1
        /\ Cardinality(s \ {x}) \in Nat /\ Cardinality(s \ {x}) = m - 1
    BY <2>2, <2>3, Smaller
  <2>7. ~Wrong(s \ {l}) /\ ~Wrong(s \ {x})
    <3>. HIDE DEF Wrong
    <3>1. ASSUME NEW t \in SUBSET S, Cardinality(t) \in Nat, Cardinality(t) = m - 1
          PROVE  ~Wrong(t)
      BY <2>1, <3>1
    <3>. QED
      BY <2>6, <3>1
  <2>8. SizeOf(recs, s \ {l}) = recs[x].size + SizeOf(recs, (s \ {l}) \ {x})
    BY <2>5, <2>7
  <2>9. SizeOf(recs, s \ {x}) = recs[l].size + SizeOf(recs, (s \ {x}) \ {l})
    BY <2>3, <2>5, <2>7
  <2>10. SizeOf(recs, s \ {l}) = recs[x].size + SizeOf(recs, (s \ {x}) \ {l})
    <3>1. (s \ {l}) \ {x} = (s \ {x}) \ {l}
      OBVIOUS
    <3>. QED
      BY <2>8, <3>1
  <2>11. /\ recs[l].size \in Nat /\ recs[x].size \in Nat
         /\ SizeOf(recs, (s \ {x}) \ {l}) \in Nat
    BY <1>0, <2>3, <2>6 DEF Sized
  <2>. HIDE DEF l
  <2>. QED
    BY <2>2, <2>4, <2>9, <2>10, <2>11
<1>2. Cardinality(S) \in Nat /\ ~Wrong(S)
  BY <1>1, FS_CardinalityType DEF Sized
<1>. QED
  BY <1>2

LEMMA SumNone ==
  ASSUME NEW recs
  PROVE  SizeOf(recs, {}) = 0
BY SumFirst, FS_EmptySet

LEMMA SumSplit ==
  ASSUME NEW recs, NEW S, Sized(recs, S), NEW R \in SUBSET S
  PROVE  /\ SizeOf(recs, S) = SizeOf(recs, R) + SizeOf(recs, S \ R)
         /\ SizeOf(recs, R) \in Nat /\ SizeOf(recs, S \ R) \in Nat
<1>. DEFINE Wrong(s) == SizeOf(recs, S) # SizeOf(recs, s) + SizeOf(recs, S \ s)
            Bad == {n \in Nat : \E s \in SUBSET S : Cardinality(s) = n /\ Wrong(s)}
<1>0. ASSUME NEW s \in SUBSET S PROVE Sized(recs, s) /\ SizeOf(recs, s) \in Nat
  BY <1>0, FS_Subset, SumType DEF Sized
<1>1. Bad = {}
  <2>. SUFFICES ASSUME Bad # {} PROVE FALSE
    OBVIOUS
  <2>1. PICK m \in Bad : \A n \in Bad : m <= n
    BY LeastNat
  <2>2. PICK s \in SUBSET S : Cardinality(s) = m /\ Wrong(s)
    BY <2>1
  <2>3. CASE s = {}
    <3>1. S \ s = S
      BY <2>3
    <3>. QED
      BY <1>0, <2>2, <2>3, <3>1, SumNone
  <2>4. CASE s # {}
    <3>1. PICK x \in s : TRUE
      BY <2>4
    <3>. DEFINE t == s \ {x}
    <3>2. t \in SUBSET S /\ S \ t \in SUBSET S /\ S \ s \in SUBSET S
      OBVIOUS
    <3>3. Cardinality(t) \in Nat /\ Cardinality(t) = m - 1
      BY <1>0, <2>2, Smaller DEF Sized
    <3>4. ~Wrong(t)
      <4>. HIDE DEF Wrong, t
      <4>. QED
        BY <2>1, <3>2, <3>3
    <3>5. SizeOf(recs, s) = recs[x].size + SizeOf(recs, t)
      BY <1>0, SumAny
    <3>6. (S \ t) \ {x} = S \ s /\ x \in S \ t
      OBVIOUS
    <3>7. SizeOf(recs, S \ t) = recs[x].size + SizeOf(recs, S \ s)
      BY <1>0, <3>2, <3>6, SumAny
    <3>8. /\ recs[x].size \in Nat /\ SizeOf(recs, t) \in Nat /\ SizeOf(recs, S \ s) \in Nat
      BY <1>0, <3>2 DEF Sized
    <3>. HIDE DEF t
    <3>. QED
      BY <2>2, <3>4, <3>5, <3>7, <3>8
  <2>. QED
    BY <2>3, <2>4
<1>2. IsFiniteSet(R) /\ Cardinality(R) \in Nat /\ S \ R \in SUBSET S
  BY FS_Subset, FS_CardinalityType DEF Sized
<1>3. ~Wrong(R)
  BY <1>1, <1>2
<1>. QED
  BY <1>0, <1>2, <1>3

LEMMA SumSame ==
  ASSUME NEW recs, NEW recs2, NEW S, IsFiniteSet(S),
         \A k \in S : recs[k].size = recs2[k].size
  PROVE  SizeOf(recs, S) = SizeOf(recs2, S)
<1>. DEFINE Bad == {n \in Nat : \E s \in SUBSET S :
                      Cardinality(s) = n /\ SizeOf(recs, s) # SizeOf(recs2, s)}
<1>1. Bad = {}
  <2>. SUFFICES ASSUME Bad # {} PROVE FALSE
    OBVIOUS
  <2>1. PICK m \in Bad : \A n \in Bad : m <= n
    BY LeastNat
  <2>2. PICK s \in SUBSET S : Cardinality(s) = m /\ SizeOf(recs, s) # SizeOf(recs2, s)
    BY <2>1
  <2>3. IsFiniteSet(s)
    BY FS_Subset
  <2>4. /\ s # {}
        /\ SizeOf(recs, s) = recs[Least(s)].size + SizeOf(recs, s \ {Least(s)})
        /\ SizeOf(recs2, s) = recs2[Least(s)].size + SizeOf(recs2, s \ {Least(s)})
    BY <2>2, <2>3, SumFirst
  <2>5. Least(s) \in s
    BY <2>4 DEF Least
  <2>. DEFINE t == s \ {Least(s)}
  <2>6. t \in SUBSET S /\ Cardinality(t) \in Nat /\ Cardinality(t) = m - 1
    BY <2>2, <2>3, <2>5, Smaller
  <2>7. SizeOf(recs, t) = SizeOf(recs2, t)
    BY <2>1, <2>6
  <2>. QED
    BY <2>2, <2>4, <2>5, <2>7
<1>2. Cardinality(S) \in Nat
  BY FS_CardinalityType
<1>. QED
  BY <1>1, <1>2

(***************************************************************************)
(* The byte count and the limits of the store                              *)
(***************************************************************************)

HeldOK == IsFiniteSet(Held(records))

\* The time of its last turn tells every record from the others.
Distinct ==
  \A j, k \in Held(records) : records[j].lastSeen = records[k].lastSeen => j = k

Budget == WithinBudget /\ HeldOK /\ Distinct

Store == [Keys -> Record \cup {None}]

LEMMA HeldRecord ==
  ASSUME NEW recs \in Store, NEW k \in Held(recs)
  PROVE  k \in Keys /\ recs[k] \in Record /\ recs[k].size \in Nat /\ recs[k].lastSeen \in Nat
<1>1. k \in Keys /\ recs[k] \in Record
  BY DEF Held, Store
<1>. QED
  BY <1>1 DEF Record

LEMMA HeldSized ==
  ASSUME NEW recs \in Store, IsFiniteSet(Held(recs)), NEW S \in SUBSET Held(recs)
  PROVE  /\ Sized(recs, S) /\ SizeOf(recs, S) \in Nat
         /\ Cardinality(S) \in Nat /\ Cardinality(S) <= Cardinality(Held(recs))
<1>1. Sized(recs, S)
  BY HeldRecord, FS_Subset DEF Sized
<1>. QED
  BY <1>1, SumType, FS_Subset, FS_CardinalityType

\* Of finitely many records one is the oldest.
LEMMA OldestExists ==
  ASSUME NEW recs \in Store, NEW S \in SUBSET Held(recs), S # {}
  PROVE  \E k \in S : \A j \in S : recs[k].lastSeen <= recs[j].lastSeen
<1>. DEFINE T == {recs[k].lastSeen : k \in S}
<1>1. T \subseteq Nat /\ T # {}
  BY HeldRecord
<1>2. PICK m \in T : \A n \in T : m <= n
  BY <1>1, LeastNat
<1>. QED
  BY <1>2

\* What is left after an eviction leaves room for the new body and its entry.
LEMMA EvictedFits ==
  ASSUME NEW recs \in Store, IsFiniteSet(Held(recs)), Cardinality(Held(recs)) <= MaxEntries,
         NEW size \in Nat, size <= MaxBytes
  PROVE  LET total == SizeOf(recs, Held(recs))
             out == Evicted(recs, total, size)
             kept == Held(recs) \ out
         IN /\ out \subseteq Held(recs)
            /\ total = SizeOf(recs, out) + SizeOf(recs, kept)
            /\ SizeOf(recs, kept) \in Nat /\ SizeOf(recs, out) \in Nat
            /\ SizeOf(recs, kept) + size <= MaxBytes
            /\ Cardinality(kept) + 1 <= MaxEntries
<1>. DEFINE total == SizeOf(recs, Held(recs))
            out == Evicted(recs, total, size)
            kept == Held(recs) \ out
<1>1. out \subseteq Held(recs) /\ kept \subseteq Held(recs)
  BY DEF Evicted
<1>2. MaxBytes \in Nat /\ MaxEntries \in Nat \ {0}
  BY ConstantsAssumption
<1>3. /\ total = SizeOf(recs, out) + SizeOf(recs, kept) /\ total \in Nat
      /\ SizeOf(recs, kept) \in Nat /\ SizeOf(recs, out) \in Nat
  BY <1>1, HeldSized, SumSplit
<1>4. ASSUME NEW k \in kept
      PROVE  /\ Cardinality(Held(recs)) >= MaxEntries => Older(recs, k) # {}
             /\ ~(total - SizeOf(recs, Older(recs, k)) + size > MaxBytes)
  BY DEF Evicted
<1>5. SizeOf(recs, kept) + size <= MaxBytes
  <2>1. CASE kept = {}
    BY <1>2, <2>1, SumNone
  <2>2. CASE kept # {}
    <3>1. PICK k \in kept : \A j \in kept : recs[k].lastSeen <= recs[j].lastSeen
      BY <1>1, <2>2, OldestExists
    <3>. DEFINE old == Older(recs, k)
    <3>2. old \subseteq Held(recs) /\ old \cap kept = {}
      <4>1. ASSUME NEW j \in old, j \in kept PROVE FALSE
        <5>1. recs[j].lastSeen \in Nat /\ recs[k].lastSeen \in Nat
          BY <1>1, <4>1, HeldRecord
        <5>. QED
          BY <3>1, <4>1, <5>1 DEF Older
      <4>. QED
        BY <4>1 DEF Older
    <3>3. old \subseteq out
      BY <3>2
    <3>4. Sized(recs, out)
      BY <1>1, HeldSized
    <3>5. /\ SizeOf(recs, out) = SizeOf(recs, old) + SizeOf(recs, out \ old)
          /\ SizeOf(recs, old) \in Nat /\ SizeOf(recs, out \ old) \in Nat
      BY <3>3, <3>4, SumSplit
    <3>6. ~(total - SizeOf(recs, old) + size > MaxBytes)
      BY <1>4
    <3>. HIDE DEF old, out, kept, total
    <3>. QED
      BY <1>2, <1>3, <3>5, <3>6
  <2>. QED
    BY <2>1, <2>2
<1>6. Cardinality(kept) + 1 <= MaxEntries
  <2>1. /\ Cardinality(kept) \in Nat /\ Cardinality(kept) <= Cardinality(Held(recs))
        /\ Cardinality(Held(recs)) \in Nat
    BY <1>1, HeldSized
  <2>2. CASE Cardinality(Held(recs)) < MaxEntries
    BY <1>2, <2>1, <2>2
  <2>3. CASE Cardinality(Held(recs)) >= MaxEntries
    <3>1. Held(recs) # {}
      BY <1>2, <2>3, FS_EmptySet
    <3>2. PICK o \in Held(recs) : \A j \in Held(recs) : recs[o].lastSeen <= recs[j].lastSeen
      BY <3>1, OldestExists
    <3>3. Older(recs, o) = {}
      <4>1. ASSUME NEW j \in Held(recs) PROVE ~(recs[j].lastSeen < recs[o].lastSeen)
        BY <3>2, HeldRecord
      <4>. QED
        BY <4>1 DEF Older
    <3>4. o \notin kept
      BY <1>4, <2>3, <3>3
    <3>5. kept \subseteq Held(recs) \ {o} /\ IsFiniteSet(Held(recs) \ {o})
      BY <3>4, Smaller
    <3>6. Cardinality(kept) <= Cardinality(Held(recs) \ {o})
      BY <3>5, FS_Subset
    <3>7. /\ Cardinality(Held(recs) \ {o}) \in Nat
          /\ Cardinality(Held(recs) \ {o}) = Cardinality(Held(recs)) - 1
      BY Smaller
    <3>. QED
      BY <1>2, <2>1, <3>6, <3>7
  <2>. QED
    BY <1>2, <2>1, <2>2, <2>3
<1>. QED
  BY <1>1, <1>3, <1>5, <1>6

LEMMA InitBudget == Init => Budget
<1>. SUFFICES ASSUME Init PROVE Budget
  OBVIOUS
<1>1. Held(records) = {} /\ bytes = 0
  BY DEF Init, Held
<1>2. 0 <= MaxBytes /\ 0 <= MaxEntries
  BY ConstantsAssumption
<1>. QED
  BY <1>1, <1>2, SumNone, FS_EmptySet DEF Budget, WithinBudget, HeldOK, Distinct

\* A call that changes no size.
LEMMA BudgetSame ==
  ASSUME TypeOK, Budget, UNCHANGED bytes, Held(records') = Held(records),
         \A k \in Held(records) : /\ records'[k].size = records[k].size
                                  /\ records'[k].lastSeen = records[k].lastSeen
  PROVE  Budget'
<1>1. SizeOf(records', Held(records)) = SizeOf(records, Held(records))
  BY SumSame DEF Budget, HeldOK
<1>2. WithinBudget' /\ HeldOK'
  BY <1>1 DEF Budget, WithinBudget, HeldOK
<1>3. Distinct'
  BY DEF Budget, Distinct
<1>. QED
  BY <1>2, <1>3 DEF Budget

LEMMA BudgetStop ==
  ASSUME TypeOK, Budget, NEW k \in Keys, NEW why \in Reasons, StopStore(k, why)
  PROVE  Budget'
<1>1. CASE records[k] = None
  <2>1. UNCHANGED <<records, bytes>>
    BY <1>1 DEF StopStore, storeVars
  <2>. QED
    BY <2>1, BudgetSame
<1>2. CASE records[k] # None
  <2>. DEFINE H == Held(records)
  <2>1. /\ \A j \in Keys \ {k} : records'[j] = records[j]
        /\ records'[k] # None /\ records'[k].lastSeen = records[k].lastSeen
        /\ records'[k].size = 0
    BY <1>2, StopStoreEffect DEF Same
  <2>2. Held(records') = H /\ k \in H
    BY <1>2, <2>1 DEF Held
  <2>3. records \in Store /\ IsFiniteSet(H)
    BY DEF TypeOK, Store, Budget, HeldOK
  <2>4. Sized(records, H) /\ H \ {k} \in SUBSET H
    BY <2>3, HeldSized
  <2>5. /\ SizeOf(records, H) = records[k].size + SizeOf(records, H \ {k})
        /\ SizeOf(records, H \ {k}) \in Nat /\ records[k].size \in Nat
    BY <2>2, <2>3, <2>4, SumAny, HeldSized, HeldRecord
  <2>6. Sized(records', H)
    BY <2>1, <2>4 DEF Sized, Held
  <2>7. SizeOf(records', H) = records'[k].size + SizeOf(records', H \ {k})
    BY <2>2, <2>6, SumAny
  <2>8. SizeOf(records', H \ {k}) = SizeOf(records, H \ {k})
    <3>1. IsFiniteSet(H \ {k}) /\ \A j \in H \ {k} : records'[j].size = records[j].size
      BY <2>1, <2>3, FS_Subset DEF Held
    <3>. QED
      BY <3>1, SumSame
  <2>9. bytes' = bytes - records[k].size
    BY <1>2 DEF StopStore
  <2>10. /\ bytes = SizeOf(records, H) /\ bytes <= MaxBytes
         /\ Cardinality(H) <= MaxEntries /\ MaxBytes \in Nat
    BY ConstantsAssumption DEF Budget, WithinBudget
  <2>. HIDE DEF H
  <2>11. bytes' = SizeOf(records', H) /\ bytes' <= MaxBytes
    BY <2>1, <2>5, <2>7, <2>8, <2>9, <2>10
  <2>12. WithinBudget' /\ HeldOK'
    BY <2>2, <2>3, <2>10, <2>11 DEF WithinBudget, HeldOK
  <2>13. Distinct'
    <3>1. \A j \in H : records'[j].lastSeen = records[j].lastSeen
      BY <2>1 DEF H, Held
    <3>. QED
      BY <2>2, <3>1 DEF H, Budget, Distinct
  <2>. QED
    BY <2>12, <2>13 DEF Budget
<1>. QED
  BY <1>1, <1>2

\* The record t goes in: what it replaces or outlives goes out first, then
\* what the limits do not hold.
LEMMA BudgetUpsert ==
  ASSUME IInv, Budget, NEW t \in turns, t.size <= MaxBytes, UpsertStore(t)
  PROVE  Budget'
<1>. DEFINE gone == Expired(records, t.lastSeen) \cup (Held(records) \cap {t.key})
            base == Without(records, gone)
            left == bytes - SizeOf(records, gone)
            out  == Evicted(base, left, t.size)
            kept == Held(base) \ out
<1>1. /\ records' = [Without(base, out) EXCEPT ![t.key] = t]
      /\ bytes' = left - SizeOf(base, out) + t.size
  BY DEF UpsertStore
<1>2. t \in Record /\ t.key \in Keys /\ t.size \in Nat /\ t # None
  BY NoneAssumption DEF IInv, TypeOK, Record
<1>3. records \in Store /\ IsFiniteSet(Held(records)) /\ gone \subseteq Held(records)
  BY DEF IInv, TypeOK, Store, Budget, HeldOK, Expired
<1>. HIDE DEF gone
<1>4. /\ base \in Store /\ Held(base) = Held(records) \ gone
      /\ \A k \in Held(base) : base[k] = records[k]
  BY <1>3 DEF Without, Store, Held
<1>5. t.key \notin Held(base)
  BY <1>4 DEF gone
<1>6. /\ IsFiniteSet(Held(base)) /\ Cardinality(Held(base)) <= MaxEntries
      /\ left = SizeOf(base, Held(base))
  <2>1. /\ IsFiniteSet(Held(base)) /\ Cardinality(Held(base)) \in Nat
        /\ Cardinality(Held(base)) <= Cardinality(Held(records))
        /\ Cardinality(Held(records)) \in Nat
    BY <1>3, <1>4, FS_Subset, FS_CardinalityType
  <2>2. Cardinality(Held(records)) <= MaxEntries /\ MaxEntries \in Nat
    BY ConstantsAssumption DEF Budget, WithinBudget
  <2>3. /\ SizeOf(records, Held(records))
             = SizeOf(records, gone) + SizeOf(records, Held(records) \ gone)
        /\ SizeOf(records, gone) \in Nat /\ SizeOf(records, Held(records) \ gone) \in Nat
    BY <1>3, HeldSized, SumSplit
  <2>4. SizeOf(base, Held(base)) = SizeOf(records, Held(base))
    BY <1>4, <2>1, SumSame
  <2>5. bytes = SizeOf(records, Held(records))
    BY DEF Budget, WithinBudget
  <2>6. left = SizeOf(records, Held(records) \ gone)
    BY <2>3, <2>5
  <2>7. left = SizeOf(base, Held(base))
    BY <1>4, <2>4, <2>6
  <2>8. Cardinality(Held(base)) <= MaxEntries
    BY <2>1, <2>2
  <2>. QED
    BY <2>1, <2>7, <2>8
<1>. HIDE DEF base, left
<1>7. /\ out \subseteq Held(base)
      /\ left = SizeOf(base, out) + SizeOf(base, kept)
      /\ SizeOf(base, kept) \in Nat /\ SizeOf(base, out) \in Nat
      /\ SizeOf(base, kept) + t.size <= MaxBytes
      /\ Cardinality(kept) + 1 <= MaxEntries
  BY <1>2, <1>4, <1>6, EvictedFits
<1>8. IsFiniteSet(kept) /\ Cardinality(kept) \in Nat /\ t.key \notin kept
  BY <1>4, <1>5, <1>6, HeldSized, FS_Subset
<1>9. /\ records'[t.key] = t
      /\ \A k \in Keys \ {t.key} : records'[k] = IF k \in out THEN None ELSE base[k]
  BY <1>1, <1>2 DEF Without
<1>. HIDE DEF out
<1>10. Held(records') = kept \cup {t.key} /\ \A k \in kept : records'[k] = base[k]
  BY <1>2, <1>7, <1>8, <1>9 DEF Held
<1>. HIDE DEF kept
<1>11. IsFiniteSet(kept \cup {t.key}) /\ Cardinality(kept \cup {t.key}) = Cardinality(kept) + 1
  BY <1>8, FS_AddElement
<1>12. SizeOf(records', kept \cup {t.key}) = t.size + SizeOf(base, kept)
  <2>1. SizeOf(records', kept) = SizeOf(base, kept)
    BY <1>8, <1>10, SumSame
  <2>2. \A k \in kept : records'[k].size \in Nat
    BY <1>4, <1>10, HeldRecord DEF kept
  <2>3. Sized(records', kept \cup {t.key})
    BY <1>2, <1>9, <1>11, <2>2 DEF Sized
  <2>4. (kept \cup {t.key}) \ {t.key} = kept
    BY <1>8
  <2>. QED
    BY <1>9, <2>1, <2>3, <2>4, SumAny
<1>13. bytes' = t.size + SizeOf(base, kept) /\ bytes' <= MaxBytes
  BY <1>1, <1>2, <1>7, ConstantsAssumption DEF out
<1>14. WithinBudget'
  BY <1>7, <1>8, <1>10, <1>11, <1>12, <1>13 DEF WithinBudget
<1>15. HeldOK'
  BY <1>10, <1>11 DEF HeldOK
<1>16. Distinct'
  <2>1. \A k \in kept : k \in Held(records) /\ records'[k] = records[k]
    BY <1>4, <1>10 DEF kept
  <2>2. \A k \in Held(records) : records[k].lastSeen # t.lastSeen
    BY DEF IInv, StampsUnique
  <2>. QED
    BY <1>9, <1>10, <2>1, <2>2 DEF Budget, Distinct
<1>. QED
  BY <1>14, <1>15, <1>16 DEF Budget

LEMMA NextBudget == IInv /\ Budget /\ [Next]_vars => Budget'
<1>. SUFFICES ASSUME IInv, Budget, [Next]_vars PROVE Budget'
  OBVIOUS
<1>1. TypeOK /\ PhaseOK
  BY DEF IInv
<1>2. CASE UNCHANGED storeVars
  BY <1>1, <1>2, BudgetSame DEF storeVars
<1>3. CASE UNCHANGED vars \/ Tick \/ EditConfig \/ Reconfigure \/ StartTick \/ Answer \/ CheckCap
  BY <1>2, <1>3 DEF vars, Tick, EditConfig, Reconfigure, StartTick, Answer, CheckCap, storeVars
<1>4. CASE \E k \in Keys, size \in Sizes, ttl \in TTLs : FinishTurn(k, size, ttl)
  BY <1>2, <1>4 DEF FinishTurn
<1>5. ASSUME NEW t \in turns, Upsert(t) PROVE Budget'
  <2>1. t.size \in Nat /\ MaxBytes \in Nat
    BY <1>1, ConstantsAssumption DEF TypeOK, Record
  <2>2. CASE t.size > MaxBytes
    BY <1>2, <1>5, <2>2 DEF Upsert
  <2>3. CASE ~(t.size > MaxBytes)
    BY <1>5, <2>1, <2>3, BudgetUpsert DEF Upsert
  <2>. QED
    BY <2>2, <2>3
<1>6. ASSUME NEW k \in Keys, ManualStop(k) PROVE Budget'
  BY <1>1, <1>6, BudgetStop DEF ManualStop, Reasons
<1>7. CASE Clear
  <2>1. Held(records') = {} /\ bytes' = 0
    BY <1>7 DEF Clear, Held
  <2>2. 0 <= MaxBytes /\ 0 <= MaxEntries
    BY ConstantsAssumption
  <2>. QED
    BY <2>1, <2>2, SumNone, FS_EmptySet DEF Budget, WithinBudget, HeldOK, Distinct
<1>8. ASSUME NEW k \in Keys, NEW next \in Int, MarkBumped(k, next) \/ ScheduleRetry(k, next)
      PROVE  Budget'
  <2>1. /\ \A j \in Keys \ {k} : records'[j] = records[j]
        /\ Same(k)
        /\ records[k] # None => records'[k].size = records[k].size
    BY <1>1, <1>8, MarkBumpedEffect, ScheduleRetryEffect
  <2>2. Held(records') = Held(records)
    BY <2>1 DEF Held, Same
  <2>3. \A j \in Held(records) : /\ records'[j].size = records[j].size
                                 /\ records'[j].lastSeen = records[j].lastSeen
    BY <2>1 DEF Held, Same
  <2>4. UNCHANGED bytes
    BY <1>8 DEF MarkBumped, ScheduleRetry
  <2>. QED
    BY <1>1, <2>2, <2>3, <2>4, BudgetSame
<1>9. ASSUME NEW rec \in due, StopIdle(rec) \/ Send(rec) PROVE Budget'
  <2>1. rec.key \in Keys /\ "idle" \in Reasons
    BY <1>1, RecordFields DEF TypeOK, Reasons
  <2>. QED
    BY <1>1, <1>2, <1>9, <2>1, BudgetStop DEF StopIdle, Send
<1>10. pc \in {"apply", "stop"} =>
         /\ cur.key \in Keys /\ cur.ttl \in TTLs
         /\ bumpNow \in Nat /\ bumpNow + RetryAfter \in Int /\ bumpCfg.lead \in Int
  <2>. SUFFICES ASSUME pc \in {"apply", "stop"}
                PROVE  /\ cur.key \in Keys /\ cur.ttl \in TTLs
                       /\ bumpNow \in Nat /\ bumpNow + RetryAfter \in Int /\ bumpCfg.lead \in Int
    OBVIOUS
  <2>1. cur \in Record /\ bumpCfg \in Configs /\ bumpNow \in Nat
    BY <1>1 DEF TypeOK, PhaseOK
  <2>2. bumpCfg \in [enabled : BOOLEAN, lead : Int, maxBumps : Nat, maxIdle : Nat]
    BY <2>1, ConstantsAssumption
  <2>3. bumpNow + RetryAfter \in Int
    BY <2>1, ConstantsAssumption
  <2>4. bumpCfg.lead \in Int
    BY <2>2
  <2>. QED
    BY <2>1, <2>3, <2>4, RecordFields
<1>11. CASE ApplyFailure
  <2>1. {"account_unavailable", "upstream_rejected", "upstream_unavailable"} \subseteq Reasons
    BY DEF Reasons
  <2>. QED
    BY <1>1, <1>8, <1>10, <1>11, <2>1, BudgetStop DEF ApplyFailure
<1>12. CASE ApplyPaidWrite
  <2>1. MarkBumped(cur.key, 0) /\ cur.key \in Keys /\ 0 \in Int
    BY <1>10, <1>12 DEF ApplyPaidWrite
  <2>. QED
    BY <1>8, <2>1
<1>13. CASE ApplyRead
  <2>1. MarkBumped(cur.key, NextBumpTime(bumpNow, cur.ttl, bumpCfg.lead)) /\ pc = "apply"
    BY <1>13 DEF ApplyRead
  <2>2. NextBumpTime(bumpNow, cur.ttl, bumpCfg.lead) \in Int /\ cur.key \in Keys
    BY <1>10, <2>1, NextBumpInWindow
  <2>. QED
    BY <1>8, <2>1, <2>2
<1>14. CASE StopCur
  <2>1. StopStore(cur.key, outcome) /\ cur.key \in Keys /\ outcome \in Reasons
    BY <1>1, <1>10, <1>14 DEF StopCur, PhaseOK, Reasons
  <2>. QED
    BY <1>1, <2>1, BudgetStop
<1>. QED
  BY <1>3, <1>4, <1>5, <1>6, <1>7, <1>9, <1>11, <1>12, <1>13, <1>14
  DEF Next, Client, Operator, Scheduler, Bump

LEMMA BudgetInvariant == Spec => [](IInv /\ Budget)
BY InitIInv, InitBudget, NextBudget, Inductive, PTL DEF Spec

\* The byte count of the store is the total of the bodies it holds, and neither
\* the bytes nor the entries pass their limits, for any limits and any mix of
\* inserts, prunes, evictions, stops and clears (store.go: an insert evicts the
\* oldest until both hold).
THEOREM BudgetHolds == Spec => []WithinBudget
<1>1. Budget => WithinBudget
  BY DEF Budget
<1>. QED
  BY <1>1, BudgetInvariant, PTL

\* An insert drops a session only when every session it keeps was seen later:
\* Upsert prunes by age and evicts from the oldest on.
THEOREM NewestKept == Spec => KeepsNewest
<1>. DEFINE Kept ==
       \A t \in turns, j, k \in Held(records) :
         /\ Upsert(t) /\ j # t.key /\ k # t.key
         /\ records'[j] = None /\ records'[k] # None
         => records[j].lastSeen < records[k].lastSeen
<1>1. ASSUME IInv, Budget PROVE Kept
  <2>. SUFFICES ASSUME NEW t \in turns, NEW j \in Held(records), NEW k \in Held(records),
                       Upsert(t), j # t.key, k # t.key, records'[j] = None, records'[k] # None
                PROVE  records[j].lastSeen < records[k].lastSeen
    OBVIOUS
  <2>. DEFINE gone == Expired(records, t.lastSeen) \cup (Held(records) \cap {t.key})
              base == Without(records, gone)
              left == bytes - SizeOf(records, gone)
              out  == Evicted(base, left, t.size)
  <2>1. records[j] # None /\ j \in Keys /\ k \in Keys
    BY DEF Held
  <2>2. UpsertStore(t)
    BY <2>1 DEF Upsert, storeVars
  <2>3. records' = [Without(base, out) EXCEPT ![t.key] = t]
    BY <2>2 DEF UpsertStore
  <2>4. records \in Store /\ IsFiniteSet(Held(records)) /\ gone \subseteq Held(records)
    BY <1>1 DEF IInv, TypeOK, Store, Budget, HeldOK, Expired
  <2>5. /\ records[j].lastSeen \in Nat /\ records[k].lastSeen \in Nat
        /\ t.lastSeen \in Nat /\ StoreTTL \in Nat /\ t.size \in Nat /\ MaxBytes \in Nat
        /\ j # k => records[j].lastSeen # records[k].lastSeen
    BY <1>1, <2>4, HeldRecord, ConstantsAssumption
    DEF IInv, TypeOK, Record, Budget, Distinct
  <2>. HIDE DEF gone
  <2>6. /\ base \in Store /\ Held(base) = Held(records) \ gone
        /\ \A i \in Held(base) : base[i] = records[i]
        /\ \A i \in gone : base[i] = None
    BY <2>4 DEF Without, Store, Held
  <2>. HIDE DEF base, left
  <2>7. /\ j \in gone \/ (j \in Held(base) /\ j \in out)
        /\ k \in Held(base) /\ k \notin out
    <3>1. \A i \in Keys \ {t.key} : records'[i] = IF i \in out THEN None ELSE base[i]
      BY <2>3 DEF Without
    <3>2. out \subseteq Held(base)
      BY DEF Evicted
    <3>. HIDE DEF out
    <3>. QED
      BY <2>1, <2>6, <3>1, <3>2 DEF Held
  <2>8. CASE j \in gone
    <3>1. records[j].lastSeen < t.lastSeen - StoreTTL
      BY <2>8 DEF gone, Expired
    <3>2. ~(records[k].lastSeen < t.lastSeen - StoreTTL)
      BY <2>6, <2>7 DEF gone, Expired
    <3>. QED
      BY <2>5, <3>1, <3>2
  <2>9. CASE j \in Held(base) /\ j \in out
    <3>. SUFFICES ASSUME ~(records[j].lastSeen < records[k].lastSeen) PROVE FALSE
      OBVIOUS
    <3>1. records[k].lastSeen < records[j].lastSeen
      BY <2>5, <2>7, <2>9
    <3>2. k \in Older(base, j)
      BY <2>6, <2>7, <2>9, <3>1 DEF Older
    <3>3. /\ left - SizeOf(base, Older(base, j)) + t.size > MaxBytes
          /\ ~(left - SizeOf(base, Older(base, k)) + t.size > MaxBytes)
      BY <2>7, <2>9, <3>2 DEF Evicted
    <3>. DEFINE J == Older(base, j)
                K == Older(base, k)
    <3>4. K \subseteq J /\ J \subseteq Held(base)
      <4>1. ASSUME NEW i \in K PROVE i \in J
        <5>1. /\ i \in Held(base) /\ base[i].lastSeen < base[k].lastSeen
              /\ base[i].lastSeen \in Nat
          BY <2>6, HeldRecord DEF Older
        <5>2. base[k] = records[k] /\ base[j] = records[j]
          BY <2>6, <2>7, <2>9
        <5>. QED
          BY <2>5, <3>1, <5>1, <5>2 DEF Older
      <4>. QED
        BY <4>1 DEF Older
    <3>5. IsFiniteSet(Held(base))
      BY <2>4, <2>6, FS_Subset
    <3>6. Sized(base, J)
      BY <2>6, <3>4, <3>5, HeldSized
    <3>7. /\ SizeOf(base, J) = SizeOf(base, K) + SizeOf(base, J \ K)
          /\ SizeOf(base, K) \in Nat /\ SizeOf(base, J \ K) \in Nat
      BY <3>4, <3>6, SumSplit
    <3>8. left \in Int
      <4>1. bytes = SizeOf(records, Held(records)) /\ SizeOf(records, Held(records)) \in Nat
        BY <1>1, <2>4, HeldSized DEF Budget, WithinBudget
      <4>2. SizeOf(records, gone) \in Nat
        BY <2>4, HeldSized
      <4>. QED
        BY <4>1, <4>2 DEF left
    <3>. HIDE DEF J, K
    <3>9. /\ left - SizeOf(base, J) + t.size > MaxBytes
          /\ ~(left - SizeOf(base, K) + t.size > MaxBytes)
      BY <3>3 DEF J, K
    <3>. QED
      BY <2>5, <3>7, <3>8, <3>9
  <2>. QED
    BY <2>7, <2>8, <2>9
<1>2. IInv /\ Budget => [Kept]_vars
  BY <1>1
<1>. HIDE DEF Kept
<1>3. Spec => [][Kept]_vars
  BY <1>2, BudgetInvariant, PTL
<1>. QED
  BY <1>3 DEF KeepsNewest, Kept

(***************************************************************************)
(* The cap of bumps                                                        *)
(***************************************************************************)

\* The knobs the operator can choose agree on the cap.
OneCap == \A c, d \in Configs : c.maxBumps = d.maxBumps

\* What waits for its bump, or is being bumped, is below the cap.
BelowCap ==
  config.maxBumps > 0 =>
    /\ \A r \in due : records[r.key] # None => records[r.key].bumps < config.maxBumps
    /\ pc \in {"sending", "apply"} /\ records[cur.key] # None =>
         records[cur.key].bumps < config.maxBumps

Capped == BumpCap /\ BelowCap /\ \A t \in turns : t.bumps = 0

LEMMA InitCapped == Init => Capped
<1>. SUFFICES ASSUME Init PROVE Capped
  OBVIOUS
<1>1. Held(records) = {} /\ turns = {} /\ due = {} /\ pc = "ready"
  BY DEF Init, Held
<1>. QED
  BY <1>1 DEF Capped, BumpCap, BelowCap

\* A step that counts no bump: every record keeps its count or is a new turn's,
\* what waits or is sent was waiting, and a session at the cap stays with the
\* scheduler until it is stopped.
LEMMA CappedStays ==
  ASSUME OneCap, IInv, Capped, config' \in Configs, due' \subseteq due,
         \A t \in turns' : t.bumps = 0,
         \A k \in Keys :
           records'[k] # None =>
             \/ records'[k].bumps = 0
             \/ /\ records[k] # None /\ records'[k].bumps = records[k].bumps
                /\ records[k].stopped => records'[k].stopped,
         pc' \in {"sending", "apply"} =>
           \/ cur' \in due
           \/ pc \in {"sending", "apply"} /\ cur' = cur,
         pc \in {"cap", "stop"} =>
           \/ pc' \in {"cap", "stop"} /\ cur' = cur
           \/ records'[cur.key] # None /\ config.maxBumps > 0 =>
                \/ records'[cur.key].bumps < config.maxBumps
                \/ records'[cur.key].stopped
  PROVE  Capped'
<1>1. TypeOK /\ PhaseOK
  BY DEF IInv
<1>2. config'.maxBumps = config.maxBumps /\ config.maxBumps \in Nat
  <2>1. config \in Configs
    BY <1>1 DEF TypeOK
  <2>2. config \in [enabled : BOOLEAN, lead : Int, maxBumps : Nat, maxIdle : Nat]
    BY <2>1, ConstantsAssumption
  <2>3. config.maxBumps \in Nat
    BY <2>2
  <2>. QED
    BY <2>1, <2>3 DEF OneCap
<1>. DEFINE M == config.maxBumps
<1>. SUFFICES ASSUME M > 0 PROVE BumpCap' /\ BelowCap'
  BY <1>2 DEF Capped, BumpCap, BelowCap
<1>3. /\ \A r \in due : r.key \in Keys
      /\ pc \in {"sending", "apply", "cap", "stop"} => cur.key \in Keys
  BY <1>1, RecordFields DEF TypeOK, PhaseOK
<1>4. ASSUME NEW k \in Keys, records'[k] # None
      PROVE  /\ records'[k].bumps <= M
             /\ records[k] # None /\ records[k].bumps < M => records'[k].bumps < M
             /\ records[k] = None => records'[k].bumps < M
             /\ records'[k].bumps = M /\ ~records'[k].stopped =>
                  /\ records[k] # None /\ ~records[k].stopped /\ records[k].bumps = M
                  /\ pc \in {"cap", "stop"} /\ cur.key = k
  <2>1. records[k] # None =>
          /\ records[k].bumps <= M
          /\ records[k].bumps = M /\ ~records[k].stopped => pc \in {"cap", "stop"} /\ cur.key = k
    BY DEF Capped, BumpCap, Held
  <2>. QED
    BY <1>2, <1>4, <2>1
<1>5. BelowCap'
  <2>1. ASSUME NEW r \in due', records'[r.key] # None PROVE records'[r.key].bumps < M
    <3>1. r \in due /\ r.key \in Keys
      BY <1>3, <2>1
    <3>2. records[r.key] # None => records[r.key].bumps < M
      BY <3>1 DEF Capped, BelowCap
    <3>. QED
      BY <1>4, <2>1, <3>1, <3>2
  <2>2. ASSUME pc' \in {"sending", "apply"}, records'[cur'.key] # None
        PROVE  records'[cur'.key].bumps < M
    <3>1. cur'.key \in Keys /\ (records[cur'.key] # None => records[cur'.key].bumps < M)
      BY <1>3, <2>2 DEF Capped, BelowCap
    <3>. QED
      BY <1>4, <2>2, <3>1
  <2>. QED
    BY <1>2, <2>1, <2>2 DEF BelowCap
<1>6. BumpCap'
  <2>. SUFFICES ASSUME NEW k \in Keys, records'[k] # None
                PROVE  /\ records'[k].bumps <= M
                       /\ records'[k].bumps = M /\ ~records'[k].stopped =>
                            pc' \in {"cap", "stop"} /\ cur'.key = k
    BY <1>2 DEF BumpCap, Held
  <2>1. ~(M < M)
    BY <1>2
  <2>. QED
    BY <1>4, <2>1
<1>. QED
  BY <1>5, <1>6

\* A bump that read the cache is counted while the scheduler holds the session.
LEMMA MarkCapped ==
  ASSUME OneCap, IInv, Capped, NEW next \in Int, MarkBumped(cur.key, next), pc = "apply",
         pc' \in {"cap", "stop"}, UNCHANGED <<config, turns, due, cur>>
  PROVE  Capped'
<1>1. TypeOK /\ PhaseOK /\ CopiesAhead
  BY DEF IInv
<1>2. cur \in Record /\ cur.key \in Keys /\ cur # None
  BY <1>1, RecordFields DEF TypeOK, PhaseOK
<1>3. /\ \A j \in Keys \ {cur.key} : records'[j] = records[j]
      /\ Same(cur.key)
      /\ records[cur.key] # None => records'[cur.key].bumps = records[cur.key].bumps + 1
  BY <1>1, <1>2, MarkBumpedEffect
<1>4. config.maxBumps \in Nat
  <2>1. config \in [enabled : BOOLEAN, lead : Int, maxBumps : Nat, maxIdle : Nat]
    BY <1>1, ConstantsAssumption DEF TypeOK
  <2>. QED
    BY <2>1
<1>. DEFINE M == config.maxBumps
<1>. SUFFICES ASSUME M > 0 PROVE BumpCap' /\ BelowCap'
  BY DEF Capped, BumpCap, BelowCap
<1>5. records[cur.key] # None =>
        records[cur.key].bumps < M /\ records[cur.key].bumps \in Nat
  BY <1>1, <1>2, RecordFields DEF Capped, BelowCap, TypeOK
<1>6. \A r \in due : r.key \in Keys /\ r.key # cur.key
  BY <1>1, <1>2, RecordFields DEF TypeOK, CopiesAhead
<1>7. BelowCap'
  BY <1>3, <1>6 DEF Capped, BelowCap
<1>8. BumpCap'
  <2>. SUFFICES ASSUME NEW k \in Keys, records'[k] # None
                PROVE  /\ records'[k].bumps <= M
                       /\ records'[k].bumps = M /\ ~records'[k].stopped => cur.key = k
    BY DEF BumpCap, Held
  <2>1. CASE k = cur.key
    BY <1>3, <1>4, <1>5, <2>1 DEF Same
  <2>2. CASE k # cur.key
    BY <1>3, <2>2 DEF Capped, BumpCap, Held
  <2>. QED
    BY <2>1, <2>2
<1>. QED
  BY <1>7, <1>8

LEMMA NextCapped == OneCap /\ IInv /\ Capped /\ [Next]_vars => Capped'
<1>. SUFFICES ASSUME OneCap, IInv, Capped, [Next]_vars PROVE Capped'
  OBVIOUS
<1>1. TypeOK /\ PhaseOK /\ CopiesAhead
  BY DEF IInv
<1>2. config \in Configs /\ \A t \in turns : t.bumps = 0
  BY <1>1 DEF TypeOK, Capped
<1>3. /\ \A r \in due : r \in Record /\ r.key \in Keys
      /\ pc \in {"sending", "apply", "cap", "stop"} =>
           cur \in Record /\ cur.key \in Keys /\ cur # None
  BY <1>1, RecordFields DEF TypeOK, PhaseOK
<1>4. CASE UNCHANGED <<records, turns, pc, due, cur>> /\ config' \in Configs
  <2>. USE <1>4
  <2>. QED
    BY <1>2, CappedStays
<1>5. CASE UNCHANGED vars \/ Tick \/ EditConfig \/ Reconfigure
  BY <1>2, <1>4, <1>5 DEF vars, Tick, EditConfig, Reconfigure, storeVars, schedVars
<1>6. ASSUME NEW k \in Keys, NEW size \in Sizes, NEW ttl \in TTLs, FinishTurn(k, size, ttl)
      PROVE  Capped'
  <2>. DEFINE u == [key |-> k, size |-> size, ttl |-> ttl, lastSeen |-> now + 1,
                    nextBump |-> NextBumpTime(now + 1, ttl, config.lead),
                    bumps |-> 0, retries |-> 0, stopped |-> FALSE, reason |-> ""]
  <2>2. u.bumps = 0
    OBVIOUS
  <2>3. turns' = turns \cup {u} /\ UNCHANGED <<config, records, pc, due, cur>>
    BY <1>6 DEF FinishTurn, storeVars, schedVars
  <2>. HIDE DEF u
  <2>1. \A t \in turns' : t.bumps = 0
    BY <1>2, <2>2, <2>3
  <2>. QED
    BY <1>2, <2>1, <2>3, CappedStays
<1>7. ASSUME NEW t \in turns, Upsert(t) PROVE Capped'
  <2>1. /\ turns' = turns \ {t} /\ UNCHANGED <<config, pc, due, cur>>
    BY <1>7 DEF Upsert, schedVars
  <2>2. \A k \in Keys : \/ records'[k] \in {None, records[k]}
                        \/ records'[k] = t
    <3>1. t.key \in Keys
      BY <1>1, RecordFields DEF TypeOK
    <3>. QED
      BY <1>1, <1>7, <3>1, UpsertEffect DEF Upsert, storeVars
  <2>3. \A k \in Keys : records'[k] # None =>
          \/ records'[k].bumps = 0
          \/ records[k] # None /\ records'[k] = records[k]
    BY <1>2, <2>2
  <2>. QED
    BY <1>2, <2>1, <2>3, CappedStays
<1>8. ASSUME NEW k \in Keys, NEW why \in Reasons, StopStore(k, why)
      PROVE  /\ \A j \in Keys :
                  records'[j] # None =>
                    /\ records[j] # None /\ records'[j].bumps = records[j].bumps
                    /\ records[j].stopped => records'[j].stopped
             /\ records'[k] # None => records'[k].stopped
  BY <1>1, <1>8, StopStoreEffect DEF Same
<1>9. ASSUME NEW k \in Keys, ManualStop(k) PROVE Capped'
  <2>1. StopStore(k, "manual") /\ UNCHANGED <<config, turns, pc, due, cur>>
    BY <1>9 DEF ManualStop, schedVars
  <2>. QED
    BY <1>2, <1>8, <2>1, CappedStays DEF Reasons
<1>10. CASE Clear
  <2>1. /\ \A k \in Keys : records'[k] = None
        /\ UNCHANGED <<config, turns, pc, due, cur>>
    BY <1>10 DEF Clear, schedVars
  <2>. QED
    BY <1>2, <2>1, CappedStays
<1>11. CASE StartTick
  <2>1. /\ pc = "ready" /\ due' = Due(records, now) /\ pc' = "next"
        /\ UNCHANGED <<config, turns, records, cur>>
    BY <1>11 DEF StartTick, storeVars
  <2>2. BumpCap'
    BY <2>1 DEF Capped, BumpCap, Held
  <2>3. config.maxBumps \in Nat
    <3>1. config \in [enabled : BOOLEAN, lead : Int, maxBumps : Nat, maxIdle : Nat]
      BY <1>2, ConstantsAssumption
    <3>. QED
      BY <3>1
  <2>4. ASSUME config.maxBumps > 0, NEW r \in due'
        PROVE  records[r.key].bumps < config.maxBumps
    <3>1. PICK k \in Held(records) : r = records[k] /\ ~records[k].stopped
      BY <2>1, <2>4 DEF Due
    <3>2. r.key = k /\ records[k].bumps \in Nat
      BY <1>1, <3>1, RecordFields DEF PhaseOK, TypeOK, Held
    <3>3. records[k].bumps <= config.maxBumps /\ records[k].bumps # config.maxBumps
      BY <2>1, <2>4, <3>1 DEF Capped, BumpCap
    <3>. QED
      BY <2>3, <3>2, <3>3
  <2>5. BelowCap'
    BY <2>1, <2>4 DEF BelowCap
  <2>. QED
    BY <1>2, <2>1, <2>2, <2>5 DEF Capped
<1>12. ASSUME NEW rec \in due, StopIdle(rec) PROVE Capped'
  <2>1. /\ StopStore(rec.key, "idle") /\ due' \subseteq due /\ pc = "next"
        /\ pc' \in {"ready", "next"} /\ UNCHANGED <<config, turns>>
    BY <1>12 DEF StopIdle, Leave
  <2>. QED
    BY <1>2, <1>3, <1>8, <2>1, CappedStays DEF Reasons
<1>13. ASSUME NEW rec \in due, Send(rec) PROVE Capped'
  <2>1. /\ pc = "next" /\ pc' = "sending" /\ cur' = rec /\ due' \subseteq due
        /\ UNCHANGED <<config, turns, records>>
    BY <1>13 DEF Send, storeVars
  <2>. QED
    BY <1>2, <2>1, CappedStays
<1>14. CASE Answer
  <2>1. /\ pc = "sending" /\ UNCHANGED <<config, turns, records, due>>
        /\ pc' \in {"ready", "next"} \/ (pc' = "apply" /\ cur' = cur)
    BY <1>14 DEF Answer, Leave, storeVars
  <2>. QED
    BY <1>2, <2>1, CappedStays
<1>15. CASE ApplyFailure
  <2>1. /\ pc = "apply" /\ pc' \in {"ready", "next"} /\ UNCHANGED <<config, turns, due>>
    BY <1>15 DEF ApplyFailure, Leave
  <2>2. bumpNow + RetryAfter \in Int
    <3>1. bumpNow \in Nat /\ RetryAfter \in Nat
      BY <1>1, ConstantsAssumption DEF TypeOK
    <3>. QED
      BY <3>1
  <2>3. \A j \in Keys :
          records'[j] # None =>
            /\ records[j] # None /\ records'[j].bumps = records[j].bumps
            /\ records[j].stopped => records'[j].stopped
    <3>1. {"account_unavailable", "upstream_rejected", "upstream_unavailable"} \subseteq Reasons
      BY DEF Reasons
    <3>2. CASE \E why \in Reasons : StopStore(cur.key, why)
      BY <1>3, <1>8, <2>1, <3>2
    <3>3. CASE ScheduleRetry(cur.key, bumpNow + RetryAfter)
      BY <1>1, <1>3, <2>1, <2>2, <3>3, ScheduleRetryEffect DEF Same
    <3>. QED
      BY <1>15, <3>1, <3>2, <3>3 DEF ApplyFailure
  <2>. QED
    BY <1>2, <2>1, <2>3, CappedStays
<1>16. CASE ApplyPaidWrite
  <2>1. /\ MarkBumped(cur.key, 0) /\ pc = "apply" /\ pc' = "stop"
        /\ UNCHANGED <<config, turns, due, cur>>
    BY <1>16 DEF ApplyPaidWrite
  <2>. QED
    BY <2>1, MarkCapped
<1>17. CASE ApplyRead
  <2>1. /\ MarkBumped(cur.key, NextBumpTime(bumpNow, cur.ttl, bumpCfg.lead))
        /\ pc = "apply" /\ pc' = "cap" /\ UNCHANGED <<config, turns, due, cur>>
    BY <1>17 DEF ApplyRead
  <2>2. bumpNow \in Nat /\ cur.ttl \in TTLs /\ bumpCfg \in Configs
    BY <1>1, <1>3, <2>1, RecordFields DEF TypeOK, PhaseOK
  <2>3. bumpCfg.lead \in Int
    <3>1. bumpCfg \in [enabled : BOOLEAN, lead : Int, maxBumps : Nat, maxIdle : Nat]
      BY <2>2, ConstantsAssumption
    <3>. QED
      BY <3>1
  <2>4. NextBumpTime(bumpNow, cur.ttl, bumpCfg.lead) \in Int
    BY <2>2, <2>3, NextBumpInWindow
  <2>. QED
    BY <2>1, <2>4, MarkCapped
<1>18. CASE CheckCap
  <2>1. pc = "cap" /\ UNCHANGED <<config, turns, records, due>>
    BY <1>18 DEF CheckCap, storeVars
  <2>2. CASE pc' = "stop" /\ cur' = cur
    BY <1>2, <2>1, <2>2, CappedStays
  <2>3. CASE pc' \in {"ready", "next"} /\ ~(/\ bumpCfg.maxBumps > 0
                                             /\ records[cur.key] # None
                                             /\ records[cur.key].bumps >= bumpCfg.maxBumps)
    <3>1. bumpCfg.maxBumps = config.maxBumps
      BY <1>1, <1>2, <2>1 DEF TypeOK, PhaseOK, OneCap
    <3>2. config.maxBumps \in Nat
      <4>1. config \in [enabled : BOOLEAN, lead : Int, maxBumps : Nat, maxIdle : Nat]
        BY <1>2, ConstantsAssumption
      <4>. QED
        BY <4>1
    <3>3. records[cur.key] # None => records[cur.key].bumps \in Nat
      BY <1>1, <1>3, <2>1, RecordFields DEF TypeOK
    <3>4. records[cur.key] # None /\ config.maxBumps > 0 =>
            records[cur.key].bumps < config.maxBumps
      BY <2>3, <3>1, <3>2, <3>3
    <3>. QED
      BY <1>2, <2>1, <2>3, <3>4, CappedStays
  <2>. QED
    BY <1>18, <2>2, <2>3 DEF CheckCap, Leave
<1>19. CASE StopCur
  <2>1. /\ pc = "stop" /\ StopStore(cur.key, outcome) /\ outcome \in Reasons
        /\ pc' \in {"ready", "next"} /\ UNCHANGED <<config, turns, due>>
    BY <1>1, <1>19 DEF StopCur, Leave, PhaseOK, Reasons
  <2>. QED
    BY <1>2, <1>3, <1>8, <2>1, CappedStays
<1>. QED
  BY <1>5, <1>6, <1>7, <1>9, <1>10, <1>11, <1>12, <1>13, <1>14, <1>15, <1>16, <1>17, <1>18,
     <1>19
  DEF Next, Client, Operator, Scheduler, Bump

\* Between two turns a session is bumped at most as often as the cap allows,
\* and one at the cap is stopped by the bump that brought it there, when the
\* operator's edits leave the cap alone (scheduler.go reads the record again
\* after it has counted the bump).
THEOREM CapHolds ==
  ASSUME OneCap
  PROVE  Spec => []BumpCap
<1>1. Capped => BumpCap
  BY DEF Capped
<1>2. IInv /\ Capped /\ [Next]_vars => Capped'
  BY NextCapped
<1>. QED
  BY <1>1, <1>2, InitCapped, Inductive, PTL DEF Spec
===============================================================================
