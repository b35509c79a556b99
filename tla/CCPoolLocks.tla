---------------------------- MODULE CCPoolLocks ----------------------------
(***************************************************************************)
(* The locks of the Claude Code account pool (internal/claudecode/pool.go):*)
(* ccPoolMu, the pool's mu and one mu per account.                         *)
(*                                                                         *)
(* An operation is abstracted to the locks it takes and releases, in the   *)
(* order of the code; the locks are Go's sync.RWMutex: a goroutine that    *)
(* wants to write keeps new readers out while it waits for the readers     *)
(* that are in, and the readers it kept out enter together when it leaves. *)
(***************************************************************************)
EXTENDS Naturals, Sequences, FiniteSets, SequencesExt

CONSTANTS
  Goroutines,  \* request handlers, background refreshes, the save goroutine
  Guarded,    \* the accounts of the pool
  Pool,        \* AccountPool.mu
  Gate,        \* ccPoolMu, which guards the pool in use
  Ops,         \* the operations the goroutines perform
  NoWriter

ASSUME LocksAssumption ==
  /\ IsFiniteSet(Guarded)
  /\ Pool \notin Guarded /\ Gate \notin Guarded /\ Pool # Gate
  /\ NoWriter \notin Goroutines

Locks == Guarded \cup {Pool, Gate}

VARIABLES
  todo,     \* what each goroutine has left to do with the locks
  asleep,   \* the goroutines that wait inside a lock
  writer,   \* who has asked to write, per lock
  readers   \* who is in as a reader, per lock

locksVars == <<todo, asleep, writer, readers>>

(***************************************************************************)
(* What each operation does with the locks                                 *)
(***************************************************************************)

Lock(l) == <<"Lock", l>>
Unlock(l) == <<"Unlock", l>>
RLock(l) == <<"RLock", l>>
RUnlock(l) == <<"RUnlock", l>>

\* Every account in the order the map yields them.
Each(order) ==
  [i \in 1 .. 2 * Len(order) |-> IF i % 2 = 1 THEN RLock(order[(i + 1) \div 2])
                                 ELSE RUnlock(order[i \div 2])]

Look == <<RLock(Pool), RUnlock(Pool)>>

\* The ranking holds the locks of the two accounts it compares.
Compare(a, b) == <<RLock(a), RLock(b), RUnlock(b), RUnlock(a)>>

SelectAccountLocks(order) ==
  <<Lock(Pool)>> \o Each(order)
    \o (IF Len(order) > 1 THEN Compare(order[1], order[2]) ELSE <<>>) \o <<Unlock(Pool)>>
AddOrUpdateAccountLocks(a) == <<Lock(Pool), Lock(a), Unlock(a), Unlock(Pool)>>
DeleteAccountLocks == <<Lock(Pool), Unlock(Pool)>>
AcquireLocks(a) == Look \o <<Lock(a), Unlock(a)>>
\* (wrong variant: the save is requested before the account is unlocked)
RecordAndSaveLocked(a) == Look \o <<Lock(a)>> \o Look \o <<Unlock(a)>>
\* The save is requested once the account is unlocked.
RecordRateLimitLocks(a) == Look \o <<Lock(a), Unlock(a)>> \o Look
SnapshotsLocks(order) == <<RLock(Pool)>> \o Each(order) \o <<RUnlock(Pool)>>
RefreshAccountTokenLocks(a, order) ==
  Look \o <<RLock(a), RUnlock(a), Lock(a), Unlock(a)>> \o SnapshotsLocks(order)
\* The token is fresh enough, or it is refreshed (with no lock) and saved.
CheckTokenLocks(a) == <<Lock(a)>> \o Look \o <<Unlock(a)>>
RefreshTokenIfNeededLocks(a, order) ==
  CheckTokenLocks(a) \o <<Lock(a), Unlock(a)>> \o SnapshotsLocks(order)
\* getOrCreateCCPool copies the snapshots of the pool it replaces.
InheritUnifiedLocks(order) == <<Lock(Gate)>> \o Look \o Each(order) \o <<Unlock(Gate)>>

Programs(op) ==
  CASE op = "SelectAccount" -> {SelectAccountLocks(s) : s \in SetToSeqs(Guarded)}
    [] op = "AddOrUpdateAccount" -> {AddOrUpdateAccountLocks(a) : a \in Guarded}
    [] op = "DeleteAccount" -> {DeleteAccountLocks}
    [] op = "Acquire" -> {AcquireLocks(a) : a \in Guarded}
    [] op = "RecordRateLimit" -> {RecordRateLimitLocks(a) : a \in Guarded}
    [] op = "Snapshots" -> {SnapshotsLocks(s) : s \in SetToSeqs(Guarded)}
    [] op = "RefreshAccountToken" ->
         {RefreshAccountTokenLocks(a, s) : a \in Guarded, s \in SetToSeqs(Guarded)}
    [] op = "RefreshTokenIfNeeded" ->
         {CheckTokenLocks(a) : a \in Guarded} \cup
         {RefreshTokenIfNeededLocks(a, s) : a \in Guarded, s \in SetToSeqs(Guarded)}
    [] op = "InheritUnified" -> {InheritUnifiedLocks(s) : s \in SetToSeqs(Guarded)}

(***************************************************************************)
(* Steps                                                                   *)
(***************************************************************************)

Next1(g, kind, l) == todo[g] # <<>> /\ Head(todo[g]) = <<kind, l>>

Begin(g) ==
  /\ todo[g] = <<>>
  /\ \E op \in Ops : \E p \in Programs(op) : todo' = [todo EXCEPT ![g] = p]
  /\ UNCHANGED <<asleep, writer, readers>>

Done(S) == [g \in Goroutines |-> IF g \in S THEN Tail(todo[g]) ELSE todo[g]]

\* A writer announces itself when no other writer has ...
Announce(g, l) ==
  /\ Next1(g, "Lock", l) /\ writer[l] = NoWriter
  /\ writer' = [writer EXCEPT ![l] = g]
  /\ asleep' = asleep \cup {g}
  /\ UNCHANGED <<todo, readers>>

\* ... and is in when the readers have left.
Enter(g, l) ==
  /\ Next1(g, "Lock", l) /\ writer[l] = g /\ readers[l] = {}
  /\ asleep' = asleep \ {g}
  /\ todo' = Done({g})
  /\ UNCHANGED <<writer, readers>>

Leave(g, l) ==
  LET woken == {h \in asleep : Next1(h, "RLock", l)} IN
  /\ Next1(g, "Unlock", l)
  /\ writer' = [writer EXCEPT ![l] = NoWriter]
  /\ readers' = [readers EXCEPT ![l] = woken]
  /\ asleep' = asleep \ woken
  /\ todo' = Done({g} \cup woken)

Read(g, l) ==
  /\ Next1(g, "RLock", l) /\ g \notin asleep
  /\ \/ /\ writer[l] = NoWriter
        /\ readers' = [readers EXCEPT ![l] = @ \cup {g}]
        /\ todo' = Done({g})
        /\ UNCHANGED asleep
     \/ /\ writer[l] # NoWriter
        /\ asleep' = asleep \cup {g}
        /\ UNCHANGED <<readers, todo>>
  /\ UNCHANGED writer

LeaveRead(g, l) ==
  /\ Next1(g, "RUnlock", l)
  /\ readers' = [readers EXCEPT ![l] = @ \ {g}]
  /\ todo' = Done({g})
  /\ UNCHANGED <<asleep, writer>>

Go(g, l) == Announce(g, l) \/ Enter(g, l) \/ Leave(g, l) \/ Read(g, l) \/ LeaveRead(g, l)

LocksInit ==
  /\ todo = [g \in Goroutines |-> <<>>]
  /\ asleep = {}
  /\ writer = [l \in Locks |-> NoWriter]
  /\ readers = [l \in Locks |-> {}]

LocksNext == \E g \in Goroutines : Begin(g) \/ \E l \in Locks : Go(g, l)

LocksSpec == LocksInit /\ [][LocksNext]_locksVars

(***************************************************************************)
(* Properties                                                              *)
(***************************************************************************)

\* Who g waits for: the writer ahead of it, or the readers it waits out.
WaitsFor(g) ==
  {h \in Goroutines \ {g} : \E l \in Locks :
     \/ (Next1(g, "Lock", l) \/ Next1(g, "RLock", l)) /\ writer[l] = h
     \/ Next1(g, "Lock", l) /\ writer[l] = g /\ h \in readers[l]}

\* No goroutines of the pool wait for each other in a circle.
NoCircularWait ==
  \A S \in (SUBSET Goroutines) \ {{}} : \E g \in S : WaitsFor(g) \cap S = {}
=============================================================================
