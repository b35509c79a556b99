---------------------------- MODULE MCCPoolHealth ----------------------------
(***************************************************************************)
(* Either a pool without sessions, or the locks of the pool's operations,  *)
(* which share no variable with CCPool.  The pool's accounts are limited   *)
(* while they stay, or it is edited and replaced while no answer says      *)
(* anything of a limit: with both at once the states are too many.  Two of *)
(* the goroutines have the names of the requests, so that one symmetry     *)
(* serves both parts.                                                      *)
(***************************************************************************)
EXTENDS CCPool, CCPoolLocks, TLC

VARIABLE part

SamePriority == [a \in Accounts |-> 1]

\* Every operation but RefreshTokenIfNeeded.
OrderedOps == {"SelectAccount", "AddOrUpdateAccount", "DeleteAccount", "Acquire",
               "RecordRateLimit", "Snapshots", "RefreshAccountToken", "InheritUnified"}

NoneLimited == limits = [k \in Slots |-> NoLimits] /\ \A r \in Requests : req[r].lim = NoLimits

LimitsOrEdits ==
  \/ current = 1 /\ removed = {}
  \/ NoneLimited /\ now <= 2

HealthInit ==
  /\ part \in {"pool", "locks"} /\ Init /\ LocksInit
  /\ part = "locks" => NoneLimited

HealthNext ==
  /\ UNCHANGED part
  /\ \/ part = "pool" /\ Next /\ LimitsOrEdits' /\ UNCHANGED locksVars
     \/ part = "locks" /\ LocksNext /\ UNCHANGED vars

HealthSpec == HealthInit /\ [][HealthNext]_<<vars, locksVars, part>>

Symmetry == Permutations(Requests) \cup Permutations(Guarded)
==============================================================================
