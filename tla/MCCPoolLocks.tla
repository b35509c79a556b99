---------------------------- MODULE MCCPoolLocks ----------------------------
(* A small instance of CCPoolLocks with every operation. *)
EXTENDS CCPoolLocks

AllOps == {"SelectAccount", "AddOrUpdateAccount", "DeleteAccount", "Acquire",
           "RecordRateLimit", "Snapshots", "RefreshAccountToken", "InheritUnified",
           "RefreshTokenIfNeeded"}
=============================================================================
