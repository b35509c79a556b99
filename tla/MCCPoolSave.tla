---------------------------- MODULE MCCPoolSave ----------------------------
(* Small instances of CCPoolSave. *)
EXTENDS CCPoolSave
============================================================================
