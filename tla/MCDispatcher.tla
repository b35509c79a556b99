---------------------------- MODULE MCDispatcher ----------------------------
(* Small instances of Dispatcher. *)
EXTENDS Dispatcher, TLC

Symmetry == Permutations(Requests) \cup Permutations(Emails)
=============================================================================
