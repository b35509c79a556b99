---------------------------- MODULE MCCCTokens ----------------------------
(* A small instance of CCTokens in which the background worker is alone. *)
EXTENDS CCTokens
===========================================================================
