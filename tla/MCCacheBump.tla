---------------------------- MODULE MCCacheBump ----------------------------
(* Small instances of CacheBump.  One unit of time is one minute. *)
EXTENDS CacheBump

\* Knobs: bumping on with a cap of one bump, the same with less patience, and
\* bumping off.
On == [enabled |-> TRUE, lead |-> 1, maxBumps |-> 1, maxIdle |-> 5]
Off == [enabled |-> FALSE, lead |-> 1, maxBumps |-> 1, maxIdle |-> 5]
Impatient == [enabled |-> TRUE, lead |-> 1, maxBumps |-> 1, maxIdle |-> 3]

FixedConfig == {On}
EditedConfigs == {On, Impatient, Off}
==========================================================================
