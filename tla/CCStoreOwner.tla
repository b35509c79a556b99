---------------------------- MODULE CCStoreOwner ----------------------------
(***************************************************************************)
(* What the Claude Code account file promises: at any time one generation  *)
(* of the account pool owns it, only the owner writes it, ownership passes *)
(* on once and for good, and a file never names a state its owner did not  *)
(* have.                                                                   *)
(***************************************************************************)
EXTENDS Naturals

VARIABLES
  owner,   \* generation of the pool that may write the file
  latest,  \* the latest state the owner has had in memory
  file     \* generation and state the file was written from

ovars == <<owner, latest, file>>

OInit ==
  /\ owner = 1
  /\ latest \in Nat
  /\ file = [gen |-> 0, ver |-> 0]

\* The owner's accounts change in memory.
Evolve ==
  /\ latest' \in {v \in Nat : v > latest}
  /\ UNCHANGED <<owner, file>>

\* The owner writes a state it has, or has had.
Save ==
  /\ \E v \in 0..latest : file' = [gen |-> owner, ver |-> v]
  /\ UNCHANGED <<owner, latest>>

\* A replacement takes over, from a state the old owner had.
HandOver ==
  /\ owner' = owner + 1
  /\ latest' \in 0..latest
  /\ UNCHANGED file

ONext == Evolve \/ Save \/ HandOver

OSpec == OInit /\ [][ONext]_ovars
=============================================================================
