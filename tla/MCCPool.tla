------------------------------- MODULE MCCPool -------------------------------
(* A small instance of CCPool with sessions. *)
EXTENDS CCPool, TLC

SamePriority == [a \in Accounts |-> 1]

\* One pool within one moment: what is left of Next when MaxGen and MaxTime are
\* 1.  MCCPoolHealth replaces the pool and lets time pass.
OnePoolNext ==
  \/ \E r \in Requests :
       \/ \E s \in Sessions \cup {None} : Start(r, s)
       \/ \E a \in Accounts : StartBump(r, a)
       \/ Serve(r)
  \/ \E a \in Accounts : DeleteAccount(a) \/ AddOrUpdateAccount(a)
  \/ \E k \in Slots : UpdateAccountRateLimits(k)

OnePoolSpec == Init /\ [][OnePoolNext]_vars

SymmetryAll == Permutations(Requests) \cup Permutations(Accounts) \cup Permutations(Sessions)
==============================================================================
