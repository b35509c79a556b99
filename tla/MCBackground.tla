---------------------------- MODULE MCBackground ----------------------------
(***************************************************************************)
(* A small instance of the two components whose goroutines must get their  *)
(* work done: the prompt-cache bumper (CacheBump), with three sessions and *)
(* bodies of several sizes so that the limits of the store bite, or two    *)
(* sessions with bodies that always fit and more time, or one session and  *)
(* knobs that are edited; and the saving of the Claude Code accounts       *)
(* (CCPoolSave).  They share nothing, so each behaviour runs one of them.  *)
(***************************************************************************)
EXTENDS MCCacheBump, CCPoolSave

CONSTANTS k1, k2, k3, r1, r2
VARIABLE part

Bumping == {"crowded", "long", "edited"}

BackgroundInit ==
  /\ part \in Bumping \cup {"save"}
  /\ Init /\ SaveInit
  /\ part # "edited" => config = On

\* Sessions the store or the scheduler has nothing of are alike, so that a new one
\* is the first of them.
InUse == Held(records) \cup {t.key : t \in turns \cup due \cup ({cur} \ {None})}

FirstUnusedFirst ==
  \A t \in turns' \ turns :
    t.key \in InUse \cup {k1} \/ (k1 \in InUse /\ (t.key = k2 \/ k2 \in InUse))

BumpNext ==
  /\ part \in Bumping /\ Next /\ FirstUnusedFirst
  /\ part # "edited" => UNCHANGED config
  /\ part = "crowded" => now' <= 5
  /\ part = "long" => \A t \in turns' : t.key # k3 /\ t.size = 1
  /\ part = "edited" => \A t \in turns' : t.key = k1 /\ t.size = 1

Saving == part = "save"

\* Requests are alike, so the second has work only while the first is busy.
FirstIdleFirst == step[r1] # "idle" \/ step[r2] # "idle" \/ step'[r2] = "idle"

BackgroundNext ==
  /\ UNCHANGED part
  /\ \/ BumpNext /\ UNCHANGED saveVars
     \/ Saving /\ SaveNext /\ FirstIdleFirst /\ UNCHANGED vars

\* The fairness of CacheBump and of CCPoolSave, each where it runs.
BackgroundSpec ==
  /\ BackgroundInit /\ [][BackgroundNext]_<<vars, saveVars, part>>
  /\ WF_vars(~Saving /\ Scheduler)
  /\ \A r \in Requests : WF_saveVars(Saving /\ RequestGoesOn(r))
  /\ \A g \in Gens : WF_saveVars(Saving /\ SaverGoesOn(g))
  /\ WF_saveVars(Saving /\ ManagerGoesOn)
==========================================================================
