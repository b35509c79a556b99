----------------------------- MODULE CCPoolSave -----------------------------
(***************************************************************************)
(* How the Claude Code account pool reaches disk (requestSave, saveLoop,   *)
(* Flush, Retire and SaveStoredAccounts in internal/claudecode/pool.go)    *)
(* and how a pool is replaced (getOrCreateCCPool) and closed (closeCCPool).*)
(*                                                                         *)
(* Requests keep the pool they started with, so pools of several           *)
(* generations are used at once; all of them write the same file.  The     *)
(* accounts of a pool are abstracted to a version number that grows with   *)
(* every change worth saving; a state on disk is the generation and the    *)
(* version it was written from.                                            *)
(***************************************************************************)
EXTENDS Naturals

CONSTANTS
  Requests,    \* request handlers and background refreshes
  Closer,      \* the goroutine that closes the server
  MaxGen,      \* bound: generations of the pool
  MaxVer,      \* bound: changes of one pool
  DiskFails    \* whether a write of the file may fail

ASSUME SaveAssumption ==
  /\ MaxGen \in Nat \ {0} /\ MaxVer \in Nat /\ DiskFails \in BOOLEAN
  /\ Closer \notin Requests
  /\ \A g \in 1..MaxGen : g \notin Requests /\ g # Closer

Gens == 1..MaxGen
\* Generation g's saveLoop goroutine writes as g.
Writers == Requests \cup Gens \cup {Closer}

VARIABLES
  current,  \* ccPoolInst: the generation handed to new requests
  mem,      \* version of the accounts in memory, per generation
  throttle, \* a snapshot change was saved before, so the next may be held back
  unsaved,  \* AccountPool.unsaved
  pending,  \* AccountPool.savePending
  saving,   \* AccountPool.saving
  retired,  \* AccountPool.retired
  wg,       \* AccountPool.saveWG: who is counted in it
  step,     \* what each writer does next
  at,       \* the pool each writer works on
  snap,     \* the version each writer has copied
  disk,     \* the account file
  boss,     \* what the holder of ccPoolMu does next
  seen,     \* history: the latest version a pass copied, or a pool was born with
  closing   \* history: the version in memory when a close began with no
            \* request under way, else 0

poolVars == <<mem, throttle, unsaved, pending, saving, retired, wg>>
writerVars == <<step, at, snap>>
history == <<seen, closing>>
saveVars == <<current, poolVars, writerVars, disk, boss, history>>

Steps == {"idle", "ask", "save", "loop", "clear", "read", "write"}
\* The steps at which a writer is counted in the wait group of its pool.
Counted == {"loop", "clear", "read", "write"}

(***************************************************************************)
(* Requests                                                                *)
(***************************************************************************)

Changed(g) == mem[g] < MaxVer /\ mem' = [mem EXCEPT ![g] = @ + 1]

\* setRateLimitsLocked: the subscription snapshot of an account changed.  The
\* first change and a flip of "rejected" ask for a save, a change soon after
\* the last one is held back.
ChangeLimits(r, g) ==
  /\ step[r] = "idle" /\ g <= current
  /\ Changed(g)
  /\ \/ /\ step' = [step EXCEPT ![r] = "ask"]
        /\ throttle' = [throttle EXCEPT ![g] = TRUE]
        /\ UNCHANGED unsaved
     \/ /\ throttle[g]
        /\ unsaved' = [unsaved EXCEPT ![g] = TRUE]
        /\ UNCHANGED <<step, throttle>>
  /\ at' = [at EXCEPT ![r] = g]
  /\ UNCHANGED <<current, pending, saving, retired, wg, snap, disk, boss, history>>

\* A token refresh, or an account added from an OAuth login, is saved by the
\* goroutine that made it.
ChangeTokens(r, g) ==
  /\ step[r] = "idle" /\ g <= current
  /\ Changed(g)
  /\ step' = [step EXCEPT ![r] = "save"]
  /\ at' = [at EXCEPT ![r] = g]
  /\ UNCHANGED <<current, throttle, unsaved, pending, saving, retired, wg, snap,
                 disk, boss, history>>

\* (wrong variant: a request made while a save runs is dropped)
RequestSaveDropping(r) ==
  LET g == at[r] IN
  /\ step[r] = "ask"
  /\ IF retired[g] \/ saving[g]
     THEN /\ step' = [step EXCEPT ![r] = "idle"]
          /\ UNCHANGED <<at, pending, saving, wg>>
     ELSE /\ pending' = [pending EXCEPT ![g] = TRUE]
          /\ saving' = [saving EXCEPT ![g] = TRUE]
          /\ wg' = [wg EXCEPT ![g] = @ \cup {g}]
          /\ step' = [step EXCEPT ![r] = "idle", ![g] = "loop"]
          /\ at' = [at EXCEPT ![g] = g]
  /\ UNCHANGED <<current, mem, throttle, unsaved, retired, snap, disk, boss, history>>

RequestSave(r) ==
  LET g == at[r] IN
  /\ step[r] = "ask"
  /\ \/ /\ retired[g]
        /\ step' = [step EXCEPT ![r] = "idle"]
        /\ UNCHANGED <<at, pending, saving, wg>>
     \/ /\ ~retired[g] /\ saving[g]
        /\ pending' = [pending EXCEPT ![g] = TRUE]
        /\ step' = [step EXCEPT ![r] = "idle"]
        /\ UNCHANGED <<at, saving, wg>>
     \/ /\ ~retired[g] /\ ~saving[g]
        /\ pending' = [pending EXCEPT ![g] = TRUE]
        /\ saving' = [saving EXCEPT ![g] = TRUE]
        /\ wg' = [wg EXCEPT ![g] = @ \cup {g}]
        /\ step' = [step EXCEPT ![r] = "idle", ![g] = "loop"]
        /\ at' = [at EXCEPT ![g] = g]
  /\ UNCHANGED <<current, mem, throttle, unsaved, retired, snap, disk, boss, history>>

\* SaveStoredAccounts up to its test of retirement.
SaveStoredAccounts(r) ==
  LET g == at[r] IN
  /\ step[r] = "save"
  /\ \/ /\ retired[g]
        /\ step' = [step EXCEPT ![r] = "idle"]
        /\ UNCHANGED wg
     \/ /\ ~retired[g]
        /\ step' = [step EXCEPT ![r] = "clear"]
        /\ wg' = [wg EXCEPT ![g] = @ \cup {r}]
  /\ UNCHANGED <<current, mem, throttle, unsaved, pending, saving, retired, at, snap,
                 disk, boss, history>>

(***************************************************************************)
(* Writing                                                                 *)
(***************************************************************************)

\* (wrong variant: the goroutine exits without leaving the wait group)
SaveLoopLeaking(g) ==
  /\ step[g] = "loop"
  /\ pending' = [pending EXCEPT ![g] = FALSE]
  /\ IF ~pending[g] \/ retired[g]
     THEN /\ step' = [step EXCEPT ![g] = "idle"]
          /\ saving' = [saving EXCEPT ![g] = FALSE]
          /\ UNCHANGED wg
     ELSE /\ step' = [step EXCEPT ![g] = "clear"]
          /\ UNCHANGED <<saving, wg>>
  /\ UNCHANGED <<current, mem, throttle, unsaved, retired, at, snap, disk, boss, history>>

\* (wrong variant: the goroutine exits and saving stays set)
SaveLoopStaysSaving(g) ==
  /\ step[g] = "loop"
  /\ pending' = [pending EXCEPT ![g] = FALSE]
  /\ IF ~pending[g] \/ retired[g]
     THEN /\ step' = [step EXCEPT ![g] = "idle"]
          /\ wg' = [wg EXCEPT ![g] = @ \ {g}]
     ELSE /\ step' = [step EXCEPT ![g] = "clear"]
          /\ UNCHANGED wg
  /\ UNCHANGED <<current, mem, throttle, unsaved, saving, retired, at, snap, disk, boss, history>>

\* The head of saveLoop: exit, or take the pending request and make one pass.
SaveLoop(g) ==
  /\ step[g] = "loop"
  /\ pending' = [pending EXCEPT ![g] = FALSE]
  /\ IF ~pending[g] \/ retired[g]
     THEN /\ step' = [step EXCEPT ![g] = "idle"]
          /\ saving' = [saving EXCEPT ![g] = FALSE]
          /\ wg' = [wg EXCEPT ![g] = @ \ {g}]
     ELSE /\ step' = [step EXCEPT ![g] = "clear"]
          /\ UNCHANGED <<saving, wg>>
  /\ UNCHANGED <<current, mem, throttle, unsaved, retired, at, snap, disk, boss, history>>

ClearUnsaved(w) ==
  /\ step[w] = "clear"
  /\ unsaved' = [unsaved EXCEPT ![at[w]] = FALSE]
  /\ step' = [step EXCEPT ![w] = "read"]
  /\ UNCHANGED <<current, mem, throttle, pending, saving, retired, wg, at, snap,
                 disk, boss, history>>

\* writeStore copies the accounts under the pool's lock ...
ReadAccounts(w) ==
  /\ step[w] = "read"
  /\ snap' = [snap EXCEPT ![w] = mem[at[w]]]
  /\ step' = [step EXCEPT ![w] = "write"]
  /\ seen' = [seen EXCEPT ![at[w]] = IF mem[at[w]] > @ THEN mem[at[w]] ELSE @]
  /\ UNCHANGED <<current, poolVars, at, disk, boss, closing>>

\* ... and replaces the file with them afterwards (a rename, under storageMu).
WriteFile(w) ==
  LET g == at[w] IN
  /\ step[w] = "write"
  /\ \/ disk' = [gen |-> g, ver |-> snap[w]]
     \/ DiskFails /\ UNCHANGED disk
  /\ IF w \in Gens
     THEN step' = [step EXCEPT ![w] = "loop"] /\ UNCHANGED wg
     ELSE step' = [step EXCEPT ![w] = "idle"] /\ wg' = [wg EXCEPT ![g] = @ \ {w}]
  /\ UNCHANGED <<current, mem, throttle, unsaved, pending, saving, retired, at, snap,
                 boss, seen, closing>>

(***************************************************************************)
(* Replacing and closing the pool, under ccPoolMu                          *)
(***************************************************************************)

\* A configuration change, or the use of a closed pool: the replacement
\* inherits what the accounts of the old pool know.
Rebuild ==
  /\ boss = "idle" /\ current < MaxGen
  /\ mem' = [mem EXCEPT ![current + 1] = mem[current]]
  /\ seen' = [seen EXCEPT ![current + 1] = mem[current]]
  /\ boss' = "replace"
  /\ UNCHANGED <<current, throttle, unsaved, pending, saving, retired, wg,
                 writerVars, disk, closing>>

\* closeCCPool.  It runs after the HTTP server was shut down, but that waits
\* only ten seconds for the requests.
Close ==
  /\ boss = "idle" /\ ~retired[current]
  /\ closing' = IF \A r \in Requests : step[r] = "idle" THEN mem[current] ELSE 0
  /\ boss' = IF unsaved[current] THEN "flush" ELSE "close"
  /\ UNCHANGED <<current, poolVars, writerVars, disk, seen>>

\* Flush saves in the calling goroutine.
Flush ==
  /\ boss = "flush"
  /\ step' = [step EXCEPT ![Closer] = "clear"]
  /\ at' = [at EXCEPT ![Closer] = current]
  /\ wg' = [wg EXCEPT ![current] = @ \cup {Closer}]
  /\ boss' = "close"
  /\ UNCHANGED <<current, mem, throttle, unsaved, pending, saving, retired, snap,
                 disk, history>>

Retire ==
  /\ boss \in {"replace", "close"} /\ step[Closer] = "idle"
  /\ retired' = [retired EXCEPT ![current] = TRUE]
  /\ pending' = [pending EXCEPT ![current] = FALSE]
  /\ boss' = IF boss = "replace" THEN "replaced" ELSE "closed"
  /\ UNCHANGED <<current, mem, throttle, unsaved, saving, wg, writerVars, disk, history>>

\* (wrong variant: the replacement is published while a write is under way)
PublishEarly ==
  /\ boss = "replaced"
  /\ current' = current + 1
  /\ boss' = "idle"
  /\ UNCHANGED <<poolVars, writerVars, disk, history>>

\* Retire has waited for the writes under way; the replacement is published.
Publish ==
  /\ boss = "replaced" /\ wg[current] = {}
  /\ current' = current + 1
  /\ boss' = "idle"
  /\ UNCHANGED <<poolVars, writerVars, disk, history>>

Closed ==
  /\ boss = "closed" /\ wg[current] = {}
  /\ boss' = "idle"
  /\ UNCHANGED <<current, poolVars, writerVars, disk, history>>

(***************************************************************************)
(* Specification                                                           *)
(***************************************************************************)

SaveInit ==
  /\ current = 1
  /\ mem = [g \in Gens |-> 0]
  /\ throttle = [g \in Gens |-> FALSE]
  /\ unsaved = [g \in Gens |-> FALSE]
  /\ pending = [g \in Gens |-> FALSE]
  /\ saving = [g \in Gens |-> FALSE]
  /\ retired = [g \in Gens |-> FALSE]
  /\ wg = [g \in Gens |-> {}]
  /\ step = [w \in Writers |-> "idle"]
  /\ at = [w \in Writers |-> 1]
  /\ snap = [w \in Writers |-> 0]
  /\ disk = [gen |-> 0, ver |-> 0]
  /\ boss = "idle"
  /\ seen = [g \in Gens |-> 0]
  /\ closing = 0

Request(r) ==
  \/ \E g \in Gens : ChangeLimits(r, g) \/ ChangeTokens(r, g)
  \/ RequestSave(r)
  \/ SaveStoredAccounts(r)

Write(w) == ClearUnsaved(w) \/ ReadAccounts(w) \/ WriteFile(w)

Manage == Rebuild \/ Close \/ Flush \/ Retire \/ Publish \/ Closed

SaveNext ==
  \/ \E r \in Requests : Request(r)
  \/ \E g \in Gens : SaveLoop(g)
  \/ \E w \in Writers : Write(w)
  \/ Manage

SaveSpec == SaveInit /\ [][SaveNext]_saveVars

RequestGoesOn(r) == RequestSave(r) \/ SaveStoredAccounts(r) \/ Write(r)
SaverGoesOn(g) == SaveLoop(g) \/ Write(g)
ManagerGoesOn == Flush \/ Write(Closer) \/ Retire \/ Publish \/ Closed

\* Goroutines that have begun go on; a change of the configuration, a close
\* and a new change of the accounts need not come.
SaveFairSpec ==
  /\ SaveSpec
  /\ \A r \in Requests : WF_saveVars(RequestGoesOn(r))
  /\ \A g \in Gens : WF_saveVars(SaverGoesOn(g))
  /\ WF_saveVars(ManagerGoesOn)

(***************************************************************************)
(* Properties                                                              *)
(***************************************************************************)

SaveTypeOK ==
  /\ current \in Gens
  /\ mem \in [Gens -> Nat]
  /\ unsaved \in [Gens -> BOOLEAN] /\ throttle \in [Gens -> BOOLEAN]
  /\ pending \in [Gens -> BOOLEAN] /\ saving \in [Gens -> BOOLEAN]
  /\ retired \in [Gens -> BOOLEAN]
  /\ wg \in [Gens -> SUBSET Writers]
  /\ step \in [Writers -> Steps]
  /\ at \in [Writers -> Gens]
  /\ snap \in [Writers -> Nat]
  /\ disk \in [gen : 0..MaxGen, ver : Nat]
  /\ boss \in {"idle", "replace", "replaced", "flush", "close", "closed"}
  /\ boss = "replace" \/ boss = "replaced" => current < MaxGen
  /\ seen \in [Gens -> Nat] /\ closing \in Nat

\* "nothing the old pool does can land on disk after Retire returns"
\* (retire_test.go): every write under way belongs to the published pool.
OnlyCurrentWrites ==
  \A w \in Writers :
    step[w] \in Counted => at[w] = current /\ w \in wg[current]

\* The file never goes back to the accounts of a pool that was replaced.
NewestPoolWins == [][disk'.gen >= disk.gen]_saveVars

\* At most one save goroutine per pool, and saving says whether there is one.
OneSaver == \A g \in Gens : saving[g] <=> step[g] # "idle"

\* A change of a live pool is never forgotten in silence: until a pass has
\* copied it, it is marked unsaved, or someone is on the way to copy it.
NothingForgotten ==
  \A g \in Gens :
    g <= current /\ ~retired[g] /\ mem[g] > seen[g] =>
      \/ unsaved[g] \/ pending[g]
      \/ \E w \in Writers : at[w] = g /\ step[w] \in {"ask", "save", "clear", "read"}

\* A requested pass is made, or the pool is retired.
RequestsServed ==
  \A g \in Gens : pending[g] ~> (~pending[g] /\ (retired[g] \/ step[g] \in {"clear", "read"}))

\* Replacing and closing the pool end: the writes under way finish and no new
\* one is counted after retirement.
RetireReturns == boss \in {"replaced", "closed"} ~> boss = "idle"

\* What makes it true: a pool that was replaced is retired, a writer works on
\* the published pool or an older one, and a copy is never ahead of its pool.
Ownership ==
  /\ OnlyCurrentWrites
  /\ \A w \in Writers : at[w] <= current
  /\ \A w \in Writers : step[w] = "write" => snap[w] <= mem[at[w]]
  /\ \A g \in Gens : g < current => retired[g]
  /\ boss \in {"replaced", "closed"} => retired[current]
  /\ boss \in {"replace", "replaced"} => mem[current + 1] <= mem[current]
  /\ disk.gen <= current

SaveIInv == SaveTypeOK /\ Ownership

(***************************************************************************)
(* Refinement: the file belongs to the published pool                      *)
(***************************************************************************)

Owner == INSTANCE CCStoreOwner WITH
           owner <- current, latest <- mem[current], file <- disk

ImplementsOwner == Owner!OSpec

(***************************************************************************)
(* A claim of a comment that the code does not keep                        *)
(***************************************************************************)

\* pool.go: Flush is called before Retire on shutdown "so the last
\* subscription windows seen are not lost".
NothingLostOnClose ==
  [][Closed => disk.ver >= closing]_saveVars
=============================================================================
