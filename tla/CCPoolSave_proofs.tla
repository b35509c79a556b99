-------------------------- MODULE CCPoolSave_proofs --------------------------
(***************************************************************************)
(* Proofs about what the Claude Code pool writes: the account file, for    *)
(* any number of requests, generations and changes (CCPoolSave), and the   *)
(* tokens in config.json, for any number of requests, workers, accounts    *)
(* and refreshes (CCTokens).                                               *)
(***************************************************************************)
EXTENDS CCPoolSave, CCTokens, FiniteSetTheorems, TLAPS

LEMMA GensFacts ==
  /\ MaxGen \in Nat /\ MaxGen >= 1 /\ 1 \in Gens
  /\ \A g \in Gens : g \in Nat /\ g >= 1 /\ g <= MaxGen /\ g \in Writers
  /\ Requests \subseteq Writers /\ Closer \in Writers
BY SaveAssumption DEF Gens, Writers

LEMMA InitIInv == SaveInit => SaveIInv
<1>. SUFFICES ASSUME SaveInit PROVE SaveIInv
  OBVIOUS
<1>1. SaveTypeOK
  BY GensFacts, SaveAssumption DEF SaveInit, SaveTypeOK, Steps, Gens
<1>2. Ownership
  BY GensFacts DEF SaveInit, Ownership, OnlyCurrentWrites, Counted
<1>. QED
  BY <1>1, <1>2 DEF SaveIInv

\* A change of the accounts of a pool that is or was published.
LEMMA ChangeIInv ==
  ASSUME SaveIInv, NEW r \in Requests, NEW g \in Gens, g <= current,
         step[r] = "idle", Changed(g),
         step' \in {step, [step EXCEPT ![r] = "ask"], [step EXCEPT ![r] = "save"]},
         at' = [at EXCEPT ![r] = g],
         unsaved' \in [Gens -> BOOLEAN], throttle' \in [Gens -> BOOLEAN],
         UNCHANGED <<current, pending, saving, retired, wg, snap, disk, boss, history>>
  PROVE  SaveIInv'
<1>1. r \in Writers /\ SaveTypeOK /\ Ownership
  BY GensFacts DEF SaveIInv
<1>2. /\ mem' \in [Gens -> Nat]
      /\ \A h \in Gens : mem'[h] >= mem[h]
      /\ \A h \in Gens \ {g} : mem'[h] = mem[h]
  BY <1>1 DEF SaveTypeOK, Changed
<1>3. SaveTypeOK'
  <2>1. pending' \in [Gens -> BOOLEAN] /\ saving' \in [Gens -> BOOLEAN]
    BY <1>1, <1>2 DEF SaveTypeOK
  <2>2. wg' \in [Gens -> SUBSET Writers] /\ step' \in [Writers -> Steps]
    <3>1. wg' \in [Gens -> SUBSET Writers] BY <1>1 DEF SaveTypeOK
    <3>2. "ask" \in Steps /\ "save" \in Steps BY DEF Steps
    <3>3. step \in [Writers -> Steps] BY <1>1 DEF SaveTypeOK
    <3>4. [step EXCEPT ![r] = "ask"] \in [Writers -> Steps] BY <3>2, <3>3
    <3>5. [step EXCEPT ![r] = "save"] \in [Writers -> Steps] BY <3>2, <3>3
    <3>. QED BY <3>1, <3>3, <3>4, <3>5
  <2>3. /\ snap' \in [Writers -> Nat] /\ at' \in [Writers -> Gens] /\ mem' \in [Gens -> Nat]
        /\ retired' \in [Gens -> BOOLEAN] /\ seen' \in [Gens -> Nat] /\ closing' \in Nat
    BY <1>1, <1>2 DEF SaveTypeOK, history
  <2>4. /\ current' \in Gens /\ disk' \in [gen : 0..MaxGen, ver : Nat]
        /\ boss' \in {"idle", "replace", "replaced", "flush", "close", "closed"}
        /\ boss' = "replace" \/ boss' = "replaced" => current' < MaxGen
    BY <1>1 DEF SaveTypeOK
  <2>. QED
    BY <2>1, <2>2, <2>3, <2>4 DEF SaveTypeOK
<1>4. \A w \in Writers : step'[w] \in Counted => step'[w] = step[w] /\ at'[w] = at[w]
  BY <1>1 DEF SaveTypeOK, Counted
<1>5. OnlyCurrentWrites'
  BY <1>1, <1>4 DEF Ownership, OnlyCurrentWrites
<1>6. \A w \in Writers : at'[w] <= current
  BY <1>1 DEF Ownership, SaveTypeOK
<1>7. \A w \in Writers : step'[w] = "write" => snap[w] <= mem'[at'[w]]
  <2>. SUFFICES ASSUME NEW w \in Writers, step'[w] = "write"
                PROVE  snap[w] <= mem'[at'[w]]
    OBVIOUS
  <2>1. at'[w] = at[w] /\ at[w] \in Gens /\ snap[w] <= mem[at[w]]
    BY <1>1, <1>4 DEF Ownership, SaveTypeOK, Counted
  <2>. QED
    BY <1>1, <1>2, <2>1 DEF SaveTypeOK
<1>8. boss \in {"replace", "replaced"} => mem'[current + 1] <= mem'[current]
  <2>. SUFFICES ASSUME boss \in {"replace", "replaced"}
                PROVE  mem'[current + 1] <= mem'[current]
    OBVIOUS
  <2>1. current \in Gens /\ current + 1 \in Gens /\ g # current + 1
    BY <1>1, GensFacts DEF SaveTypeOK, Gens
  <2>2. mem'[current + 1] <= mem[current] /\ mem[current] <= mem'[current]
    BY <1>1, <1>2, <2>1 DEF Ownership
  <2>. QED
    BY <1>1, <1>2, <2>1, <2>2 DEF SaveTypeOK
<1>9. Ownership'
  BY <1>1, <1>5, <1>6, <1>7, <1>8 DEF Ownership
<1>. QED
  BY <1>3, <1>9 DEF SaveIInv

LEMMA RequestIInv ==
  ASSUME SaveIInv, NEW r \in Requests, Request(r)
  PROVE  SaveIInv'
<1>1. r \in Writers /\ SaveTypeOK /\ Ownership
  BY GensFacts DEF SaveIInv
<1>2. ASSUME NEW g \in Gens, ChangeLimits(r, g) PROVE SaveIInv'
  <2>1. unsaved' \in [Gens -> BOOLEAN] /\ throttle' \in [Gens -> BOOLEAN]
    BY <1>1, <1>2 DEF ChangeLimits, SaveTypeOK
  <2>. QED
    BY <1>2, <2>1, ChangeIInv DEF ChangeLimits
<1>3. ASSUME NEW g \in Gens, ChangeTokens(r, g) PROVE SaveIInv'
  <2>1. unsaved' \in [Gens -> BOOLEAN] /\ throttle' \in [Gens -> BOOLEAN]
    BY <1>1, <1>3 DEF ChangeTokens, SaveTypeOK
  <2>. QED
    BY <1>3, <2>1, ChangeIInv DEF ChangeTokens
<1>4. CASE RequestSave(r)
  <2>. DEFINE g == at[r]
  <2>1. /\ step[r] = "ask" /\ g \in Gens
        /\ UNCHANGED <<current, mem, throttle, unsaved, retired, snap, disk, boss, history>>
    BY <1>1, <1>4 DEF RequestSave, SaveTypeOK
  <2>2. CASE /\ step' = [step EXCEPT ![r] = "idle"] /\ UNCHANGED <<at, saving, wg>>
             /\ pending' \in [Gens -> BOOLEAN]
    <3>1. SaveTypeOK'
      BY <1>1, <2>1, <2>2 DEF SaveTypeOK, Steps, history
    <3>2. Ownership'
      BY <1>1, <2>1, <2>2 DEF Ownership, OnlyCurrentWrites, Counted, SaveTypeOK
    <3>. QED
      BY <3>1, <3>2 DEF SaveIInv
  <2>3. CASE /\ ~retired[g]
             /\ pending' = [pending EXCEPT ![g] = TRUE]
             /\ saving' = [saving EXCEPT ![g] = TRUE]
             /\ wg' = [wg EXCEPT ![g] = wg[g] \cup {g}]
             /\ step' = [step EXCEPT ![r] = "idle", ![g] = "loop"]
             /\ at' = [at EXCEPT ![g] = g]
    <3>1. g \in Writers /\ g = current /\ g # r
      BY <1>1, <2>1, <2>3, GensFacts, SaveAssumption DEF Ownership, SaveTypeOK, Gens
    <3>2. SaveTypeOK'
      BY <1>1, <2>1, <2>3, <3>1 DEF SaveTypeOK, Steps, history
    <3>3. \A w \in Writers \ {g} : step'[w] \in Counted =>
            step'[w] = step[w] /\ at'[w] = at[w]
      BY <1>1, <2>1, <2>3, <3>1 DEF SaveTypeOK, Counted
    <3>4. at'[g] = g /\ g \in wg'[g] /\ wg[g] \subseteq wg'[g] /\ step'[g] = "loop"
      BY <1>1, <2>1, <2>3, <3>1 DEF SaveTypeOK
    <3>5. OnlyCurrentWrites'
      BY <1>1, <2>1, <3>1, <3>3, <3>4 DEF Ownership, OnlyCurrentWrites
    <3>6. \A w \in Writers : at'[w] <= current
      BY <1>1, <2>3, <3>1 DEF Ownership, SaveTypeOK
    <3>7. \A w \in Writers : step'[w] = "write" => snap[w] <= mem[at'[w]]
      BY <1>1, <3>3, <3>4 DEF Ownership, Counted
    <3>8. Ownership'
      BY <1>1, <2>1, <3>5, <3>6, <3>7 DEF Ownership
    <3>. QED
      BY <3>2, <3>8 DEF SaveIInv
  <2>. QED
    BY <1>1, <1>4, <2>1, <2>2, <2>3 DEF RequestSave, SaveTypeOK
<1>5. CASE SaveStoredAccounts(r)
  <2>. DEFINE g == at[r]
  <2>1. /\ step[r] = "save" /\ g \in Gens
        /\ UNCHANGED <<current, mem, throttle, unsaved, pending, saving, retired, at, snap,
                       disk, boss, history>>
        /\ \/ retired[g] /\ step' = [step EXCEPT ![r] = "idle"] /\ UNCHANGED wg
           \/ /\ ~retired[g] /\ step' = [step EXCEPT ![r] = "clear"]
              /\ wg' = [wg EXCEPT ![g] = wg[g] \cup {r}]
    BY <1>1, <1>5 DEF SaveStoredAccounts, SaveTypeOK
  <2>2. ~retired[g] => g = current
    <3>1. g \in Nat /\ current \in Nat /\ g <= current /\ (g < current => retired[g])
      BY <1>1, <2>1, GensFacts DEF Ownership, SaveTypeOK
    <3>. QED
      BY <3>1
  <2>3. SaveTypeOK'
    BY <1>1, <2>1 DEF SaveTypeOK, Steps, history
  <2>4. Ownership'
    BY <1>1, <2>1, <2>2 DEF Ownership, OnlyCurrentWrites, Counted, SaveTypeOK
  <2>. QED
    BY <2>3, <2>4 DEF SaveIInv
<1>. QED
  BY <1>2, <1>3, <1>4, <1>5 DEF Request

LEMMA SaveLoopIInv ==
  ASSUME SaveIInv, NEW g \in Gens, SaveLoop(g)
  PROVE  SaveIInv'
<1>1. g \in Writers /\ SaveTypeOK /\ Ownership /\ step[g] = "loop"
  BY GensFacts DEF SaveIInv, SaveLoop
<1>2. /\ pending' = [pending EXCEPT ![g] = FALSE]
      /\ UNCHANGED <<current, mem, throttle, unsaved, retired, at, snap, disk, boss, history>>
      /\ \/ /\ step' = [step EXCEPT ![g] = "idle"]
            /\ saving' = [saving EXCEPT ![g] = FALSE]
            /\ wg' = [wg EXCEPT ![g] = wg[g] \ {g}]
         \/ step' = [step EXCEPT ![g] = "clear"] /\ UNCHANGED <<saving, wg>>
  BY DEF SaveLoop
<1>3. SaveTypeOK'
  <2>1. pending' \in [Gens -> BOOLEAN] /\ saving' \in [Gens -> BOOLEAN]
    BY <1>1, <1>2 DEF SaveTypeOK
  <2>2. wg' \in [Gens -> SUBSET Writers] /\ step' \in [Writers -> Steps]
    BY <1>1, <1>2 DEF SaveTypeOK, Steps
  <2>. QED
    BY <1>1, <1>2, <2>1, <2>2 DEF SaveTypeOK, history
<1>4. \A w \in Writers : step'[w] \in Counted =>
        step[w] \in Counted /\ (w \in wg[current] => w \in wg'[current])
  BY <1>1, <1>2 DEF SaveTypeOK, Counted
<1>5. \A w \in Writers : step'[w] = "write" => step[w] = "write"
  BY <1>1, <1>2 DEF SaveTypeOK
<1>6. Ownership'
  BY <1>1, <1>2, <1>4, <1>5 DEF Ownership, OnlyCurrentWrites
<1>. QED
  BY <1>3, <1>6 DEF SaveIInv

LEMMA WriteIInv ==
  ASSUME SaveIInv, NEW w \in Writers, Write(w)
  PROVE  SaveIInv'
<1>1. SaveTypeOK /\ Ownership /\ at[w] \in Gens
  BY DEF SaveIInv, SaveTypeOK
<1>2. CASE ClearUnsaved(w)
  <2>1. /\ step[w] = "clear" /\ step' = [step EXCEPT ![w] = "read"]
        /\ unsaved' = [unsaved EXCEPT ![at[w]] = FALSE]
        /\ UNCHANGED <<current, mem, throttle, pending, saving, retired, wg, at, snap,
                       disk, boss, history>>
    BY <1>2 DEF ClearUnsaved
  <2>2. SaveTypeOK'
    BY <1>1, <2>1 DEF SaveTypeOK, Steps, history
  <2>3. Ownership'
    BY <1>1, <2>1 DEF Ownership, OnlyCurrentWrites, Counted, SaveTypeOK
  <2>. QED
    BY <2>2, <2>3 DEF SaveIInv
<1>3. CASE ReadAccounts(w)
  <2>1. /\ step[w] = "read" /\ step' = [step EXCEPT ![w] = "write"]
        /\ snap' = [snap EXCEPT ![w] = mem[at[w]]]
        /\ seen' \in [Gens -> Nat]
        /\ UNCHANGED <<current, mem, throttle, unsaved, pending, saving, retired, wg, at,
                       disk, boss, closing>>
    BY <1>1, <1>3 DEF ReadAccounts, SaveTypeOK, poolVars
  <2>2. SaveTypeOK'
    BY <1>1, <2>1 DEF SaveTypeOK, Steps
  <2>3. mem[at[w]] \in Nat
    BY <1>1 DEF SaveTypeOK
  <2>4. \A v \in Writers : step'[v] = "write" => snap'[v] <= mem[at[v]]
    BY <1>1, <2>1, <2>3 DEF Ownership, SaveTypeOK
  <2>5. Ownership'
    BY <1>1, <2>1, <2>4 DEF Ownership, OnlyCurrentWrites, Counted, SaveTypeOK
  <2>. QED
    BY <2>2, <2>5 DEF SaveIInv
<1>4. CASE WriteFile(w)
  <2>1. /\ step[w] = "write"
        /\ disk' \in {disk, [gen |-> at[w], ver |-> snap[w]]}
        /\ UNCHANGED <<current, mem, throttle, unsaved, pending, saving, retired, at, snap,
                       boss, seen, closing>>
        /\ \/ step' = [step EXCEPT ![w] = "loop"] /\ UNCHANGED wg
           \/ /\ step' = [step EXCEPT ![w] = "idle"]
              /\ wg' = [wg EXCEPT ![at[w]] = wg[at[w]] \ {w}]
    BY <1>1, <1>4 DEF WriteFile, SaveTypeOK
  <2>2. at[w] = current /\ current \in Nat /\ snap[w] \in Nat
    BY <1>1, <2>1, GensFacts DEF Ownership, OnlyCurrentWrites, Counted, SaveTypeOK
  <2>3. disk' \in [gen : 0..MaxGen, ver : Nat] /\ disk'.gen <= current
    BY <1>1, <2>1, <2>2, GensFacts DEF Ownership, SaveTypeOK
  <2>4. SaveTypeOK'
    BY <1>1, <2>1, <2>3 DEF SaveTypeOK, Steps
  <2>5. \A v \in Writers : step'[v] \in Counted =>
          step[v] \in Counted /\ (v \in wg[current] => v \in wg'[current])
    BY <1>1, <2>1 DEF SaveTypeOK, Counted
  <2>6. \A v \in Writers : step'[v] = "write" => step[v] = "write"
    BY <1>1, <2>1 DEF SaveTypeOK
  <2>7. Ownership'
    BY <1>1, <2>1, <2>3, <2>5, <2>6 DEF Ownership, OnlyCurrentWrites
  <2>. QED
    BY <2>4, <2>7 DEF SaveIInv
<1>. QED
  BY <1>2, <1>3, <1>4 DEF Write

LEMMA ManageIInv ==
  ASSUME SaveIInv, Manage
  PROVE  SaveIInv'
<1>1. SaveTypeOK /\ Ownership /\ Closer \in Writers /\ current \in Nat /\ current \in Gens
  BY GensFacts DEF SaveIInv, SaveTypeOK
<1>2. CASE Rebuild
  <2>1. /\ current + 1 \in Gens /\ boss' = "replace"
        /\ mem' = [mem EXCEPT ![current + 1] = mem[current]]
        /\ seen' = [seen EXCEPT ![current + 1] = mem[current]]
        /\ UNCHANGED <<current, throttle, unsaved, pending, saving, retired, wg,
                       step, at, snap, disk, closing>>
    BY <1>1, <1>2, GensFacts DEF Rebuild, Gens, writerVars
  <2>2. current < MaxGen
    BY <1>2 DEF Rebuild
  <2>3. SaveTypeOK'
    BY <1>1, <2>1, <2>2 DEF SaveTypeOK
  <2>4. \A w \in Writers : at[w] \in Gens /\ at[w] # current + 1
    BY <1>1, GensFacts DEF Ownership, SaveTypeOK
  <2>5. mem'[current + 1] = mem[current] /\ mem'[current] = mem[current] /\ mem[current] \in Nat
    BY <1>1, <2>1 DEF SaveTypeOK
  <2>6. \A w \in Writers : mem'[at[w]] = mem[at[w]]
    BY <1>1, <2>1, <2>4 DEF SaveTypeOK
  <2>7. Ownership'
    BY <1>1, <2>1, <2>5, <2>6 DEF Ownership, OnlyCurrentWrites
  <2>. QED
    BY <2>3, <2>7 DEF SaveIInv
<1>3. CASE Close
  <2>1. /\ closing' \in {mem[current], 0} /\ boss' \in {"flush", "close"}
        /\ UNCHANGED <<current, poolVars, writerVars, disk, seen>>
    BY <1>3 DEF Close
  <2>2. SaveTypeOK'
    BY <1>1, <2>1 DEF SaveTypeOK, poolVars, writerVars
  <2>3. Ownership'
    BY <1>1, <2>1 DEF Ownership, OnlyCurrentWrites, poolVars, writerVars
  <2>. QED
    BY <2>2, <2>3 DEF SaveIInv
<1>4. CASE Flush
  <2>1. /\ boss' = "close"
        /\ step' = [step EXCEPT ![Closer] = "clear"]
        /\ at' = [at EXCEPT ![Closer] = current]
        /\ wg' = [wg EXCEPT ![current] = wg[current] \cup {Closer}]
        /\ UNCHANGED <<current, mem, throttle, unsaved, pending, saving, retired, snap,
                       disk, history>>
    BY <1>4 DEF Flush
  <2>2. SaveTypeOK'
    BY <1>1, <2>1 DEF SaveTypeOK, Steps, history
  <2>3. Ownership'
    BY <1>1, <2>1 DEF Ownership, OnlyCurrentWrites, Counted, SaveTypeOK
  <2>. QED
    BY <2>2, <2>3 DEF SaveIInv
<1>5. CASE Retire
  <2>1. /\ retired' = [retired EXCEPT ![current] = TRUE]
        /\ pending' = [pending EXCEPT ![current] = FALSE]
        /\ \/ boss = "replace" /\ boss' = "replaced"
           \/ boss = "close" /\ boss' = "closed"
        /\ UNCHANGED <<current, mem, throttle, unsaved, saving, wg, step, at, snap,
                       disk, history>>
    BY <1>5 DEF Retire, writerVars
  <2>2. SaveTypeOK'
    BY <1>1, <2>1 DEF SaveTypeOK, history
  <2>3. Ownership'
    BY <1>1, <2>1 DEF Ownership, OnlyCurrentWrites, SaveTypeOK
  <2>. QED
    BY <2>2, <2>3 DEF SaveIInv
<1>6. CASE Publish
  <2>1. /\ boss = "replaced" /\ wg[current] = {} /\ current' = current + 1 /\ boss' = "idle"
        /\ UNCHANGED <<poolVars, writerVars, disk, history>>
    BY <1>6 DEF Publish
  <2>2. current + 1 \in Gens /\ current + 1 \in Nat
    BY <1>1, <2>1, GensFacts DEF SaveTypeOK, Gens
  <2>3. SaveTypeOK'
    BY <1>1, <2>1, <2>2 DEF SaveTypeOK, poolVars, writerVars, history
  <2>4. \A w \in Writers : step[w] \notin Counted
    BY <1>1, <2>1 DEF Ownership, OnlyCurrentWrites
  <2>5. \A w \in Writers : at[w] \in Nat /\ at[w] <= current + 1
    <3>1. \A w \in Writers : at[w] \in Nat /\ at[w] <= current
      BY <1>1, GensFacts DEF Ownership, SaveTypeOK
    <3>. QED
      BY <1>1, <3>1
  <2>6. \A g \in Gens : g < current + 1 => retired[g]
    <3>1. retired[current] /\ \A g \in Gens : g < current => retired[g]
      BY <1>1, <2>1 DEF Ownership
    <3>2. \A g \in Gens : g < current + 1 => g < current \/ g = current
      BY <1>1, GensFacts
    <3>. QED
      BY <3>1, <3>2
  <2>7. disk.gen <= current + 1
    <3>1. disk.gen \in Nat /\ disk.gen <= current
      BY <1>1 DEF Ownership, SaveTypeOK
    <3>. QED
      BY <1>1, <3>1
  <2>8. Ownership'
    BY <1>1, <2>1, <2>4, <2>5, <2>6, <2>7
    DEF Ownership, OnlyCurrentWrites, poolVars, writerVars, Counted
  <2>. QED
    BY <2>3, <2>8 DEF SaveIInv
<1>7. CASE Closed
  <2>1. /\ boss' = "idle"
        /\ UNCHANGED <<current, poolVars, writerVars, disk, history>>
    BY <1>7 DEF Closed
  <2>2. SaveTypeOK'
    BY <1>1, <2>1 DEF SaveTypeOK, poolVars, writerVars, history
  <2>3. Ownership'
    BY <1>1, <2>1 DEF Ownership, OnlyCurrentWrites, poolVars, writerVars
  <2>. QED
    BY <2>2, <2>3 DEF SaveIInv
<1>. QED
  BY <1>2, <1>3, <1>4, <1>5, <1>6, <1>7 DEF Manage

LEMMA StutterIInv == SaveIInv /\ UNCHANGED saveVars => SaveIInv'
BY DEF SaveIInv, SaveTypeOK, Ownership, OnlyCurrentWrites, saveVars, poolVars, writerVars, history

\* Only the published pool is being written, for any number of pools, requests
\* and changes: the invariant behind Retire's promise.
THEOREM SaveInvariant == SaveSpec => []SaveIInv
<1>1. SaveIInv /\ [SaveNext]_saveVars => SaveIInv'
  BY RequestIInv, SaveLoopIInv, WriteIInv, ManageIInv, StutterIInv DEF SaveNext
<1>. QED
  BY InitIInv, <1>1, PTL DEF SaveSpec

\* A step of the pool is a step of the owned file, or leaves it alone.
LEMMA StepRefines ==
  ASSUME SaveIInv, SaveIInv', [SaveNext]_saveVars
  PROVE  [Owner!ONext]_(Owner!ovars)
<1>. DEFINE latest == mem[current]
<1>1. SaveTypeOK /\ Ownership /\ current \in Gens /\ current \in Nat /\ latest \in Nat
  BY GensFacts DEF SaveIInv, SaveTypeOK
<1>2. CASE UNCHANGED <<current, mem, disk>>
  BY <1>2 DEF Owner!ovars
<1>3. ASSUME NEW g \in Gens, Changed(g), UNCHANGED <<current, disk>>
      PROVE  [Owner!ONext]_(Owner!ovars)
  <2>1. CASE g = current
    <3>1. mem'[current] = mem[current] + 1
      BY <1>1, <1>3, <2>1 DEF Changed, SaveTypeOK
    <3>2. mem'[current] \in {v \in Nat : v > mem[current]}
      BY <1>1, <3>1
    <3>. QED
      BY <1>3, <3>2 DEF Owner!ONext, Owner!Evolve
  <2>2. CASE g # current
    BY <1>1, <1>3, <2>2 DEF Changed, SaveTypeOK, Owner!ovars
  <2>. QED
    BY <2>1, <2>2
<1>4. ASSUME NEW w \in Writers, WriteFile(w)
      PROVE  [Owner!ONext]_(Owner!ovars)
  <2>1. at[w] = current /\ snap[w] \in 0..latest
    BY <1>1, <1>4 DEF Ownership, OnlyCurrentWrites, Counted, WriteFile, SaveTypeOK
  <2>2. UNCHANGED <<current, mem>> /\ disk' \in {disk, [gen |-> current, ver |-> snap[w]]}
    BY <1>4, <2>1 DEF WriteFile
  <2>. QED
    BY <2>1, <2>2 DEF Owner!ONext, Owner!Save, Owner!ovars
<1>5. CASE Rebuild
  <2>1. mem'[current] = mem[current] /\ UNCHANGED <<current, disk>>
    BY <1>1, <1>5 DEF Rebuild, SaveTypeOK
  <2>. QED
    BY <2>1 DEF Owner!ovars
<1>6. CASE Publish
  <2>1. current' = current + 1 /\ UNCHANGED <<mem, disk>> /\ boss = "replaced"
    BY <1>6 DEF Publish, poolVars
  <2>2. current + 1 \in Gens
    BY <1>1, <2>1, GensFacts DEF SaveTypeOK, Gens
  <2>3. mem[current + 1] \in 0..latest
    BY <1>1, <2>1, <2>2 DEF Ownership, SaveTypeOK
  <2>. QED
    BY <2>1, <2>3 DEF Owner!ONext, Owner!HandOver
<1>7. ASSUME NEW r \in Requests, NEW g \in Gens, ChangeLimits(r, g) \/ ChangeTokens(r, g)
      PROVE  [Owner!ONext]_(Owner!ovars)
  BY <1>3, <1>7 DEF ChangeLimits, ChangeTokens
<1>8. ASSUME NEW r \in Requests, RequestSave(r) \/ SaveStoredAccounts(r)
      PROVE  [Owner!ONext]_(Owner!ovars)
  BY <1>2, <1>8 DEF RequestSave, SaveStoredAccounts
<1>9. ASSUME NEW g \in Gens, SaveLoop(g)
      PROVE  [Owner!ONext]_(Owner!ovars)
  BY <1>2, <1>9 DEF SaveLoop
<1>10. ASSUME NEW w \in Writers, ClearUnsaved(w) \/ ReadAccounts(w)
       PROVE  [Owner!ONext]_(Owner!ovars)
  BY <1>2, <1>10 DEF ClearUnsaved, ReadAccounts, poolVars
<1>11. CASE Close \/ Flush \/ Retire \/ Closed \/ UNCHANGED saveVars
  BY <1>2, <1>11 DEF Close, Flush, Retire, Closed, saveVars, poolVars
<1>. QED
  BY <1>4, <1>5, <1>6, <1>7, <1>8, <1>9, <1>10, <1>11 DEF SaveNext, Request, Write, Manage

\* The pool implements the owned file: at any time one pool owns it, only its
\* owner writes it, and the file never names a state the owner did not have.
THEOREM Refinement == SaveSpec => ImplementsOwner
<1>1. SaveInit => Owner!OInit
  BY GensFacts DEF SaveInit, Owner!OInit
<1>2. SaveIInv /\ SaveIInv' /\ [SaveNext]_saveVars => [Owner!ONext]_(Owner!ovars)
  BY StepRefines
<1>. QED
  BY <1>1, <1>2, SaveInvariant, PTL DEF SaveSpec, ImplementsOwner, Owner!OSpec

\* The old pool's account set can never overwrite the new one on disk.
THEOREM NewestWins == SaveSpec => NewestPoolWins
<1>1. SaveIInv /\ [SaveNext]_saveVars => disk'.gen >= disk.gen \/ UNCHANGED saveVars
  <2>. SUFFICES ASSUME SaveIInv, [SaveNext]_saveVars PROVE disk'.gen >= disk.gen \/ UNCHANGED saveVars
    OBVIOUS
  <2>1. SaveTypeOK /\ Ownership /\ current \in Nat /\ disk.gen \in Nat /\ disk.gen <= current
    BY GensFacts DEF SaveIInv, SaveTypeOK, Ownership
  <2>2. ASSUME NEW w \in Writers, WriteFile(w) PROVE disk'.gen >= disk.gen
    <3>1. disk' \in {disk, [gen |-> current, ver |-> snap[w]]}
      BY <2>1, <2>2 DEF Ownership, OnlyCurrentWrites, Counted, WriteFile
    <3>. QED
      BY <2>1, <3>1
  <2>3. CASE UNCHANGED disk
    BY <2>1, <2>3
  <2>. QED
    BY <2>1, <2>2, <2>3
    DEF SaveNext, Request, Write, Manage, ChangeLimits, ChangeTokens, RequestSave,
        SaveStoredAccounts, SaveLoop, ClearUnsaved, ReadAccounts, Rebuild, Close, Flush,
        Retire, Publish, Closed
<1>. QED
  BY <1>1, SaveInvariant, PTL DEF SaveSpec, NewestPoolWins

(***************************************************************************)
(* The save goroutines and the changes they are asked for                  *)
(***************************************************************************)

\* A goroutine works on its own pool, and a pool that is being made has all
\* its accounts from the one it replaces.
Asked ==
  /\ OneSaver
  /\ \A g \in Gens : step[g] # "idle" => at[g] = g
  /\ NothingForgotten
  /\ boss \in {"replace", "replaced"} => mem[current + 1] <= seen[current + 1]

SInv == SaveIInv /\ Asked

LEMMA BeingMade ==
  SaveTypeOK /\ boss \in {"replace", "replaced"} => current + 1 \in Gens
<1>. SUFFICES ASSUME SaveTypeOK, boss \in {"replace", "replaced"} PROVE current + 1 \in Gens
  OBVIOUS
<1>1. current \in Nat /\ current < MaxGen
  BY GensFacts DEF SaveTypeOK
<1>. QED
  BY <1>1, GensFacts DEF Gens

LEMMA NotGens == \A g \in Gens : g \notin Requests /\ g # Closer
BY SaveAssumption DEF Gens

LEMMA InitAsked == SaveInit => Asked
BY GensFacts DEF SaveInit, Asked, OneSaver, NothingForgotten

LEMMA RequestAsked ==
  ASSUME SInv, NEW r \in Requests, Request(r)
  PROVE  Asked'
<1>1. /\ r \in Writers /\ r \notin Gens /\ SaveTypeOK /\ Ownership /\ Asked
      /\ at[r] \in Gens
      /\ boss \in {"replace", "replaced"} => current + 1 \in Gens
  BY GensFacts, BeingMade, NotGens DEF SInv, SaveIInv, SaveTypeOK
<1>2. ASSUME NEW g \in Gens, ChangeLimits(r, g) \/ ChangeTokens(r, g)
      PROVE  Asked'
  <2>1. /\ step[r] = "idle" /\ g <= current
        /\ at' = [at EXCEPT ![r] = g]
        /\ UNCHANGED <<current, pending, saving, retired, boss, seen>>
        /\ \/ /\ step' \in {[step EXCEPT ![r] = "ask"], [step EXCEPT ![r] = "save"]}
              /\ UNCHANGED unsaved
           \/ /\ unsaved' = [unsaved EXCEPT ![g] = TRUE]
              /\ UNCHANGED step
    BY <1>2 DEF ChangeLimits, ChangeTokens, history
  <2>2. \A h \in Gens \ {g} : mem'[h] = mem[h]
    BY <1>1, <1>2 DEF ChangeLimits, ChangeTokens, Changed, SaveTypeOK
  <2>3. OneSaver' /\ \A h \in Gens : step'[h] # "idle" => at'[h] = h
    BY <1>1, <2>1, GensFacts DEF Asked, OneSaver, SaveTypeOK
  <2>4. NothingForgotten'
    <3>. SUFFICES ASSUME NEW h \in Gens, h <= current, ~retired[h], mem'[h] > seen[h]
                  PROVE  \/ unsaved'[h] \/ pending[h]
                         \/ \E w \in Writers :
                              at'[w] = h /\ step'[w] \in {"ask", "save", "clear", "read"}
      BY <2>1 DEF NothingForgotten
    <3>1. CASE h = g
      BY <1>1, <2>1, <3>1 DEF SaveTypeOK
    <3>2. CASE h # g
      <4>1. \/ unsaved[h] \/ pending[h]
            \/ \E w \in Writers :
                 at[w] = h /\ step[w] \in {"ask", "save", "clear", "read"}
        BY <1>1, <2>2, <3>2 DEF Asked, NothingForgotten
      <4>2. unsaved'[h] = unsaved[h]
        BY <1>1, <2>1, <3>2 DEF SaveTypeOK
      <4>3. \A w \in Writers : step[w] # "idle" => step'[w] = step[w] /\ at'[w] = at[w]
        BY <1>1, <2>1 DEF SaveTypeOK
      <4>. QED
        BY <4>1, <4>2, <4>3
    <3>. QED
      BY <3>1, <3>2
  <2>5. boss \in {"replace", "replaced"} => mem'[current + 1] <= seen[current + 1]
    <3>1. g # current + 1
      BY <1>1, <2>1, GensFacts DEF SaveTypeOK
    <3>. QED
      BY <1>1, <2>2, <3>1 DEF Asked
  <2>. QED
    BY <2>1, <2>3, <2>4, <2>5 DEF Asked
<1>3. CASE RequestSave(r)
  <2>. DEFINE g == at[r]
  <2>1. /\ step[r] = "ask" /\ g \in Gens /\ g # r /\ g \in Writers
        /\ UNCHANGED <<current, mem, unsaved, retired, boss, seen>>
        /\ \/ /\ retired[g] /\ step' = [step EXCEPT ![r] = "idle"]
              /\ UNCHANGED <<at, pending, saving>>
           \/ /\ saving[g] /\ pending' = [pending EXCEPT ![g] = TRUE]
              /\ step' = [step EXCEPT ![r] = "idle"] /\ UNCHANGED <<at, saving>>
           \/ /\ ~saving[g] /\ pending' = [pending EXCEPT ![g] = TRUE]
              /\ saving' = [saving EXCEPT ![g] = TRUE]
              /\ step' = [step EXCEPT ![r] = "idle", ![g] = "loop"]
              /\ at' = [at EXCEPT ![g] = g]
    BY <1>1, <1>3, GensFacts DEF RequestSave, history
  <2>2. \A h \in Gens \ {g} : step'[h] = step[h] /\ at'[h] = at[h] /\ saving'[h] = saving[h]
    BY <1>1, <2>1, GensFacts DEF SaveTypeOK
  <2>7. \/ step'[g] = step[g] /\ at'[g] = at[g] /\ saving'[g] = saving[g]
        \/ step'[g] = "loop" /\ at'[g] = g /\ saving'[g]
    BY <1>1, <2>1 DEF SaveTypeOK
  <2>8. OneSaver' /\ \A h \in Gens : step'[h] # "idle" => at'[h] = h
    BY <1>1, <2>2, <2>7 DEF Asked, OneSaver
  <2>3. retired[g] \/ pending'[g]
    BY <1>1, <2>1 DEF SaveTypeOK
  <2>4. \A h \in Gens \ {g} : pending'[h] = pending[h]
    BY <1>1, <2>1 DEF SaveTypeOK
  <2>5. \A w \in Writers : w # r /\ step[w] \in {"ask", "save", "clear", "read"}
          => step'[w] = step[w] /\ at'[w] = at[w]
    BY <1>1, <2>1 DEF Asked, OneSaver, SaveTypeOK
  <2>6. NothingForgotten'
    BY <1>1, <2>1, <2>3, <2>4, <2>5 DEF Asked, NothingForgotten
  <2>. QED
    BY <1>1, <2>1, <2>6, <2>8 DEF Asked
<1>4. CASE SaveStoredAccounts(r)
  <2>1. /\ step[r] = "save"
        /\ UNCHANGED <<current, mem, unsaved, pending, saving, retired, at, boss, seen>>
        /\ \/ retired[at[r]] /\ step' = [step EXCEPT ![r] = "idle"]
           \/ step' = [step EXCEPT ![r] = "clear"]
    BY <1>4 DEF SaveStoredAccounts, history
  <2>2. OneSaver' /\ \A h \in Gens : step'[h] # "idle" => at'[h] = h
    BY <1>1, <2>1, GensFacts DEF Asked, OneSaver, SaveTypeOK
  <2>3. NothingForgotten'
    BY <1>1, <2>1 DEF Asked, NothingForgotten, SaveTypeOK
  <2>. QED
    BY <1>1, <2>1, <2>2, <2>3 DEF Asked
<1>. QED
  BY <1>2, <1>3, <1>4 DEF Request

LEMMA SaveLoopAsked ==
  ASSUME SInv, NEW g \in Gens, SaveLoop(g)
  PROVE  Asked'
<1>1. SaveTypeOK /\ Asked /\ g \in Writers /\ step[g] = "loop" /\ at[g] = g
  BY GensFacts DEF SInv, SaveIInv, SaveLoop, Asked
<1>2. /\ UNCHANGED <<current, mem, unsaved, retired, at, boss, seen>>
      /\ \A h \in Gens \ {g} : pending'[h] = pending[h]
      /\ \/ /\ ~pending[g] \/ retired[g]
            /\ step' = [step EXCEPT ![g] = "idle"]
            /\ saving' = [saving EXCEPT ![g] = FALSE]
         \/ step' = [step EXCEPT ![g] = "clear"] /\ UNCHANGED saving
  BY <1>1 DEF SaveLoop, SaveTypeOK, history
<1>3. OneSaver' /\ \A h \in Gens : step'[h] # "idle" => at'[h] = h
  BY <1>1, <1>2, GensFacts DEF Asked, OneSaver, SaveTypeOK
<1>4. \A w \in Writers : step[w] \in {"ask", "save", "clear", "read"} => step'[w] = step[w]
  BY <1>1, <1>2 DEF SaveTypeOK
<1>5. NothingForgotten'
  <2>. SUFFICES ASSUME NEW h \in Gens, h <= current, ~retired[h], mem[h] > seen[h]
                PROVE  \/ unsaved[h] \/ pending'[h]
                       \/ \E w \in Writers :
                            at[w] = h /\ step'[w] \in {"ask", "save", "clear", "read"}
    BY <1>2 DEF NothingForgotten
  <2>1. \/ unsaved[h] \/ pending[h]
        \/ \E w \in Writers : at[w] = h /\ step[w] \in {"ask", "save", "clear", "read"}
    BY <1>1 DEF Asked, NothingForgotten
  <2>2. CASE h = g /\ pending[h]
    BY <1>1, <1>2, <2>2 DEF SaveTypeOK
  <2>. QED
    BY <1>2, <1>4, <2>1, <2>2
<1>. QED
  BY <1>1, <1>2, <1>3, <1>5 DEF Asked

LEMMA WriteAsked ==
  ASSUME SInv, NEW w \in Writers, Write(w)
  PROVE  Asked'
<1>1. /\ SaveTypeOK /\ Asked /\ at[w] \in Gens
      /\ boss \in {"replace", "replaced"} => current + 1 \in Gens
  BY BeingMade DEF SInv, SaveIInv, SaveTypeOK
<1>2. CASE ClearUnsaved(w)
  <2>1. /\ step[w] = "clear" /\ step' = [step EXCEPT ![w] = "read"]
        /\ unsaved' = [unsaved EXCEPT ![at[w]] = FALSE]
        /\ UNCHANGED <<current, mem, pending, saving, retired, at, boss, seen>>
    BY <1>2 DEF ClearUnsaved, history
  <2>2. OneSaver' /\ \A h \in Gens : step'[h] # "idle" => at'[h] = h
    BY <1>1, <2>1, GensFacts DEF Asked, OneSaver, SaveTypeOK
  <2>3. NothingForgotten'
    BY <1>1, <2>1 DEF Asked, NothingForgotten, SaveTypeOK
  <2>. QED
    BY <1>1, <2>1, <2>2, <2>3 DEF Asked
<1>3. CASE ReadAccounts(w)
  <2>1. /\ step[w] = "read" /\ step' = [step EXCEPT ![w] = "write"]
        /\ UNCHANGED <<current, mem, unsaved, pending, saving, retired, at, boss>>
        /\ \A h \in Gens : seen'[h] >= seen[h]
        /\ seen'[at[w]] >= mem[at[w]]
        /\ seen' \in [Gens -> Nat]
    BY <1>1, <1>3 DEF ReadAccounts, poolVars, SaveTypeOK
  <2>2. OneSaver' /\ \A h \in Gens : step'[h] # "idle" => at'[h] = h
    BY <1>1, <2>1, GensFacts DEF Asked, OneSaver, SaveTypeOK
  <2>3. \A h \in Gens : mem[h] > seen'[h] => mem[h] > seen[h] /\ h # at[w]
    BY <1>1, <2>1 DEF SaveTypeOK
  <2>4. \A v \in Writers : v # w => step'[v] = step[v]
    BY <1>1, <2>1 DEF SaveTypeOK
  <2>5. NothingForgotten'
    BY <1>1, <2>1, <2>3, <2>4 DEF Asked, NothingForgotten
  <2>6. boss \in {"replace", "replaced"} => mem[current + 1] <= seen'[current + 1]
    BY <1>1, <2>1 DEF Asked, SaveTypeOK
  <2>. QED
    BY <2>1, <2>2, <2>5, <2>6 DEF Asked
<1>4. CASE WriteFile(w)
  <2>1. /\ step[w] = "write"
        /\ \/ w \in Gens /\ step' = [step EXCEPT ![w] = "loop"]
           \/ w \notin Gens /\ step' = [step EXCEPT ![w] = "idle"]
        /\ UNCHANGED <<current, mem, unsaved, pending, saving, retired, at, boss, seen>>
    BY <1>4 DEF WriteFile
  <2>2. OneSaver' /\ \A h \in Gens : step'[h] # "idle" => at'[h] = h
    BY <1>1, <2>1, GensFacts DEF Asked, OneSaver, SaveTypeOK
  <2>3. NothingForgotten'
    BY <1>1, <2>1 DEF Asked, NothingForgotten, SaveTypeOK
  <2>. QED
    BY <1>1, <2>1, <2>2, <2>3 DEF Asked
<1>. QED
  BY <1>2, <1>3, <1>4 DEF Write

LEMMA ManageAsked ==
  ASSUME SInv, Manage
  PROVE  Asked'
<1>1. /\ SaveTypeOK /\ Ownership /\ Asked /\ current \in Gens /\ current \in Nat
      /\ Closer \in Writers /\ Closer \notin Gens
      /\ boss \in {"replace", "replaced"} => current + 1 \in Gens
  BY GensFacts, BeingMade, NotGens DEF SInv, SaveIInv, SaveTypeOK
<1>2. CASE Rebuild
  <2>1. /\ current + 1 \in Gens /\ boss' = "replace"
        /\ mem' = [mem EXCEPT ![current + 1] = mem[current]]
        /\ seen' = [seen EXCEPT ![current + 1] = mem[current]]
        /\ UNCHANGED <<current, unsaved, pending, saving, retired, step, at>>
    BY <1>1, <1>2, GensFacts DEF Rebuild, Gens, writerVars
  <2>2. \A h \in Gens : h <= current =>
          h # current + 1 /\ mem'[h] = mem[h] /\ seen'[h] = seen[h]
    BY <1>1, <2>1, GensFacts DEF SaveTypeOK
  <2>3. NothingForgotten'
    BY <1>1, <2>1, <2>2 DEF Asked, NothingForgotten
  <2>4. mem'[current + 1] = mem[current] /\ seen'[current + 1] = mem[current]
        /\ mem[current] \in Nat
    BY <1>1, <2>1 DEF SaveTypeOK
  <2>. QED
    BY <1>1, <2>1, <2>3, <2>4 DEF Asked, OneSaver
<1>3. CASE Close \/ Closed
  <2>1. /\ boss' \notin {"replace", "replaced"}
        /\ UNCHANGED <<current, mem, unsaved, pending, saving, retired, step, at, seen>>
    BY <1>3 DEF Close, Closed, poolVars, writerVars, history
  <2>. QED
    BY <1>1, <2>1 DEF Asked, OneSaver, NothingForgotten
<1>4. CASE Flush
  <2>1. /\ boss' = "close"
        /\ step' = [step EXCEPT ![Closer] = "clear"]
        /\ at' = [at EXCEPT ![Closer] = current]
        /\ UNCHANGED <<current, mem, unsaved, pending, saving, retired, seen>>
    BY <1>4 DEF Flush, history
  <2>2. OneSaver' /\ \A h \in Gens : step'[h] # "idle" => at'[h] = h
    BY <1>1, <2>1, GensFacts DEF Asked, OneSaver, SaveTypeOK
  <2>3. NothingForgotten'
    <3>. SUFFICES ASSUME NEW h \in Gens, h <= current, ~retired[h], mem[h] > seen[h],
                         ~unsaved[h], ~pending[h]
                  PROVE  \E w \in Writers :
                            at'[w] = h /\ step'[w] \in {"ask", "save", "clear", "read"}
      BY <2>1 DEF NothingForgotten
    <3>1. PICK w \in Writers : at[w] = h /\ step[w] \in {"ask", "save", "clear", "read"}
      BY <1>1 DEF Asked, NothingForgotten
    <3>2. CASE w # Closer
      BY <1>1, <2>1, <3>1, <3>2 DEF SaveTypeOK
    <3>3. CASE w = Closer
      <4>1. h = current
        <5>1. ~(h < current)
          BY <1>1 DEF Ownership
        <5>. QED
          BY <1>1, <5>1, GensFacts
      <4>. QED
        BY <1>1, <2>1, <4>1 DEF SaveTypeOK
    <3>. QED
      BY <3>2, <3>3
  <2>. QED
    BY <2>1, <2>2, <2>3 DEF Asked
<1>5. CASE Retire
  <2>1. /\ retired' = [retired EXCEPT ![current] = TRUE]
        /\ pending' = [pending EXCEPT ![current] = FALSE]
        /\ boss' = "replaced" => boss = "replace"
        /\ boss' # "replace"
        /\ UNCHANGED <<current, mem, unsaved, saving, step, at, seen>>
    BY <1>5 DEF Retire, writerVars, history
  <2>2. NothingForgotten'
    BY <1>1, <2>1 DEF Asked, NothingForgotten, SaveTypeOK
  <2>. QED
    BY <1>1, <2>1, <2>2 DEF Asked, OneSaver
<1>6. CASE Publish
  <2>1. /\ boss = "replaced" /\ current' = current + 1 /\ boss' = "idle"
        /\ UNCHANGED <<mem, unsaved, pending, saving, retired, step, at, seen>>
    BY <1>6 DEF Publish, poolVars, writerVars, history
  <2>2. mem[current + 1] \in Nat /\ seen[current + 1] \in Nat
        /\ mem[current + 1] <= seen[current + 1]
    BY <1>1, <2>1 DEF Asked, SaveTypeOK
  <2>3. \A h \in Gens : h <= current + 1 /\ mem[h] > seen[h] => h <= current
    <3>. SUFFICES ASSUME NEW h \in Gens, h <= current + 1, mem[h] > seen[h]
                  PROVE  h <= current
      OBVIOUS
    <3>1. h # current + 1
      BY <2>2
    <3>. QED
      BY <1>1, <3>1, GensFacts
  <2>4. NothingForgotten'
    BY <1>1, <2>1, <2>3 DEF Asked, NothingForgotten
  <2>. QED
    BY <1>1, <2>1, <2>4 DEF Asked, OneSaver
<1>. QED
  BY <1>2, <1>3, <1>4, <1>5, <1>6 DEF Manage

LEMMA StutterAsked == Asked /\ UNCHANGED saveVars => Asked'
BY DEF Asked, OneSaver, NothingForgotten, saveVars, poolVars, writerVars, history

THEOREM AskedInvariant == SaveSpec => []Asked
<1>1. Asked /\ SaveIInv /\ [SaveNext]_saveVars => Asked'
  BY RequestAsked, SaveLoopAsked, WriteAsked, ManageAsked, StutterAsked DEF SaveNext, SInv
<1>. QED
  BY InitAsked, SaveInvariant, <1>1, PTL DEF SaveSpec

\* At most one goroutine saves a pool, and saving says whether there is one,
\* so that requestSave neither starts a second one nor relies on one that
\* has exited.
THEOREM SaverInvariant == SaveSpec => []OneSaver
BY AskedInvariant, PTL DEF Asked

\* A change of a pool that is not retired is marked, requested or about to be
\* copied by someone, until a pass has copied it.
THEOREM NotForgotten == SaveSpec => []NothingForgotten
BY AskedInvariant, PTL DEF Asked

-----------------------------------------------------------------------------
(* The tokens in config.json *)

Tokens == [Accounts -> Nat]
Stages == {"idle", "pool", "select", "ask", "store", "scan", "sync next", "sync",
           "get", "save", "sent"}
Actor == [at : Stages, copy : Tokens, pool : Nat, acc : Accounts \cup {Nobody}, token : Nat,
          after401 : BOOLEAN, todo : SUBSET Accounts, done : SUBSET Accounts, error : BOOLEAN]
Shared == [current : Pools, stale : BOOLEAN, built : Tokens]
Lost == [bySave : SUBSET Accounts, byTick : SUBSET Accounts]

TokensTypeOK ==
  /\ filed \in Tokens /\ newest \in Tokens /\ reached \in Tokens
  /\ pools \in [Pools -> Tokens]
  /\ shared \in Shared
  /\ actor \in [TokenHolders -> Actor]
  /\ left \in Lost

\* What an actor has in hand at each stage.
Hands(p) ==
  /\ actor[p].at \in {"idle", "pool"} => actor[p].pool = 0 /\ actor[p].done = {}
  /\ actor[p].at \notin {"idle", "pool"} => actor[p].pool \in Pools
  /\ actor[p].at \in {"ask", "store", "sync", "get", "save", "sent"} => actor[p].acc \in Accounts
  /\ actor[p].at \in {"select", "sent"} => p \in Forwards

\* n is a token of a that config.json, a pool or an actor has and upstream has given
\* to a pool before.
Known(n, a) ==
  \/ n = 1 \/ n = filed[a]
  \/ \E g \in Pools : n = pools[g][a]
  \/ \E p \in TokenHolders :
       \/ n = actor[p].copy[a]
       \/ actor[p].at \in {"ask", "get", "save"} /\ actor[p].acc = a /\ n = actor[p].token

\* No token is newer than upstream's, and config.json never had one that was.
Given ==
  \A a \in Accounts :
    /\ reached[a] <= newest[a]
    /\ \A n \in Nat : Known(n, a) => n <= newest[a]

\* A token on its way into a pool is upstream's newest, and nobody else has it.
Fresh(p) ==
  /\ actor[p].token = newest[actor[p].acc]
  /\ \A n \in Nat : Known(n, actor[p].acc) => n < newest[actor[p].acc]
  /\ \A q \in TokenHolders : actor[q].at = "store" /\ actor[q].acc = actor[p].acc => q = p

FreshStored == \A p \in TokenHolders : actor[p].at = "store" => Fresh(p)

TokensInv ==
  /\ TokensTypeOK /\ \A p \in TokenHolders : Hands(p)
  /\ Given /\ FreshStored /\ GivenIsFiled

LEMMA HolderFacts ==
  /\ FirstTokens \in Tokens /\ AtRest \in Actor
  /\ \A p \in TokenHolders : p \in Workers <=> p \notin Forwards
  /\ 0 \notin Pools /\ Pools \subseteq Nat /\ 1 \in Pools
<1>1. Cardinality(TokenHolders) \in Nat
      BY TokensAssumption, FS_Union, FS_CardinalityType DEF TokensAssumption, TokenHolders
<1>2. 0 \notin Pools /\ Pools \subseteq Nat /\ 1 \in Pools BY <1>1 DEF Pools
<1> QED BY <1>2, TokensAssumption
    DEF TokensAssumption, TokenHolders, FirstTokens, Tokens, AtRest, Actor, Stages

LEMMA Holder ==
  ASSUME TokensInv, NEW p \in TokenHolders
  PROVE  /\ actor[p] \in Actor /\ Hands(p) /\ p \in DOMAIN actor
         /\ actor \in [TokenHolders -> Actor]
         /\ filed \in Tokens /\ newest \in Tokens /\ reached \in Tokens /\ pools \in [Pools -> Tokens]
         /\ shared \in Shared /\ left \in Lost
BY DEF TokensInv, TokensTypeOK

\* A step of one actor that spreads only tokens known before, and after which what
\* it brought is brought still, was written or is left.
LEMMA SpreadsKnown ==
  ASSUME TokensInv, NEW p \in TokenHolders, NEW x \in Actor, actor' = [actor EXCEPT ![p] = x],
         newest' = newest, filed' \in Tokens, pools' \in [Pools -> Tokens], shared' \in Shared,
         reached' \in Tokens, left' \in Lost, Left \subseteq Left',
         Hands(p)', x.at # "store",
         \A a \in Accounts : Known(filed'[a], a) /\ Known(x.copy[a], a),
         \A a \in Accounts, g \in Pools : Known(pools'[g][a], a),
         x.at \in {"ask", "get", "save"} => Known(x.token, x.acc),
         \A q \in TokenHolders \ {p} : actor[q].at \notin {"idle", "pool"} =>
           pools'[actor[q].pool] = pools[actor[q].pool],
         \A a \in Accounts : reached'[a] \in {reached[a], filed'[a]} /\ reached[a] <= reached'[a],
         \A a \in Accounts \ Left' : Brings(p, a) => Brings(p, a)' \/ reached'[a] = newest[a]
  PROVE  TokensInv'
<1>1. /\ actor'[p] = x /\ \A q \in TokenHolders \ {p} : actor'[q] = actor[q]
      /\ actor' \in [TokenHolders -> Actor]
      BY Holder
<1>2. TokensTypeOK' BY <1>1, Holder DEF TokensTypeOK
<1>3. \A q \in TokenHolders : Hands(q)'
  <2>1. ASSUME NEW q \in TokenHolders \ {p} PROVE Hands(q)'
        BY <1>1, Holder DEF Hands, Pools
  <2> QED BY <2>1
<1>4. \A a \in Accounts, n \in Nat : Known(n, a)' => Known(n, a)
  <2> SUFFICES ASSUME NEW a \in Accounts, NEW n \in Nat, Known(n, a)' PROVE Known(n, a)
      OBVIOUS
  <2>1. CASE n = 1 BY <2>1 DEF Known
  <2>2. CASE n = filed'[a] BY <2>2
  <2>3. CASE \E g \in Pools : n = pools'[g][a] BY <2>3
  <2>4. ASSUME NEW q \in TokenHolders, n = actor'[q].copy[a] PROVE Known(n, a)
    <3>1. CASE q = p BY <1>1, <2>4, <3>1
    <3>2. CASE q # p BY <1>1, <2>4, <3>2 DEF Known
    <3> QED BY <3>1, <3>2
  <2>5. ASSUME NEW q \in TokenHolders, actor'[q].at \in {"ask", "get", "save"},
               actor'[q].acc = a, n = actor'[q].token
        PROVE  Known(n, a)
    <3>1. CASE q = p BY <1>1, <2>5, <3>1
    <3>2. CASE q # p BY <1>1, <2>5, <3>2 DEF Known
    <3> QED BY <3>1, <3>2
  <2> QED BY <2>1, <2>2, <2>3, <2>4, <2>5 DEF Known, Pools
<1>5. Given'
  <2> SUFFICES ASSUME NEW a \in Accounts
               PROVE  /\ reached'[a] <= newest[a]
                      /\ \A n \in Nat : Known(n, a)' => n <= newest[a]
      BY DEF Given
  <2>1. \A n \in Nat : Known(n, a) => n <= newest[a] BY DEF TokensInv, Given
  <2>2. reached[a] <= newest[a] BY DEF TokensInv, Given
  <2>3. filed'[a] \in Nat BY DEF Tokens
  <2>4. filed'[a] <= newest[a] BY <2>1, <2>3
  <2> QED BY <1>4, <2>1, <2>2, <2>4
<1>6. FreshStored'
  <2> SUFFICES ASSUME NEW q \in TokenHolders, actor'[q].at = "store"
               PROVE  (Fresh(q))'
      BY DEF FreshStored
  <2>1. q # p /\ actor'[q] = actor[q] BY <1>1
  <2>2. actor[q].acc \in Accounts BY <2>1, Holder DEF Hands
  <2>3. Fresh(q) BY <2>1 DEF TokensInv, FreshStored
  <2>4. \A r \in TokenHolders : actor'[r].at = "store" => actor'[r] = actor[r] BY <1>1
  <2>5. \A n \in Nat : Known(n, actor[q].acc)' => n < newest[actor[q].acc]
    <3>1. \A n \in Nat : Known(n, actor[q].acc) => n < newest[actor[q].acc] BY <2>3 DEF Fresh
    <3>2. actor[q].acc \in Accounts BY <2>2
    <3> QED BY <1>4, <2>1, <3>1, <3>2
  <2> QED BY <2>1, <2>3, <2>4, <2>5 DEF Fresh
<1>7. GivenIsFiled'
  <2> SUFFICES ASSUME NEW a \in Accounts, a \notin Left'
               PROVE  reached'[a] = newest[a] \/ \E q \in TokenHolders : Brings(q, a)'
      BY DEF GivenIsFiled
  <2>1. reached[a] = newest[a] \/ \E q \in TokenHolders : Brings(q, a)
        BY DEF TokensInv, GivenIsFiled
  <2>2. CASE reached[a] = newest[a]
    <3>1. reached'[a] <= newest[a] BY <1>5 DEF Given
    <3>2. reached'[a] \in Nat /\ newest[a] \in Nat BY Holder DEF Tokens
    <3> QED BY <2>2, <3>1, <3>2
  <2>3. ASSUME NEW q \in TokenHolders, Brings(q, a), q # p PROVE Brings(q, a)'
    <3>1. actor'[q] = actor[q] BY <1>1, <2>3
    <3>2. actor[q].at \in {"idle", "pool"} => FALSE BY <2>3, Holder DEF Brings, Hands
    <3> QED BY <2>3, <3>1, <3>2 DEF Brings
  <2> QED BY <2>1, <2>2, <2>3
<1> QED BY <1>2, <1>3, <1>5, <1>6, <1>7 DEF TokensInv

\* ... and if it changes nothing but the actor and what is left.
LEMMA ActorMoves ==
  ASSUME TokensInv, NEW p \in TokenHolders, NEW x \in Actor, actor' = [actor EXCEPT ![p] = x],
         UNCHANGED <<filed, newest, pools, shared, reached>>, left' \in Lost, Left \subseteq Left',
         Hands(p)', x.at # "store",
         \A a \in Accounts : Known(x.copy[a], a),
         x.at \in {"ask", "get", "save"} => Known(x.token, x.acc),
         \A a \in Accounts \ Left' : Brings(p, a) => Brings(p, a)'
  PROVE  TokensInv'
<1>1. /\ filed' = filed /\ newest' = newest /\ pools' = pools /\ shared' = shared
      /\ reached' = reached
      OBVIOUS
<1>2. /\ filed' \in Tokens /\ pools' \in [Pools -> Tokens] /\ shared' \in Shared
      /\ reached' \in Tokens
      BY <1>1, Holder
<1>3. \A a \in Accounts : Known(filed'[a], a) BY <1>1 DEF Known
<1>4. \A a \in Accounts, g \in Pools : Known(pools'[g][a], a) BY <1>1 DEF Known
<1>5. \A a \in Accounts : reached'[a] \in {reached[a], filed'[a]} /\ reached[a] <= reached'[a]
      BY <1>1, Holder DEF Tokens
<1> QED BY <1>1, <1>2, <1>3, <1>4, <1>5, SpreadsKnown

LEMMA TakeConfigOK ==
  ASSUME TokensInv, NEW p \in TokenHolders, TakeConfig(p) PROVE TokensInv'
<1> DEFINE x == [actor[p] EXCEPT !.at = "pool", !.copy = filed]
<1>1. /\ actor[p] \in Actor /\ actor[p].at = "idle" /\ Hands(p) /\ left \in Lost /\ filed \in Tokens
      /\ UNCHANGED <<filed, newest, pools, shared, reached, left>>
      BY Holder DEF TakeConfig
<1>2. /\ x \in Actor /\ x.at = "pool" /\ x.copy = filed /\ x.pool = 0 /\ x.done = {}
      BY <1>1 DEF Actor, Stages, Hands
<1>3. actor' = [actor EXCEPT ![p] = x] BY DEF TakeConfig
<1> HIDE DEF x
<1>4. actor'[p] = x BY <1>3, Holder
<1>5. Hands(p)' BY <1>2, <1>4 DEF Hands
<1>6. \A a \in Accounts : Known(x.copy[a], a) BY <1>2 DEF Known
<1>7. \A a \in Accounts : ~Brings(p, a) BY <1>1 DEF Brings, Hands
<1>8. Left \subseteq Left' BY <1>1 DEF Left
<1> QED BY <1>1, <1>2, <1>3, <1>5, <1>6, <1>7, <1>8, ActorMoves

\* There is a pool nobody uses, since whoever builds one has none.
LEMMA PoolToBuild ==
  ASSUME TokensInv, NEW p \in TokenHolders, actor[p].pool = 0
  PROVE  (CHOOSE n \in Unused : TRUE) \in Unused
<1> DEFINE f == [q \in TokenHolders \ {p} |-> actor[q].pool]
           Held == {actor[q].pool : q \in TokenHolders \ {p}}
           c == Cardinality(TokenHolders)
<1>1. IsFiniteSet(TokenHolders) BY TokensAssumption, FS_Union DEF TokensAssumption, TokenHolders
<1>2. c \in Nat BY <1>1, FS_CardinalityType
<1>3. IsFiniteSet(TokenHolders \ {p}) /\ Cardinality(TokenHolders \ {p}) = c - 1
      BY <1>1, FS_RemoveElement
<1>4. IsFiniteSet(Held) /\ Cardinality(Held) <= c - 1
  <2>1. f \in Surjection(TokenHolders \ {p}, Held) BY DEF Surjection
  <2>2. IsFiniteSet(Held) /\ Cardinality(Held) <= Cardinality(TokenHolders \ {p})
        BY <1>3, <2>1, FS_Surjection
  <2> QED BY <1>3, <2>2
<1>5. /\ IsFiniteSet(Held \cup {shared.current})
      /\ Cardinality(Held \cup {shared.current}) <= c
  <2>1. /\ IsFiniteSet(Held \cup {shared.current})
        /\ Cardinality(Held \cup {shared.current}) <= Cardinality(Held) + 1
    <3>1. /\ IsFiniteSet(Held \cup {shared.current})
          /\ Cardinality(Held \cup {shared.current}) =
               IF shared.current \in Held THEN Cardinality(Held) ELSE Cardinality(Held) + 1
          BY <1>4, FS_AddElement
    <3>2. Cardinality(Held) \in Nat BY <1>4, FS_CardinalityType
    <3> QED BY <3>1, <3>2
  <2>2. Cardinality(Held) \in Nat BY <1>4, FS_CardinalityType
  <2>3. Cardinality(Held \cup {shared.current}) \in Nat BY <2>1, FS_CardinalityType
  <2> QED BY <1>2, <1>4, <2>1, <2>2, <2>3
<1>6. IsFiniteSet(Pools) /\ Cardinality(Pools) = c + 1
  <2> DEFINE n == c + 1
  <2>1. n \in Int /\ 1 \in Int /\ n >= 1 BY <1>2
  <2> HIDE DEF n
  <2>2. IsFiniteSet(1 .. n) /\ Cardinality(1 .. n) = IF 1 > n THEN 0 ELSE n - 1 + 1
        BY <2>1, FS_Interval
  <2>3. Cardinality(1 .. n) = n BY <2>1, <2>2
  <2> QED BY <2>2, <2>3 DEF Pools, n
<1> HIDE DEF c
<1>7. Unused # {}
  <2> SUFFICES ASSUME Unused = {} PROVE FALSE OBVIOUS
  <2>1. Pools \subseteq Held \cup {shared.current}
    <3> SUFFICES ASSUME NEW g \in Pools, g # shared.current PROVE g \in Held OBVIOUS
    <3>1. PICK q \in TokenHolders : actor[q].pool = g BY DEF Unused
    <3>2. q # p BY <3>1, HolderFacts
    <3> QED BY <3>1, <3>2
  <2>2. Cardinality(Pools) <= Cardinality(Held \cup {shared.current})
        BY <1>5, <2>1, FS_Subset
  <2>3. Cardinality(Held \cup {shared.current}) \in Nat BY <1>5, FS_CardinalityType
  <2> QED BY <1>2, <1>5, <1>6, <2>2, <2>3
<1> QED BY <1>7

LEMMA GetOrCreatePoolOK ==
  ASSUME TokensInv, NEW p \in TokenHolders, GetOrCreatePool(p) PROVE TokensInv'
<1> DEFINE y == actor[p]
           old == shared.stale \/ shared.built # y.copy
           free == CHOOSE n \in Unused : TRUE
           g == IF old THEN free ELSE shared.current
           to == IF p \in Forwards THEN "select" ELSE "scan"
           all == IF p \in Workers THEN Accounts ELSE {}
           x == [y EXCEPT !.at = to, !.copy = FirstTokens, !.pool = g, !.todo = all]
<1>1. /\ y \in Actor /\ y.at = "pool" /\ Hands(p) /\ y.copy \in Tokens /\ y.pool = 0 /\ y.done = {}
      BY Holder DEF GetOrCreatePool, Hands, Actor
<1>2. shared.current \in Pools /\ free \in Unused
  <2>1. shared.current \in Pools BY Holder DEF Shared
  <2> QED BY <1>1, <2>1, PoolToBuild
<1> HIDE DEF free
<1>3. /\ pools' = IF old THEN [pools EXCEPT ![g] = y.copy] ELSE pools
      /\ shared' = IF old THEN [current |-> g, stale |-> FALSE, built |-> y.copy] ELSE shared
      /\ filed' = filed /\ newest' = newest /\ reached' = reached /\ left' = left
      BY DEF GetOrCreatePool, free
<1>4. g \in Pools /\ g \in Nat BY <1>2, HolderFacts DEF Unused
<1>5. to \in {"select", "scan"} /\ all \in SUBSET Accounts OBVIOUS
<1>6. old => \A q \in TokenHolders : actor[q].pool # g BY <1>2 DEF Unused
<1>7. to = "select" => p \in Forwards OBVIOUS
<1>8. actor' = [actor EXCEPT ![p] = x]
  <2>1. actor' = [actor EXCEPT ![p].at = to, ![p].copy = FirstTokens, ![p].pool = g, ![p].todo = all]
        BY DEF GetOrCreatePool, free
  <2> HIDE DEF g, to, all
  <2> QED BY <2>1
<1> HIDE DEF g, to, all
<1>9. /\ x \in Actor /\ x.at = to /\ x.pool = g /\ x.copy = FirstTokens
      BY <1>1, <1>4, <1>5, HolderFacts DEF Actor, Stages
<1> HIDE DEF x
<1>10. actor'[p] = x BY <1>8, Holder
<1>11. pools' \in [Pools -> Tokens] /\ shared' \in Shared
  <2> HIDE DEF old, y
  <2>1. CASE old BY <1>1, <1>3, <1>4, <2>1, Holder DEF Shared
  <2>2. CASE ~old BY <1>3, <2>2, Holder
  <2> QED BY <2>1, <2>2
<1>12. Hands(p)' BY <1>4, <1>5, <1>7, <1>9, <1>10 DEF Hands
<1>13. \A a \in Accounts : Known(filed'[a], a) /\ Known(x.copy[a], a)
       BY <1>3, <1>9 DEF Known, FirstTokens
<1>14. ASSUME NEW a \in Accounts, NEW h \in Pools PROVE Known(pools'[h][a], a)
  <2>1. pools'[h] \in {pools[h], y.copy}
    <3> HIDE DEF old, y
    <3> QED BY <1>3, <1>4, Holder
  <2> QED BY <2>1 DEF Known
<1>15. ASSUME NEW q \in TokenHolders \ {p}, actor[q].at \notin {"idle", "pool"}
       PROVE  pools'[actor[q].pool] = pools[actor[q].pool]
  <2>1. actor[q].pool \in Pools BY <1>15, Holder DEF Hands
  <2> HIDE DEF old, y
  <2> QED BY <1>3, <1>4, <1>6, <2>1, Holder
<1>16. \A a \in Accounts : ~Brings(p, a) BY <1>1 DEF Brings
<1>17. Left \subseteq Left' BY <1>3 DEF Left
<1>18. \A a \in Accounts : reached'[a] \in {reached[a], filed'[a]} /\ reached[a] <= reached'[a]
       BY <1>3, Holder DEF Tokens
<1>19. /\ filed' \in Tokens /\ reached' \in Tokens /\ left' \in Lost BY <1>3, Holder
<1>20. x.at # "store" /\ x.at \notin {"ask", "get", "save"} BY <1>5, <1>9
<1> QED BY <1>3, <1>8, <1>9, <1>11, <1>12, <1>13, <1>14, <1>15, <1>16, <1>17, <1>18, <1>19, <1>20,
       SpreadsKnown

LEMMA RestsOK ==
  ASSUME TokensInv, NEW p \in TokenHolders, Rests(p),
         UNCHANGED <<filed, newest, pools, shared, reached>>, left' \in Lost, Left \subseteq Left',
         \A a \in Accounts \ Left' : ~Brings(p, a)
  PROVE  TokensInv'
<1>1. actor' = [actor EXCEPT ![p] = AtRest] /\ AtRest \in Actor BY HolderFacts DEF Rests
<1>2. actor'[p] = AtRest BY <1>1, Holder
<1>3. Hands(p)' BY <1>2 DEF Hands, AtRest
<1>4. \A a \in Accounts : Known(AtRest.copy[a], a) BY DEF Known, AtRest, FirstTokens
<1>5. AtRest.at = "idle" BY DEF AtRest
<1> QED BY <1>1, <1>3, <1>4, <1>5, ActorMoves

\* A request that has written what it had goes on.
LEMMA GoesOn ==
  ASSUME TokensInv, NEW p \in TokenHolders, NEW x \in Actor, actor' = [actor EXCEPT ![p] = x],
         actor[p].at \in {"select", "sent"}, x.at \in {"select", "ask", "sync"},
         x.copy = actor[p].copy, x.pool = actor[p].pool,
         x.at = "select" \/ x.acc \in Accounts,
         x.at = "ask" => x.token = pools[x.pool][x.acc],
         UNCHANGED <<filed, newest, pools, shared, reached, left>>
  PROVE  TokensInv'
<1>1. actor[p] \in Actor /\ Hands(p) /\ actor[p].pool \in Pools /\ p \in Forwards /\ p \notin Workers
      BY Holder, HolderFacts DEF Hands
<1>2. actor'[p] = x BY Holder
<1>3. Hands(p)' BY <1>1, <1>2 DEF Hands
<1>4. \A a \in Accounts : Known(x.copy[a], a) BY DEF Known
<1>5. x.at = "ask" => Known(x.token, x.acc) BY <1>1 DEF Known
<1>6. \A a \in Accounts : ~Brings(p, a) BY <1>1 DEF Brings
<1>7. Left \subseteq Left' /\ left' \in Lost BY Holder DEF Left
<1> QED BY <1>3, <1>4, <1>5, <1>6, <1>7, ActorMoves

LEMMA SelectNextOK ==
  ASSUME TokensInv, NEW p \in TokenHolders, SelectNext(p) PROVE TokensInv'
<1>1. /\ p \in Forwards /\ p \notin Workers /\ actor[p].at = "select" /\ actor[p] \in Actor
      /\ Hands(p) /\ pools \in [Pools -> Tokens] /\ left \in Lost
      /\ UNCHANGED <<filed, newest, pools, shared, reached, left>>
      BY Holder, HolderFacts DEF SelectNext
<1>2. CASE Rests(p)
  <2>1. \A a \in Accounts : ~Brings(p, a) BY <1>1 DEF Brings
  <2>2. Left \subseteq Left' BY <1>1 DEF Left
  <2> QED BY <1>1, <1>2, <2>1, <2>2, RestsOK
<1>3. ASSUME NEW a \in Accounts,
             actor' = [actor EXCEPT ![p].at = "sync", ![p].acc = a, ![p].after401 = FALSE]
      PROVE  TokensInv'
  <2> DEFINE x == [actor[p] EXCEPT !.at = "sync", !.acc = a, !.after401 = FALSE]
  <2>1. /\ x \in Actor /\ x.at = "sync" /\ x.acc = a /\ x.pool = actor[p].pool
        /\ x.copy = actor[p].copy
        BY <1>1 DEF Actor, Stages
  <2>2. actor' = [actor EXCEPT ![p] = x] BY <1>3
  <2> HIDE DEF x
  <2> QED BY <1>1, <2>1, <2>2, GoesOn
<1>4. ASSUME NEW a \in Accounts,
             actor' = [actor EXCEPT ![p].at = "ask", ![p].acc = a, ![p].after401 = FALSE,
                                    ![p].token = pools[actor[p].pool][a]]
      PROVE  TokensInv'
  <2> DEFINE t == pools[actor[p].pool][a]
             x == [actor[p] EXCEPT !.at = "ask", !.acc = a, !.after401 = FALSE, !.token = t]
  <2>1. t \in Nat BY <1>1 DEF Hands, Tokens
  <2> HIDE DEF t
  <2>2. /\ x \in Actor /\ x.at = "ask" /\ x.acc = a /\ x.pool = actor[p].pool /\ x.token = t
        /\ x.copy = actor[p].copy
        BY <1>1, <2>1 DEF Actor, Stages
  <2>3. actor' = [actor EXCEPT ![p] = x] BY <1>4 DEF t
  <2> HIDE DEF x
  <2>4. x.token = pools[x.pool][x.acc] BY <2>2 DEF t
  <2> QED BY <1>1, <2>2, <2>3, <2>4, GoesOn
<1> QED BY <1>2, <1>3, <1>4 DEF SelectNext

LEMMA AnsweredOK ==
  ASSUME TokensInv, NEW p \in TokenHolders, Answered(p) PROVE TokensInv'
<1>1. /\ actor[p].at = "sent" /\ actor[p] \in Actor /\ p \notin Workers /\ actor[p].acc \in Accounts
      /\ Hands(p) /\ pools \in [Pools -> Tokens] /\ left \in Lost
      /\ UNCHANGED <<filed, newest, pools, shared, reached, left>>
      BY Holder, HolderFacts DEF Answered, Hands
<1>2. CASE Rests(p)
  <2>1. \A a \in Accounts : ~Brings(p, a) BY <1>1 DEF Brings
  <2>2. Left \subseteq Left' BY <1>1 DEF Left
  <2> QED BY <1>1, <1>2, <2>1, <2>2, RestsOK
<1>3. CASE actor' = [actor EXCEPT ![p].at = "select", ![p].done = @ \cup {actor[p].acc}]
  <2> DEFINE x == [actor[p] EXCEPT !.at = "select", !.done = @ \cup {actor[p].acc}]
  <2>1. x \in Actor /\ x.at = "select" /\ x.pool = actor[p].pool /\ x.copy = actor[p].copy
        BY <1>1 DEF Actor, Stages
  <2>2. actor' = [actor EXCEPT ![p] = x] BY <1>3
  <2> HIDE DEF x
  <2> QED BY <1>1, <2>1, <2>2, GoesOn
<1>4. CASE actor' = [actor EXCEPT ![p].at = "ask", ![p].token = InPool(p), ![p].after401 = TRUE]
  <2> DEFINE x == [actor[p] EXCEPT !.at = "ask", !.token = InPool(p), !.after401 = TRUE]
  <2>1. InPool(p) \in Nat BY <1>1 DEF Hands, InPool, Tokens
  <2>2. /\ x \in Actor /\ x.at = "ask" /\ x.token = InPool(p) /\ x.acc = actor[p].acc
        /\ x.pool = actor[p].pool /\ x.copy = actor[p].copy
        BY <1>1, <2>1 DEF Actor, Stages
  <2>3. actor' = [actor EXCEPT ![p] = x] BY <1>4
  <2> HIDE DEF x
  <2>4. x.token = pools[x.pool][x.acc] BY <2>2 DEF InPool
  <2> QED BY <1>1, <2>2, <2>3, <2>4, GoesOn
<1> QED BY <1>2, <1>3, <1>4 DEF Answered

LEMMA RefreshFailsOK ==
  ASSUME TokensInv, NEW p \in TokenHolders, RefreshFails(p) PROVE TokensInv'
<1> DEFINE y == actor[p]
           w == [y EXCEPT !.at = "scan", !.token = 0, !.error = TRUE]
           s == [y EXCEPT !.at = "select", !.token = 0, !.done = @ \cup {y.acc}]
           c == [y EXCEPT !.at = "sync", !.token = 0]
<1>1. /\ y \in Actor /\ y.at = "ask" /\ Hands(p) /\ y.acc \in Accounts /\ y.pool \in Pools
      /\ left \in Lost /\ (p \in Workers <=> p \notin Forwards)
      /\ UNCHANGED <<filed, newest, pools, shared, reached, left>>
      BY Holder, HolderFacts DEF RefreshFails, Hands
<1>2. /\ w \in Actor /\ w.at = "scan" /\ w.copy = y.copy /\ w.pool = y.pool /\ w.done = y.done
      /\ s \in Actor /\ s.at = "select" /\ s.copy = y.copy /\ s.pool = y.pool
      /\ c \in Actor /\ c.at = "sync" /\ c.copy = y.copy /\ c.pool = y.pool /\ c.acc = y.acc
      BY <1>1 DEF Actor, Stages
<1>3. /\ p \in Workers => actor' = [actor EXCEPT ![p] = w]
      /\ p \notin Workers => \/ actor' = [actor EXCEPT ![p] = s]
                             \/ actor' = [actor EXCEPT ![p] = c]
      BY DEF RefreshFails
<1> HIDE DEF w, s, c
<1>4. \A a \in Accounts : Known(y.copy[a], a) BY DEF Known
<1>5. Left \subseteq Left' BY <1>1 DEF Left
<1>6. CASE p \in Workers
  <2>1. actor'[p] = w BY <1>3, <1>6, Holder
  <2>2. Hands(p)' BY <1>1, <1>2, <2>1 DEF Hands
  <2>3. \A a \in Accounts : Brings(p, a) => Brings(p, a)' BY <1>1, <1>2, <2>1 DEF Brings
  <2> QED BY <1>1, <1>2, <1>3, <1>4, <1>5, <1>6, <2>2, <2>3, ActorMoves
<1>7. CASE p \notin Workers
  <2>1. \A a \in Accounts : ~Brings(p, a) BY <1>1, <1>7 DEF Brings
  <2>2. CASE actor' = [actor EXCEPT ![p] = s]
    <3>1. actor'[p] = s BY <2>2, Holder
    <3>2. Hands(p)' BY <1>1, <1>2, <1>7, <3>1 DEF Hands
    <3> QED BY <1>1, <1>2, <1>4, <1>5, <2>1, <2>2, <3>2, ActorMoves
  <2>3. CASE actor' = [actor EXCEPT ![p] = c]
    <3>1. actor'[p] = c BY <2>3, Holder
    <3>2. Hands(p)' BY <1>1, <1>2, <3>1 DEF Hands
    <3> QED BY <1>1, <1>2, <1>4, <1>5, <2>1, <2>3, <3>2, ActorMoves
  <2> QED BY <1>3, <1>7, <2>2, <2>3
<1> QED BY <1>6, <1>7

LEMMA ScanOK ==
  ASSUME TokensInv, NEW p \in TokenHolders, Scan(p) PROVE TokensInv'
<1> DEFINE y == actor[p]
<1>1. /\ y \in Actor /\ y.at = "scan" /\ Hands(p) /\ y.pool \in Pools /\ p \in Workers
      /\ left \in Lost /\ pools \in [Pools -> Tokens] /\ y.done \subseteq Accounts
      /\ UNCHANGED <<filed, newest, pools, shared, reached>>
      BY Holder DEF Scan, Hands, Actor
<1>2. \A a \in Accounts : Known(y.copy[a], a) BY DEF Known
<1>3. \A a \in Accounts : Brings(p, a) => a \in y.done BY <1>1 DEF Brings
<1>4. CASE Rests(p) /\ left' = [left EXCEPT !.byTick = @ \cup y.done]
  <2>1. left' \in Lost /\ left'.bySave = left.bySave /\ left'.byTick = left.byTick \cup y.done
        BY <1>1, <1>4 DEF Lost
  <2>2. Left \subseteq Left' /\ y.done \subseteq Left' BY <2>1 DEF Left
  <2> QED BY <1>1, <1>3, <1>4, <2>1, <2>2, RestsOK
<1>5. ASSUME NEW x \in Actor, actor' = [actor EXCEPT ![p] = x], x.at \in {"scan", "ask", "sync next"},
             x.copy = y.copy, x.pool = y.pool, x.done = y.done,
             x.at = "ask" => x.acc \in Accounts /\ x.token = pools[y.pool][x.acc], left' = left
      PROVE  TokensInv'
  <2>1. actor'[p] = x BY <1>5, Holder
  <2>2. Hands(p)' BY <1>1, <1>5, <2>1, HolderFacts DEF Hands
  <2>3. \A a \in Accounts : Brings(p, a) => Brings(p, a)' BY <1>1, <1>5, <2>1 DEF Brings
  <2>4. x.at = "ask" => Known(x.token, x.acc) BY <1>1, <1>5 DEF Known
  <2>5. Left \subseteq Left' /\ left' \in Lost BY <1>1, <1>5 DEF Left
  <2> QED BY <1>1, <1>2, <1>5, <2>2, <2>3, <2>4, <2>5, ActorMoves
<1>6. CASE Goes(p, "sync next") /\ left' = left
  <2> DEFINE x == [y EXCEPT !.at = "sync next"]
  <2>1. /\ x \in Actor /\ x.at = "sync next" /\ x.copy = y.copy /\ x.pool = y.pool
        /\ x.done = y.done
        BY <1>1 DEF Actor, Stages
  <2>2. actor' = [actor EXCEPT ![p] = x] BY <1>6 DEF Goes
  <2> HIDE DEF x
  <2> QED BY <1>5, <1>6, <2>1, <2>2
<1>7. ASSUME NEW a \in y.todo, left' = left, actor' = [actor EXCEPT ![p].todo = @ \ {a}]
      PROVE  TokensInv'
  <2> DEFINE x == [y EXCEPT !.todo = @ \ {a}]
  <2>1. x \in Actor /\ x.at = "scan" /\ x.copy = y.copy /\ x.pool = y.pool /\ x.done = y.done
        BY <1>1 DEF Actor, Stages
  <2>2. actor' = [actor EXCEPT ![p] = x] BY <1>7
  <2> HIDE DEF x
  <2> QED BY <1>5, <1>7, <2>1, <2>2
<1>8. ASSUME NEW a \in y.todo, left' = left,
             actor' = [actor EXCEPT ![p].todo = @ \ {a}, ![p].at = "ask", ![p].acc = a,
                                    ![p].token = pools[actor[p].pool][a]]
      PROVE  TokensInv'
  <2> DEFINE t == pools[actor[p].pool][a]
             x == [y EXCEPT !.todo = @ \ {a}, !.at = "ask", !.acc = a, !.token = t]
  <2>1. a \in Accounts BY <1>1 DEF Actor
  <2>2. t \in Nat BY <1>1, <2>1 DEF Tokens
  <2> HIDE DEF t
  <2>3. /\ x \in Actor /\ x.at = "ask" /\ x.copy = y.copy /\ x.pool = y.pool /\ x.done = y.done
        /\ x.acc = a /\ x.token = t
        BY <1>1, <2>1, <2>2 DEF Actor, Stages
  <2>4. actor' = [actor EXCEPT ![p] = x] BY <1>8 DEF t
  <2> HIDE DEF x
  <2>5. x.token = pools[y.pool][x.acc] BY <2>3 DEF t
  <2> QED BY <1>5, <1>8, <2>1, <2>3, <2>4, <2>5
<1> QED BY <1>4, <1>6, <1>7, <1>8 DEF Scan

LEMMA SyncNextOK ==
  ASSUME TokensInv, NEW p \in TokenHolders, SyncNext(p) PROVE TokensInv'
<1> DEFINE y == actor[p]
<1>1. /\ y \in Actor /\ y.at = "sync next" /\ Hands(p) /\ y.pool \in Pools /\ left \in Lost
      /\ y.done \subseteq Accounts
      /\ UNCHANGED <<filed, newest, pools, shared, reached, left>>
      BY Holder DEF SyncNext, Hands, Actor
<1>2. Left \subseteq Left' BY <1>1 DEF Left
<1>3. CASE y.done = {} /\ Rests(p)
  <2>1. \A a \in Accounts : ~Brings(p, a) BY <1>1, <1>3 DEF Brings
  <2> QED BY <1>1, <1>2, <1>3, <2>1, RestsOK
<1>4. ASSUME NEW b \in y.done,
             actor' = [actor EXCEPT ![p].at = "sync", ![p].acc = b, ![p].done = @ \ {b}]
      PROVE  TokensInv'
  <2> DEFINE x == [y EXCEPT !.at = "sync", !.acc = b, !.done = @ \ {b}]
  <2>1. /\ x \in Actor /\ x.at = "sync" /\ x.acc = b /\ x.copy = y.copy /\ x.pool = y.pool
        /\ x.done = y.done \ {b}
        BY <1>1 DEF Actor, Stages
  <2>2. actor' = [actor EXCEPT ![p] = x] BY <1>4
  <2> HIDE DEF x
  <2>3. actor'[p] = x BY <2>2, Holder
  <2>4. Hands(p)' BY <1>1, <2>1, <2>3 DEF Hands
  <2>5. \A a \in Accounts : Brings(p, a) => Brings(p, a)' BY <1>1, <2>1, <2>3 DEF Brings
  <2>6. \A a \in Accounts : Known(x.copy[a], a) BY <2>1 DEF Known
  <2> QED BY <1>1, <1>2, <2>1, <2>2, <2>4, <2>5, <2>6, ActorMoves
<1> QED BY <1>3, <1>4 DEF SyncNext

LEMMA ReadTokenOK ==
  ASSUME TokensInv, NEW p \in TokenHolders, ReadToken(p) PROVE TokensInv'
<1> DEFINE y == actor[p]
           x == [y EXCEPT !.at = "get", !.token = InPool(p)]
<1>1. /\ y \in Actor /\ y.at = "sync" /\ Hands(p) /\ y.pool \in Pools /\ y.acc \in Accounts
      /\ left \in Lost /\ pools \in [Pools -> Tokens]
      /\ UNCHANGED <<filed, newest, pools, shared, reached, left>>
      BY Holder DEF ReadToken, Hands
<1>2. InPool(p) = pools[y.pool][y.acc] /\ InPool(p) \in Nat BY <1>1 DEF InPool, Tokens
<1>3. /\ x \in Actor /\ x.at = "get" /\ x.token = InPool(p) /\ x.acc = y.acc /\ x.copy = y.copy
      /\ x.pool = y.pool /\ x.done = y.done
      BY <1>1, <1>2 DEF Actor, Stages
<1>4. actor' = [actor EXCEPT ![p] = x] BY DEF ReadToken
<1> HIDE DEF x
<1>5. actor'[p] = x BY <1>4, Holder
<1>6. Hands(p)' BY <1>1, <1>3, <1>5 DEF Hands
<1>7. \A a \in Accounts : Brings(p, a) => Brings(p, a)' BY <1>1, <1>2, <1>3, <1>5 DEF Brings
<1>8. Known(x.token, x.acc) BY <1>1, <1>2, <1>3 DEF Known
<1>9. \A a \in Accounts : Known(x.copy[a], a) BY <1>3 DEF Known
<1>10. Left \subseteq Left' BY <1>1 DEF Left
<1> QED BY <1>1, <1>3, <1>4, <1>6, <1>7, <1>8, <1>9, <1>10, ActorMoves

LEMMA ReadConfigOK ==
  ASSUME TokensInv, NEW p \in TokenHolders, ReadConfig(p) PROVE TokensInv'
<1> DEFINE y == actor[p]
           x == [y EXCEPT !.at = "save", !.copy = filed]
<1>1. /\ y \in Actor /\ y.at = "get" /\ Hands(p) /\ y.pool \in Pools /\ y.acc \in Accounts
      /\ left \in Lost /\ filed \in Tokens
      /\ UNCHANGED <<filed, newest, pools, shared, reached, left>>
      BY Holder DEF ReadConfig, Hands
<1>2. /\ x \in Actor /\ x.at = "save" /\ x.token = y.token /\ x.acc = y.acc /\ x.copy = filed
      /\ x.pool = y.pool /\ x.done = y.done
      BY <1>1 DEF Actor, Stages
<1>3. actor' = [actor EXCEPT ![p] = x] BY DEF ReadConfig
<1> HIDE DEF x
<1>4. actor'[p] = x BY <1>3, Holder
<1>5. Hands(p)' BY <1>1, <1>2, <1>4 DEF Hands
<1>6. \A a \in Accounts : Brings(p, a) => Brings(p, a)' BY <1>1, <1>2, <1>4 DEF Brings
<1>7. Known(x.token, x.acc) BY <1>1, <1>2 DEF Known
<1>8. \A a \in Accounts : Known(x.copy[a], a) BY <1>2 DEF Known
<1>9. Left \subseteq Left' BY <1>1 DEF Left
<1> QED BY <1>1, <1>2, <1>3, <1>5, <1>6, <1>7, <1>8, <1>9, ActorMoves

LEMMA SaveConfigOK ==
  ASSUME TokensInv, NEW p \in TokenHolders, SaveConfig(p) PROVE TokensInv'
<1> DEFINE y == actor[p]
           to == IF p \in Workers THEN "sync next" ELSE "sent"
           x == [y EXCEPT !.at = to, !.copy = FirstTokens, !.token = 0]
<1>1. /\ y \in Actor /\ y.at = "save" /\ Hands(p) /\ y.pool \in Pools /\ y.acc \in Accounts
      /\ y.copy \in Tokens /\ y.token \in Nat
      /\ left \in Lost /\ filed \in Tokens /\ reached \in Tokens /\ newest \in Tokens
      /\ newest' = newest /\ pools' = pools /\ shared' = shared
      BY Holder DEF SaveConfig, Hands, Actor
<1>2. to \in {"sync next", "sent"} /\ (to = "sent" => p \in Forwards) BY HolderFacts
<1>3. actor' = [actor EXCEPT ![p] = x] BY DEF SaveConfig
<1> HIDE DEF to
<1>4. /\ x \in Actor /\ x.at = to /\ x.acc = y.acc /\ x.copy = FirstTokens /\ x.pool = y.pool
      /\ x.done = y.done
      BY <1>1, <1>2, HolderFacts DEF Actor, Stages
<1> HIDE DEF x
<1>5. actor'[p] = x BY <1>3, Holder
<1>6. Hands(p)' BY <1>1, <1>2, <1>4, <1>5 DEF Hands
<1>7. \A a \in Accounts : Known(x.copy[a], a) BY <1>4 DEF Known, FirstTokens
<1>8. \A a \in Accounts : Brings(p, a) => Brings(p, a)' \/ (a = y.acc /\ y.token = newest[a])
      BY <1>1, <1>2, <1>4, <1>5 DEF Brings
<1>9. CASE /\ filed' = [y.copy EXCEPT ![y.acc] = y.token]
           /\ reached' = [a \in Accounts |-> IF filed'[a] > reached[a] THEN filed'[a] ELSE reached[a]]
           /\ UNCHANGED left
  <2>1. /\ filed' \in Tokens /\ filed'[y.acc] = y.token
        /\ \A a \in Accounts : a # y.acc => filed'[a] = y.copy[a]
        BY <1>1, <1>9 DEF Tokens
  <2>2. \A a \in Accounts : filed'[a] \in Nat /\ reached[a] \in Nat BY <1>1, <2>1 DEF Tokens
  <2>3. /\ reached' \in Tokens
        /\ \A a \in Accounts : reached'[a] \in {reached[a], filed'[a]} /\ reached[a] <= reached'[a]
                               /\ filed'[a] <= reached'[a]
        BY <1>9, <2>2 DEF Tokens
  <2>4. \A a \in Accounts : Known(filed'[a], a) BY <1>1, <2>1 DEF Known
  <2>5. \A a \in Accounts : reached'[a] <= newest[a]
    <3> SUFFICES ASSUME NEW a \in Accounts PROVE reached'[a] <= newest[a] OBVIOUS
    <3>1. reached[a] <= newest[a] /\ filed'[a] <= newest[a] BY <2>2, <2>4 DEF TokensInv, Given
    <3> QED BY <2>3, <3>1
  <2>6. \A a \in Accounts : Brings(p, a) => Brings(p, a)' \/ reached'[a] = newest[a]
    <3> SUFFICES ASSUME y.token = newest[y.acc] PROVE reached'[y.acc] = newest[y.acc] BY <1>1, <1>8
    <3>1. newest[y.acc] <= reached'[y.acc] /\ reached'[y.acc] <= newest[y.acc]
          BY <1>1, <2>1, <2>3, <2>5
    <3>2. newest[y.acc] \in Nat /\ reached'[y.acc] \in Nat BY <1>1, <2>3 DEF Tokens
    <3> QED BY <3>1, <3>2
  <2>7. \A a \in Accounts, g \in Pools : Known(pools'[g][a], a) BY <1>1 DEF Known
  <2>8. Left \subseteq Left' /\ left' \in Lost BY <1>1, <1>9 DEF Left
  <2>9. pools' \in [Pools -> Tokens] /\ shared' \in Shared BY <1>1, Holder
  <2> QED BY <1>1, <1>2, <1>3, <1>4, <1>6, <1>7, <2>1, <2>3, <2>4, <2>6, <2>7, <2>8, <2>9,
         SpreadsKnown
<1>10. CASE left' = [left EXCEPT !.bySave = @ \cup {y.acc}] /\ UNCHANGED <<filed, reached>>
  <2>1. /\ left' \in Lost /\ left'.bySave = left.bySave \cup {y.acc} /\ left'.byTick = left.byTick
        BY <1>1, <1>10 DEF Lost
  <2>2. Left \subseteq Left' /\ y.acc \in Left' BY <2>1 DEF Left
  <2>3. \A a \in Accounts \ Left' : Brings(p, a) => Brings(p, a)' BY <1>8, <2>2
  <2>4. UNCHANGED <<filed, newest, pools, shared, reached>> BY <1>1, <1>10
  <2> QED BY <1>2, <1>3, <1>4, <1>6, <1>7, <2>1, <2>2, <2>3, <2>4, ActorMoves
<1> QED BY <1>9, <1>10 DEF SaveConfig

\* A new token: nobody else has it, and no other token of its account is on its way
\* into a pool.
LEMMA AskRefreshOK ==
  ASSUME TokensInv, NEW p \in TokenHolders, AskRefresh(p) PROVE TokensInv'
<1> DEFINE y == actor[p]
           b == y.acc
           t == y.token + 1
           x == [y EXCEPT !.at = "store", !.token = t]
<1>1. /\ y \in Actor /\ y.at = "ask" /\ Hands(p) /\ y.pool \in Pools /\ b \in Accounts
      /\ y.token = newest[b] /\ y.token \in Nat /\ newest \in Tokens /\ reached \in Tokens
      /\ newest' = [newest EXCEPT ![b] = @ + 1]
      /\ filed' = filed /\ pools' = pools /\ shared' = shared /\ reached' = reached /\ left' = left
      BY Holder DEF AskRefresh, Hands, Actor
<1>2. t \in Nat /\ t = newest[b] + 1 BY <1>1
<1>3. actor' = [actor EXCEPT ![p] = x] BY DEF AskRefresh
<1>4. /\ newest' \in Tokens /\ newest'[b] = t
      /\ \A a \in Accounts : a # b => newest'[a] = newest[a]
      BY <1>1, <1>2 DEF Tokens
<1> HIDE DEF t
<1>5. /\ x \in Actor /\ x.at = "store" /\ x.token = t /\ x.acc = b /\ x.copy = y.copy
      /\ x.pool = y.pool /\ x.done = y.done
      BY <1>1, <1>2 DEF Actor, Stages
<1> HIDE DEF x
<1>6. /\ actor'[p] = x /\ \A q \in TokenHolders \ {p} : actor'[q] = actor[q]
      /\ actor' \in [TokenHolders -> Actor]
      BY <1>3, <1>5, Holder
<1>7. TokensTypeOK' BY <1>1, <1>4, <1>6, Holder DEF TokensTypeOK
<1>8. \A q \in TokenHolders : Hands(q)'
  <2>1. Hands(p)' BY <1>1, <1>5, <1>6 DEF Hands
  <2>2. ASSUME NEW q \in TokenHolders \ {p} PROVE Hands(q)' BY <1>6, Holder DEF Hands, Pools
  <2> QED BY <2>1, <2>2
<1>9. \A a \in Accounts, n \in Nat : Known(n, a)' => Known(n, a)
      BY <1>1, <1>5, <1>6 DEF Known, Pools
<1>10. Known(newest[b], b) BY <1>1 DEF Known
<1>11. \A q \in TokenHolders : actor[q].at = "store" => actor[q].acc # b
  <2> SUFFICES ASSUME NEW q \in TokenHolders, actor[q].at = "store", actor[q].acc = b PROVE FALSE
      OBVIOUS
  <2>1. newest[b] \in Nat BY <1>1
  <2>2. newest[b] < newest[b] BY <1>10, <2>1 DEF TokensInv, FreshStored, Fresh
  <2> QED BY <2>1, <2>2
<1>12. ASSUME NEW a \in Accounts, NEW n \in Nat, Known(n, a)
       PROVE  n <= newest'[a] /\ (a = b => n < newest'[a])
  <2>1. n <= newest[a] /\ newest[a] \in Nat BY <1>1, <1>12 DEF TokensInv, Given, Tokens
  <2> QED BY <1>2, <1>4, <2>1
<1>13. Given'
  <2>1. \A a \in Accounts : reached[a] <= newest'[a]
    <3> SUFFICES ASSUME NEW a \in Accounts PROVE reached[a] <= newest'[a] OBVIOUS
    <3>1. reached[a] <= newest[a] /\ reached[a] \in Nat /\ newest[a] \in Nat
          BY <1>1 DEF TokensInv, Given, Tokens
    <3> QED BY <1>2, <1>4, <3>1
  <2> QED BY <1>1, <1>9, <1>12, <2>1 DEF Given
<1>14. FreshStored'
  <2> SUFFICES ASSUME NEW q \in TokenHolders, actor'[q].at = "store" PROVE Fresh(q)'
      BY DEF FreshStored
  <2>1. CASE q = p
    <3>1. \A n \in Nat : Known(n, actor[q].acc)' => n < newest'[actor'[q].acc]
          BY <1>1, <1>5, <1>6, <1>9, <1>12, <2>1
    <3>2. \A r \in TokenHolders : actor'[r].at = "store" /\ actor'[r].acc = actor'[q].acc => r = q
          BY <1>5, <1>6, <1>11, <2>1
    <3> QED BY <1>4, <1>5, <1>6, <2>1, <3>1, <3>2 DEF Fresh
  <2>2. CASE q # p
    <3>1. /\ actor'[q] = actor[q] /\ actor[q].acc \in Accounts /\ actor[q].acc # b /\ Fresh(q)
          BY <1>6, <1>11, <2>2, Holder DEF Hands, TokensInv, FreshStored
    <3>2. \A n \in Nat : Known(n, actor[q].acc) => n < newest[actor[q].acc] BY <3>1 DEF Fresh
    <3>3. \A n \in Nat : Known(n, actor[q].acc)' => n < newest'[actor'[q].acc]
          BY <1>4, <1>9, <3>1, <3>2
    <3>4. \A r \in TokenHolders : actor'[r].at = "store" /\ actor'[r].acc = actor'[q].acc => r = q
          BY <1>5, <1>6, <3>1 DEF Fresh
    <3> QED BY <1>4, <3>1, <3>3, <3>4 DEF Fresh
  <2> QED BY <2>1, <2>2
<1>15. GivenIsFiled'
  <2> SUFFICES ASSUME NEW a \in Accounts, a \notin Left'
               PROVE  reached'[a] = newest'[a] \/ \E q \in TokenHolders : Brings(q, a)'
      BY DEF GivenIsFiled
  <2>1. CASE a = b
    <3>1. Brings(p, a)' BY <1>4, <1>5, <1>6, <2>1 DEF Brings
    <3> QED BY <3>1
  <2>2. CASE a # b
    <3>1. a \notin Left BY <1>1 DEF Left
    <3>2. reached[a] = newest[a] \/ \E q \in TokenHolders : Brings(q, a)
          BY <3>1 DEF TokensInv, GivenIsFiled
    <3>3. ASSUME NEW q \in TokenHolders, Brings(q, a) PROVE Brings(q, a)'
      <4>1. CASE q = p BY <1>1, <1>4, <1>5, <1>6, <2>2, <3>3, <4>1 DEF Brings
      <4>2. CASE q # p BY <1>1, <1>4, <1>6, <2>2, <3>3, <4>2 DEF Brings
      <4> QED BY <4>1, <4>2
    <3> QED BY <1>1, <1>4, <2>2, <3>2, <3>3
  <2> QED BY <2>1, <2>2
<1> QED BY <1>7, <1>8, <1>13, <1>14, <1>15 DEF TokensInv

\* It replaces an older one in the pool, whoever works in it.
LEMMA StoreTokenOK ==
  ASSUME TokensInv, NEW p \in TokenHolders, StoreToken(p) PROVE TokensInv'
<1> DEFINE y == actor[p]
           b == y.acc
           w == [y EXCEPT !.at = "scan", !.token = 0, !.done = @ \cup {y.acc}]
           s == [y EXCEPT !.at = "sync", !.token = 0]
           x == IF p \in Workers THEN w ELSE s
<1>1. /\ y \in Actor /\ y.at = "store" /\ Hands(p) /\ y.pool \in Pools /\ b \in Accounts
      /\ y.token \in Nat /\ newest \in Tokens /\ reached \in Tokens /\ pools \in [Pools -> Tokens]
      /\ pools' = [pools EXCEPT ![y.pool][b] = y.token]
      /\ filed' = filed /\ newest' = newest /\ shared' = shared /\ reached' = reached /\ left' = left
      BY Holder DEF StoreToken, Hands, Actor
<1>2. y.token = newest[b] /\ Fresh(p) BY <1>1 DEF TokensInv, FreshStored, Fresh
<1>3. /\ w \in Actor /\ w.at = "scan" /\ w.done = y.done \cup {b} /\ w.pool = y.pool
      /\ w.copy = y.copy
      /\ s \in Actor /\ s.at = "sync" /\ s.acc = b /\ s.done = y.done /\ s.pool = y.pool
      /\ s.copy = y.copy
      BY <1>1 DEF Actor, Stages
<1>4. actor' = [actor EXCEPT ![p] = x] BY DEF StoreToken
<1> HIDE DEF w, s
<1>5. /\ x \in Actor /\ x.at \in {"scan", "sync"} /\ x.pool = y.pool /\ x.copy = y.copy
      /\ y.done \subseteq x.done
      /\ \/ x.at = "sync" /\ x.acc = b
         \/ p \in Workers /\ x.at = "scan" /\ b \in x.done
      BY <1>3
<1> HIDE DEF x
<1>6. /\ actor'[p] = x /\ \A q \in TokenHolders \ {p} : actor'[q] = actor[q]
      /\ actor' \in [TokenHolders -> Actor]
      BY <1>4, <1>5, Holder
<1>7. /\ pools' \in [Pools -> Tokens] /\ pools'[y.pool][b] = newest[b]
      /\ \A g \in Pools, a \in Accounts :
           pools'[g][a] = IF g = y.pool /\ a = b THEN newest[b] ELSE pools[g][a]
      BY <1>1, <1>2 DEF Tokens
<1>8. TokensTypeOK' BY <1>1, <1>6, <1>7, Holder DEF TokensTypeOK
<1>9. \A q \in TokenHolders : Hands(q)'
  <2>1. Hands(p)' BY <1>1, <1>5, <1>6 DEF Hands
  <2>2. ASSUME NEW q \in TokenHolders \ {p} PROVE Hands(q)' BY <1>6, Holder DEF Hands, Pools
  <2> QED BY <2>1, <2>2
<1>10. \A a \in Accounts, n \in Nat : Known(n, a)' => Known(n, a) \/ (a = b /\ n = newest[b])
  <2> SUFFICES ASSUME NEW a \in Accounts, NEW n \in Nat, Known(n, a)', ~(a = b /\ n = newest[b])
               PROVE  Known(n, a)
      OBVIOUS
  <2>1. CASE n = 1 \/ n = filed'[a] BY <1>1, <2>1 DEF Known
  <2>2. ASSUME NEW g \in Pools, n = pools'[g][a] PROVE Known(n, a)
        BY <1>7, <2>2 DEF Known
  <2>3. ASSUME NEW q \in TokenHolders,
               \/ n = actor'[q].copy[a]
               \/ actor'[q].at \in {"ask", "get", "save"} /\ actor'[q].acc = a /\ n = actor'[q].token
        PROVE  Known(n, a)
    <3>1. CASE q = p BY <1>5, <1>6, <2>3, <3>1 DEF Known
    <3>2. CASE q # p BY <1>6, <2>3, <3>2 DEF Known
    <3> QED BY <3>1, <3>2
  <2> QED BY <2>1, <2>2, <2>3 DEF Known, Pools
<1>11. Given' BY <1>1, <1>10 DEF TokensInv, Given, Tokens
<1>12. FreshStored'
  <2> SUFFICES ASSUME NEW q \in TokenHolders, actor'[q].at = "store" PROVE Fresh(q)'
      BY DEF FreshStored
  <2>1. q # p /\ actor'[q] = actor[q] /\ Fresh(q) /\ actor[q].acc \in Accounts
        BY <1>5, <1>6, Holder DEF TokensInv, FreshStored, Hands
  <2>2. actor[q].acc # b BY <1>1, <1>2, <1>6, <2>1 DEF Fresh
  <2>3. \A n \in Nat : Known(n, actor[q].acc) => n < newest[actor[q].acc] BY <2>1 DEF Fresh
  <2>4. \A n \in Nat : Known(n, actor[q].acc)' => n < newest'[actor'[q].acc]
        BY <1>1, <1>10, <2>1, <2>2, <2>3
  <2>5. \A r \in TokenHolders : actor'[r].at = "store" /\ actor'[r].acc = actor'[q].acc => r = q
        BY <1>5, <1>6, <2>1 DEF Fresh
  <2> QED BY <1>1, <2>1, <2>4, <2>5 DEF Fresh
<1>13. GivenIsFiled'
  <2> SUFFICES ASSUME NEW a \in Accounts, a \notin Left'
               PROVE  reached'[a] = newest'[a] \/ \E q \in TokenHolders : Brings(q, a)'
      BY DEF GivenIsFiled
  <2>1. reached[a] = newest[a] \/ \E q \in TokenHolders : Brings(q, a)
        BY <1>1 DEF TokensInv, GivenIsFiled, Left
  <2>2. ASSUME NEW q \in TokenHolders, Brings(q, a), q # p PROVE Brings(q, a)'
    <3>1. actor'[q] = actor[q] BY <1>6, <2>2
    <3>2. \A g \in Pools : pools[g][a] = newest[a] => pools'[g][a] = newest[a] BY <1>7
    <3>3. actor[q].at \notin {"idle", "pool"} => actor[q].pool \in Pools BY Holder DEF Hands
    <3>4. actor[q].at \notin {"idle", "pool"} BY <2>2, Holder DEF Brings, Hands
    <3> QED BY <1>1, <2>2, <3>1, <3>2, <3>3, <3>4 DEF Brings
  <2>3. CASE a = b
    <3>1. Brings(p, a)' BY <1>1, <1>5, <1>6, <1>7, <2>3 DEF Brings
    <3> QED BY <3>1
  <2>4. CASE Brings(p, a) /\ a # b
    <3>1. a \in y.done /\ p \in Workers /\ pools[y.pool][a] = newest[a] BY <1>1, <2>4 DEF Brings
    <3>2. pools'[y.pool][a] = newest[a] BY <1>1, <1>7, <2>4, <3>1
    <3> QED BY <1>1, <1>5, <1>6, <3>1, <3>2 DEF Brings
  <2> QED BY <1>1, <2>1, <2>2, <2>3, <2>4
<1> QED BY <1>8, <1>9, <1>11, <1>12, <1>13 DEF TokensInv

\* Nothing but the shared pool's mark: a save of the settings, or no step.
LEMMA MarkOnly ==
  ASSUME TokensInv, shared' \in Shared, UNCHANGED <<filed, newest, pools, actor, reached, left>>
  PROVE  TokensInv'
<1>1. TokensTypeOK' BY DEF TokensInv, TokensTypeOK
<1>2. \A q \in TokenHolders : Hands(q)' BY DEF TokensInv, Hands, Pools
<1>3. \A a \in Accounts, n \in Nat : Known(n, a)' <=> Known(n, a) BY DEF Known, Pools
<1>4. Given' BY <1>3 DEF TokensInv, Given
<1>5. FreshStored'
  <2> SUFFICES ASSUME NEW q \in TokenHolders, actor[q].at = "store" PROVE Fresh(q)'
      BY DEF FreshStored
  <2>1. Fresh(q) /\ actor[q].acc \in Accounts BY Holder DEF TokensInv, FreshStored, Hands
  <2>2. \A n \in Nat : Known(n, actor[q].acc)' => n < newest[actor[q].acc]
        BY <1>3, <2>1 DEF Fresh
  <2> QED BY <2>1, <2>2 DEF Fresh
<1>6. GivenIsFiled'
  <2>1. \A a \in Accounts, q \in TokenHolders : Brings(q, a) => Brings(q, a)' BY DEF Brings
  <2> QED BY <2>1 DEF TokensInv, GivenIsFiled, Left
<1> QED BY <1>1, <1>2, <1>4, <1>5, <1>6 DEF TokensInv

LEMMA TokensInitOK == TokensInit => TokensInv
<1> SUFFICES ASSUME TokensInit PROVE TokensInv OBVIOUS
<1>1. TokensTypeOK BY HolderFacts DEF TokensInit, TokensTypeOK, Shared, Lost
<1>2. \A p \in TokenHolders : actor[p] = AtRest BY DEF TokensInit
<1>3. \A p \in TokenHolders : Hands(p) BY <1>2 DEF Hands, AtRest
<1>4. Given
  <2>1. \A a \in Accounts, n \in Nat : Known(n, a) => n = 1
        BY <1>2 DEF TokensInit, Known, AtRest, FirstTokens
  <2> QED BY <2>1 DEF TokensInit, Given, FirstTokens
<1>5. FreshStored BY <1>2 DEF FreshStored, AtRest
<1>6. GivenIsFiled BY DEF TokensInit, GivenIsFiled
<1> QED BY <1>1, <1>3, <1>4, <1>5, <1>6 DEF TokensInv

LEMMA TokensStep == TokensInv /\ [TokensNext]_tokenVars => TokensInv'
<1> SUFFICES ASSUME TokensInv, [TokensNext]_tokenVars PROVE TokensInv' OBVIOUS
<1>1. ASSUME NEW p \in TokenHolders, RefresherStep(p) PROVE TokensInv'
      BY <1>1, TakeConfigOK, GetOrCreatePoolOK, SelectNextOK, AskRefreshOK, RefreshFailsOK,
         StoreTokenOK, ScanOK, SyncNextOK, ReadTokenOK, ReadConfigOK, SaveConfigOK, AnsweredOK
      DEF RefresherStep
<1>2. shared \in Shared BY DEF TokensInv, TokensTypeOK
<1>3. CASE SaveSettings
  <2>1. shared' \in Shared BY <1>2, <1>3 DEF SaveSettings, Shared
  <2> QED BY <1>3, <2>1, MarkOnly DEF SaveSettings
<1>4. CASE UNCHANGED tokenVars BY <1>2, <1>4, MarkOnly DEF tokenVars
<1> QED BY <1>1, <1>3, <1>4 DEF TokensNext

\* Whatever overlaps, the newest token of every account has been in config.json or
\* somebody at work is bringing it there, unless a save or a tick left it unsaved,
\* for any number of requests, workers, accounts and refreshes.
THEOREM TokensReachConfig == TokensSpec => []GivenIsFiled
<1>1. TokensInv => GivenIsFiled BY DEF TokensInv
<1> QED BY <1>1, TokensInitOK, TokensStep, PTL DEF TokensSpec
=============================================================================
