---------------------------- MODULE CCPool_proofs ----------------------------
(***************************************************************************)
(* Proofs about the Claude Code account pool, for any number of accounts,  *)
(* sessions, requests and generations of the pool; then about its locks,   *)
(* for any number of accounts and goroutines.                              *)
(***************************************************************************)
EXTENDS CCPool, CCPoolLocks, FiniteSetTheorems, SequenceTheorems, WellFoundedInduction, TLAPS

\* A closed window is inside a cooldown, in every slot.
Covered == \A k \in Slots : closed[k] <= cooldown[k]

\* A turn that has an account has an attempt left.
Trying ==
  \A r \in Requests :
    req[r].step \notin {"idle", "select"} => req[r].bump \/ req[r].tries < MaxAttempts

IInv == TypeOK /\ Trying /\ Covered

LEMMA GensFacts ==
  /\ MaxGen \in Nat /\ MaxGen >= 1 /\ 1 \in Gens
  /\ \A g \in Gens : g \in Nat
BY PoolAssumption DEF Gens

LEMMA SlotFacts ==
  ASSUME TypeOK, NEW r \in Requests, req[r].step \notin {"idle", "select"}
  PROVE  SlotOf(r) \in Slots
BY DEF TypeOK, SlotOf, Slots, Request

LEMMA LimitsFacts ==
  /\ NoLimits \in Limits /\ NoUnified \in Snapshot
  /\ now \in Nat => Headers \subseteq Limits
<1>1. NoUnified \in Snapshot /\ NoLimits \in Limits
  BY DEF NoLimits, NoUnified, Limits, Snapshot
<1>2. ASSUME now \in Nat, NEW d \in Delays
      PROVE  now + d \in Nat
  BY <1>2, PoolAssumption
<1>3. ASSUME now \in Nat, NEW d \in Delays, NEW b \in BOOLEAN
      PROVE  [obs |-> now, reset |-> now + d, rejected |-> b] \in Snapshot
  BY <1>2, <1>3 DEF Snapshot
<1>4. [u |-> NoUnified, busy |-> 1] \in Limits
  BY <1>1 DEF Limits
<1>5. ASSUME now \in Nat
      PROVE  [u : {NoUnified} \cup {[obs |-> now, reset |-> now + d, rejected |-> b] :
                                     d \in Delays, b \in BOOLEAN},
              busy : {0} \cup {now + d : d \in Delays}] \subseteq Limits
  BY <1>1, <1>2, <1>3, <1>5 DEF Limits
<1>. QED
  BY <1>1, <1>4, <1>5 DEF Headers

LEMMA StoredType ==
  ASSUME now \in Nat
  PROVE  Stored \subseteq Snapshot
<1>1. ASSUME NEW o \in 1..now, NEW d \in Delays, NEW b \in BOOLEAN
      PROVE  [obs |-> o, reset |-> o + d, rejected |-> b] \in Snapshot
  <2>1. o \in Nat /\ o + d \in Nat
    BY <1>1, PoolAssumption
  <2>. QED
    BY <1>1, <2>1 DEF Snapshot
<1>. QED
  BY <1>1, LimitsFacts DEF Stored

LEMMA NotedType ==
  ASSUME TypeOK, NEW k \in Slots, NEW lim \in Limits
  PROVE  Noted(k, lim) \in [Slots -> Limits]
<1>1. limits \in [Slots -> Limits] /\ limits[k] \in Limits
  BY DEF TypeOK
<1>2. limits[k].u \in Snapshot /\ lim.u \in Snapshot /\ lim.busy \in Nat
  BY <1>1 DEF Limits
<1>3. (IF lim.busy > now THEN lim.busy ELSE 0) \in Nat
  BY <1>2
<1>4. MergeRateLimits(limits[k], lim) \in Limits
  BY <1>2, <1>3 DEF MergeRateLimits, Limits
<1>. QED
  BY <1>1, <1>4 DEF Noted

\* A cooldown is never shortened.
LEMMA ExtendedFacts ==
  ASSUME TypeOK, NEW k \in Slots, NEW until \in Nat
  PROVE  /\ Extended(k, until) \in [Slots -> Nat]
         /\ \A l \in Slots : Extended(k, until)[l] >= cooldown[l]
         /\ live[k] => Extended(k, until)[k] >= until
<1>1. cooldown \in [Slots -> Nat] /\ Later(cooldown[k], until) \in Nat
  BY DEF TypeOK, Later
<1>2. Later(cooldown[k], until) >= cooldown[k] /\ Later(cooldown[k], until) >= until
  BY <1>1 DEF TypeOK, Later
<1>. QED
  BY <1>1, <1>2 DEF Extended

LEMMA ReleasedType ==
  ASSUME TypeOK, NEW k \in Slots
  PROVE  Released(k) \in [Slots -> Nat]
<1>1. inFlight \in [Slots -> Nat] /\ inFlight[k] \in Nat
  BY DEF TypeOK
<1>2. (inFlight[k] > 0 => inFlight[k] - 1 \in Nat)
  BY <1>1
<1>. QED
  BY <1>1, <1>2 DEF Released

LEMMA IdleFacts ==
  /\ Idle \in Request /\ Idle.step = "idle"
  /\ \A g \in Gens, t \in Sessions \cup {None} :
       LET q == [Idle EXCEPT !.step = "select", !.gen = g, !.sess = t]
       IN q \in Request /\ q.step = "select"
  /\ \A g \in Gens, a \in Accounts :
       LET q == [Idle EXCEPT !.step = "chosen", !.bump = TRUE, !.gen = g, !.acc = a]
       IN q \in Request /\ q.acc = a
<1>1. Idle \in Request /\ Idle.step = "idle"
  BY GensFacts, LimitsFacts, PoolAssumption DEF Idle, Request
<1>2. ASSUME NEW g \in Gens, NEW t \in Sessions \cup {None}
      PROVE  LET q == [Idle EXCEPT !.step = "select", !.gen = g, !.sess = t]
             IN q \in Request /\ q.step = "select"
  BY <1>1 DEF Request
<1>3. ASSUME NEW g \in Gens, NEW a \in Accounts
      PROVE  LET q == [Idle EXCEPT !.step = "chosen", !.bump = TRUE, !.gen = g, !.acc = a]
             IN q \in Request /\ q.acc = a
  BY <1>1 DEF Request
<1>. QED
  BY <1>1, <1>2, <1>3

\* One request changes to q, which is well formed; nothing else does.
LEMMA ReqType ==
  ASSUME TypeOK, NEW r \in Requests, NEW q \in Request,
         q.step \notin {"idle", "select"} => q.acc \in Accounts,
         req' = [req EXCEPT ![r] = q]
  PROVE  /\ req' \in [Requests -> Request]
         /\ \A x \in Requests : req'[x].step \notin {"idle", "select"} => req'[x].acc \in Accounts
BY DEF TypeOK

LEMMA StepReq ==
  ASSUME TypeOK, NEW r \in Requests, NEW st \in {"chosen", "sent", "stream", "copy"},
         req[r].step \notin {"idle", "select"},
         req' = [req EXCEPT ![r].step = st]
  PROVE  /\ req' \in [Requests -> Request]
         /\ \A x \in Requests : req'[x].step \notin {"idle", "select"} => req'[x].acc \in Accounts
<1>. DEFINE q == [req[r] EXCEPT !.step = st]
<1>1. q \in Request /\ q.acc \in Accounts
  BY ZenonT(30) DEF TypeOK, Request
<1>2. req' = [req EXCEPT ![r] = q]
  BY DEF TypeOK
<1>. QED
  BY <1>1, <1>2, ReqType

LEMMA FailOverReq ==
  ASSUME TypeOK, NEW r \in Requests, req[r].step \notin {"idle", "select"},
         req[r].bump \/ req[r].tries < MaxAttempts, FailOver(r)
  PROVE  /\ req' \in [Requests -> Request]
         /\ \A x \in Requests : req'[x].step \notin {"idle", "select"} => req'[x].acc \in Accounts
<1>. DEFINE p == req[r]
            q == [p EXCEPT !.step = "select", !.acc = None, !.tries = p.tries + 1,
                           !.excluded = p.excluded \cup {p.acc}]
<1>1. CASE p.bump
  <2>1. req' = [req EXCEPT ![r] = Idle]
    BY <1>1 DEF FailOver
  <2>. QED
    BY <2>1, IdleFacts, ReqType
<1>2. CASE ~p.bump
  <2>1. req' = [req EXCEPT ![r] = q]
    BY <1>2 DEF FailOver
  <2>2. p \in Request /\ p.acc \in Accounts /\ p.tries \in Nat
    BY DEF TypeOK, Request
  <2>3. p.tries + 1 \in 0..MaxAttempts
    BY <1>2, <2>2, PoolAssumption
  <2>4. q \in Request /\ q.step = "select"
    BY <2>2, <2>3 DEF Request
  <2>. QED
    BY <2>1, <2>4, ReqType
<1>. QED
  BY <1>1, <1>2

LEMMA FailOverShape ==
  ASSUME TypeOK, NEW r \in Requests, FailOver(r)
  PROVE  \E q : /\ req' = [req EXCEPT ![r] = q]
               /\ q.step \in {"idle", "select"} /\ q.gen \in {1, req[r].gen}
<1>. DEFINE p == req[r]
            f == [p EXCEPT !.step = "select", !.acc = None, !.tries = p.tries + 1,
                           !.excluded = p.excluded \cup {p.acc}]
<1>1. p \in Request
  BY DEF TypeOK
<1>2. CASE p.bump
  <2>1. req' = [req EXCEPT ![r] = Idle] /\ Idle.step = "idle" /\ Idle.gen = 1
    BY <1>2, IdleFacts DEF FailOver, Idle
  <2>. QED
    BY <2>1
<1>3. CASE ~p.bump
  <2>1. req' = [req EXCEPT ![r] = f] /\ f.step = "select" /\ f.gen = p.gen
    BY <1>1, <1>3 DEF FailOver, Request
  <2>. QED
    BY <2>1
<1>. QED
  BY <1>2, <1>3

LEMMA InitIInv == Init => IInv
<1>. SUFFICES ASSUME Init PROVE IInv
  OBVIOUS
<1>1. /\ live \in [Slots -> BOOLEAN] /\ enabled \in [Slots -> BOOLEAN]
      /\ inFlight \in [Slots -> Nat] /\ fails \in [Slots -> Nat] /\ cooldown \in [Slots -> Nat]
      /\ closed \in [Slots -> Nat]
  BY DEF Init
<1>8. limits \in [Slots -> Limits]
  <2>1. PICK U \in [Accounts -> Stored] :
          limits = [k \in Slots |-> [u |-> IF k[1] = 1 THEN U[k[2]] ELSE NoUnified, busy |-> 0]]
    BY DEF Init
  <2>2. Stored \subseteq Snapshot
    BY StoredType DEF Init
  <2>3. ASSUME NEW k \in Slots
        PROVE  [u |-> IF k[1] = 1 THEN U[k[2]] ELSE NoUnified, busy |-> 0] \in Limits
    <3>1. U[k[2]] \in Snapshot
      BY <2>2 DEF Slots
    <3>. QED
      BY <3>1, LimitsFacts DEF Limits
  <2>. QED
    BY <2>1, <2>3
<1>2. req \in [Requests -> Request] /\ \A r \in Requests : req[r].step = "idle"
  BY IdleFacts DEF Init
<1>3. /\ sticky \in [Gens -> [Sessions -> Accounts \cup {None}]]
      /\ stickyAt \in [Gens -> [Sessions -> Nat]]
  BY DEF Init
<1>4. now \in Nat \ {0} /\ current \in Gens /\ removed \subseteq Slots
  BY GensFacts DEF Init
<1>5. TypeOK
  BY <1>1, <1>2, <1>3, <1>4, <1>8 DEF TypeOK
<1>6. Trying
  BY <1>2 DEF Trying
<1>7. Covered
  BY DEF Init, Covered
<1>. QED
  BY <1>5, <1>6, <1>7 DEF IInv

LEMMA StartIInv ==
  ASSUME IInv, NEW r \in Requests,
         \/ \E s \in Sessions \cup {None} : Start(r, s)
         \/ \E a \in Accounts : StartBump(r, a)
         \/ GiveUp(r)
  PROVE  IInv'
<1>1. TypeOK /\ Trying /\ Covered
  BY DEF IInv
<1>2. /\ UNCHANGED <<now, current, slotVars, stickyVars, history>>
      /\ \E q \in Request : /\ req' = [req EXCEPT ![r] = q]
                            /\ q.step \notin {"idle", "select"} => q.acc \in Accounts /\ q.bump
  <2>1. ASSUME NEW t \in Sessions \cup {None}, Start(r, t)
        PROVE  \E q \in Request : /\ req' = [req EXCEPT ![r] = q]
                                  /\ q.step = "select"
    <3>. DEFINE q == [Idle EXCEPT !.step = "select", !.gen = current, !.sess = t]
    <3>1. q \in Request /\ q.step = "select"
      BY <1>1, IdleFacts DEF TypeOK
    <3>2. req' = [req EXCEPT ![r] = q]
      BY <2>1 DEF Start
    <3>. QED
      BY <3>1, <3>2
  <2>2. ASSUME NEW a \in Accounts, StartBump(r, a)
        PROVE  \E q \in Request : /\ req' = [req EXCEPT ![r] = q]
                                  /\ q.acc \in Accounts /\ q.bump
    <3>. DEFINE q == [Idle EXCEPT !.step = "chosen", !.bump = TRUE, !.gen = current, !.acc = a]
    <3>1. q \in Request /\ q.acc = a /\ q.bump
      BY <1>1, IdleFacts DEF TypeOK, Idle
    <3>2. req' = [req EXCEPT ![r] = q]
      BY <2>2 DEF StartBump
    <3>. QED
      BY <3>1, <3>2
  <2>3. CASE GiveUp(r)
    BY <2>3, IdleFacts DEF GiveUp
  <2>. QED
    BY <2>1, <2>2, <2>3 DEF Start, StartBump, GiveUp
<1>3. PICK q \in Request : /\ req' = [req EXCEPT ![r] = q]
                           /\ q.step \notin {"idle", "select"} => q.acc \in Accounts /\ q.bump
  BY <1>2
<1>4. TypeOK'
  BY <1>1, <1>2, <1>3, ReqType DEF TypeOK, slotVars, stickyVars, history
<1>5. Trying' /\ Covered'
  BY <1>1, <1>2, <1>3 DEF TypeOK, Trying, Covered, slotVars, history
<1>. QED
  BY <1>4, <1>5 DEF IInv

LEMMA SelectIInv ==
  ASSUME IInv, NEW r \in Requests, SelectAccount(r)
  PROVE  IInv'
<1>1. TypeOK /\ Trying /\ Covered
  BY DEF IInv
<1>. DEFINE g == req[r].gen
            s == req[r].sess
<1>2. g \in Gens /\ s \in Sessions \cup {None} /\ req[r] \in Request
  BY <1>1 DEF TypeOK, Request
<1>3. /\ UNCHANGED <<now, current, slotVars, history>> /\ req[r].tries < MaxAttempts
      /\ \E a \in Accounts : Chosen(r, a)
  BY DEF SelectAccount, StickyHit, Candidates, Ranked
<1>. DEFINE StickyType == /\ sticky' \in [Gens -> [Sessions -> Accounts \cup {None}]]
                          /\ stickyAt' \in [Gens -> [Sessions -> Nat]]
<1>4. StickyType
  <2>1. ASSUME s # None, stickyAt' = [stickyAt EXCEPT ![g][s] = now], UNCHANGED sticky
        PROVE  StickyType
    BY <1>1, <1>2, <2>1 DEF TypeOK
  <2>2. ASSUME NEW a \in Accounts, Stick(g, s, a)
        PROVE  StickyType
    <3>1. PICK E \in SUBSET Mapped(g) :
            /\ sticky' = [sticky EXCEPT ![g] =
                 [t \in Sessions |-> IF t = s THEN a ELSE IF t \in E THEN None ELSE sticky[g][t]]]
            /\ stickyAt' = [stickyAt EXCEPT ![g] =
                 [t \in Sessions |-> IF t = s THEN now ELSE IF t \in E THEN 0 ELSE stickyAt[g][t]]]
      BY <2>2 DEF Stick
    <3>2. sticky[g] \in [Sessions -> Accounts \cup {None}] /\ stickyAt[g] \in [Sessions -> Nat]
      BY <1>1, <1>2 DEF TypeOK
    <3>. QED
      BY <1>1, <1>2, <3>1, <3>2 DEF TypeOK
  <2>3. CASE UNCHANGED stickyVars
    BY <1>1, <2>3 DEF TypeOK, stickyVars
  <2>. QED
    BY <2>1, <2>2, <2>3 DEF SelectAccount, StickyHit, Ranked, Candidates
<1>5. PICK a \in Accounts : Chosen(r, a)
  BY <1>3
<1>. DEFINE q == [req[r] EXCEPT !.step = "chosen", !.acc = a]
<1>6. q \in Request /\ q.acc \in Accounts /\ q.tries < MaxAttempts
  BY <1>2, <1>3 DEF Request
<1>7. req' = [req EXCEPT ![r] = q]
  BY <1>5 DEF Chosen
<1>8. TypeOK'
  BY <1>1, <1>3, <1>4, <1>6, <1>7, ReqType DEF TypeOK, slotVars, history
<1>9. Trying' /\ Covered'
  BY <1>1, <1>3, <1>6, <1>7 DEF TypeOK, Trying, Covered, slotVars, history
<1>. QED
  BY <1>8, <1>9 DEF IInv

LEMMA FailedFacts ==
  ASSUME TypeOK, NEW k \in Slots, NEW b \in BOOLEAN, NEW until \in Nat, Failed(k, b, until)
  PROVE  /\ fails' \in [Slots -> Nat] /\ cooldown' \in [Slots -> Nat]
         /\ \A l \in Slots : cooldown'[l] >= cooldown[l]
<1>1. fails \in [Slots -> Nat] /\ cooldown \in [Slots -> Nat] /\ fails[k] + 1 \in Nat
  BY DEF TypeOK
<1>2. fails' \in [Slots -> Nat]
  BY <1>1 DEF Failed
<1>3. cooldown' = Extended(k, until) \/ cooldown' = cooldown
  BY DEF Failed
<1>4. cooldown' \in [Slots -> Nat]
  BY <1>1, <1>3, ExtendedFacts
<1>5. ASSUME NEW l \in Slots PROVE cooldown'[l] >= cooldown[l]
  <2>1. cooldown[l] \in Nat
    BY <1>1
  <2>2. CASE cooldown' = Extended(k, until)
    BY <2>2, ExtendedFacts
  <2>3. CASE cooldown' = cooldown
    BY <2>1, <2>3
  <2>. QED
    BY <1>3, <2>2, <2>3
<1>. QED
  BY <1>2, <1>4, <1>5

\* The steps of a request that has an account.
LEMMA ServeIInv ==
  ASSUME IInv, NEW r \in Requests,
         Acquire(r) \/ TransportError(r) \/ RateLimited(r) \/ UpstreamError(r)
           \/ Answer(r) \/ Finish(r)
  PROVE  IInv'
<1>. DEFINE k == SlotOf(r)
            ReqOK == /\ req' \in [Requests -> Request]
                     /\ \A x \in Requests : req'[x].step \notin {"idle", "select"}
                                              => req'[x].acc \in Accounts
            Rest == UNCHANGED <<now, current, live, enabled, stickyVars, removed>>
<1>1. /\ TypeOK /\ Trying /\ Covered
      /\ req[r].step \notin {"idle", "select"} /\ req[r] \in Request /\ req[r].acc \in Accounts
  BY DEF IInv, TypeOK, Acquire, TransportError, RateLimited, UpstreamError, Answer, Finish
<1>2. /\ k \in Slots /\ now + Default \in Nat /\ now \in Nat /\ Released(k) \in [Slots -> Nat]
      /\ req[r].bump \/ req[r].tries < MaxAttempts
  BY <1>1, SlotFacts, ReleasedType DEF TypeOK, Default, Trying
<1>3. ASSUME Rest, ReqOK, Trying',
             inFlight' \in [Slots -> Nat], fails' \in [Slots -> Nat],
             cooldown' \in [Slots -> Nat], limits' \in [Slots -> Limits],
             closed' \in [Slots -> Nat],
             \A l \in Slots : closed'[l] <= cooldown'[l]
      PROVE  IInv'
  BY <1>1, <1>3 DEF IInv, TypeOK, Covered, stickyVars
<1>4. ASSUME NEW st \in {"chosen", "sent", "stream", "copy"}, req' = [req EXCEPT ![r].step = st]
      PROVE  ReqOK /\ Trying'
  <2>1. ReqOK
    BY <1>1, <1>4, StepReq
  <2>2. Trying'
    BY <1>1, <1>2, <1>4 DEF Trying, TypeOK
  <2>. QED
    BY <2>1, <2>2
<1>5. ASSUME FailOver(r) PROVE ReqOK /\ Trying'
  <2>1. ReqOK
    BY <1>1, <1>2, <1>5, FailOverReq
  <2>2. PICK q : req' = [req EXCEPT ![r] = q] /\ q.step \in {"idle", "select"}
    BY <1>1, <1>5, FailOverShape
  <2>3. Trying'
    BY <1>1, <2>2 DEF Trying, TypeOK
  <2>. QED
    BY <2>1, <2>3
<1>6. ASSUME UNCHANGED closed, cooldown' \in [Slots -> Nat],
             \A l \in Slots : cooldown'[l] >= cooldown[l]
      PROVE  closed' \in [Slots -> Nat] /\ \A l \in Slots : closed'[l] <= cooldown'[l]
  BY <1>1, <1>6 DEF Covered, TypeOK
<1>7. CASE Acquire(r)
  <2>1. /\ req' = [req EXCEPT ![r].step = "sent"]
        /\ UNCHANGED <<fails, cooldown, limits, closed>> /\ Rest
    BY <1>7 DEF Acquire, history
  <2>2. inFlight' \in [Slots -> Nat]
    BY <1>1, <1>2, <1>7 DEF Acquire, TypeOK
  <2>3. cooldown' \in [Slots -> Nat] /\ \A l \in Slots : cooldown'[l] >= cooldown[l]
    BY <1>1, <2>1 DEF TypeOK
  <2>. QED
    BY <1>1, <1>3, <1>4, <1>6, <2>1, <2>2, <2>3 DEF TypeOK
<1>8. CASE TransportError(r)
  <2>1. /\ FailOver(r) /\ inFlight' = Released(k) /\ UNCHANGED <<limits, closed>> /\ Rest
    BY <1>8 DEF TransportError, history
  <2>. DEFINE Longer == /\ fails' \in [Slots -> Nat] /\ cooldown' \in [Slots -> Nat]
                        /\ \A l \in Slots : cooldown'[l] >= cooldown[l]
  <2>2. Longer
    <3>1. CASE UNCHANGED <<fails, cooldown>>
      BY <1>1, <3>1 DEF TypeOK
    <3>2. ASSUME NEW b \in BOOLEAN, Failed(k, b, now + Default)
          PROVE  Longer
      BY <1>1, <1>2, <3>2, FailedFacts
    <3>. QED
      BY <1>8, <3>1, <3>2 DEF TransportError
  <2>. QED
    BY <1>1, <1>2, <1>3, <1>5, <1>6, <2>1, <2>2 DEF TypeOK
<1>9. CASE UpstreamError(r)
  <2>1. /\ req' = [req EXCEPT ![r].step = "copy"]
        /\ UNCHANGED <<inFlight, limits, closed>> /\ Rest
    BY <1>9 DEF UpstreamError, history
  <2>2. /\ fails' \in [Slots -> Nat] /\ cooldown' \in [Slots -> Nat]
        /\ \A l \in Slots : cooldown'[l] >= cooldown[l]
    BY <1>1, <1>2, <1>9, FailedFacts DEF UpstreamError
  <2>. QED
    BY <1>1, <1>3, <1>4, <1>6, <2>1, <2>2 DEF TypeOK
<1>10. CASE RateLimited(r)
  <2>1. PICK lim \in Headers :
          /\ limits' = Noted(k, lim) /\ cooldown' = Extended(k, CooldownOf(lim))
          /\ closed' = [closed EXCEPT ![k] =
               IF live[k] /\ lim.u.rejected THEN Later(closed[k], lim.u.reset) ELSE closed[k]]
    BY <1>10 DEF RateLimited
  <2>2. FailOver(r) /\ inFlight' = Released(k) /\ UNCHANGED fails /\ Rest
    BY <1>10 DEF RateLimited
  <2>3. lim \in Limits
    BY <1>2, <2>1, LimitsFacts
  <2>4. /\ lim.u.reset \in Nat /\ lim.busy \in Nat
        /\ closed \in [Slots -> Nat] /\ closed[k] \in Nat /\ fails \in [Slots -> Nat]
    BY <1>1, <1>2, <2>3 DEF Limits, Snapshot, TypeOK
  <2>5. CooldownOf(lim) \in Nat /\ (lim.u.rejected => CooldownOf(lim) >= lim.u.reset)
    BY <1>2, <2>4 DEF CooldownOf, Later
  <2>6. /\ cooldown' \in [Slots -> Nat] /\ \A l \in Slots : cooldown'[l] >= cooldown[l]
        /\ live[k] => cooldown'[k] >= CooldownOf(lim)
    BY <1>1, <1>2, <2>1, <2>5, ExtendedFacts
  <2>7. Later(closed[k], lim.u.reset) \in {closed[k], lim.u.reset}
    BY DEF Later
  <2>8. closed' \in [Slots -> Nat]
    BY <2>1, <2>4, <2>7
  <2>9. \A l \in Slots : closed'[l] <= cooldown'[l]
    <3>1. ASSUME NEW l \in Slots, l # k PROVE closed'[l] <= cooldown'[l]
      <4>1. /\ closed'[l] = closed[l] /\ cooldown'[l] \in Nat /\ cooldown[l] \in Nat
            /\ closed[l] \in Nat
        BY <1>1, <2>1, <2>4, <2>6, <3>1 DEF TypeOK
      <4>. QED
        BY <1>1, <2>6, <4>1 DEF Covered
    <3>2. closed'[k] <= cooldown'[k]
      <4>1. cooldown'[k] \in Nat /\ cooldown[k] \in Nat /\ closed[k] <= cooldown[k]
            /\ cooldown'[k] >= cooldown[k]
        BY <1>1, <1>2, <2>6 DEF TypeOK, Covered
      <4>2. CASE live[k] /\ lim.u.rejected
        <5>1. closed'[k] = Later(closed[k], lim.u.reset)
          BY <1>2, <2>1, <2>4, <4>2
        <5>2. cooldown'[k] >= lim.u.reset
          BY <2>4, <2>5, <2>6, <4>1, <4>2
        <5>. QED
          BY <2>4, <2>7, <4>1, <5>1, <5>2
      <4>3. CASE ~(live[k] /\ lim.u.rejected)
        <5>1. closed'[k] = closed[k]
          BY <1>2, <2>1, <2>4, <4>3
        <5>. QED
          BY <2>4, <4>1, <5>1
      <4>. QED
        BY <4>2, <4>3
    <3>. QED
      BY <3>1, <3>2
  <2>10. limits' \in [Slots -> Limits]
    BY <1>1, <1>2, <2>1, <2>3, NotedType
  <2>. QED
    BY <1>2, <1>3, <1>5, <2>2, <2>4, <2>6, <2>8, <2>9, <2>10
<1>11. CASE Answer(r)
  <2>1. PICK lim \in Headers :
          /\ \/ /\ req' = [req EXCEPT ![r].step = "stream", ![r].lim = lim]
                /\ UNCHANGED <<fails, limits>>
             \/ /\ limits' = Noted(k, lim) \/ UNCHANGED limits
                /\ UNCHANGED fails \/ fails' = [fails EXCEPT ![k] = 0]
                /\ req' = [req EXCEPT ![r].step = "copy"]
    BY <1>11 DEF Answer, Succeeded
  <2>2. UNCHANGED <<inFlight, cooldown, closed>> /\ Rest
    BY <1>11 DEF Answer
  <2>3. lim \in Limits
    BY <1>2, <2>1, LimitsFacts
  <2>4. [lim EXCEPT !.u.rejected = FALSE] \in Limits
    BY <2>3 DEF Limits, Snapshot
  <2>5. Noted(k, lim) \in [Slots -> Limits]
    BY <1>1, <1>2, <2>1, <2>3, <2>4, NotedType
  <2>6. fails' \in [Slots -> Nat] /\ limits' \in [Slots -> Limits]
    BY <1>1, <2>1, <2>5 DEF TypeOK
  <2>7. ReqOK /\ Trying'
    <3>1. CASE req' = [req EXCEPT ![r].step = "copy"]
      BY <1>4, <3>1
    <3>2. CASE req' = [req EXCEPT ![r].step = "stream", ![r].lim = lim]
      <4>. DEFINE q == [req[r] EXCEPT !.step = "stream", !.lim = lim]
      <4>1. q \in Request /\ q.acc \in Accounts /\ q.bump = req[r].bump /\ q.tries = req[r].tries
        BY <1>1, <2>3 DEF Request
      <4>2. req' = [req EXCEPT ![r] = q]
        BY <1>1, <3>2 DEF TypeOK
      <4>3. ReqOK
        BY <1>1, <4>1, <4>2, ReqType
      <4>4. Trying'
        BY <1>1, <1>2, <4>1, <4>2 DEF Trying, TypeOK
      <4>. QED
        BY <4>3, <4>4
    <3>. QED
      BY <2>1, <3>1, <3>2
  <2>8. cooldown' \in [Slots -> Nat] /\ \A l \in Slots : cooldown'[l] >= cooldown[l]
    BY <1>1, <2>2 DEF TypeOK
  <2>. QED
    BY <1>1, <1>3, <1>6, <2>2, <2>5, <2>6, <2>7, <2>8 DEF TypeOK
<1>12. CASE Finish(r)
  <2>1. /\ req' = [req EXCEPT ![r] = Idle] /\ inFlight' = Released(k)
        /\ UNCHANGED <<cooldown, closed>> /\ Rest
    BY <1>12 DEF Finish, history
  <2>2. fails' \in [Slots -> Nat] /\ limits' \in [Slots -> Limits]
    <3>1. req[r].lim \in Limits
      BY <1>1 DEF Request
    <3>2. Noted(k, req[r].lim) \in [Slots -> Limits]
      BY <1>1, <1>2, <3>1, NotedType
    <3>3. limits' \in [Slots -> Limits]
      BY <1>1, <1>12, <3>2 DEF Finish, Succeeded, TypeOK
    <3>4. fails' \in [Slots -> Nat]
      <4>1. fails \in [Slots -> Nat]
        BY <1>1 DEF TypeOK
      <4>2. UNCHANGED fails \/ fails' = [fails EXCEPT ![k] = 0]
        BY <1>12 DEF Finish, Succeeded
      <4>. QED
        BY <4>1, <4>2
    <3>. QED
      BY <3>3, <3>4
  <2>3. ReqOK
    BY <1>1, <2>1, IdleFacts, ReqType
  <2>4. Trying'
    BY <1>1, <2>1, IdleFacts DEF Trying, TypeOK
  <2>5. cooldown' \in [Slots -> Nat] /\ \A l \in Slots : cooldown'[l] >= cooldown[l]
    BY <1>1, <2>1 DEF TypeOK
  <2>. QED
    BY <1>1, <1>2, <1>3, <1>6, <2>1, <2>2, <2>3, <2>4, <2>5 DEF TypeOK
<1>. QED
  BY <1>7, <1>8, <1>9, <1>10, <1>11, <1>12

\* Slots made anew are well formed and have no closed window.
LEMMA FreshFacts ==
  ASSUME TypeOK, Covered, NEW S, NEW L, NEW E, NEW U \in [Slots -> Snapshot], Fresh(S, L, E, U)
  PROVE  /\ live' \in [Slots -> BOOLEAN] /\ enabled' \in [Slots -> BOOLEAN]
         /\ inFlight' \in [Slots -> Nat] /\ fails' \in [Slots -> Nat]
         /\ cooldown' \in [Slots -> Nat] /\ limits' \in [Slots -> Limits]
         /\ closed' \in [Slots -> Nat]
         /\ Covered'
<1>1. /\ live' \in [Slots -> BOOLEAN] /\ enabled' \in [Slots -> BOOLEAN]
  <2>1. ASSUME NEW k \in Slots
        PROVE  /\ (IF k \in S THEN k \in L ELSE live[k]) \in BOOLEAN
               /\ (IF k \in S THEN k \in E ELSE enabled[k]) \in BOOLEAN
    <3>1. live[k] \in BOOLEAN /\ enabled[k] \in BOOLEAN
      BY DEF TypeOK
    <3>2. CASE k \in S
      BY <3>2
    <3>3. CASE k \notin S
      BY <3>1, <3>3
    <3>. QED
      BY <3>2, <3>3
  <2>2. /\ live' = [k \in Slots |-> IF k \in S THEN k \in L ELSE live[k]]
        /\ enabled' = [k \in Slots |-> IF k \in S THEN k \in E ELSE enabled[k]]
    BY DEF Fresh
  <2>. QED
    BY <2>1, <2>2, Zenon
<1>2. /\ inFlight' \in [Slots -> Nat] /\ fails' \in [Slots -> Nat]
      /\ cooldown' \in [Slots -> Nat] /\ closed' \in [Slots -> Nat]
  BY DEF Fresh, TypeOK
<1>3. limits' \in [Slots -> Limits]
  <2>1. ASSUME NEW k \in Slots PROVE [u |-> U[k], busy |-> 0] \in Limits /\ limits[k] \in Limits
    BY DEF Limits, TypeOK
  <2>. QED
    BY <2>1 DEF Fresh
<1>4. Covered'
  BY DEF Fresh, Covered, TypeOK
<1>. QED
  BY <1>1, <1>2, <1>3, <1>4

LEMMA OperateIInv ==
  ASSUME IInv, Operate
  PROVE  IInv'
<1>1. /\ TypeOK /\ Trying /\ Covered /\ current \in Gens
      /\ UNCHANGED <<now, req>>
  BY DEF IInv, TypeOK, Operate, DeleteAccount, AddOrUpdateAccount, UpdateAccountRateLimits, Rebuild
<1>. DEFINE SlotsOK == /\ live' \in [Slots -> BOOLEAN] /\ enabled' \in [Slots -> BOOLEAN]
                       /\ inFlight' \in [Slots -> Nat] /\ fails' \in [Slots -> Nat]
                       /\ cooldown' \in [Slots -> Nat] /\ limits' \in [Slots -> Limits]
                       /\ closed' \in [Slots -> Nat] /\ Covered'
            RestOK == /\ current' \in Gens /\ removed' \subseteq Slots
                      /\ sticky' \in [Gens -> [Sessions -> Accounts \cup {None}]]
                      /\ stickyAt' \in [Gens -> [Sessions -> Nat]]
<1>2. ASSUME SlotsOK, RestOK PROVE IInv'
  <2>1. Trying'
    BY <1>1 DEF Trying
  <2>. QED
    BY <1>1, <1>2, <2>1 DEF IInv, TypeOK
<1>3. Blank \in [Slots -> Snapshot]
  BY LimitsFacts DEF Blank
<1>4. ASSUME NEW a \in Accounts, DeleteAccount(a) PROVE IInv'
  <2>1. <<current, a>> \in Slots
    BY <1>1 DEF Slots
  <2>2. SlotsOK
    BY <1>1, <1>3, <1>4, FreshFacts DEF DeleteAccount
  <2>3. sticky[current] \in [Sessions -> Accounts \cup {None}]
        /\ stickyAt[current] \in [Sessions -> Nat]
    BY <1>1 DEF TypeOK
  <2>4. RestOK
    BY <1>1, <1>4, <2>1, <2>3 DEF DeleteAccount, TypeOK
  <2>. QED
    BY <1>2, <2>2, <2>4
<1>5. ASSUME NEW a \in Accounts, AddOrUpdateAccount(a) PROVE IInv'
  <2>1. RestOK
    BY <1>1, <1>5 DEF AddOrUpdateAccount, TypeOK, stickyVars
  <2>2. SlotsOK
    <3>1. CASE live[<<current, a>>]
      <4>1. /\ enabled' = [enabled EXCEPT ![<<current, a>>] = TRUE]
            /\ UNCHANGED <<live, inFlight, fails, cooldown, limits, closed>>
        BY <1>5, <3>1 DEF AddOrUpdateAccount
      <4>. QED
        BY <1>1, <4>1 DEF TypeOK, Covered
    <3>2. CASE ~live[<<current, a>>]
      BY <1>1, <1>3, <1>5, <3>2, FreshFacts DEF AddOrUpdateAccount
    <3>. QED
      BY <3>1, <3>2
  <2>. QED
    BY <1>2, <2>1, <2>2
<1>7. ASSUME NEW k \in Slots, UpdateAccountRateLimits(k) PROVE IInv'
  <2>1. PICK lim \in Headers : limits' = Noted(k, lim)
    BY <1>7 DEF UpdateAccountRateLimits
  <2>2. lim \in Limits
    BY <1>1, <2>1, LimitsFacts DEF TypeOK
  <2>3. limits' \in [Slots -> Limits]
    BY <1>1, <2>1, <2>2, NotedType DEF TypeOK
  <2>4. UNCHANGED <<current, live, enabled, inFlight, fails, cooldown, sticky, stickyAt,
                    removed, closed>>
    BY <1>7 DEF UpdateAccountRateLimits, stickyVars
  <2>5. RestOK
    BY <1>1, <2>3, <2>4 DEF TypeOK
  <2>6. SlotsOK
    BY <1>1, <2>3, <2>4 DEF TypeOK, Covered
  <2>. QED
    BY <1>2, <2>5, <2>6
<1>6. ASSUME Rebuild PROVE IInv'
  <2>1. PICK S \in SUBSET Accounts, U \in [Accounts -> Stored] : \E E \in SUBSET S :
          /\ Fresh({current + 1} \X Accounts, {current + 1} \X S, {current + 1} \X E,
                   Inherited(U))
    BY <1>6 DEF Rebuild
  <2>2. Inherited(U) \in [Slots -> Snapshot]
    <3>1. ASSUME NEW k \in Slots
          PROVE  limits[<<current, k[2]>>].u \in Snapshot /\ U[k[2]] \in Snapshot
      <4>1. <<current, k[2]>> \in Slots /\ k[2] \in Accounts
        BY <1>1 DEF Slots
      <4>2. limits[<<current, k[2]>>] \in Limits
        BY <1>1, <4>1 DEF TypeOK
      <4>3. U[k[2]] \in Snapshot
        BY <1>1, <4>1, StoredType DEF TypeOK
      <4>. QED
        BY <4>2, <4>3 DEF Limits
    <3>. QED
      BY <3>1 DEF Inherited
  <2>3. SlotsOK
    BY <1>1, <2>1, <2>2, FreshFacts
  <2>4. current' \in Gens
    BY <1>1, <1>6, GensFacts DEF Rebuild, Gens
  <2>5. RestOK
    BY <1>1, <1>6, <2>1, <2>4 DEF Rebuild, TypeOK, stickyVars
  <2>. QED
    BY <1>2, <2>3, <2>5
<1>. QED
  BY <1>4, <1>5, <1>6, <1>7 DEF Operate

LEMMA NextIInv == IInv /\ [Next]_vars => IInv'
<1>. SUFFICES ASSUME IInv, [Next]_vars PROVE IInv'
  OBVIOUS
<1>1. CASE Tick
  <2>1. now' \in Nat \ {0}
    BY <1>1 DEF IInv, TypeOK, Tick
  <2>. QED
    BY <1>1, <2>1 DEF IInv, TypeOK, Trying, Covered, Tick, slotVars, stickyVars, history
<1>2. CASE UNCHANGED vars
  BY <1>2 DEF IInv, TypeOK, Trying, Covered, vars, slotVars, stickyVars, history
<1>. QED
  BY <1>1, <1>2, StartIInv, SelectIInv, ServeIInv, OperateIInv DEF Next, Serve

LEMMA Invariant == Spec => []IInv
BY InitIInv, NextIInv, PTL DEF Spec

\* Every variable keeps its type.
THEOREM TypeCorrect == Spec => []TypeOK
<1>1. IInv => TypeOK
  BY DEF IInv
<1>. QED
  BY <1>1, Invariant, PTL

\* A window that a 429 closed stays closed until its reset, in the pool that
\* was told: RecordRateLimit only extends cooldowns, and nothing else but the
\* removal of the account shortens them.
THEOREM ClosedStays == Spec => []ClosedStaysClosed
<1>1. IInv => ClosedStaysClosed
  <2>. SUFFICES ASSUME IInv, NEW k \in Slots, live[k], closed[k] > now
                PROVE  ~Healthy(k)
    BY DEF ClosedStaysClosed
  <2>1. closed[k] \in Nat /\ cooldown[k] \in Nat /\ now \in Nat /\ closed[k] <= cooldown[k]
    BY DEF IInv, TypeOK, Covered
  <2>2. ~(cooldown[k] <= now)
    BY <2>1
  <2>. QED
    BY <2>2 DEF Healthy
<1>. QED
  BY <1>1, Invariant, PTL

(***************************************************************************)
(* How many requests an account carries                                    *)
(***************************************************************************)

\* No request is ahead of the pool in use.
Behind == \A r \in Requests : req[r].gen <= current

\* The account a request was given is there, unless it was deleted since.
LiveSlots ==
  \A r \in Requests :
    req[r].step \notin {"idle", "select"} => SlotOf(r) \in removed \/ live[SlotOf(r)]

\* What is not in the pool carries nothing.
NoGhost == \A k \in Slots : ~live[k] => inFlight[k] = 0

Load == Behind /\ LiveSlots /\ NoGhost /\ InFlightExact

LEMMA HoldersFinite ==
  ASSUME NEW k
  PROVE  IsFiniteSet(Holders(k)) /\ Cardinality(Holders(k)) \in Nat
<1>1. Holders(k) \subseteq Requests /\ IsFiniteSet(Requests)
  BY PoolAssumption DEF Holders
<1>. QED
  BY <1>1, FS_Subset, FS_CardinalityType

\* The requests of a slot after one request has changed to q.
LEMMA HoldersStep ==
  ASSUME TypeOK, NEW r \in Requests, NEW q, req' = [req EXCEPT ![r] = q], NEW l
  PROVE  Holders(l)' = IF q.step \in {"sent", "stream", "copy"} /\ <<q.gen, q.acc>> = l
                       THEN Holders(l) \cup {r} ELSE Holders(l) \ {r}
<1>1. /\ req'[r] = q
      /\ \A x \in Requests \ {r} : req'[x] = req[x]
  BY DEF TypeOK
<1>. QED
  BY <1>1 DEF Holders, SlotOf

LEMMA StepBehind ==
  ASSUME TypeOK, Load, NEW r \in Requests, NEW q, req' = [req EXCEPT ![r] = q],
         q.gen <= current, UNCHANGED <<current, live, removed>>,
         q.step \notin {"idle", "select"} => \/ <<q.gen, q.acc>> \in removed
                                            \/ live[<<q.gen, q.acc>>]
  PROVE  Behind' /\ LiveSlots'
<1>1. req'[r] = q /\ \A x \in Requests \ {r} : req'[x] = req[x]
  BY DEF TypeOK
<1>. QED
  BY <1>1 DEF Load, Behind, LiveSlots, SlotOf

\* A step that takes no account and leaves none.
LEMMA StepSame ==
  ASSUME TypeOK, Load, NEW r \in Requests, NEW q, req' = [req EXCEPT ![r] = q],
         q.step \in {"sent", "stream", "copy"} <=> req[r].step \in {"sent", "stream", "copy"},
         q.step \in {"sent", "stream", "copy"} => q.gen = req[r].gen /\ q.acc = req[r].acc,
         UNCHANGED <<live, inFlight, removed>>
  PROVE  NoGhost' /\ InFlightExact'
<1>1. ASSUME NEW l PROVE Holders(l)' = Holders(l)
  BY <1>1, HoldersStep DEF Holders, SlotOf
<1>. QED
  BY <1>1 DEF Load, NoGhost, InFlightExact

\* A step that gives the account of the request back.
LEMMA StepRelease ==
  ASSUME TypeOK, Load, NEW r \in Requests, NEW q, req' = [req EXCEPT ![r] = q],
         req[r].step \in {"sent", "stream", "copy"}, q.step \notin {"sent", "stream", "copy"},
         inFlight' = Released(SlotOf(r)), UNCHANGED <<live, removed>>
  PROVE  NoGhost' /\ InFlightExact'
<1>. PICK k \in Slots : k = SlotOf(r)
  BY SlotFacts
<1>1. /\ inFlight \in [Slots -> Nat] /\ inFlight' = Released(k)
      /\ NoGhost /\ InFlightExact
  BY DEF TypeOK, Load
<1>2. ASSUME NEW l \in Slots, l # k
      PROVE  inFlight'[l] = inFlight[l] /\ Holders(l)' = Holders(l)
  <2>1. inFlight'[l] = inFlight[l]
    BY <1>1, <1>2 DEF Released
  <2>2. Holders(l)' = Holders(l) \ {r}
    BY HoldersStep
  <2>3. r \notin Holders(l)
    BY <1>2 DEF Holders
  <2>. QED
    BY <2>1, <2>2, <2>3
<1>3. /\ Cardinality(Holders(k)) \in Nat /\ Cardinality(Holders(k)') = Cardinality(Holders(k)) - 1
      /\ Cardinality(Holders(k)) >= 1
  <2>1. Holders(k)' = Holders(k) \ {r} /\ r \in Holders(k)
    <3>1. Holders(k)' = Holders(k) \ {r}
      BY HoldersStep
    <3>2. r \in Holders(k)
      BY DEF Holders
    <3>. QED
      BY <3>1, <3>2
  <2>2. Cardinality(Holders(k)') \in Nat
    BY <2>1, HoldersFinite, FS_RemoveElement, FS_CardinalityType
  <2>3. Cardinality(Holders(k)') = Cardinality(Holders(k)) - 1
    BY <2>1, HoldersFinite, FS_RemoveElement, ZenonT(30)
  <2>. QED
    BY <2>2, <2>3, HoldersFinite
<1>4. /\ inFlight[k] \in Nat /\ inFlight[k] <= Cardinality(Holders(k))
      /\ k \notin removed => inFlight[k] = Cardinality(Holders(k))
      /\ ~live[k] => inFlight[k] = 0
      /\ inFlight'[k] = IF live[k] /\ inFlight[k] > 0 THEN inFlight[k] - 1 ELSE inFlight[k]
  BY <1>1 DEF NoGhost, InFlightExact, Released
<1>5. /\ inFlight'[k] <= Cardinality(Holders(k)')
      /\ k \notin removed' => inFlight'[k] = Cardinality(Holders(k)')
      /\ ~live'[k] => inFlight'[k] = 0
  BY <1>3, <1>4
<1>6. NoGhost'
  BY <1>1, <1>2, <1>5 DEF NoGhost
<1>7. InFlightExact'
  BY <1>1, <1>2, <1>5 DEF InFlightExact
<1>. QED
  BY <1>6, <1>7

LEMMA InitLoad == Init => Load
<1>. SUFFICES ASSUME Init PROVE Load
  OBVIOUS
<1>1. \A r \in Requests : req[r].step = "idle" /\ req[r].gen = 1
  BY DEF Init, Idle
<1>2. Behind /\ LiveSlots
  BY <1>1 DEF Init, Behind, LiveSlots
<1>5. NoGhost
  BY DEF Init, NoGhost
<1>3. \A k : Holders(k) = {}
  BY <1>1 DEF Holders
<1>4. InFlightExact
  <2>1. ASSUME NEW k \in Slots PROVE inFlight[k] = 0 /\ Cardinality(Holders(k)) = 0
    BY <1>3, FS_EmptySet DEF Init
  <2>. QED
    BY <2>1 DEF InFlightExact
<1>. QED
  BY <1>2, <1>4, <1>5 DEF Load

LEMMA AcquireLoad ==
  ASSUME TypeOK, Load, NEW r \in Requests, Acquire(r)
  PROVE  Load'
<1>1. req[r].step = "chosen" /\ UNCHANGED <<current, live, removed>>
  BY DEF Acquire, history
<1>. PICK k \in Slots : k = SlotOf(r)
  BY <1>1, SlotFacts
<1>. DEFINE q == [req[r] EXCEPT !.step = "sent"]
<1>2. /\ req' = [req EXCEPT ![r] = q] /\ q.step = "sent"
      /\ q.gen = req[r].gen /\ q.acc = req[r].acc
  BY DEF Acquire, TypeOK, Request
<1>. HIDE DEF q
<1>3. Behind /\ LiveSlots /\ NoGhost /\ InFlightExact
  BY DEF Load
<1>4. <<q.gen, q.acc>> = k /\ q.gen <= current /\ (k \in removed \/ live[k])
  BY <1>1, <1>2, <1>3 DEF Behind, LiveSlots, SlotOf
<1>5. Behind' /\ LiveSlots'
  BY <1>1, <1>2, <1>4, StepBehind
<1>6. /\ inFlight \in [Slots -> Nat]
      /\ inFlight' = [inFlight EXCEPT ![k] = IF live[k] THEN inFlight[k] + 1 ELSE inFlight[k]]
  BY DEF Acquire, TypeOK
<1>7. ASSUME NEW l \in Slots, l # k
      PROVE  inFlight'[l] = inFlight[l] /\ Holders(l)' = Holders(l)
  <2>1. Holders(l)' = Holders(l) \ {r}
    BY <1>2, <1>4, <1>7, HoldersStep
  <2>2. r \notin Holders(l)
    BY <1>1 DEF Holders
  <2>. QED
    BY <1>6, <1>7, <2>1, <2>2
<1>8. /\ Cardinality(Holders(k)) \in Nat
      /\ Cardinality(Holders(k)') = Cardinality(Holders(k)) + 1
  <2>1. Holders(k)' = Holders(k) \cup {r}
    BY <1>2, <1>4, HoldersStep
  <2>2. r \notin Holders(k)
    BY <1>1 DEF Holders
  <2>. QED
    BY <2>1, <2>2, HoldersFinite, FS_AddElement
<1>9. /\ inFlight[k] \in Nat /\ inFlight[k] <= Cardinality(Holders(k))
      /\ k \notin removed => inFlight[k] = Cardinality(Holders(k))
      /\ ~live[k] => inFlight[k] = 0
      /\ inFlight'[k] = IF live[k] THEN inFlight[k] + 1 ELSE inFlight[k]
  BY <1>3, <1>6 DEF NoGhost, InFlightExact
<1>10. /\ inFlight'[k] <= Cardinality(Holders(k)')
       /\ k \notin removed' => inFlight'[k] = Cardinality(Holders(k)')
       /\ ~live'[k] => inFlight'[k] = 0
  BY <1>1, <1>4, <1>8, <1>9
<1>11. NoGhost'
  BY <1>1, <1>3, <1>7, <1>10 DEF NoGhost
<1>12. InFlightExact'
  BY <1>1, <1>3, <1>7, <1>10 DEF InFlightExact
<1>. QED
  BY <1>5, <1>11, <1>12 DEF Load

\* The requests that begin, are given an account, or end without one.
LEMMA StartLoad ==
  ASSUME TypeOK, Load, NEW r \in Requests,
         \/ \E s \in Sessions \cup {None} : Start(r, s)
         \/ \E a \in Accounts : StartBump(r, a)
         \/ SelectAccount(r) \/ GiveUp(r)
  PROVE  Load'
<1>1. /\ UNCHANGED <<current, live, inFlight, removed>>
      /\ req[r].step \in {"idle", "select"}
      /\ current >= 1 /\ req[r].gen <= current /\ current \in Nat
  <2>1. /\ UNCHANGED <<current, live, inFlight, removed>>
        /\ req[r].step \in {"idle", "select"}
    BY DEF Start, StartBump, SelectAccount, GiveUp, slotVars, history
  <2>2. current \in Gens
    BY DEF TypeOK
  <2>3. current >= 1 /\ current \in Nat
    BY <2>2, GensFacts DEF Gens
  <2>. QED
    BY <2>1, <2>3 DEF Load, Behind
<1>2. \E q : /\ req' = [req EXCEPT ![r] = q]
             /\ q.gen <= current
             /\ \/ q.step \in {"idle", "select"}
                \/ q.step = "chosen" /\ live[<<q.gen, q.acc>>]
  <2>1. ASSUME NEW s \in Sessions \cup {None}, Start(r, s)
        PROVE  \E q : req' = [req EXCEPT ![r] = q] /\ q.gen = current /\ q.step = "select"
    <3>. DEFINE q == [Idle EXCEPT !.step = "select", !.gen = current, !.sess = s]
    <3>1. req' = [req EXCEPT ![r] = q] /\ q.gen = current /\ q.step = "select"
      BY <2>1 DEF Start, Idle
    <3>. QED
      BY <3>1
  <2>2. ASSUME NEW a \in Accounts, StartBump(r, a)
        PROVE  \E q : /\ req' = [req EXCEPT ![r] = q] /\ q.gen = current
                     /\ q.step = "chosen" /\ live[<<q.gen, q.acc>>]
    <3>. DEFINE q == [Idle EXCEPT !.step = "chosen", !.bump = TRUE, !.gen = current, !.acc = a]
    <3>1. req' = [req EXCEPT ![r] = q] /\ live[<<current, a>>]
      BY <2>2 DEF StartBump
    <3>2. q.gen = current /\ q.step = "chosen" /\ q.acc = a
      BY DEF Idle
    <3>. HIDE DEF q
    <3>. QED
      BY <3>1, <3>2
  <2>3. ASSUME SelectAccount(r)
        PROVE  \E q : /\ req' = [req EXCEPT ![r] = q] /\ q.gen = req[r].gen
                     /\ q.step = "chosen" /\ live[<<q.gen, q.acc>>]
    <3>1. PICK a \in Accounts : Chosen(r, a) /\ live[<<req[r].gen, a>>]
      BY <2>3 DEF SelectAccount, StickyHit, Candidates, Ranked
    <3>. DEFINE q == [req[r] EXCEPT !.step = "chosen", !.acc = a]
    <3>2. req' = [req EXCEPT ![r] = q] /\ q.gen = req[r].gen /\ q.step = "chosen" /\ q.acc = a
      BY <3>1 DEF Chosen, TypeOK, Request
    <3>. HIDE DEF q
    <3>. QED
      BY <3>1, <3>2
  <2>4. ASSUME GiveUp(r)
        PROVE  \E q : req' = [req EXCEPT ![r] = q] /\ q.gen = 1 /\ q.step = "idle"
    <3>1. req' = [req EXCEPT ![r] = Idle] /\ Idle.gen = 1 /\ Idle.step = "idle"
      BY <2>4 DEF GiveUp, Idle
    <3>. QED
      BY <3>1
  <2>5. current <= current /\ req[r].gen <= current /\ 1 <= current
    BY <1>1
  <2>6. CASE \E s \in Sessions \cup {None} : Start(r, s)
    BY <2>1, <2>5, <2>6
  <2>7. CASE \E a \in Accounts : StartBump(r, a)
    BY <2>2, <2>5, <2>7
  <2>8. CASE SelectAccount(r)
    BY <2>3, <2>5, <2>8
  <2>9. CASE GiveUp(r)
    BY <2>4, <2>5, <2>9
  <2>. QED
    BY <2>6, <2>7, <2>8, <2>9
<1>3. PICK q : /\ req' = [req EXCEPT ![r] = q]
               /\ q.gen <= current
               /\ \/ q.step \in {"idle", "select"}
                  \/ q.step = "chosen" /\ live[<<q.gen, q.acc>>]
  BY <1>2
<1>4. Behind' /\ LiveSlots'
  BY <1>1, <1>3, StepBehind
<1>5. NoGhost' /\ InFlightExact'
  BY <1>1, <1>3, StepSame
<1>. QED
  BY <1>4, <1>5 DEF Load

\* The requests that end with their account, or go on with it.
LEMMA ServeLoad ==
  ASSUME TypeOK, Load, NEW r \in Requests,
         TransportError(r) \/ RateLimited(r) \/ UpstreamError(r) \/ Answer(r) \/ Finish(r)
  PROVE  Load'
<1>. DEFINE Held == {"sent", "stream", "copy"}
<1>1. /\ UNCHANGED <<current, live, removed>> /\ req[r].step \in Held /\ req[r] \in Request
      /\ Behind /\ LiveSlots
  BY DEF TransportError, RateLimited, UpstreamError, Answer, Finish, history, Load, TypeOK
<1>2. current >= 1 /\ req[r].gen <= current
  <2>1. current \in Gens
    BY DEF TypeOK
  <2>. QED
    BY <1>1, <2>1, GensFacts DEF Gens, Behind
<1>3. ASSUME NEW q, req' = [req EXCEPT ![r] = q], inFlight' = Released(SlotOf(r)),
             q.step \in {"idle", "select"}, q.gen \in {1, req[r].gen}
      PROVE  Load'
  <2>1. Behind' /\ LiveSlots'
    BY <1>1, <1>2, <1>3, StepBehind
  <2>2. NoGhost' /\ InFlightExact'
    BY <1>1, <1>3, StepRelease
  <2>. QED
    BY <2>1, <2>2 DEF Load
<1>4. ASSUME NEW q, req' = [req EXCEPT ![r] = q], UNCHANGED inFlight,
             q.step \in Held, q.gen = req[r].gen, q.acc = req[r].acc
      PROVE  Load'
  <2>1. <<q.gen, q.acc>> \in removed \/ live[<<q.gen, q.acc>>]
    BY <1>1, <1>4 DEF LiveSlots, SlotOf
  <2>2. Behind' /\ LiveSlots'
    BY <1>1, <1>2, <1>4, <2>1, StepBehind
  <2>3. NoGhost' /\ InFlightExact'
    BY <1>1, <1>4, StepSame
  <2>. QED
    BY <2>2, <2>3 DEF Load
<1>5. CASE TransportError(r) \/ RateLimited(r)
  <2>1. FailOver(r) /\ inFlight' = Released(SlotOf(r))
    BY <1>5 DEF TransportError, RateLimited
  <2>. QED
    BY <1>3, <2>1, FailOverShape
<1>6. CASE Finish(r)
  <2>1. req' = [req EXCEPT ![r] = Idle] /\ inFlight' = Released(SlotOf(r))
    BY <1>6 DEF Finish
  <2>2. Idle.step = "idle" /\ Idle.gen = 1
    BY DEF Idle
  <2>. QED
    BY <1>3, <2>1, <2>2
<1>7. CASE UpstreamError(r)
  <2>. DEFINE q == [req[r] EXCEPT !.step = "copy"]
  <2>1. req' = [req EXCEPT ![r] = q] /\ UNCHANGED inFlight
    BY <1>1, <1>7 DEF UpstreamError, TypeOK
  <2>2. q.step \in Held /\ q.gen = req[r].gen /\ q.acc = req[r].acc
    BY <1>1 DEF Request
  <2>. HIDE DEF q
  <2>. QED
    BY <1>4, <2>1, <2>2
<1>8. CASE Answer(r)
  <2>1. /\ UNCHANGED inFlight
        /\ \/ req' = [req EXCEPT ![r].step = "copy"]
           \/ \E lim \in Headers : req' = [req EXCEPT ![r].step = "stream", ![r].lim = lim]
    BY <1>8 DEF Answer
  <2>2. CASE req' = [req EXCEPT ![r].step = "copy"]
    <3>. DEFINE q == [req[r] EXCEPT !.step = "copy"]
    <3>1. req' = [req EXCEPT ![r] = q] /\ UNCHANGED inFlight
      BY <2>1, <2>2 DEF TypeOK
    <3>2. q.step \in Held /\ q.gen = req[r].gen /\ q.acc = req[r].acc
      BY <1>1 DEF Request
    <3>. HIDE DEF q
    <3>. QED
      BY <1>4, <3>1, <3>2
  <2>3. ASSUME NEW lim, req' = [req EXCEPT ![r].step = "stream", ![r].lim = lim]
        PROVE  Load'
    <3>. DEFINE q == [req[r] EXCEPT !.step = "stream", !.lim = lim]
    <3>1. req' = [req EXCEPT ![r] = q] /\ UNCHANGED inFlight
      BY <2>1, <2>3 DEF TypeOK
    <3>2. q.step \in Held /\ q.gen = req[r].gen /\ q.acc = req[r].acc
      BY <1>1 DEF Request
    <3>. HIDE DEF q
    <3>. QED
      BY <1>4, <3>1, <3>2
  <2>. QED
    BY <2>1, <2>2, <2>3
<1>. QED
  BY <1>5, <1>6, <1>7, <1>8

\* Slots made anew, none of them in the hands of a request unless it is deleted.
LEMMA FreshLoad ==
  ASSUME TypeOK, Load, NEW S, NEW L, NEW E, NEW U, Fresh(S, L, E, U),
         UNCHANGED req, current' \in Nat, current' >= current, removed \subseteq removed',
         \A r \in Requests :
           req[r].step \notin {"idle", "select"} /\ SlotOf(r) \in S => SlotOf(r) \in removed'
  PROVE  Load'
<1>1. Behind /\ LiveSlots /\ NoGhost /\ InFlightExact
  BY DEF Load
<1>2. Behind'
  <2>1. ASSUME NEW r \in Requests PROVE req'[r].gen <= current'
    <3>1. req[r].gen \in Nat /\ current \in Nat /\ req[r].gen <= current
      BY <1>1, GensFacts DEF Behind, TypeOK, Request
    <3>. QED
      BY <3>1
  <2>. QED
    BY <2>1 DEF Behind
<1>3. ASSUME NEW k \in Slots
      PROVE  /\ k \in S => inFlight'[k] = 0
             /\ k \notin S => inFlight'[k] = inFlight[k] /\ live'[k] = live[k]
  BY DEF Fresh
<1>4. LiveSlots'
  <2>. SUFFICES ASSUME NEW r \in Requests, req[r].step \notin {"idle", "select"}
                PROVE  SlotOf(r) \in removed' \/ live'[SlotOf(r)]
    BY DEF LiveSlots, SlotOf
  <2>1. SlotOf(r) \in Slots /\ (SlotOf(r) \in removed \/ live[SlotOf(r)])
    BY <1>1, SlotFacts DEF LiveSlots
  <2>. QED
    BY <1>3, <2>1
<1>5. NoGhost'
  BY <1>1, <1>3 DEF NoGhost
<1>6. ASSUME NEW k \in Slots
      PROVE  /\ inFlight'[k] <= Cardinality(Holders(k))
             /\ k \notin removed' => inFlight'[k] = Cardinality(Holders(k))
  <2>1. CASE k \notin S
    BY <1>1, <1>3, <2>1 DEF InFlightExact
  <2>2. CASE k \in S
    <3>1. inFlight'[k] = 0 /\ Cardinality(Holders(k)) \in Nat
      BY <1>3, <2>2, HoldersFinite
    <3>2. k \notin removed' => Holders(k) = {}
      BY <2>2 DEF Holders
    <3>. QED
      BY <3>1, <3>2, FS_EmptySet
  <2>. QED
    BY <2>1, <2>2
<1>7. InFlightExact'
  <2>1. \A k : Holders(k)' = Holders(k)
    BY DEF Holders, SlotOf
  <2>. QED
    BY <1>6, <2>1 DEF InFlightExact
<1>. QED
  BY <1>2, <1>4, <1>5, <1>7 DEF Load

LEMMA OperateLoad ==
  ASSUME TypeOK, Load, Operate
  PROVE  Load'
<1>1. current \in Nat /\ UNCHANGED req
  BY GensFacts
     DEF TypeOK, Operate, DeleteAccount, AddOrUpdateAccount, UpdateAccountRateLimits, Rebuild
<1>2. ASSUME NEW a \in Accounts, DeleteAccount(a) PROVE Load'
  <2>1. /\ Fresh({<<current, a>>}, {}, {}, Blank) /\ UNCHANGED current
        /\ removed' = removed \cup {<<current, a>>}
    BY <1>2 DEF DeleteAccount
  <2>. QED
    BY <1>1, <2>1, FreshLoad
<1>3. ASSUME NEW a \in Accounts, AddOrUpdateAccount(a) PROVE Load'
  <2>. DEFINE k == <<current, a>>
  <2>1. UNCHANGED <<current, removed>>
    BY <1>3 DEF AddOrUpdateAccount
  <2>2. CASE live[k]
    <3>1. UNCHANGED <<live, inFlight>>
      BY <1>3, <2>2 DEF AddOrUpdateAccount
    <3>. QED
      BY <1>1, <2>1, <3>1 DEF Load, Behind, LiveSlots, NoGhost, InFlightExact, Holders, SlotOf
  <2>3. CASE ~live[k]
    <3>1. Fresh({k}, {k}, {k}, Blank)
      BY <1>3, <2>3 DEF AddOrUpdateAccount
    <3>2. \A r \in Requests :
            req[r].step \notin {"idle", "select"} /\ SlotOf(r) \in {k} => SlotOf(r) \in removed
      BY <2>3 DEF Load, LiveSlots
    <3>. QED
      BY <1>1, <2>1, <3>1, <3>2, FreshLoad
  <2>. QED
    BY <2>2, <2>3
<1>4. CASE Rebuild
  <2>. DEFINE N == {current + 1} \X Accounts
  <2>1. /\ current' = current + 1 /\ UNCHANGED removed
        /\ \E L, E, U : Fresh(N, L, E, U)
    BY <1>4 DEF Rebuild
  <2>2. \A r \in Requests : SlotOf(r) \notin N
    <3>1. ASSUME NEW r \in Requests PROVE req[r].gen # current + 1
      <4>1. req[r].gen \in Nat /\ req[r].gen <= current
        BY GensFacts DEF Load, Behind, TypeOK, Request
      <4>. QED
        BY <1>1, <4>1
    <3>. QED
      BY <3>1 DEF SlotOf
  <2>3. current' \in Nat /\ current' >= current
    BY <1>1, <2>1
  <2>. QED
    BY <1>1, <2>1, <2>2, <2>3, FreshLoad
<1>5. ASSUME NEW k \in Slots, UpdateAccountRateLimits(k) PROVE Load'
  <2>1. UNCHANGED <<current, live, inFlight, removed>>
    BY <1>5 DEF UpdateAccountRateLimits
  <2>. QED
    BY <1>1, <2>1 DEF Load, Behind, LiveSlots, NoGhost, InFlightExact, Holders, SlotOf
<1>. QED
  BY <1>2, <1>3, <1>4, <1>5 DEF Operate

LEMMA NextLoad == TypeOK /\ Load /\ [Next]_vars => Load'
<1>. SUFFICES ASSUME TypeOK, Load, [Next]_vars PROVE Load'
  OBVIOUS
<1>1. CASE Tick \/ UNCHANGED vars
  <2>1. UNCHANGED <<current, live, inFlight, req, removed>>
    BY <1>1 DEF Tick, vars, slotVars, history
  <2>. QED
    BY <2>1 DEF Load, Behind, LiveSlots, NoGhost, InFlightExact, Holders, SlotOf
<1>. QED
  BY <1>1, AcquireLoad, StartLoad, ServeLoad, OperateLoad DEF Next, Serve

\* Every request gives back, once, what Acquire counted for it: an account
\* that was not deleted looks exactly as busy as it is, whatever rebuilds,
\* logins, failovers and ends of streams come in between, and one that was
\* deleted and came back never looks busier.
THEOREM InFlight == Spec => []InFlightExact
<1>1. Load => InFlightExact
  BY DEF Load
<1>. QED
  BY <1>1, InitLoad, NextLoad, TypeCorrect, PTL DEF Spec

(***************************************************************************)
(* The affinity of sessions                                                *)
(***************************************************************************)

\* A session is mapped exactly when it has a time of use.
Agree == \A g \in Gens, s \in Sessions : sticky[g][s] # None <=> stickyAt[g][s] # 0

\* What a session is mapped to is in the pool.
Pinned ==
  \A g \in Gens, s \in Sessions : sticky[g][s] # None => live[<<g, sticky[g][s]>>]

Bounded ==
  \A g \in Gens : IsFiniteSet(Mapped(g)) /\ Cardinality(Mapped(g)) <= MaxSticky

\* The pools to come have no sessions.
Unused == \A g \in Gens : g > current => \A s \in Sessions : sticky[g][s] = None

Sticking == Agree /\ Pinned /\ Bounded /\ Unused

LEMMA InitSticking == Init => Sticking
<1>. SUFFICES ASSUME Init PROVE Sticking
  OBVIOUS
<1>1. \A g \in Gens, s \in Sessions : sticky[g][s] = None /\ stickyAt[g][s] = 0
  BY DEF Init
<1>2. Agree /\ Pinned /\ Unused
  BY <1>1 DEF Agree, Pinned, Unused
<1>3. Bounded
  <2>1. ASSUME NEW g \in Gens PROVE Mapped(g) = {}
    BY <1>1 DEF Mapped
  <2>. QED
    BY <2>1, FS_EmptySet, PoolAssumption DEF Bounded
<1>. QED
  BY <1>2, <1>3 DEF Sticking

\* A step that leaves the sessions alone, the accounts they are mapped to in the
\* pool, and the pools to come to themselves.
LEMMA StickyStays ==
  ASSUME TypeOK, Sticking, UNCHANGED stickyVars, current' \in Nat, current' >= current,
         \A g \in Gens, a \in Accounts : g <= current /\ live[<<g, a>>] => live'[<<g, a>>]
  PROVE  Sticking'
<1>1. Agree' /\ Bounded'
  BY DEF Sticking, Agree, Bounded, Mapped, stickyVars
<1>2. current \in Nat /\ \A g \in Gens : g \in Nat
  BY GensFacts DEF TypeOK
<1>3. Unused'
  BY <1>2 DEF Sticking, Unused, stickyVars
<1>4. Pinned'
  <2>. SUFFICES ASSUME NEW g \in Gens, NEW s \in Sessions, sticky[g][s] # None
                PROVE  live'[<<g, sticky[g][s]>>]
    BY DEF Pinned, stickyVars
  <2>1. g <= current
    BY <1>2 DEF Sticking, Unused
  <2>2. sticky[g][s] \in Accounts /\ live[<<g, sticky[g][s]>>]
    BY DEF TypeOK, Sticking, Pinned
  <2>. QED
    BY <2>1, <2>2
<1>. QED
  BY <1>1, <1>3, <1>4 DEF Sticking

\* A full map has lost an entry before one is added.
LEMMA StickSticking ==
  ASSUME TypeOK, Sticking, NEW g \in Gens, NEW s \in Sessions, NEW a \in Accounts,
         g <= current, live[<<g, a>>], Stick(g, s, a), UNCHANGED <<current, live>>
  PROVE  Sticking'
<1>1. PICK E \in SUBSET Mapped(g) :
        /\ Cardinality(Mapped(g)) >= MaxSticky => Cardinality(E) = EvictBatch
        /\ sticky' = [sticky EXCEPT ![g] =
             [t \in Sessions |-> IF t = s THEN a ELSE IF t \in E THEN None ELSE sticky[g][t]]]
        /\ stickyAt' = [stickyAt EXCEPT ![g] =
             [t \in Sessions |-> IF t = s THEN now ELSE IF t \in E THEN 0 ELSE stickyAt[g][t]]]
  BY DEF Stick, EvictOldest
<1>2. /\ sticky \in [Gens -> [Sessions -> Accounts \cup {None}]]
      /\ stickyAt \in [Gens -> [Sessions -> Nat]]
      /\ now # 0 /\ None \notin Accounts
  BY PoolAssumption DEF TypeOK
<1>3. ASSUME NEW h \in Gens, h # g PROVE sticky'[h] = sticky[h] /\ stickyAt'[h] = stickyAt[h]
  BY <1>1, <1>2, <1>3
<1>4. ASSUME NEW t \in Sessions
      PROVE  /\ sticky'[g][t] = IF t = s THEN a ELSE IF t \in E THEN None ELSE sticky[g][t]
             /\ stickyAt'[g][t] = IF t = s THEN now ELSE IF t \in E THEN 0 ELSE stickyAt[g][t]
  BY <1>1, <1>2
<1>5. Agree'
  BY <1>2, <1>3, <1>4 DEF Sticking, Agree
<1>6. Pinned'
  BY <1>2, <1>3, <1>4 DEF Sticking, Pinned
<1>7. Unused'
  <2>1. ASSUME NEW h \in Gens, h > current PROVE h # g
    BY <2>1, GensFacts DEF TypeOK
  <2>. QED
    BY <1>3, <2>1 DEF Sticking, Unused
<1>8. Bounded'
  <2>1. ASSUME NEW h \in Gens, h # g PROVE Mapped(h)' = Mapped(h)
    BY <1>3, <2>1 DEF Mapped
  <2>. DEFINE M == Mapped(g)
              R == M \ E
  <2>2. Mapped(g)' = R \cup {s}
    BY <1>2, <1>4 DEF Mapped
  <2>3. IsFiniteSet(M) /\ Cardinality(M) <= MaxSticky /\ Cardinality(M) \in Nat
    BY FS_CardinalityType DEF Sticking, Bounded
  <2>. HIDE DEF M
  <2>4. M \cap E = E /\ IsFiniteSet(E)
    BY <2>3, FS_Subset DEF M
  <2>5. IsFiniteSet(R) /\ Cardinality(R) = Cardinality(M) - Cardinality(E)
    BY <2>3, <2>4, FS_Difference, ZenonT(30)
  <2>6. Cardinality(E) \in Nat /\ MaxSticky \in Nat /\ EvictBatch >= 1
    BY <2>4, FS_CardinalityType, PoolAssumption
  <2>7. Cardinality(R) + 1 <= MaxSticky
    BY <1>1, <2>3, <2>5, <2>6 DEF M
  <2>. HIDE DEF R
  <2>8. IsFiniteSet(R \cup {s}) /\ Cardinality(R \cup {s}) <= MaxSticky
    <3>1. CASE s \in R
      <4>1. R \cup {s} = R /\ Cardinality(R) \in Nat
        BY <2>5, <3>1, FS_CardinalityType
      <4>2. Cardinality(R) <= MaxSticky
        BY <2>6, <2>7, <4>1
      <4>. QED
        BY <2>5, <4>1, <4>2, Zenon
    <3>2. CASE s \notin R
      BY <2>5, <2>7, <3>2, FS_AddElement
    <3>. QED
      BY <3>1, <3>2
  <2>. QED
    BY <2>1, <2>2, <2>8 DEF Sticking, Bounded
<1>. QED
  BY <1>5, <1>6, <1>7, <1>8 DEF Sticking

LEMMA SelectSticking ==
  ASSUME TypeOK, Load, Sticking, NEW r \in Requests, SelectAccount(r)
  PROVE  Sticking'
<1>. DEFINE g == req[r].gen
            s == req[r].sess
<1>1. g \in Gens /\ s \in Sessions \cup {None} /\ g <= current /\ current \in Nat
  BY GensFacts DEF TypeOK, Request, Load, Behind
<1>2. UNCHANGED <<now, current, live>>
  BY DEF SelectAccount, slotVars
<1>3. ASSUME NEW a \in StickyHit(r), stickyAt' = [stickyAt EXCEPT ![g][s] = now],
             UNCHANGED sticky
      PROVE  Sticking'
  <2>1. s \in Sessions /\ sticky[g][s] # None /\ a \in Accounts /\ sticky[g][s] = a
    BY <1>1, <1>3, PoolAssumption DEF StickyHit, Candidates
  <2>2. ASSUME NEW h \in Gens, NEW t \in Sessions
        PROVE  stickyAt'[h][t] = IF h = g /\ t = s THEN now ELSE stickyAt[h][t]
    BY <1>1, <1>3, <2>1 DEF TypeOK
  <2>3. Agree'
    BY <1>3, <2>1, <2>2 DEF Sticking, Agree, TypeOK
  <2>4. Pinned' /\ Bounded' /\ Unused'
    BY <1>2, <1>3 DEF Sticking, Pinned, Bounded, Unused, Mapped
  <2>. QED
    BY <2>3, <2>4 DEF Sticking
<1>4. ASSUME NEW a \in Ranked(g, req[r].excluded),
             IF s # None THEN Stick(g, s, a) ELSE UNCHANGED stickyVars
      PROVE  Sticking'
  <2>1. a \in Accounts /\ live[<<g, a>>]
    BY <1>4 DEF Ranked, Candidates
  <2>2. CASE s # None
    BY <1>1, <1>2, <1>4, <2>1, <2>2, StickSticking
  <2>3. CASE s = None
    BY <1>1, <1>2, <1>4, <2>3, StickyStays
  <2>. QED
    BY <2>2, <2>3
<1>. QED
  BY <1>3, <1>4 DEF SelectAccount

\* The account that goes takes its sessions along.
LEMMA DeleteSticking ==
  ASSUME TypeOK, Sticking, NEW a \in Accounts, DeleteAccount(a)
  PROVE  Sticking'
<1>. DEFINE k == <<current, a>>
<1>1. /\ sticky' = [sticky EXCEPT ![current] =
           [s \in Sessions |-> IF sticky[current][s] = a THEN None ELSE sticky[current][s]]]
      /\ stickyAt' = [stickyAt EXCEPT ![current] =
           [s \in Sessions |-> IF sticky[current][s] = a THEN 0 ELSE stickyAt[current][s]]]
      /\ UNCHANGED current
  BY DEF DeleteAccount
<1>2. /\ sticky \in [Gens -> [Sessions -> Accounts \cup {None}]]
      /\ stickyAt \in [Gens -> [Sessions -> Nat]]
      /\ current \in Gens /\ None \notin Accounts
  BY PoolAssumption DEF TypeOK
<1>3. ASSUME NEW g \in Gens, NEW s \in Sessions
      PROVE  /\ sticky'[g][s] = IF g = current /\ sticky[g][s] = a THEN None ELSE sticky[g][s]
             /\ stickyAt'[g][s] = IF g = current /\ sticky[g][s] = a THEN 0 ELSE stickyAt[g][s]
  BY <1>1, <1>2
<1>4. ASSUME NEW l \in Slots, l # k PROVE live'[l] = live[l]
  BY <1>4 DEF DeleteAccount, Fresh
<1>5. Agree'
  BY <1>2, <1>3 DEF Sticking, Agree
<1>6. Pinned'
  <2>. SUFFICES ASSUME NEW g \in Gens, NEW s \in Sessions, sticky'[g][s] # None
                PROVE  live'[<<g, sticky'[g][s]>>]
    BY DEF Pinned
  <2>1. /\ sticky'[g][s] = sticky[g][s] /\ sticky[g][s] \in Accounts
        /\ ~(g = current /\ sticky[g][s] = a)
    BY <1>2, <1>3
  <2>2. <<g, sticky[g][s]>> \in Slots /\ <<g, sticky[g][s]>> # k
    BY <2>1 DEF Slots
  <2>. QED
    BY <1>4, <2>1, <2>2 DEF Sticking, Pinned
<1>7. Unused'
  BY <1>1, <1>3 DEF Sticking, Unused
<1>8. Bounded'
  <2>. SUFFICES ASSUME NEW g \in Gens
                PROVE  IsFiniteSet(Mapped(g)') /\ Cardinality(Mapped(g)') <= MaxSticky
    BY DEF Bounded
  <2>1. Mapped(g)' \subseteq Mapped(g)
    BY <1>3 DEF Mapped
  <2>2. IsFiniteSet(Mapped(g)) /\ Cardinality(Mapped(g)) <= MaxSticky
    BY DEF Sticking, Bounded
  <2>3. IsFiniteSet(Mapped(g)') /\ Cardinality(Mapped(g)') <= Cardinality(Mapped(g))
    BY <2>1, <2>2, FS_Subset
  <2>4. Cardinality(Mapped(g)) \in Nat /\ Cardinality(Mapped(g)') \in Nat /\ MaxSticky \in Nat
    BY <2>2, <2>3, FS_CardinalityType, PoolAssumption
  <2>. QED
    BY <2>2, <2>3, <2>4
<1>. QED
  BY <1>5, <1>6, <1>7, <1>8 DEF Sticking

LEMMA OperateSticking ==
  ASSUME TypeOK, Sticking, Operate
  PROVE  Sticking'
<1>1. current \in Gens /\ current \in Nat
  BY GensFacts DEF TypeOK
<1>2. ASSUME NEW a \in Accounts, AddOrUpdateAccount(a) PROVE Sticking'
  <2>1. UNCHANGED <<current, stickyVars>>
    BY <1>2 DEF AddOrUpdateAccount, stickyVars
  <2>2. ASSUME NEW k \in Slots, live[k] PROVE live'[k]
    BY <1>2, <2>2 DEF AddOrUpdateAccount, Fresh
  <2>. QED
    BY <1>1, <2>1, <2>2, StickyStays DEF Slots
<1>3. CASE Rebuild
  <2>1. /\ current' = current + 1 /\ UNCHANGED stickyVars
        /\ \E L, E, U : Fresh({current + 1} \X Accounts, L, E, U)
    BY <1>3 DEF Rebuild, stickyVars
  <2>2. ASSUME NEW g \in Gens, NEW a \in Accounts, g <= current, live[<<g, a>>]
        PROVE  live'[<<g, a>>]
    <3>1. <<g, a>> \in Slots /\ <<g, a>> \notin {current + 1} \X Accounts
      BY <1>1, <2>2, GensFacts DEF Slots
    <3>. QED
      BY <2>1, <2>2, <3>1 DEF Fresh
  <2>. QED
    BY <1>1, <2>1, <2>2, StickyStays
<1>4. ASSUME NEW k \in Slots, UpdateAccountRateLimits(k) PROVE Sticking'
  BY <1>1, <1>4, StickyStays DEF UpdateAccountRateLimits, stickyVars
<1>. QED
  BY <1>2, <1>3, <1>4, DeleteSticking DEF Operate

LEMMA NextSticking == TypeOK /\ Load /\ Sticking /\ [Next]_vars => Sticking'
<1>. SUFFICES ASSUME TypeOK, Load, Sticking, [Next]_vars PROVE Sticking'
  OBVIOUS
<1>1. current \in Nat
  BY GensFacts DEF TypeOK
<1>2. CASE UNCHANGED <<current, live, stickyVars>>
  BY <1>1, <1>2, StickyStays
<1>3. Tick \/ UNCHANGED vars => UNCHANGED <<current, live, stickyVars>>
  BY DEF Tick, vars, slotVars
<1>4. ASSUME NEW r \in Requests,
             \/ \E s \in Sessions \cup {None} : Start(r, s)
             \/ \E a \in Accounts : StartBump(r, a)
             \/ GiveUp(r) \/ Acquire(r) \/ TransportError(r) \/ RateLimited(r)
             \/ UpstreamError(r) \/ Answer(r) \/ Finish(r)
      PROVE  UNCHANGED <<current, live, stickyVars>>
  BY <1>4 DEF Start, StartBump, GiveUp, Acquire, TransportError, RateLimited, UpstreamError,
              Answer, Finish, slotVars
<1>. QED
  BY <1>2, <1>3, <1>4, SelectSticking, OperateSticking DEF Next, Serve

LEMMA StickingInvariant == Spec => [](TypeOK /\ Sticking)
BY InitSticking, NextSticking, InitLoad, NextLoad, TypeCorrect, PTL DEF Spec

\* The two maps of sessions agree, hold only accounts of the pool, and a full
\* one evicts before it grows, however long the pool lives (pool.go,
\* SelectAccount and evictOldestSticky).
THEOREM StickyCorrect == Spec => []StickySound
<1>1. Sticking => StickySound
  BY DEF Sticking, Agree, Pinned, Bounded, StickySound
<1>. QED
  BY <1>1, StickingInvariant, PTL

\* A session changes its account only when its own account cannot serve it, or
\* has just failed the request that moves it: SelectAccount looks at the
\* session's account before it ranks the others.
THEOREM AffinityHolds == Spec => AffinityKept
<1>. DEFINE Kept ==
       \A g \in Gens, s \in Sessions :
         LET a == sticky[g][s]  b == sticky'[g][s] IN
         (a # None /\ b # None /\ b # a) =>
           \/ ~Healthy(<<g, a>>)
           \/ \E r \in Requests : req[r].sess = s /\ a \in req[r].excluded
<1>1. ASSUME TypeOK, Sticking, Next PROVE Kept
  <2>. SUFFICES ASSUME NEW g \in Gens, NEW s \in Sessions,
                       sticky[g][s] # None, sticky'[g][s] # None, sticky'[g][s] # sticky[g][s],
                       Healthy(<<g, sticky[g][s]>>)
                PROVE  \E r \in Requests : req[r].sess = s /\ sticky[g][s] \in req[r].excluded
    OBVIOUS
  <2>1. sticky # sticky' /\ sticky \in [Gens -> [Sessions -> Accounts \cup {None}]]
    BY <1>1 DEF TypeOK
  <2>2. ASSUME NEW a \in Accounts PROVE ~DeleteAccount(a)
    <3>. SUFFICES ASSUME DeleteAccount(a) PROVE FALSE
      OBVIOUS
    <3>1. sticky' = [sticky EXCEPT ![current] =
            [t \in Sessions |-> IF sticky[current][t] = a THEN None ELSE sticky[current][t]]]
      BY DEF DeleteAccount
    <3>2. sticky'[g][s] = IF g = current /\ sticky[g][s] = a THEN None ELSE sticky[g][s]
      BY <2>1, <3>1
    <3>. QED
      BY <3>2
  <2>3. PICK r \in Requests : SelectAccount(r)
    BY <1>1, <2>1, <2>2 DEF Next, Serve, Operate, Tick, Start, StartBump, GiveUp, Acquire,
         TransportError, RateLimited, UpstreamError, Answer, Finish, AddOrUpdateAccount,
         UpdateAccountRateLimits, Rebuild, stickyVars
  <2>4. PICK a \in Accounts : /\ StickyHit(r) = {} /\ req[r].sess # None
                              /\ Stick(req[r].gen, req[r].sess, a)
    BY <2>1, <2>3 DEF SelectAccount, Ranked, Candidates, stickyVars
  <2>5. req[r].gen \in Gens /\ req[r].sess \in Sessions
    BY <1>1, <2>4 DEF TypeOK, Request
  <2>6. PICK E \in SUBSET Sessions :
          sticky' = [sticky EXCEPT ![req[r].gen] =
            [t \in Sessions |-> IF t = req[r].sess THEN a
                                ELSE IF t \in E THEN None ELSE sticky[req[r].gen][t]]]
    BY <2>4 DEF Stick, Mapped
  <2>7. g = req[r].gen /\ s = req[r].sess
    BY <2>1, <2>5, <2>6
  <2>8. live[<<g, sticky[g][s]>>] /\ sticky[g][s] \in Accounts
    BY <1>1, <2>1 DEF Sticking, Pinned
  <2>. QED
    BY <2>4, <2>7, <2>8 DEF StickyHit, Candidates
<1>2. ASSUME UNCHANGED vars PROVE Kept
  BY <1>2 DEF vars, stickyVars
<1>3. TypeOK /\ Sticking /\ [Next]_vars => [Kept]_vars
  BY <1>1, <1>2
<1>. HIDE DEF Kept
<1>4. Spec => [][Kept]_vars
  BY <1>3, StickingInvariant, PTL DEF Spec
<1>. QED
  BY <1>4 DEF AffinityKept, Kept

-----------------------------------------------------------------------------
(***************************************************************************)
(* The locks of the pool: what each operation takes and releases follows   *)
(* one order, and so nobody waits in a circle.                             *)
(***************************************************************************)

Events == {"Lock", "Unlock", "RLock", "RUnlock"} \X Locks

\* The locks a goroutine holds for writing and for reading.
Holding == [w : SUBSET Locks, r : SUBSET Locks]
Nothing == [w |-> {}, r |-> {}]

\* The order of the locks, and when one may be asked for: when it comes after all
\* that are held, or is a further account of the ranking, which has the pool for itself.
Below(m, l) == (m = Gate /\ l # Gate) \/ (m = Pool /\ l \in Guarded)
MayAsk(kind, l, h) ==
  \/ \A m \in h.w \cup h.r : Below(m, l)
  \/ /\ kind = "RLock" /\ l \in Guarded /\ l \notin h.r
     /\ Pool \in h.w /\ h.w \cap Guarded = {} /\ h.r \subseteq Guarded

\* One event, from what is held before to what is held after.
Taken(e, h, k) ==
  \/ e[1] = "Lock" /\ MayAsk("Lock", e[2], h) /\ k = [w |-> h.w \cup {e[2]}, r |-> h.r]
  \/ e[1] = "RLock" /\ MayAsk("RLock", e[2], h) /\ k = [w |-> h.w, r |-> h.r \cup {e[2]}]
  \/ e[1] = "Unlock" /\ e[2] \in h.w /\ k = [w |-> h.w \ {e[2]}, r |-> h.r]
  \/ e[1] = "RUnlock" /\ e[2] \in h.r /\ k = [w |-> h.w, r |-> h.r \ {e[2]}]

\* What is left of a program obeys the order from h on, and ends with nothing held.
Trace(p, h, t) ==
  /\ t \in [0 .. Len(p) -> Holding]
  /\ t[0] = h /\ t[Len(p)] = Nothing
  /\ \A i \in 1 .. Len(p) : Taken(p[i], t[i-1], t[i])
Runs(p, h) == \E t : Trace(p, h, t)

LEMMA LeastNumber ==
  ASSUME NEW T, T \subseteq Nat, T # {}
  PROVE  \E m \in T : \A n \in T : m <= n
<1>1. PICK m \in T : \A n \in T : ~(<<n, m>> \in OpToRel(<, Nat))
      BY WFMin, NatLessThanWellFounded
<1>2. \A n \in T : ~(n < m) BY <1>1 DEF OpToRel
<1> QED BY <1>2

\* The end of a program, and a program with one event, two or many before it.
LEMMA RunsEnd == Runs(<< >>, Nothing)
<1>1. Trace(<< >>, Nothing, [i \in 0 .. 0 |-> Nothing]) BY DEF Trace, Holding, Nothing
<1> QED BY <1>1 DEF Runs

LEMMA RunsTail ==
  ASSUME NEW p \in Seq(Events), p # << >>, NEW h \in Holding, Runs(p, h)
  PROVE  \E k \in Holding : Taken(Head(p), h, k) /\ Runs(Tail(p), k)
<1>1. PICK t : Trace(p, h, t) BY DEF Runs
<1> DEFINE n == Len(p) - 1
           u == [i \in 0 .. n |-> t[i + 1]]
           q == Tail(p)
<1>2. n \in Nat /\ Len(q) = n /\ \A i \in 1 .. n : q[i] = p[i + 1] OBVIOUS
<1>3. u \in [0 .. n -> Holding]
      BY <1>1, <1>2 DEF Trace
<1>4. u[0] = t[1] /\ u[n] = t[Len(p)] BY <1>2
<1>5. ASSUME NEW i \in 1 .. n PROVE Taken(q[i], u[i-1], u[i])
  <2>1. i + 1 \in 1 .. Len(p) /\ (i + 1) - 1 = i /\ i - 1 \in 0 .. n /\ (i - 1) + 1 = i BY <1>2
  <2>2. Taken(p[i + 1], t[i], t[i + 1]) BY <1>1, <2>1 DEF Trace
  <2>3. u[i-1] = t[i] /\ u[i] = t[i+1] BY <2>1
  <2> HIDE DEF u, q
  <2> QED BY <1>2, <2>2, <2>3
<1> HIDE DEF u, q
<1>6. Trace(q, t[1], u)
      BY <1>1, <1>2, <1>3, <1>4, <1>5 DEF Trace
<1>7. Taken(Head(p), h, t[1]) /\ t[1] \in Holding
  <2>1. 1 \in 1 .. Len(p) /\ p[1] = Head(p) /\ 1 - 1 = 0 /\ 1 \in 0 .. Len(p) BY <1>2
  <2> QED BY <1>1, <2>1 DEF Trace
<1> QED BY <1>6, <1>7 DEF Runs, q

LEMMA RunsOne ==
  ASSUME NEW e \in Events, NEW p \in Seq(Events), NEW h \in Holding, NEW k \in Holding,
         Taken(e, h, k), Runs(p, k)
  PROVE  Runs(<<e>> \o p, h)
<1>1. PICK t : Trace(p, k, t) BY DEF Runs
<1> DEFINE n == Len(p)
           q == <<e>> \o p
           u == [i \in 0 .. n + 1 |-> IF i = 0 THEN h ELSE t[i - 1]]
<1>2. n \in Nat /\ Len(q) = n + 1 /\ q[1] = e /\ \A i \in 2 .. n + 1 : q[i] = p[i - 1] OBVIOUS
<1>3. u \in [0 .. n + 1 -> Holding] BY <1>1, <1>2 DEF Trace
<1>4. u[0] = h /\ u[1] = k /\ u[n + 1] = Nothing BY <1>1, <1>2 DEF Trace
<1>5. ASSUME NEW i \in 1 .. n + 1 PROVE Taken(q[i], u[i-1], u[i])
  <2>1. CASE i = 1 BY <1>2, <1>4, <2>1
  <2>2. CASE i # 1
    <3>1. i - 1 \in 1 .. n /\ i \in 2 .. n + 1 BY <1>2, <2>2
    <3>2. u[i-1] = t[(i-1)-1] /\ u[i] = t[i-1] /\ q[i] = p[i-1] BY <1>2, <3>1
    <3>3. Taken(p[i-1], t[(i-1)-1], t[i-1]) BY <1>1, <3>1 DEF Trace
    <3> HIDE DEF u, q
    <3> QED BY <3>2, <3>3
  <2> QED BY <2>1, <2>2
<1> HIDE DEF u
<1>6. Trace(q, h, u) BY <1>2, <1>3, <1>4, <1>5 DEF Trace
<1> QED BY <1>6 DEF Runs

LEMMA RunsEach ==
  ASSUME NEW order \in Seq(Guarded), NEW p \in Seq(Events), NEW h \in Holding,
         (h.w \cup h.r) \cap Guarded = {}, Runs(p, h)
  PROVE  Each(order) \in Seq(Events) /\ Runs(Each(order) \o p, h)
<1>1. PICK t : Trace(p, h, t) BY DEF Runs
<1> DEFINE n == Len(order)
           m == Len(p)
           s == Each(order)
           q == s \o p
           With(a) == [w |-> h.w, r |-> h.r \cup {a}]
           u == [i \in 0 .. 2 * n + m |->
                   IF i > 2 * n THEN t[i - 2 * n]
                   ELSE IF i % 2 = 1 THEN With(order[(i + 1) \div 2]) ELSE h]
<1>2. n \in Nat /\ m \in Nat OBVIOUS
<1>3. ASSUME NEW i \in 0 .. 2 * n
      PROVE  \/ i = 0
             \/ \E k \in 1 .. n : i = 2 * k - 1 /\ i % 2 = 1 /\ (i + 1) \div 2 = k
             \/ \E k \in 1 .. n : i = 2 * k /\ i % 2 = 0 /\ i \div 2 = k
  <2>1. i % 2 = 0 \/ i % 2 = 1 BY <1>2
  <2>2. CASE i % 2 = 1
    <3>1. (i + 1) \div 2 \in 1 .. n /\ i = 2 * ((i + 1) \div 2) - 1 BY <1>2, <2>2
    <3> QED BY <2>2, <3>1
  <2>3. CASE i % 2 = 0 /\ i # 0
    <3>1. i \div 2 \in 1 .. n /\ i = 2 * (i \div 2) BY <1>2, <2>3
    <3> QED BY <2>3, <3>1
  <2> QED BY <2>1, <2>2, <2>3
<1>4. \A k \in 1 .. n : order[k] \in Guarded OBVIOUS
<1>5. s \in Seq(Events) /\ Len(s) = 2 * n
  <2>1. ASSUME NEW i \in 1 .. 2 * n
        PROVE  (IF i % 2 = 1 THEN RLock(order[(i + 1) \div 2]) ELSE RUnlock(order[i \div 2])) \in Events
    <3>1. i \in 0 .. 2 * n /\ i # 0 BY <1>2
    <3> QED BY <1>3, <1>4, <3>1 DEF RLock, RUnlock, Events, Locks
  <2> QED BY <1>2, <2>1 DEF Each
<1>6. /\ Len(q) = 2 * n + m /\ \A i \in 1 .. 2 * n : q[i] = s[i]
      /\ \A i \in 2 * n + 1 .. 2 * n + m : q[i] = p[i - 2 * n]
  <2>1. p \in Seq(Events) OBVIOUS
  <2> HIDE DEF s
  <2>2. /\ Len(q) = Len(s) + Len(p)
        /\ \A i \in 1 .. Len(s) + Len(p) : q[i] = IF i <= Len(s) THEN s[i] ELSE p[i - Len(s)]
        BY <1>5, <2>1, ConcatProperties
  <2> HIDE DEF q
  <2> QED BY <1>2, <1>5, <2>2
<1>7. \A a \in Guarded : With(a) \in Holding BY DEF Holding, Locks
<1>8. u \in [0 .. 2 * n + m -> Holding]
  <2>1. ASSUME NEW i \in 0 .. 2 * n + m PROVE u[i] \in Holding
    <3>1. CASE i > 2 * n
      <4>1. i - 2 * n \in 0 .. m BY <1>2, <3>1
      <4> QED BY <1>1, <3>1, <4>1 DEF Trace
    <3>2. CASE i <= 2 * n
      <4>1. i \in 0 .. 2 * n /\ ~(i > 2 * n) BY <1>2, <3>2
      <4>2. ASSUME i % 2 = 1 PROVE order[(i + 1) \div 2] \in Guarded
            BY <1>3, <1>4, <4>1, <4>2
      <4>3. u[i] = IF i % 2 = 1 THEN With(order[(i + 1) \div 2]) ELSE h BY <4>1
      <4> HIDE DEF With, u
      <4> QED BY <1>7, <4>2, <4>3
    <3> QED BY <1>2, <3>1, <3>2
  <2> HIDE DEF With
  <2> QED BY <2>1
<1>9. u[0] = h /\ u[2 * n + m] = Nothing /\ u[2 * n] = h
  <2>1. (2 * n) % 2 = 0 /\ 0 % 2 = 0 BY <1>2
  <2>2. m = 0 => h = Nothing BY <1>1 DEF Trace
  <2>3. 2 * n + m > 2 * n => t[(2 * n + m) - 2 * n] = Nothing
        BY <1>1, <1>2 DEF Trace
  <2>4. /\ 0 \in 0 .. 2 * n + m /\ 2 * n \in 0 .. 2 * n + m /\ 2 * n + m \in 0 .. 2 * n + m
        /\ ~(0 > 2 * n) /\ ~(2 * n > 2 * n) /\ (m = 0 \/ 2 * n + m > 2 * n)
        BY <1>2
  <2>5. u[0] = h /\ u[2 * n] = h BY <2>1, <2>4
  <2>6. m # 0 => u[2 * n + m] = Nothing BY <2>3, <2>4
  <2> HIDE DEF u
  <2> QED BY <1>2, <2>2, <2>5, <2>6
<1>10. ASSUME NEW k \in 1 .. n
       PROVE /\ Taken(q[2 * k - 1], u[2 * k - 2], u[2 * k - 1])
             /\ Taken(q[2 * k], u[2 * k - 1], u[2 * k])
  <2> DEFINE a == order[k]
  <2>1. /\ 2 * k - 1 \in 1 .. 2 * n /\ 2 * k \in 1 .. 2 * n /\ 2 * k - 2 \in 0 .. 2 * n
        /\ (2 * k - 1) % 2 = 1 /\ (2 * k) % 2 = 0 /\ (2 * k - 2) % 2 = 0
        /\ ((2 * k - 1) + 1) \div 2 = k /\ (2 * k) \div 2 = k
        BY <1>2
  <2>8. q[2 * k - 1] = s[2 * k - 1] /\ q[2 * k] = s[2 * k] BY <1>6, <2>1
  <2>2. q[2 * k - 1] = RLock(a) /\ q[2 * k] = RUnlock(a)
    <3>1. s[2 * k - 1] = RLock(a) /\ s[2 * k] = RUnlock(a) BY <2>1 DEF Each
    <3> HIDE DEF s, q
    <3> QED BY <2>8, <3>1
  <2>3. u[2 * k - 2] = h /\ u[2 * k - 1] = With(a) /\ u[2 * k] = h
    <3>1. /\ 2 * k - 2 \in 0 .. 2 * n + m /\ 2 * k - 1 \in 0 .. 2 * n + m
          /\ 2 * k \in 0 .. 2 * n + m
          /\ ~(2 * k - 2 > 2 * n) /\ ~(2 * k - 1 > 2 * n) /\ ~(2 * k > 2 * n)
          BY <1>2
    <3>2. u[2 * k - 2] = h /\ u[2 * k] = h BY <2>1, <3>1
    <3>3. u[2 * k - 1] = With(order[((2 * k - 1) + 1) \div 2]) BY <2>1, <3>1
    <3> HIDE DEF u, With
    <3> QED BY <2>1, <3>2, <3>3
  <2>4. a \in Guarded /\ a \notin h.w \cup h.r BY <1>4
  <2>5. \A x \in h.w \cup h.r : Below(x, a)
        BY <2>4 DEF Below, Holding, Locks
  <2>6. Taken(RLock(a), h, With(a)) BY <2>5 DEF Taken, RLock, MayAsk
  <2>7. Taken(RUnlock(a), With(a), h) BY <2>4 DEF Taken, RUnlock, Holding
  <2> HIDE DEF a, With, u, q
  <2> QED BY <2>2, <2>3, <2>6, <2>7
<1>11. ASSUME NEW i \in 1 .. 2 * n + m PROVE Taken(q[i], u[i-1], u[i])
  <2>1. CASE i <= 2 * n
    <3>1. i \in 0 .. 2 * n /\ i # 0 BY <1>2, <2>1
    <3>2. \E k \in 1 .. n : i = 2 * k - 1 \/ i = 2 * k BY <1>3, <3>1
    <3>3. PICK k \in 1 .. n : i = 2 * k - 1 \/ i = 2 * k BY <3>2
    <3>4. (2 * k - 1) - 1 = 2 * k - 2 BY <3>3
    <3> HIDE DEF u, q
    <3> QED BY <1>10, <3>3, <3>4
  <2>2. CASE i > 2 * n
    <3> DEFINE j == i - 2 * n
    <3>1. j \in 1 .. m /\ i - 1 \in 0 .. 2 * n + m BY <1>2, <2>2
    <3>2. u[i] = t[j] BY <2>2
    <3>3. u[i-1] = t[j-1]
      <4>1. CASE j = 1
        <5>1. i - 1 = 2 * n /\ j - 1 = 0 BY <1>2, <4>1
        <5>2. t[0] = h BY <1>1 DEF Trace
        <5> HIDE DEF u
        <5> QED BY <1>9, <5>1, <5>2
      <4>2. CASE j # 1
        <5>1. i - 1 > 2 * n /\ (i - 1) - 2 * n = j - 1 BY <1>2, <3>1, <4>2
        <5> HIDE DEF j
        <5> QED BY <3>1, <5>1
      <4> QED BY <4>1, <4>2
    <3>4. q[i] = p[j] BY <1>2, <1>6, <2>2
    <3>5. Taken(p[j], t[j-1], t[j]) BY <1>1, <3>1 DEF Trace
    <3> HIDE DEF u, q, j
    <3> QED BY <3>2, <3>3, <3>4, <3>5
  <2>3. i <= 2 * n \/ i > 2 * n BY <1>2
  <2> HIDE DEF u, q
  <2> QED BY <2>1, <2>2, <2>3
<1> HIDE DEF u
<1>12. Trace(q, h, u) BY <1>6, <1>8, <1>9, <1>11 DEF Trace
<1> QED BY <1>5, <1>12 DEF Runs

LEMMA Assoc ==
  ASSUME NEW s \in Seq(Events), NEW t \in Seq(Events), NEW u \in Seq(Events)
  PROVE  (s \o t) \o u = s \o (t \o u) /\ s \o t \in Seq(Events)
<1>1. (s \o t) \o u = s \o (t \o u) BY ConcatAssociative
<1>2. s \o t \in Seq(Events) BY ConcatProperties
<1> QED BY <1>1, <1>2

Associative(s, t, u) == (s \o t) \o u = s \o (t \o u)

LEMMA AssocHolds ==
  ASSUME NEW s \in Seq(Events), NEW t \in Seq(Events), NEW u \in Seq(Events)
  PROVE  Associative(s, t, u)
BY Assoc DEF Associative

\* Tuples of two and four events.
LEMMA Two ==
  ASSUME NEW e \in Events, NEW f \in Events, NEW p \in Seq(Events)
  PROVE  <<e>> \o (<<f>> \o p) = <<e, f>> \o p
<1> DEFINE s == <<e>> \o (<<f>> \o p)
           t == <<e, f>> \o p
<1>1. s \in Seq(Events) /\ t \in Seq(Events) OBVIOUS
<1>2. Len(s) = Len(p) + 2 /\ Len(t) = Len(p) + 2 OBVIOUS
<1>3. ASSUME NEW i \in 1 .. Len(p) + 2 PROVE s[i] = t[i] OBVIOUS
<1> HIDE DEF s, t
<1>4. s = t BY <1>1, <1>2, <1>3, SeqEqual
<1> QED BY <1>4 DEF s, t

Between(e, f, g, h) == <<e>> \o (<<f, g>> \o <<h>>) = <<e, f, g, h>>

LEMMA TwoAndTwo ==
  ASSUME NEW e \in Events, NEW f \in Events, NEW g \in Events, NEW h \in Events
  PROVE  <<e, f>> \o <<g, h>> = <<e, f, g, h>> /\ Between(e, f, g, h)
<1> DEFINE s == <<e, f>> \o <<g, h>>
           u == <<e>> \o (<<f, g>> \o <<h>>)
           t == <<e, f, g, h>>
<1>1. s \in Seq(Events) /\ t \in Seq(Events) /\ u \in Seq(Events) OBVIOUS
<1>2. Len(s) = 4 /\ Len(t) = 4 /\ Len(u) = 4 OBVIOUS
<1>3. ASSUME NEW i \in 1 .. 4 PROVE s[i] = t[i] OBVIOUS
<1>4. ASSUME NEW i \in 1 .. 4 PROVE u[i] = t[i] OBVIOUS
<1> HIDE DEF s, t, u
<1>5. s = t BY <1>1, <1>2, <1>3, SeqEqual
<1>6. u = t BY <1>1, <1>2, <1>4, SeqEqual
<1> QED BY <1>5, <1>6 DEF s, t, u, Between

\* Programs put together from their ends.
Good(p, h) == p \in Seq(Events) /\ Runs(p, h)

LEMMA GoodOne ==
  ASSUME NEW e \in Events, NEW p, NEW h \in Holding, NEW k \in Holding,
         Taken(e, h, k), Good(p, k)
  PROVE  Good(<<e>> \o p, h)
BY RunsOne DEF Good

LEMMA GoodFour ==
  ASSUME NEW e \in Events, NEW f \in Events, NEW g \in Events, NEW h \in Events,
         NEW p \in Seq(Events), NEW x, Good(<<e>> \o (<<f>> \o (<<g>> \o (<<h>> \o p))), x)
  PROVE  Good(<<e, f, g, h>> \o p, x)
<1> DEFINE q == <<g>> \o (<<h>> \o p)
           gh == <<g, h>>
           ef == <<e, f>>
<1>1. q = gh \o p BY Two
<1>2. gh \in Seq(Events) /\ ef \in Seq(Events) OBVIOUS
<1>3. <<e, f, g, h>> = ef \o gh BY TwoAndTwo
<1>4. gh \o p \in Seq(Events)
  <2> HIDE DEF gh
  <2> QED BY <1>2, Assoc
<1>5. <<e>> \o (<<f>> \o q) = ef \o q
  <2>1. q \in Seq(Events) BY <1>1, <1>4
  <2> HIDE DEF q
  <2> QED BY <2>1, Two
<1>7. Good(<<e>> \o (<<f>> \o q), x) OBVIOUS
<1> HIDE DEF gh, ef, q
<1>6. ef \o (gh \o p) = (ef \o gh) \o p BY <1>2, Assoc
<1>8. Good((ef \o gh) \o p, x) BY <1>1, <1>5, <1>6, <1>7
<1>9. Good(<<e, f, g, h>> \o p, x) BY <1>3, <1>8
<1> QED BY <1>9

LEMMA GoodLast ==
  ASSUME NEW e \in Events, NEW h \in Holding, Taken(e, h, Nothing)
  PROVE  Good(<<e>>, h)
<1>1. Good(<< >>, Nothing) /\ Nothing \in Holding BY RunsEnd DEF Good, Nothing, Holding
<1>2. Good(<<e>> \o << >>, h) BY <1>1, GoodOne
<1>3. <<e>> \o << >> = <<e>> BY ConcatEmptySeq DEF Events
<1> QED BY <1>2, <1>3

LEMMA GoodVisit ==
  ASSUME NEW l \in Locks, NEW h \in Holding, \A m \in h.w \cup h.r : Below(m, l),
         NEW p, Good(p, h)
  PROVE  /\ Good(<<Lock(l), Unlock(l)>> \o p, h)
         /\ Good(<<RLock(l), RUnlock(l)>> \o p, h)
<1>1. l \notin h.w \cup h.r BY LocksAssumption DEF LocksAssumption, Below
<1> DEFINE k == [w |-> h.w \cup {l}, r |-> h.r]
           j == [w |-> h.w, r |-> h.r \cup {l}]
<1>2. k \in Holding /\ j \in Holding BY DEF Holding
<1>3. Lock(l) \in Events /\ Unlock(l) \in Events /\ RLock(l) \in Events /\ RUnlock(l) \in Events
      BY DEF Lock, Unlock, RLock, RUnlock, Events
<1>4. Taken(Lock(l), h, k) /\ Taken(RLock(l), h, j)
      BY DEF Taken, MayAsk, Lock, RLock
<1>5. Taken(Unlock(l), k, h) /\ Taken(RUnlock(l), j, h)
      BY <1>1 DEF Taken, Unlock, RUnlock, Holding
<1> HIDE DEF k, j
<1>6. Good(<<Unlock(l)>> \o p, k) /\ Good(<<RUnlock(l)>> \o p, j)
      BY <1>2, <1>3, <1>5, GoodOne
<1>7. Good(<<Lock(l)>> \o (<<Unlock(l)>> \o p), h) /\ Good(<<RLock(l)>> \o (<<RUnlock(l)>> \o p), h)
      BY <1>2, <1>3, <1>4, <1>6, GoodOne
<1>8. p \in Seq(Events) BY DEF Good
<1>9. \A e, f \in Events : <<e>> \o (<<f>> \o p) = <<e, f>> \o p BY <1>8, Two
<1> QED BY <1>3, <1>7, <1>9

LEMMA GoodEach ==
  ASSUME NEW order \in Seq(Guarded), NEW p, NEW h \in Holding,
         (h.w \cup h.r) \cap Guarded = {}, Good(p, h)
  PROVE  Each(order) \in Seq(Events) /\ Good(Each(order) \o p, h)
<1>1. p \in Seq(Events) /\ Runs(p, h) BY DEF Good
<1>2. Each(order) \in Seq(Events) /\ Runs(Each(order) \o p, h) BY <1>1, RunsEach
<1>3. Each(order) \o p \in Seq(Events) BY <1>1, <1>2, Assoc
<1> QED BY <1>2, <1>3 DEF Good

-----------------------------------------------------------------------------
(* The operations *)

SafeOps == {"SelectAccount", "AddOrUpdateAccount", "DeleteAccount", "Acquire",
            "RecordRateLimit", "Snapshots", "RefreshAccountToken", "InheritUnified"}

HasPool == [w |-> {Pool}, r |-> {}]
ReadsPool == [w |-> {}, r |-> {Pool}]
HasGate == [w |-> {Gate}, r |-> {}]

LEMMA Holdings ==
  /\ Nothing \in Holding /\ HasPool \in Holding /\ ReadsPool \in Holding /\ HasGate \in Holding
  /\ \A l \in Locks : /\ Lock(l) \in Events /\ Unlock(l) \in Events
                      /\ RLock(l) \in Events /\ RUnlock(l) \in Events
  /\ Pool \in Locks /\ Gate \in Locks /\ Guarded \subseteq Locks
  /\ Pool \notin Guarded /\ Gate \notin Guarded /\ Pool # Gate
BY LocksAssumption DEF LocksAssumption, Nothing, HasPool, ReadsPool, HasGate, Holding, Locks,
   Events, Lock, Unlock, RLock, RUnlock

LEMMA LooksGood ==
  ASSUME NEW p, NEW h \in {Nothing, HasGate}, Good(p, h)
  PROVE  Look \in Seq(Events) /\ Good(Look \o p, h)
<1>1. \A m \in h.w \cup h.r : Below(m, Pool)
      BY Holdings DEF Nothing, HasGate, Below
<1>2. h \in Holding BY Holdings
<1>3. Look \in Seq(Events) BY Holdings DEF Look
<1> QED BY <1>1, <1>2, <1>3, Holdings, GoodVisit DEF Look

LEMMA AccountGood ==
  ASSUME NEW a \in Guarded, NEW p, NEW h \in {Nothing, HasPool}, Good(p, h)
  PROVE  /\ <<Lock(a), Unlock(a)>> \in Seq(Events) /\ Good(<<Lock(a), Unlock(a)>> \o p, h)
         /\ <<RLock(a), RUnlock(a)>> \in Seq(Events) /\ Good(<<RLock(a), RUnlock(a)>> \o p, h)
<1>1. \A m \in h.w \cup h.r : Below(m, a)
      BY Holdings DEF Nothing, HasPool, Below
<1>2. h \in Holding /\ a \in Locks BY Holdings
<1>3. <<Lock(a), Unlock(a)>> \in Seq(Events) /\ <<RLock(a), RUnlock(a)>> \in Seq(Events)
      BY <1>2, Holdings
<1> QED BY <1>1, <1>2, <1>3, GoodVisit

LEMMA EmptyGood == Good(<< >>, Nothing)
BY RunsEnd DEF Good

LEMMA CompareGood ==
  ASSUME NEW a \in Guarded, NEW b \in Guarded, a # b, NEW p, Good(p, HasPool)
  PROVE  Compare(a, b) \in Seq(Events) /\ Good(Compare(a, b) \o p, HasPool)
<1> DEFINE j == [w |-> {Pool}, r |-> {a}]
           k == [w |-> {Pool}, r |-> {a, b}]
<1>1. j \in Holding /\ k \in Holding /\ HasPool \in Holding BY Holdings DEF Holding
<1>2. RLock(a) \in Events /\ RLock(b) \in Events /\ RUnlock(b) \in Events /\ RUnlock(a) \in Events
      BY Holdings
<1>3. Taken(RLock(a), HasPool, j)
      BY Holdings DEF Taken, RLock, MayAsk, Below, HasPool
<1>4. Taken(RLock(b), j, k)
      BY Holdings DEF Taken, RLock, MayAsk
<1>5. Taken(RUnlock(b), k, j) BY DEF Taken, RUnlock
<1>6. Taken(RUnlock(a), j, HasPool) BY DEF Taken, RUnlock, HasPool
<1> HIDE DEF j, k
<1>7. Good(<<RUnlock(a)>> \o p, j) BY <1>1, <1>2, <1>6, GoodOne
<1>8. Good(<<RUnlock(b)>> \o (<<RUnlock(a)>> \o p), k) BY <1>1, <1>2, <1>5, <1>7, GoodOne
<1>9. Good(<<RLock(b)>> \o (<<RUnlock(b)>> \o (<<RUnlock(a)>> \o p)), j)
      BY <1>1, <1>2, <1>4, <1>8, GoodOne
<1>10. Good(<<RLock(a)>> \o (<<RLock(b)>> \o (<<RUnlock(b)>> \o (<<RUnlock(a)>> \o p))), HasPool)
      BY <1>1, <1>2, <1>3, <1>9, GoodOne
<1>11. Good(<<RLock(a), RLock(b), RUnlock(b), RUnlock(a)>> \o p, HasPool)
      BY <1>2, <1>10, GoodFour DEF Good
<1>12. Compare(a, b) \in Seq(Events) BY <1>2 DEF Compare
<1> QED BY <1>11, <1>12 DEF Compare

LEMMA SnapshotsGood ==
  ASSUME NEW order \in Seq(Guarded) PROVE Good(SnapshotsLocks(order), Nothing)
<1>1. RLock(Pool) \in Events /\ RUnlock(Pool) \in Events BY Holdings
<1>2. Taken(RLock(Pool), Nothing, ReadsPool)
      BY DEF Taken, RLock, MayAsk, Nothing, ReadsPool
<1>3. Taken(RUnlock(Pool), ReadsPool, Nothing) BY DEF Taken, RUnlock, Nothing, ReadsPool
<1>4. Good(<<RUnlock(Pool)>>, ReadsPool) BY <1>1, <1>3, Holdings, GoodLast
<1>5. Each(order) \in Seq(Events) /\ Good(Each(order) \o <<RUnlock(Pool)>>, ReadsPool)
  <2>1. (ReadsPool.w \cup ReadsPool.r) \cap Guarded = {} BY Holdings DEF ReadsPool
  <2> QED BY <1>4, <2>1, Holdings, GoodEach
<1>6. Good(<<RLock(Pool)>> \o (Each(order) \o <<RUnlock(Pool)>>), Nothing)
      BY <1>1, <1>2, <1>5, Holdings, GoodOne
<1>7. <<RLock(Pool)>> \in Seq(Events) /\ <<RUnlock(Pool)>> \in Seq(Events) BY <1>1
<1>8. (<<RLock(Pool)>> \o Each(order)) \o <<RUnlock(Pool)>>
        = <<RLock(Pool)>> \o (Each(order) \o <<RUnlock(Pool)>>)
      BY <1>5, <1>7, Assoc
<1> QED BY <1>6, <1>8 DEF SnapshotsLocks

LEMMA InheritGood ==
  ASSUME NEW order \in Seq(Guarded) PROVE Good(InheritUnifiedLocks(order), Nothing)
<1>1. Lock(Gate) \in Events /\ Unlock(Gate) \in Events BY Holdings
<1>2. Taken(Lock(Gate), Nothing, HasGate)
      BY DEF Taken, Lock, MayAsk, Nothing, HasGate
<1>3. Taken(Unlock(Gate), HasGate, Nothing) BY DEF Taken, Unlock, Nothing, HasGate
<1>4. Good(<<Unlock(Gate)>>, HasGate) BY <1>1, <1>3, Holdings, GoodLast
<1>5. Each(order) \in Seq(Events) /\ Good(Each(order) \o <<Unlock(Gate)>>, HasGate)
  <2>1. (HasGate.w \cup HasGate.r) \cap Guarded = {} BY Holdings DEF HasGate
  <2> QED BY <1>4, <2>1, Holdings, GoodEach
<1>6. Look \in Seq(Events) /\ Good(Look \o (Each(order) \o <<Unlock(Gate)>>), HasGate)
      BY <1>5, LooksGood
<1>7. Good(<<Lock(Gate)>> \o (Look \o (Each(order) \o <<Unlock(Gate)>>)), Nothing)
      BY <1>1, <1>2, <1>6, Holdings, GoodOne
<1>8. <<Lock(Gate)>> \in Seq(Events) /\ <<Unlock(Gate)>> \in Seq(Events) BY <1>1
<1>9. ((<<Lock(Gate)>> \o Look) \o Each(order)) \o <<Unlock(Gate)>>
        = <<Lock(Gate)>> \o (Look \o (Each(order) \o <<Unlock(Gate)>>))
  <2> DEFINE A == <<Lock(Gate)>>
             U == <<Unlock(Gate)>>
             E == Each(order)
             L == Look
  <2>1. A \in Seq(Events) /\ U \in Seq(Events) /\ E \in Seq(Events) /\ L \in Seq(Events)
        BY <1>5, <1>6, <1>8
  <2> HIDE DEF A, U, E, L
  <2>2. A \o L \in Seq(Events) /\ E \o U \in Seq(Events) BY <2>1, Assoc
  <2>6. Associative(A \o L, E, U) BY <2>1, <2>2, AssocHolds
  <2>3. ((A \o L) \o E) \o U = (A \o L) \o (E \o U) BY <2>6 DEF Associative
  <2>5. Associative(A, L, E \o U) BY <2>1, <2>2, AssocHolds
  <2>4. (A \o L) \o (E \o U) = A \o (L \o (E \o U)) BY <2>5 DEF Associative
  <2> QED BY <2>3, <2>4 DEF A, U, E, L
<1> QED BY <1>7, <1>9 DEF InheritUnifiedLocks

LEMMA SelectGood ==
  ASSUME NEW order \in Seq(Guarded),
         \A i, j \in 1 .. Len(order) : i # j => order[i] # order[j]
  PROVE  Good(SelectAccountLocks(order), Nothing)
<1> DEFINE A == <<Lock(Pool)>>
           U == <<Unlock(Pool)>>
           E == Each(order)
           C == IF Len(order) > 1 THEN Compare(order[1], order[2]) ELSE << >>
<1>1. Lock(Pool) \in Events /\ Unlock(Pool) \in Events BY Holdings
<1>2. Taken(Lock(Pool), Nothing, HasPool)
      BY DEF Taken, Lock, MayAsk, Nothing, HasPool
<1>3. Taken(Unlock(Pool), HasPool, Nothing) BY DEF Taken, Unlock, Nothing, HasPool
<1>4. A \in Seq(Events) /\ U \in Seq(Events) BY <1>1
<1>5. Good(U, HasPool) BY <1>1, <1>3, Holdings, GoodLast
<1>6. C \in Seq(Events) /\ Good(C \o U, HasPool)
  <2>1. CASE Len(order) > 1
    <3>1. order[1] \in Guarded /\ order[2] \in Guarded /\ order[1] # order[2] BY <2>1
    <3> HIDE DEF U
    <3> QED BY <1>5, <2>1, <3>1, CompareGood
  <2>2. CASE ~(Len(order) > 1)
    <3>1. C = << >> /\ << >> \in Seq(Events) BY <2>2
    <3> HIDE DEF C, U
    <3> QED BY <1>4, <1>5, <3>1, ConcatEmptySeq
  <2> QED BY <2>1, <2>2
<1> HIDE DEF C
<1>7. E \in Seq(Events) /\ Good(E \o (C \o U), HasPool)
  <2>1. (HasPool.w \cup HasPool.r) \cap Guarded = {} BY Holdings DEF HasPool
  <2> QED BY <1>6, <2>1, Holdings, GoodEach
<1>8. Good(A \o (E \o (C \o U)), Nothing) BY <1>1, <1>2, <1>7, Holdings, GoodOne
<1> HIDE DEF A, U, E
<1>9. A \o E \in Seq(Events) /\ C \o U \in Seq(Events) BY <1>4, <1>6, <1>7, Assoc
<1>10. ((A \o E) \o C) \o U = (A \o E) \o (C \o U)
  <2>1. Associative(A \o E, C, U) BY <1>4, <1>6, <1>9, AssocHolds
  <2> QED BY <2>1 DEF Associative
<1>11. (A \o E) \o (C \o U) = A \o (E \o (C \o U))
  <2>1. Associative(A, E, C \o U) BY <1>4, <1>7, <1>9, AssocHolds
  <2> QED BY <2>1 DEF Associative
<1> QED BY <1>8, <1>10, <1>11 DEF SelectAccountLocks, A, U, E, C

LEMMA AddGood ==
  ASSUME NEW a \in Guarded PROVE Good(AddOrUpdateAccountLocks(a), Nothing)
<1>1. Lock(Pool) \in Events /\ Unlock(Pool) \in Events /\ Lock(a) \in Events /\ Unlock(a) \in Events
      BY Holdings
<1>2. Taken(Lock(Pool), Nothing, HasPool)
      BY DEF Taken, Lock, MayAsk, Nothing, HasPool
<1>3. Taken(Unlock(Pool), HasPool, Nothing) BY DEF Taken, Unlock, Nothing, HasPool
<1>4. Good(<<Unlock(Pool)>>, HasPool) BY <1>1, <1>3, Holdings, GoodLast
<1>5. Good(<<Lock(a), Unlock(a)>> \o <<Unlock(Pool)>>, HasPool) BY <1>4, AccountGood
<1>6. Good(<<Lock(Pool)>> \o (<<Lock(a), Unlock(a)>> \o <<Unlock(Pool)>>), Nothing)
      BY <1>1, <1>2, <1>5, Holdings, GoodOne
<1>7. <<Lock(Pool)>> \o (<<Lock(a), Unlock(a)>> \o <<Unlock(Pool)>>)
        = <<Lock(Pool), Lock(a), Unlock(a), Unlock(Pool)>>
  <2>1. Between(Lock(Pool), Lock(a), Unlock(a), Unlock(Pool)) BY <1>1, TwoAndTwo
  <2> QED BY <2>1 DEF Between
<1> QED BY <1>6, <1>7, Zenon DEF AddOrUpdateAccountLocks

LEMMA DeleteGood == Good(DeleteAccountLocks, Nothing)
<1>1. \A m \in Nothing.w \cup Nothing.r : Below(m, Pool) BY DEF Nothing
<1>2. Good(<<Lock(Pool), Unlock(Pool)>> \o << >>, Nothing)
      BY <1>1, EmptyGood, Holdings, GoodVisit
<1>3. <<Lock(Pool), Unlock(Pool)>> \in Seq(Events) BY Holdings
<1>4. <<Lock(Pool), Unlock(Pool)>> \o << >> = <<Lock(Pool), Unlock(Pool)>>
      BY <1>3, ConcatEmptySeq
<1> QED BY <1>2, <1>4 DEF DeleteAccountLocks

LEMMA AcquireGood ==
  ASSUME NEW a \in Guarded PROVE Good(AcquireLocks(a), Nothing)
<1> DEFINE V == <<Lock(a), Unlock(a)>>
<1>1. V \in Seq(Events) /\ Good(V \o << >>, Nothing) BY EmptyGood, AccountGood
<1>2. V \o << >> = V BY <1>1, ConcatEmptySeq
<1>3. Good(Look \o V, Nothing) BY <1>1, <1>2, LooksGood
<1> QED BY <1>3 DEF AcquireLocks

LEMMA RecordGood ==
  ASSUME NEW a \in Guarded PROVE Good(RecordRateLimitLocks(a), Nothing)
<1> DEFINE V == <<Lock(a), Unlock(a)>>
<1>1. Look \in Seq(Events) /\ Good(Look \o << >>, Nothing) BY EmptyGood, LooksGood
<1>2. Look \o << >> = Look BY <1>1, ConcatEmptySeq
<1>3. V \in Seq(Events) /\ Good(V \o Look, Nothing) BY <1>1, <1>2, AccountGood
<1>4. Good(Look \o (V \o Look), Nothing) BY <1>3, LooksGood
<1>5. (Look \o V) \o Look = Look \o (V \o Look)
  <2>1. Associative(Look, V, Look) BY <1>1, <1>3, AssocHolds
  <2> QED BY <2>1 DEF Associative
<1> QED BY <1>4, <1>5 DEF RecordRateLimitLocks

LEMMA RefreshGood ==
  ASSUME NEW a \in Guarded, NEW order \in Seq(Guarded)
  PROVE  Good(RefreshAccountTokenLocks(a, order), Nothing)
<1> DEFINE V == <<RLock(a), RUnlock(a)>>
           W == <<Lock(a), Unlock(a)>>
           F == <<RLock(a), RUnlock(a), Lock(a), Unlock(a)>>
           S == SnapshotsLocks(order)
<1>1. Good(S, Nothing) BY SnapshotsGood
<1>2. S \in Seq(Events) BY <1>1 DEF Good
<1>3. W \in Seq(Events) /\ Good(W \o S, Nothing) BY <1>1, AccountGood
<1>4. V \in Seq(Events) /\ Good(V \o (W \o S), Nothing) BY <1>3, AccountGood
<1>5. F = V \o W /\ F \in Seq(Events)
  <2>1. RLock(a) \in Events /\ RUnlock(a) \in Events /\ Lock(a) \in Events /\ Unlock(a) \in Events
        BY Holdings
  <2> QED BY <2>1
<1> HIDE DEF V, W, F, S
<1>9. V \in Seq(Events) /\ W \in Seq(Events) /\ F \in Seq(Events) /\ F = V \o W
      BY <1>3, <1>4, <1>5
<1>6. V \o (W \o S) = F \o S
  <2>1. Associative(V, W, S) BY <1>2, <1>9, AssocHolds
  <2> QED BY <1>9, <2>1 DEF Associative
<1>7. Look \in Seq(Events) /\ Good(Look \o (F \o S), Nothing) BY <1>4, <1>6, LooksGood
<1>8. (Look \o F) \o S = Look \o (F \o S)
  <2>1. Look \in Seq(Events) BY <1>7
  <2>2. Associative(Look, F, S) BY <1>2, <1>9, <2>1, AssocHolds
  <2> QED BY <2>2 DEF Associative
<1> QED BY <1>7, <1>8 DEF RefreshAccountTokenLocks, F, S

LEMMA ProgramsGood ==
  ASSUME NEW op \in SafeOps, NEW p \in Programs(op) PROVE Good(p, Nothing)
<1>1. \A s \in SetToSeqs(Guarded) :
        s \in Seq(Guarded) /\ \A i, j \in 1 .. Len(s) : i # j => s[i] # s[j]
  <2>1. Cardinality(Guarded) \in Nat BY LocksAssumption, FS_CardinalityType DEF LocksAssumption
  <2> DEFINE n == Cardinality(Guarded)
  <2> SUFFICES ASSUME NEW s \in [1 .. n -> Guarded], \A i, j \in 1 .. n : i # j => s[i] # s[j]
               PROVE  s \in Seq(Guarded) /\ \A i, j \in 1 .. Len(s) : i # j => s[i] # s[j]
      BY DEF SetToSeqs
  <2> HIDE DEF n
  <2> QED BY <2>1 DEF n
<1>2. CASE op = "SelectAccount"
  <2>1. PICK s \in SetToSeqs(Guarded) : p = SelectAccountLocks(s) BY <1>2 DEF Programs
  <2> QED BY <1>1, <2>1, SelectGood
<1>3. CASE op = "AddOrUpdateAccount"
  <2>1. PICK a \in Guarded : p = AddOrUpdateAccountLocks(a) BY <1>3 DEF Programs
  <2> QED BY <2>1, AddGood
<1>4. CASE op = "DeleteAccount"
  <2>1. p = DeleteAccountLocks BY <1>4 DEF Programs
  <2> QED BY <2>1, DeleteGood
<1>5. CASE op = "Acquire"
  <2>1. PICK a \in Guarded : p = AcquireLocks(a) BY <1>5 DEF Programs
  <2> QED BY <2>1, AcquireGood
<1>6. CASE op = "RecordRateLimit"
  <2>1. PICK a \in Guarded : p = RecordRateLimitLocks(a) BY <1>6 DEF Programs
  <2> QED BY <2>1, RecordGood
<1>7. CASE op = "Snapshots"
  <2>1. PICK s \in SetToSeqs(Guarded) : p = SnapshotsLocks(s) BY <1>7 DEF Programs
  <2> QED BY <1>1, <2>1, SnapshotsGood
<1>8. CASE op = "RefreshAccountToken"
  <2>1. PICK a \in Guarded, s \in SetToSeqs(Guarded) : p = RefreshAccountTokenLocks(a, s)
        BY <1>8 DEF Programs
  <2> QED BY <1>1, <2>1, RefreshGood
<1>9. CASE op = "InheritUnified"
  <2>1. PICK s \in SetToSeqs(Guarded) : p = InheritUnifiedLocks(s) BY <1>9 DEF Programs
  <2> QED BY <1>1, <2>1, InheritGood
<1> QED BY <1>2, <1>3, <1>4, <1>5, <1>6, <1>7, <1>8, <1>9 DEF SafeOps

-----------------------------------------------------------------------------
(* Who holds what *)

Holds(g) == [w |-> {l \in Locks : writer[l] = g /\ ~Next1(g, "Lock", l)},
             r |-> {l \in Locks : g \in readers[l]}]

LocksTypeOK ==
  /\ todo \in [Goroutines -> Seq(Events)]
  /\ asleep \subseteq Goroutines
  /\ writer \in [Locks -> Goroutines \cup {NoWriter}]
  /\ readers \in [Locks -> SUBSET Goroutines]

\* The locks' state is what the goroutines have left to do, and readers are kept
\* out while somebody writes.
LocksInv ==
  /\ LocksTypeOK
  /\ \A g \in Goroutines : Runs(todo[g], Holds(g))
  /\ \A l \in Locks, g \in Goroutines : l \in Holds(g).w => readers[l] = {}

LEMMA HoldsType == ASSUME NEW g PROVE Holds(g) \in Holding
BY DEF Holds, Holding

\* What a goroutine may do next.
LEMMA NextEvent ==
  ASSUME LocksInv, NEW g \in Goroutines, NEW l \in Locks,
         NEW kind \in {"Lock", "Unlock", "RLock", "RUnlock"}, Next1(g, kind, l)
  PROVE  \E k \in Holding : Taken(<<kind, l>>, Holds(g), k) /\ Good(Tail(todo[g]), k)
<1>1. todo[g] \in Seq(Events) /\ todo[g] # << >> /\ Head(todo[g]) = <<kind, l>>
      BY DEF LocksInv, LocksTypeOK, Next1
<1>2. Holds(g) \in Holding /\ Runs(todo[g], Holds(g)) BY HoldsType DEF LocksInv
<1>3. Tail(todo[g]) \in Seq(Events) BY <1>1
<1> QED BY <1>1, <1>2, <1>3, RunsTail DEF Good

\* A lock that is held is not asked for.
LEMMA NotAgain ==
  ASSUME NEW p, NEW h \in Holding, Good(p, h), p # << >>, NEW l \in h.w
  PROVE  Head(p) # <<"Lock", l>>
<1>1. PICK k \in Holding : Taken(Head(p), h, k) BY RunsTail DEF Good
<1> SUFFICES ASSUME Head(p) = <<"Lock", l>> PROVE FALSE OBVIOUS
<1>2. MayAsk("Lock", l, h) BY <1>1 DEF Taken
<1>3. Below(l, l) BY <1>2 DEF MayAsk
<1> QED BY <1>3, LocksAssumption DEF LocksAssumption, Below

\* A goroutine whose next steps are p, with what it then holds.
LEMMA HoldsAfter ==
  ASSUME NEW g \in Goroutines, NEW k \in Holding, Good(todo'[g], k),
         \A l \in Locks : writer'[l] = g <=> l \in k.w,
         \A l \in Locks : g \in readers'[l] <=> l \in k.r
  PROVE  Holds(g)' = k /\ Runs(todo[g], Holds(g))'
<1>1. \A l \in k.w : ~Next1(g, "Lock", l)' BY NotAgain DEF Next1
<1>2. k.w \subseteq Locks /\ k.r \subseteq Locks /\ k = [w |-> k.w, r |-> k.r] BY DEF Holding
<1>3. Holds(g)'.w = k.w BY <1>1, <1>2 DEF Holds
<1>4. Holds(g)'.r = k.r BY <1>2 DEF Holds
<1>5. Holds(g)' = k BY <1>2, <1>3, <1>4 DEF Holds
<1> QED BY <1>5 DEF Good

\* A goroutine that nothing happens to.
LEMMA HoldsSame ==
  ASSUME LocksInv, NEW g \in Goroutines, todo'[g] = todo[g],
         \A l \in Locks : writer'[l] = g <=> writer[l] = g,
         \A l \in Locks : g \in readers'[l] <=> g \in readers[l]
  PROVE  Holds(g)' = Holds(g) /\ Runs(todo[g], Holds(g))'
<1>1. Holds(g)' = Holds(g) BY DEF Holds, Next1
<1> QED BY <1>1 DEF LocksInv

LEMMA LocksInitOK == LocksInit => LocksInv
<1> SUFFICES ASSUME LocksInit PROVE LocksInv OBVIOUS
<1>1. LocksTypeOK BY DEF LocksInit, LocksTypeOK
<1>2. ASSUME NEW g \in Goroutines PROVE Holds(g) = Nothing /\ todo[g] = << >>
  <2>1. \A l \in Locks : writer[l] = NoWriter /\ readers[l] = {} BY DEF LocksInit
  <2>2. NoWriter # g BY LocksAssumption DEF LocksAssumption
  <2> QED BY <2>1, <2>2 DEF LocksInit, Holds, Nothing
<1>3. \A g \in Goroutines : Runs(todo[g], Holds(g)) BY <1>2, RunsEnd
<1>4. \A l \in Locks, g \in Goroutines : l \in Holds(g).w => readers[l] = {} BY DEF LocksInit
<1> QED BY <1>1, <1>3, <1>4 DEF LocksInv

\* An action that is over for one goroutine, with what it then holds.
LEMMA OneGoesOn ==
  ASSUME LocksInv, NEW g \in Goroutines, NEW k \in Holding, Good(todo'[g], k),
         todo' = [todo EXCEPT ![g] = todo'[g]], LocksTypeOK',
         \A l \in Locks : writer'[l] = g <=> l \in k.w,
         \A l \in Locks : g \in readers'[l] <=> l \in k.r,
         \A q \in Goroutines \ {g}, l \in Locks :
           (writer'[l] = q <=> writer[l] = q) /\ (q \in readers'[l] <=> q \in readers[l]),
         \A l \in Locks : (\E q \in Goroutines : l \in Holds(q).w) \/ l \in k.w =>
           readers'[l] = {}
  PROVE  LocksInv'
<1>1. Holds(g)' = k /\ Runs(todo[g], Holds(g))' BY HoldsAfter
<1>2. ASSUME NEW q \in Goroutines \ {g} PROVE Holds(q)' = Holds(q) /\ Runs(todo[q], Holds(q))'
  <2>1. todo'[q] = todo[q] BY DEF LocksInv, LocksTypeOK
  <2> QED BY <2>1, HoldsSame
<1>3. \A q \in Goroutines : Runs(todo[q], Holds(q))' BY <1>1, <1>2
<1>4. \A l \in Locks, q \in Goroutines : l \in Holds(q)'.w => readers'[l] = {} BY <1>1, <1>2
<1> QED BY <1>3, <1>4 DEF LocksInv

LEMMA BeginOK ==
  ASSUME LocksInv, Ops \subseteq SafeOps, NEW g \in Goroutines, Begin(g) PROVE LocksInv'
<1>0. PICK op \in Ops : \E p \in Programs(op) : todo' = [todo EXCEPT ![g] = p] BY DEF Begin
<1>1. PICK p \in Programs(op) : todo' = [todo EXCEPT ![g] = p] BY <1>0
<1>2. Good(p, Nothing) BY <1>0, <1>1, ProgramsGood
<1>3. todo[g] = << >> /\ writer' = writer /\ readers' = readers /\ asleep' = asleep BY DEF Begin
<1>4. LocksTypeOK' BY <1>1, <1>2, <1>3 DEF LocksInv, LocksTypeOK, Good
<1>5. todo'[g] = p BY <1>1 DEF LocksInv, LocksTypeOK
<1>6. Holds(g) = Nothing
  <2>1. PICK t : Trace(<< >>, Holds(g), t) BY <1>3 DEF LocksInv, Runs
  <2> QED BY <2>1 DEF Trace
<1>7. \A l \in Locks : writer[l] # g /\ g \notin readers[l]
  <2>1. \A l : ~Next1(g, "Lock", l) BY <1>3 DEF Next1
  <2>2. Holds(g).w = {} /\ Holds(g).r = {} BY <1>6 DEF Nothing
  <2> QED BY <2>1, <2>2 DEF Holds
<1>8. Nothing \in Holding /\ Nothing.w = {} /\ Nothing.r = {} BY Holdings DEF Nothing
<1>9. \A l \in Locks : (\E q \in Goroutines : l \in Holds(q).w) \/ l \in Nothing.w => readers'[l] = {}
      BY <1>3, <1>8 DEF LocksInv
<1> QED BY <1>1, <1>2, <1>3, <1>4, <1>5, <1>7, <1>8, <1>9, OneGoesOn, ZenonT(30)

LEMMA Heads ==
  ASSUME NEW g, NEW kind, NEW l, Next1(g, kind, l)
  PROVE  \A other, m : Next1(g, other, m) => other = kind /\ m = l
BY DEF Next1

LEMMA AnnounceOK ==
  ASSUME LocksInv, NEW g \in Goroutines, NEW l \in Locks, Announce(g, l) PROVE LocksInv'
<1>1. /\ Next1(g, "Lock", l) /\ writer[l] = NoWriter /\ todo' = todo /\ readers' = readers
      /\ writer' = [writer EXCEPT ![l] = g] /\ asleep' = asleep \cup {g}
      BY DEF Announce
<1>2. LocksTypeOK' BY <1>1 DEF LocksInv, LocksTypeOK
<1>3. ASSUME NEW q \in Goroutines PROVE Holds(q)' = Holds(q)
  <2>1. NoWriter # q BY LocksAssumption DEF LocksAssumption
  <2>2. \A m \in Locks : writer'[m] = IF m = l THEN g ELSE writer[m]
        BY <1>1 DEF LocksInv, LocksTypeOK
  <2>3. \A m \in Locks : (writer'[m] = q /\ ~Next1(q, "Lock", m)) <=> (writer[m] = q /\ ~Next1(q, "Lock", m))
        BY <1>1, <2>1, <2>2
  <2>4. \A m : Next1(q, "Lock", m)' <=> Next1(q, "Lock", m) BY <1>1 DEF Next1
  <2> QED BY <1>1, <2>3, <2>4 DEF Holds
<1>4. \A q \in Goroutines : Runs(todo[q], Holds(q))' BY <1>1, <1>3 DEF LocksInv
<1>5. \A m \in Locks, q \in Goroutines : m \in Holds(q)'.w => readers'[m] = {}
      BY <1>1, <1>3 DEF LocksInv
<1> QED BY <1>2, <1>4, <1>5 DEF LocksInv

\* One goroutine's event is over.
LEMMA DoneOne ==
  ASSUME LocksInv, NEW g \in Goroutines, todo[g] # << >>, todo' = Done({g})
  PROVE  /\ todo'[g] = Tail(todo[g]) /\ todo' = [todo EXCEPT ![g] = todo'[g]]
         /\ todo' \in [Goroutines -> Seq(Events)]
<1>1. todo \in [Goroutines -> Seq(Events)] BY DEF LocksInv, LocksTypeOK
<1>2. Tail(todo[g]) \in Seq(Events) BY <1>1
<1> QED BY <1>1, <1>2 DEF Done

LEMMA EnterOK ==
  ASSUME LocksInv, NEW g \in Goroutines, NEW l \in Locks, Enter(g, l) PROVE LocksInv'
<1>1. /\ Next1(g, "Lock", l) /\ writer[l] = g /\ readers[l] = {} /\ todo' = Done({g})
      /\ writer' = writer /\ readers' = readers /\ asleep' = asleep \ {g}
      BY DEF Enter
<1>2. PICK k \in Holding : Taken(<<"Lock", l>>, Holds(g), k) /\ Good(Tail(todo[g]), k)
      BY <1>1, NextEvent
<1>3. k = [w |-> Holds(g).w \cup {l}, r |-> Holds(g).r] BY <1>2 DEF Taken
<1>4. todo'[g] = Tail(todo[g]) /\ todo' = [todo EXCEPT ![g] = todo'[g]]
      /\ todo' \in [Goroutines -> Seq(Events)]
      BY <1>1, DoneOne DEF Next1
<1>5. LocksTypeOK' BY <1>1, <1>4 DEF LocksInv, LocksTypeOK
<1>6. \A m \in Locks : writer'[m] = g <=> m \in k.w
  <2>1. \A m \in Locks : m \in Holds(g).w <=> writer[m] = g /\ ~Next1(g, "Lock", m) BY DEF Holds
  <2>2. \A m : Next1(g, "Lock", m) => m = l BY <1>1, Heads
  <2> QED BY <1>1, <1>3, <2>1, <2>2
<1>7. \A m \in Locks : g \in readers'[m] <=> m \in k.r BY <1>1, <1>3 DEF Holds
<1>8. \A m \in Locks : (\E q \in Goroutines : m \in Holds(q).w) \/ m \in k.w => readers'[m] = {}
      BY <1>1, <1>3 DEF LocksInv
<1>9. Good(todo'[g], k) BY <1>2, <1>4
<1>10. \A q \in Goroutines \ {g}, m \in Locks :
         (writer'[m] = q <=> writer[m] = q) /\ (q \in readers'[m] <=> q \in readers[m])
       BY <1>1
<1> QED BY <1>4, <1>5, <1>6, <1>7, <1>8, <1>9, <1>10, OneGoesOn, ZenonT(30)

LEMMA ReadOK ==
  ASSUME LocksInv, NEW g \in Goroutines, NEW l \in Locks, Read(g, l) PROVE LocksInv'
<1>1. CASE UNCHANGED <<readers, todo>>
  <2>1. todo' = todo /\ readers' = readers /\ writer' = writer /\ asleep' \subseteq Goroutines
        BY <1>1 DEF Read, LocksInv, LocksTypeOK
  <2>2. \A q \in Goroutines : Holds(q)' = Holds(q) BY <2>1 DEF Holds, Next1
  <2> QED BY <2>1, <2>2 DEF LocksInv, LocksTypeOK
<1>2. CASE /\ writer[l] = NoWriter /\ readers' = [readers EXCEPT ![l] = @ \cup {g}]
           /\ todo' = Done({g}) /\ UNCHANGED asleep
  <2>1. Next1(g, "RLock", l) /\ writer' = writer BY DEF Read
  <2>2. PICK k \in Holding : Taken(<<"RLock", l>>, Holds(g), k) /\ Good(Tail(todo[g]), k)
        BY <2>1, NextEvent
  <2>3. k = [w |-> Holds(g).w, r |-> Holds(g).r \cup {l}] BY <2>2 DEF Taken
  <2>4. todo'[g] = Tail(todo[g]) /\ todo' = [todo EXCEPT ![g] = todo'[g]]
        /\ todo' \in [Goroutines -> Seq(Events)]
        BY <1>2, <2>1, DoneOne DEF Next1
  <2>5. \A m \in Locks : readers'[m] = IF m = l THEN readers[m] \cup {g} ELSE readers[m]
        BY <1>2 DEF LocksInv, LocksTypeOK
  <2>6. LocksTypeOK' BY <1>2, <2>1, <2>4 DEF LocksInv, LocksTypeOK
  <2>7. \A m \in Locks : writer'[m] = g <=> m \in k.w
    <3>1. \A m : ~Next1(g, "Lock", m) BY <2>1, Heads
    <3> QED BY <2>1, <2>3, <3>1 DEF Holds
  <2>8. \A m \in Locks : g \in readers'[m] <=> m \in k.r BY <2>3, <2>5 DEF Holds
  <2>9. \A m \in Locks : (\E q \in Goroutines : m \in Holds(q).w) \/ m \in k.w => readers'[m] = {}
    <3>1. \A q \in Goroutines : l \notin Holds(q).w
          BY <1>2, LocksAssumption DEF LocksAssumption, Holds
    <3>2. k.w = Holds(g).w BY <2>3
    <3> QED BY <2>5, <3>1, <3>2 DEF LocksInv
  <2>10. Good(todo'[g], k) BY <2>2, <2>4
  <2>11. \A q \in Goroutines \ {g}, m \in Locks :
           (writer'[m] = q <=> writer[m] = q) /\ (q \in readers'[m] <=> q \in readers[m])
         BY <2>1, <2>5
  <2> QED BY <2>4, <2>6, <2>7, <2>8, <2>9, <2>10, <2>11, OneGoesOn, ZenonT(30)
<1> QED BY <1>1, <1>2 DEF Read

LEMMA LeaveReadOK ==
  ASSUME LocksInv, NEW g \in Goroutines, NEW l \in Locks, LeaveRead(g, l) PROVE LocksInv'
<1>1. /\ Next1(g, "RUnlock", l) /\ writer' = writer /\ todo' = Done({g}) /\ asleep' = asleep
      /\ readers' = [readers EXCEPT ![l] = @ \ {g}]
      BY DEF LeaveRead
<1>2. PICK k \in Holding : Taken(<<"RUnlock", l>>, Holds(g), k) /\ Good(Tail(todo[g]), k)
      BY <1>1, NextEvent
<1>3. k = [w |-> Holds(g).w, r |-> Holds(g).r \ {l}] BY <1>2 DEF Taken
<1>4. todo'[g] = Tail(todo[g]) /\ todo' = [todo EXCEPT ![g] = todo'[g]]
      /\ todo' \in [Goroutines -> Seq(Events)]
      BY <1>1, DoneOne DEF Next1
<1>5. \A m \in Locks : readers'[m] = IF m = l THEN readers[m] \ {g} ELSE readers[m]
      BY <1>1 DEF LocksInv, LocksTypeOK
<1>6. LocksTypeOK' BY <1>1, <1>4 DEF LocksInv, LocksTypeOK
<1>7. \A m \in Locks : writer'[m] = g <=> m \in k.w
  <2>1. \A m : ~Next1(g, "Lock", m) BY <1>1, Heads
  <2> QED BY <1>1, <1>3, <2>1 DEF Holds
<1>8. \A m \in Locks : g \in readers'[m] <=> m \in k.r BY <1>3, <1>5 DEF Holds
<1>9. \A m \in Locks : (\E q \in Goroutines : m \in Holds(q).w) \/ m \in k.w => readers'[m] = {}
  <2>1. k.w = Holds(g).w BY <1>3
  <2> QED BY <1>5, <2>1 DEF LocksInv
<1>10. Good(todo'[g], k) BY <1>2, <1>4
<1>11. \A q \in Goroutines \ {g}, m \in Locks :
         (writer'[m] = q <=> writer[m] = q) /\ (q \in readers'[m] <=> q \in readers[m])
       BY <1>1, <1>5
<1> QED BY <1>4, <1>6, <1>7, <1>8, <1>9, <1>10, <1>11, OneGoesOn, ZenonT(30)

LEMMA LeaveOK ==
  ASSUME LocksInv, NEW g \in Goroutines, NEW l \in Locks, Leave(g, l) PROVE LocksInv'
<1> DEFINE woken == {h \in asleep : Next1(h, "RLock", l)}
<1>1. /\ Next1(g, "Unlock", l) /\ writer' = [writer EXCEPT ![l] = NoWriter]
      /\ readers' = [readers EXCEPT ![l] = woken] /\ asleep' = asleep \ woken
      /\ todo' = Done({g} \cup woken)
      BY DEF Leave
<1>2. g \notin woken /\ woken \subseteq Goroutines
  <2>1. ~Next1(g, "RLock", l) BY <1>1, Heads
  <2> QED BY <2>1 DEF LocksInv, LocksTypeOK
<1>3. \A h \in woken : Next1(h, "RLock", l) OBVIOUS
<1> HIDE DEF woken
<1>4. PICK k \in Holding : Taken(<<"Unlock", l>>, Holds(g), k) /\ Good(Tail(todo[g]), k)
      BY <1>1, NextEvent
<1>5. l \in Holds(g).w /\ k = [w |-> Holds(g).w \ {l}, r |-> Holds(g).r] BY <1>4 DEF Taken
<1>6. readers[l] = {} /\ writer[l] = g BY <1>5 DEF LocksInv, Holds
<1>7. /\ \A m \in Locks : writer'[m] = IF m = l THEN NoWriter ELSE writer[m]
      /\ \A m \in Locks : readers'[m] = IF m = l THEN woken ELSE readers[m]
      BY <1>1 DEF LocksInv, LocksTypeOK
<1>8. \A q \in Goroutines : NoWriter # q BY LocksAssumption DEF LocksAssumption
<1>9. \A q \in Goroutines : todo'[q] = IF q \in {g} \cup woken THEN Tail(todo[q]) ELSE todo[q]
      BY <1>1 DEF Done
<1>10. LocksTypeOK'
  <2>1. \A q \in {g} \cup woken : todo[q] # << >> BY <1>1, <1>3 DEF Next1
  <2>2. \A q \in {g} \cup woken : Tail(todo[q]) \in Seq(Events)
        BY <1>2, <2>1 DEF LocksInv, LocksTypeOK
  <2>3. todo' \in [Goroutines -> Seq(Events)]
        BY <1>1, <1>2, <2>2 DEF Done, LocksInv, LocksTypeOK
  <2> QED BY <1>1, <1>2, <2>3 DEF LocksInv, LocksTypeOK
<1>11. Holds(g)' = k /\ Runs(todo[g], Holds(g))'
  <2>1. \A m \in Locks : writer'[m] = g <=> m \in k.w
    <3>1. \A m : ~Next1(g, "Lock", m) BY <1>1, Heads
    <3> QED BY <1>5, <1>7, <1>8, <3>1 DEF Holds
  <2>2. \A m \in Locks : g \in readers'[m] <=> m \in k.r BY <1>2, <1>5, <1>6, <1>7 DEF Holds
  <2>3. Good(todo'[g], k) BY <1>4, <1>9
  <2> QED BY <2>1, <2>2, <2>3, HoldsAfter
<1>12. ASSUME NEW h \in woken PROVE Holds(h)'.w = Holds(h).w /\ Runs(todo[h], Holds(h))'
  <2>1. h \in Goroutines /\ Next1(h, "RLock", l) /\ h # g BY <1>2, <1>3
  <2>2. PICK j \in Holding : Taken(<<"RLock", l>>, Holds(h), j) /\ Good(Tail(todo[h]), j)
        BY <2>1, NextEvent
  <2>3. j = [w |-> Holds(h).w, r |-> Holds(h).r \cup {l}] BY <2>2 DEF Taken
  <2>4. \A m \in Locks : writer'[m] = h <=> m \in j.w
    <3>1. \A m : ~Next1(h, "Lock", m) BY <2>1, Heads
    <3> QED BY <1>6, <1>7, <1>8, <2>1, <2>3, <3>1 DEF Holds
  <2>5. \A m \in Locks : h \in readers'[m] <=> m \in j.r BY <1>7, <2>3 DEF Holds
  <2>6. Good(todo'[h], j) BY <1>9, <2>1, <2>2
  <2>7. Holds(h)' = j /\ Runs(todo[h], Holds(h))' BY <2>1, <2>4, <2>5, <2>6, HoldsAfter
  <2> QED BY <2>3, <2>7
<1>13. ASSUME NEW q \in Goroutines \ ({g} \cup woken)
       PROVE  Holds(q)' = Holds(q) /\ Runs(todo[q], Holds(q))'
  <2>1. todo'[q] = todo[q] BY <1>9
  <2>2. \A m \in Locks : writer'[m] = q <=> writer[m] = q BY <1>6, <1>7, <1>8
  <2>3. \A m \in Locks : q \in readers'[m] <=> q \in readers[m] BY <1>6, <1>7
  <2> QED BY <2>1, <2>2, <2>3, HoldsSame
<1>14. \A q \in Goroutines : Runs(todo[q], Holds(q))' BY <1>11, <1>12, <1>13
<1>15. ASSUME NEW q \in Goroutines, NEW m \in Holds(q)'.w PROVE readers'[m] = {}
  <2>1. m \in Locks /\ writer'[m] = q BY DEF Holds
  <2>2. m # l BY <1>7, <1>8, <2>1
  <2>3. m \in Holds(q).w BY <1>5, <1>11, <1>12, <1>13
  <2> QED BY <1>7, <2>1, <2>2, <2>3 DEF LocksInv
<1> QED BY <1>10, <1>14, <1>15 DEF LocksInv

LEMMA LocksStep ==
  ASSUME LocksInv, Ops \subseteq SafeOps, [LocksNext]_locksVars PROVE LocksInv'
<1>1. CASE UNCHANGED locksVars
  <2>1. todo' = todo /\ asleep' = asleep /\ writer' = writer /\ readers' = readers
        BY <1>1 DEF locksVars
  <2>2. \A q \in Goroutines : Holds(q)' = Holds(q) BY <2>1 DEF Holds, Next1
  <2> QED BY <2>1, <2>2 DEF LocksInv, LocksTypeOK
<1>2. ASSUME NEW g \in Goroutines, Begin(g) PROVE LocksInv' BY <1>2, BeginOK
<1>3. ASSUME NEW g \in Goroutines, NEW l \in Locks, Go(g, l) PROVE LocksInv'
      BY <1>3, AnnounceOK, EnterOK, LeaveOK, ReadOK, LeaveReadOK DEF Go
<1> QED BY <1>1, <1>2, <1>3 DEF LocksNext

-----------------------------------------------------------------------------
(* Whoever is waited for is further along *)

Asks(g, l) == Next1(g, "Lock", l) \/ Next1(g, "RLock", l)

\* The ranking has the pool for itself and holds an account.
Comparing(g) == Pool \in Holds(g).w /\ Holds(g).r \cap Guarded # {}

\* How far a goroutine is that asks for l: the order of the locks, and among the
\* accounts first the one the ranking holds, then the one it asks for. Whoever has
\* announced itself is ahead of those who find it there.
Far(g, l) ==
  CASE l = Gate -> 0
    [] l = Pool -> 2
    [] l \in Guarded /\ Comparing(g) -> 6
    [] l \in Guarded /\ ~Comparing(g) ->
         IF \E k \in readers[l] : Comparing(k) THEN 4 ELSE 7
Level(g) ==
  LET l == Head(todo[g])[2] IN
  IF \E m \in Locks : Asks(g, m) THEN Far(g, l) + (IF writer[l] = g THEN 1 ELSE 0) ELSE 9

LEMMA Asking ==
  ASSUME LocksInv, NEW g \in Goroutines, NEW l \in Locks, Asks(g, l)
  PROVE  /\ Level(g) = Far(g, l) + (IF writer[l] = g THEN 1 ELSE 0)
         /\ \/ Next1(g, "Lock", l) /\ MayAsk("Lock", l, Holds(g)) /\ ~Comparing(g)
            \/ Next1(g, "RLock", l) /\ MayAsk("RLock", l, Holds(g))
<1>1. Head(todo[g])[2] = l BY DEF Asks, Next1
<1>2. CASE Next1(g, "Lock", l)
  <2>1. PICK k \in Holding : Taken(<<"Lock", l>>, Holds(g), k) BY <1>2, NextEvent
  <2>2. MayAsk("Lock", l, Holds(g)) BY <2>1 DEF Taken
  <2>3. ~Comparing(g)
    <3>1. \A m \in Holds(g).w \cup Holds(g).r : Below(m, l) BY <2>2 DEF MayAsk
    <3> QED BY <3>1, Holdings DEF Comparing, Below
  <2> QED BY <1>1, <1>2, <2>2, <2>3 DEF Level
<1>3. CASE Next1(g, "RLock", l)
  <2>1. PICK k \in Holding : Taken(<<"RLock", l>>, Holds(g), k) BY <1>3, NextEvent
  <2>2. MayAsk("RLock", l, Holds(g)) BY <2>1 DEF Taken
  <2> QED BY <1>1, <1>3, <2>2 DEF Level, Asks
<1> QED BY <1>2, <1>3 DEF Asks

LEMMA FarIs ==
  ASSUME NEW g, NEW l \in Locks
  PROVE  /\ l = Gate => Far(g, l) = 0
         /\ l = Pool => Far(g, l) = 2
         /\ l \in Guarded /\ Comparing(g) => Far(g, l) = 6
         /\ l \in Guarded /\ ~Comparing(g) /\ (\E k \in readers[l] : Comparing(k)) => Far(g, l) = 4
         /\ l \in Guarded /\ ~Comparing(g) /\ ~(\E k \in readers[l] : Comparing(k)) => Far(g, l) = 7
         /\ l = Gate \/ l = Pool \/ l \in Guarded
         /\ Far(g, l) \in {0, 2, 4, 6, 7}
<1>1. l = Gate \/ l = Pool \/ l \in Guarded BY DEF Locks
<1>2. l = Gate => l # Pool /\ l \notin Guarded BY Holdings
<1>3. l = Pool => l # Gate /\ l \notin Guarded BY Holdings
<1>4. l = Gate => Far(g, l) = 0 BY <1>2 DEF Far
<1>5. l = Pool => Far(g, l) = 2 BY <1>3 DEF Far
<1>6. l \in Guarded /\ Comparing(g) => Far(g, l) = 6 BY <1>2, <1>3 DEF Far
<1>7. l \in Guarded /\ ~Comparing(g) => Far(g, l) = IF \E k \in readers[l] : Comparing(k) THEN 4 ELSE 7
      BY <1>2, <1>3 DEF Far
<1> QED BY <1>1, <1>4, <1>5, <1>6, <1>7

LEMMA LevelType == ASSUME LocksInv, NEW g \in Goroutines PROVE Level(g) \in 0 .. 9
<1>1. CASE \E l \in Locks : Asks(g, l)
  <2>1. PICK l \in Locks : Asks(g, l) BY <1>1
  <2>2. Far(g, l) \in {0, 2, 4, 6, 7} BY FarIs
  <2>3. Level(g) = Far(g, l) + (IF writer[l] = g THEN 1 ELSE 0) BY <2>1, Asking
  <2> QED BY <2>2, <2>3
<1>2. CASE ~(\E l \in Locks : Asks(g, l)) BY <1>2 DEF Level
<1> QED BY <1>1, <1>2

\* Only one goroutine at a time is in the ranking.
LEMMA OneCompares ==
  ASSUME NEW g, NEW h, Comparing(g), Comparing(h) PROVE g = h
BY Holdings DEF Comparing, Holds

LEMMA Climbs ==
  ASSUME LocksInv, NEW g \in Goroutines, NEW h \in WaitsFor(g)
  PROVE  Level(g) < Level(h)
<1>1. h \in Goroutines /\ h # g BY DEF WaitsFor
<1>2. PICK l \in Locks : \/ Asks(g, l) /\ writer[l] = h
                         \/ Next1(g, "Lock", l) /\ writer[l] = g /\ h \in readers[l]
      BY DEF WaitsFor, Asks
<1>3. Asks(g, l) BY <1>2 DEF Asks
<1> DEFINE more(q, m) == IF writer[m] = q THEN 1 ELSE 0
<1>4. Level(g) = Far(g, l) + more(g, l) BY <1>3, Asking
<1>5. Far(g, l) \in {0, 2, 4, 6, 7} /\ Level(g) <= 8
  <2>1. Far(g, l) \in {0, 2, 4, 6, 7} BY FarIs
  <2> QED BY <1>4, <2>1
<1>6. CASE ~(\E m \in Locks : Asks(h, m))
  <2>1. Level(h) = 9 BY <1>6 DEF Level
  <2> QED BY <1>4, <1>5, <2>1
<1>7. ASSUME NEW m \in Locks, Asks(h, m) PROVE Level(g) < Level(h)
  <2>1. /\ Level(h) = Far(h, m) + more(h, m)
        /\ \/ Next1(h, "Lock", m) /\ MayAsk("Lock", m, Holds(h)) /\ ~Comparing(h)
           \/ Next1(h, "RLock", m) /\ MayAsk("RLock", m, Holds(h))
        BY <1>1, <1>7, Asking
  <2> HIDE DEF more
  <2>2. \A q, k : more(q, k) \in {0, 1} /\ (writer[k] = q <=> more(q, k) = 1) BY DEF more
  <2>3. l = Gate \/ l = Pool \/ l \in Guarded BY FarIs
  <2>4. CASE writer[l] = h /\ Next1(h, "Lock", l)
    <3>1. m = l /\ ~Comparing(h) BY <1>7, <2>1, <2>4, Heads DEF Asks
    <3>2. more(h, l) = 1 /\ more(g, l) = 0 BY <1>1, <2>2, <2>4
    <3>3. Far(g, l) = Far(h, l) \/ (Far(g, l) = 6 /\ Far(h, l) = 7)
      <4>1. CASE Comparing(g) /\ l \in Guarded
        <5>1. MayAsk("Lock", l, Holds(g)) \/ MayAsk("RLock", l, Holds(g)) BY <1>3, Asking
        <5>2. l \notin Holds(g).r
          <6>1. ~(\A k \in Holds(g).w \cup Holds(g).r : Below(k, l))
                BY <4>1, Holdings DEF Comparing, Below
          <6> QED BY <5>1, <6>1 DEF MayAsk
        <5>3. g \notin readers[l] BY <5>2 DEF Holds
        <5>4. ~(\E k \in readers[l] : Comparing(k)) BY <4>1, <5>3, OneCompares
        <5> QED BY <3>1, <4>1, <5>4, FarIs
      <4>2. CASE l \in Guarded /\ ~Comparing(g)
        <5>1. \/ Far(g, l) = 4 /\ Far(h, l) = 4
              \/ Far(g, l) = 7 /\ Far(h, l) = 7
              BY <3>1, <4>2, FarIs
        <5> QED BY <5>1
      <4>3. CASE l = Gate \/ l = Pool
        <5>1. \/ Far(g, l) = 0 /\ Far(h, l) = 0
              \/ Far(g, l) = 2 /\ Far(h, l) = 2
              BY <4>3, FarIs
        <5> QED BY <5>1
      <4> QED BY <2>3, <4>1, <4>2, <4>3
    <3> QED BY <1>4, <1>5, <2>1, <3>1, <3>2, <3>3
  <2>5. ASSUME l \in Holds(h).w \cup Holds(h).r PROVE Level(g) < Level(h)
    <3>1. MayAsk("Lock", m, Holds(h)) \/ MayAsk("RLock", m, Holds(h)) BY <2>1
    <3>2. Far(h, m) \in {0, 2, 4, 6, 7} /\ (m = Gate \/ m = Pool \/ m \in Guarded) BY FarIs
    <3>3. m \in Guarded => Far(h, m) \in {4, 6, 7} BY FarIs
    <3>4. CASE l = Gate
      <4>1. m # Gate
        <5>1. CASE \A k \in Holds(h).w \cup Holds(h).r : Below(k, m)
              BY <2>5, <3>4, <5>1, Holdings DEF Below
        <5>2. CASE m \in Guarded BY <5>2, Holdings
        <5> QED BY <3>1, <5>1, <5>2 DEF MayAsk
      <4>2. Far(h, m) \in {2, 4, 6, 7} /\ Far(g, l) = 0 BY <3>2, <3>3, <3>4, <4>1, FarIs
      <4> QED BY <1>4, <2>1, <2>2, <4>2
    <3>5. CASE l = Pool
      <4>1. m \in Guarded
        <5>1. CASE \A k \in Holds(h).w \cup Holds(h).r : Below(k, m)
              BY <2>5, <3>5, <5>1, Holdings DEF Below
        <5> QED BY <3>1, <5>1 DEF MayAsk
      <4>2. Far(h, m) \in {4, 6, 7} /\ Far(g, l) = 2 BY <3>3, <3>5, <4>1, FarIs
      <4> QED BY <1>4, <2>1, <2>2, <4>2
    <3>6. CASE l \in Guarded
      <4>1. ~Below(l, m) BY <3>6, Holdings DEF Below
      <4>2. /\ m \in Guarded /\ Pool \in Holds(h).w /\ Holds(h).w \cap Guarded = {}
            BY <2>5, <3>1, <4>1 DEF MayAsk
      <4>3. l \in Holds(h).r BY <2>5, <3>6, <4>2
      <4>4. Comparing(h) /\ h \in readers[l] BY <3>6, <4>2, <4>3 DEF Comparing, Holds
      <4>5. Next1(g, "Lock", l) /\ writer[l] = g
        <5>1. h \notin {q \in Goroutines : l \in Holds(q).w} BY <3>6, <4>2
        <5>2. ~(writer[l] = h)
          <6>1. CASE Next1(h, "Lock", l)
            <7>1. m = l /\ ~Comparing(h) BY <1>7, <2>1, <6>1, Heads DEF Asks
            <7> QED BY <4>4, <7>1
          <6>2. CASE ~Next1(h, "Lock", l) BY <1>1, <5>1, <6>2 DEF Holds
          <6> QED BY <6>1, <6>2
        <5> QED BY <1>2, <5>2
      <4>6. ~Comparing(g) BY <1>1, <4>4, OneCompares
      <4>7. Far(g, l) = 4 /\ Far(h, m) = 6 BY <3>6, <4>2, <4>4, <4>6, FarIs
      <4> QED BY <1>4, <2>1, <2>2, <4>7
    <3> QED BY <2>3, <3>4, <3>5, <3>6
  <2>6. \/ writer[l] = h /\ Next1(h, "Lock", l)
        \/ l \in Holds(h).w \cup Holds(h).r
        BY <1>2 DEF Holds
  <2> QED BY <2>4, <2>5, <2>6
<1> QED BY <1>6, <1>7

\* No goroutines of the pool wait for each other in a circle, whatever the accounts
\* and however many goroutines there are, as long as none of them runs
\* RefreshTokenIfNeeded, which asks for the pool while it has an account: whoever is
\* waited for is further along the order gate, pool, accounts, so the goroutine of a
\* set that is furthest along waits for nobody in it.
THEOREM NoCircle ==
  ASSUME Ops \subseteq SafeOps
  PROVE  LocksSpec => []NoCircularWait
<1>1. LocksInit => LocksInv BY LocksInitOK
<1>2. LocksInv /\ [LocksNext]_locksVars => LocksInv' BY LocksStep
<1>3. LocksInv => NoCircularWait
  <2> SUFFICES ASSUME LocksInv, NEW S \in (SUBSET Goroutines) \ {{}}
               PROVE  \E g \in S : WaitsFor(g) \cap S = {}
      BY DEF NoCircularWait
  <2> DEFINE left == {9 - Level(k) : k \in S}
  <2>1. \A k \in S : Level(k) \in 0 .. 9 BY LevelType
  <2>2. left \subseteq Nat /\ left # {} /\ S \subseteq Goroutines BY <2>1
  <2>3. PICK n \in left : \A k \in left : n <= k
    <3> HIDE DEF left
    <3> QED BY <2>2, LeastNumber
  <2>4. PICK g \in S : n = 9 - Level(g) OBVIOUS
  <2>5. ASSUME NEW k \in S PROVE Level(k) <= Level(g)
    <3>1. n <= 9 - Level(k) BY <2>3
    <3>2. Level(k) \in 0 .. 9 /\ Level(g) \in 0 .. 9 BY <2>1
    <3> QED BY <2>4, <3>1, <3>2
  <2>6. \A k \in S : k \notin WaitsFor(g)
    <3> SUFFICES ASSUME NEW k \in S, k \in WaitsFor(g) PROVE FALSE OBVIOUS
    <3>1. Level(g) < Level(k) BY <2>2, Climbs
    <3> QED BY <2>1, <2>5, <3>1
  <2> QED BY <2>6
<1> QED BY <1>1, <1>2, <1>3, PTL DEF LocksSpec
==============================================================================
