-------------------------- MODULE Gateways_proofs --------------------------
(***************************************************************************)
(* Proofs about the gateways of MCGateways.                                *)
(*                                                                         *)
(* The safety properties of OpenRouter, for any number of requests and     *)
(* providers, any chain of candidates and any limits.                      *)
(*                                                                         *)
(* The stream translators, for any answers, calls and limits: each         *)
(* implements the message stream the client is promised (MessageStream),   *)
(* and tells the stop reason of the turn.  The refinement mapping takes    *)
(* the client's message as it is.  What makes it work is what the events   *)
(* on the wire will make of that message: every translator keeps a message *)
(* z that the wire delivers, event by event by steps of MessageStream, and *)
(* whose blocks are where its own record has them (At for the emitter;     *)
(* ChatInv, CloudInv, RInv for the translators).                           *)
(***************************************************************************)
EXTENDS MCGateways, SequenceTheorems, FiniteSetTheorems, WellFoundedInduction, TLAPS

-----------------------------------------------------------------------------
(* OpenRouter *)

Candidates == Providers \cup {NoProvider}
Endings == {"none", "fault", "refused", "redirect", "gate"}
Choosing == {"idle", "new", "filter"}
Looping == {"top", "wait", "pick"}
AtProvider == {"sent", "body"}

RouterType ==
  /\ catalog \in Catalogs \cup {NoCatalog}
  /\ sticky \in Candidates
  /\ consecFails \in [Providers -> Nat]
  /\ resting \in [Providers -> BOOLEAN]

LoopType ==
  /\ idx \in [Requests -> Nat \ {0}]
  /\ tried \in [Requests -> SUBSET Candidates]
  /\ consec429 \in [Requests -> Nat] /\ retryCycle \in [Requests -> Nat]
  /\ spoofed \in [Requests -> BOOLEAN]

ORTypeOK ==
  /\ RouterType /\ LoopType
  /\ cooldown \in BOOLEAN /\ appSpoof \in BOOLEAN
  /\ stage \in [Requests -> Stages \cup Providers]
  /\ order \in [Requests -> Orders] /\ need \in [Requests -> Needs]
  /\ chain \in [Requests -> Seq(Candidates)]
  /\ last \in [Requests -> Endings]
  /\ late \in [Requests -> BOOLEAN]
  /\ asked \in [Requests -> SUBSET (Candidates \X Nat)]

\* Before its loop a request has asked nobody.
FreshOK(r) ==
  stage[r] \in Choosing =>
    idx[r] = 1 /\ tried[r] = {} /\ retryCycle[r] = 0 /\ last[r] = "none"

\* Whom it has asked: the tried, all before its place in this walk, all in the
\* walks before, and the one it waits for.
AskedOK(r) ==
  /\ retryCycle[r] <= MaxRetries
  /\ tried[r] \X {retryCycle[r]} \subseteq asked[r]
  /\ \A i \in DOMAIN chain[r] : i < idx[r] => <<chain[r][i], retryCycle[r]>> \in asked[r]
  /\ \A k \in Nat : k < retryCycle[r] => Elems(chain[r]) \X {k} \subseteq asked[r]
  /\ stage[r] \in AtProvider =>
       idx[r] \in DOMAIN chain[r] /\ <<Provider(r), retryCycle[r]>> \in asked[r]

\* In a chain without repetitions only what lies behind is marked as tried, so
\* that no candidate is skipped ...
Behind(r) == {chain[r][i] : i \in {j \in DOMAIN chain[r] : j < idx[r]}}
MarksOK(r) ==
  /\ stage[r] \in Looping /\ NoRepeats(chain[r]) => tried[r] \subseteq Behind(r)
  /\ stage[r] \in AtProvider /\ NoRepeats(chain[r]) => tried[r] \subseteq Behind(r) \cup {Provider(r)}

\* ... and the end of the chain is passed by the last walk only, or by a refusal
\* that no walk would mend.
EndOK(r) ==
  /\ stage[r] \in Looping \cup AtProvider => chain[r] # <<>>
  /\ stage[r] \in Looping /\ last[r] = "none" => idx[r] = 1 /\ tried[r] = {}
  /\ stage[r] \in Looping /\ last[r] = "gate" =>
       idx[r] \in DOMAIN chain[r] /\ Provider(r) \notin tried[r]
  /\ stage[r] \in Looping => last[r] # "redirect"
  /\ stage[r] \in Looping /\ idx[r] > Len(chain[r]) /\ last[r] = "fault" /\ ~late[r]
       /\ NoRepeats(chain[r]) => retryCycle[r] = MaxRetries

FailedOK(r) ==
  stage[r] = "failed" /\ ~late[r] =>
    /\ last[r] = "gate" => spoofed[r]
    /\ last[r] \notin {"gate", "redirect"} =>
         /\ idx[r] > Len(chain[r])
         /\ last[r] # "refused" /\ NoRepeats(chain[r]) => retryCycle[r] = MaxRetries

RequestOK(r) == FreshOK(r) /\ AskedOK(r) /\ MarksOK(r) /\ EndOK(r) /\ FailedOK(r)
ORInv == \A r \in Requests : RequestOK(r)

-----------------------------------------------------------------------------
(* Parts of lists *)

\* A set of numbers has a least one.
LEMMA LeastNumber ==
  ASSUME NEW T, T \subseteq Nat, T # {}
  PROVE  \E m \in T : \A n \in T : m <= n
<1>1. PICK m \in T : \A n \in T : ~(<<n, m>> \in OpToRel(<, Nat))
      BY WFMin, NatLessThanWellFounded
<1>2. \A n \in T : ~(n < m) BY <1>1 DEF OpToRel
<1> QED BY <1>2

\* The parts of a list's beginnings that are in a set.
KeptTo(f, s, S, i) ==
  IF i = 0 THEN << >> ELSE IF s[i] \in S THEN Append(f[i-1], s[i]) ELSE f[i-1]
IsKept(f, s, S) == f = [i \in 0 .. Len(s) |-> KeptTo(f, s, S, i)]

LEMMA KeepUnfold ==
  ASSUME NEW s, NEW S
  PROVE  Keep(s, S) = (CHOOSE f : IsKept(f, s, S))[Len(s)]
BY DEF Keep, IsKept, KeptTo

LEMMA KeptExists ==
  ASSUME NEW X, NEW s \in Seq(X), NEW S
  PROVE  \E f : IsKept(f, s, S)
<1> DEFINE L == Len(s)
           Good(f, n) == \A i \in 0 .. n : f[i] = KeptTo(f, s, S, i)
           Bad == {n \in Nat : n <= L /\ ~\E f : Good(f, n)}
<1>1. L \in Nat OBVIOUS
<1> HIDE DEF Good
<1>2. Bad = {}
  <2> SUFFICES ASSUME Bad # {} PROVE FALSE OBVIOUS
  <2>1. PICK m \in Bad : \A n \in Bad : m <= n BY LeastNumber
  <2>2. m \in Nat /\ m <= L BY <2>1
  <2>3. CASE m = 0
    <3> DEFINE z == [i \in 0 .. 0 |-> << >>]
    <3>1. Good(z, 0) BY DEF KeptTo, Good
    <3> HIDE DEF z
    <3> QED BY <2>1, <2>3, <3>1
  <2>4. CASE m # 0
    <3>1. m - 1 \in Nat /\ m - 1 <= L BY <1>1, <2>2, <2>4
    <3>10. m - 1 \notin Bad BY <2>1, <2>2, <3>1
    <3>2. PICK f : Good(f, m - 1) BY <3>1, <3>10
    <3> DEFINE g == [i \in 0 .. m |-> IF i < m THEN f[i] ELSE KeptTo(f, s, S, i)]
    <3>3. ASSUME NEW i \in 0 .. m PROVE g[i] = KeptTo(g, s, S, i)
      <4>1. CASE i = m
        <5>1. g[i - 1] = f[i - 1] /\ g[i] = KeptTo(f, s, S, i) BY <2>2, <2>4, <4>1
        <5> QED BY <5>1 DEF KeptTo
      <4>2. CASE i # m
        <5>1. i \in 0 .. m - 1 /\ g[i] = f[i] BY <2>2, <4>2
        <5>2. f[i] = KeptTo(f, s, S, i) BY <3>2, <5>1 DEF Good
        <5>3. i # 0 => g[i - 1] = f[i - 1] BY <2>2, <5>1
        <5> QED BY <5>1, <5>2, <5>3 DEF KeptTo
      <4> QED BY <4>1, <4>2
    <3>4. Good(g, m) BY <3>3 DEF Good
    <3> HIDE DEF g
    <3> QED BY <2>1, <3>4
  <2> QED BY <2>3, <2>4
<1>3. PICK f : Good(f, L) BY <1>1, <1>2
<1> DEFINE h == [i \in 0 .. L |-> f[i]]
<1>4. ASSUME NEW i \in 0 .. L PROVE f[i] = KeptTo(h, s, S, i)
  <2>1. f[i] = KeptTo(f, s, S, i) BY <1>3 DEF Good
  <2>2. i # 0 => h[i - 1] = f[i - 1] BY <1>1
  <2> QED BY <2>1, <2>2 DEF KeptTo
<1>5. h = [i \in 0 .. L |-> KeptTo(h, s, S, i)] BY <1>4
<1> QED BY <1>5 DEF IsKept

\* What Keep returns is a list of elements that are in the list and in the set,
\* and repeats none that the list does not repeat.
Part(t, s, S, i) ==
  /\ t \in Seq(S)
  /\ \A k \in DOMAIN t : \E j \in 1 .. i : t[k] = s[j]
  /\ NoRepeats(s) => NoRepeats(t)

LEMMA AppendPart ==
  ASSUME NEW X, NEW s \in Seq(X), NEW S, NEW i \in DOMAIN s, NEW t,
         Part(t, s, S, i - 1), s[i] \in S
  PROVE  Part(Append(t, s[i]), s, S, i)
<1> DEFINE u == Append(t, s[i])
<1>1. t \in Seq(S) /\ Len(t) \in Nat /\ DOMAIN t = 1 .. Len(t) BY DEF Part
<1>2. /\ u \in Seq(S) /\ DOMAIN u = 1 .. Len(t) + 1 /\ u[Len(t) + 1] = s[i]
      /\ \A k \in 1 .. Len(t) : u[k] = t[k]
      BY <1>1
<1>3. i \in Nat \ {0} /\ DOMAIN s = 1 .. Len(s) OBVIOUS
<1> HIDE DEF u
<1>4. ASSUME NEW k \in DOMAIN u PROVE \E j \in 1 .. i : u[k] = s[j]
  <2>1. CASE k = Len(t) + 1 BY <1>2, <1>3, <2>1
  <2>2. CASE k # Len(t) + 1
    <3>1. k \in DOMAIN t /\ u[k] = t[k] BY <1>1, <1>2, <2>2
    <3>2. PICK j \in 1 .. i - 1 : t[k] = s[j] BY <3>1 DEF Part
    <3> QED BY <1>3, <3>1, <3>2
  <2> QED BY <2>1, <2>2
<1>5. ASSUME NoRepeats(s), NEW k \in DOMAIN u, NEW l \in DOMAIN u, u[k] = u[l] PROVE k = l
  <2>1. ASSUME NEW m \in DOMAIN t PROVE t[m] # s[i]
    <3>1. PICK j \in 1 .. i - 1 : t[m] = s[j] BY DEF Part
    <3>2. j \in DOMAIN s /\ j # i BY <1>3
    <3> QED BY <1>5, <3>1, <3>2 DEF NoRepeats
  <2>2. CASE k = Len(t) + 1 \/ l = Len(t) + 1
    BY <1>1, <1>2, <1>5, <2>1, <2>2
  <2>3. CASE k # Len(t) + 1 /\ l # Len(t) + 1
    <3>1. k \in DOMAIN t /\ l \in DOMAIN t /\ t[k] = t[l] BY <1>1, <1>2, <1>5, <2>3
    <3> QED BY <1>5, <3>1 DEF NoRepeats, Part
  <2> QED BY <2>2, <2>3
<1> QED BY <1>2, <1>4, <1>5 DEF Part, NoRepeats, u

LEMMA KeepPart ==
  ASSUME NEW X, NEW s \in Seq(X), NEW S
  PROVE  /\ Keep(s, S) \in Seq(S) /\ Elems(Keep(s, S)) \subseteq Elems(s) \cap S
         /\ NoRepeats(s) => NoRepeats(Keep(s, S))
<1> DEFINE L == Len(s)
           f == CHOOSE f : IsKept(f, s, S)
           Bad == {n \in Nat : n <= L /\ ~Part(f[n], s, S, n)}
<1>1. L \in Nat /\ DOMAIN s = 1 .. L OBVIOUS
<1>2. IsKept(f, s, S) BY KeptExists
<1> HIDE DEF f
<1>3. ASSUME NEW i \in 0 .. L PROVE f[i] = KeptTo(f, s, S, i) BY <1>2 DEF IsKept
<1>4. Bad = {}
  <2> SUFFICES ASSUME Bad # {} PROVE FALSE OBVIOUS
  <2>1. PICK m \in Bad : \A n \in Bad : m <= n BY LeastNumber
  <2>2. m \in Nat /\ m \in 0 .. L /\ ~Part(f[m], s, S, m) BY <2>1
  <2>3. CASE m = 0
    <3>1. f[m] = << >> BY <1>3, <2>2, <2>3 DEF KeptTo
    <3>2. << >> \in Seq(S) /\ DOMAIN << >> = {} OBVIOUS
    <3> QED BY <2>2, <3>1, <3>2 DEF Part, NoRepeats
  <2>4. CASE m # 0
    <3>0. m - 1 \in Nat /\ m - 1 <= L BY <1>1, <2>2, <2>4
    <3>1. m - 1 \in 0 .. L /\ m - 1 \notin Bad BY <1>1, <2>1, <2>2, <3>0
    <3>2. Part(f[m - 1], s, S, m - 1) /\ m \in DOMAIN s BY <1>1, <2>2, <2>4, <3>1
    <3>3. f[m] = IF s[m] \in S THEN Append(f[m - 1], s[m]) ELSE f[m - 1]
          BY <1>3, <2>2, <2>4 DEF KeptTo
    <3>4. CASE s[m] \in S BY <2>2, <3>2, <3>3, <3>4, AppendPart
    <3>5. CASE s[m] \notin S
      <4>1. 1 .. m - 1 \subseteq 1 .. m BY <2>2
      <4> QED BY <2>2, <3>2, <3>3, <3>5, <4>1 DEF Part
    <3> QED BY <3>4, <3>5
  <2> QED BY <2>3, <2>4
<1>5. Part(f[L], s, S, L) BY <1>1, <1>4
<1>6. Keep(s, S) = f[L] BY KeepUnfold DEF f
<1> HIDE DEF L
<1>7. f[L] \in Seq(S) BY <1>5 DEF Part
<1>8. Elems(f[L]) \subseteq Elems(s) BY <1>1, <1>5 DEF Part, Elems
<1>9. Elems(f[L]) \subseteq S BY <1>7 DEF Elems
<1> QED BY <1>5, <1>6, <1>7, <1>8, <1>9 DEF Part

LEMMA OncePart ==
  ASSUME NEW X, NEW s \in Seq(X)
  PROVE  Once(s) \in Seq(Elems(s)) /\ NoRepeats(Once(s))
<1> DEFINE new == {i \in DOMAIN s : \A j \in 1..i-1 : s[j] # s[i]}
           at == [i \in DOMAIN s |-> i]
           places == Keep(at, new)
<1>1. Len(s) \in Nat /\ DOMAIN s = 1 .. Len(s) OBVIOUS
<1>2. at \in Seq(Nat) /\ NoRepeats(at)
  <2>1. at \in [1 .. Len(s) -> Nat] BY <1>1
  <2>2. at \in Seq(Nat) BY <1>1, <2>1
  <2> QED BY <2>2 DEF NoRepeats
<1> HIDE DEF at
<1>3. places \in Seq(new) /\ NoRepeats(places) BY <1>2, KeepPart
<1>4. Once(s) = [k \in DOMAIN places |-> s[places[k]]] BY DEF Once, at
<1> HIDE DEF new, places
<1>5. ASSUME NEW k \in DOMAIN places PROVE places[k] \in new BY <1>3
<1>6. ASSUME NEW i \in new, NEW j \in new, s[i] = s[j] PROVE i = j
  <2>1. i \in 1 .. Len(s) /\ j \in 1 .. Len(s) BY <1>1 DEF new
  <2>2. ~(i < j) /\ ~(j < i)
    <3>1. i < j => i \in 1 .. j - 1 BY <2>1
    <3>2. j < i => j \in 1 .. i - 1 BY <2>1
    <3> QED BY <1>6, <3>1, <3>2 DEF new
  <2> QED BY <2>1, <2>2
<1>7. NoRepeats(Once(s)) BY <1>3, <1>4, <1>5, <1>6 DEF NoRepeats
<1>8. Len(places) \in Nat /\ DOMAIN places = 1 .. Len(places) BY <1>3
<1>9. Once(s) \in [1 .. Len(places) -> Elems(s)] BY <1>4, <1>5, <1>8 DEF Elems, new
<1> QED BY <1>7, <1>8, <1>9

-----------------------------------------------------------------------------
(* What stays *)

\* A request about which nothing changes.
Same(r) ==
  /\ UNCHANGED <<stage[r], chain[r], idx[r], tried[r], retryCycle[r], spoofed[r]>>
  /\ UNCHANGED <<last[r], late[r], asked[r]>>

LEMMA SameOK == ASSUME NEW r, RequestOK(r), Same(r) PROVE RequestOK(r)'
BY DEF Same, RequestOK, FreshOK, AskedOK, MarksOK, EndOK, FailedOK, Behind, Provider, Elems,
       NoRepeats

\* An action of one request leaves the others alone.
OnlyOf(r) == \A q \in Requests \ {r} : Same(q)

LEMMA OnlyOfOK ==
  ASSUME ORInv, NEW r \in Requests, OnlyOf(r), RequestOK(r)' PROVE ORInv'
BY SameOK DEF ORInv, OnlyOf

LEMMA NobodyOK == ASSUME ORInv, \A r \in Requests : Same(r) PROVE ORInv'
BY SameOK DEF ORInv

\* Stages that are told apart.
LEMMA NotAStage == \A p \in Candidates : p \notin Stages
BY OpenRouterAssumption DEF OpenRouterAssumption, Candidates

\* A step that moves a request only.
LEMMA Moved ==
  ASSUME ORTypeOK, NEW r \in Requests, NEW next, GoTo(r, next),
         UNCHANGED <<chain, idx, tried, retryCycle, spoofed, last, late, asked>>
  PROVE  /\ OnlyOf(r) /\ stage'[r] = next
         /\ UNCHANGED <<chain[r], idx[r], tried[r], retryCycle[r], spoofed[r], last[r],
                        late[r], asked[r]>>
BY DEF ORTypeOK, LoopType, GoTo, OnlyOf, Same

-----------------------------------------------------------------------------
(* The steps before the loop *)

LEMMA ORInitOK == ORInit => ORTypeOK /\ ORInv
<1> SUFFICES ASSUME ORInit PROVE ORTypeOK /\ ORInv OBVIOUS
<1>1. ORTypeOK
  <2>1. (CHOOSE o \in Orders : TRUE) \in Orders /\ (CHOOSE n \in Needs : TRUE) \in Needs
        BY OpenRouterAssumption DEF OpenRouterAssumption
  <2>2. << >> \in Seq(Candidates) OBVIOUS
  <2>3. /\ catalog \in Catalogs \cup {NoCatalog} /\ sticky \in Candidates
        /\ cooldown \in BOOLEAN /\ appSpoof \in BOOLEAN
        BY DEF ORInit, Candidates
  <2>4. consecFails \in [Providers -> Nat] /\ resting \in [Providers -> BOOLEAN] BY DEF ORInit
  <2>5. stage \in [Requests -> Stages \cup Providers] BY DEF ORInit, Stages
  <2>6. order \in [Requests -> Orders] /\ need \in [Requests -> Needs] BY <2>1 DEF ORInit
  <2>7. /\ chain \in [Requests -> Seq(Candidates)] /\ idx \in [Requests -> Nat \ {0}]
        /\ tried \in [Requests -> SUBSET Candidates]
        /\ consec429 \in [Requests -> Nat] /\ retryCycle \in [Requests -> Nat]
        BY <2>2 DEF ORInit
  <2>8. spoofed \in [Requests -> BOOLEAN] /\ late \in [Requests -> BOOLEAN] BY DEF ORInit
  <2>9. last \in [Requests -> Endings] /\ asked \in [Requests -> SUBSET (Candidates \X Nat)]
        BY DEF ORInit, Endings
  <2> QED BY <2>3, <2>4, <2>5, <2>6, <2>7, <2>8, <2>9 DEF ORTypeOK, RouterType, LoopType
<1>2. ORInv
  <2> SUFFICES ASSUME NEW r \in Requests PROVE RequestOK(r) BY DEF ORInv
  <2>1. /\ stage[r] = "idle" /\ chain[r] = << >> /\ idx[r] = 1 /\ tried[r] = {}
        /\ retryCycle[r] = 0 /\ last[r] = "none" /\ asked[r] = {}
        BY DEF ORInit
  <2>2. 0 <= MaxRetries BY OpenRouterAssumption DEF OpenRouterAssumption
  <2> QED BY <2>1, <2>2 DEF RequestOK, FreshOK, AskedOK, MarksOK, EndOK, FailedOK,
                            Looping, AtProvider, Elems
<1> QED BY <1>1, <1>2

LEMMA ArriveOK ==
  ASSUME ORTypeOK, ORInv, NEW r \in Requests, Arrive(r) PROVE ORInv'
<1>1. OnlyOf(r) /\ stage'[r] = "new" /\ stage[r] = "idle"
      /\ UNCHANGED <<chain[r], idx[r], tried[r], retryCycle[r], spoofed[r], last[r],
                     late[r], asked[r]>>
      BY Moved DEF Arrive, loopVars
<1>2. RequestOK(r) BY DEF ORInv
<1>3. RequestOK(r)'
      BY <1>1, <1>2 DEF RequestOK, FreshOK, AskedOK, MarksOK, EndOK, FailedOK, Behind,
         Choosing, Looping, AtProvider, Elems
<1> QED BY <1>1, <1>3, OnlyOfOK

\* A request that has its chain but has not asked anybody: any chain will do.
LEMMA ChosenOK ==
  ASSUME ORTypeOK, ORInv, NEW r \in Requests, stage[r] \in Choosing, NEW next,
         GoTo(r, next), next \in {"filter", "top"}, NEW c \in Seq(Candidates),
         chain' = [chain EXCEPT ![r] = c], next = "top" => c # << >>,
         UNCHANGED <<loopVars, last, late, asked>>
  PROVE  ORInv'
<1>1. OnlyOf(r) /\ stage'[r] = next /\ chain'[r] = c
      BY DEF ORTypeOK, LoopType, GoTo, OnlyOf, Same, loopVars
<1>2. UNCHANGED <<idx[r], tried[r], retryCycle[r], spoofed[r], last[r], late[r], asked[r]>>
      BY DEF loopVars
<1>3. idx[r] = 1 /\ tried[r] = {} /\ retryCycle[r] = 0 /\ last[r] = "none"
      BY DEF ORInv, RequestOK, FreshOK
<1>4. Len(c) \in Nat /\ DOMAIN c = 1 .. Len(c) OBVIOUS
<1>5. 0 <= MaxRetries BY OpenRouterAssumption DEF OpenRouterAssumption
<1>6. (c # << >> => Len(c) >= 1) /\ \A i \in DOMAIN c : ~(i < 1) BY <1>4
<1>7. RequestOK(r)'
      BY <1>1, <1>2, <1>3, <1>4, <1>5, <1>6 DEF RequestOK, FreshOK, AskedOK, MarksOK, EndOK,
         FailedOK, Behind, Choosing, Looping, AtProvider, Elems
<1> QED BY <1>1, <1>7, OnlyOfOK

LEMMA OrderType ==
  ASSUME ORTypeOK, NEW r \in Requests
  PROVE  /\ order[r].mode \in {"auto", "pinned", "custom"}
         /\ order[r].names \in Seq(Providers)
         /\ order[r].mode = "pinned" => order[r].names # << >>
<1>1. order[r] \in Orders BY DEF ORTypeOK
<1>2. Orders \subseteq [mode : {"auto", "pinned", "custom"}, names : Seq(Providers)]
      BY OpenRouterAssumption DEF OpenRouterAssumption
<1> QED BY <1>1, <1>2, OpenRouterAssumption DEF OpenRouterAssumption

LEMMA RanksType == ASSUME RouterType PROVE catalog.ranks \in Seq(Providers)
<1>1. CASE catalog = NoCatalog BY <1>1 DEF NoCatalog
<1>2. CASE catalog \in Catalogs BY <1>2, OpenRouterAssumption DEF OpenRouterAssumption
<1> QED BY <1>1, <1>2 DEF RouterType

\* A list of elements of a set of providers is a list of candidates.
LEMMA Listed ==
  ASSUME NEW S, S \subseteq Candidates, NEW t \in Seq(S) PROVE t \in Seq(Candidates)
OBVIOUS

LEMMA ElemsOf == ASSUME NEW X, NEW s \in Seq(X) PROVE Elems(s) \subseteq X
BY DEF Elems

LEMMA OneAfter ==
  ASSUME NEW p, NEW t, NEW X, t \in Seq(X), NoRepeats(t), p \in X, p \notin Elems(t)
  PROVE  <<p>> \o t \in Seq(X) /\ NoRepeats(<<p>> \o t)
<1> DEFINE u == <<p>> \o t
<1>1. Len(t) \in Nat /\ DOMAIN t = 1 .. Len(t) OBVIOUS
<1>2. u \in Seq(X) /\ DOMAIN u = 1 .. Len(t) + 1 /\ u[1] = p
      /\ \A i \in 2 .. Len(t) + 1 : u[i] = t[i - 1]
      BY <1>1
<1> HIDE DEF u
<1>3. ASSUME NEW i \in DOMAIN u, NEW j \in DOMAIN u, u[i] = u[j] PROVE i = j
  <2>1. ASSUME NEW k \in DOMAIN u, k # 1 PROVE k - 1 \in DOMAIN t /\ u[k] = t[k - 1] /\ u[k] # p
    <3>1. k - 1 \in DOMAIN t /\ u[k] = t[k - 1] BY <1>1, <1>2, <2>1
    <3> QED BY <3>1 DEF Elems
  <2>2. CASE i = 1 \/ j = 1 BY <1>2, <1>3, <2>1, <2>2
  <2>3. CASE i # 1 /\ j # 1
    <3>1. i - 1 = j - 1 BY <1>3, <2>1, <2>3 DEF NoRepeats
    <3> QED BY <1>2, <3>1
  <2> QED BY <2>2, <2>3
<1> QED BY <1>2, <1>3 DEF NoRepeats, u

\* The automatic chain: the sticky provider, then the others by rank.
LEMMA StickyFirstType ==
  ASSUME RouterType PROVE StickyFirst \in Seq(Providers) /\ NoRepeats(StickyFirst)
<1> DEFINE front == IF sticky # NoProvider /\ Usable(sticky) THEN <<sticky>> ELSE << >>
           rest == Keep(Once(catalog.ranks), AllUsable \ Elems(front))
<1>1. catalog.ranks \in Seq(Providers) BY RanksType
<1>2. Once(catalog.ranks) \in Seq(Elems(catalog.ranks)) /\ NoRepeats(Once(catalog.ranks))
      BY <1>1, OncePart
<1>3. rest \in Seq(AllUsable \ Elems(front)) /\ NoRepeats(rest)
      BY <1>2, KeepPart
<1>4. StickyFirst = front \o rest BY DEF StickyFirst
<1> HIDE DEF rest
<1>5. rest \in Seq(Providers) BY <1>3 DEF AllUsable
<1>6. CASE sticky # NoProvider /\ Usable(sticky)
  <2>1. front = <<sticky>> /\ sticky \in Providers BY <1>6 DEF RouterType, Candidates
  <2>2. sticky \in Elems(front)
    <3>1. 1 \in DOMAIN <<sticky>> /\ <<sticky>>[1] = sticky OBVIOUS
    <3> QED BY <2>1, <3>1 DEF Elems
  <2>3. Elems(rest) \subseteq AllUsable \ Elems(front) BY <1>3, ElemsOf
  <2> QED BY <1>3, <1>4, <1>5, <2>1, <2>2, <2>3, OneAfter
<1>7. CASE ~(sticky # NoProvider /\ Usable(sticky))
  <2>1. front = << >> BY <1>7
  <2>2. << >> \o rest = rest BY <1>5
  <2> QED BY <1>3, <1>4, <1>5, <2>1, <2>2
<1> QED BY <1>6, <1>7

\* A chain without repetitions, unless a custom order has one.
SoundChain(r, c) ==
  order[r].mode # "custom" \/ NoRepeats(order[r].names) => NoRepeats(c)

LEMMA SelectedType ==
  ASSUME ORTypeOK, NEW r \in Requests, SelectChain(r)
  PROVE  \E c \in Seq(Providers) :
           /\ chain' = [chain EXCEPT ![r] = c] /\ SoundChain(r, c)
           /\ sticky' \in {NoProvider, sticky} \/ (c # << >> /\ sticky' = Head(c))
<1> DEFINE named == order[r].names
           custom == Keep(named, Ranked)
           Chosen(c) ==
             /\ chain' = [chain EXCEPT ![r] = c]
             /\ sticky' = IF c # << >> THEN Head(c)
                          ELSE IF sticky # NoProvider /\ ~Usable(sticky) THEN NoProvider
                          ELSE sticky
             /\ c \in Seq(Providers) /\ SoundChain(r, c)
<1>1. named \in Seq(Providers) /\ RouterType BY OrderType DEF ORTypeOK
<1>2. StickyFirst \in Seq(Providers) /\ SoundChain(r, StickyFirst)
      BY <1>1, StickyFirstType DEF SoundChain
<1>3. custom \in Seq(Ranked) /\ (NoRepeats(named) => NoRepeats(custom)) BY <1>1, KeepPart
<1>4. custom \in Seq(Providers)
  <2>1. Ranked \subseteq Providers BY <1>1, RanksType, ElemsOf DEF Ranked
  <2> QED BY <1>3, <2>1
<1>5. order[r].mode = "pinned" => <<Head(named)>> \in Seq(Providers) /\ SoundChain(r, <<Head(named)>>)
  <2>1. \A p : NoRepeats(<<p>>) BY DEF NoRepeats
  <2>2. named # << >> => Head(named) \in Providers BY <1>1
  <2> QED BY <2>1, <2>2, OrderType DEF SoundChain
<1>6. order[r].mode = "custom" => SoundChain(r, custom) BY <1>3 DEF SoundChain
<1>7. \E c : Chosen(c)
  <2> HIDE DEF custom, named
  <2>1. CASE order[r].mode = "pinned"
    <3>1. order[r].mode # "auto" /\ order[r].mode # "custom" BY <2>1
    <3> QED BY <1>5, <2>1, <3>1 DEF SelectChain, custom, named
  <2>2. CASE order[r].mode = "custom" /\ custom # << >>
    <3>1. order[r].mode # "auto" /\ order[r].mode # "pinned" BY <2>2
    <3>2. Chosen(custom) BY <1>4, <1>6, <2>2, <3>1 DEF SelectChain, custom, named
    <3> QED BY <3>2
  <2>3. CASE order[r].mode = "auto" \/ (order[r].mode = "custom" /\ custom = << >>)
    <3>1. order[r].mode # "pinned" BY <2>3
    <3>2. Chosen(StickyFirst) BY <1>2, <2>3, <3>1 DEF SelectChain, custom, named
    <3> QED BY <3>2
  <2> QED BY <2>1, <2>2, <2>3, OrderType
<1> QED BY <1>7

LEMMA SelectChainOK ==
  ASSUME ORTypeOK, ORInv, NEW r \in Requests, SelectChain(r) PROVE ORInv'
<1>1. PICK c \in Seq(Candidates) : chain' = [chain EXCEPT ![r] = c]
  <2>1. PICK c \in Seq(Providers) : chain' = [chain EXCEPT ![r] = c] BY SelectedType
  <2>2. c \in Seq(Candidates) BY Listed DEF Candidates
  <2> QED BY <2>1, <2>2
<1>2. stage[r] \in Choosing /\ GoTo(r, "filter") /\ UNCHANGED <<loopVars, last, late, asked>>
      BY DEF SelectChain, Choosing
<1>3. "filter" \in {"filter", "top"} /\ "filter" # "top" OBVIOUS
<1> QED BY <1>1, <1>2, <1>3, ChosenOK

LEMMA FilteredType ==
  ASSUME ORTypeOK, NEW r \in Requests, FilterCapable(r)
  PROVE  \E c \in Seq(Candidates) :
           /\ c # << >> /\ chain' = [chain EXCEPT ![r] = c]
           /\ NoRepeats(chain[r]) => NoRepeats(c)
<1> DEFINE capable == need[r] \cup (Providers \ Ranked)
           kept == Keep(chain[r], capable)
           source == IF order[r].mode = "custom" /\ order[r].names # << >>
                     THEN order[r].names ELSE catalog.ranks
           other == Keep(Once(source), capable \cap AllUsable)
           filtered == IF chain[r] = << >> \/ catalog.ranks = << >> THEN chain[r]
                       ELSE IF kept # << >> THEN kept ELSE other
           c == IF filtered = << >> THEN <<NoProvider>> ELSE filtered
<1>1. chain' = [chain EXCEPT ![r] = c] BY DEF FilterCapable
<1>2. chain[r] \in Seq(Candidates) BY DEF ORTypeOK
<1>3. capable \subseteq Candidates
  <2>1. need[r] \in Needs /\ Needs \subseteq SUBSET Providers
        BY OpenRouterAssumption DEF OpenRouterAssumption, ORTypeOK
  <2> QED BY <2>1 DEF Candidates
<1> HIDE DEF capable
<1>4. kept \in Seq(capable) /\ (NoRepeats(chain[r]) => NoRepeats(kept)) BY <1>2, KeepPart
<1>5. source \in Seq(Providers) BY OrderType, RanksType DEF ORTypeOK
<1> HIDE DEF source
<1>6. Once(source) \in Seq(Elems(source)) /\ NoRepeats(Once(source)) BY <1>5, OncePart
<1>7. other \in Seq(capable \cap AllUsable) /\ NoRepeats(other) BY <1>6, KeepPart
<1> HIDE DEF kept, other
<1>8. kept \in Seq(Candidates) BY <1>3, <1>4, Listed
<1>9. other \in Seq(Candidates) BY <1>3, <1>7, Listed
<1>10. filtered \in Seq(Candidates) /\ (NoRepeats(chain[r]) => NoRepeats(filtered))
      BY <1>2, <1>4, <1>7, <1>8, <1>9
<1> HIDE DEF filtered
<1>11. <<NoProvider>> \in Seq(Candidates) /\ <<NoProvider>> # << >> /\ NoRepeats(<<NoProvider>>)
      BY DEF Candidates, NoRepeats
<1>12. c \in Seq(Candidates) /\ c # << >> /\ (NoRepeats(chain[r]) => NoRepeats(c))
      BY <1>10, <1>11
<1> HIDE DEF c
<1> QED BY <1>1, <1>12

LEMMA FilterCapableOK ==
  ASSUME ORTypeOK, ORInv, NEW r \in Requests, FilterCapable(r) PROVE ORInv'
<1>1. PICK c \in Seq(Candidates) : c # << >> /\ chain' = [chain EXCEPT ![r] = c]
      BY FilteredType
<1>2. stage[r] \in Choosing /\ GoTo(r, "top") /\ UNCHANGED <<loopVars, last, late, asked>>
      BY DEF FilterCapable, Choosing
<1>3. "top" \in {"filter", "top"} OBVIOUS
<1> QED BY <1>1, <1>2, <1>3, ChosenOK

-----------------------------------------------------------------------------
(* The steps of the loop *)

\* Where a request is in its chain.
LEMMA PlaceType ==
  ASSUME ORTypeOK, NEW r \in Requests
  PROVE  /\ Len(chain[r]) \in Nat /\ DOMAIN chain[r] = 1 .. Len(chain[r])
         /\ \A i \in DOMAIN chain[r] : chain[r][i] \in Candidates
         /\ idx[r] \in Nat \ {0} /\ retryCycle[r] \in Nat /\ tried[r] \subseteq Candidates
         /\ chain[r] # << >> => Len(chain[r]) >= 1
         /\ (chain[r] = << >>) <=> (Len(chain[r]) = 0)
         /\ idx[r] \in DOMAIN chain[r] <=> idx[r] <= Len(chain[r])
<1>1. chain[r] \in Seq(Candidates) /\ idx[r] \in Nat \ {0} BY DEF ORTypeOK, LoopType
<1> QED BY <1>1 DEF ORTypeOK, LoopType

\* A request that goes on in the loop where it is, or fails because it is late.
LEMMA GoesOnOK ==
  ASSUME ORTypeOK, ORInv, NEW r \in Requests, stage[r] \in Looping, NEW next, GoTo(r, next),
         next \in Looping \/ (next = "failed" /\ late[r]),
         UNCHANGED <<chain, loopVars, last, late, asked>>
  PROVE  ORInv'
<1>1. OnlyOf(r) /\ stage'[r] = next
      /\ UNCHANGED <<chain[r], idx[r], tried[r], retryCycle[r], spoofed[r], last[r],
                     late[r], asked[r]>>
      BY Moved DEF loopVars
<1>2. RequestOK(r) BY DEF ORInv
<1>3. RequestOK(r)'
      BY <1>1, <1>2 DEF RequestOK, FreshOK, AskedOK, MarksOK, EndOK, FailedOK, Behind,
         Choosing, Looping, AtProvider, Elems, NoRepeats, Provider
<1> QED BY <1>1, <1>3, OnlyOfOK

LEMMA CheckDeadlineOK ==
  ASSUME ORTypeOK, ORInv, NEW r \in Requests, CheckDeadline(r) PROVE ORInv'
BY GoesOnOK DEF CheckDeadline, Looping

LEMMA WaitOK ==
  ASSUME ORTypeOK, ORInv, NEW r \in Requests, Wait(r) PROVE ORInv'
BY GoesOnOK DEF Wait, Looping

\* The end of the chain: there is nobody left to ask.
LEMMA EndOfChainOK ==
  ASSUME ORTypeOK, ORInv, NEW r \in Requests, stage[r] = "pick", idx[r] > Len(chain[r]),
         GoTo(r, "failed"), UNCHANGED <<chain, loopVars, last, late, asked>>
  PROVE  ORInv'
<1>1. OnlyOf(r) /\ stage'[r] = "failed"
      /\ UNCHANGED <<chain[r], idx[r], tried[r], retryCycle[r], spoofed[r], last[r],
                     late[r], asked[r]>>
      BY Moved DEF loopVars
<1>2. RequestOK(r) BY DEF ORInv
<1>3. last[r] \notin {"none", "gate", "redirect"} /\ last[r] \in Endings
  <2>1. idx[r] \notin DOMAIN chain[r] /\ chain[r] # << >> /\ idx[r] # 1
        BY <1>2, PlaceType DEF RequestOK, EndOK, Looping
  <2> QED BY <1>2, <2>1 DEF RequestOK, EndOK, Looping, ORTypeOK
<1>4. FailedOK(r)'
  <2> SUFFICES ASSUME ~late[r], NoRepeats(chain[r]), last[r] # "refused"
               PROVE  retryCycle[r] = MaxRetries
      BY <1>1, <1>3 DEF FailedOK, NoRepeats
  <2>1. EndOK(r) /\ last[r] = "fault" BY <1>2, <1>3 DEF RequestOK, Endings
  <2> QED BY <2>1 DEF EndOK, Looping
<1>5. RequestOK(r)'
      BY <1>1, <1>2, <1>4 DEF RequestOK, FreshOK, AskedOK, MarksOK, EndOK, Behind,
         Choosing, Looping, AtProvider, Elems, NoRepeats, Provider
<1> QED BY <1>1, <1>5, OnlyOfOK

\* A candidate that is marked as tried is asked already.
LEMMA SkipOK ==
  ASSUME ORTypeOK, ORInv, NEW r \in Requests, stage[r] = "pick", idx[r] <= Len(chain[r]),
         Provider(r) \in tried[r], GoTo(r, "top"), idx' = [idx EXCEPT ![r] = @ + 1],
         UNCHANGED <<chain, tried, retryCycle, spoofed, last, late, asked>>
  PROVE  ORInv'
<1>1. OnlyOf(r) /\ stage'[r] = "top" /\ idx'[r] = idx[r] + 1
      BY DEF ORTypeOK, LoopType, GoTo, OnlyOf, Same
<1>2. RequestOK(r) BY DEF ORInv
<1>3. idx[r] \in DOMAIN chain[r] /\ idx[r] \in Nat BY PlaceType
<1>4. ~NoRepeats(chain[r])
  <2> SUFFICES ASSUME NoRepeats(chain[r]) PROVE FALSE OBVIOUS
  <2>1. PICK i \in DOMAIN chain[r] : i < idx[r] /\ Provider(r) = chain[r][i]
        BY <1>2 DEF RequestOK, MarksOK, Looping, Behind
  <2> QED BY <1>3, <2>1 DEF NoRepeats, Provider
<1>5. <<Provider(r), retryCycle[r]>> \in asked[r] BY <1>2 DEF RequestOK, AskedOK
<1>6. \A i \in DOMAIN chain[r] : i < idx[r] + 1 => i < idx[r] \/ i = idx[r]
      BY <1>3, PlaceType
<1>7. AskedOK(r)'
      BY <1>1, <1>2, <1>5, <1>6 DEF RequestOK, AskedOK, AtProvider, Provider, Elems
<1>8. last[r] # "none" /\ last[r] # "gate" BY <1>2, <1>5 DEF RequestOK, EndOK, Looping
<1>9. RequestOK(r)'
      BY <1>1, <1>2, <1>4, <1>7, <1>8 DEF RequestOK, FreshOK, MarksOK, EndOK, FailedOK,
         Choosing, Looping, AtProvider, NoRepeats
<1> QED BY <1>1, <1>9, OnlyOfOK

\* A candidate is asked.
LEMMA AskOK ==
  ASSUME ORTypeOK, ORInv, NEW r \in Requests, stage[r] = "pick", idx[r] <= Len(chain[r]),
         GoTo(r, "sent"), tried' = [tried EXCEPT ![r] = @ \cup {Provider(r)}],
         asked' = [asked EXCEPT ![r] = @ \cup {<<Provider(r), retryCycle[r]>>}],
         spoofed' = [spoofed EXCEPT ![r] = appSpoof],
         UNCHANGED <<chain, idx, retryCycle, last, late>>
  PROVE  ORInv'
<1>1. /\ OnlyOf(r) /\ stage'[r] = "sent"
      /\ tried'[r] = tried[r] \cup {Provider(r)}
      /\ asked'[r] = asked[r] \cup {<<Provider(r), retryCycle[r]>>}
      BY DEF ORTypeOK, LoopType, GoTo, OnlyOf, Same
<1>2. RequestOK(r) BY DEF ORInv
<1>3. idx[r] \in DOMAIN chain[r] BY PlaceType
<1>4. AskedOK(r)'
      BY <1>1, <1>2, <1>3 DEF RequestOK, AskedOK, Provider, Elems
<1>5. RequestOK(r)'
      BY <1>1, <1>2, <1>3, <1>4 DEF RequestOK, FreshOK, MarksOK, EndOK, FailedOK, Behind,
         Choosing, Looping, AtProvider, NoRepeats, Provider
<1> QED BY <1>1, <1>5, OnlyOfOK

LEMMA AttemptOK ==
  ASSUME ORTypeOK, ORInv, NEW r \in Requests, Attempt(r) PROVE ORInv'
<1>1. CASE idx[r] > Len(chain[r]) /\ GoTo(r, "failed") /\ UNCHANGED <<loopVars, asked>>
      BY <1>1, EndOfChainOK DEF Attempt
<1>2. CASE /\ idx[r] <= Len(chain[r]) /\ Provider(r) \in tried[r] /\ GoTo(r, "top")
           /\ idx' = [idx EXCEPT ![r] = @ + 1]
           /\ UNCHANGED <<tried, consec429, retryCycle, spoofed, asked>>
      BY <1>2, SkipOK DEF Attempt
<1>3. CASE /\ idx[r] <= Len(chain[r]) /\ GoTo(r, "sent")
           /\ tried' = [tried EXCEPT ![r] = @ \cup {Provider(r)}]
           /\ asked' = [asked EXCEPT ![r] = @ \cup {<<Provider(r), retryCycle[r]>>}]
           /\ spoofed' = [spoofed EXCEPT ![r] = appSpoof]
           /\ UNCHANGED <<idx, consec429, retryCycle>>
      BY <1>3, AskOK DEF Attempt
<1> QED BY <1>1, <1>2, <1>3 DEF Attempt

\* An attempt that has failed: the next candidate, or the next walk.
LEMMA AdvanceOK ==
  ASSUME ORTypeOK, ORInv, NEW r \in Requests, stage[r] \in AtProvider,
         NEW how \in {"fault", "refused"}, Ends(r, how),
         NEW mayCycle \in BOOLEAN, how = "fault" => mayCycle, Advance(r, mayCycle),
         UNCHANGED <<chain, spoofed, asked>>
  PROVE  ORInv'
<1>1. RequestOK(r) BY DEF ORInv
<1>2. idx[r] \in DOMAIN chain[r] /\ <<chain[r][idx[r]], retryCycle[r]>> \in asked[r]
      BY <1>1 DEF RequestOK, AskedOK, Provider
<1>3. last'[r] = how /\ chain'[r] = chain[r] /\ spoofed'[r] = spoofed[r] /\ asked'[r] = asked[r]
      BY DEF Ends, ORTypeOK
<1>4. chain[r] # << >> BY <1>1 DEF RequestOK, EndOK
<1> DEFINE again == mayCycle /\ idx[r] >= Len(chain[r]) /\ retryCycle[r] < MaxRetries /\ ~late[r]
<1>5. CASE /\ ~again
           /\ idx' = [idx EXCEPT ![r] = @ + 1] /\ GoTo(r, "top")
           /\ UNCHANGED <<tried, retryCycle, late>>
  <2>1. /\ OnlyOf(r) /\ stage'[r] = "top" /\ idx'[r] = idx[r] + 1
        /\ UNCHANGED <<tried[r], retryCycle[r], late[r]>>
        BY <1>5 DEF ORTypeOK, LoopType, GoTo, Ends, OnlyOf, Same
  <2>2. \A i \in DOMAIN chain[r] : i < idx[r] + 1 <=> i < idx[r] \/ i = idx[r]
        BY <1>2, PlaceType
  <2>3. AskedOK(r)'
        BY <1>1, <1>2, <1>3, <2>1, <2>2 DEF RequestOK, AskedOK, AtProvider, Elems
  <2>4. MarksOK(r)'
    <3>1. Behind(r)' = Behind(r) \cup {chain[r][idx[r]]}
          BY <1>2, <1>3, <2>1, <2>2 DEF Behind
    <3> QED BY <1>1, <1>3, <2>1, <3>1 DEF RequestOK, MarksOK, Looping, AtProvider, Provider
  <2>5. EndOK(r)'
    <3>1. ASSUME idx[r] + 1 > Len(chain[r]), how = "fault", ~late[r]
          PROVE  retryCycle[r] = MaxRetries
      <4>1. idx[r] >= Len(chain[r]) BY <3>1, PlaceType
      <4>2. retryCycle[r] <= MaxRetries BY <1>1 DEF RequestOK, AskedOK
      <4> QED BY <1>5, <3>1, <4>1, <4>2, PlaceType, OpenRouterAssumption
              DEF OpenRouterAssumption
    <3> QED BY <1>3, <1>4, <2>1, <3>1 DEF EndOK, Looping, AtProvider
  <2>6. RequestOK(r)'
        BY <1>3, <2>1, <2>3, <2>4, <2>5 DEF RequestOK, FreshOK, FailedOK, Choosing
  <2> QED BY <2>1, <2>6, OnlyOfOK
<1>6. CASE /\ again
           /\ idx' = [idx EXCEPT ![r] = 1] /\ tried' = [tried EXCEPT ![r] = {}]
           /\ retryCycle' = [retryCycle EXCEPT ![r] = @ + 1]
           /\ \/ GoTo(r, "top") /\ UNCHANGED late
              \/ GoTo(r, "failed") /\ late' = [late EXCEPT ![r] = TRUE]
  <2>1. /\ OnlyOf(r) /\ stage'[r] \in {"top", "failed"} /\ idx'[r] = 1 /\ tried'[r] = {}
        /\ retryCycle'[r] = retryCycle[r] + 1
        /\ stage'[r] = "failed" => late'[r]
        BY <1>6 DEF ORTypeOK, LoopType, GoTo, Ends, OnlyOf, Same
  <2>2. \A i \in DOMAIN chain[r] : i < idx[r] \/ i = idx[r]
        BY <1>2, <1>6, PlaceType
  <2>3. Elems(chain[r]) \X {retryCycle[r]} \subseteq asked[r]
        BY <1>1, <1>2, <2>2 DEF RequestOK, AskedOK, Elems
  <2>4. \A k \in Nat : k < retryCycle[r] + 1 => k < retryCycle[r] \/ k = retryCycle[r]
        BY PlaceType
  <2>5. retryCycle[r] + 1 <= MaxRetries
        BY <1>6, PlaceType, OpenRouterAssumption DEF OpenRouterAssumption
  <2>6. \A i \in DOMAIN chain[r] : ~(i < 1) BY PlaceType
  <2>7. AskedOK(r)'
        BY <1>1, <1>3, <2>1, <2>3, <2>4, <2>5, <2>6 DEF RequestOK, AskedOK, AtProvider, Elems
  <2>8. ~(1 > Len(chain[r])) BY <1>4, PlaceType
  <2>9. RequestOK(r)'
        BY <1>3, <1>4, <2>1, <2>7, <2>8
        DEF RequestOK, FreshOK, MarksOK, EndOK, FailedOK, Choosing, Looping, AtProvider
  <2> QED BY <2>1, <2>9, OnlyOfOK
<1> QED BY <1>5, <1>6 DEF Advance

LEMMA NetworkErrorOK ==
  ASSUME ORTypeOK, ORInv, NEW r \in Requests, NetworkError(r) PROVE ORInv'
<1>1. "fault" \in {"fault", "refused"} /\ TRUE \in BOOLEAN /\ stage[r] \in AtProvider
      BY DEF NetworkError, AtProvider
<1> QED BY <1>1, AdvanceOK DEF NetworkError

LEMMA BodyFailsOK ==
  ASSUME ORTypeOK, ORInv, NEW r \in Requests, BodyFails(r) PROVE ORInv'
<1>1. "fault" \in {"fault", "refused"} /\ TRUE \in BOOLEAN /\ stage[r] \in AtProvider
      BY DEF BodyFails, AtProvider
<1> QED BY <1>1, AdvanceOK DEF BodyFails

\* A request that leaves the loop for good and says nothing of a failure.
LEMMA LeavesOK ==
  ASSUME ORTypeOK, ORInv, NEW r \in Requests, NEW next, GoTo(r, next),
         next \notin Choosing, next \notin Looping, next \notin AtProvider, next # "failed",
         UNCHANGED <<chain, loopVars, last, late, asked>>
  PROVE  ORInv'
<1>1. OnlyOf(r) /\ stage'[r] = next
      /\ UNCHANGED <<chain[r], idx[r], tried[r], retryCycle[r], spoofed[r], last[r],
                     late[r], asked[r]>>
      BY Moved DEF loopVars
<1>2. RequestOK(r) BY DEF ORInv
<1>3. RequestOK(r)'
      BY <1>1, <1>2 DEF RequestOK, FreshOK, AskedOK, MarksOK, EndOK, FailedOK, Elems
<1> QED BY <1>1, <1>3, OnlyOfOK

LEMMA Apart ==
  /\ \A next \in Providers \cup {"answered", "gone"} :
       next \notin Choosing /\ next \notin Looping /\ next \notin AtProvider /\ next # "failed"
<1>1. Choosing \cup Looping \cup AtProvider \cup {"failed"} \subseteq Stages
      BY DEF Choosing, Looping, AtProvider, Stages
<1>2. \A p \in Providers : p \notin Stages BY NotAStage DEF Candidates
<1>3. \A next \in {"answered", "gone"} :
        next \notin Choosing /\ next \notin Looping /\ next \notin AtProvider /\ next # "failed"
      BY DEF Choosing, Looping, AtProvider
<1> QED BY <1>1, <1>2, <1>3

LEMMA HeadersOK ==
  ASSUME ORTypeOK, ORInv, NEW r \in Requests, Headers(r) PROVE ORInv'
<1>1. stage[r] = "sent" /\ OnlyOf(r) /\ stage'[r] = "body"
      /\ UNCHANGED <<chain[r], idx[r], tried[r], retryCycle[r], spoofed[r], last[r],
                     late[r], asked[r]>>
      BY Moved DEF Headers, loopVars
<1>2. RequestOK(r) BY DEF ORInv
<1>3. RequestOK(r)'
      BY <1>1, <1>2 DEF RequestOK, FreshOK, AskedOK, MarksOK, EndOK, FailedOK, Behind,
         Choosing, Looping, AtProvider, Elems, NoRepeats, Provider
<1> QED BY <1>1, <1>3, OnlyOfOK

LEMMA EndsOK ==
  ASSUME ORTypeOK, ORInv, NEW r \in Requests,
         StreamBreaks(r) \/ Served(r) \/ SetSticky(r) \/ ClientGone(r)
  PROVE  ORInv'
<1>1. PICK next \in Providers \cup {"answered", "gone"} : GoTo(r, next)
  <2>1. CASE Served(r)
    <3>1. PICK p \in Providers \cup {Provider(r)} :
                 GoTo(r, IF p = NoProvider THEN "answered" ELSE p)
          BY <2>1 DEF Served
    <3>2. Provider(r) \in Candidates
      <4>1. stage[r] = "body" /\ RequestOK(r) BY <2>1 DEF Served, ORInv
      <4> QED BY <4>1, PlaceType DEF RequestOK, AskedOK, AtProvider, Provider
    <3> QED BY <3>1, <3>2 DEF Candidates
  <2> QED BY <2>1 DEF StreamBreaks, SetSticky, ClientGone
<1>2. UNCHANGED <<chain, loopVars, last, late, asked>>
      BY DEF StreamBreaks, Served, SetSticky, ClientGone
<1> QED BY <1>1, <1>2, Apart, LeavesOK

LEMMA BudgetEndsOK ==
  ASSUME ORTypeOK, ORInv, NEW r \in Requests, BudgetEnds(r) PROVE ORInv'
<1>1. OnlyOf(r) /\ late'[r] = TRUE
      /\ UNCHANGED <<stage[r], chain[r], idx[r], tried[r], retryCycle[r], spoofed[r],
                     last[r], asked[r]>>
      BY DEF BudgetEnds, loopVars, ORTypeOK, OnlyOf, Same
<1>2. RequestOK(r) BY DEF ORInv
<1>3. FreshOK(r)' /\ AskedOK(r)'
      BY <1>1, <1>2 DEF RequestOK, FreshOK, AskedOK, AtProvider, Elems, Provider
<1>4. MarksOK(r)' BY <1>1, <1>2 DEF RequestOK, MarksOK, Behind, NoRepeats, Provider
<1>5. EndOK(r)' /\ FailedOK(r)' BY <1>1, <1>2 DEF RequestOK, EndOK, FailedOK, Provider
<1> QED BY <1>1, <1>3, <1>4, <1>5, OnlyOfOK DEF RequestOK

\* The same candidate once more: its mark is taken back.
LEMMA AgainOK ==
  ASSUME ORTypeOK, ORInv, NEW r \in Requests, stage[r] = "sent",
         NEW how \in {"fault", "gate"}, Ends(r, how), GoTo(r, "top"),
         tried' = [tried EXCEPT ![r] = @ \ {Provider(r)}],
         UNCHANGED <<chain, idx, retryCycle, spoofed, late, asked>>
  PROVE  ORInv'
<1>1. /\ OnlyOf(r) /\ stage'[r] = "top" /\ last'[r] = how
      /\ tried'[r] = tried[r] \ {Provider(r)}
      /\ UNCHANGED <<chain[r], idx[r], retryCycle[r], spoofed[r], late[r], asked[r]>>
      BY DEF ORTypeOK, LoopType, GoTo, Ends, OnlyOf, Same
<1>2. RequestOK(r) /\ stage[r] \in AtProvider BY DEF ORInv, AtProvider
<1>3. idx[r] \in DOMAIN chain[r] /\ ~(idx[r] > Len(chain[r]))
      BY <1>2, PlaceType DEF RequestOK, AskedOK
<1>4. AskedOK(r)' BY <1>1, <1>2 DEF RequestOK, AskedOK, AtProvider, Elems
<1>5. MarksOK(r)'
      BY <1>1, <1>2 DEF RequestOK, MarksOK, Looping, AtProvider, Behind, Provider, NoRepeats
<1>6. EndOK(r)' BY <1>1, <1>2, <1>3 DEF RequestOK, EndOK, Looping, AtProvider, Provider
<1>7. RequestOK(r)'
      BY <1>1, <1>4, <1>5, <1>6 DEF RequestOK, FreshOK, FailedOK, Choosing
<1> QED BY <1>1, <1>7, OnlyOfOK

\* An attempt after which the request fails at once.
LEMMA FailsOK ==
  ASSUME ORTypeOK, ORInv, NEW r \in Requests, stage[r] = "sent",
         NEW how \in Endings, Ends(r, how), GoTo(r, "failed"),
         \/ late' = [late EXCEPT ![r] = TRUE]
         \/ UNCHANGED late /\ (how = "redirect" \/ (how = "gate" /\ spoofed[r])),
         UNCHANGED <<chain, idx, tried, retryCycle, spoofed, asked>>
  PROVE  ORInv'
<1>1. /\ OnlyOf(r) /\ stage'[r] = "failed" /\ last'[r] = how
      /\ late'[r] \/ how = "redirect" \/ (how = "gate" /\ spoofed[r])
      /\ UNCHANGED <<chain[r], idx[r], tried[r], retryCycle[r], spoofed[r], asked[r]>>
      BY DEF ORTypeOK, LoopType, GoTo, Ends, OnlyOf, Same
<1>2. RequestOK(r) BY DEF ORInv
<1>3. RequestOK(r)'
      BY <1>1, <1>2 DEF RequestOK, FreshOK, AskedOK, MarksOK, EndOK, FailedOK,
         Choosing, Looping, AtProvider, Elems
<1> QED BY <1>1, <1>3, OnlyOfOK

LEMMA HarnessGateOK ==
  ASSUME ORTypeOK, ORInv, NEW r \in Requests, HarnessGate(r) PROVE ORInv'
<1>1. CASE spoofed[r] BY <1>1, FailsOK DEF HarnessGate, Endings
<1>2. CASE ~spoofed[r] BY <1>2, AgainOK DEF HarnessGate
<1> QED BY <1>1, <1>2

LEMMA ErrorStatusOK ==
  ASSUME ORTypeOK, ORInv, NEW r \in Requests, ErrorStatus(r) PROVE ORInv'
<1>1. CASE Ends(r, "redirect") /\ GoTo(r, "failed") /\ UNCHANGED <<idx, tried, consec429, retryCycle, late>>
      BY <1>1, FailsOK DEF ErrorStatus, Endings
<1>2. ASSUME NEW transient \in BOOLEAN, Ends(r, IF transient THEN "fault" ELSE "refused"),
             Advance(r, transient)
      PROVE  ORInv'
  <2>1. stage[r] \in AtProvider /\ UNCHANGED <<chain, spoofed, asked>> BY DEF ErrorStatus, AtProvider
  <2>2. (IF transient THEN "fault" ELSE "refused") \in {"fault", "refused"} OBVIOUS
  <2>3. (IF transient THEN "fault" ELSE "refused") = "fault" => transient OBVIOUS
  <2> QED BY <1>2, <2>1, <2>2, <2>3, AdvanceOK
<1> QED BY <1>1, <1>2 DEF ErrorStatus

LEMMA RateLimitedOK ==
  ASSUME ORTypeOK, ORInv, NEW r \in Requests, RateLimited(r) PROVE ORInv'
<1>1. CASE /\ GoTo(r, "top") /\ tried' = [tried EXCEPT ![r] = @ \ {Provider(r)}]
           /\ UNCHANGED <<idx, retryCycle, late>>
      BY <1>1, AgainOK DEF RateLimited
<1>2. CASE /\ GoTo(r, "failed") /\ late' = [late EXCEPT ![r] = TRUE]
           /\ UNCHANGED <<idx, tried, retryCycle>>
      BY <1>2, FailsOK DEF RateLimited, Endings
<1>3. CASE Advance(r, TRUE)
  <2>1. "fault" \in {"fault", "refused"} /\ TRUE \in BOOLEAN /\ stage[r] \in AtProvider
        BY DEF RateLimited, AtProvider
  <2> QED BY <1>3, <2>1, AdvanceOK DEF RateLimited
<1> QED BY <1>1, <1>2, <1>3 DEF RateLimited, Advance

LEMMA RequestStepOK ==
  ASSUME ORTypeOK, ORInv, NEW r \in Requests,
         Arrive(r) \/ RequestStep(r) \/ ClientGone(r) \/ BudgetEnds(r)
  PROVE  ORInv'
<1>1. CASE Arrive(r) \/ SelectChain(r) \/ FilterCapable(r)
      BY <1>1, ArriveOK, SelectChainOK, FilterCapableOK
<1>2. CASE CheckDeadline(r) \/ Wait(r) \/ Attempt(r)
      BY <1>2, CheckDeadlineOK, WaitOK, AttemptOK
<1>3. CASE NetworkError(r) \/ ErrorStatus(r) \/ HarnessGate(r) \/ RateLimited(r) \/ Headers(r)
      BY <1>3, NetworkErrorOK, ErrorStatusOK, HarnessGateOK, RateLimitedOK, HeadersOK
<1>4. CASE BodyFails(r) \/ StreamBreaks(r) \/ Served(r) \/ SetSticky(r) \/ ClientGone(r)
      BY <1>4, BodyFailsOK, EndsOK
<1>5. CASE BudgetEnds(r) BY <1>5, BudgetEndsOK
<1> QED BY <1>1, <1>2, <1>3, <1>4, <1>5 DEF RequestStep, Answer

LEMMA ORStep == ORTypeOK /\ ORInv /\ [ORNext]_orVars => ORInv'
<1> SUFFICES ASSUME ORTypeOK, ORInv, [ORNext]_orVars PROVE ORInv' OBVIOUS
<1>1. CASE UNCHANGED orVars
  <2>1. \A r \in Requests : Same(r) BY <1>1 DEF orVars, loopVars, Same
  <2> QED BY <2>1, NobodyOK
<1>2. ASSUME NEW r \in Requests, Arrive(r) \/ RequestStep(r) \/ ClientGone(r) \/ BudgetEnds(r)
      PROVE  ORInv'
      BY <1>2, RequestStepOK
<1>3. CASE (\E p \in Providers : HalfOpen(p)) \/ RefreshRanks \/ CooldownEnds
  <2>1. \A r \in Requests : Same(r)
        BY <1>3 DEF HalfOpen, RefreshRanks, CooldownEnds, loopVars, Same
  <2> QED BY <2>1, NobodyOK
<1> QED BY <1>1, <1>2, <1>3 DEF ORNext

-----------------------------------------------------------------------------
(* Types *)

LEMMA RecordResultType ==
  ASSUME RouterType, NEW p \in Candidates, NEW ok \in BOOLEAN, RecordResult(p, ok)
  PROVE  RouterType'
<1>1. CASE p = NoProvider BY <1>1 DEF RecordResult, RouterType, routerVars
<1>2. CASE p # NoProvider
  <2> DEFINE fails == IF ok THEN 0
                      ELSE IF consecFails[p] < Threshold THEN consecFails[p] + 1 ELSE Threshold
             full == fails = Threshold
  <2>1. /\ consecFails' = [consecFails EXCEPT ![p] = fails]
        /\ resting' = [resting EXCEPT ![p] = full]
        /\ sticky' \in {NoProvider, sticky} /\ catalog' = catalog
        BY <1>2 DEF RecordResult
  <2>2. p \in Providers BY <1>2 DEF Candidates
  <2>3. fails \in Nat
        BY <2>2, OpenRouterAssumption DEF OpenRouterAssumption, RouterType
  <2>4. full \in BOOLEAN OBVIOUS
  <2> HIDE DEF fails, full
  <2>5. consecFails' \in [Providers -> Nat] BY <2>1, <2>2, <2>3 DEF RouterType
  <2>6. resting' \in [Providers -> BOOLEAN] BY <2>1, <2>4 DEF RouterType
  <2> QED BY <2>1, <2>5, <2>6 DEF RouterType, Candidates
<1> QED BY <1>1, <1>2

LEMMA CandidateAsked ==
  ASSUME ORTypeOK, ORInv, NEW r \in Requests, stage[r] \in AtProvider
  PROVE  Provider(r) \in Candidates
BY PlaceType DEF ORInv, RequestOK, AskedOK, Provider

LEMMA AdvanceType ==
  ASSUME ORTypeOK, NEW r \in Requests, NEW mayCycle \in BOOLEAN, Advance(r, mayCycle),
         UNCHANGED spoofed, consec429' \in [Requests -> Nat]
  PROVE  /\ LoopType' /\ stage' \in [Requests -> Stages \cup Providers]
         /\ late' \in [Requests -> BOOLEAN]
<1> USE DEF ORTypeOK, LoopType
<1>1. idx' \in [Requests -> Nat \ {0}] BY DEF Advance
<1>2. tried' \in [Requests -> SUBSET Candidates] BY DEF Advance
<1>3. retryCycle' \in [Requests -> Nat] BY DEF Advance
<1>4. stage' \in [Requests -> Stages \cup Providers] BY DEF Advance, GoTo, Stages
<1>5. late' \in [Requests -> BOOLEAN] BY DEF Advance
<1> QED BY <1>1, <1>2, <1>3, <1>4, <1>5

\* The steps of a request but for what the provider router and the loop record.
LEMMA GoToType ==
  ASSUME ORTypeOK, NEW r \in Requests, NEW next \in Stages \cup Providers, GoTo(r, next)
  PROVE  stage' \in [Requests -> Stages \cup Providers]
BY DEF ORTypeOK, GoTo

LEMMA EndsType ==
  ASSUME ORTypeOK, NEW r \in Requests, NEW how \in Endings, Ends(r, how)
  PROVE  last' \in [Requests -> Endings]
BY DEF ORTypeOK, Ends

LEMMA BeforeLoopType ==
  ASSUME ORTypeOK, NEW r \in Requests, Arrive(r) \/ SelectChain(r) \/ FilterCapable(r)
  PROVE  ORTypeOK'
<1>1. CASE Arrive(r)
  <2>1. stage' \in [Requests -> Stages \cup Providers] BY <1>1, GoToType DEF Arrive, Stages
  <2>2. order' \in [Requests -> Orders] /\ need' \in [Requests -> Needs]
        BY <1>1 DEF Arrive, ORTypeOK
  <2> QED BY <1>1, <2>1, <2>2 DEF Arrive, ORTypeOK, RouterType, LoopType, routerVars, loopVars
<1>2. CASE SelectChain(r)
  <2>1. stage' \in [Requests -> Stages \cup Providers] BY <1>2, GoToType DEF SelectChain, Stages
  <2>2. PICK c \in Seq(Providers) :
           /\ chain' = [chain EXCEPT ![r] = c]
           /\ sticky' \in {NoProvider, sticky} \/ (c # << >> /\ sticky' = Head(c))
        BY <1>2, SelectedType
  <2>3. c \in Seq(Candidates) /\ (c # << >> => Head(c) \in Providers)
        BY Listed DEF Candidates
  <2>4. chain' \in [Requests -> Seq(Candidates)] BY <2>2, <2>3 DEF ORTypeOK
  <2>5. RouterType'
        BY <1>2, <2>2, <2>3 DEF SelectChain, ORTypeOK, RouterType, Candidates
  <2> QED BY <1>2, <2>1, <2>4, <2>5 DEF SelectChain, ORTypeOK, LoopType, loopVars
<1>3. CASE FilterCapable(r)
  <2>1. stage' \in [Requests -> Stages \cup Providers]
        BY <1>3, GoToType DEF FilterCapable, Stages
  <2>2. chain' \in [Requests -> Seq(Candidates)] BY <1>3, FilteredType DEF ORTypeOK
  <2> QED BY <1>3, <2>1, <2>2 DEF FilterCapable, ORTypeOK, RouterType, LoopType, routerVars, loopVars
<1> QED BY <1>1, <1>2, <1>3

LEMMA InLoopType ==
  ASSUME ORTypeOK, ORInv, NEW r \in Requests, CheckDeadline(r) \/ Wait(r) \/ Attempt(r)
  PROVE  ORTypeOK'
<1>1. CASE CheckDeadline(r) \/ Wait(r)
  <2>1. stage' \in [Requests -> Stages \cup Providers]
        BY <1>1, GoToType DEF CheckDeadline, Wait, Stages
  <2> QED BY <1>1, <2>1
          DEF CheckDeadline, Wait, ORTypeOK, RouterType, LoopType, routerVars, loopVars
<1>2. CASE Attempt(r)
  <2>1. stage' \in [Requests -> Stages \cup Providers] BY <1>2, GoToType DEF Attempt, Stages
  <2>2. idx[r] <= Len(chain[r]) => Provider(r) \in Candidates BY PlaceType DEF Provider
  <2>3. retryCycle[r] \in Nat BY PlaceType
  <2>4. LoopType'
    <3>1. CASE UNCHANGED loopVars BY <3>1 DEF ORTypeOK, LoopType, loopVars
    <3>2. CASE idx' = [idx EXCEPT ![r] = @ + 1] /\ UNCHANGED <<tried, consec429, retryCycle, spoofed>>
      <4>1. idx' \in [Requests -> Nat \ {0}] BY <3>2 DEF ORTypeOK, LoopType
      <4> QED BY <3>2, <4>1 DEF ORTypeOK, LoopType
    <3>3. CASE /\ idx[r] <= Len(chain[r]) /\ tried' = [tried EXCEPT ![r] = @ \cup {Provider(r)}]
               /\ spoofed' = [spoofed EXCEPT ![r] = appSpoof]
               /\ UNCHANGED <<idx, consec429, retryCycle>>
      <4>1. tried' \in [Requests -> SUBSET Candidates]
            BY <2>2, <3>3 DEF ORTypeOK, LoopType
      <4>2. spoofed' \in [Requests -> BOOLEAN] BY <3>3 DEF ORTypeOK, LoopType
      <4> QED BY <3>3, <4>1, <4>2 DEF ORTypeOK, LoopType
    <3> QED BY <1>2, <3>1, <3>2, <3>3 DEF Attempt
  <2>5. asked' \in [Requests -> SUBSET (Candidates \X Nat)]
    <3>1. CASE UNCHANGED asked BY <3>1 DEF ORTypeOK
    <3>2. CASE /\ idx[r] <= Len(chain[r])
               /\ asked' = [asked EXCEPT ![r] = @ \cup {<<Provider(r), retryCycle[r]>>}]
      <4>1. <<Provider(r), retryCycle[r]>> \in Candidates \X Nat BY <2>2, <2>3, <3>2
      <4> QED BY <3>2, <4>1 DEF ORTypeOK
    <3> QED BY <1>2, <3>1, <3>2 DEF Attempt
  <2> QED BY <1>2, <2>1, <2>4, <2>5 DEF Attempt, ORTypeOK, RouterType, routerVars
<1> QED BY <1>1, <1>2

LEMMA FailureType ==
  ASSUME ORTypeOK, ORInv, NEW r \in Requests,
         NetworkError(r) \/ BodyFails(r) \/ ErrorStatus(r)
  PROVE  ORTypeOK'
<1>1. Provider(r) \in Candidates BY CandidateAsked DEF NetworkError, BodyFails, ErrorStatus, AtProvider
<1>2. RouterType'
  <2>1. \E p \in Candidates : RecordResult(p, FALSE)
        BY <1>1 DEF NetworkError, BodyFails, ErrorStatus, Named, Candidates
  <2> QED BY <2>1, RecordResultType DEF ORTypeOK
<1>3. last' \in [Requests -> Endings]
  <2>1. PICK how \in Endings : Ends(r, how)
        BY DEF NetworkError, BodyFails, ErrorStatus, Endings
  <2> QED BY <2>1, EndsType
<1>4. consec429' \in [Requests -> Nat]
  <2>1. consec429' = consec429 \/ consec429' = [consec429 EXCEPT ![r] = 0]
        BY DEF NetworkError, BodyFails, ErrorStatus
  <2>2. consec429 \in [Requests -> Nat] BY DEF ORTypeOK, LoopType
  <2> QED BY <2>1, <2>2
<1>5. /\ LoopType' /\ stage' \in [Requests -> Stages \cup Providers]
      /\ late' \in [Requests -> BOOLEAN]
  <2>1. CASE \E mayCycle \in BOOLEAN : Advance(r, mayCycle)
    <3>1. UNCHANGED spoofed BY DEF NetworkError, BodyFails, ErrorStatus
    <3> QED BY <1>4, <2>1, <3>1, AdvanceType
  <2>2. CASE /\ GoTo(r, "failed") /\ UNCHANGED spoofed
             /\ UNCHANGED <<idx, tried, consec429, retryCycle, late>>
    <3>1. stage' \in [Requests -> Stages \cup Providers] BY <2>2, GoToType DEF Stages
    <3> QED BY <2>2, <3>1 DEF ORTypeOK, LoopType
  <2>3. CASE NetworkError(r) \/ BodyFails(r)
    <3>1. Advance(r, TRUE) BY <2>3 DEF NetworkError, BodyFails
    <3> QED BY <2>1, <3>1
  <2>4. CASE ErrorStatus(r)
    <3>1. \/ \E transient \in BOOLEAN : Advance(r, transient)
          \/ /\ GoTo(r, "failed") /\ UNCHANGED spoofed
             /\ UNCHANGED <<idx, tried, consec429, retryCycle, late>>
          BY <2>4 DEF ErrorStatus
    <3> QED BY <2>1, <2>2, <3>1
  <2> QED BY <2>3, <2>4
<1> QED BY <1>2, <1>3, <1>5 DEF NetworkError, BodyFails, ErrorStatus, ORTypeOK

LEMMA RateLimitedType ==
  ASSUME ORTypeOK, ORInv, NEW r \in Requests, RateLimited(r) PROVE ORTypeOK'
<1>1. last' \in [Requests -> Endings] BY EndsType DEF RateLimited, Endings
<1>2. stage' \in [Requests -> Stages \cup Providers]
  <2>1. GoTo(r, "top") \/ GoTo(r, "failed") BY DEF RateLimited
  <2> QED BY <2>1, GoToType DEF Stages
<1>3. cooldown' \in BOOLEAN BY DEF RateLimited, ORTypeOK
<1>4. idx' \in [Requests -> Nat \ {0}]
  <2>1. idx' = idx \/ idx' = [idx EXCEPT ![r] = @ + 1] \/ idx' = [idx EXCEPT ![r] = 1]
        BY DEF RateLimited
  <2>2. idx \in [Requests -> Nat \ {0}] /\ idx[r] + 1 \in Nat \ {0}
        BY PlaceType DEF ORTypeOK, LoopType
  <2> QED BY <2>1, <2>2
<1>5. tried' \in [Requests -> SUBSET Candidates]
  <2>1. \/ tried' = tried
        \/ tried' = [tried EXCEPT ![r] = @ \ {Provider(r)}] \/ tried' = [tried EXCEPT ![r] = {}]
        BY DEF RateLimited
  <2>2. tried \in [Requests -> SUBSET Candidates] BY DEF ORTypeOK, LoopType
  <2> QED BY <2>1, <2>2
<1>6. consec429' \in [Requests -> Nat]
  <2>1. consec429' = [consec429 EXCEPT ![r] = @ + 1] \/ consec429' = [consec429 EXCEPT ![r] = 0]
        BY DEF RateLimited
  <2>2. consec429 \in [Requests -> Nat] BY DEF ORTypeOK, LoopType
  <2> QED BY <2>1, <2>2
<1>7. retryCycle' \in [Requests -> Nat]
  <2>1. retryCycle' = retryCycle \/ retryCycle' = [retryCycle EXCEPT ![r] = @ + 1]
        BY DEF RateLimited
  <2>2. retryCycle \in [Requests -> Nat] BY DEF ORTypeOK, LoopType
  <2> QED BY <2>1, <2>2
<1>8. late' \in [Requests -> BOOLEAN] BY DEF RateLimited, ORTypeOK
<1> QED BY <1>1, <1>2, <1>3, <1>4, <1>5, <1>6, <1>7, <1>8
        DEF RateLimited, ORTypeOK, RouterType, LoopType, routerVars

LEMMA OtherAnswersType ==
  ASSUME ORTypeOK, ORInv, NEW r \in Requests,
         HarnessGate(r) \/ Headers(r) \/ StreamBreaks(r) \/ Served(r) \/ SetSticky(r)
           \/ ClientGone(r) \/ BudgetEnds(r)
  PROVE  ORTypeOK'
<1>1. CASE HarnessGate(r)
  <2>1. last' \in [Requests -> Endings] BY <1>1, EndsType DEF HarnessGate, Endings
  <2>2. stage' \in [Requests -> Stages \cup Providers]
        BY <1>1, GoToType DEF HarnessGate, Stages
  <2>3. tried' \in [Requests -> SUBSET Candidates]
    <3>1. tried' = tried \/ tried' = [tried EXCEPT ![r] = @ \ {Provider(r)}]
          BY <1>1 DEF HarnessGate
    <3>2. tried \in [Requests -> SUBSET Candidates] BY DEF ORTypeOK, LoopType
    <3> QED BY <3>1, <3>2
  <2>4. appSpoof' \in BOOLEAN BY <1>1 DEF HarnessGate, ORTypeOK
  <2> QED BY <1>1, <2>1, <2>2, <2>3, <2>4
          DEF HarnessGate, ORTypeOK, RouterType, LoopType, routerVars
<1>2. CASE Headers(r)
  <2>1. stage' \in [Requests -> Stages \cup Providers] BY <1>2, GoToType DEF Headers, Stages
  <2> QED BY <1>2, <2>1 DEF Headers, ORTypeOK, RouterType, LoopType, routerVars, loopVars
<1>3. CASE StreamBreaks(r) \/ Served(r)
  <2>1. Provider(r) \in Candidates
        BY <1>3, CandidateAsked DEF StreamBreaks, Served, AtProvider
  <2>2. RouterType'
    <3>1. \E p \in Candidates, ok \in BOOLEAN : RecordResult(p, ok)
          BY <1>3, <2>1 DEF StreamBreaks, Served, Candidates
    <3> QED BY <3>1, RecordResultType DEF ORTypeOK
  <2>3. \E next \in Stages \cup Providers : GoTo(r, next)
    <3>1. CASE StreamBreaks(r) BY <3>1 DEF StreamBreaks, Stages
    <3>2. CASE Served(r)
      <4>1. PICK p \in Providers \cup {Provider(r)} :
                   GoTo(r, IF p = NoProvider THEN "answered" ELSE p)
            BY <3>2 DEF Served
      <4>2. (IF p = NoProvider THEN "answered" ELSE p) \in Stages \cup Providers
            BY <2>1 DEF Stages, Candidates
      <4> QED BY <4>1, <4>2
    <3> QED BY <1>3, <3>1, <3>2
  <2>4. stage' \in [Requests -> Stages \cup Providers] BY <2>3, GoToType
  <2> QED BY <1>3, <2>2, <2>4 DEF StreamBreaks, Served, ORTypeOK, LoopType, loopVars
<1>4. CASE SetSticky(r)
  <2>1. stage' \in [Requests -> Stages \cup Providers] BY <1>4, GoToType DEF SetSticky, Stages
  <2>2. sticky' \in Candidates BY <1>4 DEF SetSticky, Candidates
  <2> QED BY <1>4, <2>1, <2>2 DEF SetSticky, ORTypeOK, RouterType, LoopType, loopVars
<1>5. CASE ClientGone(r)
  <2>1. stage' \in [Requests -> Stages \cup Providers] BY <1>5, GoToType DEF ClientGone, Stages
  <2>2. RouterType'
    <3>1. CASE stage[r] = "sent" /\ RecordResult(Provider(r), FALSE)
          BY <3>1, CandidateAsked, RecordResultType DEF AtProvider, ORTypeOK
    <3>2. CASE UNCHANGED routerVars BY <3>2 DEF routerVars, RouterType, ORTypeOK
    <3> QED BY <1>5, <3>1, <3>2 DEF ClientGone
  <2> QED BY <1>5, <2>1, <2>2 DEF ClientGone, ORTypeOK, LoopType, loopVars
<1>6. CASE BudgetEnds(r)
  <2>1. late' \in [Requests -> BOOLEAN] BY <1>6 DEF BudgetEnds, ORTypeOK
  <2> QED BY <1>6, <2>1 DEF BudgetEnds, ORTypeOK, RouterType, LoopType, routerVars, loopVars
<1> QED BY <1>1, <1>2, <1>3, <1>4, <1>5, <1>6

LEMMA ORTypeStep == ORTypeOK /\ ORInv /\ [ORNext]_orVars => ORTypeOK'
<1> SUFFICES ASSUME ORTypeOK, ORInv, [ORNext]_orVars PROVE ORTypeOK' OBVIOUS
<1>1. CASE UNCHANGED orVars
      BY <1>1 DEF orVars, routerVars, loopVars, ORTypeOK, RouterType, LoopType
<1>2. ASSUME NEW r \in Requests, Arrive(r) \/ RequestStep(r) \/ ClientGone(r) \/ BudgetEnds(r)
      PROVE  ORTypeOK'
      BY <1>2, BeforeLoopType, InLoopType, FailureType, RateLimitedType, OtherAnswersType
      DEF RequestStep, Answer
<1>3. ASSUME NEW p \in Providers, HalfOpen(p) PROVE ORTypeOK'
  <2>1. resting' \in [Providers -> BOOLEAN] BY <1>3 DEF HalfOpen, ORTypeOK, RouterType
  <2> QED BY <1>3, <2>1 DEF HalfOpen, ORTypeOK, RouterType, LoopType, loopVars
<1>4. CASE RefreshRanks
  <2>1. catalog' \in Catalogs /\ sticky' \in Candidates
        BY <1>4 DEF RefreshRanks, ORTypeOK, RouterType, Candidates
  <2> QED BY <1>4, <2>1 DEF RefreshRanks, ORTypeOK, RouterType, LoopType, loopVars
<1>5. CASE CooldownEnds
      BY <1>5 DEF CooldownEnds, ORTypeOK, RouterType, LoopType, routerVars, loopVars
<1> QED BY <1>1, <1>2, <1>3, <1>4, <1>5 DEF ORNext

-----------------------------------------------------------------------------
(* Theorems *)

LEMMA ORInvariant == ORSpec => [](ORTypeOK /\ ORInv)
<1>1. ORInit => ORTypeOK /\ ORInv BY ORInitOK
<1>2. ORTypeOK /\ ORInv /\ [ORNext]_orVars => (ORTypeOK /\ ORInv)' BY ORStep, ORTypeStep
<1> QED BY <1>1, <1>2, PTL DEF ORSpec

\* The router, the loop variables and the histories keep their types: a request is
\* only ever sent to a candidate of its chain (server.go 2293-2320).
THEOREM ORTypeCorrect == ORSpec => []ORTypeOK
BY ORInvariant, PTL

\* Nobody is skipped and no walk is left out before a failure is reported
\* (server.go 2298-2640), whatever the other requests do to the router.
THEOREM AllAsked == ORSpec => []GaveUpAfterAll
<1>1. ORTypeOK /\ ORInv => GaveUpAfterAll
  <2> SUFFICES ASSUME ORTypeOK, ORInv, NEW r \in Requests,
                      stage[r] = "failed", ~late[r], last[r] \notin {"gate", "redirect"}
               PROVE  /\ Elems(chain[r]) \X (0 .. retryCycle[r]) \subseteq asked[r]
                      /\ last[r] # "refused" /\ NoRepeats(chain[r]) => retryCycle[r] = MaxRetries
      BY DEF GaveUpAfterAll
  <2>1. RequestOK(r) BY DEF ORInv
  <2>2. idx[r] > Len(chain[r])
        /\ (last[r] # "refused" /\ NoRepeats(chain[r]) => retryCycle[r] = MaxRetries)
        BY <2>1 DEF RequestOK, FailedOK
  <2>3. \A i \in DOMAIN chain[r] : i < idx[r] BY <2>2, PlaceType
  <2>4. Elems(chain[r]) \X {retryCycle[r]} \subseteq asked[r]
        BY <2>1, <2>3 DEF RequestOK, AskedOK, Elems
  <2>5. \A k \in 0 .. retryCycle[r] : k \in Nat /\ (k < retryCycle[r] \/ k = retryCycle[r])
        BY PlaceType
  <2>6. \A k \in 0 .. retryCycle[r] : Elems(chain[r]) \X {k} \subseteq asked[r]
        BY <2>1, <2>4, <2>5 DEF RequestOK, AskedOK
  <2> QED BY <2>2, <2>6
<1> QED BY <1>1, ORInvariant, PTL

\* The gate's refusal is final only for an attempt with the attribution headers
\* (server.go 2556-2572), although requests share the flag that adds them.
THEOREM GateAfterSpoof == ORSpec => []GateTriedSpoofed
<1>1. ORInv => GateTriedSpoofed BY DEF ORInv, RequestOK, FailedOK, GateTriedSpoofed
<1> QED BY <1>1, ORInvariant, PTL

\* A request has no chain before it chose one, and then a sound one.
ChainOK(r) ==
  /\ stage[r] \in {"idle", "new"} => chain[r] = << >>
  /\ SoundChain(r, chain[r])

\* No step but the arrival and the choice of a chain touches what the chain hangs on.
LEMMA KeepsChain ==
  ASSUME ORTypeOK, ORInv, NEW r \in Requests,
         RequestStep(r) \/ ClientGone(r) \/ BudgetEnds(r), ~SelectChain(r), ~FilterCapable(r)
  PROVE  /\ UNCHANGED <<chain, order>>
         /\ \A q \in Requests : stage'[q] \in {"idle", "new"} => stage[q] = stage'[q]
<1>1. UNCHANGED <<chain, order>>
      BY DEF RequestStep, Answer, CheckDeadline, Wait, Attempt, NetworkError, ErrorStatus,
         HarnessGate, RateLimited, Headers, BodyFails, StreamBreaks, Served, SetSticky,
         ClientGone, BudgetEnds
<1>2. \/ UNCHANGED stage
      \/ \E next \in {"top", "wait", "pick", "sent", "body", "answered", "failed", "gone"} :
           GoTo(r, next)
      \/ \E next \in Providers : GoTo(r, next)
  <2>1. CASE Served(r)
    <3>1. PICK p \in Providers \cup {Provider(r)} :
                 GoTo(r, IF p = NoProvider THEN "answered" ELSE p)
          BY <2>1 DEF Served
    <3>2. p \in Candidates BY <2>1, CandidateAsked DEF Served, AtProvider, Candidates
    <3> QED BY <3>1, <3>2 DEF Candidates
  <2>2. CASE NetworkError(r) \/ BodyFails(r) \/ ErrorStatus(r)
    <3>1. (\E mayCycle \in BOOLEAN : Advance(r, mayCycle)) \/ GoTo(r, "failed")
          BY <2>2 DEF NetworkError, BodyFails, ErrorStatus
    <3> QED BY <3>1 DEF Advance
  <2>3. CASE HarnessGate(r) \/ RateLimited(r)
    <3>1. GoTo(r, "top") \/ GoTo(r, "failed") BY <2>3 DEF HarnessGate, RateLimited
    <3> QED BY <3>1
  <2>4. CASE Attempt(r)
    <3>1. GoTo(r, "top") \/ GoTo(r, "failed") \/ GoTo(r, "sent") BY <2>4 DEF Attempt
    <3> QED BY <3>1
  <2>5. CASE CheckDeadline(r) \/ Wait(r) \/ Headers(r) \/ StreamBreaks(r) \/ SetSticky(r)
             \/ ClientGone(r) \/ BudgetEnds(r)
        BY <2>5 DEF CheckDeadline, Wait, Headers, StreamBreaks, SetSticky, ClientGone, BudgetEnds
  <2> QED BY <2>1, <2>2, <2>3, <2>4, <2>5 DEF RequestStep, Answer
<1>3. \A p \in Providers : p \notin {"idle", "new"} BY NotAStage DEF Candidates, Stages
<1>4. stage \in [Requests -> Stages \cup Providers] BY DEF ORTypeOK
<1>5. \A q \in Requests : stage'[q] \in {"idle", "new"} => stage[q] = stage'[q]
  <2>1. CASE UNCHANGED stage BY <2>1
  <2>2. CASE \E next \in {"top", "wait", "pick", "sent", "body", "answered", "failed", "gone"} :
               GoTo(r, next)
    <3>1. PICK next : GoTo(r, next) /\ next \notin {"idle", "new"} BY <2>2
    <3> QED BY <1>4, <3>1 DEF GoTo
  <2>3. CASE \E next \in Providers : GoTo(r, next)
    <3>1. PICK next : GoTo(r, next) /\ next \notin {"idle", "new"} BY <1>3, <2>3
    <3> QED BY <1>4, <3>1 DEF GoTo
  <2> QED BY <1>2, <2>1, <2>2, <2>3
<1> QED BY <1>1, <1>5

LEMMA ChainStep ==
  ASSUME ORTypeOK, ORInv, \A r \in Requests : ChainOK(r), [ORNext]_orVars
  PROVE  \A r \in Requests : ChainOK(r)'
<1>1. ASSUME UNCHANGED <<chain, order>>,
             \A q \in Requests : stage'[q] \in {"idle", "new"} => stage[q] = stage'[q]
      PROVE  \A q \in Requests : ChainOK(q)'
      BY <1>1 DEF ChainOK, SoundChain, NoRepeats
<1>2. CASE UNCHANGED orVars BY <1>1, <1>2 DEF orVars
<1>3. ASSUME NEW r \in Requests, Arrive(r) PROVE \A q \in Requests : ChainOK(q)'
  <2>1. /\ stage[r] = "idle" /\ chain' = chain
        /\ \A q \in Requests \ {r} : stage'[q] = stage[q] /\ order'[q] = order[q]
        BY <1>3 DEF Arrive, GoTo, ORTypeOK
  <2>2. chain'[r] = << >> BY <2>1 DEF ChainOK
  <2>3. NoRepeats(<< >>) BY DEF NoRepeats
  <2>4. ChainOK(r)' BY <2>2, <2>3 DEF ChainOK, SoundChain
  <2>5. ASSUME NEW q \in Requests \ {r} PROVE ChainOK(q)'
        BY <2>1, <2>5 DEF ChainOK, SoundChain, NoRepeats
  <2> QED BY <2>4, <2>5
<1>4. ASSUME NEW r \in Requests, SelectChain(r) \/ FilterCapable(r)
      PROVE  \A q \in Requests : ChainOK(q)'
  <2>1. \E c : chain' = [chain EXCEPT ![r] = c] /\ SoundChain(r, c)
    <3>1. CASE SelectChain(r) BY <3>1, SelectedType
    <3>2. CASE FilterCapable(r)
      <4>1. PICK c : chain' = [chain EXCEPT ![r] = c] /\ (NoRepeats(chain[r]) => NoRepeats(c))
            BY <3>2, FilteredType
      <4>2. SoundChain(r, chain[r]) BY DEF ChainOK
      <4> QED BY <4>1, <4>2 DEF SoundChain
    <3> QED BY <1>4, <3>1, <3>2
  <2>2. PICK c : chain' = [chain EXCEPT ![r] = c] /\ SoundChain(r, c) BY <2>1
  <2>3. order' = order /\ (GoTo(r, "filter") \/ GoTo(r, "top"))
        BY <1>4 DEF SelectChain, FilterCapable
  <2>4. stage'[r] \notin {"idle", "new"} BY <2>3 DEF GoTo, ORTypeOK
  <2>5. chain'[r] = c BY <2>2 DEF ORTypeOK
  <2>6. ChainOK(r)' BY <2>2, <2>3, <2>4, <2>5 DEF ChainOK, SoundChain
  <2>7. ASSUME NEW q \in Requests \ {r} PROVE ChainOK(q)'
    <3>1. chain'[q] = chain[q] /\ stage'[q] = stage[q] BY <2>2, <2>3 DEF GoTo, ORTypeOK
    <3> QED BY <2>3, <3>1 DEF ChainOK, SoundChain, NoRepeats
  <2> QED BY <2>6, <2>7
<1>5. ASSUME NEW r \in Requests, RequestStep(r) \/ ClientGone(r) \/ BudgetEnds(r)
      PROVE  \A q \in Requests : ChainOK(q)'
      BY <1>1, <1>4, <1>5, KeepsChain
<1>6. ASSUME NEW p \in Providers, HalfOpen(p) PROVE \A q \in Requests : ChainOK(q)'
      BY <1>1, <1>6 DEF HalfOpen
<1>7. CASE RefreshRanks \/ CooldownEnds BY <1>1, <1>7 DEF RefreshRanks, CooldownEnds
<1> QED BY <1>2, <1>3, <1>5, <1>6, <1>7 DEF ORNext

\* A request's chain names no provider twice unless the operator's order does
\* (router.go 391-436, capability.go 157-219).
Unrepeated == \A r \in Requests : SoundChain(r, chain[r])

THEOREM ChainsUnrepeated == ORSpec => []Unrepeated
<1> DEFINE Chains == \A r \in Requests : ChainOK(r)
<1>1. ORInit => Chains
  <2>1. NoRepeats(<< >>) BY DEF NoRepeats
  <2> QED BY <2>1 DEF ORInit, ChainOK, SoundChain
<1>2. ORTypeOK /\ ORInv /\ Chains /\ [ORNext]_orVars => Chains' BY ChainStep
<1>3. Chains => Unrepeated BY DEF ChainOK, Unrepeated
<1> HIDE DEF Chains
<1> QED BY <1>1, <1>2, <1>3, ORInvariant, PTL DEF ORSpec

-----------------------------------------------------------------------------
(* The message a client reads *)

Kinds == {"thinking", "text", "tool", "image"}
PieceParts == {"thinking", "gap", "blank", "signature", "text", "refusal", "args"}
Texts == Seq([item : Nat, part : PieceParts, n : Nat])
Block == [kind : Kinds, text : Texts, open : BOOLEAN]
StopReasons == {"end_turn", "tool_use", "max_tokens", "refusal"}
Msg == [phase : {"none", "open", "told", "done", "failed"}, blocks : Seq(Block),
        stop : StopReasons \cup {"none"}]

Events ==
  {MessageStart, MessageStop, ErrorEvent}
    \cup {BlockStart(i, kind) : i \in Nat, kind \in Kinds}
    \cup {BlockDelta(i, text) : i \in Nat, text \in Texts}
    \cup {BlockStop(i) : i \in Nat} \cup {MessageDelta(stop) : stop \in StopReasons}

LastBlock(m) == m.blocks[Len(m.blocks)]
Closed(m) == \A i \in DOMAIN m.blocks : ~m.blocks[i].open
Opened(m) == m.blocks # <<>> /\ LastBlock(m).open

\* The blocks with one changed.
Extended(m, text) == [m EXCEPT !.blocks[Len(m.blocks)].text = @ \o text]
Shut(m) == [m EXCEPT !.blocks[Len(m.blocks)].open = FALSE]

\* What one event may be, and what it makes of the message.
Starts(m, e, z) == e = MessageStart /\ m.phase = "none" /\ z = [m EXCEPT !.phase = "open"]
Opens(m, e, z) ==
  /\ m.phase = "open" /\ Closed(m)
  /\ \E kind \in Kinds : /\ e = BlockStart(Len(m.blocks) + 1, kind)
                         /\ z = [m EXCEPT !.blocks = Append(@, NewBlock(kind))]
Extends(m, e, z) ==
  /\ m.phase = "open" /\ Opened(m)
  /\ \E text \in Texts : /\ text # <<>> /\ e = BlockDelta(Len(m.blocks), text)
                         /\ z = Extended(m, text) /\ Promise!WellFormed(LastBlock(z))
Shuts(m, e, z) ==
  /\ m.phase = "open" /\ Opened(m)
  /\ LastBlock(m).kind \in {"text", "thinking"} => LastBlock(m).text # <<>>
  /\ e = BlockStop(Len(m.blocks)) /\ z = Shut(m)
Tells(m, e, z) ==
  /\ m.phase = "open" /\ Closed(m)
  /\ \E s \in StopReasons : /\ s = "tool_use" => ToolShown(m)
                            /\ e = MessageDelta(s) /\ z = [m EXCEPT !.phase = "told", !.stop = s]
Stops(m, e, z) == m.phase = "told" /\ e = MessageStop /\ z = [m EXCEPT !.phase = "done"]
Fails(m, e, z) ==
  m.phase \in {"none", "open"} /\ e = ErrorEvent /\ z = [m EXCEPT !.phase = "failed"]

Good(m, e, z) ==
  \/ Starts(m, e, z) \/ Opens(m, e, z) \/ Extends(m, e, z) \/ Shuts(m, e, z)
  \/ Tells(m, e, z) \/ Stops(m, e, z) \/ Fails(m, e, z)

\* The events of w make message z of message m, each one a step of MessageStream.
Delivers(w, m, z) ==
  /\ w \in Seq(Events)
  /\ \E t \in [0..Len(w) -> Msg] :
       /\ t[0] = m /\ t[Len(w)] = z
       /\ \A n \in 1..Len(w) : Good(t[n - 1], w[n], t[n])

-----------------------------------------------------------------------------
LEMMA MsgFields ==
  ASSUME NEW m \in Msg
  PROVE  /\ m.phase \in {"none", "open", "told", "done", "failed"} /\ m.blocks \in Seq(Block)
         /\ m.stop \in StopReasons \cup {"none"}
         /\ Len(m.blocks) \in Nat /\ \A i \in 1..Len(m.blocks) : m.blocks[i] \in Block
BY DEF Msg

LEMMA ExtendedIs ==
  ASSUME NEW m \in Msg, Opened(m), NEW text \in Texts
  PROVE  /\ Extended(m, text) \in Msg
         /\ Extended(m, text).phase = m.phase /\ Extended(m, text).stop = m.stop
         /\ Extended(m, text).blocks = [m.blocks EXCEPT ![Len(m.blocks)].text = @ \o text]
         /\ Len(Extended(m, text).blocks) = Len(m.blocks)
         /\ LastBlock(Extended(m, text)).text = LastBlock(m).text \o text
         /\ LastBlock(Extended(m, text)).kind = LastBlock(m).kind
         /\ LastBlock(Extended(m, text)).open
         /\ \A i \in 1..(Len(m.blocks) - 1) : Extended(m, text).blocks[i] = m.blocks[i]
<1> DEFINE k == Len(m.blocks)
           b == [m.blocks[k] EXCEPT !.text = @ \o text]
           c == [m.blocks EXCEPT ![k] = b]
<1>1. k \in 1..Len(m.blocks) /\ m.blocks[k] \in Block /\ m.blocks \in Seq(Block)
      BY MsgFields DEF Opened
<1>2. m.blocks[k].text \o text \in Texts BY <1>1 DEF Block, Texts
<1>3. b \in Block /\ b.text = m.blocks[k].text \o text /\ b.kind = m.blocks[k].kind
      /\ b.open = m.blocks[k].open
      BY <1>1, <1>2 DEF Block
<1>4. Extended(m, text) = [m EXCEPT !.blocks = c] BY DEF Extended
<1> HIDE DEF b
<1>5. /\ c \in Seq(Block) /\ Len(c) = k /\ c[k] = b
      /\ \A i \in 1..(k - 1) : c[i] = m.blocks[i]
      BY <1>1, <1>3
<1>6. c = [m.blocks EXCEPT ![Len(m.blocks)].text = @ \o text] BY DEF b
<1> HIDE DEF c
<1>7. Extended(m, text) \in Msg /\ Extended(m, text).blocks = c
      /\ Extended(m, text).phase = m.phase /\ Extended(m, text).stop = m.stop
      BY <1>4, <1>5 DEF Msg
<1> QED BY <1>3, <1>5, <1>6, <1>7 DEF LastBlock, Opened

LEMMA ShutIs ==
  ASSUME NEW m \in Msg, Opened(m)
  PROVE  /\ Shut(m) \in Msg /\ Shut(m).phase = m.phase /\ Shut(m).stop = m.stop
         /\ Shut(m).blocks = [m.blocks EXCEPT ![Len(m.blocks)].open = FALSE]
         /\ Len(Shut(m).blocks) = Len(m.blocks)
         /\ LastBlock(Shut(m)).text = LastBlock(m).text /\ LastBlock(Shut(m)).kind = LastBlock(m).kind
         /\ ~LastBlock(Shut(m)).open
         /\ \A i \in 1..(Len(m.blocks) - 1) : Shut(m).blocks[i] = m.blocks[i]
<1> DEFINE k == Len(m.blocks)
           b == [m.blocks[k] EXCEPT !.open = FALSE]
           c == [m.blocks EXCEPT ![k] = b]
<1>1. k \in 1..Len(m.blocks) /\ m.blocks[k] \in Block /\ m.blocks \in Seq(Block)
      BY MsgFields DEF Opened
<1>3. b \in Block /\ b.text = m.blocks[k].text /\ b.kind = m.blocks[k].kind /\ ~b.open
      BY <1>1 DEF Block
<1>4. Shut(m) = [m EXCEPT !.blocks = c] BY DEF Shut
<1> HIDE DEF b
<1>5. /\ c \in Seq(Block) /\ Len(c) = k /\ c[k] = b
      /\ \A i \in 1..(k - 1) : c[i] = m.blocks[i]
      BY <1>1, <1>3
<1>6. c = [m.blocks EXCEPT ![Len(m.blocks)].open = FALSE] BY DEF b
<1> HIDE DEF c
<1>7. Shut(m) \in Msg /\ Shut(m).blocks = c /\ Shut(m).phase = m.phase /\ Shut(m).stop = m.stop
      BY <1>4, <1>5 DEF Msg
<1> QED BY <1>3, <1>5, <1>6, <1>7 DEF LastBlock, Opened

\* What each kind of event does to the message.
LEMMA GoodTyped ==
  ASSUME NEW m \in Msg, NEW e, NEW z, Good(m, e, z)
  PROVE  z \in Msg /\ e \in Events
<1>1. CASE Starts(m, e, z)
      BY <1>1 DEF Starts, Msg, Events
<1>2. CASE Opens(m, e, z)
  <2>1. PICK kind \in Kinds : /\ e = BlockStart(Len(m.blocks) + 1, kind)
                              /\ z = [m EXCEPT !.blocks = Append(@, NewBlock(kind))]
        BY <1>2 DEF Opens
  <2>2. NewBlock(kind) \in Block BY DEF NewBlock, Block, Texts
  <2>3. Append(m.blocks, NewBlock(kind)) \in Seq(Block) /\ Len(m.blocks) + 1 \in Nat
        BY <2>2, MsgFields
  <2>4. z \in Msg BY <2>1, <2>3 DEF Msg
  <2> QED BY <2>1, <2>3, <2>4 DEF Events
<1>3. CASE Extends(m, e, z)
  <2>1. PICK text \in Texts : e = BlockDelta(Len(m.blocks), text) /\ z = Extended(m, text)
        BY <1>3 DEF Extends
  <2>2. Len(m.blocks) \in Nat BY MsgFields
  <2>3. e \in Events BY <2>1, <2>2 DEF Events
  <2> QED BY <1>3, <2>1, <2>3, ExtendedIs DEF Extends
<1>4. CASE Shuts(m, e, z)
  <2>1. Len(m.blocks) \in Nat BY MsgFields
  <2>2. e \in Events BY <1>4, <2>1 DEF Shuts, Events
  <2> QED BY <1>4, <2>2, ShutIs DEF Shuts
<1>5. CASE Tells(m, e, z)
  <2>1. PICK s \in StopReasons : e = MessageDelta(s) /\ z = [m EXCEPT !.phase = "told", !.stop = s]
        BY <1>5 DEF Tells
  <2>2. e \in Events BY <2>1 DEF Events
  <2> QED BY <2>1, <2>2 DEF Msg
<1>6. CASE Stops(m, e, z) \/ Fails(m, e, z)
      BY <1>6 DEF Stops, Fails, Msg, Events
<1> QED BY <1>1, <1>2, <1>3, <1>4, <1>5, <1>6 DEF Good

\* The client that takes the event makes that message of it.
LEMMA GoodFolds ==
  ASSUME NEW m \in Msg, NEW e, NEW z, Good(m, e, z)
  PROVE  z = Fold(m, e)
<1>1. CASE Starts(m, e, z)
      BY <1>1 DEF Starts, Fold, MessageStart
<1>2. CASE Opens(m, e, z)
  <2>1. PICK kind \in Kinds : /\ e = BlockStart(Len(m.blocks) + 1, kind)
                              /\ z = [m EXCEPT !.blocks = Append(@, NewBlock(kind))]
        BY <1>2 DEF Opens
  <2>2. e.type = "content_block_start" /\ e.index = Len(m.blocks) + 1 /\ e.kind = kind
        BY <2>1 DEF BlockStart
  <2> QED BY <2>1, <2>2 DEF Fold
<1>3. CASE Extends(m, e, z)
  <2>1. PICK text \in Texts : e = BlockDelta(Len(m.blocks), text) /\ z = Extended(m, text)
        BY <1>3 DEF Extends
  <2>2. e.type = "content_block_delta" /\ e.index = Len(m.blocks) /\ e.text = text
        BY <2>1 DEF BlockDelta
  <2>3. e.index \in DOMAIN m.blocks BY <1>3, <2>2, MsgFields DEF Extends, Opened
  <2> QED BY <2>1, <2>2, <2>3 DEF Fold, Extended
<1>4. CASE Shuts(m, e, z)
  <2>1. e.type = "content_block_stop" /\ e.index = Len(m.blocks) /\ z = Shut(m)
        BY <1>4 DEF Shuts, BlockStop
  <2>2. e.index \in DOMAIN m.blocks BY <1>4, <2>1, MsgFields DEF Shuts, Opened
  <2> QED BY <2>1, <2>2 DEF Fold, Shut
<1>5. CASE Tells(m, e, z)
      BY <1>5 DEF Tells, Fold, MessageDelta
<1>6. CASE Stops(m, e, z) \/ Fails(m, e, z)
      BY <1>6 DEF Stops, Fails, Fold, MessageStop, ErrorEvent
<1> QED BY <1>1, <1>2, <1>3, <1>4, <1>5, <1>6 DEF Good

\* And takes a step of MessageStream.
LEMMA GoodPromised ==
  ASSUME message \in Msg, NEW e, Good(message, e, message')
  PROVE  Promise!MSNext
<1>1. CASE Starts(message, e, message')
      BY <1>1 DEF Starts, Msg, Promise!MSNext, Promise!Begin
<1>2. CASE Opens(message, e, message')
  <2>1. PICK kind \in Kinds : message' = [message EXCEPT !.blocks = Append(@, NewBlock(kind))]
        BY <1>2 DEF Opens
  <2>2. /\ message'.blocks = Append(message.blocks, NewBlock(kind))
        /\ message'.phase = message.phase /\ message'.stop = message.stop
        BY <2>1 DEF Msg
  <2>3. Promise!AllClosed BY <1>2 DEF Opens, Closed, Promise!AllClosed
  <2>4. Promise!OpenBlock BY <1>2, <2>2, <2>3 DEF Opens, Promise!OpenBlock, NewBlock, Kinds
  <2> QED BY <2>4 DEF Promise!MSNext
<1>3. CASE Extends(message, e, message')
  <2>1. PICK text \in Texts : /\ text # <<>> /\ message' = Extended(message, text)
                              /\ Promise!WellFormed(LastBlock(message'))
        BY <1>3 DEF Extends
  <2> DEFINE k == Len(message.blocks)
             old == message.blocks[k].text
             new == message'.blocks[k].text
  <2>2. /\ Len(message'.blocks) = k
        /\ message'.phase = message.phase /\ message'.stop = message.stop
        /\ message'.blocks = [message.blocks EXCEPT ![k].text = @ \o text]
        /\ new = old \o text
    <3>1. Opened(message) BY <1>3 DEF Extends
    <3> DEFINE x == Extended(message, text)
    <3>2. /\ Len(x.blocks) = k /\ x.phase = message.phase /\ x.stop = message.stop
          /\ x.blocks = [message.blocks EXCEPT ![k].text = @ \o text]
          /\ LastBlock(x).text = LastBlock(message).text \o text
          BY <3>1, ExtendedIs
    <3>3. message' = x BY <2>1
    <3> HIDE DEF x
    <3> QED BY <3>2, <3>3 DEF LastBlock
  <2>3. k \in 1..Len(message.blocks) BY <1>3, MsgFields DEF Extends, Opened
  <2>4. old \in Texts BY <2>3, MsgFields DEF Block
  <2>5. Promise!IsStrictPrefix(old, new)
    <3> HIDE DEF old, new
    <3>1. /\ new \in Texts /\ Len(new) = Len(old) + Len(text) /\ Len(text) \in Nat \ {0}
          /\ \A i \in 1..Len(old) : new[i] = old[i]
          BY <2>1, <2>2, <2>4, ConcatProperties, EmptySeq DEF Texts
    <3>2. Len(old) \in Nat BY <2>4 DEF Texts
    <3>3. SubSeq(new, 1, Len(old)) = old BY <3>1, <3>2, <2>4 DEF Texts
    <3> QED BY <3>1, <3>2, <3>3 DEF Promise!IsStrictPrefix, Promise!IsPrefix
  <2>6. message'.blocks = [message.blocks EXCEPT ![k].text = new] BY <2>2
  <2>7. Promise!LastOpen BY <1>3 DEF Extends, Opened, LastBlock, Promise!LastOpen
  <2>8. Promise!WellFormed(message'.blocks[k]) BY <2>1, <2>2 DEF LastBlock
  <2>9. Promise!Extend
    <3> HIDE DEF old, new
    <3>1. Promise!IsStrictPrefix(message.blocks[k].text, message'.blocks[k].text)
          BY <2>5 DEF old, new
    <3>2. message'.blocks = [message.blocks EXCEPT ![k].text = message'.blocks[k].text]
          BY <2>6 DEF new
    <3> QED BY <1>3, <2>2, <2>7, <2>8, <3>1, <3>2 DEF Extends, Promise!Extend
  <2> QED BY <2>9 DEF Promise!MSNext
<1>4. CASE Shuts(message, e, message')
  <2>1. /\ message'.phase = message.phase /\ message'.stop = message.stop
        /\ message'.blocks = [message.blocks EXCEPT ![Len(message.blocks)].open = FALSE]
        BY <1>4, ShutIs DEF Shuts
  <2> QED BY <1>4, <2>1
          DEF Shuts, Opened, LastBlock, Promise!MSNext, Promise!CloseBlock, Promise!LastOpen
<1>5. CASE Tells(message, e, message')
  <2>1. PICK s \in StopReasons : /\ s = "tool_use" => ToolShown(message)
                                 /\ message' = [message EXCEPT !.phase = "told", !.stop = s]
        BY <1>5 DEF Tells
  <2>2. /\ message'.phase = "told" /\ message'.stop = s /\ message'.blocks = message.blocks
        BY <2>1 DEF Msg
  <2> QED BY <1>5, <2>1, <2>2
          DEF Tells, Closed, ToolShown, StopReasons, Promise!MSNext, Promise!Finish, Promise!AllClosed
<1>6. CASE Stops(message, e, message')
      BY <1>6 DEF Stops, Msg, Promise!MSNext, Promise!End
<1>7. CASE Fails(message, e, message')
      BY <1>7 DEF Fails, Msg, Promise!MSNext, Promise!Fail
<1> QED BY <1>1, <1>2, <1>3, <1>4, <1>5, <1>6, <1>7 DEF Good

-----------------------------------------------------------------------------
LEMMA DeliversNothing ==
  ASSUME NEW m \in Msg PROVE Delivers(<<>>, m, m)
<1> DEFINE t == [n \in 0..0 |-> m]
<1>1. t \in [0..Len(<<>>) -> Msg] /\ t[0] = m BY DEF t
<1> HIDE DEF t
<1> QED BY <1>1 DEF Delivers

LEMMA DeliversMore ==
  ASSUME NEW w, NEW m, NEW z, Delivers(w, m, z), NEW e, NEW y, Good(z, e, y)
  PROVE  Delivers(Append(w, e), m, y) /\ z \in Msg /\ y \in Msg
<1>1. w \in Seq(Events) /\ Len(w) \in Nat BY DEF Delivers
<1>2. PICK t \in [0..Len(w) -> Msg] :
         /\ t[0] = m /\ t[Len(w)] = z
         /\ \A n \in 1..Len(w) : Good(t[n - 1], w[n], t[n])
      BY DEF Delivers
<1>3. z \in Msg BY <1>1, <1>2
<1>4. y \in Msg /\ e \in Events BY <1>3, GoodTyped
<1> DEFINE v == Append(w, e)
           u == [n \in 0..(Len(w) + 1) |-> IF n = Len(w) + 1 THEN y ELSE t[n]]
<1>5. /\ v \in Seq(Events) /\ Len(v) = Len(w) + 1 /\ v[Len(w) + 1] = e
      /\ \A n \in 1..Len(w) : v[n] = w[n]
      BY <1>1, <1>4
<1>6. /\ u \in [0..Len(v) -> Msg] /\ u[0] = m /\ u[Len(v)] = y
      /\ \A n \in 0..Len(w) : u[n] = t[n]
      BY <1>1, <1>2, <1>4, <1>5
<1> HIDE DEF v, u
<1>7. ASSUME NEW n \in 1..Len(v) PROVE Good(u[n - 1], v[n], u[n])
  <2>1. CASE n = Len(w) + 1 BY <1>1, <1>2, <1>5, <1>6, <2>1
  <2>2. CASE n # Len(w) + 1
    <3>1. n \in 1..Len(w) /\ n - 1 \in 0..Len(w) /\ n \in 0..Len(w) BY <1>1, <1>5, <2>2
    <3> QED BY <1>2, <1>5, <1>6, <3>1
  <2> QED BY <2>1, <2>2
<1>8. Delivers(v, m, y) BY <1>5, <1>6, <1>7 DEF Delivers
<1> QED BY <1>3, <1>4, <1>8 DEF v

LEMMA DeliversLess ==
  ASSUME NEW w, NEW m, NEW z, Delivers(w, m, z), w # <<>>
  PROVE  \E y \in Msg : Good(m, Head(w), y) /\ Delivers(Tail(w), y, z)
<1>1. w \in Seq(Events) /\ Len(w) \in Nat \ {0} BY EmptySeq DEF Delivers
<1>2. PICK t \in [0..Len(w) -> Msg] :
         /\ t[0] = m /\ t[Len(w)] = z
         /\ \A n \in 1..Len(w) : Good(t[n - 1], w[n], t[n])
      BY DEF Delivers
<1>3. t[1] \in Msg /\ Good(m, Head(w), t[1]) BY <1>1, <1>2
<1> DEFINE v == Tail(w)
           u == [n \in 0..(Len(w) - 1) |-> t[n + 1]]
<1>4. /\ v \in Seq(Events) /\ Len(v) = Len(w) - 1
      /\ \A n \in 1..Len(v) : v[n] = w[n + 1]
      BY <1>1, HeadTailProperties
<1>5. /\ u \in [0..Len(v) -> Msg] /\ u[0] = t[1] /\ u[Len(v)] = z
      /\ \A n \in 0..Len(v) : u[n] = t[n + 1]
      BY <1>1, <1>2, <1>4
<1> HIDE DEF v, u
<1>6. ASSUME NEW n \in 1..Len(v) PROVE Good(u[n - 1], v[n], u[n])
  <2>1. n + 1 \in 1..Len(w) /\ n - 1 \in 0..Len(v) /\ n \in 0..Len(v) /\ (n - 1) + 1 = n
        /\ (n + 1) - 1 = n
        BY <1>1, <1>4
  <2>2. Good(t[n], w[n + 1], t[n + 1]) BY <1>2, <2>1
  <2> QED BY <1>4, <1>5, <2>1, <2>2
<1>7. Delivers(v, t[1], z) BY <1>4, <1>5, <1>6 DEF Delivers
<1> QED BY <1>3, <1>7 DEF v

\* The client's step.
LEMMA TakePromised ==
  ASSUME message \in Msg, NEW z, Delivers(wire, message, z), Take
  PROVE  Promise!MSNext /\ message' \in Msg /\ Delivers(wire', message', z)
<1>1. PICK y \in Msg : Good(message, Head(wire), y) /\ Delivers(Tail(wire), y, z)
      BY DeliversLess DEF Take
<1>2. message' = y BY <1>1, GoodFolds DEF Take
<1> QED BY <1>1, <1>2, GoodPromised DEF Take

-----------------------------------------------------------------------------
(* The block emitter *)

LEMMA Associates ==
  ASSUME NEW S, NEW u \in Seq(S), NEW v \in Seq(S), NEW w \in Seq(S)
  PROVE  w \o (u \o v) = (w \o u) \o v
OBVIOUS

EmitterFields == {"started", "failed", "current", "kind", "next", "stop", "out"}

\* A record that has the emitter's fields, and what it has said makes z of m.
At(s, m, z) ==
  /\ s = [x \in DOMAIN s |-> s[x]] /\ EmitterFields \subseteq DOMAIN s
  /\ Delivers(s.out, m, z)
  /\ z \in Msg /\ z.stop = "none"
  /\ s.started \in BOOLEAN /\ z.phase = IF s.started THEN "open" ELSE "none"
  /\ s.next = Len(z.blocks) + 1
  /\ s.current \in {0, Len(z.blocks)}
  /\ s.current # 0 => s.started
  /\ \A i \in 1..Len(z.blocks) : z.blocks[i].open <=> i = s.current
  /\ s.kind = IF s.current = 0 THEN "none" ELSE z.blocks[s.current].kind

\* r differs from s in the fields named at most.
Keeps(r, s, fields) == DOMAIN r = DOMAIN s /\ \A x \in DOMAIN s \ fields : r[x] = s[x]

Filled(z) ==
  \A i \in 1..Len(z.blocks) : z.blocks[i].kind \in {"text", "thinking"} => z.blocks[i].text # <<>>

\* Block i shows the same in both messages.
SameBlock(y, z, i) == y.blocks[i].kind = z.blocks[i].kind /\ y.blocks[i].text = z.blocks[i].text

LEMMA EmitIs ==
  ASSUME NEW s, s = [x \in DOMAIN s |-> s[x]], EmitterFields \subseteq DOMAIN s, NEW e
  PROVE  /\ Emit(s, e) = [x \in DOMAIN Emit(s, e) |-> Emit(s, e)[x]]
         /\ Keeps(Emit(s, e), s, {"out"}) /\ Emit(s, e).out = Append(s.out, e)
BY DEF Emit, Keeps, EmitterFields

LEMMA StartOK ==
  ASSUME NEW s, NEW m, NEW z, At(s, m, z)
  PROVE  /\ Keeps(StartMessage(s), s, {"started", "out"}) /\ StartMessage(s).started
         /\ \E y : At(StartMessage(s), m, y) /\ y.blocks = z.blocks
<1>1. CASE s.started
  <2>1. StartMessage(s) = s BY <1>1 DEF StartMessage
  <2> QED BY <1>1, <2>1 DEF Keeps
<1>2. CASE ~s.started
  <2> DEFINE y == [z EXCEPT !.phase = "open"]
             r == StartMessage(s)
  <2>1. Starts(z, MessageStart, y) BY <1>2 DEF Starts, At
  <2>2. Delivers(Append(s.out, MessageStart), m, y)
        BY <2>1, DeliversMore DEF At, Good
  <2>3. y \in Msg /\ y.phase = "open" /\ y.blocks = z.blocks /\ y.stop = z.stop
        BY DEF At, Msg
  <2>4. /\ r = [x \in DOMAIN r |-> r[x]] /\ Keeps(r, s, {"started", "out"})
        /\ r.started = TRUE /\ r.out = Append(s.out, MessageStart)
        BY <1>2 DEF StartMessage, Emit, Keeps, At, EmitterFields
  <2>5. r.next = s.next /\ r.current = s.current /\ r.kind = s.kind /\ DOMAIN r = DOMAIN s
        BY <2>4 DEF Keeps, At, EmitterFields
  <2> HIDE DEF y, r
  <2>6. At(r, m, y) BY <2>2, <2>3, <2>4, <2>5 DEF At
  <2> QED BY <2>3, <2>4, <2>6 DEF r
<1> QED BY <1>1, <1>2 DEF At

LEMMA CloseOK ==
  ASSUME NEW s, NEW m, NEW z, At(s, m, z), Filled(z)
  PROVE  /\ Keeps(CloseCurrent(s), s, {"current", "kind", "out"}) /\ CloseCurrent(s).current = 0
         /\ \E y : /\ At(CloseCurrent(s), m, y) /\ Len(y.blocks) = Len(z.blocks)
                   /\ \A i \in 1..Len(z.blocks) : SameBlock(y, z, i)
<1>1. CASE s.current = 0
  <2>1. CloseCurrent(s) = s BY <1>1 DEF CloseCurrent
  <2> QED BY <1>1, <2>1 DEF Keeps, SameBlock
<1>2. CASE s.current # 0
  <2> DEFINE y == Shut(z)
             r == CloseCurrent(s)
             k == Len(z.blocks)
  <2>1. k \in 1..Len(z.blocks) /\ s.current = k /\ z \in Msg /\ z.blocks[k].open /\ s.started
        BY <1>2, MsgFields DEF At
  <2>2. Opened(z) BY <2>1 DEF Opened, LastBlock
  <2>3. Shuts(z, BlockStop(k), y) BY <2>1, <2>2 DEF Shuts, At, Filled, LastBlock
  <2>4. Delivers(Append(s.out, BlockStop(k)), m, y) BY <2>3, DeliversMore DEF At, Good
  <2>5. /\ y \in Msg /\ y.phase = z.phase /\ y.stop = z.stop /\ Len(y.blocks) = k
        /\ y.blocks[k].text = z.blocks[k].text /\ y.blocks[k].kind = z.blocks[k].kind
        /\ ~y.blocks[k].open
        /\ \A i \in 1..(k - 1) : y.blocks[i] = z.blocks[i]
    <3> HIDE DEF y, r
    <3>1. /\ y \in Msg /\ y.phase = z.phase /\ y.stop = z.stop /\ Len(y.blocks) = Len(z.blocks)
          /\ LastBlock(y).text = LastBlock(z).text /\ LastBlock(y).kind = LastBlock(z).kind
          /\ ~LastBlock(y).open
          /\ \A i \in 1..(Len(z.blocks) - 1) : y.blocks[i] = z.blocks[i]
          BY <2>1, <2>2, ShutIs DEF y
    <3> QED BY <3>1 DEF LastBlock
  <2>6. /\ r = [x \in DOMAIN r |-> r[x]] /\ Keeps(r, s, {"current", "kind", "out"})
        /\ r.current = 0 /\ r.kind = "none" /\ r.out = Append(s.out, BlockStop(k))
        BY <2>1, <1>2 DEF CloseCurrent, Emit, Keeps, At, EmitterFields
  <2>7. r.next = s.next /\ r.started = s.started /\ DOMAIN r = DOMAIN s
        BY <2>6 DEF Keeps, At, EmitterFields
  <2> HIDE DEF y, r
  <2>8. \A i \in 1..k : SameBlock(y, z, i) /\ ~y.blocks[i].open
        BY <2>1, <2>5 DEF SameBlock, At
  <2>9. At(r, m, y) BY <2>1, <2>4, <2>5, <2>6, <2>7, <2>8 DEF At
  <2> QED BY <2>1, <2>5, <2>6, <2>8, <2>9 DEF r
<1> QED BY <1>1, <1>2

LEMMA OpenOK ==
  ASSUME NEW s, NEW m, NEW z, At(s, m, z), Filled(z), s.started, NEW kind \in Kinds
  PROVE  LET r == OpenNext(s, kind)
             k == Len(z.blocks)
         IN /\ Keeps(r, s, {"current", "kind", "next", "out"})
            /\ r.current = k + 1 /\ r.kind = kind /\ r.next = k + 2 /\ s.next = k + 1
            /\ \E y : /\ At(r, m, y) /\ Len(y.blocks) = k + 1
                      /\ y.blocks[k + 1] = NewBlock(kind)
                      /\ \A i \in 1..k : SameBlock(y, z, i)
<1> DEFINE c == CloseCurrent(s)
           r == OpenNext(s, kind)
           k == Len(z.blocks)
<1>1. PICK x : /\ At(c, m, x) /\ Len(x.blocks) = k
               /\ \A i \in 1..k : SameBlock(x, z, i)
      BY CloseOK
<1>2. Keeps(c, s, {"current", "kind", "out"}) /\ c.current = 0 BY CloseOK
<1>3. c.started = s.started /\ c.next = s.next /\ DOMAIN c = DOMAIN s
      BY <1>2 DEF Keeps, At, EmitterFields
<1> DEFINE y == [x EXCEPT !.blocks = Append(@, NewBlock(kind))]
<1>4. Closed(x) /\ x.phase = "open" /\ x \in Msg /\ k \in Nat /\ s.next = k + 1 /\ x.blocks \in Seq(Block)
  <2>1. x.phase = "open" /\ x \in Msg /\ z \in Msg /\ s.next = k + 1 BY <1>1, <1>3 DEF At
  <2>2. x.blocks \in Seq(Block) /\ k \in Nat BY <2>1, MsgFields
  <2>3. \A i \in 1..Len(x.blocks) : ~x.blocks[i].open
    <3> HIDE DEF c, k
    <3> QED BY <1>1, <1>2, <2>2 DEF At
  <2>4. Closed(x) BY <2>2, <2>3 DEF Closed
  <2> QED BY <2>1, <2>2, <2>4
<1>5. Opens(x, BlockStart(k + 1, kind), y) BY <1>1, <1>4 DEF Opens
<1>6. Delivers(Append(c.out, BlockStart(k + 1, kind)), m, y) /\ y \in Msg
      BY <1>1, <1>5, DeliversMore DEF At, Good
<1>7. NewBlock(kind) \in Block /\ NewBlock(kind).open = TRUE /\ NewBlock(kind).kind = kind
      BY DEF NewBlock, Block, Texts
<1>8. y.blocks = Append(x.blocks, NewBlock(kind)) /\ y.phase = x.phase /\ y.stop = x.stop
      BY <1>4 DEF Msg
<1>9. /\ r = [f \in DOMAIN r |-> r[f]] /\ Keeps(r, c, {"current", "kind", "next", "out"})
      /\ r.current = k + 1 /\ r.kind = kind /\ r.next = s.next + 1
      /\ r.out = Append(c.out, BlockStart(k + 1, kind))
  <2>1. c = [f \in DOMAIN c |-> c[f]] /\ EmitterFields \subseteq DOMAIN c BY <1>1 DEF At
  <2>2. r = [Emit(c, BlockStart(k + 1, kind)) EXCEPT !.current = k + 1, !.kind = kind, !.next = @ + 1]
        BY <1>4 DEF OpenNext
  <2> HIDE DEF c, r, y
  <2> QED BY <1>3, <2>1, <2>2 DEF Emit, Keeps, EmitterFields
<1>10. r.started = s.started /\ DOMAIN r = DOMAIN s
       BY <1>3, <1>9 DEF Keeps, At, EmitterFields
<1> HIDE DEF c, y
<1>11. /\ Len(y.blocks) = k + 1 /\ y.blocks[k + 1] = NewBlock(kind)
       /\ \A i \in 1..k : y.blocks[i] = x.blocks[i]
       BY <1>1, <1>4, <1>7, <1>8
<1>12. \A i \in 1..k : SameBlock(y, z, i) BY <1>1, <1>11 DEF SameBlock
<1>13. Keeps(r, s, {"current", "kind", "next", "out"}) BY <1>2, <1>9 DEF Keeps
<1> HIDE DEF r
<1>14. \A i \in 1..Len(y.blocks) : y.blocks[i].open <=> i = r.current
  <2>1. \A i \in 1..k : ~x.blocks[i].open BY <1>1, <1>2, <1>4 DEF At
  <2>2. \A i \in 1..k : i # r.current BY <1>4, <1>9
  <2>3. y.blocks[k + 1].open /\ r.current = k + 1 BY <1>7, <1>9, <1>11
  <2>4. Len(y.blocks) = k + 1 /\ \A i \in 1..k : y.blocks[i] = x.blocks[i] BY <1>11
  <2> HIDE DEF k
  <2> TAKE i \in 1..Len(y.blocks)
  <2>5. i \in 1..k \/ i = k + 1 BY <1>4, <2>4
  <2> QED BY <2>1, <2>2, <2>3, <2>4, <2>5
<1>15. At(r, m, y)
  <2>1. /\ r = [f \in DOMAIN r |-> r[f]] /\ EmitterFields \subseteq DOMAIN r /\ r.started
        BY <1>1, <1>9, <1>10 DEF At
  <2>2. Delivers(r.out, m, y) /\ y \in Msg BY <1>6, <1>9
  <2>3. y.stop = "none" /\ y.phase = "open" BY <1>1, <1>4, <1>8 DEF At
  <2>4. r.next = Len(y.blocks) + 1 /\ r.current = Len(y.blocks) /\ r.current # 0
        BY <1>4, <1>9, <1>11
  <2>5. r.kind = y.blocks[r.current].kind BY <1>7, <1>9, <1>11
  <2> QED BY <1>14, <2>1, <2>2, <2>3, <2>4, <2>5 DEF At
<1> QED BY <1>4, <1>9, <1>11, <1>12, <1>13, <1>15 DEF r

LEMMA WriteOK ==
  ASSUME NEW s, NEW m, NEW z, At(s, m, z), s.current # 0, NEW text \in Texts, text # <<>>,
         \A b : /\ b.kind = z.blocks[s.current].kind
                /\ b.text = z.blocks[s.current].text \o text
                => Promise!WellFormed(b)
  PROVE  LET k == s.current
         IN /\ Keeps(Write(s, text), s, {"out"}) /\ k \in 1..Len(z.blocks)
            /\ \E y : /\ At(Write(s, text), m, y) /\ Len(y.blocks) = Len(z.blocks)
                      /\ y.blocks[k].kind = z.blocks[k].kind
                      /\ y.blocks[k].text = z.blocks[k].text \o text
                      /\ Promise!WellFormed(y.blocks[k])
                      /\ \A i \in 1..Len(z.blocks) : i # k => SameBlock(y, z, i)
<1> DEFINE k == s.current
           y == Extended(z, text)
           r == Write(s, text)
<1>1. k \in 1..Len(z.blocks) /\ k = Len(z.blocks) /\ z \in Msg /\ z.blocks[k].open /\ s.started
      BY MsgFields DEF At
<1>2. Opened(z) BY <1>1 DEF Opened, LastBlock
<1>3. /\ y \in Msg /\ y.phase = z.phase /\ y.stop = z.stop /\ Len(y.blocks) = k
      /\ y.blocks[k].text = z.blocks[k].text \o text /\ y.blocks[k].kind = z.blocks[k].kind
      /\ y.blocks[k].open
      /\ \A i \in 1..(k - 1) : y.blocks[i] = z.blocks[i]
  <2> HIDE DEF k, y
  <2>1. /\ y \in Msg /\ y.phase = z.phase /\ y.stop = z.stop /\ Len(y.blocks) = Len(z.blocks)
        /\ LastBlock(y).text = LastBlock(z).text \o text /\ LastBlock(y).kind = LastBlock(z).kind
        /\ LastBlock(y).open
        /\ \A i \in 1..(Len(z.blocks) - 1) : y.blocks[i] = z.blocks[i]
        BY <1>1, <1>2, ExtendedIs DEF y
  <2> QED BY <1>1, <2>1 DEF LastBlock
<1>4. Promise!WellFormed(y.blocks[k]) BY <1>3
<1>5. Extends(z, BlockDelta(k, text), y)
  <2>1. z.phase = "open" BY <1>1 DEF At
  <2>2. LastBlock(y) = y.blocks[k] BY <1>3 DEF LastBlock
  <2> HIDE DEF k
  <2> QED BY <1>1, <1>2, <1>4, <2>1, <2>2 DEF Extends
<1>6. Delivers(Append(s.out, BlockDelta(k, text)), m, y) BY <1>5, DeliversMore DEF At, Good
<1>7. /\ r = [x \in DOMAIN r |-> r[x]] /\ Keeps(r, s, {"out"})
      /\ r.out = Append(s.out, BlockDelta(k, text))
      BY EmitIs DEF Write, At
<1>8. /\ r.next = s.next /\ r.started = s.started /\ r.current = k /\ r.kind = s.kind
      /\ DOMAIN r = DOMAIN s
      BY <1>7 DEF Keeps, At, EmitterFields
<1> HIDE DEF y, r
<1>9. \A i \in 1..Len(z.blocks) : i # k => SameBlock(y, z, i) /\ ~y.blocks[i].open
  <2>1. \A i \in 1..Len(z.blocks) : z.blocks[i].open <=> i = k BY DEF At
  <2>2. ASSUME NEW i \in 1..Len(z.blocks), i # k PROVE SameBlock(y, z, i) /\ ~y.blocks[i].open
    <3>1. y.blocks[i] = z.blocks[i] BY <1>1, <1>3, <2>2
    <3> QED BY <2>1, <2>2, <3>1 DEF SameBlock
  <2> QED BY <2>2
<1>10. At(r, m, y)
  <2>1. /\ r = [x \in DOMAIN r |-> r[x]] /\ EmitterFields \subseteq DOMAIN r /\ r.started
        BY <1>1, <1>7, <1>8 DEF At
  <2>2. Delivers(r.out, m, y) /\ y \in Msg BY <1>3, <1>6, <1>7
  <2>3. y.stop = "none" /\ y.phase = "open" BY <1>1, <1>3 DEF At
  <2>4. r.next = Len(y.blocks) + 1 /\ r.current = Len(y.blocks) /\ r.current # 0
        BY <1>1, <1>3, <1>8 DEF At
  <2>5. r.kind = y.blocks[r.current].kind BY <1>3, <1>8 DEF At
  <2>6. \A i \in 1..Len(y.blocks) : y.blocks[i].open <=> i = r.current
        BY <1>1, <1>3, <1>8, <1>9
  <2> QED BY <2>1, <2>2, <2>3, <2>4, <2>5, <2>6 DEF At
<1> QED BY <1>1, <1>3, <1>4, <1>7, <1>9, <1>10 DEF r

\* An error ends the message wherever it is.
LEMMA ErrorOK ==
  ASSUME NEW s, NEW m, NEW z, At(s, m, z)
  PROVE  /\ Keeps(EmitError(s), s, {"failed", "out"})
         /\ \E y : /\ Delivers(EmitError(s).out, m, y) /\ y \in Msg
                   /\ y.phase = "failed" /\ y.stop = "none"
<1> DEFINE y == [z EXCEPT !.phase = "failed"]
           r == EmitError(s)
<1>1. Fails(z, ErrorEvent, y) BY DEF Fails, At
<1>2. Delivers(Append(s.out, ErrorEvent), m, y) /\ y \in Msg BY <1>1, DeliversMore DEF At, Good
<1>3. Keeps(r, s, {"failed", "out"}) /\ r.out = Append(s.out, ErrorEvent)
      BY DEF EmitError, Emit, Keeps, At, EmitterFields
<1>4. y.phase = "failed" /\ y.stop = "none" BY DEF At, Msg
<1> QED BY <1>2, <1>3, <1>4

\* The end of a message.
LEMMA ConcludeOK ==
  ASSUME NEW s, NEW m, NEW z, At(s, m, z), Filled(z), NEW stop \in StopReasons,
         stop = "tool_use" => ToolShown(z)
  PROVE  /\ Keeps(Conclude(s, stop), s, {"started", "current", "kind", "out"})
         /\ \E y : /\ Delivers(Conclude(s, stop).out, m, y) /\ y \in Msg
                   /\ y.phase = "done" /\ y.stop = stop /\ Len(y.blocks) = Len(z.blocks)
                   /\ \A i \in 1..Len(z.blocks) : SameBlock(y, z, i)
<1> DEFINE a == StartMessage(s)
           c == CloseCurrent(a)
<1>1. PICK x : At(a, m, x) /\ x.blocks = z.blocks BY StartOK
<1>2. a.started /\ Keeps(a, s, {"started", "out"}) BY StartOK
<1>3. Filled(x) BY <1>1 DEF Filled
<1>4. PICK v : /\ At(c, m, v) /\ Len(v.blocks) = Len(x.blocks)
               /\ \A i \in 1..Len(x.blocks) : SameBlock(v, x, i)
      BY <1>1, <1>3, CloseOK
<1>5. c.current = 0 /\ Keeps(c, a, {"current", "kind", "out"}) BY <1>1, <1>3, CloseOK
<1>6. c.started = a.started BY <1>1, <1>5 DEF Keeps, At, EmitterFields
<1> HIDE DEF a, c
<1>7. Closed(v) /\ v.phase = "open" /\ v \in Msg /\ Delivers(c.out, m, v)
  <2>1. v.phase = "open" /\ v \in Msg /\ Delivers(c.out, m, v) BY <1>2, <1>4, <1>6 DEF At
  <2>2. \A i \in 1..Len(v.blocks) : ~v.blocks[i].open
    <3>1. Len(v.blocks) \in Nat BY <2>1, MsgFields
    <3> QED BY <1>4, <1>5, <3>1 DEF At
  <2>3. v.blocks \in Seq(Block) BY <2>1, MsgFields
  <2> QED BY <2>1, <2>2, <2>3 DEF Closed
<1>8. stop = "tool_use" => ToolShown(v)
  <2> SUFFICES ASSUME stop = "tool_use" PROVE ToolShown(v) OBVIOUS
  <2>1. v.blocks \in Seq(Block) /\ z.blocks \in Seq(Block) /\ Len(v.blocks) = Len(z.blocks)
        BY <1>1, <1>4, <1>7, MsgFields DEF At
  <2>2. \A i \in 1..Len(z.blocks) : v.blocks[i].kind = z.blocks[i].kind
        BY <1>1, <1>4 DEF SameBlock
  <2> QED BY <2>1, <2>2 DEF ToolShown
<1> DEFINE t == [v EXCEPT !.phase = "told", !.stop = stop]
           y == [t EXCEPT !.phase = "done"]
<1>9. Tells(v, MessageDelta(stop), t) BY <1>7, <1>8 DEF Tells
<1>10. t.phase = "told" /\ t.stop = stop /\ t.blocks = v.blocks /\ t \in Msg BY <1>7 DEF Msg
<1>11. Delivers(Append(c.out, MessageDelta(stop)), m, t) BY <1>7, <1>9, DeliversMore DEF Good
<1> HIDE DEF t
<1>12. Stops(t, MessageStop, y) BY <1>10 DEF Stops
<1>13. Delivers(Append(Append(c.out, MessageDelta(stop)), MessageStop), m, y)
       BY <1>11, <1>12, DeliversMore DEF Good
<1>14. y.phase = "done" /\ y.stop = stop /\ y.blocks = v.blocks /\ y \in Msg BY <1>10 DEF Msg
<1> HIDE DEF y
<1>15. /\ Conclude(s, stop).out = Append(Append(c.out, MessageDelta(stop)), MessageStop)
       /\ Keeps(Conclude(s, stop), c, {"out"})
  <2> DEFINE d == Emit(c, MessageDelta(stop))
  <2>1. c = [x_1 \in DOMAIN c |-> c[x_1]] /\ EmitterFields \subseteq DOMAIN c BY <1>4 DEF At
  <2>2. /\ d = [x_1 \in DOMAIN d |-> d[x_1]] /\ Keeps(d, c, {"out"})
        /\ d.out = Append(c.out, MessageDelta(stop))
        BY <2>1, EmitIs
  <2>3. DOMAIN d = DOMAIN c BY <2>2 DEF Keeps
  <2>4. Conclude(s, stop) = Emit(d, MessageStop) BY DEF Conclude, a, c
  <2> HIDE DEF d
  <2>5. Keeps(Emit(d, MessageStop), d, {"out"}) /\ Emit(d, MessageStop).out = Append(d.out, MessageStop)
        BY <2>1, <2>2, <2>3, EmitIs
  <2> QED BY <2>2, <2>4, <2>5 DEF Keeps
<1>16. Keeps(Conclude(s, stop), s, {"started", "current", "kind", "out"})
       BY <1>2, <1>5, <1>15 DEF Keeps
<1>17. Len(y.blocks) = Len(z.blocks) /\ \A i \in 1..Len(z.blocks) : SameBlock(y, z, i)
       BY <1>1, <1>4, <1>14 DEF SameBlock
<1> QED BY <1>13, <1>14, <1>15, <1>16, <1>17

\* A block stays well formed when text of its kind follows it.
LEMMA GrowsWell ==
  ASSUME NEW b, b.text \in Texts, Promise!WellFormed(b),
         \A n \in 1..Len(b.text) : b.text[n].part # "signature",
         NEW text \in Texts,
         \A n \in 1..Len(text) : Promise!Fits(text[n], b.kind),
         \A n \in 1..Len(text) : text[n].part = "signature" => n = Len(text),
         b.kind = "tool" => \E i : /\ \A n \in 1..Len(b.text) : b.text[n].item = i
                                   /\ \A n \in 1..Len(text) : text[n].item = i,
         NEW c, c.kind = b.kind, c.text = b.text \o text
  PROVE  Promise!WellFormed(c)
<1>1. /\ Len(b.text) \in Nat /\ Len(text) \in Nat /\ c.text \in Texts
      /\ Len(c.text) = Len(b.text) + Len(text)
      /\ \A n \in 1..Len(b.text) : c.text[n] = b.text[n]
      /\ \A n \in 1..Len(c.text) : n > Len(b.text) =>
           n - Len(b.text) \in 1..Len(text) /\ c.text[n] = text[n - Len(b.text)]
      BY ConcatProperties DEF Texts
<1>2. /\ DOMAIN c.text = 1..Len(c.text) /\ DOMAIN b.text = 1..Len(b.text) BY <1>1 DEF Texts
<1>3. ASSUME NEW n \in 1..Len(c.text)
      PROVE  Promise!Fits(c.text[n], c.kind)
  <2>1. CASE n \in 1..Len(b.text) BY <1>1, <1>2, <2>1 DEF Promise!WellFormed
  <2>2. CASE n \notin 1..Len(b.text)
    <3>1. n > Len(b.text) BY <1>1, <2>2
    <3> DEFINE k == n - Len(b.text)
    <3>2. k \in 1..Len(text) /\ c.text[n] = text[k] BY <1>1, <3>1
    <3> HIDE DEF k
    <3> QED BY <3>2
  <2> QED BY <2>1, <2>2
<1>4. ASSUME NEW n \in 1..Len(c.text), c.text[n].part = "signature" PROVE n = Len(c.text)
  <2>1. n > Len(b.text) BY <1>1, <1>4
  <2> DEFINE k == n - Len(b.text)
  <2>2. k \in 1..Len(text) /\ c.text[n] = text[k] /\ k \in Nat BY <1>1, <2>1
  <2>3. n = Len(b.text) + k BY <1>1
  <2> HIDE DEF k
  <2>4. k = Len(text) BY <1>4, <2>2
  <2> QED BY <1>1, <2>3, <2>4
<1>5. ASSUME c.kind = "tool", NEW n \in 1..Len(c.text), NEW k \in 1..Len(c.text)
      PROVE  c.text[n].item = c.text[k].item
  <2>1. PICK i : /\ \A j \in 1..Len(b.text) : b.text[j].item = i
                 /\ \A j \in 1..Len(text) : text[j].item = i
        BY <1>5
  <2>2. ASSUME NEW j \in 1..Len(c.text) PROVE c.text[j].item = i
    <3>1. CASE j \in 1..Len(b.text) BY <1>1, <2>1, <3>1
    <3>2. CASE j \notin 1..Len(b.text) BY <1>1, <2>1, <3>2
    <3> QED BY <3>1, <3>2
  <2> QED BY <2>2
<1> QED BY <1>2, <1>3, <1>4, <1>5 DEF Promise!WellFormed

-----------------------------------------------------------------------------
(* Folds over a sequence *)

LEMMA LeastNat ==
  ASSUME NEW T, T \subseteq Nat, T # {}
  PROVE  \E m \in T : \A n \in T : m <= n
<1>1. PICK m \in T : \A n \in T : ~(<<n, m>> \in OpToRel(<, Nat))
      BY WFMin, NatLessThanWellFounded
<1>2. \A n \in T : ~(n < m) BY <1>1 DEF OpToRel
<1> QED BY <1>2

LEMMA MaxIs ==
  ASSUME NEW k \in Nat, NEW s \in SUBSET (1..k), s # {}
  PROVE  Max(s) \in s /\ \A n \in s : n <= Max(s)
<1> DEFINE T == {k - n : n \in s}
<1>1. T \subseteq Nat /\ T # {}
  <2>1. ASSUME NEW n \in s PROVE k - n \in Nat
    <3>1. n \in 1..k OBVIOUS
    <3> QED BY <3>1
  <2>2. PICK n \in s : TRUE OBVIOUS
  <2>3. k - n \in T BY <2>2
  <2> QED BY <2>1, <2>3
<1>2. PICK d \in T : \A e \in T : d <= e BY <1>1, LeastNat
<1>3. PICK x \in s : d = k - x BY <1>2
<1>4. \A n \in s : x >= n
  <2> TAKE n \in s
  <2>1. d <= k - n BY <1>2
  <2> QED BY <1>3, <2>1
<1> HIDE DEF T
<1>5. \E y \in s : \A n \in s : y >= n BY <1>3, <1>4
<1>6. Max(s) \in s /\ \A n \in s : Max(s) >= n BY <1>5 DEF Max
<1> QED BY <1>6

LEMMA MaxOfFirst ==
  ASSUME NEW k \in Nat \ {0}
  PROVE  Max(1..k) = k /\ (1..k) \ {k} = 1..(k - 1)
<1>1. Max(1..k) \in 1..k /\ k <= Max(1..k)
  <2>1. 1..k \in SUBSET (1..k) /\ 1..k # {} /\ k \in 1..k OBVIOUS
  <2> QED BY <2>1, MaxIs
<1>2. Max(1..k) = k
  <2> DEFINE x == Max(1..k)
  <2> HIDE DEF x
  <2>1. x \in 1..k /\ k <= x => x = k OBVIOUS
  <2> QED BY <1>1, <2>1 DEF x
<1> QED BY <1>2

\* One step of a fold from the left, by a function W.
FoldStep(W, base, f, list, s) ==
  IF s = {} THEN base ELSE W[<<f[s \ {Max(s)}], list[Max(s)]>>]

\* What the fold has at every set of places.
IsFold(X, W, base, k, list, f) ==
  /\ f \in [SUBSET (1..k) -> X]
  /\ \A s \in SUBSET (1..k) : f[s] = FoldStep(W, base, f, list, s)

LEMMA FoldExists ==
  ASSUME NEW X, NEW E, NEW W \in [X \X E -> X], NEW base \in X,
         NEW k \in Nat, NEW list, \A i \in 1..k : list[i] \in E
  PROVE  \E f : IsFold(X, W, base, k, list, f)
<1> DEFINE Fn == [SUBSET (1..k) -> X]
           Upto(n) == {s \in SUBSET (1..k) : s \subseteq 1..n}
           Right(f, n) == \A s \in Upto(n) : f[s] = FoldStep(W, base, f, list, s)
           Bad == {n \in Nat : ~\E f \in Fn : Right(f, n)}
<1>1. ASSUME NEW s \in SUBSET (1..k), s # {}
      PROVE  Max(s) \in s /\ Max(s) \in 1..k /\ s \ {Max(s)} \in SUBSET (1..k)
             /\ \A n \in s : n <= Max(s)
      BY <1>1, MaxIs
<1>2. ASSUME NEW f \in Fn, NEW s \in SUBSET (1..k)
      PROVE  FoldStep(W, base, f, list, s) \in X
  <2>1. CASE s = {} BY <2>1 DEF FoldStep
  <2>2. CASE s # {}
    <3>1. f[s \ {Max(s)}] \in X /\ list[Max(s)] \in E BY <1>1, <2>2
    <3>2. <<f[s \ {Max(s)}], list[Max(s)]>> \in X \X E BY <3>1
    <3> QED BY <2>2, <3>2 DEF FoldStep
  <2> QED BY <2>1, <2>2
<1>3. Bad = {}
  <2> SUFFICES ASSUME Bad # {} PROVE FALSE OBVIOUS
  <2>1. PICK m \in Bad : \A n \in Bad : m <= n BY LeastNat
  <2>2. CASE m = 0
    <3> DEFINE f == [s \in SUBSET (1..k) |-> base]
    <3>1. f \in Fn OBVIOUS
    <3>2. \A s \in Upto(0) : f[s] = FoldStep(W, base, f, list, s) BY DEF FoldStep
    <3> HIDE DEF f
    <3> QED BY <2>1, <2>2, <3>1, <3>2
  <2>3. CASE m # 0
    <3>1. m - 1 \in Nat /\ m - 1 \notin Bad
      <4>1. m \in Nat BY <2>1
      <4>2. m - 1 \in Nat /\ ~(m <= m - 1) BY <4>1, <2>3
      <4> HIDE DEF Bad
      <4> QED BY <2>1, <4>2
    <3>2. PICK f \in Fn : Right(f, m - 1) BY <3>1
    <3> DEFINE g == [s \in SUBSET (1..k) |-> IF s \in Upto(m - 1) THEN f[s]
                                              ELSE FoldStep(W, base, f, list, s)]
    <3>3. g \in Fn BY <1>2
    <3>4. ASSUME NEW s \in Upto(m) PROVE g[s] = FoldStep(W, base, g, list, s)
      <4>1. s \in SUBSET (1..k) /\ g[s] = FoldStep(W, base, f, list, s) BY <3>2
      <4>2. CASE s = {} BY <4>1, <4>2 DEF FoldStep
      <4>3. CASE s # {}
        <5> DEFINE t == s \ {Max(s)}
        <5>1. t \in SUBSET (1..k) BY <1>1, <4>1, <4>3
        <5>2. t \subseteq 1..(m - 1)
          <6> SUFFICES ASSUME NEW n \in t PROVE n \in 1..(m - 1) OBVIOUS
          <6>1. Max(s) \in s /\ n <= Max(s) /\ n # Max(s) BY <1>1, <4>1, <4>3
          <6>2. n \in 1..m /\ Max(s) \in 1..m BY <6>1
          <6> QED BY <6>1, <6>2
        <5>3. g[t] = f[t] BY <5>1, <5>2
        <5> HIDE DEF g
        <5> QED BY <4>1, <4>3, <5>3 DEF FoldStep
      <4> QED BY <4>2, <4>3
    <3> HIDE DEF g
    <3> QED BY <2>1, <3>3, <3>4
  <2> QED BY <2>2, <2>3
<1>4. PICK f \in Fn : Right(f, k) BY <1>3
<1>5. \A s \in SUBSET (1..k) : s \in Upto(k) OBVIOUS
<1>6. IsFold(X, W, base, k, list, f) BY <1>4, <1>5 DEF IsFold
<1> QED BY <1>6

\* Two functions that go on alike from place to place.
LEMMA AlikeAlong ==
  ASSUME NEW k \in Nat, NEW f, NEW g, f[{}] = g[{}],
         \A n \in 1..k : f[1..(n - 1)] = g[1..(n - 1)] => f[1..n] = g[1..n]
  PROVE  f[1..k] = g[1..k]
<1> DEFINE Bad == {n \in Nat : n <= k /\ f[1..n] # g[1..n]}
<1>1. SUFFICES ASSUME Bad # {} PROVE FALSE OBVIOUS
<1>2. PICK l \in Bad : \A n \in Bad : l <= n BY <1>1, LeastNat
<1>3. l \in Nat /\ l <= k /\ f[1..l] # g[1..l] BY <1>2
<1>4. 1..0 = {} OBVIOUS
<1>5. l # 0 BY <1>3, <1>4
<1>6. l \in 1..k /\ l - 1 \in Nat /\ l - 1 <= k /\ ~(l <= l - 1) BY <1>3, <1>5
<1>7. l - 1 \notin Bad
  <2> HIDE DEF Bad
  <2> QED BY <1>2, <1>6
<1>8. f[1..(l - 1)] = g[1..(l - 1)] BY <1>6, <1>7
<1> QED BY <1>3, <1>6, <1>8

-----------------------------------------------------------------------------
(* What the two Zen translators have in common *)

Unsigned(b) == \A n \in 1..Len(b.text) : b.text[n].part # "signature"

\* Every block is in order; block k may still be without its text.
DecentBut(z, k) ==
  \A i \in 1..Len(z.blocks) :
    /\ i # k /\ z.blocks[i].kind \in {"text", "thinking"} => z.blocks[i].text # <<>>
    /\ Promise!WellFormed(z.blocks[i]) /\ Unsigned(z.blocks[i])
Decent(z) == DecentBut(z, 0)

LEMMA DecentFilled ==
  ASSUME NEW m \in Msg, Decent(m) PROVE Filled(m)
BY MsgFields DEF Decent, DecentBut, Filled

LEMMA NewBlockWell ==
  ASSUME NEW kind
  PROVE  /\ Promise!WellFormed(NewBlock(kind)) /\ Unsigned(NewBlock(kind))
         /\ NewBlock(kind).text = <<>> /\ NewBlock(kind).kind = kind /\ <<>> \in Texts
BY DEF NewBlock, Unsigned, Promise!WellFormed, Texts

LEMMA SameDecent ==
  ASSUME NEW y, NEW z, NEW i, SameBlock(y, z, i)
  PROVE  /\ Promise!WellFormed(z.blocks[i]) => Promise!WellFormed(y.blocks[i])
         /\ Unsigned(z.blocks[i]) => Unsigned(y.blocks[i])
BY DEF SameBlock, Promise!WellFormed, Unsigned

LEMMA OpenDecent ==
  ASSUME NEW s, NEW m, NEW z, At(s, m, z), Decent(z), s.started, NEW kind \in Kinds
  PROVE  LET r == OpenNext(s, kind)
             k == Len(z.blocks)
         IN /\ Keeps(r, s, {"current", "kind", "next", "out"})
            /\ r.current = k + 1 /\ r.kind = kind /\ k \in Nat
            /\ \E y : /\ At(r, m, y) /\ Len(y.blocks) = k + 1 /\ DecentBut(y, k + 1)
                      /\ y.blocks[k + 1].kind = kind /\ y.blocks[k + 1].text = <<>>
                      /\ \A i \in 1..k : SameBlock(y, z, i)
<1> DEFINE r == OpenNext(s, kind)
           k == Len(z.blocks)
<1>1. z \in Msg /\ Filled(z) /\ k \in Nat BY DecentFilled, MsgFields DEF At
<1>2. /\ Keeps(r, s, {"current", "kind", "next", "out"})
      /\ r.current = k + 1 /\ r.kind = kind
      BY <1>1, OpenOK
<1>3. PICK y : /\ At(r, m, y) /\ Len(y.blocks) = k + 1 /\ y.blocks[k + 1] = NewBlock(kind)
               /\ \A i \in 1..k : SameBlock(y, z, i)
      BY <1>1, OpenOK
<1> HIDE DEF r, k
<1>4. DecentBut(y, k + 1)
  <2> SUFFICES ASSUME NEW i \in 1..Len(y.blocks)
               PROVE  /\ i # k + 1 /\ y.blocks[i].kind \in {"text", "thinking"} => y.blocks[i].text # <<>>
                      /\ Promise!WellFormed(y.blocks[i]) /\ Unsigned(y.blocks[i])
      BY DEF DecentBut
  <2>1. CASE i = k + 1 BY <1>3, <2>1, NewBlockWell
  <2>2. CASE i # k + 1
    <3>1. i \in 1..Len(z.blocks) /\ i # 0 /\ SameBlock(y, z, i) BY <1>1, <1>3, <2>2 DEF k
    <3> QED BY <3>1, SameDecent DEF Decent, DecentBut, SameBlock
  <2> QED BY <2>1, <2>2
<1> QED BY <1>1, <1>2, <1>3, <1>4, NewBlockWell DEF r, k

LEMMA WriteDecent ==
  ASSUME NEW s, NEW m, NEW z, At(s, m, z), s.current # 0,
         NEW j \in {0, s.current}, DecentBut(z, j),
         NEW text \in Texts, text # <<>>,
         \A n \in 1..Len(text) : /\ Promise!Fits(text[n], z.blocks[s.current].kind)
                                 /\ text[n].part # "signature",
         z.blocks[s.current].kind = "tool" =>
           \E i : /\ \A n \in 1..Len(z.blocks[s.current].text) : z.blocks[s.current].text[n].item = i
                  /\ \A n \in 1..Len(text) : text[n].item = i
  PROVE  LET k == s.current
         IN /\ Keeps(Write(s, text), s, {"out"}) /\ k \in 1..Len(z.blocks) /\ text \in Texts
            /\ \E y : /\ At(Write(s, text), m, y) /\ Len(y.blocks) = Len(z.blocks) /\ Decent(y)
                      /\ y.blocks[k].kind = z.blocks[k].kind
                      /\ y.blocks[k].text = z.blocks[k].text \o text
                      /\ \A i \in 1..Len(z.blocks) : i # k => SameBlock(y, z, i)
<1> DEFINE k == s.current
           b == z.blocks[k]
<1>1. z \in Msg /\ k \in 1..Len(z.blocks) /\ b \in Block /\ Len(z.blocks) \in Nat
      BY MsgFields DEF At
<1>2. b.text \in Texts /\ Promise!WellFormed(b) /\ Unsigned(b)
      BY <1>1 DEF Block, DecentBut
<1>3. ASSUME NEW c, c.kind = b.kind, c.text = b.text \o text PROVE Promise!WellFormed(c)
  <2> HIDE DEF b
  <2>1. \A n \in 1..Len(b.text) : b.text[n].part # "signature" BY <1>2 DEF Unsigned
  <2>2. /\ \A n \in 1..Len(text) : Promise!Fits(text[n], b.kind)
        /\ \A n \in 1..Len(text) : text[n].part = "signature" => n = Len(text)
        /\ b.kind = "tool" => \E i : /\ \A n \in 1..Len(b.text) : b.text[n].item = i
                                     /\ \A n \in 1..Len(text) : text[n].item = i
        BY DEF b
  <2> QED BY <1>2, <1>3, <2>1, <2>2, GrowsWell
<1>4. Keeps(Write(s, text), s, {"out"})
      /\ \E y : /\ At(Write(s, text), m, y) /\ Len(y.blocks) = Len(z.blocks)
                /\ y.blocks[k].kind = z.blocks[k].kind
                /\ y.blocks[k].text = z.blocks[k].text \o text
                /\ Promise!WellFormed(y.blocks[k])
                /\ \A i \in 1..Len(z.blocks) : i # k => SameBlock(y, z, i)
      BY <1>3, WriteOK
<1>5. PICK y : /\ At(Write(s, text), m, y) /\ Len(y.blocks) = Len(z.blocks)
               /\ y.blocks[k].kind = b.kind /\ y.blocks[k].text = b.text \o text
               /\ Promise!WellFormed(y.blocks[k])
               /\ \A i \in 1..Len(z.blocks) : i # k => SameBlock(y, z, i)
      BY <1>4
<1> HIDE DEF b
<1>6. /\ b.text \o text \in Texts /\ b.text \o text # <<>>
      /\ \A n \in 1..Len(b.text \o text) : (b.text \o text)[n].part # "signature"
  <2>1. Len(b.text) \in Nat /\ Len(text) \in Nat \ {0} BY <1>2, EmptySeq DEF Texts
  <2> DEFINE c == b.text \o text
  <2>2. /\ c \in Texts /\ Len(c) = Len(b.text) + Len(text)
        /\ \A n \in 1..Len(b.text) : c[n] = b.text[n]
        /\ \A n \in 1..Len(c) : n > Len(b.text) =>
             n - Len(b.text) \in 1..Len(text) /\ c[n] = text[n - Len(b.text)]
        BY <1>2, <2>1, ConcatProperties DEF Texts
  <2> HIDE DEF c
  <2>3. ASSUME NEW n \in 1..Len(c) PROVE c[n].part # "signature"
    <3>1. CASE n \in 1..Len(b.text) BY <1>2, <2>2, <3>1 DEF Unsigned
    <3>2. CASE n \notin 1..Len(b.text)
      <4>1. n > Len(b.text) BY <2>1, <2>2, <3>2
      <4> DEFINE i == n - Len(b.text)
      <4>2. i \in 1..Len(text) /\ c[n] = text[i] BY <2>2, <4>1
      <4> HIDE DEF i
      <4> QED BY <4>2
    <3> QED BY <3>1, <3>2
  <2>4. c # <<>> BY <2>1, <2>2, EmptySeq
  <2> QED BY <2>2, <2>3, <2>4 DEF c
<1>7. Decent(y)
  <2> SUFFICES ASSUME NEW i \in 1..Len(y.blocks)
               PROVE  /\ y.blocks[i].kind \in {"text", "thinking"} => y.blocks[i].text # <<>>
                      /\ Promise!WellFormed(y.blocks[i]) /\ Unsigned(y.blocks[i])
      BY DEF Decent, DecentBut
  <2>1. CASE i = k BY <1>5, <1>6, <2>1 DEF Unsigned
  <2>2. CASE i # k
    <3>1. i \in 1..Len(z.blocks) /\ i # j /\ SameBlock(y, z, i) BY <1>1, <1>5, <2>2
    <3> QED BY <3>1, SameDecent DEF DecentBut, SameBlock
  <2> QED BY <2>1, <2>2
<1> QED BY <1>1, <1>4, <1>5, <1>7 DEF b

\* The next handler begins with nothing said.
LEMMA ResetOK ==
  ASSUME NEW s, NEW m, NEW z, At(s, m, z)
  PROVE  /\ At([s EXCEPT !.out = <<>>], z, z) /\ Keeps([s EXCEPT !.out = <<>>], s, {"out"})
         /\ [s EXCEPT !.out = <<>>].out = <<>>
<1> DEFINE r == [s EXCEPT !.out = <<>>]
<1>1. r = [x \in DOMAIN r |-> r[x]] /\ Keeps(r, s, {"out"}) /\ r.out = <<>>
      BY DEF At, Keeps, EmitterFields
<1>2. /\ r.next = s.next /\ r.started = s.started /\ r.current = s.current /\ r.kind = s.kind
      /\ DOMAIN r = DOMAIN s
      BY <1>1 DEF At, Keeps, EmitterFields
<1> HIDE DEF r
<1>3. Delivers(r.out, z, z) BY <1>1, DeliversNothing DEF At
<1>4. At(r, z, z) BY <1>1, <1>2, <1>3 DEF At
<1> QED BY <1>1, <1>4 DEF r

LEMMA NothingLeft ==
  ASSUME NEW m, NEW z, Delivers(<<>>, m, z) PROVE m = z
BY DEF Delivers

LEMMA EventsOf ==
  /\ MessageStart \in Events /\ MessageStop \in Events /\ ErrorEvent \in Events
  /\ \A i \in Nat : BlockStop(i) \in Events
  /\ \A i \in Nat, kind \in Kinds : BlockStart(i, kind) \in Events
  /\ \A i \in Nat, text \in Texts : BlockDelta(i, text) \in Events
  /\ \A stop \in StopReasons : MessageDelta(stop) \in Events
BY DEF Events

LEMMA BoundedIsSeq == ASSUME NEW S, NEW n \in Nat, NEW q \in BoundedSeq(S, n) PROVE q \in Seq(S)
BY DEF BoundedSeq, SeqOf

-----------------------------------------------------------------------------
(* The translator of the Chat wire *)

ChatRec ==
  [block : [Calls -> Nat], dropped : SUBSET Calls, started : BOOLEAN, failed : BOOLEAN,
   current : Nat, kind : Kinds \cup {"none"}, next : Nat, stop : StopReasons \cup {"none"},
   out : Seq(Events)]
CupRec ==
  [said : [ChatParts -> Nat], args : [Calls -> Nat], pieces : Nat, named : SUBSET Calls,
   finish : FinishReasons, over : BOOLEAN]

ChatTypeOK == cs \in ChatRec /\ cup \in CupRec /\ gate \in SUBSET Calls

\* The block of a call is a tool block of its own, with its arguments only.
Owned(s, z) ==
  /\ \A c \in Calls : s.block[c] # 0 =>
       /\ s.block[c] \in 1..Len(z.blocks) /\ z.blocks[s.block[c]].kind = "tool"
       /\ \A n \in 1..Len(z.blocks[s.block[c]].text) : z.blocks[s.block[c]].text[n].item = c
  /\ \A c, d \in Calls : s.block[c] = s.block[d] /\ s.block[c] # 0 => c = d

ChatOK(s, m, z) == s \in ChatRec /\ At(s, m, z) /\ Decent(z) /\ Owned(s, z)

LEMMA OwnBlock ==
  ASSUME NEW s, NEW z, Owned(s, z), NEW c \in Calls, s.block[c] # 0
  PROVE  /\ s.block[c] \in 1..Len(z.blocks) /\ z.blocks[s.block[c]].kind = "tool"
         /\ \A n \in 1..Len(z.blocks[s.block[c]].text) : z.blocks[s.block[c]].text[n].item = c
BY DEF Owned

\* What the calls have depends on their blocks only.
LEMMA OwnedKept ==
  ASSUME NEW s, NEW z, Owned(s, z), NEW r, \A c \in Calls : r.block[c] = s.block[c]
  PROVE  Owned(r, z)
<1>1. ASSUME NEW c \in Calls, r.block[c] # 0
      PROVE  /\ r.block[c] \in 1..Len(z.blocks) /\ z.blocks[r.block[c]].kind = "tool"
             /\ \A n \in 1..Len(z.blocks[r.block[c]].text) : z.blocks[r.block[c]].text[n].item = c
  <2>1. r.block[c] = s.block[c] BY <1>1
  <2> QED BY <1>1, <2>1, OwnBlock
<1>2. \A c, d \in Calls : r.block[c] = r.block[d] /\ r.block[c] # 0 => c = d
      BY DEF Owned
<1> QED BY <1>1, <1>2 DEF Owned

\* The calls of N have a block each, unless they are the gate's.
HasBlocks(s, N) ==
  /\ \A c \in Calls : s.block[c] # 0 <=> c \in N \ gate
  /\ s.dropped = N \cap gate

LEMMA ChatEmitType ==
  ASSUME NEW s \in ChatRec, NEW e \in Events
  PROVE  /\ Emit(s, e) \in ChatRec
         /\ Emit(s, e).block = s.block /\ Emit(s, e).next = s.next
<1> DEFINE w == Append(s.out, e)
<1>1. w \in Seq(Events) BY DEF ChatRec
<1>2. Emit(s, e) = [s EXCEPT !.out = w] BY DEF Emit
<1> HIDE DEF w
<1> QED BY <1>1, <1>2 DEF ChatRec

LEMMA ChatOpenType ==
  ASSUME NEW s \in ChatRec, NEW kind \in Kinds
  PROVE  OpenNext(s, kind) \in ChatRec
<1> DEFINE c == CloseCurrent(s)
           d == Emit(c, BlockStart(s.next, kind))
<1>1. s.current \in Nat /\ s.next \in Nat BY DEF ChatRec
<1>2. Emit(s, BlockStop(s.current)) \in ChatRec BY <1>1, EventsOf, ChatEmitType
<1>3. c \in ChatRec BY <1>2 DEF CloseCurrent, ChatRec
<1>4. d \in ChatRec BY <1>1, <1>3, EventsOf, ChatEmitType
<1>5. d.next = s.next
  <2>1. d.next = c.next BY <1>1, <1>3, EventsOf, ChatEmitType
  <2>2. c.next = s.next BY <1>1, <1>2, EventsOf, ChatEmitType DEF CloseCurrent, ChatRec
  <2> QED BY <2>1, <2>2
<1> DEFINE n == d.next + 1
<1>6. n \in Nat BY <1>1, <1>5
<1>7. OpenNext(s, kind) = [d EXCEPT !.current = s.next, !.kind = kind, !.next = n]
      BY <1>4 DEF OpenNext, ChatRec
<1> HIDE DEF c, d, n
<1> QED BY <1>1, <1>4, <1>6, <1>7 DEF ChatRec

LEMMA ChatWriteType ==
  ASSUME NEW s \in ChatRec, NEW text \in Texts
  PROVE  Write(s, text) \in ChatRec
<1>1. s.current \in Nat BY DEF ChatRec
<1> QED BY <1>1, EventsOf, ChatEmitType DEF Write

LEMMA ChatStartType == ASSUME NEW s \in ChatRec PROVE StartMessage(s) \in ChatRec
<1>1. Emit(s, MessageStart) \in ChatRec BY EventsOf, ChatEmitType
<1> QED BY <1>1 DEF StartMessage, ChatRec

LEMMA ChatPieces ==
  ASSUME ChatTypeOK
  PROVE  /\ \A p \in ChatParts : <<ChatText(p, cup.said[p] + 1)>> \in Texts
         /\ \A c \in Calls : <<Argument(c, cup.args[c] + 1)>> \in Texts /\ c \in Nat /\ c # 0
<1>1. \A p \in ChatParts : cup.said[p] + 1 \in Nat BY DEF ChatTypeOK, CupRec
<1>2. \A c \in Calls : cup.args[c] + 1 \in Nat /\ c \in Nat /\ c # 0
      BY ZenChatAssumption DEF ChatTypeOK, CupRec, ZenChatAssumption
<1>3. ASSUME NEW p \in ChatParts PROVE <<ChatText(p, cup.said[p] + 1)>> \in Texts
      BY <1>1 DEF ChatText, Texts, ChatParts, PieceParts
<1>4. ASSUME NEW c \in Calls PROVE <<Argument(c, cup.args[c] + 1)>> \in Texts
      BY <1>2 DEF Argument, Texts, PieceParts
<1> QED BY <1>2, <1>3, <1>4

-----------------------------------------------------------------------------
\* A block is opened.
LEMMA ChatOpens ==
  ASSUME NEW s, NEW m, NEW z, ChatOK(s, m, z), s.started, NEW kind \in Kinds
  PROVE  LET r == OpenNext(s, kind)
             k == Len(z.blocks)
         IN /\ r \in ChatRec /\ r.current = k + 1 /\ r.kind = kind /\ k \in Nat
            /\ r.block = s.block /\ r.dropped = s.dropped /\ r.stop = s.stop /\ r.started
            /\ \E y : /\ At(r, m, y) /\ Len(y.blocks) = k + 1 /\ DecentBut(y, k + 1)
                      /\ y.blocks[k + 1].kind = kind /\ y.blocks[k + 1].text = <<>>
                      /\ \A i \in 1..k : SameBlock(y, z, i)
                      /\ Owned(r, y)
<1> DEFINE r == OpenNext(s, kind)
           k == Len(z.blocks)
<1>1. s \in ChatRec /\ At(s, m, z) /\ Decent(z) /\ Owned(s, z) BY DEF ChatOK
<1>2. r \in ChatRec BY <1>1, ChatOpenType
<1>3. Keeps(r, s, {"current", "kind", "next", "out"}) /\ r.current = k + 1 /\ r.kind = kind /\ k \in Nat
      BY <1>1, OpenDecent
<1>4. r.block = s.block /\ r.dropped = s.dropped /\ r.stop = s.stop /\ r.started
      BY <1>1, <1>3 DEF Keeps, ChatRec
<1>5. PICK y : /\ At(r, m, y) /\ Len(y.blocks) = k + 1 /\ DecentBut(y, k + 1)
               /\ y.blocks[k + 1].kind = kind /\ y.blocks[k + 1].text = <<>>
               /\ \A i \in 1..k : SameBlock(y, z, i)
      BY <1>1, OpenDecent
<1> HIDE DEF r
<1>6. Owned(r, y)
  <2>1. ASSUME NEW c \in Calls, r.block[c] # 0
        PROVE  /\ r.block[c] \in 1..Len(y.blocks) /\ y.blocks[r.block[c]].kind = "tool"
               /\ \A n \in 1..Len(y.blocks[r.block[c]].text) : y.blocks[r.block[c]].text[n].item = c
    <3>1. s.block[c] \in 1..k /\ r.block[c] = s.block[c] BY <1>1, <1>4, <2>1 DEF Owned
    <3>2. SameBlock(y, z, s.block[c]) BY <1>5, <3>1
    <3>3. r.block[c] \in 1..Len(y.blocks) BY <1>3, <1>5, <3>1
    <3> HIDE DEF k
    <3>4. /\ z.blocks[s.block[c]].kind = "tool"
          /\ \A n \in 1..Len(z.blocks[s.block[c]].text) : z.blocks[s.block[c]].text[n].item = c
          BY <1>1, <2>1, <3>1, OwnBlock
    <3> QED BY <3>1, <3>2, <3>3, <3>4 DEF SameBlock
  <2>2. \A c, d \in Calls : r.block[c] = r.block[d] /\ r.block[c] # 0 => c = d
        BY <1>1, <1>4 DEF Owned
  <2> QED BY <2>1, <2>2 DEF Owned
<1> QED BY <1>2, <1>3, <1>4, <1>5, <1>6 DEF r

\* And something is written to it: reasoning or content, or an argument of the call
\* that owns it.
LEMMA ChatWrites ==
  ASSUME NEW s \in ChatRec, NEW m, NEW z, At(s, m, z), s.current # 0,
         NEW j \in {0, s.current}, DecentBut(z, j), Owned(s, z),
         NEW piece, <<piece>> \in Texts, Promise!Fits(piece, z.blocks[s.current].kind),
         piece.part # "signature",
         z.blocks[s.current].kind = "tool" =>
           /\ \A n \in 1..Len(z.blocks[s.current].text) : z.blocks[s.current].text[n].item = piece.item
           /\ \A c \in Calls : s.block[c] = s.current => c = piece.item
  PROVE  LET r == Write(s, <<piece>>)
         IN /\ r.block = s.block /\ r.dropped = s.dropped /\ r.stop = s.stop
            /\ r.started = s.started /\ r.kind = s.kind
            /\ \E y : ChatOK(r, m, y)
<1> DEFINE r == Write(s, <<piece>>)
           text == <<piece>>
           k == s.current
<1>1. r \in ChatRec BY ChatWriteType
<1>2. /\ text \in Texts /\ text # <<>> /\ Len(text) = 1 /\ text[1] = piece
      OBVIOUS
<1>3. \A n \in 1..Len(text) : /\ Promise!Fits(text[n], z.blocks[s.current].kind)
                              /\ text[n].part # "signature" /\ text[n].item = piece.item
      BY <1>2
<1> HIDE DEF text
<1>4. /\ Keeps(Write(s, text), s, {"out"}) /\ k \in 1..Len(z.blocks)
      /\ \E y : /\ At(Write(s, text), m, y) /\ Len(y.blocks) = Len(z.blocks) /\ Decent(y)
                /\ y.blocks[k].kind = z.blocks[k].kind
                /\ y.blocks[k].text = z.blocks[k].text \o text
                /\ \A i \in 1..Len(z.blocks) : i # k => SameBlock(y, z, i)
  <2>1. z.blocks[s.current].kind = "tool" =>
           \E i : /\ \A n \in 1..Len(z.blocks[s.current].text) : z.blocks[s.current].text[n].item = i
                  /\ \A n \in 1..Len(text) : text[n].item = i
        BY <1>3
  <2> QED BY <1>2, <1>3, <2>1, WriteDecent
<1>5. PICK y : /\ At(Write(s, text), m, y) /\ Len(y.blocks) = Len(z.blocks) /\ Decent(y)
               /\ y.blocks[k].kind = z.blocks[k].kind
               /\ y.blocks[k].text = z.blocks[k].text \o text
               /\ \A i \in 1..Len(z.blocks) : i # k => SameBlock(y, z, i)
      BY <1>4
<1>6. /\ r.block = s.block /\ r.dropped = s.dropped /\ r.stop = s.stop
      /\ r.started = s.started /\ r.kind = s.kind
      BY <1>4 DEF Keeps, ChatRec, text
<1>7. Owned(r, y)
  <2>1. ASSUME NEW c \in Calls, r.block[c] # 0
        PROVE  /\ r.block[c] \in 1..Len(y.blocks) /\ y.blocks[r.block[c]].kind = "tool"
               /\ \A n \in 1..Len(y.blocks[r.block[c]].text) : y.blocks[r.block[c]].text[n].item = c
    <3> DEFINE i == s.block[c]
    <3>1. /\ r.block[c] = i /\ i # 0 /\ i \in 1..Len(z.blocks) /\ z.blocks[i].kind = "tool"
          /\ \A n \in 1..Len(z.blocks[i].text) : z.blocks[i].text[n].item = c
          BY <1>6, <2>1 DEF Owned
    <3> HIDE DEF i
    <3>2. CASE i # k
      <4>1. SameBlock(y, z, i) BY <1>5, <3>1, <3>2
      <4> QED BY <1>5, <3>1, <4>1 DEF SameBlock
    <3>3. CASE i = k
      <4>1. c = piece.item BY <3>1, <3>3 DEF i
      <4>2. z.blocks[k].text \in Texts
        <5>1. z \in Msg BY DEF At
        <5>2. z.blocks[k] \in Block BY <1>4, <5>1, MsgFields
        <5> QED BY <5>2 DEF Block
      <4> DEFINE t == z.blocks[k].text
      <4> t \in Texts BY <4>2
      <4> HIDE DEF t
      <4>3. /\ Len(t \o text) = Len(t) + 1 /\ Len(t) \in Nat
            /\ \A n \in 1..Len(t) : (t \o text)[n] = t[n]
            /\ (t \o text)[Len(t) + 1] = piece
        <5> DEFINE P == [item : Nat, part : PieceParts, n : Nat]
        <5>1. t \in Seq(P) /\ text \in Seq(P) BY <1>2 DEF Texts
        <5> HIDE DEF P
        <5>2. /\ Len(t \o text) = Len(t) + Len(text) /\ Len(t) \in Nat
              /\ \A n \in 1..Len(t) : (t \o text)[n] = t[n]
              /\ \A n \in Len(t) + 1..Len(t) + Len(text) : (t \o text)[n] = text[n - Len(t)]
              BY <5>1
        <5> QED BY <1>2, <5>2
      <4>4. \A n \in 1..Len(t) : t[n].item = c BY <3>1, <3>3 DEF t
      <4> HIDE DEF k
      <4>5. \A n \in 1..Len(t \o text) : (t \o text)[n].item = c
        <5> TAKE n \in 1..Len(t \o text)
        <5>1. n \in 1..Len(t) \/ n = Len(t) + 1 BY <4>3
        <5> QED BY <4>1, <4>3, <4>4, <5>1
      <4>6. y.blocks[k].text = t \o text BY <1>5 DEF t
      <4>7. r.block[c] = k /\ k \in 1..Len(z.blocks) /\ z.blocks[k].kind = "tool" BY <3>1, <3>3
      <4>8. Len(y.blocks) = Len(z.blocks) /\ y.blocks[k].kind = z.blocks[k].kind BY <1>5
      <4> QED BY <4>5, <4>6, <4>7, <4>8
    <3> QED BY <3>2, <3>3
  <2>2. \A c, d \in Calls : r.block[c] = r.block[d] /\ r.block[c] # 0 => c = d
        BY <1>6 DEF Owned
  <2> QED BY <2>1, <2>2 DEF Owned
<1>8. ChatOK(r, m, y) BY <1>1, <1>5, <1>7 DEF ChatOK, text
<1> QED BY <1>6, <1>8

\* A change of other fields.
LEMMA AtKept ==
  ASSUME NEW s, NEW m, NEW z, At(s, m, z), NEW r, r = [x \in DOMAIN r |-> r[x]],
         DOMAIN r = DOMAIN s, \A x \in EmitterFields : r[x] = s[x]
  PROVE  At(r, m, z)
<1>1. r.started = s.started /\ r.next = s.next /\ r.current = s.current /\ r.kind = s.kind
      /\ r.out = s.out
      BY DEF EmitterFields
<1> QED BY <1>1 DEF At

\* What a handler's piece of reasoning or content makes of the stream.
LEMMA ChatPart ==
  ASSUME ChatTypeOK, NEW s, NEW m, NEW z, ChatOK(s, m, z), s.started,
         NEW p \in ChatParts, NEW said
  PROVE  LET r == WritePart(s, p, said)
         IN /\ r.block = s.block /\ r.dropped = s.dropped /\ r.stop = s.stop /\ r.started
            /\ \E y : ChatOK(r, m, y)
<1> DEFINE piece == ChatText(p, cup.said[p] + 1)
           o == IF s.kind = p THEN s ELSE OpenNext(s, p)
<1>1. CASE p \notin said
      BY <1>1 DEF WritePart
<1>2. CASE p \in said
  <2>1. WritePart(s, p, said) = Write(o, <<piece>>) BY <1>2 DEF WritePart
  <2>2. <<piece>> \in Texts /\ piece.part = p BY ChatPieces DEF ChatText
  <2>3. p \in Kinds /\ p # "none" /\ p # "tool" /\ p # "signature" BY DEF ChatParts, Kinds
  <2>4. Promise!Fits(piece, p) BY <2>2 DEF Promise!Fits, ChatParts
  <2>5. /\ o.block = s.block /\ o.dropped = s.dropped /\ o.stop = s.stop /\ o.started
        /\ o \in ChatRec /\ o.current # 0
        /\ \E y : /\ \E j \in {0, o.current} : DecentBut(y, j)
                  /\ At(o, m, y) /\ Owned(o, y) /\ y.blocks[o.current].kind = p
    <3>1. CASE s.kind = p
      <4>1. o = s BY <3>1
      <4>2. s.current # 0 /\ z.blocks[s.current].kind = p BY <2>3, <3>1 DEF ChatOK, At
      <4>3. At(o, m, z) /\ DecentBut(z, 0) /\ Owned(o, z) BY <4>1 DEF ChatOK, Decent
      <4>4. s \in ChatRec BY DEF ChatOK
      <4> HIDE DEF o
      <4>5. 0 \in {0, o.current} /\ z.blocks[o.current].kind = p BY <4>1, <4>2
      <4> QED BY <4>1, <4>2, <4>3, <4>4, <4>5
    <3>2. CASE s.kind # p
      <4>1. o = OpenNext(s, p) BY <3>2
      <4> DEFINE k == Len(z.blocks)
      <4>2. /\ o \in ChatRec /\ o.current = k + 1 /\ k \in Nat
            /\ o.block = s.block /\ o.dropped = s.dropped /\ o.stop = s.stop /\ o.started
            /\ \E y : /\ At(o, m, y) /\ DecentBut(y, k + 1)
                      /\ y.blocks[k + 1].kind = p /\ Owned(o, y)
            BY <2>3, <4>1, ChatOpens
      <4> HIDE DEF o, k
      <4>3. PICK y : /\ At(o, m, y) /\ DecentBut(y, o.current)
                     /\ y.blocks[o.current].kind = p /\ Owned(o, y)
            BY <4>2
      <4>4. o.current # 0 /\ o.current \in {0, o.current} BY <4>2
      <4> QED BY <4>2, <4>3, <4>4
    <3> QED BY <3>1, <3>2
  <2> HIDE DEF o
  <2>6. PICK y : /\ \E j \in {0, o.current} : DecentBut(y, j)
                 /\ At(o, m, y) /\ Owned(o, y) /\ y.blocks[o.current].kind = p
        BY <2>5
  <2>j. PICK j \in {0, o.current} : DecentBut(y, j) BY <2>6
  <2> HIDE DEF piece
  <2>7. /\ y.blocks[o.current].kind # "tool" /\ Promise!Fits(piece, y.blocks[o.current].kind)
        /\ piece.part # "signature"
        BY <2>2, <2>3, <2>4, <2>6
  <2>8. LET r == Write(o, <<piece>>)
        IN /\ r.block = o.block /\ r.dropped = o.dropped /\ r.stop = o.stop
           /\ r.started = o.started /\ \E x : ChatOK(r, m, x)
        BY <2>2, <2>5, <2>6, <2>j, <2>7, ChatWrites
  <2> QED BY <2>1, <2>5, <2>8
<1> QED BY <1>1, <1>2

\* What the announcement of a call makes of it.
LEMMA ChatCalls ==
  ASSUME ChatTypeOK, NEW s, NEW m, NEW z, ChatOK(s, m, z), s.started, NEW c \in Calls
  PROVE  LET r == OpenChatCall(s, c)
         IN /\ r.stop = s.stop /\ r.started /\ (r.block[c] # 0 \/ c \in r.dropped)
            /\ \E y : ChatOK(r, m, y)
            /\ \A N \in SUBSET Calls : HasBlocks(s, N) => HasBlocks(r, N \cup {c})
<1> DEFINE r == OpenChatCall(s, c)
<1>0. s \in ChatRec /\ At(s, m, z) /\ Decent(z) /\ Owned(s, z) BY DEF ChatOK
<1>1. CASE s.block[c] # 0 \/ c \in s.dropped
  <2>1. r = s BY <1>1 DEF OpenChatCall
  <2>2. ASSUME NEW N \in SUBSET Calls, HasBlocks(s, N) PROVE HasBlocks(s, N \cup {c})
        BY <1>1, <2>2 DEF HasBlocks
  <2> QED BY <1>1, <2>1, <2>2
<1>2. CASE ~(s.block[c] # 0 \/ c \in s.dropped) /\ c \in gate
  <2> DEFINE D == s.dropped \cup {c}
  <2>a. D \in SUBSET Calls BY <1>0 DEF ChatRec
  <2>1. r = [s EXCEPT !.dropped = D] BY <1>2 DEF OpenChatCall
  <2> HIDE DEF D, r
  <2>b. /\ r \in ChatRec /\ r.block = s.block /\ r.dropped = D
        /\ r.stop = s.stop /\ r.started = s.started
        BY <1>0, <2>1, <2>a DEF ChatRec
  <2>2. /\ r \in ChatRec /\ r.block = s.block /\ r.dropped = s.dropped \cup {c}
        /\ r.stop = s.stop /\ r.started = s.started
        BY <2>b DEF D
  <2>c. /\ r = [x \in DOMAIN r |-> r[x]] /\ DOMAIN r = DOMAIN s
        /\ \A x \in EmitterFields : r[x] = s[x]
        BY <1>0, <2>1 DEF ChatRec, EmitterFields
  <2>3. At(r, m, z) BY <1>0, <2>c, AtKept
  <2>4. Owned(r, z) BY <1>0, <2>2, OwnedKept
  <2>5. ASSUME NEW N \in SUBSET Calls, HasBlocks(s, N) PROVE HasBlocks(r, N \cup {c})
        BY <1>2, <2>2, <2>5 DEF HasBlocks
  <2> QED BY <1>0, <2>2, <2>3, <2>4, <2>5 DEF ChatOK, r
<1>3. CASE ~(s.block[c] # 0 \/ c \in s.dropped) /\ c \notin gate
  <2> DEFINE b == OpenNext(s, "tool")
             k == Len(z.blocks)
  <2>1. "tool" \in Kinds BY DEF Kinds
  <2>2. PICK y : /\ b \in ChatRec /\ b.current = k + 1 /\ k \in Nat
                 /\ b.block = s.block /\ b.dropped = s.dropped /\ b.stop = s.stop /\ b.started
                 /\ At(b, m, y) /\ Len(y.blocks) = k + 1 /\ DecentBut(y, k + 1)
                 /\ y.blocks[k + 1].kind = "tool" /\ y.blocks[k + 1].text = <<>>
                 /\ Owned(b, y)
        BY <2>1, ChatOpens
  <2>3. r = [b EXCEPT !.block[c] = b.current] BY <1>3 DEF OpenChatCall
  <2> HIDE DEF b
  <2> DEFINE bl == [b.block EXCEPT ![c] = k + 1]
  <2>4. bl \in [Calls -> Nat] BY <2>2 DEF ChatRec
  <2>5. /\ bl[c] = k + 1 /\ \A d \in Calls : d # c => bl[d] = s.block[d] BY <1>0, <2>2 DEF ChatRec
  <2>6. r = [b EXCEPT !.block = bl] BY <2>2, <2>3
  <2> HIDE DEF bl
  <2>7. /\ r \in ChatRec /\ r.block = bl /\ r.dropped = s.dropped
        /\ r.stop = s.stop /\ r.started
        BY <2>2, <2>4, <2>6 DEF ChatRec
  <2>d. /\ r = [x \in DOMAIN r |-> r[x]] /\ DOMAIN r = DOMAIN b
        /\ \A x \in EmitterFields : r[x] = b[x]
        BY <2>2, <2>6 DEF ChatRec, EmitterFields
  <2>8. At(r, m, y) BY <2>2, <2>d, AtKept
  <2>9. Decent(y)
        BY <2>2 DEF Decent, DecentBut
  <2> HIDE DEF r
  <2>10. Owned(r, y)
    <3>1. ASSUME NEW d \in Calls, r.block[d] # 0
          PROVE  /\ r.block[d] \in 1..Len(y.blocks) /\ y.blocks[r.block[d]].kind = "tool"
                 /\ \A n \in 1..Len(y.blocks[r.block[d]].text) : y.blocks[r.block[d]].text[n].item = d
      <4>1. CASE d = c
        <5>1. r.block[d] = k + 1 BY <2>5, <2>7, <4>1
        <5> QED BY <2>2, <5>1
      <4>2. CASE d # c
        <5>1. r.block[d] = b.block[d] BY <2>2, <2>5, <2>7, <4>2
        <5> QED BY <2>2, <3>1, <5>1 DEF Owned
      <4> QED BY <4>1, <4>2
    <3>2. ASSUME NEW d \in Calls, NEW e \in Calls, r.block[d] = r.block[e], r.block[d] # 0
          PROVE  d = e
      <4>1. \A f \in Calls : f # c => r.block[f] = s.block[f] /\ (s.block[f] # 0 => s.block[f] \in 1..k)
            BY <1>0, <2>5, <2>7 DEF Owned
      <4>2. r.block[c] = k + 1 BY <2>5, <2>7
      <4> HIDE DEF k
      <4>3. k + 1 \notin 1..k BY <2>2
      <4> QED BY <1>0, <2>2, <3>2, <4>1, <4>2, <4>3 DEF Owned
    <3> QED BY <3>1, <3>2 DEF Owned
  <2>11. ASSUME NEW N \in SUBSET Calls, HasBlocks(s, N) PROVE HasBlocks(r, N \cup {c})
    <3>1. k + 1 # 0 BY <2>2
    <3> QED BY <1>3, <2>5, <2>7, <2>11, <3>1 DEF HasBlocks
  <2>12. r.block[c] # 0 BY <2>2, <2>5, <2>7
  <2> QED BY <2>7, <2>8, <2>9, <2>10, <2>11, <2>12 DEF ChatOK, r
<1> QED BY <1>1, <1>2, <1>3

\* And a fragment of it.
LEMMA ChatFragment ==
  ASSUME ChatTypeOK, NEW s, NEW m, NEW z, ChatOK(s, m, z), s.started, NEW f \in Fragments
  PROVE  LET r == WriteFragment(s, f)
         IN /\ r.stop = s.stop /\ r.started
            /\ \E y : ChatOK(r, m, y)
            /\ \A N \in SUBSET Calls : HasBlocks(s, N) => HasBlocks(r, N \cup {f.call})
<1> DEFINE c == f.call
           o == OpenChatCall(s, c)
           piece == Argument(c, cup.args[c] + 1)
           writes == f.args /\ c \notin o.dropped /\ o.block[c] = o.current
<1>1. c \in Calls BY DEF Fragments
<1>2. /\ o.stop = s.stop /\ o.started /\ (o.block[c] # 0 \/ c \in o.dropped)
      /\ \E y : ChatOK(o, m, y)
      /\ \A N \in SUBSET Calls : HasBlocks(s, N) => HasBlocks(o, N \cup {c})
      BY <1>1, ChatCalls
<1>3. WriteFragment(s, f) = IF writes THEN Write(o, <<piece>>) ELSE o
      BY DEF WriteFragment
<1>4. <<piece>> \in Texts /\ piece.part = "args" /\ piece.item = c
      BY <1>1, ChatPieces DEF Argument
<1> HIDE DEF o, piece, c
<1>5. CASE ~writes
      BY <1>2, <1>3, <1>5 DEF c
<1>6. CASE writes
  <2>1. PICK y : ChatOK(o, m, y) BY <1>2
  <2>2. o.current # 0 /\ At(o, m, y) /\ DecentBut(y, 0) /\ Owned(o, y)
        BY <1>2, <1>6, <2>1 DEF ChatOK, Decent
  <2>3. /\ y.blocks[o.current].kind = "tool"
        /\ \A n \in 1..Len(y.blocks[o.current].text) : y.blocks[o.current].text[n].item = piece.item
        /\ \A d \in Calls : o.block[d] = o.current => d = piece.item
    <3>1. o.block[c] = o.current /\ o.block[c] # 0 BY <1>6, <2>2
    <3>2. \A d \in Calls : o.block[d] = o.current => d = c BY <1>1, <2>2, <3>1 DEF Owned
    <3>3. /\ y.blocks[o.block[c]].kind = "tool"
          /\ \A n \in 1..Len(y.blocks[o.block[c]].text) : y.blocks[o.block[c]].text[n].item = c
          BY <1>1, <2>2, <3>1, OwnBlock
    <3> QED BY <1>4, <3>1, <3>2, <3>3
  <2>4. Promise!Fits(piece, y.blocks[o.current].kind) /\ piece.part # "signature"
        BY <1>4, <2>3 DEF Promise!Fits
  <2>5. o \in ChatRec BY <2>1 DEF ChatOK
  <2>6. LET r == Write(o, <<piece>>)
        IN /\ r.block = o.block /\ r.dropped = o.dropped /\ r.stop = o.stop
           /\ r.started = o.started /\ \E x : ChatOK(r, m, x)
        BY <1>4, <2>2, <2>3, <2>4, <2>5, ChatWrites
  <2>7. \A N : HasBlocks(o, N) => HasBlocks(Write(o, <<piece>>), N)
        BY <2>6 DEF HasBlocks
  <2> QED BY <1>2, <1>3, <1>6, <2>6, <2>7 DEF c
<1> QED BY <1>5, <1>6

LEMMA FragmentType ==
  ASSUME ChatTypeOK, NEW s \in ChatRec, NEW f \in Fragments PROVE WriteFragment(s, f) \in ChatRec
<1> DEFINE c == f.call
           o == OpenChatCall(s, c)
           D == s.dropped \cup {c}
           b == OpenNext(s, "tool")
           bl == [b.block EXCEPT ![c] = b.current]
<1>1. c \in Calls /\ "tool" \in Kinds BY DEF Fragments, Kinds
<1>2. b \in ChatRec BY <1>1, ChatOpenType
<1>3. o = IF s.block[c] # 0 \/ c \in s.dropped THEN s
          ELSE IF c \in gate THEN [s EXCEPT !.dropped = D] ELSE [b EXCEPT !.block = bl]
      BY <1>2 DEF OpenChatCall, ChatRec
<1> HIDE DEF b
<1>4. D \in SUBSET Calls /\ bl \in [Calls -> Nat] BY <1>1, <1>2 DEF ChatRec
<1> HIDE DEF D, bl, o
<1>5. o \in ChatRec BY <1>2, <1>3, <1>4 DEF ChatRec
<1>6. WriteFragment(s, f) \in {o, Write(o, <<Argument(c, cup.args[c] + 1)>>)}
      BY DEF WriteFragment, o
<1>7. <<Argument(c, cup.args[c] + 1)>> \in Texts BY <1>1, ChatPieces
<1>8. Write(o, <<Argument(c, cup.args[c] + 1)>>) \in ChatRec BY <1>5, <1>7, ChatWriteType
<1> QED BY <1>5, <1>6, <1>8

\* The fragments of a chunk, one after the other.
LEMMA FragmentsFold ==
  ASSUME ChatTypeOK, NEW base \in ChatRec, NEW list \in Seq(Fragments)
  PROVE  \E t \in [0..Len(list) -> ChatRec] :
           /\ t[0] = base /\ t[Len(list)] = FoldLeft(WriteFragment, base, list)
           /\ \A n \in 1..Len(list) : t[n] = WriteFragment(t[n - 1], list[n])
<1> DEFINE k == Len(list)
           W == [p \in ChatRec \X Fragments |-> WriteFragment(p[1], p[2])]
<1>1. k \in Nat /\ DOMAIN list = 1..k /\ \A i \in 1..k : list[i] \in Fragments OBVIOUS
<1>2. W \in [ChatRec \X Fragments -> ChatRec] BY FragmentType
<1>2a. \A s \in ChatRec, f \in Fragments : W[<<s, f>>] = WriteFragment(s, f) OBVIOUS
<1> HIDE DEF W, k
<1>a. PICK f : IsFold(ChatRec, W, base, k, list, f) BY <1>1, <1>2, FoldExists
<1>3. /\ f \in [SUBSET (1..k) -> ChatRec]
      /\ \A s \in SUBSET (1..k) : f[s] = FoldStep(W, base, f, list, s)
      BY <1>a DEF IsFold
<1> DEFINE Iter(g) == g = [s \in SUBSET (1..k) |-> IF s = {} THEN base
                              ELSE WriteFragment(g[s \ {Max(s)}], list[Max(s)])]
           it == CHOOSE g : Iter(g)
<1>4. \A s \in SUBSET (1..k) : s # {} => Max(s) \in s BY <1>1, MaxIs
<1>5. Iter(f)
  <2>1. ASSUME NEW s \in SUBSET (1..k)
        PROVE  f[s] = IF s = {} THEN base ELSE WriteFragment(f[s \ {Max(s)}], list[Max(s)])
    <3>1. CASE s = {} BY <1>3, <3>1 DEF FoldStep
    <3>2. CASE s # {}
      <4>1. Max(s) \in 1..k /\ s \ {Max(s)} \in SUBSET (1..k) BY <1>4, <3>2
      <4>2. f[s \ {Max(s)}] \in ChatRec /\ list[Max(s)] \in Fragments BY <1>1, <1>3, <4>1
      <4>3. f[s] = W[<<f[s \ {Max(s)}], list[Max(s)]>>] BY <1>3, <3>2 DEF FoldStep
      <4> QED BY <1>2a, <3>2, <4>2, <4>3
    <3> QED BY <3>1, <3>2
  <2> QED BY <1>3, <2>1
<1>6. Iter(it) BY <1>5
<1>7. FoldLeft(WriteFragment, base, list) = it[1..k]
      BY <1>1 DEF FoldLeft, MapThenFoldSet
<1> HIDE DEF it
<1>8. /\ it[{}] = base
      /\ \A n \in 1..k : it[1..n] = WriteFragment(it[1..(n - 1)], list[n])
  <2>1. it[{}] = base BY <1>6
  <2>2. ASSUME NEW n \in 1..k PROVE it[1..n] = WriteFragment(it[1..(n - 1)], list[n])
    <3>1. 1..n \in SUBSET (1..k) /\ n \in 1..n /\ n \in Nat \ {0} BY <1>1
    <3>2. Max(1..n) = n /\ (1..n) \ {n} = 1..(n - 1) BY <3>1, MaxOfFirst
    <3>3. it[1..n] = WriteFragment(it[(1..n) \ {Max(1..n)}], list[Max(1..n)])
          BY <1>6, <3>1
    <3> QED BY <3>2, <3>3
  <2> QED BY <2>1, <2>2
<1> DEFINE t == [n \in 0..k |-> f[1..n]]
<1>9. f[{}] = base /\ \A n \in 1..k : f[1..n] = WriteFragment(f[1..(n - 1)], list[n])
  <2>1. f[{}] = base BY <1>5
  <2>2. ASSUME NEW n \in 1..k PROVE f[1..n] = WriteFragment(f[1..(n - 1)], list[n])
    <3>1. 1..n \in SUBSET (1..k) /\ n \in 1..n /\ n \in Nat \ {0} BY <1>1
    <3>2. Max(1..n) = n /\ (1..n) \ {n} = 1..(n - 1) BY <3>1, MaxOfFirst
    <3>3. f[1..n] = WriteFragment(f[(1..n) \ {Max(1..n)}], list[Max(1..n)])
          BY <1>5, <3>1
    <3> QED BY <3>2, <3>3
  <2> QED BY <2>1, <2>2
<1>10. f[1..k] = it[1..k] BY <1>1, <1>8, <1>9, AlikeAlong
<1>11. t \in [0..k -> ChatRec] /\ t[0] = base /\ t[k] = f[1..k]
       /\ \A n \in 1..k : t[n] = WriteFragment(t[n - 1], list[n])
  <2>1. \A n \in 0..k : 1..n \in SUBSET (1..k) BY <1>1
  <2>2. 0 \in 0..k /\ k \in 0..k /\ 1..0 = {} BY <1>1
  <2>3. \A n \in 1..k : n \in 0..k /\ n - 1 \in 0..k BY <1>1
  <2> QED BY <1>3, <1>9, <2>1, <2>2, <2>3
<1> QED BY <1>7, <1>10, <1>11 DEF k

\* The fragments of a chunk leave a stream in order.
LEMMA ChatFragments ==
  ASSUME ChatTypeOK, NEW s, NEW m, \E z : ChatOK(s, m, z), s.started,
         NEW list \in Seq(Fragments), NEW N \in SUBSET Calls, HasBlocks(s, N)
  PROVE  LET r == FoldLeft(WriteFragment, s, list)
         IN /\ r.stop = s.stop /\ r.started /\ \E z : ChatOK(r, m, z)
            /\ HasBlocks(r, N \cup {list[i].call : i \in DOMAIN list})
<1>1. s \in ChatRec BY DEF ChatOK
<1>2. PICK t \in [0..Len(list) -> ChatRec] :
        /\ t[0] = s /\ t[Len(list)] = FoldLeft(WriteFragment, s, list)
        /\ \A n \in 1..Len(list) : t[n] = WriteFragment(t[n - 1], list[n])
      BY <1>1, FragmentsFold
<1> DEFINE NN(n) == N \cup {list[i].call : i \in 1..n}
           Fine(n) == /\ t[n].stop = s.stop /\ t[n].started /\ \E z : ChatOK(t[n], m, z)
                      /\ HasBlocks(t[n], NN(n))
           Bad == {n \in 0..Len(list) : ~Fine(n)}
<1>3. Len(list) \in Nat /\ DOMAIN list = 1..Len(list)
      /\ \A i \in 1..Len(list) : list[i] \in Fragments /\ list[i].call \in Calls
      BY DEF Fragments
<1>4. Fine(0)
  <2>1. NN(0) = N OBVIOUS
  <2> QED BY <1>2, <2>1
<1>5. ASSUME NEW n \in 1..Len(list), Fine(n - 1) PROVE Fine(n)
  <2> DEFINE b == t[n - 1]
             f == list[n]
             M == NN(n - 1)
  <2>1. f \in Fragments /\ f.call \in Calls BY <1>3
  <2>2. M \in SUBSET Calls
    <3>1. \A i \in 1..(n - 1) : i \in 1..Len(list) BY <1>3
    <3> QED BY <1>3, <3>1
  <2>3. NN(n) = M \cup {f.call}
    <3>1. n \in Nat /\ n >= 1 BY <1>3
    <3>2. 1..n = (1..(n - 1)) \cup {n} BY <3>1
    <3> QED BY <3>2
  <2>4. t[n] = WriteFragment(b, f) BY <1>2
  <2>5. PICK z : ChatOK(b, m, z) BY <1>5
  <2>6. b.started /\ b.stop = s.stop /\ HasBlocks(b, M) BY <1>5
  <2> HIDE DEF NN
  <2> HIDE DEF b, f, M
  <2>7. LET r == WriteFragment(b, f)
        IN /\ r.stop = b.stop /\ r.started /\ \E y : ChatOK(r, m, y)
           /\ \A K \in SUBSET Calls : HasBlocks(b, K) => HasBlocks(r, K \cup {f.call})
        BY <2>1, <2>5, <2>6, ChatFragment
  <2>8. HasBlocks(t[n], NN(n)) BY <2>2, <2>3, <2>4, <2>6, <2>7
  <2> QED BY <2>4, <2>6, <2>7, <2>8
<1> HIDE DEF Fine
<1>6. Bad = {}
  <2>1. SUFFICES ASSUME Bad # {} PROVE FALSE OBVIOUS
  <2>2. Bad \subseteq Nat BY <1>3
  <2>3. PICK l \in Bad : \A n \in Bad : l <= n BY <2>1, <2>2, LeastNat
  <2>4. l \in 0..Len(list) /\ ~Fine(l) BY <2>3
  <2>5. l # 0 BY <1>4, <2>4
  <2>6. l \in 1..Len(list) /\ l - 1 \in 0..Len(list) /\ ~(l <= l - 1) BY <1>3, <2>4, <2>5
  <2>7. l - 1 \notin Bad
    <3> HIDE DEF Bad
    <3> QED BY <2>3, <2>6
  <2>8. Fine(l - 1) BY <2>6, <2>7
  <2> QED BY <1>5, <2>4, <2>6, <2>8
<1>7. Fine(Len(list)) BY <1>3, <1>6
<1> QED BY <1>2, <1>3, <1>7 DEF Fine

\* The first event of a stream.
LEMMA ChatStarts ==
  ASSUME NEW s, NEW m, NEW z, ChatOK(s, m, z)
  PROVE  LET r == StartMessage(s)
         IN /\ r.block = s.block /\ r.dropped = s.dropped /\ r.stop = s.stop /\ r.started
            /\ \E y : ChatOK(r, m, y)
<1> DEFINE r == StartMessage(s)
<1>1. s \in ChatRec /\ At(s, m, z) /\ Decent(z) /\ Owned(s, z) BY DEF ChatOK
<1>2. Keeps(r, s, {"started", "out"}) /\ r.started BY <1>1, StartOK
<1>3. PICK y : At(r, m, y) /\ y.blocks = z.blocks BY <1>1, StartOK
<1>4. r \in ChatRec BY <1>1, ChatStartType
<1> HIDE DEF r
<1>5. r.block = s.block /\ r.dropped = s.dropped /\ r.stop = s.stop
      BY <1>1, <1>2 DEF Keeps, ChatRec
<1>6. Decent(y) /\ Owned(r, y) BY <1>1, <1>3, <1>5 DEF Decent, DecentBut, Owned
<1> QED BY <1>2, <1>3, <1>4, <1>5, <1>6 DEF ChatOK, r

\* The stop reason of a chunk.
LEMMA ChatMarks ==
  ASSUME NEW s, NEW m, NEW z, ChatOK(s, m, z), NEW stop \in StopReasons
  PROVE  LET r == [s EXCEPT !.stop = stop]
         IN /\ r.block = s.block /\ r.dropped = s.dropped /\ r.stop = stop
            /\ ChatOK(r, m, z)
<1> DEFINE r == [s EXCEPT !.stop = stop]
<1>1. s \in ChatRec /\ At(s, m, z) /\ Decent(z) /\ Owned(s, z) BY DEF ChatOK
<1>2. r \in ChatRec /\ r.block = s.block /\ r.dropped = s.dropped /\ r.stop = stop
      BY <1>1 DEF ChatRec
<1>3. /\ r = [x \in DOMAIN r |-> r[x]] /\ DOMAIN r = DOMAIN s
      /\ r.started = s.started /\ r.next = s.next /\ r.current = s.current /\ r.kind = s.kind
      /\ r.out = s.out
      BY <1>1 DEF ChatRec
<1> HIDE DEF r
<1>4. At(r, m, z) BY <1>1, <1>3 DEF At
<1>5. Owned(r, z) BY <1>1, <1>2, OwnedKept
<1> QED BY <1>1, <1>2, <1>4, <1>5 DEF ChatOK, r

-----------------------------------------------------------------------------
ChatHeard == cs.stop = IF cup.finish = "none" THEN "none" ELSE FinishReason(cup.finish)

ChatEnded(z) ==
  /\ z \in Msg
  /\ z.phase = "failed" \/ (z.phase = "done" /\ z.stop = ChatStopReason(cs))

\* The client's message is on its way to one in which every block is in order,
\* and the calls' blocks are where the stream has them.
ChatInv ==
  /\ ChatTypeOK /\ message \in Msg /\ cs.out = <<>>
  /\ HasBlocks(cs, cup.named) /\ ChatHeard
  /\ \E z : /\ Delivers(wire, message, z)
            /\ IF cup.over THEN ChatEnded(z) ELSE ChatOK(cs, z, z)

\* What a handler sends.
LEMMA ChatSends ==
  ASSUME NEW s, NEW z, message \in Msg, ChatOK(s, message, z), ChatGoes(s)
  PROVE  /\ ChatOK(cs', z, z) /\ cs'.out = <<>> /\ Delivers(wire', message', z)
         /\ cs' \in ChatRec /\ cs'.stop = s.stop /\ cs'.block = s.block /\ cs'.dropped = s.dropped
         /\ message' = message /\ gate' = gate
<1>1. s \in ChatRec /\ At(s, message, z) /\ Decent(z) /\ Owned(s, z) BY DEF ChatOK
<1>2. cs' = [s EXCEPT !.out = <<>>] /\ wire' = s.out /\ message' = message /\ gate' = gate
      BY DEF ChatGoes, Send
<1>3. At(cs', z, z) BY <1>1, <1>2, ResetOK
<1>4. <<>> \in Seq(Events) OBVIOUS
<1>5. /\ cs' \in ChatRec /\ cs'.stop = s.stop /\ cs'.block = s.block /\ cs'.dropped = s.dropped
      /\ cs'.out = <<>>
      BY <1>1, <1>2, <1>4 DEF ChatRec
<1>6. Owned(cs', z) BY <1>1, <1>5 DEF Owned
<1>7. Delivers(wire', message', z) BY <1>1, <1>2 DEF At
<1> QED BY <1>1, <1>2, <1>3, <1>5, <1>6, <1>7 DEF ChatOK

LEMMA ChatInitially == ASSUME ChatInit PROVE ChatInv
<1>1. /\ wire = <<>> /\ message = NoMessage /\ gate \in GateSets
      /\ cs = [block |-> [c \in Calls |-> 0], dropped |-> {},
               started |-> FALSE, failed |-> FALSE, current |-> 0, kind |-> "none",
               next |-> 1, stop |-> "none", out |-> <<>>]
      /\ cup = [said |-> [p \in ChatParts |-> 0], args |-> [c \in Calls |-> 0], pieces |-> 0,
                named |-> {}, finish |-> "none", over |-> FALSE]
      BY DEF ChatInit, WireInit
<1>2. <<>> \in Seq(Events) /\ <<>> \in Seq(Block) /\ Len(<<>>) = 0 OBVIOUS
<1>3. cs \in ChatRec BY <1>1, <1>2 DEF ChatRec
<1>4. cup \in CupRec /\ gate \in SUBSET Calls
      BY <1>1, ZenChatAssumption DEF CupRec, FinishReasons, ZenChatAssumption
<1>5. message \in Msg /\ message.blocks = <<>> /\ message.phase = "none" /\ message.stop = "none"
      BY <1>1, <1>2 DEF Msg, NoMessage
<1>6. Delivers(<<>>, message, message) BY <1>5, DeliversNothing
<1>7. /\ cs = [x \in DOMAIN cs |-> cs[x]] /\ EmitterFields \subseteq DOMAIN cs
      /\ cs.out = <<>> /\ cs.started = FALSE /\ cs.next = 1 /\ cs.current = 0 /\ cs.kind = "none"
      /\ cs.stop = "none" /\ cs.block = [c \in Calls |-> 0] /\ cs.dropped = {}
      BY <1>1 DEF EmitterFields
<1>8. At(cs, message, message)
  <2>1. Delivers(cs.out, message, message) BY <1>6, <1>7
  <2>2. \A i \in 1..Len(message.blocks) : message.blocks[i].open <=> i = cs.current
        BY <1>2, <1>5
  <2>3. Len(message.blocks) = 0 BY <1>2, <1>5
  <2>4. cs.started \in BOOLEAN /\ message.phase = IF cs.started THEN "open" ELSE "none"
        BY <1>5, <1>7
  <2>5. cs.kind = IF cs.current = 0 THEN "none" ELSE message.blocks[cs.current].kind
        BY <1>7
  <2> QED BY <1>5, <1>7, <2>1, <2>2, <2>3, <2>4, <2>5 DEF At
<1>9. Decent(message) /\ Owned(cs, message)
      BY <1>2, <1>5, <1>7 DEF Decent, DecentBut, Owned
<1>10. HasBlocks(cs, cup.named) /\ ChatHeard /\ ~cup.over
      BY <1>1, <1>7 DEF HasBlocks, ChatHeard
<1>11. Delivers(wire, message, message) BY <1>1, <1>6
<1> QED BY <1>3, <1>4, <1>5, <1>7, <1>8, <1>9, <1>10, <1>11 DEF ChatInv, ChatTypeOK, ChatOK

LEMMA ChatChunkType ==
  ASSUME ChatInv, NEW said \in SUBSET ChatParts, NEW fragments \in Seq(Fragments),
         NEW finish \in FinishReasons, Chunk(said, fragments, finish)
  PROVE  /\ cup' \in CupRec /\ cup'.over = cup.over
         /\ cup'.named = cup.named \cup {fragments[i].call : i \in DOMAIN fragments}
         /\ cup'.finish = IF finish = "none" THEN cup.finish ELSE finish
<1> DEFINE argued == {fragments[i].call : i \in {j \in DOMAIN fragments : fragments[j].args}}
           sd == [p \in ChatParts |-> IF p \in said THEN cup.said[p] + 1 ELSE cup.said[p]]
           ar == [c \in Calls |-> IF c \in argued THEN cup.args[c] + 1 ELSE cup.args[c]]
           pc == cup.pieces + Cardinality(said) + Cardinality(argued)
           nm == cup.named \cup {fragments[i].call : i \in DOMAIN fragments}
           fi == IF finish = "none" THEN cup.finish ELSE finish
<1>1. cup \in CupRec BY DEF ChatInv, ChatTypeOK
<1>2. \A i \in DOMAIN fragments : fragments[i].call \in Calls
  <2>1. \A i \in DOMAIN fragments : fragments[i] \in Fragments OBVIOUS
  <2> QED BY <2>1 DEF Fragments
<1>3. Cardinality(said) \in Nat
  <2>1. IsFiniteSet(ChatParts)
    <3>1. IsFiniteSet({"thinking"}) /\ IsFiniteSet({"thinking"} \cup {"text"})
          BY FS_Singleton, FS_AddElement
    <3>2. ChatParts = {"thinking"} \cup {"text"} BY DEF ChatParts
    <3> QED BY <3>1, <3>2
  <2>2. IsFiniteSet(said) BY <2>1, FS_Subset
  <2> QED BY <2>2, FS_CardinalityType
<1>4. Cardinality(argued) \in Nat
  <2> DEFINE D == {j \in DOMAIN fragments : fragments[j].args}
  <2>1. DOMAIN fragments = 1..Len(fragments) /\ Len(fragments) \in Nat OBVIOUS
  <2>2. IsFiniteSet(1..Len(fragments)) BY <2>1, FS_Interval
  <2>3. IsFiniteSet(D) BY <2>1, <2>2, FS_Subset
  <2>4. argued = {fragments[i].call : i \in D} OBVIOUS
  <2> HIDE DEF D
  <2>5. IsFiniteSet(argued)
    <3> DEFINE g == [i \in D |-> fragments[i].call]
    <3>1. g \in Surjection(D, argued) BY <2>4 DEF Surjection
    <3> QED BY <2>3, <3>1, FS_Surjection DEF ExistsSurjection
  <2> QED BY <2>5, FS_CardinalityType
<1>5. /\ sd \in [ChatParts -> Nat] /\ ar \in [Calls -> Nat] /\ pc \in Nat
      /\ nm \in SUBSET Calls /\ fi \in FinishReasons
      BY <1>1, <1>2, <1>3, <1>4 DEF CupRec
<1>6. cup' = [cup EXCEPT !.said = sd, !.args = ar, !.pieces = pc, !.named = nm, !.finish = fi]
      BY <1>1 DEF Chunk, CupRec
<1> HIDE DEF sd, ar, pc, nm, fi
<1>7. cup' \in CupRec /\ cup'.over = cup.over /\ cup'.named = nm /\ cup'.finish = fi
      BY <1>1, <1>5, <1>6 DEF CupRec
<1> QED BY <1>7 DEF nm, fi

LEMMA FinishTells == \A f \in FinishReasons : f # "none" => FinishReason(f) \in StopReasons
BY DEF FinishReasons, FinishReason, StopReasons

LEMMA ChatChunk ==
  ASSUME ChatInv, NEW said \in SUBSET ChatParts, NEW fragments \in Seq(Fragments),
         NEW finish \in IF cup.finish = "none" THEN FinishReasons ELSE {"none"},
         Chunk(said, fragments, finish)
  PROVE  ChatInv' /\ message' = message
<1> DEFINE s1 == StartMessage(cs)
           s2 == WritePart(s1, "thinking", said)
           s3 == WritePart(s2, "text", said)
           s4 == FoldLeft(WriteFragment, s3, fragments)
           s5 == IF finish = "none" THEN s4 ELSE [s4 EXCEPT !.stop = FinishReason(finish)]
           M == cup.named \cup {fragments[i].call : i \in DOMAIN fragments}
<1>1. /\ ChatTypeOK /\ message \in Msg /\ cs.out = <<>> /\ HasBlocks(cs, cup.named) /\ ChatHeard
      /\ ~cup.over /\ wire = <<>>
      BY DEF ChatInv, Chunk, ChatListening
<1>2. PICK z : Delivers(wire, message, z) /\ ChatOK(cs, z, z) BY <1>1 DEF ChatInv
<1>3. z = message BY <1>1, <1>2, NothingLeft
<1>4. ChatOK(cs, message, message) BY <1>2, <1>3
<1>5. /\ s1.block = cs.block /\ s1.dropped = cs.dropped /\ s1.stop = cs.stop /\ s1.started
      /\ \E y : ChatOK(s1, message, y)
      BY <1>4, ChatStarts
<1>6. "thinking" \in ChatParts /\ "text" \in ChatParts BY DEF ChatParts
<1> HIDE DEF s1
<1>7. /\ s2.block = s1.block /\ s2.dropped = s1.dropped /\ s2.stop = s1.stop /\ s2.started
      /\ \E y : ChatOK(s2, message, y)
      BY <1>1, <1>5, <1>6, ChatPart
<1> HIDE DEF s2
<1>8. /\ s3.block = s2.block /\ s3.dropped = s2.dropped /\ s3.stop = s2.stop /\ s3.started
      /\ \E y : ChatOK(s3, message, y)
      BY <1>1, <1>6, <1>7, ChatPart
<1>9. cup.named \in SUBSET Calls /\ cup.finish \in FinishReasons BY <1>1 DEF ChatTypeOK, CupRec
<1> HIDE DEF s3
<1>10. HasBlocks(s3, cup.named) BY <1>1, <1>5, <1>7, <1>8 DEF HasBlocks
<1>11. s4.stop = s3.stop /\ \E y : ChatOK(s4, message, y) /\ HasBlocks(s4, M)
       BY <1>1, <1>8, <1>9, <1>10, ChatFragments
<1>12. ChatGoes(s5)
       BY DEF Chunk, s1, s2, s3
<1>13. finish \in FinishReasons BY <1>9 DEF FinishReasons
<1>14. /\ cup' \in CupRec /\ cup'.over = cup.over /\ cup'.named = M
       /\ cup'.finish = IF finish = "none" THEN cup.finish ELSE finish
       BY <1>13, ChatChunkType
<1> HIDE DEF s4, M
<1>15. /\ \E y : ChatOK(s5, message, y)
       /\ HasBlocks(s5, M)
       /\ s5.stop = IF finish = "none" THEN s4.stop ELSE FinishReason(finish)
  <2>1. CASE finish = "none" BY <1>11, <2>1
  <2>2. CASE finish # "none"
    <3>1. FinishReason(finish) \in StopReasons BY <1>13, <2>2, FinishTells
    <3>2. PICK y : ChatOK(s4, message, y) BY <1>11
    <3>3. /\ s5.block = s4.block /\ s5.dropped = s4.dropped /\ s5.stop = FinishReason(finish)
          /\ ChatOK(s5, message, y)
          BY <2>2, <3>1, <3>2, ChatMarks
    <3> QED BY <1>11, <2>2, <3>3 DEF HasBlocks
  <2> QED BY <2>1, <2>2
<1> HIDE DEF s5
<1>16. PICK y : ChatOK(s5, message, y) BY <1>15
<1>17. /\ ChatOK(cs', y, y) /\ cs'.out = <<>> /\ Delivers(wire', message', y)
       /\ cs' \in ChatRec /\ cs'.stop = s5.stop /\ cs'.block = s5.block /\ cs'.dropped = s5.dropped
       /\ message' = message /\ gate' = gate
       BY <1>1, <1>12, <1>16, ChatSends
<1>18. ChatTypeOK' BY <1>1, <1>14, <1>17 DEF ChatTypeOK
<1>19. HasBlocks(cs, cup.named)' BY <1>14, <1>15, <1>17 DEF HasBlocks
<1>20. ChatHeard'
  <2>1. s4.stop = cs.stop BY <1>5, <1>7, <1>8, <1>11
  <2>2. cs.stop = IF cup.finish = "none" THEN "none" ELSE FinishReason(cup.finish)
        BY <1>1 DEF ChatHeard
  <2> QED BY <1>14, <1>15, <1>17, <2>1, <2>2 DEF ChatHeard, FinishReason
<1> QED BY <1>1, <1>14, <1>17, <1>18, <1>19, <1>20 DEF ChatInv

LEMMA ChatFails ==
  ASSUME ChatInv, NEW s, NEW z, ChatOK(s, message, z), ~cup.over,
         s.block = cs.block, s.dropped = cs.dropped, s.stop = cs.stop,
         cup' = [cup EXCEPT !.over = TRUE], ChatGoes(EmitError(s))
  PROVE  ChatInv' /\ message' = message
<1> DEFINE r == EmitError(s)
<1>1. /\ ChatTypeOK /\ message \in Msg /\ HasBlocks(cs, cup.named) /\ ChatHeard
      BY DEF ChatInv
<1>2. s \in ChatRec /\ At(s, message, z) BY DEF ChatOK
<1>3. Keeps(r, s, {"failed", "out"}) BY <1>2, ErrorOK
<1>4. PICK y : /\ Delivers(r.out, message, y) /\ y \in Msg /\ y.phase = "failed" /\ y.stop = "none"
      BY <1>2, ErrorOK
<1>5. r \in ChatRec
  <2>1. Emit(s, ErrorEvent) \in ChatRec BY <1>2, EventsOf, ChatEmitType
  <2> QED BY <2>1 DEF EmitError, ChatRec
<1>6. cs' = [r EXCEPT !.out = <<>>] /\ wire' = r.out /\ message' = message /\ gate' = gate
      BY DEF ChatGoes, Send
<1> HIDE DEF r
<1>7. r.block = s.block /\ r.dropped = s.dropped /\ r.stop = s.stop
      BY <1>2, <1>3 DEF Keeps, ChatRec
<1>8. <<>> \in Seq(Events) OBVIOUS
<1>9. /\ cs' \in ChatRec /\ cs'.out = <<>>
      /\ cs'.block = cs.block /\ cs'.dropped = cs.dropped /\ cs'.stop = cs.stop
      BY <1>5, <1>6, <1>7, <1>8 DEF ChatRec
<1>10. cup' \in CupRec /\ cup'.over /\ cup'.named = cup.named /\ cup'.finish = cup.finish
       BY <1>1 DEF ChatTypeOK, CupRec
<1>11. ChatTypeOK' BY <1>1, <1>6, <1>9, <1>10 DEF ChatTypeOK
<1>12. HasBlocks(cs, cup.named)' /\ ChatHeard'
       BY <1>1, <1>6, <1>9, <1>10 DEF HasBlocks, ChatHeard
<1>13. ChatEnded(y)' BY <1>4 DEF ChatEnded
<1>14. Delivers(wire', message', y) BY <1>4, <1>6
<1> QED BY <1>1, <1>6, <1>9, <1>10, <1>11, <1>12, <1>13, <1>14 DEF ChatInv

LEMMA ChatConcludes ==
  ASSUME ChatInv, ChatOK(cs, message, message), ~cup.over,
         cup' = [cup EXCEPT !.over = TRUE], ChatGoes(Conclude(cs, ChatStopReason(cs)))
  PROVE  ChatInv' /\ message' = message
<1> DEFINE stop == ChatStopReason(cs)
           r == Conclude(cs, stop)
<1>1. /\ ChatTypeOK /\ message \in Msg /\ HasBlocks(cs, cup.named) /\ ChatHeard
      BY DEF ChatInv
<1>2. cs \in ChatRec /\ At(cs, message, message) /\ Decent(message) /\ Owned(cs, message)
      BY DEF ChatOK
<1>3. stop \in StopReasons
      BY <1>2 DEF ChatStopReason, ChatRec, StopReasons
<1>4. stop = "tool_use" => ToolShown(message)
  <2>1. SUFFICES ASSUME stop = "tool_use" PROVE ToolShown(message) OBVIOUS
  <2>2. PICK c \in Calls : cs.block[c] # 0 BY <2>1 DEF ChatStopReason
  <2>3. cs.block[c] \in 1..Len(message.blocks) /\ message.blocks[cs.block[c]].kind = "tool"
        BY <1>2, <2>2 DEF Owned
  <2>4. DOMAIN message.blocks = 1..Len(message.blocks) BY <1>1, MsgFields
  <2> QED BY <2>3, <2>4 DEF ToolShown
<1>5. Filled(message) BY <1>1, <1>2, DecentFilled
<1> HIDE DEF stop
<1>6. Keeps(r, cs, {"started", "current", "kind", "out"})
      BY <1>2, <1>3, <1>4, <1>5, ConcludeOK
<1>7. PICK y : Delivers(r.out, message, y) /\ y \in Msg /\ y.phase = "done" /\ y.stop = stop
      BY <1>2, <1>3, <1>4, <1>5, ConcludeOK
<1>8. r \in ChatRec
  <2> DEFINE a == StartMessage(cs)
             b == CloseCurrent(a)
             c == Emit(b, MessageDelta(stop))
  <2>1. a \in ChatRec BY <1>2, ChatStartType
  <2> HIDE DEF a
  <2>2. b \in ChatRec
    <3>1. a.current \in Nat BY <2>1 DEF ChatRec
    <3>2. Emit(a, BlockStop(a.current)) \in ChatRec BY <2>1, <3>1, EventsOf, ChatEmitType
    <3> QED BY <2>1, <3>2 DEF CloseCurrent, ChatRec
  <2> HIDE DEF b
  <2>3. c \in ChatRec BY <1>3, <2>2, EventsOf, ChatEmitType
  <2> HIDE DEF c
  <2>4. Emit(c, MessageStop) \in ChatRec BY <2>3, EventsOf, ChatEmitType
  <2> QED BY <2>4 DEF Conclude, a, b, c
<1>9. cs' = [r EXCEPT !.out = <<>>] /\ wire' = r.out /\ message' = message /\ gate' = gate
      BY DEF ChatGoes, Send, stop
<1> HIDE DEF r
<1>10. r.block = cs.block /\ r.dropped = cs.dropped /\ r.stop = cs.stop
       BY <1>2, <1>6 DEF Keeps, ChatRec
<1>11. <<>> \in Seq(Events) OBVIOUS
<1>12. /\ cs' \in ChatRec /\ cs'.out = <<>>
       /\ cs'.block = cs.block /\ cs'.dropped = cs.dropped /\ cs'.stop = cs.stop
       BY <1>8, <1>9, <1>10, <1>11 DEF ChatRec
<1>13. cup' \in CupRec /\ cup'.over /\ cup'.named = cup.named /\ cup'.finish = cup.finish
       BY <1>1 DEF ChatTypeOK, CupRec
<1>14. ChatTypeOK' BY <1>1, <1>9, <1>12, <1>13 DEF ChatTypeOK
<1>15. HasBlocks(cs, cup.named)' /\ ChatHeard'
       BY <1>1, <1>9, <1>12, <1>13 DEF HasBlocks, ChatHeard
<1>16. ChatEnded(y)' BY <1>7, <1>12 DEF ChatEnded, ChatStopReason, stop
<1>17. Delivers(wire', message', y) BY <1>7, <1>9
<1> QED BY <1>1, <1>9, <1>12, <1>13, <1>14, <1>15, <1>16, <1>17 DEF ChatInv

\* A step of the translator keeps its invariant, and is a step of the message
\* the client is promised.
LEMMA ChatStep == ASSUME ChatInv, ChatNext PROVE ChatInv' /\ (Promise!MSNext \/ message' = message)
<1>1. CASE Take /\ UNCHANGED <<cs, gate, cup>>
  <2>1. PICK z : Delivers(wire, message, z) /\ (IF cup.over THEN ChatEnded(z) ELSE ChatOK(cs, z, z))
        BY DEF ChatInv
  <2>2. message \in Msg BY DEF ChatInv
  <2>3. Promise!MSNext /\ message' \in Msg /\ Delivers(wire', message', z)
        BY <1>1, <2>1, <2>2, TakePromised
  <2>4. /\ ChatTypeOK' /\ HasBlocks(cs, cup.named)' /\ ChatHeard' /\ cs'.out = <<>> /\ cup' = cup
        /\ cs' = cs
        BY <1>1 DEF ChatInv, ChatTypeOK, HasBlocks, ChatHeard
  <2>5. ChatEnded(z) => ChatEnded(z)' BY <2>4 DEF ChatEnded, ChatStopReason
  <2> QED BY <2>1, <2>3, <2>4, <2>5 DEF ChatInv
<1>2. ASSUME NEW said \in SUBSET ChatParts, NEW fragments \in BoundedSeq(Fragments, MaxChunk),
             NEW finish \in IF cup.finish = "none" THEN FinishReasons ELSE {"none"},
             Chunk(said, fragments, finish)
      PROVE  ChatInv' /\ message' = message
  <2>1. fragments \in Seq(Fragments) BY ZenChatAssumption, BoundedIsSeq DEF ZenChatAssumption
  <2> QED BY <1>2, <2>1, ChatChunk
<1>3. ASSUME ChatListening PROVE ~cup.over /\ ChatOK(cs, message, message)
  <2>1. ~cup.over /\ wire = <<>> BY <1>3 DEF ChatListening
  <2>2. PICK z : Delivers(wire, message, z) /\ ChatOK(cs, z, z) BY <2>1 DEF ChatInv
  <2>3. z = message BY <2>1, <2>2, NothingLeft
  <2> QED BY <2>1, <2>2, <2>3
<1>4. CASE ChatError
  <2>1. /\ ~cup.over /\ ChatOK(cs, message, message)
        /\ cup' = [cup EXCEPT !.over = TRUE] /\ ChatGoes(EmitError(StartMessage(cs)))
        BY <1>3, <1>4 DEF ChatError
  <2>2. LET r == StartMessage(cs)
        IN /\ r.block = cs.block /\ r.dropped = cs.dropped /\ r.stop = cs.stop /\ r.started
           /\ \E y : ChatOK(r, message, y)
        BY <2>1, ChatStarts
  <2> QED BY <2>1, <2>2, ChatFails
<1>5. ASSUME NEW how \in {"[DONE]", "eof", "error"}, ChatEnds(how) PROVE ChatInv' /\ message' = message
  <2>1. /\ ~cup.over /\ ChatOK(cs, message, message) /\ cup' = [cup EXCEPT !.over = TRUE]
        BY <1>3, <1>5 DEF ChatEnds
  <2>2. CASE how = "error" \/ (how = "eof" /\ cs.stop = "none")
    <3>1. ChatGoes(EmitError(cs)) BY <1>5, <2>2 DEF ChatEnds
    <3> QED BY <2>1, <3>1, ChatFails
  <2>3. CASE ~(how = "error" \/ (how = "eof" /\ cs.stop = "none"))
    <3>1. ChatGoes(Conclude(cs, ChatStopReason(cs))) BY <1>5, <2>3 DEF ChatEnds
    <3> QED BY <2>1, <3>1, ChatConcludes
  <2> QED BY <2>2, <2>3
<1> QED BY <1>1, <1>2, <1>4, <1>5 DEF ChatNext

\* And the stop reason told is the one of the turn.
LEMMA ChatTold == ASSUME ChatInv PROVE ChatStop
<1>1. SUFFICES ASSUME cup.over, wire = <<>>, message.phase = "done"
               PROVE  message.stop = CASE cup.finish = "length" -> "max_tokens"
                        [] cup.finish = "content_filter" -> "refusal"
                        [] OTHER -> IF cup.named \ gate # {} THEN "tool_use" ELSE "end_turn"
      BY DEF ChatStop, ChatConcluded
<1>2. PICK z : Delivers(wire, message, z) /\ ChatEnded(z) BY <1>1 DEF ChatInv
<1>3. z = message BY <1>1, <1>2, NothingLeft
<1>4. message.stop = ChatStopReason(cs) BY <1>1, <1>2, <1>3 DEF ChatEnded
<1>5. (\E c \in Calls : cs.block[c] # 0) <=> cup.named \ gate # {}
      BY DEF ChatInv, HasBlocks, ChatTypeOK, CupRec
<1>6. /\ cs.stop = IF cup.finish = "none" THEN "none" ELSE FinishReason(cup.finish)
      /\ cup.finish \in FinishReasons
      BY DEF ChatInv, ChatHeard, ChatTypeOK, CupRec
<1> QED BY <1>4, <1>5, <1>6 DEF ChatStopReason, FinishReason, FinishReasons

LEMMA ChatStill == ASSUME ChatInv, UNCHANGED <<wire, message, cs, gate, cup>> PROVE ChatInv'
BY DEF ChatInv, ChatTypeOK, HasBlocks, ChatHeard, ChatEnded, ChatStopReason

-----------------------------------------------------------------------------
(* Cloud Code's translator *)

CloudRec ==
  [started : BOOLEAN, index : Nat, current : Kinds \cup {"none"}, signature : Nat,
   stop : StopReasons \cup {"none"}, out : Seq(Events)]
CloudPieces == [kind : CloudKinds, n : Nat]
Finishes == {"none", "STOP", "MAX_TOKENS", "SAFETY"}
CloudTypeOK ==
  conv \in CloudRec /\ parts \in Seq(CloudPieces) /\ cutoff \in Finishes /\ ended \in BOOLEAN

\* The converter as a block emitter.
Em(s) ==
  [started |-> s.started, failed |-> FALSE,
   current |-> IF s.current = "none" THEN 0 ELSE s.index, kind |-> s.current,
   next |-> IF s.current = "none" THEN s.index ELSE s.index + 1, stop |-> s.stop, out |-> s.out]

\* Every block is in order; block k may still be without its text.
CloudOK(s, m, z, k) ==
  /\ s \in CloudRec /\ At(Em(s), m, z)
  /\ \A i \in 1..Len(z.blocks) :
       /\ i # k /\ z.blocks[i].kind \in {"text", "thinking"} => z.blocks[i].text # <<>>
       /\ Promise!WellFormed(z.blocks[i])
  /\ s.current # "none" => Unsigned(z.blocks[s.index])

\* The converter knows whether it has shown a call.
ToolsKnown(s, z) == s.stop = "tool_use" <=> ToolShown(z)

\* What the converter says of a finish reason.
Heard(finish) ==
  CASE finish = "STOP" -> "end_turn" [] finish = "MAX_TOKENS" -> "max_tokens" [] OTHER -> "none"

LEMMA EmSpeaks ==
  ASSUME NEW s \in CloudRec, NEW w \in Seq(Events)
  PROVE  /\ [s EXCEPT !.out = w] \in CloudRec
         /\ Em([s EXCEPT !.out = w]) = [Em(s) EXCEPT !.out = w]
<1>1. [s EXCEPT !.out = w] \in CloudRec BY DEF CloudRec
<1>2. Em([s EXCEPT !.out = w]) = [Em(s) EXCEPT !.out = w]
  <2> DEFINE r == [s EXCEPT !.out = w]
  <2>1. /\ r.started = s.started /\ r.current = s.current /\ r.index = s.index
        /\ r.stop = s.stop /\ r.out = w
        BY DEF CloudRec
  <2> HIDE DEF r
  <2>2. Em(r) = [started |-> s.started, failed |-> FALSE,
                 current |-> IF s.current = "none" THEN 0 ELSE s.index, kind |-> s.current,
                 next |-> IF s.current = "none" THEN s.index ELSE s.index + 1, stop |-> s.stop,
                 out |-> w]
        BY <2>1 DEF Em
  <2> DEFINE cu == IF s.current = "none" THEN 0 ELSE s.index
             nx == IF s.current = "none" THEN s.index ELSE s.index + 1
             sa == s.started
             ki == s.current
             sp == s.stop
             so == s.out
             no == FALSE
  <2>a. Em(s) = [started |-> sa, failed |-> no, current |-> cu, kind |-> ki, next |-> nx,
                 stop |-> sp, out |-> so]
        BY DEF Em
  <2> HIDE DEF cu, nx, sa, ki, sp, so, no
  <2>b. [Em(s) EXCEPT !.out = w] = [started |-> sa, failed |-> no, current |-> cu, kind |-> ki,
                                    next |-> nx, stop |-> sp, out |-> w]
        BY <2>a
  <2>3. [Em(s) EXCEPT !.out = w] =
                [started |-> s.started, failed |-> FALSE,
                 current |-> IF s.current = "none" THEN 0 ELSE s.index, kind |-> s.current,
                 next |-> IF s.current = "none" THEN s.index ELSE s.index + 1, stop |-> s.stop,
                 out |-> w]
        BY <2>b DEF cu, nx, sa, ki, sp, no
  <2> QED BY <2>2, <2>3 DEF r
<1> QED BY <1>1, <1>2

LEMMA AddsIs ==
  ASSUME NEW s \in CloudRec, NEW e \in Events
  PROVE  /\ Adds(s, <<e>>) \in CloudRec /\ Adds(s, <<e>>) = [s EXCEPT !.out = Append(s.out, e)]
         /\ Em(Adds(s, <<e>>)) = Emit(Em(s), e)
<1> DEFINE w == Append(s.out, e)
<1>1. w \in Seq(Events) /\ s.out \o <<e>> = w BY DEF CloudRec
<1> HIDE DEF w
<1>2. Adds(s, <<e>>) = [s EXCEPT !.out = w] BY <1>1 DEF Adds
<1>3. [s EXCEPT !.out = w] \in CloudRec BY <1>1 DEF CloudRec
<1>4. Emit(Em(s), e) = [Em(s) EXCEPT !.out = w] BY DEF Emit, Em, w
<1>5. Em([s EXCEPT !.out = w]) = [Em(s) EXCEPT !.out = w] BY <1>1, EmSpeaks
<1> QED BY <1>2, <1>3, <1>4, <1>5 DEF w

LEMMA CloudEmitter ==
  ASSUME NEW s, NEW m, NEW z, NEW k, CloudOK(s, m, z, k)
  PROVE  /\ s.current = "none" => s.index = Len(z.blocks) + 1
         /\ s.current # "none" => /\ s.index = Len(z.blocks) /\ s.index \in 1..Len(z.blocks)
                                  /\ z.blocks[s.index].kind = s.current /\ s.started
         /\ Em(s).current # 0 <=> s.current # "none"
         /\ z \in Msg /\ Len(z.blocks) \in Nat
<1>1. s \in CloudRec /\ At(Em(s), m, z) BY DEF CloudOK
<1>2. z \in Msg /\ Len(z.blocks) \in Nat BY <1>1, MsgFields DEF At
<1>3. /\ Em(s).next = Len(z.blocks) + 1 /\ Em(s).current \in {0, Len(z.blocks)}
      /\ Em(s).kind = IF Em(s).current = 0 THEN "none" ELSE z.blocks[Em(s).current].kind
      /\ Em(s).current # 0 => Em(s).started
      BY <1>1 DEF At
<1>4. /\ Em(s).next = IF s.current = "none" THEN s.index ELSE s.index + 1
      /\ Em(s).current = IF s.current = "none" THEN 0 ELSE s.index
      /\ Em(s).kind = s.current /\ Em(s).started = s.started
      BY DEF Em
<1>5. s.index \in Nat BY <1>1 DEF CloudRec
<1>6. CASE s.current = "none" BY <1>2, <1>3, <1>4, <1>5, <1>6
<1>7. CASE s.current # "none"
  <2>1. Em(s).current # 0 BY <1>3, <1>4, <1>7
  <2>2. s.index = Len(z.blocks) /\ s.index \in 1..Len(z.blocks) BY <1>2, <1>3, <1>4, <1>5, <1>7, <2>1
  <2> QED BY <1>2, <1>3, <1>4, <1>7, <2>1, <2>2
<1> QED BY <1>6, <1>7

LEMMA SameShown ==
  ASSUME NEW y \in Msg, NEW z \in Msg, Len(y.blocks) = Len(z.blocks),
         \A i \in 1..Len(z.blocks) : y.blocks[i].kind = z.blocks[i].kind
  PROVE  ToolShown(y) <=> ToolShown(z)
<1>1. DOMAIN y.blocks = 1..Len(y.blocks) /\ DOMAIN z.blocks = 1..Len(z.blocks) BY MsgFields
<1> QED BY <1>1 DEF ToolShown

-----------------------------------------------------------------------------
\* The block that the converter writes to, 0 for none.
OpenOf(s) == IF s.current = "none" THEN 0 ELSE s.index

\* y is z with block k signed, if it thinks and there is a signature.
SignedFrom(y, z, k, sig) ==
  /\ Len(y.blocks) = Len(z.blocks)
  /\ \A i \in 1..Len(z.blocks) :
       /\ y.blocks[i].kind = z.blocks[i].kind
       /\ y.blocks[i].text = IF i = k /\ z.blocks[i].kind = "thinking" /\ sig # 0
                             THEN z.blocks[i].text \o <<Signature(sig)>> ELSE z.blocks[i].text

\* y is z so closed, and a block more.
OpenedFrom(y, z, s, kind) ==
  \E c : /\ SignedFrom(c, z, OpenOf(s), s.signature) /\ Len(y.blocks) = Len(z.blocks) + 1
         /\ y.blocks[Len(z.blocks) + 1].kind = kind /\ y.blocks[Len(z.blocks) + 1].text = <<>>
         /\ \A i \in 1..Len(z.blocks) : SameBlock(y, c, i)

\* y is z with a piece more in its last block.
WrittenFrom(y, z, piece) ==
  /\ Len(y.blocks) = Len(z.blocks) /\ Len(z.blocks) \in Nat \ {0}
  /\ LastBlock(y).kind = LastBlock(z).kind /\ LastBlock(y).text = LastBlock(z).text \o <<piece>>
  /\ \A i \in 1..(Len(z.blocks) - 1) : SameBlock(y, z, i)

\* A block is closed, with its signature if it has one.
LEMMA CloudCloses ==
  ASSUME NEW s, NEW m, NEW z, CloudOK(s, m, z, 0), s.started
  PROVE  LET r == CloseCloud(s)
         IN /\ r.current = "none" /\ r.stop = s.stop /\ r.started
            /\ \E y : /\ CloudOK(r, m, y, 0) /\ (ToolShown(y) <=> ToolShown(z))
                      /\ SignedFrom(y, z, OpenOf(s), s.signature)
<1>1. CASE s.current = "none"
  <2>1. CloseCloud(s) = s BY <1>1 DEF CloseCloud
  <2>2. 0 \notin 1..Len(z.blocks) OBVIOUS
  <2>3. SignedFrom(z, z, OpenOf(s), s.signature) BY <1>1, <2>2 DEF SignedFrom, OpenOf
  <2> QED BY <1>1, <2>1, <2>3
<1>2. CASE s.current # "none"
  <2> DEFINE signed == s.current = "thinking" /\ s.signature # 0
             text == <<Signature(s.signature)>>
             k == s.index
             a == IF signed THEN Adds(s, <<BlockDelta(k, text)>>) ELSE s
             b == Adds(a, <<BlockStop(k)>>)
             r == CloseCloud(s)
  <2>1. /\ s \in CloudRec /\ At(Em(s), m, z) /\ Unsigned(z.blocks[k])
        /\ \A i \in 1..Len(z.blocks) :
             /\ z.blocks[i].kind \in {"text", "thinking"} => z.blocks[i].text # <<>>
             /\ Promise!WellFormed(z.blocks[i])
        BY <1>2, CloudEmitter DEF CloudOK
  <2>2. /\ k = Len(z.blocks) /\ k \in 1..Len(z.blocks) /\ z.blocks[k].kind = s.current
        /\ Em(s).current = k /\ k # 0 /\ k \in Nat /\ z \in Msg
        BY <1>2, <2>1, CloudEmitter DEF Em
  <2>3. text \in Texts /\ text # <<>> /\ Len(text) = 1 /\ text[1].part = "signature"
        BY <2>1 DEF Signature, Texts, CloudRec, PieceParts
  <2>4. Promise!Fits(text[1], "thinking") BY <2>3 DEF Promise!Fits
  <2>5. BlockDelta(k, text) \in Events /\ BlockStop(k) \in Events BY <2>2, <2>3, EventsOf
  <2> HIDE DEF text
  <2>6. a \in CloudRec /\ a.current = s.current /\ a.index = k /\ a.stop = s.stop /\ a.started
        /\ a.signature = s.signature
    <3>1. CASE signed
      <4>1. a = [s EXCEPT !.out = Append(s.out, BlockDelta(k, text))] /\ a \in CloudRec
            BY <2>1, <2>5, <3>1, AddsIs
      <4> HIDE DEF a
      <4> QED BY <2>1, <4>1 DEF CloudRec
    <3>2. CASE ~signed BY <2>1, <3>2
    <3> QED BY <3>1, <3>2
  <2>7. \E y : /\ At(Em(a), m, y) /\ Len(y.blocks) = Len(z.blocks)
               /\ \A i \in 1..Len(z.blocks) :
                    /\ y.blocks[i].kind = z.blocks[i].kind
                    /\ y.blocks[i].kind \in {"text", "thinking"} => y.blocks[i].text # <<>>
                    /\ Promise!WellFormed(y.blocks[i])
                    /\ y.blocks[i].text = IF i = k /\ signed THEN z.blocks[i].text \o text
                                          ELSE z.blocks[i].text
    <3>1. CASE signed
      <4>1. Em(a) = Write(Em(s), text)
        <5>1. Em(a) = Emit(Em(s), BlockDelta(k, text)) BY <2>1, <2>5, <3>1, AddsIs
        <5> QED BY <2>2, <5>1 DEF Write
      <4>2. z.blocks[k].text \in Texts
        <5>1. z.blocks[k] \in Block BY <2>2, MsgFields
        <5> QED BY <5>1 DEF Block
      <4>3. \A c : c.kind = z.blocks[k].kind /\ c.text = z.blocks[k].text \o text
                   => Promise!WellFormed(c)
        <5> TAKE c
        <5> HAVE c.kind = z.blocks[k].kind /\ c.text = z.blocks[k].text \o text
        <5>1. \A n \in 1..Len(z.blocks[k].text) : z.blocks[k].text[n].part # "signature"
              BY <2>1 DEF Unsigned
        <5>2. z.blocks[k].kind = "thinking" /\ z.blocks[k].kind # "tool" BY <2>2, <3>1
        <5>3. \A n \in 1..Len(text) : /\ Promise!Fits(text[n], z.blocks[k].kind)
                                      /\ text[n].part = "signature" => n = Len(text)
              BY <2>3, <2>4, <5>2
        <5>4. Promise!WellFormed(z.blocks[k]) BY <2>1, <2>2
        <5> QED BY <2>3, <4>2, <5>1, <5>2, <5>3, <5>4, GrowsWell
      <4>4. PICK y : /\ At(Write(Em(s), text), m, y) /\ Len(y.blocks) = Len(z.blocks)
                     /\ y.blocks[k].kind = z.blocks[k].kind
                     /\ y.blocks[k].text = z.blocks[k].text \o text
                     /\ Promise!WellFormed(y.blocks[k])
                     /\ \A i \in 1..Len(z.blocks) : i # k => SameBlock(y, z, i)
        <5> DEFINE e == Em(s)
        <5>1. e.current = k /\ e.current # 0 /\ At(e, m, z) BY <2>1, <2>2
        <5> HIDE DEF e, k
        <5>2. \A c : (/\ c.kind = z.blocks[e.current].kind
                      /\ c.text = z.blocks[e.current].text \o text) => Promise!WellFormed(c)
              BY <4>3, <5>1
        <5>3. \E y : /\ At(Write(e, text), m, y) /\ Len(y.blocks) = Len(z.blocks)
                     /\ y.blocks[e.current].kind = z.blocks[e.current].kind
                     /\ y.blocks[e.current].text = z.blocks[e.current].text \o text
                     /\ Promise!WellFormed(y.blocks[e.current])
                     /\ \A i \in 1..Len(z.blocks) : i # e.current => SameBlock(y, z, i)
              BY <2>3, <5>1, <5>2, WriteOK
        <5> QED BY <5>1, <5>3 DEF e
      <4> HIDE DEF a
      <4>5. y.blocks[k].text # <<>>
        <5>1. Len(y.blocks[k].text) = Len(z.blocks[k].text) + 1 /\ Len(z.blocks[k].text) \in Nat
          <6> DEFINE t == z.blocks[k].text
                     P == [item : Nat, part : PieceParts, n : Nat]
          <6>1. t \in Seq(P) /\ text \in Seq(P) BY <2>3, <4>2 DEF Texts
          <6>a. Len(text) = 1 BY <2>3
          <6> HIDE DEF P, t
          <6>2. Len(t \o text) = Len(t) + Len(text) /\ Len(t) \in Nat BY <6>1
          <6>b. Len(t \o text) = Len(t) + 1 /\ Len(t) \in Nat BY <6>2, <6>a
          <6> QED BY <4>4, <6>b DEF t
        <5>2. Len(<<>>) = 0 OBVIOUS
        <5> QED BY <5>1, <5>2
      <4>6. ASSUME NEW i \in 1..Len(z.blocks)
            PROVE  /\ y.blocks[i].kind = z.blocks[i].kind
                   /\ y.blocks[i].kind \in {"text", "thinking"} => y.blocks[i].text # <<>>
                   /\ Promise!WellFormed(y.blocks[i])
                   /\ y.blocks[i].text = IF i = k /\ signed THEN z.blocks[i].text \o text
                                         ELSE z.blocks[i].text
        <5>1. CASE i = k BY <3>1, <4>4, <4>5, <5>1
        <5>2. CASE i # k
          <6>1. SameBlock(y, z, i) BY <4>4, <5>2
          <6> QED BY <2>1, <5>2, <6>1, SameDecent DEF SameBlock
        <5> QED BY <5>1, <5>2
      <4> QED BY <4>1, <4>4, <4>6
    <3>2. CASE ~signed BY <2>1, <3>2
    <3> QED BY <3>1, <3>2
  <2>8. PICK y : /\ At(Em(a), m, y) /\ Len(y.blocks) = Len(z.blocks)
                 /\ \A i \in 1..Len(z.blocks) :
                      /\ y.blocks[i].kind = z.blocks[i].kind
                      /\ y.blocks[i].kind \in {"text", "thinking"} => y.blocks[i].text # <<>>
                      /\ Promise!WellFormed(y.blocks[i])
                      /\ y.blocks[i].text = IF i = k /\ signed THEN z.blocks[i].text \o text
                                            ELSE z.blocks[i].text
        BY <2>7
  <2>9. r = [b EXCEPT !.index = b.index + 1, !.current = "none",
                      !.signature = IF signed THEN 0 ELSE b.signature]
    <3>1. CASE signed
      <4>1. s.out \o (<<BlockDelta(k, text)>> \o <<BlockStop(k)>>)
              = (s.out \o <<BlockDelta(k, text)>>) \o <<BlockStop(k)>>
        <5> DEFINE u == <<BlockDelta(k, text)>>
                   v == <<BlockStop(k)>>
                   w == s.out
        <5>1. w \in Seq(Events) /\ u \in Seq(Events) /\ v \in Seq(Events)
              BY <2>1, <2>5 DEF CloudRec
        <5> HIDE DEF u, v, w
        <5>2. w \o (u \o v) = (w \o u) \o v BY <5>1, Associates
        <5> QED BY <5>2 DEF u, v, w
      <4>2. r = [Adds(s, <<BlockDelta(k, text)>> \o <<BlockStop(k)>>) EXCEPT
                   !.index = @ + 1, !.current = "none", !.signature = 0]
            BY <1>2, <3>1 DEF CloseCloud, text
      <4>3. b = Adds(s, <<BlockDelta(k, text)>> \o <<BlockStop(k)>>)
            BY <2>1, <3>1, <4>1 DEF Adds, CloudRec
      <4> HIDE DEF b
      <4>4. b \in CloudRec BY <2>5, <2>6, AddsIs DEF b
      <4> HIDE DEF r
      <4> QED BY <3>1, <4>2, <4>3, <4>4 DEF CloudRec
    <3>2. CASE ~signed
      <4>1. <<>> \o <<BlockStop(k)>> = <<BlockStop(k)>> BY <2>5
      <4>2. b = Adds(s, <<>> \o <<BlockStop(k)>>) BY <3>2, <4>1
      <4>3. r = [Adds(s, <<>> \o <<BlockStop(k)>>) EXCEPT
                   !.index = @ + 1, !.current = "none", !.signature = @]
            BY <1>2, <3>2 DEF CloseCloud
      <4>4. b \in CloudRec BY <2>5, <2>6, AddsIs
      <4> HIDE DEF b
      <4> HIDE DEF r
      <4> QED BY <3>2, <4>2, <4>3, <4>4 DEF CloudRec
    <3> QED BY <3>1, <3>2
  <2>10. b \in CloudRec /\ b = [a EXCEPT !.out = Append(a.out, BlockStop(k))]
         /\ Em(b) = Emit(Em(a), BlockStop(k))
         BY <2>5, <2>6, AddsIs
  <2> HIDE DEF a
  <2> HIDE DEF b
  <2>11. /\ b.index = k /\ b.current = s.current /\ b.stop = s.stop /\ b.started
         /\ b.signature = s.signature
         BY <2>6, <2>10 DEF CloudRec
  <2> DEFINE g == IF signed THEN 0 ELSE b.signature
  <2>12. g \in Nat /\ b.index + 1 \in Nat /\ r = [b EXCEPT !.index = b.index + 1, !.current = "none", !.signature = g]
         BY <2>2, <2>9, <2>10, <2>11 DEF CloudRec
  <2> HIDE DEF g, r
  <2>13. r \in CloudRec /\ r.current = "none" /\ r.index = k + 1 /\ r.stop = s.stop /\ r.started
         /\ r.out = b.out
         BY <2>10, <2>11, <2>12 DEF CloudRec
  <2>14. Em(r) = CloseCurrent(Em(a))
    <3>1. Em(a).current = k /\ k # 0 BY <1>2, <2>2, <2>6 DEF Em
    <3>2. CloseCurrent(Em(a)) = [Em(b) EXCEPT !.current = 0, !.kind = "none"]
          BY <2>10, <3>1 DEF CloseCurrent
    <3>3. [Em(b) EXCEPT !.current = 0, !.kind = "none"] = Em(r)
      <4>1. Em(b) = [started |-> b.started, failed |-> FALSE, current |-> k, kind |-> s.current,
                     next |-> k + 1, stop |-> s.stop, out |-> b.out]
            BY <1>2, <2>11 DEF Em
      <4>2. Em(r) = [started |-> r.started, failed |-> FALSE, current |-> 0, kind |-> "none",
                     next |-> k + 1, stop |-> s.stop, out |-> b.out]
            BY <2>13 DEF Em
      <4>3. r.started = b.started BY <2>10, <2>12 DEF CloudRec
      <4> DEFINE sa == b.started
                 ou == b.out
                 ki == s.current
                 sp == s.stop
                 nx == k + 1
                 no == FALSE
      <4> HIDE DEF k
      <4>4. Em(b) = [started |-> sa, failed |-> no, current |-> k, kind |-> ki,
                     next |-> nx, stop |-> sp, out |-> ou]
            BY <4>1
      <4>5. Em(r) = [started |-> sa, failed |-> no, current |-> 0, kind |-> "none",
                     next |-> nx, stop |-> sp, out |-> ou]
            BY <4>2, <4>3
      <4> DEFINE ze == 0
                 nk == "none"
      <4>6. Em(r) = [started |-> sa, failed |-> no, current |-> ze, kind |-> nk,
                     next |-> nx, stop |-> sp, out |-> ou]
            BY <4>5
      <4> HIDE DEF sa, ou, ki, sp, nx, no, ze, nk
      <4> DEFINE eb == Em(b)
      <4>8. eb = [started |-> sa, failed |-> no, current |-> k, kind |-> ki,
                  next |-> nx, stop |-> sp, out |-> ou]
            BY <4>4
      <4> HIDE DEF eb
      <4>9. [eb EXCEPT !.current = ze] = [started |-> sa, failed |-> no, current |-> ze, kind |-> ki,
                  next |-> nx, stop |-> sp, out |-> ou]
            BY <4>8
      <4> DEFINE ec == [eb EXCEPT !.current = ze]
      <4>11. ec = [started |-> sa, failed |-> no, current |-> ze, kind |-> ki,
                   next |-> nx, stop |-> sp, out |-> ou]
             BY <4>9
      <4> HIDE DEF ec
      <4>10. [ec EXCEPT !.kind = nk]
              = [started |-> sa, failed |-> no, current |-> ze, kind |-> nk,
                  next |-> nx, stop |-> sp, out |-> ou]
            BY <4>11
      <4>7. [Em(b) EXCEPT !.current = ze, !.kind = nk] = Em(r) BY <4>6, <4>10 DEF eb, ec
      <4> QED BY <4>7 DEF ze, nk
    <3> QED BY <3>2, <3>3
  <2>15. y \in Msg BY <2>8 DEF At
  <2>16. Filled(y) BY <2>8 DEF Filled
  <2>17. PICK x : /\ At(CloseCurrent(Em(a)), m, x) /\ Len(x.blocks) = Len(y.blocks)
                  /\ \A i \in 1..Len(y.blocks) : SameBlock(x, y, i)
         BY <2>8, <2>16, CloseOK
  <2>18. CloudOK(r, m, x, 0)
    <3>1. ASSUME NEW i \in 1..Len(x.blocks)
          PROVE  /\ x.blocks[i].kind \in {"text", "thinking"} => x.blocks[i].text # <<>>
                 /\ Promise!WellFormed(x.blocks[i])
      <4>1. SameBlock(x, y, i) BY <2>17
      <4> QED BY <2>8, <2>17, <4>1, SameDecent DEF SameBlock
    <3> QED BY <2>13, <2>14, <2>17, <3>1 DEF CloudOK
  <2>19. ToolShown(x) <=> ToolShown(z)
    <3>1. x \in Msg BY <2>17 DEF At
    <3>2. \A i \in 1..Len(z.blocks) : x.blocks[i].kind = z.blocks[i].kind
          BY <2>8, <2>17 DEF SameBlock
    <3> QED BY <2>2, <2>8, <2>17, <3>1, <3>2, SameShown
  <2>20. SignedFrom(x, z, OpenOf(s), s.signature)
    <3>1. OpenOf(s) = k BY <1>2 DEF OpenOf
    <3>2. ASSUME NEW i \in 1..Len(z.blocks)
          PROVE  /\ x.blocks[i].kind = z.blocks[i].kind
                 /\ x.blocks[i].text = IF i = k /\ signed THEN z.blocks[i].text \o text
                                       ELSE z.blocks[i].text
      <4>1. SameBlock(x, y, i) BY <2>8, <2>17
      <4> QED BY <2>8, <4>1 DEF SameBlock
    <3>3. ASSUME NEW i \in 1..Len(z.blocks)
          PROVE  i = k /\ signed <=> i = k /\ z.blocks[i].kind = "thinking" /\ s.signature # 0
      BY <2>2
    <3>4. Len(x.blocks) = Len(z.blocks) BY <2>8, <2>17
    <3> HIDE DEF signed, k
    <3> QED BY <3>1, <3>2, <3>3, <3>4 DEF SignedFrom, text
  <2> QED BY <2>13, <2>18, <2>19, <2>20 DEF r
<1> QED BY <1>1, <1>2

LEMMA EmOpened ==
  ASSUME NEW s \in CloudRec, s.current = "none", NEW kind \in Kinds
  PROVE  /\ [s EXCEPT !.current = kind] \in CloudRec
         /\ [Em(s) EXCEPT !.current = s.index, !.kind = kind, !.next = s.index + 1]
              = Em([s EXCEPT !.current = kind])
<1> DEFINE r == [s EXCEPT !.current = kind]
           st == s.started
           fa == FALSE
           cu == 0
           ki == "none"
           ix == s.index
           nx == s.index + 1
           sp == s.stop
           ou == s.out
<1>1. kind # "none" BY DEF Kinds
<1>2. /\ r \in CloudRec /\ r.started = st /\ r.index = ix /\ r.current = kind
      /\ r.stop = sp /\ r.out = ou
      BY DEF CloudRec
<1> HIDE DEF r
<1>3. Em(r) = [started |-> st, failed |-> fa, current |-> ix, kind |-> kind, next |-> nx,
               stop |-> sp, out |-> ou]
      BY <1>1, <1>2 DEF Em
<1>4. Em(s) = [started |-> st, failed |-> fa, current |-> cu, kind |-> ki, next |-> ix,
               stop |-> sp, out |-> ou]
      BY DEF Em
<1> DEFINE e == Em(s)
<1> HIDE DEF st, fa, cu, ki, ix, nx, sp, ou
<1>5. e = [started |-> st, failed |-> fa, current |-> cu, kind |-> ki, next |-> ix,
           stop |-> sp, out |-> ou]
      BY <1>4
<1> HIDE DEF e
<1>6. [e EXCEPT !.current = ix, !.kind = kind, !.next = nx]
        = [started |-> st, failed |-> fa, current |-> ix, kind |-> kind, next |-> nx,
           stop |-> sp, out |-> ou]
  <2> DEFINE p == [e EXCEPT !.current = ix]
             q == [p EXCEPT !.kind = kind]
  <2>1. p = [started |-> st, failed |-> fa, current |-> ix, kind |-> ki, next |-> ix,
             stop |-> sp, out |-> ou]
        BY <1>5
  <2>2. q = [e EXCEPT !.current = ix, !.kind = kind] OBVIOUS
  <2> HIDE DEF p
  <2>3. q = [started |-> st, failed |-> fa, current |-> ix, kind |-> kind, next |-> ix,
             stop |-> sp, out |-> ou]
        BY <2>1
  <2> HIDE DEF q
  <2>4. [q EXCEPT !.next = nx]
          = [started |-> st, failed |-> fa, current |-> ix, kind |-> kind, next |-> nx,
             stop |-> sp, out |-> ou]
        BY <2>3
  <2> QED BY <2>2, <2>4
<1> QED BY <1>2, <1>3, <1>6 DEF e, ix, nx, r

\* A change of what the emitter does not show.
LEMMA CloudSigns ==
  ASSUME NEW s, NEW m, NEW z, NEW k, CloudOK(s, m, z, k), NEW n \in Nat
  PROVE  LET r == [s EXCEPT !.signature = n]
         IN /\ r.started = s.started /\ r.stop = s.stop /\ r.current = s.current
            /\ r.index = s.index /\ CloudOK(r, m, z, k)
<1> DEFINE r == [s EXCEPT !.signature = n]
<1>1. s \in CloudRec BY DEF CloudOK
<1>2. /\ r \in CloudRec /\ r.started = s.started /\ r.index = s.index /\ r.current = s.current
      /\ r.stop = s.stop /\ r.out = s.out
      BY <1>1 DEF CloudRec
<1> HIDE DEF r
<1>3. Em(r) = Em(s) BY <1>2 DEF Em
<1>4. CloudOK(r, m, z, k) BY <1>2, <1>3 DEF CloudOK
<1> QED BY <1>2, <1>4 DEF r

LEMMA CloudMarks ==
  ASSUME NEW s, NEW m, NEW z, NEW k, CloudOK(s, m, z, k), NEW stop \in StopReasons \cup {"none"}
  PROVE  LET r == [s EXCEPT !.stop = stop]
         IN /\ r.started = s.started /\ r.stop = stop /\ r.current = s.current
            /\ r.index = s.index /\ CloudOK(r, m, z, k)
<1> DEFINE r == [s EXCEPT !.stop = stop]
<1>1. s \in CloudRec /\ At(Em(s), m, z) BY DEF CloudOK
<1>2. /\ r \in CloudRec /\ r.started = s.started /\ r.index = s.index /\ r.current = s.current
      /\ r.stop = stop /\ r.out = s.out
      BY <1>1 DEF CloudRec
<1> HIDE DEF r
<1> DEFINE a == Em(s)
           b == Em(r)
<1>3. /\ b.started = a.started /\ b.current = a.current /\ b.kind = a.kind
      /\ b.next = a.next /\ b.out = a.out
      /\ b = [x \in DOMAIN b |-> b[x]] /\ EmitterFields \subseteq DOMAIN b
      BY <1>2 DEF Em, EmitterFields
<1>a. At(a, m, z) BY <1>1
<1> HIDE DEF a, b
<1>4. At(b, m, z) BY <1>3, <1>a DEF At
<1>5. CloudOK(r, m, z, k) BY <1>2, <1>4 DEF CloudOK, b
<1> QED BY <1>2, <1>5 DEF r

\* A block is opened after the one before was closed.
LEMMA CloudOpens ==
  ASSUME NEW s, NEW m, NEW z, CloudOK(s, m, z, 0), s.started, NEW kind \in Kinds
  PROVE  LET r == OpenCloud(s, kind)
         IN /\ r.current = kind /\ r.stop = s.stop /\ r.started
            /\ \E y : /\ CloudOK(r, m, y, r.index) /\ y.blocks[r.index].text = <<>>
                      /\ (ToolShown(y) <=> (kind = "tool" \/ ToolShown(z)))
                      /\ OpenedFrom(y, z, s, kind)
<1> DEFINE c == CloseCloud(s)
           e == BlockStart(c.index, kind)
           d == Adds(c, <<e>>)
           r == OpenCloud(s, kind)
<1>1. c.current = "none" /\ c.stop = s.stop /\ c.started BY CloudCloses
<1>2. PICK y : /\ CloudOK(c, m, y, 0) /\ (ToolShown(y) <=> ToolShown(z))
               /\ SignedFrom(y, z, OpenOf(s), s.signature)
      BY CloudCloses
<1> HIDE DEF c
<1>3. /\ c \in CloudRec /\ At(Em(c), m, y)
      /\ \A i \in 1..Len(y.blocks) :
           /\ y.blocks[i].kind \in {"text", "thinking"} => y.blocks[i].text # <<>>
           /\ Promise!WellFormed(y.blocks[i])
      BY <1>2 DEF CloudOK
<1>4. c.index = Len(y.blocks) + 1 /\ y \in Msg /\ Len(y.blocks) \in Nat BY <1>1, <1>2, CloudEmitter
<1>5. e \in Events BY <1>4, EventsOf
<1> HIDE DEF e
<1>6. d \in CloudRec /\ d = [c EXCEPT !.out = Append(c.out, e)] /\ Em(d) = Emit(Em(c), e)
      BY <1>3, <1>5, AddsIs
<1>7. r = [d EXCEPT !.current = kind] BY DEF OpenCloud, c, e
<1> HIDE DEF d, r
<1>8. /\ d.current = "none" /\ d.index = c.index /\ d.stop = s.stop /\ d.started
      BY <1>1, <1>3, <1>6 DEF CloudRec
<1>9. /\ r \in CloudRec /\ r.current = kind /\ r.index = c.index /\ r.stop = s.stop /\ r.started
      BY <1>6, <1>7, <1>8 DEF CloudRec
<1>10. Em(r) = OpenNext(Em(c), kind)
  <2>1. Em(r) = [Em(d) EXCEPT !.current = d.index, !.kind = kind, !.next = d.index + 1]
        BY <1>6, <1>7, <1>8, EmOpened
  <2>2. Em(c).current = 0 /\ Em(c).next = c.index BY <1>1 DEF Em
  <2>3. CloseCurrent(Em(c)) = Em(c) BY <2>2 DEF CloseCurrent
  <2>4. OpenNext(Em(c), kind)
          = [Em(d) EXCEPT !.current = c.index, !.kind = kind, !.next = Em(d).next + 1]
        BY <1>6, <2>2, <2>3 DEF OpenNext, e, Em
  <2>5. Em(d).next = c.index BY <1>8 DEF Em
  <2> QED BY <1>8, <2>1, <2>4, <2>5
<1>11. Em(c).started BY <1>1 DEF Em
<1>12. Filled(y) BY <1>3 DEF Filled
<1> DEFINE k == Len(y.blocks)
<1>13. PICK x : /\ At(Em(r), m, x) /\ Len(x.blocks) = k + 1
                /\ x.blocks[k + 1] = NewBlock(kind)
                /\ \A i \in 1..k : SameBlock(x, y, i)
       BY <1>3, <1>10, <1>11, <1>12, OpenOK
<1>14. k \in Nat /\ r.index = k + 1 /\ y \in Msg /\ x \in Msg BY <1>4, <1>9, <1>13 DEF At
<1> HIDE DEF k
<1>15. CloudOK(r, m, x, r.index)
  <2>1. ASSUME NEW i \in 1..Len(x.blocks)
        PROVE  /\ i # r.index /\ x.blocks[i].kind \in {"text", "thinking"} => x.blocks[i].text # <<>>
               /\ Promise!WellFormed(x.blocks[i])
    <3>1. CASE i = k + 1 BY <1>13, <1>14, <3>1, NewBlockWell
    <3>2. CASE i # k + 1
      <4>1. i \in 1..k BY <1>13, <1>14, <3>2
      <4>2. SameBlock(x, y, i) BY <1>13, <4>1
      <4> QED BY <1>3, <4>1, <4>2, SameDecent DEF SameBlock, k
    <3> QED BY <3>1, <3>2
  <2>2. Unsigned(x.blocks[r.index]) BY <1>13, <1>14, NewBlockWell
  <2> QED BY <1>9, <1>13, <2>1, <2>2 DEF CloudOK
<1>16. x.blocks[r.index].text = <<>> /\ x.blocks[r.index].kind = kind
       BY <1>13, <1>14, NewBlockWell
<1>17. ToolShown(x) <=> (kind = "tool" \/ ToolShown(y))
  <2>1. DOMAIN x.blocks = 1..(k + 1) /\ DOMAIN y.blocks = 1..k
        BY <1>13, <1>14, MsgFields DEF k
  <2>2. \A i \in 1..k : x.blocks[i].kind = y.blocks[i].kind /\ i \in 1..(k + 1)
        BY <1>13, <1>14 DEF SameBlock
  <2>3. \A i \in 1..(k + 1) : i \in 1..k \/ i = k + 1 BY <1>14
  <2>4. k + 1 \in 1..(k + 1) /\ x.blocks[k + 1].kind = kind BY <1>14, <1>16
  <2> QED BY <2>1, <2>2, <2>3, <2>4 DEF ToolShown
<1>18. OpenedFrom(x, z, s, kind)
  <2>1. Len(z.blocks) = k BY <1>2 DEF SignedFrom, k
  <2> QED BY <1>2, <1>13, <1>14, <1>16, <2>1 DEF OpenedFrom
<1> QED BY <1>2, <1>9, <1>15, <1>16, <1>17, <1>18 DEF r

\* The converter can write a piece to its block, and has written it.
CloudReady(s, m, z, j, piece) ==
  /\ s.current # "none" /\ j \in {0, s.index} /\ CloudOK(s, m, z, j)
  /\ <<piece>> \in Texts /\ Promise!Fits(piece, s.current) /\ piece.part # "signature"
  /\ s.current = "tool" => z.blocks[s.index].text = <<>>
CloudGrown(r, s, m, z, piece) ==
  /\ r.current = s.current /\ r.stop = s.stop /\ r.started = s.started
  /\ r.index = s.index /\ r.signature = s.signature
  /\ \E y : /\ CloudOK(r, m, y, 0) /\ (ToolShown(y) <=> ToolShown(z))
            /\ WrittenFrom(y, z, piece)

LEMMA CloudWrites ==
  ASSUME NEW s, NEW m, NEW z, NEW j, NEW piece, CloudReady(s, m, z, j, piece)
  PROVE  CloudGrown(Adds(s, <<BlockDelta(s.index, <<piece>>)>>), s, m, z, piece)
<1>0. /\ s.current # "none" /\ j \in {0, s.index} /\ CloudOK(s, m, z, j)
      /\ <<piece>> \in Texts /\ Promise!Fits(piece, s.current) /\ piece.part # "signature"
      /\ s.current = "tool" => z.blocks[s.index].text = <<>>
      BY DEF CloudReady
<1> USE <1>0
<1> DEFINE text == <<piece>>
           k == s.index
           ev == BlockDelta(k, text)
           r == Adds(s, <<ev>>)
<1>1. /\ s \in CloudRec /\ At(Em(s), m, z) /\ Unsigned(z.blocks[k])
      /\ \A i \in 1..Len(z.blocks) :
           /\ i # j /\ z.blocks[i].kind \in {"text", "thinking"} => z.blocks[i].text # <<>>
           /\ Promise!WellFormed(z.blocks[i])
      BY DEF CloudOK
<1>2. /\ k = Len(z.blocks) /\ k \in 1..Len(z.blocks) /\ z.blocks[k].kind = s.current
      /\ Em(s).current = k /\ k # 0 /\ k \in Nat /\ z \in Msg
      BY <1>1, CloudEmitter DEF Em
<1>3. text \in Texts /\ text # <<>> /\ Len(text) = 1 /\ text[1] = piece OBVIOUS
<1>4. ev \in Events BY <1>2, <1>3, EventsOf
<1> HIDE DEF text
<1>5. z.blocks[k].text \in Texts
  <2>1. z.blocks[k] \in Block BY <1>2, MsgFields
  <2> QED BY <2>1 DEF Block
<1>6. \A c : (c.kind = z.blocks[k].kind /\ c.text = z.blocks[k].text \o text)
               => Promise!WellFormed(c)
  <2> TAKE c
  <2> HAVE c.kind = z.blocks[k].kind /\ c.text = z.blocks[k].text \o text
  <2>1. \A n \in 1..Len(z.blocks[k].text) : z.blocks[k].text[n].part # "signature"
        BY <1>1 DEF Unsigned
  <2>2. \A n \in 1..Len(text) : /\ Promise!Fits(text[n], z.blocks[k].kind)
                                /\ text[n].part = "signature" => n = Len(text)
                                /\ text[n].item = piece.item
        BY <1>2, <1>3
  <2>3. Promise!WellFormed(z.blocks[k]) BY <1>1, <1>2
  <2>4. z.blocks[k].kind = "tool" =>
          \E i : /\ \A n \in 1..Len(z.blocks[k].text) : z.blocks[k].text[n].item = i
                 /\ \A n \in 1..Len(text) : text[n].item = i
    <3>1. SUFFICES ASSUME z.blocks[k].kind = "tool"
                   PROVE  \A n \in 1..Len(z.blocks[k].text) : z.blocks[k].text[n].item = piece.item
          BY <2>2
    <3>2. z.blocks[k].text = <<>> BY <1>2, <3>1
    <3>3. Len(<<>>) = 0 OBVIOUS
    <3> QED BY <3>2, <3>3
  <2> QED BY <1>3, <1>5, <2>1, <2>2, <2>3, <2>4, GrowsWell
<1>7. PICK y : /\ At(Write(Em(s), text), m, y) /\ Len(y.blocks) = Len(z.blocks)
               /\ y.blocks[k].kind = z.blocks[k].kind
               /\ y.blocks[k].text = z.blocks[k].text \o text
               /\ Promise!WellFormed(y.blocks[k])
               /\ \A i \in 1..Len(z.blocks) : i # k => SameBlock(y, z, i)
  <2> DEFINE e == Em(s)
  <2>1. e.current = k /\ e.current # 0 /\ At(e, m, z) BY <1>1, <1>2
  <2> HIDE DEF e, k
  <2>2. \A c : (/\ c.kind = z.blocks[e.current].kind
                /\ c.text = z.blocks[e.current].text \o text) => Promise!WellFormed(c)
        BY <1>6, <2>1
  <2>3. \E y : /\ At(Write(e, text), m, y) /\ Len(y.blocks) = Len(z.blocks)
               /\ y.blocks[e.current].kind = z.blocks[e.current].kind
               /\ y.blocks[e.current].text = z.blocks[e.current].text \o text
               /\ Promise!WellFormed(y.blocks[e.current])
               /\ \A i \in 1..Len(z.blocks) : i # e.current => SameBlock(y, z, i)
        BY <1>3, <2>1, <2>2, WriteOK
  <2> QED BY <2>1, <2>3 DEF e
<1>8. r \in CloudRec /\ r = [s EXCEPT !.out = Append(s.out, ev)] /\ Em(r) = Emit(Em(s), ev)
      BY <1>1, <1>4, AddsIs
<1>9. Em(r) = Write(Em(s), text) BY <1>2, <1>8 DEF Write
<1> HIDE DEF r
<1>10. /\ r.current = s.current /\ r.stop = s.stop /\ r.started = s.started /\ r.index = k
       /\ r.signature = s.signature
       BY <1>1, <1>8 DEF CloudRec
<1>a. WrittenFrom(y, z, piece)
  <2>1. \A i \in 1..(Len(z.blocks) - 1) : i \in 1..Len(z.blocks) /\ i # k BY <1>2
  <2> QED BY <1>2, <1>7, <2>1 DEF WrittenFrom, LastBlock, text
<1> DEFINE t == z.blocks[k].text
<1>11. /\ Len(t \o text) = Len(t) + 1 /\ Len(t) \in Nat
       /\ \A n \in 1..Len(t) : (t \o text)[n] = t[n]
       /\ (t \o text)[Len(t) + 1] = piece
  <2> DEFINE P == [item : Nat, part : PieceParts, n : Nat]
  <2>1. t \in Seq(P) /\ text \in Seq(P) BY <1>3, <1>5 DEF Texts
  <2> HIDE DEF P, t
  <2>2. /\ Len(t \o text) = Len(t) + Len(text) /\ Len(t) \in Nat
        /\ \A n \in 1..Len(t) : (t \o text)[n] = t[n]
        /\ \A n \in Len(t) + 1..Len(t) + Len(text) : (t \o text)[n] = text[n - Len(t)]
        BY <2>1
  <2> QED BY <1>3, <2>2
<1>12. \A n \in 1..Len(t) : t[n].part # "signature" BY <1>1 DEF Unsigned
<1>13. y.blocks[k].text = t \o text BY <1>7
<1> HIDE DEF t, k
<1>14. Unsigned(y.blocks[k])
  <2>1. ASSUME NEW n \in 1..Len(y.blocks[k].text) PROVE y.blocks[k].text[n].part # "signature"
    <3>1. n \in 1..Len(t) \/ n = Len(t) + 1 BY <1>11, <1>13, <2>1
    <3> QED BY <1>11, <1>12, <1>13, <3>1
  <2> QED BY <2>1 DEF Unsigned
<1>15. y.blocks[k].text # <<>>
  <2>1. Len(<<>>) = 0 OBVIOUS
  <2> QED BY <1>11, <1>13, <2>1
<1>16. ASSUME NEW i \in 1..Len(y.blocks)
       PROVE  /\ y.blocks[i].kind = z.blocks[i].kind
              /\ y.blocks[i].kind \in {"text", "thinking"} => y.blocks[i].text # <<>>
              /\ Promise!WellFormed(y.blocks[i])
  <2>1. CASE i = k BY <1>7, <1>15, <2>1
  <2>2. CASE i # k
    <3>1. SameBlock(y, z, i) BY <1>7, <2>2
    <3>2. i # j
      <4>1. i >= 1 /\ 0 \notin 1..Len(y.blocks) OBVIOUS
      <4> QED BY <2>2, <4>1 DEF k
    <3> QED BY <1>1, <1>7, <3>1, <3>2, SameDecent DEF SameBlock
  <2> QED BY <2>1, <2>2
<1>17. CloudOK(r, m, y, 0) BY <1>7, <1>8, <1>9, <1>10, <1>14, <1>16 DEF CloudOK
<1>18. ToolShown(y) <=> ToolShown(z)
  <2>1. y \in Msg BY <1>7 DEF At
  <2> QED BY <1>2, <1>7, <1>16, <2>1, SameShown
<1> QED BY <1>a, <1>10, <1>17, <1>18 DEF r, k, text, CloudGrown

\* A piece goes to the open block, if it is of the kind, or to one of its own.
PieceFrom(y, z, s, kind, piece) ==
  IF s.current = kind THEN WrittenFrom(y, z, piece)
  ELSE \E o : OpenedFrom(o, z, s, kind) /\ WrittenFrom(y, o, piece)

\* What a part makes of the converter and of the message.
PartFrom(r, y, s, z, pt) ==
  /\ pt.kind = "empty" => r = s /\ y = z
  /\ pt.kind \in {"thought", "signed", "blank"} =>
       /\ r.current = "thinking" /\ PieceFrom(y, z, s, "thinking", Shows(pt.kind, pt.n))
       /\ r.signature = IF pt.kind = "signed" THEN pt.n
                        ELSE IF s.current = "thinking" THEN s.signature ELSE 0
  /\ pt.kind = "text" => r.current = "text" /\ PieceFrom(y, z, s, "text", Shows("text", pt.n))
  /\ pt.kind = "call" =>
       /\ r.current = "tool"
       /\ \E o : OpenedFrom(o, z, s, "tool") /\ WrittenFrom(y, o, Shows("call", pt.n))
  /\ pt.kind = "image" =>
       /\ r.current = "none"
       /\ \E o : /\ OpenedFrom(o, z, s, "image") /\ Len(y.blocks) = Len(o.blocks)
                /\ \A i \in 1..Len(o.blocks) : SameBlock(y, o, i)

\* What a part of a frame makes of a stream in order.
LEMMA CloudPart ==
  ASSUME NEW s, NEW m, NEW z, CloudOK(s, m, z, 0), ToolsKnown(s, z), s.started,
         NEW pt \in CloudPieces
  PROVE  LET r == ConsumePart(s, pt)
         IN /\ r.started /\ r.stop \in {"tool_use", s.stop}
            /\ \E y : CloudOK(r, m, y, 0) /\ ToolsKnown(r, y) /\ PartFrom(r, y, s, z, pt)
<1> DEFINE n == pt.n
<1>1. n \in Nat /\ pt.kind \in CloudKinds BY DEF CloudPieces
<1>2. "thinking" \in Kinds /\ "text" \in Kinds /\ "tool" \in Kinds /\ "image" \in Kinds
      /\ "none" \notin Kinds
      BY DEF Kinds
<1>3. \A kind \in {"thought", "signed", "blank", "text", "call"} : <<Shows(kind, n)>> \in Texts
      BY <1>1 DEF Shows, Texts, PieceParts
<1>4. /\ \A kind \in {"thought", "signed", "blank"} : Shows(kind, n).part \in {"thinking", "blank"}
      /\ Shows("text", n).part = "text"
      /\ Shows("call", n).part = "args"
      BY DEF Shows
<1>5. CASE pt.kind \in {"thought", "signed", "blank"}
  <2> DEFINE signed == pt.kind = "signed"
             b == OpenCloud(s, "thinking")
             o == IF s.current = "thinking" THEN s ELSE [b EXCEPT !.signature = 0]
             piece == Shows(pt.kind, n)
             a == Adds(o, <<BlockDelta(o.index, <<piece>>)>>)
  <2>1. ConsumePart(s, pt) = [a EXCEPT !.signature = IF signed THEN n ELSE @]
        BY <1>5 DEF ConsumePart, Thought
  <2>2. /\ o.current = "thinking" /\ o.stop = s.stop /\ o.started
        /\ o.signature = IF s.current = "thinking" THEN s.signature ELSE 0
        /\ \E y : /\ \E j \in {0, o.index} : CloudOK(o, m, y, j)
                  /\ ToolShown(y) <=> ToolShown(z)
                  /\ IF s.current = "thinking" THEN y = z ELSE OpenedFrom(y, z, s, "thinking")
    <3>1. CASE s.current = "thinking" BY <3>1
    <3>2. CASE s.current # "thinking"
      <4>1. /\ b.current = "thinking" /\ b.stop = s.stop /\ b.started
            /\ \E y : /\ CloudOK(b, m, y, b.index) /\ (ToolShown(y) <=> ToolShown(z))
                      /\ OpenedFrom(y, z, s, "thinking")
            BY <1>2, CloudOpens
      <4> HIDE DEF b
      <4>2. PICK y : /\ CloudOK(b, m, y, b.index) /\ (ToolShown(y) <=> ToolShown(z))
                     /\ OpenedFrom(y, z, s, "thinking")
            BY <4>1
      <4>3. o = [b EXCEPT !.signature = 0] BY <3>2
      <4> HIDE DEF o
      <4>4. /\ o.started = b.started /\ o.stop = b.stop /\ o.current = b.current
            /\ o.index = b.index /\ CloudOK(o, m, y, b.index)
            BY <4>2, <4>3, CloudSigns
      <4>5. CloudOK(o, m, y, o.index) /\ o.index \in {0, o.index} BY <4>4
      <4>6. o.signature = 0
        <5>1. b \in CloudRec BY <4>2 DEF CloudOK
        <5> QED BY <4>3, <5>1 DEF CloudRec
      <4> QED BY <3>2, <4>1, <4>2, <4>4, <4>5, <4>6
    <3> QED BY <3>1, <3>2
  <2> HIDE DEF o
  <2>3. PICK y : /\ \E j \in {0, o.index} : CloudOK(o, m, y, j)
                 /\ ToolShown(y) <=> ToolShown(z)
                 /\ IF s.current = "thinking" THEN y = z ELSE OpenedFrom(y, z, s, "thinking")
        BY <2>2
  <2>4. PICK j \in {0, o.index} : CloudOK(o, m, y, j) BY <2>3
  <2>5. /\ Promise!Fits(piece, o.current) /\ piece.part # "signature" /\ <<piece>> \in Texts
        /\ o.current # "none" /\ o.current # "tool"
        BY <1>1, <1>3, <1>4, <1>5, <2>2 DEF Promise!Fits
  <2> HIDE DEF piece
  <2>6. /\ a.stop = o.stop /\ a.started = o.started
        /\ a.current = o.current /\ a.signature = o.signature
        /\ \E x : /\ CloudOK(a, m, x, 0) /\ (ToolShown(x) <=> ToolShown(y))
                  /\ WrittenFrom(x, y, piece)
    <3>1. CASE CloudOK(o, m, y, 0)
      <4>1. 0 \in {0, o.index} OBVIOUS
      <4>2. CloudReady(o, m, y, 0, piece) BY <2>5, <3>1, <4>1 DEF CloudReady
      <4> QED BY <4>2, CloudWrites DEF CloudGrown
    <3>2. CASE CloudOK(o, m, y, o.index)
      <4>1. o.index \in {0, o.index} OBVIOUS
      <4>2. CloudReady(o, m, y, o.index, piece) BY <2>5, <3>2, <4>1 DEF CloudReady
      <4> QED BY <4>2, CloudWrites DEF CloudGrown
    <3> QED BY <2>4, <3>1, <3>2
  <2> HIDE DEF a
  <2>7. PICK x : /\ CloudOK(a, m, x, 0) /\ (ToolShown(x) <=> ToolShown(y))
                 /\ WrittenFrom(x, y, piece)
        BY <2>6
  <2>b. PieceFrom(x, z, s, "thinking", piece) BY <2>3, <2>7 DEF PieceFrom
  <2> DEFINE g == IF signed THEN n ELSE a.signature
             r == [a EXCEPT !.signature = g]
  <2>8. a \in CloudRec BY <2>7 DEF CloudOK
  <2>9. g \in Nat BY <1>1, <2>8 DEF CloudRec
  <2>10. ConsumePart(s, pt) = r BY <2>1, <2>8 DEF CloudRec
  <2> HIDE DEF g
  <2>11. /\ r.started = a.started /\ r.stop = a.stop /\ CloudOK(r, m, x, 0)
         /\ r.current = a.current /\ r.signature = g
         BY <2>7, <2>8, <2>9, CloudSigns DEF CloudRec
  <2> HIDE DEF r
  <2>12. ToolsKnown(r, x) BY <2>2, <2>3, <2>6, <2>7, <2>11 DEF ToolsKnown
  <2>c. PartFrom(r, x, s, z, pt) BY <1>5, <2>2, <2>6, <2>11, <2>b DEF PartFrom, g, piece
  <2> QED BY <2>2, <2>6, <2>10, <2>11, <2>12, <2>c
<1>6. CASE pt.kind = "text"
  <2> DEFINE o == IF s.current = "text" THEN s ELSE OpenCloud(s, "text")
             piece == Shows("text", n)
             a == Adds(o, <<BlockDelta(o.index, <<piece>>)>>)
  <2>1. ConsumePart(s, pt) = a BY <1>6 DEF ConsumePart, TextPart
  <2>2. /\ o.current = "text" /\ o.stop = s.stop /\ o.started
        /\ \E y : /\ \E j \in {0, o.index} : CloudOK(o, m, y, j)
                  /\ ToolShown(y) <=> ToolShown(z)
                  /\ IF s.current = "text" THEN y = z ELSE OpenedFrom(y, z, s, "text")
    <3>1. CASE s.current = "text" BY <3>1
    <3>2. CASE s.current # "text"
      <4>1. o = OpenCloud(s, "text") BY <3>2
      <4>2. /\ o.current = "text" /\ o.stop = s.stop /\ o.started
            /\ \E y : /\ CloudOK(o, m, y, o.index) /\ (ToolShown(y) <=> ToolShown(z))
                      /\ OpenedFrom(y, z, s, "text")
            BY <1>2, <4>1, CloudOpens
      <4> HIDE DEF o
      <4> QED BY <3>2, <4>2
    <3> QED BY <3>1, <3>2
  <2> HIDE DEF o
  <2>3. PICK y : /\ \E j \in {0, o.index} : CloudOK(o, m, y, j)
                 /\ ToolShown(y) <=> ToolShown(z)
                 /\ IF s.current = "text" THEN y = z ELSE OpenedFrom(y, z, s, "text")
        BY <2>2
  <2>4. PICK j \in {0, o.index} : CloudOK(o, m, y, j) BY <2>3
  <2>5. /\ Promise!Fits(piece, o.current) /\ piece.part # "signature" /\ <<piece>> \in Texts
        /\ o.current # "none" /\ o.current # "tool"
        BY <1>3, <1>4, <2>2 DEF Promise!Fits
  <2> HIDE DEF piece
  <2>6. /\ a.stop = o.stop /\ a.started = o.started
        /\ a.current = o.current /\ a.signature = o.signature
        /\ \E x : /\ CloudOK(a, m, x, 0) /\ (ToolShown(x) <=> ToolShown(y))
                  /\ WrittenFrom(x, y, piece)
    <3>1. CASE CloudOK(o, m, y, 0)
      <4>1. 0 \in {0, o.index} OBVIOUS
      <4>2. CloudReady(o, m, y, 0, piece) BY <2>5, <3>1, <4>1 DEF CloudReady
      <4> QED BY <4>2, CloudWrites DEF CloudGrown
    <3>2. CASE CloudOK(o, m, y, o.index)
      <4>1. o.index \in {0, o.index} OBVIOUS
      <4>2. CloudReady(o, m, y, o.index, piece) BY <2>5, <3>2, <4>1 DEF CloudReady
      <4> QED BY <4>2, CloudWrites DEF CloudGrown
    <3> QED BY <2>4, <3>1, <3>2
  <2> HIDE DEF a
  <2>7. PICK x : /\ CloudOK(a, m, x, 0) /\ (ToolShown(x) <=> ToolShown(y))
                 /\ WrittenFrom(x, y, piece)
        BY <2>6
  <2>b. PieceFrom(x, z, s, "text", piece) BY <2>3, <2>7 DEF PieceFrom
  <2>8. ToolsKnown(a, x) BY <2>2, <2>3, <2>6, <2>7 DEF ToolsKnown
  <2>9. PartFrom(a, x, s, z, pt) BY <1>6, <2>2, <2>6, <2>b DEF PartFrom, piece
  <2> QED BY <2>1, <2>2, <2>6, <2>7, <2>8, <2>9
<1>7. CASE pt.kind = "call"
  <2> DEFINE b == OpenCloud(s, "tool")
             o == [b EXCEPT !.stop = "tool_use"]
             piece == Shows("call", n)
             a == Adds(o, <<BlockDelta(o.index, <<piece>>)>>)
  <2>1. ConsumePart(s, pt) = a BY <1>7 DEF ConsumePart, CallPart
  <2>2. /\ b.current = "tool" /\ b.started
        /\ \E y : /\ CloudOK(b, m, y, b.index) /\ y.blocks[b.index].text = <<>> /\ ToolShown(y)
                  /\ OpenedFrom(y, z, s, "tool")
        BY <1>2, CloudOpens
  <2> HIDE DEF b
  <2>3. PICK y : /\ CloudOK(b, m, y, b.index) /\ y.blocks[b.index].text = <<>> /\ ToolShown(y)
                 /\ OpenedFrom(y, z, s, "tool")
        BY <2>2
  <2>4. "tool_use" \in StopReasons \cup {"none"} BY DEF StopReasons
  <2>5. /\ o.started = b.started /\ o.stop = "tool_use" /\ o.current = b.current
        /\ o.index = b.index /\ CloudOK(o, m, y, b.index)
        BY <2>3, <2>4, CloudMarks
  <2> HIDE DEF o
  <2>6. Promise!Fits(piece, o.current) /\ piece.part # "signature" /\ <<piece>> \in Texts
        BY <1>3, <1>4, <2>2, <2>5 DEF Promise!Fits
  <2> HIDE DEF piece
  <2>7. o.current # "none" /\ o.index \in {0, o.index} /\ CloudOK(o, m, y, o.index)
        /\ y.blocks[o.index].text = <<>>
        BY <2>2, <2>3, <2>5
  <2>8. /\ a.stop = o.stop /\ a.started = o.started /\ a.current = o.current
        /\ \E x : /\ CloudOK(a, m, x, 0) /\ (ToolShown(x) <=> ToolShown(y))
                  /\ WrittenFrom(x, y, piece)
    <3>1. CloudReady(o, m, y, o.index, piece) BY <2>6, <2>7 DEF CloudReady
    <3> QED BY <3>1, CloudWrites DEF CloudGrown
  <2> HIDE DEF a
  <2>9. PICK x : /\ CloudOK(a, m, x, 0) /\ (ToolShown(x) <=> ToolShown(y))
                 /\ WrittenFrom(x, y, piece)
        BY <2>8
  <2>10. ToolsKnown(a, x) BY <2>3, <2>5, <2>8, <2>9 DEF ToolsKnown
  <2>11. PartFrom(a, x, s, z, pt) BY <1>7, <2>2, <2>3, <2>5, <2>8, <2>9 DEF PartFrom, piece
  <2> QED BY <2>1, <2>2, <2>5, <2>8, <2>9, <2>10, <2>11
<1>8. CASE pt.kind = "image"
  <2> DEFINE o == OpenCloud(s, "image")
             ev == BlockStop(o.index)
             c == CloseCloud(o)
             b == Adds(o, <<ev>>)
  <2>1. /\ o.current = "image" /\ o.stop = s.stop /\ o.started
        /\ \E y : /\ CloudOK(o, m, y, o.index) /\ (ToolShown(y) <=> ToolShown(z))
                  /\ OpenedFrom(y, z, s, "image")
        BY <1>2, CloudOpens
  <2>2. ConsumePart(s, pt) = [b EXCEPT !.index = @ + 1, !.current = "none"]
        BY <1>8 DEF ConsumePart, ImagePart
  <2> HIDE DEF o
  <2>3. PICK y : /\ CloudOK(o, m, y, o.index) /\ (ToolShown(y) <=> ToolShown(z))
                 /\ OpenedFrom(y, z, s, "image")
        BY <2>1
  <2>4. /\ o \in CloudRec /\ o.index \in 1..Len(y.blocks) /\ y.blocks[o.index].kind = "image"
    <3>1. CloudOK(o, m, y, o.index) /\ o.current # "none" BY <2>1, <2>3
    <3>2. o.index \in 1..Len(y.blocks) /\ y.blocks[o.index].kind = o.current BY <3>1, CloudEmitter
    <3> QED BY <2>1, <3>1, <3>2 DEF CloudOK
  <2>5. CloudOK(o, m, y, 0)
    <3>1. ASSUME NEW i \in 1..Len(y.blocks), y.blocks[i].kind \in {"text", "thinking"}
          PROVE  y.blocks[i].text # <<>>
      <4>1. i # o.index BY <2>4, <3>1
      <4> QED BY <2>3, <3>1, <4>1 DEF CloudOK
    <3> QED BY <2>3, <3>1 DEF CloudOK
  <2>6. /\ c.stop = o.stop /\ c.started /\ c.current = "none"
        /\ \E x : /\ CloudOK(c, m, x, 0) /\ (ToolShown(x) <=> ToolShown(y))
                  /\ SignedFrom(x, y, OpenOf(o), o.signature)
        BY <2>1, <2>5, CloudCloses
  <2>7. ev \in Events BY <2>4, EventsOf
  <2>8. b \in CloudRec BY <2>4, <2>7, AddsIs
  <2>9. <<>> \o <<ev>> = <<ev>> BY <2>7
  <2>10. c = [b EXCEPT !.index = @ + 1, !.current = "none", !.signature = @]
         BY <2>1, <2>9 DEF CloseCloud
  <2> HIDE DEF b, c
  <2>11. c = [b EXCEPT !.index = @ + 1, !.current = "none"]
         BY <2>8, <2>10 DEF CloudRec
  <2>12. PICK x : /\ CloudOK(c, m, x, 0) /\ (ToolShown(x) <=> ToolShown(y))
                  /\ SignedFrom(x, y, OpenOf(o), o.signature)
         BY <2>6
  <2>13. ToolsKnown(c, x) BY <2>1, <2>3, <2>6, <2>12 DEF ToolsKnown
  <2>14. OpenOf(o) = o.index BY <2>1 DEF OpenOf
  <2>15. \A i \in 1..Len(y.blocks) : SameBlock(x, y, i)
    <3> TAKE i \in 1..Len(y.blocks)
    <3>1. ~(i = OpenOf(o) /\ y.blocks[i].kind = "thinking") BY <2>4, <2>14
    <3> QED BY <2>12, <3>1 DEF SignedFrom, SameBlock
  <2>16. Len(x.blocks) = Len(y.blocks) BY <2>12 DEF SignedFrom
  <2>17. PartFrom(c, x, s, z, pt) BY <1>8, <2>3, <2>6, <2>15, <2>16 DEF PartFrom
  <2> QED BY <2>1, <2>2, <2>6, <2>11, <2>12, <2>13, <2>17
<1>9. CASE pt.kind = "empty"
  <2>1. ConsumePart(s, pt) = s BY <1>9 DEF ConsumePart
  <2>2. PartFrom(s, z, s, z, pt) BY <1>9 DEF PartFrom
  <2> QED BY <2>1, <2>2
<1> QED BY <1>1, <1>5, <1>6, <1>7, <1>8, <1>9 DEF CloudKinds

-----------------------------------------------------------------------------
\* The parts of a frame, one after the other.
PartsGo(t, X, base, list) ==
  /\ t \in [0..Len(list) -> X]
  /\ t[0] = base /\ t[Len(list)] = FoldLeft(ConsumePart, base, list)
  /\ \A n \in 1..Len(list) : t[n] = ConsumePart(t[n - 1], list[n])

LEMMA PartsFold ==
  ASSUME NEW X, NEW base \in X, NEW list \in Seq(CloudPieces),
         \A s \in X, f \in CloudPieces : ConsumePart(s, f) \in X
  PROVE  \E t : PartsGo(t, X, base, list)
<1> DEFINE k == Len(list)
           W == [p \in X \X CloudPieces |-> ConsumePart(p[1], p[2])]
<1>1. k \in Nat /\ DOMAIN list = 1..k /\ \A i \in 1..k : list[i] \in CloudPieces OBVIOUS
<1>2. W \in [X \X CloudPieces -> X] OBVIOUS
<1>2a. \A s \in X, f \in CloudPieces : W[<<s, f>>] = ConsumePart(s, f) OBVIOUS
<1> HIDE DEF W, k
<1>a. PICK f : IsFold(X, W, base, k, list, f) BY <1>1, <1>2, FoldExists
<1>3. /\ f \in [SUBSET (1..k) -> X]
      /\ \A s \in SUBSET (1..k) : f[s] = FoldStep(W, base, f, list, s)
      BY <1>a DEF IsFold
<1> DEFINE Iter(g) == g = [s \in SUBSET (1..k) |-> IF s = {} THEN base
                              ELSE ConsumePart(g[s \ {Max(s)}], list[Max(s)])]
           it == CHOOSE g : Iter(g)
<1>4. \A s \in SUBSET (1..k) : s # {} => Max(s) \in s BY <1>1, MaxIs
<1>5. Iter(f)
  <2>1. ASSUME NEW s \in SUBSET (1..k)
        PROVE  f[s] = IF s = {} THEN base ELSE ConsumePart(f[s \ {Max(s)}], list[Max(s)])
    <3>1. CASE s = {} BY <1>3, <3>1 DEF FoldStep
    <3>2. CASE s # {}
      <4>1. Max(s) \in 1..k /\ s \ {Max(s)} \in SUBSET (1..k) BY <1>4, <3>2
      <4>2. f[s \ {Max(s)}] \in X /\ list[Max(s)] \in CloudPieces BY <1>1, <1>3, <4>1
      <4>3. f[s] = W[<<f[s \ {Max(s)}], list[Max(s)]>>] BY <1>3, <3>2 DEF FoldStep
      <4> QED BY <1>2a, <3>2, <4>2, <4>3
    <3> QED BY <3>1, <3>2
  <2> QED BY <1>3, <2>1
<1>6. Iter(it) BY <1>5
<1>7. FoldLeft(ConsumePart, base, list) = it[1..k]
      BY <1>1 DEF FoldLeft, MapThenFoldSet
<1> HIDE DEF it
<1>8. f[{}] = base /\ it[{}] = base BY <1>5, <1>6
<1>9. ASSUME NEW n \in 1..k
      PROVE  /\ f[1..n] = ConsumePart(f[1..(n - 1)], list[n])
             /\ it[1..n] = ConsumePart(it[1..(n - 1)], list[n])
  <2>1. 1..n \in SUBSET (1..k) /\ n \in 1..n /\ n \in Nat \ {0} BY <1>1
  <2>2. Max(1..n) = n /\ (1..n) \ {n} = 1..(n - 1) BY <2>1, MaxOfFirst
  <2>3. f[1..n] = ConsumePart(f[(1..n) \ {Max(1..n)}], list[Max(1..n)]) BY <1>5, <2>1
  <2>4. it[1..n] = ConsumePart(it[(1..n) \ {Max(1..n)}], list[Max(1..n)]) BY <1>6, <2>1
  <2> QED BY <2>2, <2>3, <2>4
<1>10. f[1..k] = it[1..k] BY <1>1, <1>8, <1>9, AlikeAlong
<1> DEFINE t == [n \in 0..k |-> f[1..n]]
<1>11. t \in [0..k -> X] /\ t[0] = base /\ t[k] = f[1..k]
       /\ \A n \in 1..k : t[n] = ConsumePart(t[n - 1], list[n])
  <2>1. \A n \in 0..k : 1..n \in SUBSET (1..k) BY <1>1
  <2>2. 0 \in 0..k /\ k \in 0..k /\ 1..0 = {} BY <1>1
  <2>3. \A n \in 1..k : n \in 0..k /\ n - 1 \in 0..k BY <1>1
  <2> QED BY <1>3, <1>8, <1>9, <2>1, <2>2, <2>3
<1>12. t[k] = FoldLeft(ConsumePart, base, list) BY <1>7, <1>10, <1>11
<1> HIDE DEF t
<1> QED BY <1>11, <1>12 DEF k, PartsGo

\* What every part keeps, the parts of a frame keep.
LEMMA PartsKeep ==
  ASSUME NEW X, NEW base \in X, NEW list \in Seq(CloudPieces),
         \A s \in X, f \in CloudPieces : ConsumePart(s, f) \in X
  PROVE  FoldLeft(ConsumePart, base, list) \in X
<1>1. PICK t : PartsGo(t, X, base, list) BY PartsFold
<1>2. Len(list) \in 0..Len(list) OBVIOUS
<1> QED BY <1>1, <1>2 DEF PartsGo

LEMMA NoParts == ASSUME NEW base PROVE FoldLeft(ConsumePart, base, <<>>) = base
<1> DEFINE Iter(g) == g = [s \in SUBSET {} |-> IF s = {} THEN base
                              ELSE ConsumePart(g[s \ {Max(s)}], <<>>[Max(s)])]
           it == CHOOSE g : Iter(g)
           f == [s \in SUBSET {} |-> base]
<1>1. Iter(f) OBVIOUS
<1> HIDE DEF f
<1>2. Iter(it) BY <1>1
<1>3. FoldLeft(ConsumePart, base, <<>>) = it[{}] BY DEF FoldLeft, MapThenFoldSet
<1> HIDE DEF it
<1> QED BY <1>2, <1>3

\* The first event of a stream.
LEMMA CloudStarts ==
  ASSUME NEW s, NEW m, NEW z, CloudOK(s, m, z, 0), ToolsKnown(s, z), ~s.started
  PROVE  LET r == [Adds(s, <<MessageStart>>) EXCEPT !.started = TRUE]
         IN /\ r.stop = s.stop /\ r.started
            /\ r.current = s.current /\ r.signature = s.signature /\ r.index = s.index
            /\ \E y : CloudOK(r, m, y, 0) /\ ToolsKnown(r, y) /\ y.blocks = z.blocks
<1> DEFINE a == Adds(s, <<MessageStart>>)
           r == [a EXCEPT !.started = TRUE]
<1>1. /\ s \in CloudRec /\ At(Em(s), m, z)
      /\ \A i \in 1..Len(z.blocks) :
           /\ z.blocks[i].kind \in {"text", "thinking"} => z.blocks[i].text # <<>>
           /\ Promise!WellFormed(z.blocks[i])
      BY DEF CloudOK
<1>2. a \in CloudRec /\ a = [s EXCEPT !.out = Append(s.out, MessageStart)]
      /\ Em(a) = Emit(Em(s), MessageStart)
      BY <1>1, EventsOf, AddsIs
<1> HIDE DEF a
<1>3. /\ r \in CloudRec /\ r.started = TRUE /\ r.index = a.index /\ r.current = a.current
      /\ r.stop = a.stop /\ r.out = a.out /\ r.signature = a.signature
      BY <1>2 DEF CloudRec
<1>4. /\ a.stop = s.stop /\ a.current = s.current /\ a.index = s.index
      /\ a.signature = s.signature
      BY <1>1, <1>2 DEF CloudRec
<1> HIDE DEF r
<1> DEFINE e == Em(s)
           b == Em(a)
           d == Em(r)
           t == StartMessage(e)
<1>5. At(e, m, z) /\ ~e.started BY <1>1 DEF Em
<1>6. b = Emit(e, MessageStart) BY <1>2
<1>7. /\ d.started = TRUE /\ d.current = b.current /\ d.kind = b.kind
      /\ d.next = b.next /\ d.out = b.out
      /\ d = [x \in DOMAIN d |-> d[x]] /\ EmitterFields \subseteq DOMAIN d
      /\ b = [x \in DOMAIN b |-> b[x]] /\ EmitterFields \subseteq DOMAIN b
      BY <1>3 DEF Em, EmitterFields
<1> HIDE DEF e, b, d
<1>8. t = [b EXCEPT !.started = TRUE] BY <1>5, <1>6 DEF StartMessage
<1>9. /\ t.started = TRUE /\ t.current = b.current /\ t.kind = b.kind /\ t.next = b.next
      /\ t.out = b.out
      BY <1>7, <1>8 DEF EmitterFields
<1>10. PICK y : At(t, m, y) /\ y.blocks = z.blocks BY <1>5, StartOK
<1> HIDE DEF t
<1>11. At(d, m, y) BY <1>7, <1>9, <1>10 DEF At
<1>12. r.current = "none"
  <2>1. s.current = "none"
    <3>1. e.current = 0 BY <1>5 DEF At
    <3> QED BY <1>1, <3>1, CloudEmitter DEF e
  <2> QED BY <1>3, <1>4, <2>1
<1>13. CloudOK(r, m, y, 0) BY <1>1, <1>3, <1>10, <1>11, <1>12 DEF CloudOK, d
<1>14. ToolsKnown(r, y) BY <1>3, <1>4, <1>10 DEF ToolsKnown, ToolShown
<1> QED BY <1>3, <1>4, <1>10, <1>13, <1>14 DEF r, a

-----------------------------------------------------------------------------
CloudEnded(z) ==
  /\ z \in Msg
  /\ \/ z.phase \in {"none", "failed"}
     \/ /\ z.phase = "done" /\ ToolsKnown(conv, z)
        /\ z.stop = IF conv.stop = "none" THEN "end_turn" ELSE conv.stop

\* The client's message is on its way to one in which every block is in order,
\* and the converter knows what it has shown.
CloudInv ==
  /\ CloudTypeOK /\ message \in Msg /\ conv.out = <<>> /\ conv.stop \in {"tool_use", Heard(cutoff)}
  /\ \E z : /\ Delivers(wire, message, z)
            /\ IF ended THEN CloudEnded(z) ELSE CloudOK(conv, z, z, 0) /\ ToolsKnown(conv, z)

LEMMA CloudInitially == ASSUME CloudInit PROVE CloudInv
<1>1. /\ wire = <<>> /\ message = NoMessage /\ parts = <<>> /\ cutoff = "none" /\ ended = FALSE
      /\ conv = [started |-> FALSE, index |-> 1, current |-> "none", signature |-> 0,
                 stop |-> "none", out |-> <<>>]
      BY DEF CloudInit, WireInit
<1>2. <<>> \in Seq(Events) /\ <<>> \in Seq(Block) /\ <<>> \in Seq(CloudPieces) /\ Len(<<>>) = 0
      OBVIOUS
<1>3. CloudTypeOK BY <1>1, <1>2 DEF CloudTypeOK, CloudRec, Finishes
<1>4. message \in Msg /\ message.blocks = <<>> /\ message.phase = "none" /\ message.stop = "none"
      BY <1>1, <1>2 DEF Msg, NoMessage
<1>5. Delivers(<<>>, message, message) BY <1>4, DeliversNothing
<1> DEFINE e == Em(conv)
<1>6. /\ e = [x \in DOMAIN e |-> e[x]] /\ EmitterFields \subseteq DOMAIN e
      /\ e.out = <<>> /\ e.started = FALSE /\ e.next = 1 /\ e.current = 0 /\ e.kind = "none"
      BY <1>1 DEF Em, EmitterFields
<1> HIDE DEF e
<1>7. At(e, message, message)
  <2>1. Delivers(e.out, message, message) BY <1>5, <1>6
  <2>2. \A i \in 1..Len(message.blocks) : message.blocks[i].open <=> i = e.current
        BY <1>2, <1>4
  <2>3. Len(message.blocks) = 0 BY <1>2, <1>4
  <2>4. e.started \in BOOLEAN /\ message.phase = IF e.started THEN "open" ELSE "none"
        BY <1>4, <1>6
  <2>5. e.kind = IF e.current = 0 THEN "none" ELSE message.blocks[e.current].kind
        BY <1>6
  <2> QED BY <1>4, <1>6, <2>1, <2>2, <2>3, <2>4, <2>5 DEF At
<1>8. conv.current = "none" /\ conv.stop = "none" /\ conv.out = <<>> BY <1>1
<1>9. CloudOK(conv, message, message, 0)
  <2>1. conv \in CloudRec BY <1>3 DEF CloudTypeOK
  <2>2. 1..Len(message.blocks) = {} BY <1>2, <1>4
  <2> QED BY <1>7, <1>8, <2>1, <2>2 DEF CloudOK, e
<1>10. ToolsKnown(conv, message)
  <2>1. DOMAIN message.blocks = {} BY <1>2, <1>4
  <2> QED BY <1>8, <2>1 DEF ToolsKnown, ToolShown
<1>11. conv.stop \in {"tool_use", Heard(cutoff)} BY <1>1, <1>8 DEF Heard
<1>12. Delivers(wire, message, message) BY <1>1, <1>5
<1> QED BY <1>1, <1>3, <1>4, <1>8, <1>9, <1>10, <1>11, <1>12 DEF CloudInv

\* What a handler sends.
LEMMA CloudSends ==
  ASSUME NEW s, NEW z, message \in Msg, CloudOK(s, message, z, 0), ToolsKnown(s, z), CloudGoes(s)
  PROVE  /\ CloudOK(conv', z, z, 0) /\ ToolsKnown(conv', z) /\ conv'.out = <<>>
         /\ conv' \in CloudRec /\ conv'.stop = s.stop
         /\ Delivers(wire', message', z) /\ message' = message
<1>1. /\ s \in CloudRec /\ At(Em(s), message, z)
      BY DEF CloudOK
<1>2. conv' = [s EXCEPT !.out = <<>>] /\ wire' = s.out /\ message' = message
      BY DEF CloudGoes, Send
<1>3. <<>> \in Seq(Events) OBVIOUS
<1>4. conv' \in CloudRec /\ Em(conv') = [Em(s) EXCEPT !.out = <<>>] BY <1>1, <1>2, <1>3, EmSpeaks
<1>5. At(Em(conv'), z, z) BY <1>1, <1>4, ResetOK
<1>6. /\ conv'.stop = s.stop /\ conv'.current = s.current /\ conv'.index = s.index
      /\ conv'.out = <<>>
      BY <1>1, <1>2 DEF CloudRec
<1>7. CloudOK(conv', z, z, 0) BY <1>4, <1>5, <1>6 DEF CloudOK
<1>8. Delivers(wire', message', z)
  <2>1. Delivers(Em(s).out, message, z) BY <1>1 DEF At
  <2>2. Em(s).out = s.out BY DEF Em
  <2> QED BY <1>2, <2>1, <2>2
<1>9. ToolsKnown(conv', z) BY <1>6 DEF ToolsKnown
<1> QED BY <1>2, <1>4, <1>6, <1>7, <1>8, <1>9

\* The end, with nothing more to say but the stop reason.
LEMMA CloudEndsWell ==
  ASSUME message \in Msg, CloudOK(conv, message, message, 0), ToolsKnown(conv, message), conv.started
  PROVE  LET stop == IF conv.stop = "none" THEN "end_turn" ELSE conv.stop
             r == Adds(CloseCloud(conv), <<MessageDelta(stop), MessageStop>>)
         IN /\ r \in CloudRec /\ r.stop = conv.stop
            /\ \E z : /\ Delivers(r.out, message, z) /\ z \in Msg /\ z.phase = "done"
                      /\ z.stop = stop /\ (ToolShown(z) <=> ToolShown(message))
                      /\ SignedFrom(z, message, OpenOf(conv), conv.signature)
<1> DEFINE stop == IF conv.stop = "none" THEN "end_turn" ELSE conv.stop
           c == CloseCloud(conv)
           d == MessageDelta(stop)
           r == Adds(c, <<d, MessageStop>>)
<1>1. c.current = "none" /\ c.stop = conv.stop /\ c.started BY CloudCloses
<1>2. PICK y : /\ CloudOK(c, message, y, 0) /\ (ToolShown(y) <=> ToolShown(message))
               /\ SignedFrom(y, message, OpenOf(conv), conv.signature)
      BY CloudCloses
<1>3. conv \in CloudRec BY DEF CloudOK
<1>4. stop \in StopReasons BY <1>3 DEF CloudRec, StopReasons
<1>5. stop = "tool_use" => ToolShown(y) BY <1>2 DEF ToolsKnown
<1> HIDE DEF c, stop
<1>6. d \in Events /\ MessageStop \in Events BY <1>4, EventsOf
<1> HIDE DEF d
<1>7. c \in CloudRec /\ At(Em(c), message, y)
      /\ \A i \in 1..Len(y.blocks) :
           y.blocks[i].kind \in {"text", "thinking"} => y.blocks[i].text # <<>>
      BY <1>2 DEF CloudOK
<1>8. Filled(y) BY <1>7 DEF Filled
<1>9. c.out \o <<d, MessageStop>> = Append(Append(c.out, d), MessageStop)
      /\ c.out \o <<d, MessageStop>> \in Seq(Events)
      BY <1>6, <1>7 DEF CloudRec
<1>10. r = [c EXCEPT !.out = c.out \o <<d, MessageStop>>] BY DEF Adds
<1>11. r \in CloudRec /\ r.stop = c.stop /\ r.out = Append(Append(c.out, d), MessageStop)
       BY <1>7, <1>9, <1>10 DEF CloudRec
<1> HIDE DEF r
<1> DEFINE e == Em(c)
<1>12. /\ e.started /\ e.current = 0 /\ e.out = c.out
       BY <1>1 DEF Em
<1>13. At(e, message, y) BY <1>7
<1> HIDE DEF e
<1>14. PICK z : /\ Delivers(Conclude(e, stop).out, message, z) /\ z \in Msg
                /\ z.phase = "done" /\ z.stop = stop /\ Len(z.blocks) = Len(y.blocks)
                /\ \A i \in 1..Len(y.blocks) : SameBlock(z, y, i)
       BY <1>4, <1>5, <1>8, <1>13, ConcludeOK
<1>15. Conclude(e, stop).out = r.out
  <2>1. StartMessage(e) = e /\ CloseCurrent(e) = e BY <1>12 DEF StartMessage, CloseCurrent
  <2>2. Conclude(e, stop) = Emit(Emit(e, d), MessageStop) BY <2>1 DEF Conclude, d
  <2>3. e = [x \in DOMAIN e |-> e[x]] /\ EmitterFields \subseteq DOMAIN e BY <1>13 DEF At
  <2> DEFINE f == Emit(e, d)
  <2>4. f = [x \in DOMAIN f |-> f[x]] /\ Keeps(f, e, {"out"}) /\ f.out = Append(e.out, d)
        BY <2>3, EmitIs
  <2>5. EmitterFields \subseteq DOMAIN f BY <2>3, <2>4 DEF Keeps
  <2> HIDE DEF f
  <2>6. Emit(f, MessageStop).out = Append(f.out, MessageStop) BY <2>4, <2>5, EmitIs
  <2> QED BY <1>11, <1>12, <2>2, <2>4, <2>6 DEF f
<1>16. ToolShown(z) <=> ToolShown(y)
  <2>1. y \in Msg BY <1>13 DEF At
  <2>2. \A i \in 1..Len(y.blocks) : z.blocks[i].kind = y.blocks[i].kind BY <1>14 DEF SameBlock
  <2> QED BY <1>14, <2>1, <2>2, SameShown
<1>17. SignedFrom(z, message, OpenOf(conv), conv.signature)
       BY <1>2, <1>14 DEF SignedFrom, SameBlock
<1> QED BY <1>1, <1>2, <1>11, <1>14, <1>15, <1>16, <1>17 DEF r, c, d, stop

LEMMA CloudFrame ==
  ASSUME CloudInv, NEW kinds \in Seq(CloudKinds),
         NEW finish \in IF cutoff = "none" THEN {"none", "STOP", "MAX_TOKENS", "SAFETY"} ELSE {"none"},
         Frame(kinds, finish)
  PROVE  CloudInv' /\ message' = message
<1> DEFINE numbered == [i \in DOMAIN kinds |-> [kind |-> kinds[i], n |-> Len(parts) + i]]
           s == IF conv.started \/ kinds = <<>> THEN conv
                ELSE [Adds(conv, <<MessageStart>>) EXCEPT !.started = TRUE]
           t == FoldLeft(ConsumePart, s, numbered)
           Told == [STOP |-> "end_turn", MAX_TOKENS |-> "max_tokens", SAFETY |-> "none", none |-> "none"]
           u == IF t.stop = "none" THEN [t EXCEPT !.stop = Told[finish]] ELSE t
<1>1. /\ CloudTypeOK /\ message \in Msg /\ conv.stop \in {"tool_use", Heard(cutoff)}
      /\ ~ended /\ wire = <<>>
      BY DEF CloudInv, Frame
<1>2. CloudOK(conv, message, message, 0) /\ ToolsKnown(conv, message)
  <2>1. PICK z : Delivers(wire, message, z) /\ CloudOK(conv, z, z, 0) /\ ToolsKnown(conv, z)
        BY <1>1 DEF CloudInv
  <2>2. z = message BY <1>1, <2>1, NothingLeft
  <2> QED BY <2>1, <2>2
<1>3. numbered \in Seq(CloudPieces)
  <2>1. Len(parts) \in Nat BY <1>1 DEF CloudTypeOK
  <2>2. DOMAIN kinds = 1..Len(kinds) /\ Len(kinds) \in Nat OBVIOUS
  <2>3. \A i \in 1..Len(kinds) : [kind |-> kinds[i], n |-> Len(parts) + i] \in CloudPieces
        BY <2>1, <2>2 DEF CloudPieces
  <2> QED BY <2>2, <2>3
<1>4. /\ s.stop = conv.stop /\ (kinds # <<>> => s.started)
      /\ \E y : CloudOK(s, message, y, 0) /\ ToolsKnown(s, y)
  <2>1. CASE conv.started \/ kinds = <<>> BY <1>2, <2>1
  <2>2. CASE ~(conv.started \/ kinds = <<>>)
    <3>1. s = [Adds(conv, <<MessageStart>>) EXCEPT !.started = TRUE] BY <2>2
    <3> HIDE DEF s
    <3> QED BY <1>2, <2>2, <3>1, CloudStarts
  <2> QED BY <2>1, <2>2
<1> HIDE DEF s
<1>5. /\ t.stop \in {"tool_use", conv.stop}
      /\ \E y : CloudOK(t, message, y, 0) /\ ToolsKnown(t, y)
  <2>1. CASE kinds = <<>>
    <3>1. numbered = <<>>
      <4>1. Len(numbered) = 0 BY <1>3, <2>1
      <4> HIDE DEF numbered
      <4> QED BY <1>3, <4>1
    <3>2. t = s BY <3>1, NoParts
    <3> HIDE DEF t
    <3> QED BY <1>4, <3>2
  <2>2. CASE kinds # <<>>
    <3> DEFINE X == {x \in CloudRec : /\ x.started /\ x.stop \in {"tool_use", conv.stop}
                                      /\ \E y : CloudOK(x, message, y, 0) /\ ToolsKnown(x, y)}
    <3>1. s \in X BY <1>4, <2>2 DEF CloudOK
    <3>2. ASSUME NEW x \in X, NEW f \in CloudPieces PROVE ConsumePart(x, f) \in X
      <4>1. PICK y : CloudOK(x, message, y, 0) /\ ToolsKnown(x, y) OBVIOUS
      <4> DEFINE r == ConsumePart(x, f)
      <4>2. /\ r.started /\ r.stop \in {"tool_use", x.stop}
            /\ \E z : CloudOK(r, message, z, 0) /\ ToolsKnown(r, z)
            BY <4>1, CloudPart
      <4>3. r \in CloudRec BY <4>2 DEF CloudOK
      <4> HIDE DEF r
      <4>4. r \in X BY <4>2, <4>3
      <4> QED BY <4>4 DEF r
    <3> HIDE DEF X, numbered
    <3>3. t \in X BY <1>3, <3>1, <3>2, PartsKeep
    <3> HIDE DEF t
    <3> QED BY <3>3 DEF X
  <2> QED BY <2>1, <2>2
<1>6. CloudGoes(u) /\ parts' = parts \o numbered
      /\ cutoff' = (IF cutoff = "none" THEN finish ELSE cutoff) /\ ended' = ended
      BY DEF Frame, s
<1> HIDE DEF t
<1>7. PICK y : CloudOK(t, message, y, 0) /\ ToolsKnown(t, y) BY <1>5
<1>8. finish \in Finishes /\ cutoff \in Finishes BY <1>1 DEF CloudTypeOK, Finishes
<1>9. Told[finish] = Heard(finish) /\ Told[finish] \in StopReasons \cup {"none"} /\ Told[finish] # "tool_use"
      BY <1>8 DEF Finishes, Heard, StopReasons
<1> HIDE DEF Told
<1>10. u.stop = (IF t.stop = "none" THEN Told[finish] ELSE t.stop)
       /\ CloudOK(u, message, y, 0) /\ ToolsKnown(u, y)
  <2>1. CASE t.stop = "none"
    <3>1. u = [t EXCEPT !.stop = Told[finish]] BY <2>1
    <3> HIDE DEF u
    <3>2. u.stop = Told[finish] /\ CloudOK(u, message, y, 0) BY <1>7, <1>9, <3>1, CloudMarks
    <3> QED BY <1>7, <1>9, <2>1, <3>2 DEF ToolsKnown
  <2>2. CASE t.stop # "none" BY <1>7, <2>2
  <2> QED BY <2>1, <2>2
<1> HIDE DEF u
<1>11. /\ CloudOK(conv', y, y, 0) /\ ToolsKnown(conv', y) /\ conv'.out = <<>>
       /\ conv' \in CloudRec /\ conv'.stop = u.stop
       /\ Delivers(wire', message', y) /\ message' = message
       BY <1>1, <1>6, <1>10, CloudSends
<1>12. CloudTypeOK'
  <2>1. parts' \in Seq(CloudPieces)
    <3> HIDE DEF numbered
    <3> QED BY <1>1, <1>3, <1>6 DEF CloudTypeOK
  <2> QED BY <1>1, <1>6, <1>8, <1>11, <2>1 DEF CloudTypeOK
<1>13. conv'.stop \in {"tool_use", Heard(cutoff')}
  <2>1. cutoff # "none" => finish = "none" /\ cutoff' = cutoff BY <1>6
  <2>2. cutoff = "none" => cutoff' = finish BY <1>6
  <2>3. Heard("none") = "none" BY DEF Heard
  <2> QED BY <1>1, <1>5, <1>9, <1>10, <1>11, <2>1, <2>2, <2>3
<1> QED BY <1>1, <1>6, <1>11, <1>12, <1>13 DEF CloudInv

LEMMA CloudEnd ==
  ASSUME CloudInv, NEW failed \in BOOLEAN, CloudEnds(failed)
  PROVE  CloudInv' /\ message' = message
<1>1. /\ CloudTypeOK /\ message \in Msg /\ conv.stop \in {"tool_use", Heard(cutoff)}
      /\ ~ended /\ wire = <<>> /\ conv.out = <<>>
      /\ ended' = TRUE /\ parts' = parts /\ cutoff' = cutoff
      BY DEF CloudInv, CloudEnds
<1>2. CloudOK(conv, message, message, 0) /\ ToolsKnown(conv, message)
  <2>1. PICK z : Delivers(wire, message, z) /\ CloudOK(conv, z, z, 0) /\ ToolsKnown(conv, z)
        BY <1>1 DEF CloudInv
  <2>2. z = message BY <1>1, <2>1, NothingLeft
  <2> QED BY <2>1, <2>2
<1>3. conv \in CloudRec /\ At(Em(conv), message, message) BY <1>2 DEF CloudOK
<1>4. SUFFICES ASSUME NEW s \in CloudRec, CloudGoes(s), s.stop = conv.stop,
                      NEW z \in Msg, Delivers(s.out, message, z),
                      \/ z.phase \in {"none", "failed"}
                      \/ /\ z.phase = "done" /\ ToolsKnown(conv, z)
                         /\ z.stop = IF conv.stop = "none" THEN "end_turn" ELSE conv.stop
               PROVE  CloudInv' /\ message' = message
  <2>1. CASE ~conv.started
    <3>1. CloudGoes(conv) BY <2>1 DEF CloudEnds
    <3>2. Delivers(conv.out, message, message) BY <1>1, DeliversNothing
    <3>3. message.phase = "none"
      <4>1. ~Em(conv).started BY <2>1 DEF Em
      <4> QED BY <1>3, <4>1 DEF At
    <3> QED BY <1>1, <1>3, <1>4, <3>1, <3>2, <3>3
  <2>2. CASE conv.started /\ failed
    <3> DEFINE s == Adds(conv, <<ErrorEvent>>)
    <3>1. CloudGoes(s) BY <2>2 DEF CloudEnds
    <3>2. s \in CloudRec /\ s = [conv EXCEPT !.out = Append(conv.out, ErrorEvent)]
          BY <1>3, EventsOf, AddsIs
    <3> HIDE DEF s
    <3>3. s.stop = conv.stop /\ s.out = Append(conv.out, ErrorEvent) BY <1>3, <3>2 DEF CloudRec
    <3>4. PICK z : Delivers(EmitError(Em(conv)).out, message, z) /\ z \in Msg /\ z.phase = "failed"
          BY <1>3, ErrorOK
    <3>5. EmitError(Em(conv)).out = Append(conv.out, ErrorEvent) BY DEF EmitError, Emit, Em
    <3> QED BY <1>4, <3>1, <3>2, <3>3, <3>4, <3>5
  <2>3. CASE conv.started /\ ~failed
    <3> DEFINE stop == IF conv.stop = "none" THEN "end_turn" ELSE conv.stop
               s == Adds(CloseCloud(conv), <<MessageDelta(stop), MessageStop>>)
    <3>1. CloudGoes(s) BY <2>3 DEF CloudEnds
    <3>2. /\ s \in CloudRec /\ s.stop = conv.stop
          /\ \E z : /\ Delivers(s.out, message, z) /\ z \in Msg /\ z.phase = "done"
                    /\ z.stop = stop /\ (ToolShown(z) <=> ToolShown(message))
          BY <1>1, <1>2, <2>3, CloudEndsWell
    <3> HIDE DEF s
    <3>3. PICK z : /\ Delivers(s.out, message, z) /\ z \in Msg /\ z.phase = "done"
                   /\ z.stop = stop /\ (ToolShown(z) <=> ToolShown(message))
          BY <3>2
    <3>4. ToolsKnown(conv, z) BY <1>2, <3>3 DEF ToolsKnown
    <3> QED BY <1>4, <3>1, <3>2, <3>3, <3>4
  <2> QED BY <2>1, <2>2, <2>3
<1>5. conv' = [s EXCEPT !.out = <<>>] /\ wire' = s.out /\ message' = message
      BY <1>4 DEF CloudGoes, Send
<1>6. <<>> \in Seq(Events) OBVIOUS
<1>7. conv' \in CloudRec /\ conv'.stop = conv.stop /\ conv'.out = <<>>
      BY <1>4, <1>5, <1>6 DEF CloudRec
<1>8. CloudTypeOK' BY <1>1, <1>7 DEF CloudTypeOK
<1>9. Delivers(wire', message', z) BY <1>4, <1>5
<1>10. CloudEnded(z)' BY <1>4, <1>7 DEF CloudEnded, ToolsKnown
<1> QED BY <1>1, <1>5, <1>7, <1>8, <1>9, <1>10 DEF CloudInv

\* A step of the converter keeps its invariant, and is a step of the message the
\* client is promised.
LEMMA CloudStep ==
  ASSUME CloudInv, CloudNext PROVE CloudInv' /\ (Promise!MSNext \/ message' = message)
<1>1. CASE Take /\ UNCHANGED <<conv, parts, cutoff, ended>>
  <2>1. PICK z : /\ Delivers(wire, message, z)
                 /\ IF ended THEN CloudEnded(z) ELSE CloudOK(conv, z, z, 0) /\ ToolsKnown(conv, z)
        BY DEF CloudInv
  <2>2. message \in Msg BY DEF CloudInv
  <2>3. Promise!MSNext /\ message' \in Msg /\ Delivers(wire', message', z)
        BY <1>1, <2>1, <2>2, TakePromised
  <2>4. /\ CloudTypeOK' /\ conv'.out = <<>> /\ conv'.stop \in {"tool_use", Heard(cutoff')}
        /\ ended' = ended /\ conv' = conv
        BY <1>1 DEF CloudInv, CloudTypeOK
  <2>5. CloudEnded(z) => CloudEnded(z)' BY <2>4 DEF CloudEnded
  <2> QED BY <2>1, <2>3, <2>4, <2>5 DEF CloudInv
<1>2. ASSUME NEW kinds \in BoundedSeq(CloudKinds, MaxFrame),
             NEW finish \in IF cutoff = "none" THEN {"none", "STOP", "MAX_TOKENS", "SAFETY"} ELSE {"none"},
             Frame(kinds, finish)
      PROVE  CloudInv' /\ message' = message
  <2>1. kinds \in Seq(CloudKinds) BY CloudStreamAssumption, BoundedIsSeq DEF CloudStreamAssumption
  <2> QED BY <1>2, <2>1, CloudFrame
<1> QED BY <1>1, <1>2, CloudEnd DEF CloudNext

\* And the stop reason told is the one of the turn.
LEMMA CloudTold == ASSUME CloudInv PROVE CloudStop
<1>1. SUFFICES ASSUME ended, wire = <<>>, message.phase = "done"
               PROVE  message.stop = CASE ToolShown(message) -> "tool_use"
                        [] ~ToolShown(message) /\ cutoff = "MAX_TOKENS" -> "max_tokens"
                        [] OTHER -> "end_turn"
      BY DEF CloudStop, CloudConcluded
<1>2. PICK z : Delivers(wire, message, z) /\ CloudEnded(z) BY <1>1 DEF CloudInv
<1>3. z = message BY <1>1, <1>2, NothingLeft
<1>4. ToolsKnown(conv, message) /\ message.stop = IF conv.stop = "none" THEN "end_turn" ELSE conv.stop
      BY <1>1, <1>2, <1>3 DEF CloudEnded
<1>5. conv.stop \in {"tool_use", Heard(cutoff)} BY DEF CloudInv
<1>6. CASE ToolShown(message) BY <1>4, <1>6 DEF ToolsKnown
<1>7. CASE ~ToolShown(message)
  <2>1. conv.stop = Heard(cutoff) BY <1>4, <1>5, <1>7 DEF ToolsKnown
  <2> QED BY <1>4, <1>7, <2>1 DEF Heard
<1> QED BY <1>6, <1>7

LEMMA CloudStill ==
  ASSUME CloudInv, UNCHANGED <<wire, message, conv, parts, cutoff, ended>> PROVE CloudInv'
BY DEF CloudInv, CloudTypeOK, CloudEnded

-----------------------------------------------------------------------------
(* The translator of the Responses wire *)

ZrRec ==
  [block : [Items -> Nat], sent : [Items -> [ItemParts -> Texts]], dropped : SUBSET Items,
   toolItems : Nat, settled : BOOLEAN, started : BOOLEAN, failed : BOOLEAN,
   current : Nat, kind : Kinds \cup {"none"}, next : Nat, stop : StopReasons \cup {"none"},
   out : Seq(Events)]
ZupRec ==
  [deltas : [Items -> [ItemParts -> Nat]], refusing : SUBSET Items, added : SUBSET Items,
   done : SUBSET Items, restated : BOOLEAN, reason : Reasons, over : BOOLEAN]
RTypeOK == answer \in Answers /\ tagged \in BOOLEAN /\ zr \in ZrRec /\ zup \in ZupRec

IsCall(i) == answer[i].type = "function_call"

\* The block of a call is a tool block of its own, with its arguments only.
ROwned(s, z) ==
  /\ \A i \in Items : IsCall(i) /\ s.block[i] # 0 =>
       /\ s.block[i] \in 1..Len(z.blocks) /\ z.blocks[s.block[i]].kind = "tool"
       /\ \A n \in 1..Len(z.blocks[s.block[i]].text) : z.blocks[s.block[i]].text[n].item = i
  /\ \A i, j \in Items :
       IsCall(i) /\ IsCall(j) /\ s.block[i] = s.block[j] /\ s.block[i] # 0 => i = j

ROK(s, m, z) ==
  /\ s \in ZrRec /\ At(s, m, z) /\ Decent(z) /\ ROwned(s, z)
  /\ s.toolItems > 0 <=> ToolShown(z)

\* A refusal that was shown is the turn's stop reason.
Declines(s) == \A i \in Items : s.sent[i]["refusal"] # <<>> => s.stop = "refusal"

SameMarks(r, s) == r.stop = s.stop /\ r.started = s.started /\ r.settled = s.settled
SameRefusals(r, s) == \A j \in Items : r.sent[j]["refusal"] = s.sent[j]["refusal"]

LEMMA ROwnBlock ==
  ASSUME NEW s, NEW z, ROwned(s, z), NEW c \in Items, IsCall(c), s.block[c] # 0
  PROVE  /\ s.block[c] \in 1..Len(z.blocks) /\ z.blocks[s.block[c]].kind = "tool"
         /\ \A n \in 1..Len(z.blocks[s.block[c]].text) : z.blocks[s.block[c]].text[n].item = c
BY DEF ROwned

\* What the calls have depends on their blocks only.
LEMMA ROwnedKept ==
  ASSUME NEW s, NEW z, ROwned(s, z), NEW r, \A c \in Items : IsCall(c) => r.block[c] = s.block[c]
  PROVE  ROwned(r, z)
<1>1. ASSUME NEW c \in Items, IsCall(c), r.block[c] # 0
      PROVE  /\ r.block[c] \in 1..Len(z.blocks) /\ z.blocks[r.block[c]].kind = "tool"
             /\ \A n \in 1..Len(z.blocks[r.block[c]].text) : z.blocks[r.block[c]].text[n].item = c
  <2>1. r.block[c] = s.block[c] BY <1>1
  <2> QED BY <1>1, <2>1, ROwnBlock
<1>2. \A c, d \in Items : IsCall(c) /\ IsCall(d) /\ r.block[c] = r.block[d] /\ r.block[c] # 0 => c = d
      BY DEF ROwned
<1> QED BY <1>1, <1>2 DEF ROwned

LEMMA AnswerFacts ==
  ASSUME answer \in Answers
  PROVE  /\ Items = 1..Len(answer) /\ Len(answer) \in Nat
         /\ \A i \in Items : /\ i \in Nat /\ answer[i].type \in {"reasoning", "message", "function_call"}
                             /\ answer[i].injected \in BOOLEAN
                             /\ \A p \in ItemParts : answer[i].size[p] \in Nat
                             /\ \A p \in ItemParts : answer[i].size[p] > 0 =>
                                  p \in (CASE answer[i].type = "reasoning" -> {"thinking"}
                                           [] answer[i].type = "message" -> {"text", "refusal"}
                                           [] OTHER -> {"args"})
<1> DEFINE T == [type : DOMAIN OwnParts, injected : BOOLEAN, size : [ItemParts -> Nat]]
<1>1. /\ answer \in Seq(T)
      /\ \A i \in Items, p \in ItemParts : answer[i].size[p] > 0 => p \in OwnParts[answer[i].type]
      BY ZenResponsesAssumption DEF ZenResponsesAssumption, Items
<1> HIDE DEF T
<1>2. Items = 1..Len(answer) /\ Len(answer) \in Nat /\ \A i \in Items : answer[i] \in T
      BY <1>1 DEF Items
<1>3. DOMAIN OwnParts = {"reasoning", "message", "function_call"} BY DEF OwnParts
<1>4. \A i \in Items : /\ i \in Nat /\ answer[i].type \in {"reasoning", "message", "function_call"}
                       /\ answer[i].injected \in BOOLEAN
                       /\ \A p \in ItemParts : answer[i].size[p] \in Nat
      BY <1>2, <1>3 DEF T
<1>5. \A i \in Items, p \in ItemParts : answer[i].size[p] > 0 =>
        p \in (CASE answer[i].type = "reasoning" -> {"thinking"}
                 [] answer[i].type = "message" -> {"text", "refusal"}
                 [] OTHER -> {"args"})
      BY <1>1, <1>4 DEF OwnParts
<1> QED BY <1>2, <1>4, <1>5

-----------------------------------------------------------------------------
(* The emitter's record *)

LEMMA REmitType ==
  ASSUME NEW s \in ZrRec, NEW e \in Events
  PROVE  Emit(s, e) \in ZrRec /\ Emit(s, e).next = s.next
<1> DEFINE w == Append(s.out, e)
<1>1. w \in Seq(Events) BY DEF ZrRec
<1>2. Emit(s, e) = [s EXCEPT !.out = w] BY DEF Emit
<1> HIDE DEF w
<1> QED BY <1>1, <1>2 DEF ZrRec

LEMMA ROpenType ==
  ASSUME NEW s \in ZrRec, NEW kind \in Kinds
  PROVE  OpenNext(s, kind) \in ZrRec
<1> DEFINE c == CloseCurrent(s)
           d == Emit(c, BlockStart(s.next, kind))
<1>1. s.current \in Nat /\ s.next \in Nat BY DEF ZrRec
<1>2. Emit(s, BlockStop(s.current)) \in ZrRec /\ Emit(s, BlockStop(s.current)).next = s.next
      BY <1>1, EventsOf, REmitType
<1> DEFINE f == Emit(s, BlockStop(s.current))
<1> HIDE DEF f
<1>3. c \in ZrRec /\ c.next = s.next
  <2>1. f \in ZrRec /\ f.next = s.next BY <1>2 DEF f
  <2>2. c = IF s.current = 0 THEN s ELSE [f EXCEPT !.current = 0, !.kind = "none"]
        BY DEF CloseCurrent, f
  <2> HIDE DEF c
  <2> QED BY <2>1, <2>2 DEF ZrRec
<1> HIDE DEF c
<1>4. d \in ZrRec /\ d.next = s.next BY <1>1, <1>3, EventsOf, REmitType
<1> DEFINE n == d.next + 1
<1>6. n \in Nat BY <1>1, <1>4
<1>7. OpenNext(s, kind) = [d EXCEPT !.current = s.next, !.kind = kind, !.next = n]
      BY <1>4 DEF OpenNext, ZrRec, c
<1> HIDE DEF d, n
<1> QED BY <1>1, <1>4, <1>6, <1>7 DEF ZrRec

LEMMA RWriteType ==
  ASSUME NEW s \in ZrRec, NEW text \in Texts
  PROVE  Write(s, text) \in ZrRec
<1>1. s.current \in Nat BY DEF ZrRec
<1> QED BY <1>1, EventsOf, REmitType DEF Write

LEMMA RStartType == ASSUME NEW s \in ZrRec PROVE StartMessage(s) \in ZrRec
<1> DEFINE f == Emit(s, MessageStart)
<1>1. f \in ZrRec BY EventsOf, REmitType
<1>2. StartMessage(s) = IF s.started THEN s ELSE [f EXCEPT !.started = TRUE] BY DEF StartMessage
<1> HIDE DEF f
<1>3. [f EXCEPT !.started = TRUE] \in ZrRec BY <1>1 DEF ZrRec
<1> QED BY <1>2, <1>3

\* A change of other fields.
LEMMA RAtKept ==
  ASSUME NEW s, NEW m, NEW z, At(s, m, z), NEW r, r = [x \in DOMAIN r |-> r[x]],
         DOMAIN r = DOMAIN s, r.started = s.started, r.next = s.next, r.current = s.current,
         r.kind = s.kind, r.out = s.out
  PROVE  At(r, m, z)
BY DEF At

\* What is noted as sent, and the stop reason.
LEMMA RRecord ==
  ASSUME NEW s, NEW m, NEW z, ROK(s, m, z), NEW i \in Items, NEW p \in ItemParts, NEW text \in Texts
  PROVE  LET r == Record(s, i, p, text)
         IN /\ ROK(r, m, z) /\ SameMarks(r, s)
            /\ r.kind = s.kind /\ r.current = s.current /\ r.block = s.block /\ r.dropped = s.dropped
            /\ p # "refusal" => SameRefusals(r, s)
<1> DEFINE w == s.sent[i][p] \o text
           v == [s.sent EXCEPT ![i][p] = w]
           r == Record(s, i, p, text)
<1>1. s \in ZrRec /\ At(s, m, z) /\ Decent(z) /\ ROwned(s, z) /\ (s.toolItems > 0 <=> ToolShown(z))
      BY DEF ROK
<1>2. w \in Texts
  <2>1. s.sent[i][p] \in Texts BY <1>1 DEF ZrRec
  <2> QED BY <2>1 DEF Texts
<1>3. r = [s EXCEPT !.sent = v] BY DEF Record
<1>4. "refusal" \in ItemParts BY DEF ItemParts
<1> HIDE DEF w
<1>5. /\ v \in [Items -> [ItemParts -> Texts]]
      /\ p # "refusal" => \A j \in Items : v[j]["refusal"] = s.sent[j]["refusal"]
      BY <1>1, <1>2, <1>4 DEF ZrRec
<1> HIDE DEF v, r
<1>6. /\ r \in ZrRec /\ r.stop = s.stop /\ r.started = s.started /\ r.settled = s.settled
      /\ r.kind = s.kind /\ r.current = s.current /\ r.block = s.block /\ r.dropped = s.dropped
      /\ r.sent = v /\ r.toolItems = s.toolItems
      /\ r = [x \in DOMAIN r |-> r[x]] /\ DOMAIN r = DOMAIN s /\ r.next = s.next /\ r.out = s.out
      BY <1>1, <1>3, <1>5 DEF ZrRec
<1>7. At(r, m, z) BY <1>1, <1>6, RAtKept
<1>8. ROwned(r, z) BY <1>1, <1>6, ROwnedKept
<1>9. SameMarks(r, s) /\ (p # "refusal" => SameRefusals(r, s))
      BY <1>5, <1>6 DEF SameMarks, SameRefusals
<1>10. ROK(r, m, z) BY <1>1, <1>6, <1>7, <1>8 DEF ROK
<1> QED BY <1>6, <1>9, <1>10 DEF r

LEMMA RMarks ==
  ASSUME NEW s, NEW m, NEW z, ROK(s, m, z), NEW stop \in StopReasons
  PROVE  LET r == [s EXCEPT !.stop = stop]
         IN /\ ROK(r, m, z) /\ r.stop = stop /\ r.started = s.started /\ r.settled = s.settled
            /\ r.kind = s.kind /\ r.current = s.current /\ r.block = s.block /\ r.dropped = s.dropped
            /\ r.sent = s.sent
<1> DEFINE r == [s EXCEPT !.stop = stop]
<1>1. s \in ZrRec /\ At(s, m, z) /\ Decent(z) /\ ROwned(s, z) /\ (s.toolItems > 0 <=> ToolShown(z))
      BY DEF ROK
<1>2. /\ r \in ZrRec /\ r.stop = stop /\ r.started = s.started /\ r.settled = s.settled
      /\ r.kind = s.kind /\ r.current = s.current /\ r.block = s.block /\ r.dropped = s.dropped
      /\ r.sent = s.sent /\ r.toolItems = s.toolItems
      /\ r = [x \in DOMAIN r |-> r[x]] /\ DOMAIN r = DOMAIN s /\ r.next = s.next /\ r.out = s.out
      BY <1>1 DEF ZrRec
<1> HIDE DEF r
<1>3. At(r, m, z) BY <1>1, <1>2, RAtKept
<1>4. ROwned(r, z) BY <1>1, <1>2, ROwnedKept
<1> QED BY <1>1, <1>2, <1>3, <1>4 DEF ROK, r

LEMMA RSettles ==
  ASSUME NEW s, NEW m, NEW z, ROK(s, m, z)
  PROVE  LET r == [s EXCEPT !.settled = TRUE]
         IN /\ ROK(r, m, z) /\ r.stop = s.stop /\ r.started = s.started /\ r.sent = s.sent
<1> DEFINE r == [s EXCEPT !.settled = TRUE]
<1>1. s \in ZrRec /\ At(s, m, z) /\ Decent(z) /\ ROwned(s, z) /\ (s.toolItems > 0 <=> ToolShown(z))
      BY DEF ROK
<1>2. /\ r \in ZrRec /\ r.stop = s.stop /\ r.started = s.started
      /\ r.kind = s.kind /\ r.current = s.current /\ r.block = s.block
      /\ r.sent = s.sent /\ r.toolItems = s.toolItems
      /\ r = [x \in DOMAIN r |-> r[x]] /\ DOMAIN r = DOMAIN s /\ r.next = s.next /\ r.out = s.out
      BY <1>1 DEF ZrRec
<1> HIDE DEF r
<1>3. At(r, m, z) BY <1>1, <1>2, RAtKept
<1>4. ROwned(r, z) BY <1>1, <1>2, ROwnedKept
<1> QED BY <1>1, <1>2, <1>3, <1>4 DEF ROK, r

\* The first event of a stream.
LEMMA RStarts ==
  ASSUME NEW s, NEW m, NEW z, ROK(s, m, z)
  PROVE  LET r == StartMessage(s)
         IN /\ r.stop = s.stop /\ r.started /\ r.sent = s.sent /\ r.settled = s.settled
            /\ r.block = s.block /\ r.dropped = s.dropped
            /\ \E y : ROK(r, m, y)
<1> DEFINE r == StartMessage(s)
<1>1. s \in ZrRec /\ At(s, m, z) /\ Decent(z) /\ ROwned(s, z) /\ (s.toolItems > 0 <=> ToolShown(z))
      BY DEF ROK
<1>2. Keeps(r, s, {"started", "out"}) /\ r.started BY <1>1, StartOK
<1>3. PICK y : At(r, m, y) /\ y.blocks = z.blocks BY <1>1, StartOK
<1>4. r \in ZrRec BY <1>1, RStartType
<1> HIDE DEF r
<1>5. r.block = s.block /\ r.dropped = s.dropped /\ r.stop = s.stop /\ r.sent = s.sent
      /\ r.settled = s.settled /\ r.toolItems = s.toolItems
      BY <1>1, <1>2 DEF Keeps, ZrRec
<1>6. Decent(y) /\ ROwned(r, y) /\ (ToolShown(y) <=> ToolShown(z))
      BY <1>1, <1>3, <1>5 DEF Decent, DecentBut, ROwned, ToolShown
<1> QED BY <1>1, <1>2, <1>3, <1>4, <1>5, <1>6 DEF ROK, r

\* The pieces of item i, of the parts P.
PiecesOf(text, i, P) ==
  text \in Texts /\ \A n \in 1..Len(text) : text[n].item = i /\ text[n].part \in P

LEMMA PiecesAre ==
  ASSUME NEW i \in Nat, NEW p \in ItemParts, NEW k \in Nat
  PROVE  PiecesOf(Pieces(i, p, k), i, {p}) /\ Len(Pieces(i, p, k)) = k
<1> DEFINE P == [item : Nat, part : PieceParts, n : Nat]
           q == Pieces(i, p, k)
<1>1. \A n \in 1..k : Piece(i, p, n) \in P /\ Piece(i, p, n).item = i /\ Piece(i, p, n).part = p
      BY DEF Piece, ItemParts, PieceParts
<1>2. q = [n \in 1..k |-> Piece(i, p, n)] BY DEF Pieces
<1> HIDE DEF P, q
<1>3. q \in Seq(P) /\ Len(q) = k BY <1>1, <1>2
<1>4. q \in Texts BY <1>3 DEF Texts, P
<1> QED BY <1>1, <1>2, <1>3, <1>4 DEF PiecesOf, q

LEMMA WholeIs ==
  ASSUME answer \in Answers, NEW i \in Items, NEW p \in ItemParts
  PROVE  PiecesOf(Whole(i, p), i, {p}) /\ Len(Whole(i, p)) = answer[i].size[p]
<1>1. i \in Nat /\ answer[i].size[p] \in Nat BY AnswerFacts
<1> QED BY <1>1, PiecesAre DEF Whole

LEMMA JoinedIs ==
  ASSUME NEW i \in Nat, NEW k \in Nat
  PROVE  PiecesOf(Joined(i, k), i, {"thinking", "gap"})
<1> DEFINE P == [item : Nat, part : PieceParts, n : Nat]
           l == IF k = 0 THEN 0 ELSE 2 * k - 1
           e(n) == IF n % 2 = 1 THEN Piece(i, "thinking", (n + 1) \div 2) ELSE Gap(i)
           q == [n \in 1..l |-> e(n)]
<1>1. l \in Nat OBVIOUS
<1>2. ASSUME NEW n \in 1..l PROVE e(n) \in P /\ e(n).item = i /\ e(n).part \in {"thinking", "gap"}
  <2>1. (n + 1) \div 2 \in Nat BY <1>1
  <2>2. /\ Piece(i, "thinking", (n + 1) \div 2) \in P
        /\ Piece(i, "thinking", (n + 1) \div 2).item = i
        /\ Piece(i, "thinking", (n + 1) \div 2).part = "thinking"
        BY <2>1 DEF Piece, PieceParts
  <2>3. Gap(i) \in P /\ Gap(i).item = i /\ Gap(i).part = "gap" BY DEF Gap, PieceParts
  <2> QED BY <2>2, <2>3
<1>3. Joined(i, k) = q BY DEF Joined
<1> HIDE DEF P, e, l
<1>4. q \in Seq(P) /\ Len(q) = l /\ \A n \in 1..l : q[n] = e(n) BY <1>1, <1>2
<1> HIDE DEF q
<1> QED BY <1>2, <1>3, <1>4 DEF PiecesOf, Texts, P

\* missing: a later part of the text, and all of it where nothing was sent.
LEMMA MissingIs ==
  ASSUME NEW s \in ZrRec, NEW i \in Items, NEW p \in ItemParts, NEW full,
         NEW j, NEW P, PiecesOf(full, j, P)
  PROVE  LET rest == Missing(s, i, p, full)
         IN /\ PiecesOf(rest, j, P)
            /\ full = <<>> => rest = <<>>
            /\ s.sent[i][p] = <<>> /\ full # <<>> => rest # <<>>
<1> DEFINE sent == s.sent[i][p]
           T == [item : Nat, part : PieceParts, n : Nat]
           rest == Missing(s, i, p, full)
           later == SubSeq(full, Len(sent) + 1, Len(full))
<1>1. sent \in Seq(T) /\ full \in Seq(T) BY DEF ZrRec, Texts, PiecesOf
<1>2. \A n \in 1..Len(full) : full[n].item = j /\ full[n].part \in P BY DEF PiecesOf
<1>3. rest = IF IsStrictPrefix(sent, full) THEN later ELSE <<>> BY DEF Missing
<1> HIDE DEF sent, T, rest
<1>4. Len(sent) \in Nat /\ Len(full) \in Nat BY <1>1
<1>5. IsStrictPrefix(sent, full) => Len(sent) <= Len(full) /\ sent # full
      BY <1>1 DEF IsStrictPrefix, IsPrefix
<1>6. ASSUME IsStrictPrefix(sent, full)
      PROVE  /\ later \in Seq(T) /\ Len(later) = Len(full) - Len(sent)
             /\ \A n \in 1..Len(later) : later[n] = full[Len(sent) + n] /\ Len(sent) + n \in 1..Len(full)
      BY <1>1, <1>4, <1>5, <1>6
<1>7. PiecesOf(rest, j, P)
  <2>1. CASE IsStrictPrefix(sent, full)
    <3>1. rest = later BY <1>3, <2>1
    <3>2. later \in Texts BY <1>6, <2>1 DEF Texts, T
    <3> QED BY <1>2, <1>6, <2>1, <3>1, <3>2 DEF PiecesOf
  <2>2. CASE ~IsStrictPrefix(sent, full)
    <3>1. rest = <<>> /\ <<>> \in Texts /\ Len(<<>>) = 0 BY <1>3, <2>2 DEF Texts
    <3> QED BY <3>1 DEF PiecesOf
  <2> QED BY <2>1, <2>2
<1>8. full = <<>> => rest = <<>>
  <2>1. SUFFICES ASSUME full = <<>> PROVE ~IsStrictPrefix(sent, full) BY <1>3
  <2>2. Len(full) = 0 BY <2>1
  <2>3. Len(sent) <= 0 => sent = <<>> BY <1>1
  <2> QED BY <1>5, <2>1, <2>2, <2>3
<1>9. sent = <<>> /\ full # <<>> => rest # <<>>
  <2>1. SUFFICES ASSUME sent = <<>>, full # <<>> PROVE rest # <<>> OBVIOUS
  <2>2. Len(sent) = 0 /\ Len(full) > 0 BY <1>1, <2>1
  <2>3. SubSeq(sent, 1, Len(sent)) = <<>> /\ SubSeq(full, 1, Len(sent)) = <<>> BY <1>1, <2>1, <2>2
  <2>4. IsStrictPrefix(sent, full) BY <2>1, <2>2, <2>3 DEF IsStrictPrefix, IsPrefix
  <2>5. Len(later) > 0 BY <1>6, <2>2, <2>4
  <2>6. rest = later BY <1>3, <2>4
  <2> HIDE DEF later
  <2> QED BY <2>5, <2>6
<1> QED BY <1>7, <1>8, <1>9 DEF sent, rest

\* A block is opened.
LEMMA ROpens ==
  ASSUME NEW s, NEW m, NEW z, ROK(s, m, z), s.started, NEW kind \in Kinds
  PROVE  LET r == OpenNext(s, kind)
             k == Len(z.blocks)
         IN /\ r \in ZrRec /\ r.current = k + 1 /\ r.kind = kind /\ k \in Nat
            /\ r.block = s.block /\ r.dropped = s.dropped /\ r.sent = s.sent
            /\ r.toolItems = s.toolItems /\ SameMarks(r, s)
            /\ \E y : /\ At(r, m, y) /\ Len(y.blocks) = k + 1 /\ DecentBut(y, k + 1)
                      /\ y.blocks[k + 1].kind = kind /\ y.blocks[k + 1].text = <<>>
                      /\ ToolShown(y) <=> ToolShown(z) \/ kind = "tool"
                      /\ ROwned(r, y)
                      /\ \A i \in Items : IsCall(i) /\ r.block[i] # 0 => r.block[i] \in 1..k
<1> DEFINE r == OpenNext(s, kind)
           k == Len(z.blocks)
<1>1. s \in ZrRec /\ At(s, m, z) /\ Decent(z) /\ ROwned(s, z) BY DEF ROK
<1>2. r \in ZrRec BY <1>1, ROpenType
<1>3. Keeps(r, s, {"current", "kind", "next", "out"}) /\ r.current = k + 1 /\ r.kind = kind /\ k \in Nat
      BY <1>1, OpenDecent
<1>4. /\ r.block = s.block /\ r.dropped = s.dropped /\ r.sent = s.sent
      /\ r.toolItems = s.toolItems /\ SameMarks(r, s)
      BY <1>1, <1>3 DEF Keeps, ZrRec, SameMarks
<1>5. PICK y : /\ At(r, m, y) /\ Len(y.blocks) = k + 1 /\ DecentBut(y, k + 1)
               /\ y.blocks[k + 1].kind = kind /\ y.blocks[k + 1].text = <<>>
               /\ \A i \in 1..k : SameBlock(y, z, i)
      BY <1>1, OpenDecent
<1> HIDE DEF r
<1>6. \A i \in Items : IsCall(i) /\ r.block[i] # 0 => r.block[i] \in 1..k
      BY <1>1, <1>4 DEF ROwned
<1>7. ROwned(r, y)
  <2>1. ASSUME NEW c \in Items, IsCall(c), r.block[c] # 0
        PROVE  /\ r.block[c] \in 1..Len(y.blocks) /\ y.blocks[r.block[c]].kind = "tool"
               /\ \A n \in 1..Len(y.blocks[r.block[c]].text) : y.blocks[r.block[c]].text[n].item = c
    <3>1. s.block[c] \in 1..k /\ r.block[c] = s.block[c] BY <1>1, <1>4, <2>1 DEF ROwned
    <3>2. SameBlock(y, z, s.block[c]) BY <1>5, <3>1
    <3>3. r.block[c] \in 1..Len(y.blocks) BY <1>3, <1>5, <3>1
    <3> HIDE DEF k
    <3>4. /\ z.blocks[s.block[c]].kind = "tool"
          /\ \A n \in 1..Len(z.blocks[s.block[c]].text) : z.blocks[s.block[c]].text[n].item = c
          BY <1>1, <2>1, <3>1, ROwnBlock
    <3> QED BY <3>1, <3>2, <3>3, <3>4 DEF SameBlock
  <2>2. \A i, j \in Items : IsCall(i) /\ IsCall(j) /\ r.block[i] = r.block[j] /\ r.block[i] # 0 => i = j
        BY <1>1, <1>4 DEF ROwned
  <2> QED BY <2>1, <2>2 DEF ROwned
<1>8. ToolShown(y) <=> ToolShown(z) \/ kind = "tool"
  <2>1. DOMAIN y.blocks = 1..(k + 1) /\ DOMAIN z.blocks = 1..k
    <3>1. y \in Msg /\ z \in Msg BY <1>1, <1>5 DEF At
    <3>2. DOMAIN y.blocks = 1..Len(y.blocks) /\ DOMAIN z.blocks = 1..Len(z.blocks) BY <3>1, MsgFields
    <3> QED BY <1>5, <3>2
  <2>2. \A i \in 1..k : y.blocks[i].kind = z.blocks[i].kind BY <1>5 DEF SameBlock
  <2>3. 1..(k + 1) = (1..k) \cup {k + 1} BY <1>3
  <2> HIDE DEF k
  <2> QED BY <1>5, <2>1, <2>2, <2>3 DEF ToolShown
<1> QED BY <1>2, <1>3, <1>4, <1>5, <1>6, <1>7, <1>8 DEF r

\* And something is written to it: text of its kind, or arguments of the call that owns it.
LEMMA RWrites ==
  ASSUME NEW s \in ZrRec, NEW m, NEW z, At(s, m, z), s.current # 0,
         NEW j \in {0, s.current}, DecentBut(z, j), ROwned(s, z), s.toolItems > 0 <=> ToolShown(z),
         NEW text, text # <<>>, NEW i \in Items, NEW P, PiecesOf(text, i, P), "signature" \notin P,
         \A n \in 1..Len(text) : Promise!Fits(text[n], z.blocks[s.current].kind),
         z.blocks[s.current].kind = "tool" => IsCall(i) /\ s.block[i] = s.current
  PROVE  LET r == Write(s, text)
         IN /\ r.block = s.block /\ r.dropped = s.dropped /\ r.sent = s.sent
            /\ SameMarks(r, s) /\ \E y : ROK(r, m, y)
<1> DEFINE r == Write(s, text)
           k == s.current
<1>1. text \in Texts /\ \A n \in 1..Len(text) : text[n].item = i /\ text[n].part # "signature"
      BY DEF PiecesOf
<1>2. r \in ZrRec BY <1>1, RWriteType
<1>3. z.blocks[k].kind = "tool" => \A n \in 1..Len(z.blocks[k].text) : z.blocks[k].text[n].item = i
  <2>1. ASSUME z.blocks[k].kind = "tool" PROVE IsCall(i) /\ s.block[i] = k /\ s.block[i] # 0
        BY <2>1
  <2> QED BY <2>1, ROwnBlock
<1>4. /\ Keeps(r, s, {"out"}) /\ k \in 1..Len(z.blocks)
      /\ \E y : /\ At(r, m, y) /\ Len(y.blocks) = Len(z.blocks) /\ Decent(y)
                /\ y.blocks[k].kind = z.blocks[k].kind
                /\ y.blocks[k].text = z.blocks[k].text \o text
                /\ \A l \in 1..Len(z.blocks) : l # k => SameBlock(y, z, l)
  <2>1. z.blocks[s.current].kind = "tool" =>
           \E l : /\ \A n \in 1..Len(z.blocks[s.current].text) : z.blocks[s.current].text[n].item = l
                  /\ \A n \in 1..Len(text) : text[n].item = l
        BY <1>1, <1>3
  <2> QED BY <1>1, <2>1, WriteDecent
<1>5. PICK y : /\ At(r, m, y) /\ Len(y.blocks) = Len(z.blocks) /\ Decent(y)
               /\ y.blocks[k].kind = z.blocks[k].kind
               /\ y.blocks[k].text = z.blocks[k].text \o text
               /\ \A l \in 1..Len(z.blocks) : l # k => SameBlock(y, z, l)
      BY <1>4
<1>6. /\ r.block = s.block /\ r.dropped = s.dropped /\ r.sent = s.sent /\ SameMarks(r, s)
      /\ r.toolItems = s.toolItems
      BY <1>4 DEF Keeps, ZrRec, SameMarks
<1> HIDE DEF r
<1>7. ROwned(r, y)
  <2>1. ASSUME NEW c \in Items, IsCall(c), r.block[c] # 0
        PROVE  /\ r.block[c] \in 1..Len(y.blocks) /\ y.blocks[r.block[c]].kind = "tool"
               /\ \A n \in 1..Len(y.blocks[r.block[c]].text) : y.blocks[r.block[c]].text[n].item = c
    <3> DEFINE l == s.block[c]
    <3>1. /\ r.block[c] = l /\ l # 0 /\ l \in 1..Len(z.blocks) /\ z.blocks[l].kind = "tool"
          /\ \A n \in 1..Len(z.blocks[l].text) : z.blocks[l].text[n].item = c
          BY <1>6, <2>1 DEF ROwned
    <3>2. CASE l # k
      <4> HIDE DEF l
      <4>1. SameBlock(y, z, l) BY <1>5, <3>1, <3>2
      <4> QED BY <1>5, <3>1, <4>1 DEF SameBlock
    <3>3. CASE l = k
      <4>1. c = i BY <2>1, <3>1, <3>3 DEF ROwned
      <4> HIDE DEF l
      <4>2. z.blocks[k].text \in Texts
        <5>1. z \in Msg BY DEF At
        <5>2. z.blocks[k] \in Block BY <1>4, <5>1, MsgFields
        <5> QED BY <5>2 DEF Block
      <4> DEFINE t == z.blocks[k].text
      <4> t \in Texts BY <4>2
      <4>4. \A n \in 1..Len(t) : t[n].item = c BY <3>1, <3>3
      <4> HIDE DEF t
      <4>3. /\ Len(t \o text) = Len(t) + Len(text) /\ Len(t) \in Nat /\ Len(text) \in Nat
            /\ \A n \in 1..Len(t) : (t \o text)[n] = t[n]
            /\ \A n \in Len(t) + 1..Len(t) + Len(text) : (t \o text)[n] = text[n - Len(t)]
        <5> DEFINE Q == [item : Nat, part : PieceParts, n : Nat]
        <5>1. t \in Seq(Q) /\ text \in Seq(Q) BY <1>1 DEF Texts
        <5> HIDE DEF Q
        <5> QED BY <5>1
      <4>5. \A n \in 1..Len(t \o text) : (t \o text)[n].item = c
        <5> TAKE n \in 1..Len(t \o text)
        <5>1. CASE n \in 1..Len(t) BY <4>3, <4>4, <5>1
        <5>2. CASE n \notin 1..Len(t)
          <6>1. n \in Len(t) + 1..Len(t) + Len(text) /\ n - Len(t) \in 1..Len(text) BY <4>3, <5>2
          <6> QED BY <1>1, <4>1, <4>3, <6>1
        <5> QED BY <5>1, <5>2
      <4>6. y.blocks[k].text = t \o text BY <1>5 DEF t
      <4>7. r.block[c] = k /\ k \in 1..Len(z.blocks) /\ z.blocks[k].kind = "tool" BY <3>1, <3>3
      <4>8. Len(y.blocks) = Len(z.blocks) /\ y.blocks[k].kind = z.blocks[k].kind BY <1>5
      <4> QED BY <4>5, <4>6, <4>7, <4>8
    <3> QED BY <3>2, <3>3
  <2>2. \A d, e \in Items : IsCall(d) /\ IsCall(e) /\ r.block[d] = r.block[e] /\ r.block[d] # 0 => d = e
        BY <1>6 DEF ROwned
  <2> QED BY <2>1, <2>2 DEF ROwned
<1>8. ToolShown(y) <=> ToolShown(z)
  <2>1. y \in Msg /\ z \in Msg BY <1>5 DEF At
  <2>2. DOMAIN y.blocks = 1..Len(y.blocks) /\ DOMAIN z.blocks = 1..Len(z.blocks) BY <2>1, MsgFields
  <2>3. \A l \in 1..Len(z.blocks) : y.blocks[l].kind = z.blocks[l].kind BY <1>5 DEF SameBlock
  <2> QED BY <1>5, <2>2, <2>3 DEF ToolShown
<1>9. ROK(r, m, y) BY <1>2, <1>5, <1>6, <1>7, <1>8 DEF ROK
<1> QED BY <1>6, <1>9 DEF r

KindParts(kind) == IF kind = "thinking" THEN {"thinking", "gap"} ELSE {"text", "refusal"}

LEMMA KindFits ==
  ASSUME NEW kind \in {"text", "thinking"}, NEW text, NEW i, NEW P,
         PiecesOf(text, i, P), P \subseteq KindParts(kind)
  PROVE  /\ \A n \in 1..Len(text) : Promise!Fits(text[n], kind)
         /\ "signature" \notin P
<1>1. \A n \in 1..Len(text) : text[n].part \in KindParts(kind) BY DEF PiecesOf
<1> QED BY <1>1 DEF KindParts, Promise!Fits

\* writeText and writeThinking before they write: the block, opened where it is not.
KindOpen(s, i, kind) ==
  LET b == OpenNext(s, kind) IN IF s.kind = kind THEN s ELSE [b EXCEPT !.block[i] = b.current]

Writable(o, m, kind) ==
  \E y : /\ At(o, m, y) /\ ROwned(o, y) /\ (o.toolItems > 0 <=> ToolShown(y))
         /\ y.blocks[o.current].kind = kind
         /\ \E j \in {0, o.current} : DecentBut(y, j)

LEMMA RKindOpen ==
  ASSUME NEW s, NEW m, NEW z, ROK(s, m, z), s.started, NEW i \in Items, ~IsCall(i),
         NEW kind \in {"text", "thinking"}
  PROVE  LET o == KindOpen(s, i, kind)
         IN /\ o \in ZrRec /\ o.dropped = s.dropped /\ o.sent = s.sent /\ SameMarks(o, s)
            /\ o.current # 0 /\ Writable(o, m, kind)
<1> DEFINE b == OpenNext(s, kind)
           o == KindOpen(s, i, kind)
           k == Len(z.blocks)
<1>0. s \in ZrRec /\ At(s, m, z) /\ Decent(z) /\ ROwned(s, z) /\ (s.toolItems > 0 <=> ToolShown(z))
      BY DEF ROK
<1>1. kind \in Kinds /\ kind # "tool" /\ kind # "none" BY DEF Kinds
<1>2. CASE s.kind = kind
  <2>1. o = s BY <1>2 DEF KindOpen
  <2>2. s.current # 0 /\ z.blocks[s.current].kind = kind BY <1>0, <1>1, <1>2 DEF At
  <2>3. DecentBut(z, 0) BY <1>0 DEF Decent
  <2> HIDE DEF o
  <2>4. 0 \in {0, o.current} OBVIOUS
  <2>5. Writable(o, m, kind) BY <1>0, <2>1, <2>2, <2>3, <2>4 DEF Writable
  <2> QED BY <1>0, <2>1, <2>2, <2>5 DEF SameMarks, o
<1>3. CASE s.kind # kind
  <2>1. PICK y : /\ b \in ZrRec /\ b.current = k + 1 /\ b.kind = kind /\ k \in Nat
                 /\ b.block = s.block /\ b.dropped = s.dropped /\ b.sent = s.sent
                 /\ b.toolItems = s.toolItems /\ SameMarks(b, s)
                 /\ At(b, m, y) /\ Len(y.blocks) = k + 1 /\ DecentBut(y, k + 1)
                 /\ y.blocks[k + 1].kind = kind
                 /\ (ToolShown(y) <=> ToolShown(z) \/ kind = "tool")
                 /\ ROwned(b, y)
        BY <1>1, ROpens
  <2> HIDE DEF b
  <2> DEFINE bl == [b.block EXCEPT ![i] = k + 1]
  <2>2. bl \in [Items -> Nat] /\ \A c \in Items : IsCall(c) => bl[c] = b.block[c]
        BY <2>1 DEF ZrRec
  <2>3. o = [b EXCEPT !.block = bl] BY <1>3, <2>1 DEF KindOpen, b
  <2> HIDE DEF bl, o
  <2>4. /\ o \in ZrRec /\ o.block = bl /\ o.dropped = s.dropped /\ o.sent = s.sent
        /\ o.toolItems = s.toolItems /\ SameMarks(o, s) /\ o.current = k + 1 /\ o.kind = b.kind
        /\ o = [x \in DOMAIN o |-> o[x]] /\ DOMAIN o = DOMAIN b /\ o.started = b.started
        /\ o.next = b.next /\ o.current = b.current /\ o.out = b.out
        BY <2>1, <2>2, <2>3 DEF ZrRec, SameMarks
  <2>5. At(o, m, y) BY <2>1, <2>4, RAtKept
  <2>6. ROwned(o, y)
    <3>1. \A c \in Items : IsCall(c) => o.block[c] = b.block[c] BY <2>2, <2>4
    <3> QED BY <2>1, <3>1, ROwnedKept
  <2>7. k + 1 # 0 /\ o.current \in {0, o.current} BY <2>1
  <2>8. o.toolItems > 0 <=> ToolShown(y) BY <1>0, <1>1, <2>1, <2>4
  <2>9. Writable(o, m, kind) BY <2>1, <2>4, <2>5, <2>6, <2>7, <2>8 DEF Writable
  <2>10. o.current # 0 BY <2>4, <2>7
  <2> QED BY <2>4, <2>9, <2>10 DEF o
<1> QED BY <1>2, <1>3

\* writeText and writeThinking.
LEMMA RWriteKind ==
  ASSUME NEW s, NEW m, NEW z, ROK(s, m, z), s.started, NEW i \in Items, ~IsCall(i),
         NEW kind \in {"text", "thinking"}, NEW text, text # <<>>, NEW P,
         PiecesOf(text, i, P), P \subseteq KindParts(kind)
  PROVE  LET r == WriteKind(s, i, kind, text)
         IN /\ r.dropped = s.dropped /\ r.sent = s.sent /\ SameMarks(r, s)
            /\ \E y : ROK(r, m, y)
<1> DEFINE o == KindOpen(s, i, kind)
<1>1. /\ o \in ZrRec /\ o.dropped = s.dropped /\ o.sent = s.sent /\ SameMarks(o, s)
      /\ o.current # 0 /\ Writable(o, m, kind)
      BY RKindOpen
<1>2. WriteKind(s, i, kind, text) = Write(o, text) BY DEF WriteKind, KindOpen
<1> HIDE DEF o
<1>3. PICK y : /\ At(o, m, y) /\ ROwned(o, y) /\ (o.toolItems > 0 <=> ToolShown(y))
               /\ y.blocks[o.current].kind = kind
               /\ \E j \in {0, o.current} : DecentBut(y, j)
      BY <1>1 DEF Writable
<1>4. PICK j \in {0, o.current} : DecentBut(y, j) BY <1>3
<1>5. /\ \A n \in 1..Len(text) : Promise!Fits(text[n], y.blocks[o.current].kind)
      /\ "signature" \notin P /\ y.blocks[o.current].kind # "tool"
      BY <1>3, KindFits
<1>6. LET r == Write(o, text)
      IN /\ r.block = o.block /\ r.dropped = o.dropped /\ r.sent = o.sent
         /\ SameMarks(r, o) /\ \E x : ROK(r, m, x)
      BY <1>1, <1>3, <1>4, <1>5, RWrites
<1> QED BY <1>1, <1>2, <1>6 DEF SameMarks

\* The block of a call, or the call is one the client never declared.
LEMMA ROpenCall ==
  ASSUME NEW s, NEW m, NEW z, ROK(s, m, z), s.started, NEW i \in Items, IsCall(i)
  PROVE  LET r == OpenCall(s, i)
         IN /\ r.sent = s.sent /\ SameMarks(r, s) /\ \E y : ROK(r, m, y)
<1> DEFINE r == OpenCall(s, i)
<1>0. s \in ZrRec /\ At(s, m, z) /\ Decent(z) /\ ROwned(s, z) /\ (s.toolItems > 0 <=> ToolShown(z))
      BY DEF ROK
<1>1. CASE i \in s.dropped
  <2>1. r = s BY <1>1 DEF OpenCall
  <2> QED BY <2>1 DEF SameMarks
<1>2. CASE i \notin s.dropped /\ answer[i].injected
  <2> DEFINE D == s.dropped \cup {i}
  <2>1. D \in SUBSET Items BY <1>0 DEF ZrRec
  <2>2. r = [s EXCEPT !.dropped = D] BY <1>2 DEF OpenCall
  <2> HIDE DEF D, r
  <2>3. /\ r \in ZrRec /\ r.block = s.block /\ r.sent = s.sent /\ r.toolItems = s.toolItems
        /\ SameMarks(r, s)
        /\ r = [x \in DOMAIN r |-> r[x]] /\ DOMAIN r = DOMAIN s /\ r.started = s.started
        /\ r.next = s.next /\ r.current = s.current /\ r.kind = s.kind /\ r.out = s.out
        BY <1>0, <2>1, <2>2 DEF ZrRec, SameMarks
  <2>4. At(r, m, z) BY <1>0, <2>3, RAtKept
  <2>5. ROwned(r, z) BY <1>0, <2>3, ROwnedKept
  <2>6. ROK(r, m, z) BY <1>0, <2>3, <2>4, <2>5 DEF ROK
  <2> QED BY <2>3, <2>6 DEF r
<1>3. CASE i \notin s.dropped /\ ~answer[i].injected
  <2> DEFINE b == OpenNext(s, "tool")
             k == Len(z.blocks)
  <2>1. "tool" \in Kinds BY DEF Kinds
  <2>2. PICK y : /\ b \in ZrRec /\ b.current = k + 1 /\ b.kind = "tool" /\ k \in Nat
                 /\ b.block = s.block /\ b.dropped = s.dropped /\ b.sent = s.sent
                 /\ b.toolItems = s.toolItems /\ SameMarks(b, s)
                 /\ At(b, m, y) /\ Len(y.blocks) = k + 1 /\ DecentBut(y, k + 1)
                 /\ y.blocks[k + 1].kind = "tool" /\ y.blocks[k + 1].text = <<>>
                 /\ (ToolShown(y) <=> ToolShown(z) \/ "tool" = "tool")
                 /\ ROwned(b, y)
                 /\ \A c \in Items : IsCall(c) /\ b.block[c] # 0 => b.block[c] \in 1..k
        BY <2>1, ROpens
  <2>3. r = [b EXCEPT !.block[i] = b.current, !.toolItems = @ + 1] BY <1>3 DEF OpenCall
  <2> HIDE DEF b
  <2> DEFINE bl == [b.block EXCEPT ![i] = k + 1]
             tools == s.toolItems + 1
  <2>4. bl \in [Items -> Nat] /\ bl[i] = k + 1 /\ \A c \in Items : c # i => bl[c] = b.block[c]
        BY <2>2 DEF ZrRec
  <2>5. tools \in Nat /\ tools > 0 BY <1>0 DEF ZrRec
  <2>6. r = [b EXCEPT !.block = bl, !.toolItems = tools] BY <2>2, <2>3
  <2> HIDE DEF bl, tools, r
  <2>7. /\ r \in ZrRec /\ r.block = bl /\ r.sent = s.sent /\ r.toolItems = tools
        /\ SameMarks(r, s)
        /\ r = [x \in DOMAIN r |-> r[x]] /\ DOMAIN r = DOMAIN b /\ r.started = b.started
        /\ r.next = b.next /\ r.current = b.current /\ r.kind = b.kind /\ r.out = b.out
        BY <2>2, <2>4, <2>5, <2>6 DEF ZrRec, SameMarks
  <2>8. At(r, m, y) BY <2>2, <2>7, RAtKept
  <2>9. Decent(y) BY <2>2 DEF Decent, DecentBut
  <2>10. ROwned(r, y)
    <3>1. ASSUME NEW d \in Items, IsCall(d), r.block[d] # 0
          PROVE  /\ r.block[d] \in 1..Len(y.blocks) /\ y.blocks[r.block[d]].kind = "tool"
                 /\ \A n \in 1..Len(y.blocks[r.block[d]].text) : y.blocks[r.block[d]].text[n].item = d
      <4>1. CASE d = i
        <5>1. r.block[d] = k + 1 BY <2>4, <2>7, <4>1
        <5> QED BY <2>2, <5>1
      <4>2. CASE d # i
        <5>1. r.block[d] = b.block[d] BY <2>4, <2>7, <4>2
        <5> QED BY <2>2, <3>1, <5>1 DEF ROwned
      <4> QED BY <4>1, <4>2
    <3>2. ASSUME NEW d \in Items, NEW e \in Items, IsCall(d), IsCall(e),
                 r.block[d] = r.block[e], r.block[d] # 0
          PROVE  d = e
      <4>1. \A f \in Items : IsCall(f) /\ f # i =>
              r.block[f] = b.block[f] /\ (b.block[f] # 0 => b.block[f] \in 1..k)
            BY <2>2, <2>4, <2>7
      <4>2. r.block[i] = k + 1 BY <2>4, <2>7
      <4> HIDE DEF k
      <4>3. k + 1 \notin 1..k BY <2>2
      <4> QED BY <2>2, <3>2, <4>1, <4>2, <4>3 DEF ROwned
    <3> QED BY <3>1, <3>2 DEF ROwned
  <2>11. r.toolItems > 0 /\ ToolShown(y) BY <2>2, <2>5, <2>7
  <2>12. ROK(r, m, y) BY <2>7, <2>8, <2>9, <2>10, <2>11 DEF ROK
  <2> QED BY <2>7, <2>12 DEF r
<1> HIDE DEF r
<1> QED BY <1>1, <1>2, <1>3 DEF r

LEMMA PiecesMore ==
  ASSUME NEW text, NEW i, NEW P, PiecesOf(text, i, P), NEW Q, P \subseteq Q
  PROVE  PiecesOf(text, i, Q)
BY DEF PiecesOf

\* completePart: what is missing of a part.
LEMMA RCompletePart ==
  ASSUME NEW s, NEW m, NEW z, ROK(s, m, z), s.started, NEW i \in Items, ~IsCall(i),
         NEW p \in ItemParts, NEW kind \in {"text", "thinking"}, NEW full, NEW P,
         PiecesOf(full, i, P), P \subseteq KindParts(kind)
  PROVE  LET r == CompletePart(s, i, p, kind, full)
         IN /\ SameMarks(r, s) /\ \E y : ROK(r, m, y)
            /\ p # "refusal" => SameRefusals(r, s)
            /\ Missing(s, i, p, full) = <<>> => r = s
<1> DEFINE rest == Missing(s, i, p, full)
           a == Record(s, i, p, rest)
           r == CompletePart(s, i, p, kind, full)
<1>1. s \in ZrRec BY DEF ROK
<1>2. PiecesOf(rest, i, P) BY <1>1, MissingIs
<1>3. r = IF rest = <<>> THEN s ELSE WriteKind(a, i, kind, rest) BY DEF CompletePart
<1> HIDE DEF rest, r
<1>4. CASE rest = <<>>
  <2>1. r = s BY <1>3, <1>4
  <2> QED BY <2>1 DEF SameMarks, SameRefusals, r
<1>5. CASE rest # <<>>
  <2>1. rest \in Texts BY <1>2 DEF PiecesOf
  <2>2. /\ ROK(a, m, z) /\ SameMarks(a, s)
        /\ p # "refusal" => SameRefusals(a, s)
        BY <2>1, RRecord
  <2>3. a.started BY <2>2 DEF SameMarks
  <2> HIDE DEF a
  <2>4. LET w == WriteKind(a, i, kind, rest)
        IN w.sent = a.sent /\ SameMarks(w, a) /\ \E y : ROK(w, m, y)
        BY <1>2, <1>5, <2>2, <2>3, RWriteKind
  <2>5. r.sent = a.sent /\ SameMarks(r, a) /\ \E y : ROK(r, m, y) BY <1>3, <1>5, <2>4
  <2>6. Missing(s, i, p, full) # <<>> BY <1>5 DEF rest
  <2> QED BY <2>2, <2>5, <2>6 DEF SameMarks, SameRefusals, r
<1> QED BY <1>4, <1>5

\* Arguments for the open block of their call.
LEMMA RArguments ==
  ASSUME NEW s, NEW m, NEW z, ROK(s, m, z), s.started, NEW i \in Items, IsCall(i),
         s.block[i] = s.current, s.block[i] # 0,
         NEW text, text # <<>>, PiecesOf(text, i, {"args"})
  PROVE  LET r == Write(Record(s, i, "args", text), text)
         IN SameMarks(r, s) /\ SameRefusals(r, s) /\ \E y : ROK(r, m, y)
<1> DEFINE a == Record(s, i, "args", text)
<1>1. "args" \in ItemParts /\ "args" # "refusal" BY DEF ItemParts
<1>2. text \in Texts BY DEF PiecesOf
<1>3. /\ ROK(a, m, z) /\ SameMarks(a, s) /\ SameRefusals(a, s)
      /\ a.block = s.block /\ a.current = s.current
      BY <1>1, <1>2, RRecord
<1> HIDE DEF a
<1>4. /\ a \in ZrRec /\ At(a, m, z) /\ ROwned(a, z) /\ (a.toolItems > 0 <=> ToolShown(z))
      /\ a.current # 0 /\ DecentBut(z, 0) /\ 0 \in {0, a.current}
      BY <1>3 DEF ROK, Decent
<1>5. z.blocks[a.current].kind = "tool" BY <1>3, <1>4 DEF ROwned
<1>6. \A n \in 1..Len(text) : Promise!Fits(text[n], z.blocks[a.current].kind)
      BY <1>5 DEF PiecesOf, Promise!Fits
<1>7. "signature" \notin {"args"} OBVIOUS
<1>8. LET r == Write(a, text)
      IN r.sent = a.sent /\ SameMarks(r, a) /\ \E y : ROK(r, m, y)
      BY <1>3, <1>4, <1>6, <1>7, RWrites
<1> QED BY <1>3, <1>8 DEF SameMarks, SameRefusals, a

LEMMA RCompleteCall ==
  ASSUME answer \in Answers, NEW s, NEW m, NEW z, ROK(s, m, z), s.started, NEW i \in Items, IsCall(i)
  PROVE  LET r == CompleteCall(s, i)
         IN SameMarks(r, s) /\ SameRefusals(r, s) /\ \E y : ROK(r, m, y)
<1> DEFINE rest == Missing(s, i, "args", Whole(i, "args"))
           r == CompleteCall(s, i)
<1>1. "args" \in ItemParts BY DEF ItemParts
<1>2. s \in ZrRec /\ At(s, m, z) BY DEF ROK
<1>3. PiecesOf(rest, i, {"args"}) BY <1>1, <1>2, WholeIs, MissingIs
<1>4. r = IF i \in s.dropped \/ rest = <<>> \/ s.block[i] # s.current \/ s.kind # "tool" THEN s
          ELSE Write(Record(s, i, "args", rest), rest)
      BY DEF CompleteCall
<1> HIDE DEF rest, r
<1>5. CASE i \in s.dropped \/ rest = <<>> \/ s.block[i] # s.current \/ s.kind # "tool"
  <2>1. r = s BY <1>4, <1>5
  <2> QED BY <2>1 DEF SameMarks, SameRefusals, r
<1>6. CASE ~(i \in s.dropped \/ rest = <<>> \/ s.block[i] # s.current \/ s.kind # "tool")
  <2>1. s.current # 0 BY <1>2, <1>6 DEF At
  <2>2. LET w == Write(Record(s, i, "args", rest), rest)
        IN SameMarks(w, s) /\ SameRefusals(w, s) /\ \E y : ROK(w, m, y)
        BY <1>3, <1>6, <2>1, RArguments
  <2>3. r = Write(Record(s, i, "args", rest), rest) BY <1>4, <1>6
  <2> QED BY <2>2, <2>3 DEF r
<1> QED BY <1>5, <1>6

\* An item that is complete: what is missing of it, and the refusal.
RefusesAll(i) == Whole(i, "refusal") # <<>>

LEMMA RCompleteMessage ==
  ASSUME answer \in Answers, NEW s, NEW m, NEW z, ROK(s, m, z), s.started, Declines(s),
         NEW i \in Items, ~IsCall(i)
  PROVE  LET r == CompleteMessage(s, i)
         IN /\ r.started = s.started /\ r.settled = s.settled /\ Declines(r)
            /\ r.stop = (IF RefusesAll(i) THEN "refusal" ELSE s.stop)
            /\ \E y : ROK(r, m, y)
<1> DEFINE refused == Missing(s, i, "refusal", Whole(i, "refusal")) # <<>>
           a == IF refused THEN [s EXCEPT !.stop = "refusal"] ELSE s
           b == CompletePart(a, i, "refusal", "text", Whole(i, "refusal"))
           c == CompletePart(b, i, "text", "text", Whole(i, "text"))
<1>0. CompleteMessage(s, i) = c BY DEF CompleteMessage
<1>1. /\ "refusal" \in ItemParts /\ "text" \in ItemParts /\ "refusal" \in StopReasons
      /\ {"refusal"} \subseteq KindParts("text") /\ {"text"} \subseteq KindParts("text")
      /\ "text" # "refusal"
      BY DEF ItemParts, StopReasons, KindParts
<1>2. s \in ZrRec BY DEF ROK
<1>3. PiecesOf(Whole(i, "refusal"), i, {"refusal"}) /\ PiecesOf(Whole(i, "text"), i, {"text"})
      BY <1>1, WholeIs
<1>4. /\ ~RefusesAll(i) => ~refused
      /\ RefusesAll(i) => refused \/ s.stop = "refusal"
  <2>1. Whole(i, "refusal") = <<>> => ~refused BY <1>1, <1>2, <1>3, MissingIs
  <2>2. s.sent[i]["refusal"] = <<>> /\ Whole(i, "refusal") # <<>> => refused
        BY <1>1, <1>2, <1>3, MissingIs
  <2> QED BY <2>1, <2>2 DEF RefusesAll, Declines
<1>5. /\ ROK(a, m, z) /\ a.started = s.started /\ a.settled = s.settled /\ a.sent = s.sent
      /\ a.stop = IF refused THEN "refusal" ELSE s.stop
  <2>1. CASE refused
    <3>1. a = [s EXCEPT !.stop = "refusal"] BY <2>1
    <3> DEFINE marked == [s EXCEPT !.stop = "refusal"]
    <3>2. /\ ROK(marked, m, z) /\ marked.started = s.started /\ marked.settled = s.settled
          /\ marked.sent = s.sent /\ marked.stop = "refusal"
          BY <1>1, RMarks
    <3> HIDE DEF marked, a, refused
    <3>3. a = marked BY <3>1 DEF marked
    <3> QED BY <2>1, <3>2, <3>3
  <2>2. CASE ~refused BY <2>2
  <2> QED BY <2>1, <2>2
<1>6. a.stop = IF RefusesAll(i) THEN "refusal" ELSE s.stop BY <1>4, <1>5
<1>7. ~refused => Missing(a, i, "refusal", Whole(i, "refusal")) = <<>>
  <2>1. ASSUME ~refused PROVE a = s BY <2>1
  <2> QED BY <2>1
<1>8. refused => a.stop = "refusal" BY <1>5
<1> HIDE DEF a, refused
<1>9. /\ SameMarks(b, a) /\ \E y : ROK(b, m, y)
      /\ Missing(a, i, "refusal", Whole(i, "refusal")) = <<>> => b = a
  <2>1. a.started /\ "text" \in {"text", "thinking"} BY <1>5
  <2> QED BY <1>1, <1>3, <1>5, <2>1, RCompletePart
<1>10. Declines(b)
  <2>1. CASE refused BY <1>8, <1>9, <2>1 DEF Declines, SameMarks
  <2>2. CASE ~refused
    <3>1. b = a BY <1>7, <1>9, <2>2
    <3>2. a.stop = s.stop BY <1>5, <2>2
    <3> QED BY <1>5, <3>1, <3>2 DEF Declines
  <2> QED BY <2>1, <2>2
<1> HIDE DEF b
<1>11. PICK y : ROK(b, m, y) BY <1>9
<1>12. b.started BY <1>5, <1>9 DEF SameMarks
<1>13. SameMarks(c, b) /\ SameRefusals(c, b) /\ \E x : ROK(c, m, x)
       BY <1>1, <1>3, <1>11, <1>12, RCompletePart
<1> HIDE DEF c
<1>14. Declines(c) BY <1>10, <1>13 DEF Declines, SameMarks, SameRefusals
<1>15. c.started = s.started /\ c.settled = s.settled
       /\ c.stop = (IF RefusesAll(i) THEN "refusal" ELSE s.stop)
       BY <1>5, <1>6, <1>9, <1>13 DEF SameMarks
<1> QED BY <1>0, <1>13, <1>14, <1>15

LEMMA RCompleteItem ==
  ASSUME answer \in Answers, NEW s, NEW m, NEW z, ROK(s, m, z), s.started, Declines(s),
         NEW i \in Items
  PROVE  LET r == CompleteItem(s, i)
         IN /\ r.started = s.started /\ r.settled = s.settled /\ Declines(r)
            /\ r.stop = (IF RefusesAll(i) THEN "refusal" ELSE s.stop)
            /\ \E y : ROK(r, m, y)
<1> DEFINE r == CompleteItem(s, i)
<1>1. answer[i].type \in {"reasoning", "message", "function_call"} /\ i \in Nat BY AnswerFacts
<1>2. answer[i].type # "message" => ~RefusesAll(i)
  <2>1. "refusal" \in ItemParts BY DEF ItemParts
  <2>2. answer[i].size["refusal"] > 0 =>
          "refusal" \in (CASE answer[i].type = "reasoning" -> {"thinking"}
                           [] answer[i].type = "message" -> {"text", "refusal"}
                           [] OTHER -> {"args"})
        BY <2>1, AnswerFacts
  <2>3. answer[i].size["refusal"] \in Nat BY <2>1, AnswerFacts
  <2>4. Len(Whole(i, "refusal")) = answer[i].size["refusal"] /\ Whole(i, "refusal") \in Texts
        BY <2>1, WholeIs DEF PiecesOf
  <2>5. Len(Whole(i, "refusal")) = 0 => Whole(i, "refusal") = <<>> BY <2>4 DEF Texts
  <2>6. answer[i].type # "message" => ~(answer[i].size["refusal"] > 0) BY <1>1, <2>2
  <2> QED BY <2>3, <2>4, <2>5, <2>6 DEF RefusesAll
<1>3. CASE answer[i].type = "function_call"
  <2> DEFINE o == IF s.block[i] = 0 THEN OpenCall(s, i) ELSE s
  <2>1. r = CompleteCall(o, i) BY <1>3 DEF CompleteItem
  <2>2. IsCall(i) BY <1>3 DEF IsCall
  <2>3. SameMarks(o, s) /\ SameRefusals(o, s) /\ \E y : ROK(o, m, y)
    <3>1. CASE s.block[i] = 0
      <4>1. o = OpenCall(s, i) BY <3>1
      <4>2. LET c == OpenCall(s, i) IN c.sent = s.sent /\ SameMarks(c, s) /\ \E y : ROK(c, m, y)
            BY <2>2, ROpenCall
      <4> QED BY <4>1, <4>2 DEF SameRefusals
    <3>2. CASE s.block[i] # 0 BY <3>2 DEF SameMarks, SameRefusals
    <3> QED BY <3>1, <3>2
  <2> HIDE DEF o, r
  <2>4. PICK y : ROK(o, m, y) BY <2>3
  <2>5. o.started BY <2>3 DEF SameMarks
  <2>6. SameMarks(r, o) /\ SameRefusals(r, o) /\ \E x : ROK(r, m, x)
        BY <2>1, <2>2, <2>4, <2>5, RCompleteCall
  <2>7. Declines(r) BY <2>3, <2>6 DEF Declines, SameMarks, SameRefusals
  <2> QED BY <1>2, <1>3, <2>3, <2>6, <2>7 DEF SameMarks, r
<1>4. CASE answer[i].type = "message"
  <2>1. r = CompleteMessage(s, i) BY <1>4 DEF CompleteItem
  <2>2. ~IsCall(i) BY <1>4 DEF IsCall
  <2> DEFINE c == CompleteMessage(s, i)
  <2>3. /\ c.started = s.started /\ c.settled = s.settled /\ Declines(c)
        /\ c.stop = (IF RefusesAll(i) THEN "refusal" ELSE s.stop)
        /\ \E y : ROK(c, m, y)
        BY <2>2, RCompleteMessage
  <2> QED BY <2>1, <2>3
<1>5. CASE answer[i].type = "reasoning"
  <2> DEFINE joined == Joined(i, answer[i].size["thinking"])
             full == IF Missing(s, i, "thinking", joined) # <<>> THEN joined ELSE Whole(i, "thinking")
  <2>1. r = CompletePart(s, i, "thinking", "thinking", full)
        BY <1>5 DEF CompleteItem, CompleteReasoning
  <2>2. ~IsCall(i) /\ "thinking" \in ItemParts /\ "thinking" # "refusal" BY <1>5 DEF IsCall, ItemParts
  <2>3. answer[i].size["thinking"] \in Nat BY <2>2, AnswerFacts
  <2>4. PiecesOf(full, i, {"thinking", "gap"})
    <3>1. PiecesOf(joined, i, {"thinking", "gap"}) BY <1>1, <2>3, JoinedIs
    <3>2. PiecesOf(Whole(i, "thinking"), i, {"thinking", "gap"})
      <4>1. PiecesOf(Whole(i, "thinking"), i, {"thinking"}) BY <2>2, WholeIs
      <4> QED BY <4>1, PiecesMore
    <3> QED BY <3>1, <3>2
  <2>5. {"thinking", "gap"} \subseteq KindParts("thinking") BY DEF KindParts
  <2> HIDE DEF full, r
  <2>6. SameMarks(r, s) /\ SameRefusals(r, s) /\ \E y : ROK(r, m, y)
        BY <2>1, <2>2, <2>4, <2>5, RCompletePart
  <2>7. Declines(r) BY <2>6 DEF Declines, SameMarks, SameRefusals
  <2> QED BY <1>2, <1>5, <2>6, <2>7 DEF SameMarks, r
<1> QED BY <1>1, <1>3, <1>4, <1>5

\* A stream that has begun and is in order, for a client whose message is m.
Sound(m) == {s \in ZrRec : s.started /\ Declines(s) /\ \E z : ROK(s, m, z)}

LEMMA SoundItem ==
  ASSUME answer \in Answers, NEW m, NEW s \in Sound(m), NEW i \in Items
  PROVE  LET r == CompleteItem(s, i)
         IN /\ r \in Sound(m) /\ r.settled = s.settled
            /\ r.stop = (IF RefusesAll(i) THEN "refusal" ELSE s.stop)
<1> DEFINE r == CompleteItem(s, i)
<1>1. PICK z : ROK(s, m, z) BY DEF Sound
<1>2. s.started /\ Declines(s) BY DEF Sound
<1>3. /\ r.started = s.started /\ r.settled = s.settled /\ Declines(r)
      /\ r.stop = (IF RefusesAll(i) THEN "refusal" ELSE s.stop)
      /\ \E y : ROK(r, m, y)
      BY <1>1, <1>2, RCompleteItem
<1> HIDE DEF r
<1>4. r \in ZrRec BY <1>3 DEF ROK
<1>5. r.started BY <1>2, <1>3
<1> QED BY <1>3, <1>4, <1>5 DEF Sound, r

\* The items of the response, one after the other.
CompleteAll(s) == FoldLeft(CompleteItem, s, [i \in Items |-> i])

LEMMA ItemsFold ==
  ASSUME answer \in Answers, NEW m, NEW base \in Sound(m)
  PROVE  \E t \in [0..Len(answer) -> Sound(m)] :
           /\ t[0] = base
           /\ t[Len(answer)] = CompleteAll(base)
           /\ \A n \in 1..Len(answer) : t[n] = CompleteItem(t[n - 1], n)
<1> DEFINE k == Len(answer)
           X == Sound(m)
           list == [i \in Items |-> i]
           W == [p \in X \X Items |-> CompleteItem(p[1], p[2])]
<1>0. Items = 1..k /\ k \in Nat BY AnswerFacts
<1>1. DOMAIN list = 1..k /\ \A i \in 1..k : list[i] \in Items /\ list[i] = i BY <1>0
<1>2. W \in [X \X Items -> X] BY SoundItem
<1>2a. \A s \in X, i \in Items : W[<<s, i>>] = CompleteItem(s, i) OBVIOUS
<1>2b. base \in X OBVIOUS
<1> HIDE DEF W, k, X, list
<1>a. PICK f : IsFold(X, W, base, k, list, f) BY <1>0, <1>1, <1>2, <1>2b, FoldExists
<1>3. /\ f \in [SUBSET (1..k) -> X]
      /\ \A s \in SUBSET (1..k) : f[s] = FoldStep(W, base, f, list, s)
      BY <1>a DEF IsFold
<1> DEFINE Iter(g) == g = [s \in SUBSET (1..k) |-> IF s = {} THEN base
                              ELSE CompleteItem(g[s \ {Max(s)}], list[Max(s)])]
           it == CHOOSE g : Iter(g)
<1>4. \A s \in SUBSET (1..k) : s # {} => Max(s) \in s BY <1>0, MaxIs
<1>5. Iter(f)
  <2>1. ASSUME NEW s \in SUBSET (1..k)
        PROVE  f[s] = IF s = {} THEN base ELSE CompleteItem(f[s \ {Max(s)}], list[Max(s)])
    <3>1. CASE s = {} BY <1>3, <3>1 DEF FoldStep
    <3>2. CASE s # {}
      <4>1. Max(s) \in 1..k /\ s \ {Max(s)} \in SUBSET (1..k) BY <1>4, <3>2
      <4>2. f[s \ {Max(s)}] \in X /\ list[Max(s)] \in Items BY <1>1, <1>3, <4>1
      <4>3. f[s] = W[<<f[s \ {Max(s)}], list[Max(s)]>>] BY <1>3, <3>2 DEF FoldStep
      <4> QED BY <1>2a, <3>2, <4>2, <4>3
    <3> QED BY <3>1, <3>2
  <2> QED BY <1>3, <2>1
<1>6. Iter(it) BY <1>5
<1>7. CompleteAll(base) = it[1..k]
      BY <1>0, <1>1 DEF CompleteAll, FoldLeft, MapThenFoldSet, list
<1> HIDE DEF it
<1>8. /\ it[{}] = base
      /\ \A n \in 1..k : it[1..n] = CompleteItem(it[1..(n - 1)], n)
  <2>1. it[{}] = base BY <1>6
  <2>2. ASSUME NEW n \in 1..k PROVE it[1..n] = CompleteItem(it[1..(n - 1)], n)
    <3>1. 1..n \in SUBSET (1..k) /\ n \in 1..n /\ n \in Nat \ {0} BY <1>0
    <3>2. Max(1..n) = n /\ (1..n) \ {n} = 1..(n - 1) BY <3>1, MaxOfFirst
    <3>3. it[1..n] = CompleteItem(it[(1..n) \ {Max(1..n)}], list[Max(1..n)])
          BY <1>6, <3>1
    <3> QED BY <1>1, <3>2, <3>3
  <2> QED BY <2>1, <2>2
<1>9. f[{}] = base /\ \A n \in 1..k : f[1..n] = CompleteItem(f[1..(n - 1)], n)
  <2>1. f[{}] = base BY <1>5
  <2>2. ASSUME NEW n \in 1..k PROVE f[1..n] = CompleteItem(f[1..(n - 1)], n)
    <3>1. 1..n \in SUBSET (1..k) /\ n \in 1..n /\ n \in Nat \ {0} BY <1>0
    <3>2. Max(1..n) = n /\ (1..n) \ {n} = 1..(n - 1) BY <3>1, MaxOfFirst
    <3>3. f[1..n] = CompleteItem(f[(1..n) \ {Max(1..n)}], list[Max(1..n)])
          BY <1>5, <3>1
    <3> QED BY <1>1, <3>2, <3>3
  <2> QED BY <2>1, <2>2
<1>10. f[1..k] = it[1..k] BY <1>0, <1>8, <1>9, AlikeAlong
<1> DEFINE t == [n \in 0..k |-> f[1..n]]
<1>11. t \in [0..k -> X] /\ t[0] = base /\ t[k] = f[1..k]
       /\ \A n \in 1..k : t[n] = CompleteItem(t[n - 1], n)
  <2>1. \A n \in 0..k : 1..n \in SUBSET (1..k) BY <1>0
  <2>2. 0 \in 0..k /\ k \in 0..k /\ 1..0 = {} BY <1>0
  <2>3. \A n \in 1..k : n \in 0..k /\ n - 1 \in 0..k BY <1>0
  <2> QED BY <1>3, <1>9, <2>1, <2>2, <2>3
<1> QED BY <1>7, <1>10, <1>11 DEF k, X, list

\* They leave the stream in order, declined if one of them is.
LEMMA RCompletesAll ==
  ASSUME answer \in Answers, NEW m, NEW base \in Sound(m)
  PROVE  LET r == CompleteAll(base)
         IN /\ r \in Sound(m) /\ r.settled = base.settled
            /\ r.stop = (IF \E i \in Items : RefusesAll(i) THEN "refusal" ELSE base.stop)
<1> DEFINE k == Len(answer)
<1>1. PICK t \in [0..k -> Sound(m)] :
        /\ t[0] = base /\ t[k] = CompleteAll(base)
        /\ \A n \in 1..k : t[n] = CompleteItem(t[n - 1], n)
      BY ItemsFold
<1>2. Items = 1..k /\ k \in Nat BY AnswerFacts
<1> HIDE DEF k
<1> DEFINE Fine(n) ==
             /\ t[n].settled = base.settled
             /\ t[n].stop = (IF \E i \in 1..n : RefusesAll(i) THEN "refusal" ELSE base.stop)
           Bad == {n \in 0..k : ~Fine(n)}
<1>3. Fine(0) BY <1>1
<1>4. ASSUME NEW n \in 1..k, Fine(n - 1) PROVE Fine(n)
  <2> DEFINE b == t[n - 1]
  <2>1. n \in Items /\ b \in Sound(m) /\ t[n] = CompleteItem(b, n) BY <1>1, <1>2
  <2>2. 1..n = (1..(n - 1)) \cup {n} BY <1>2
  <2>3. /\ t[n].settled = b.settled
        /\ t[n].stop = (IF RefusesAll(n) THEN "refusal" ELSE b.stop)
    <3> HIDE DEF b
    <3> QED BY <2>1, SoundItem
  <2> QED BY <1>4, <2>2, <2>3
<1> HIDE DEF Fine
<1>5. Bad = {}
  <2>1. SUFFICES ASSUME Bad # {} PROVE FALSE OBVIOUS
  <2>2. Bad \subseteq Nat BY <1>2
  <2>3. PICK l \in Bad : \A n \in Bad : l <= n BY <2>1, <2>2, LeastNat
  <2>4. l \in 0..k /\ ~Fine(l) BY <2>3
  <2>5. l # 0 BY <1>3, <2>4
  <2>6. l \in 1..k /\ l - 1 \in 0..k /\ ~(l <= l - 1) BY <1>2, <2>4, <2>5
  <2>7. l - 1 \notin Bad
    <3> HIDE DEF Bad
    <3> QED BY <2>3, <2>6
  <2>8. Fine(l - 1) BY <2>6, <2>7
  <2> QED BY <1>4, <2>4, <2>6, <2>8
<1>6. k \in 0..k BY <1>2
<1>7. Fine(k) BY <1>5, <1>6
<1>8. t[k] \in Sound(m) BY <1>1, <1>6
<1> QED BY <1>1, <1>2, <1>7, <1>8 DEF Fine

\* Upstream declined in item i, by what u says it has sent.
RefusedBy(u, i) ==
  IF i \in u.done \/ u.restated THEN answer[i].size["refusal"] > 0 ELSE u.deltas[i]["refusal"] > 0

\* The stop reason upstream gave.
StopOf(u) ==
  IF (\E i \in Items : RefusedBy(u, i)) \/ u.refusing # {} \/ u.reason = "content_filter" THEN "refusal"
  ELSE IF u.reason = "max_output_tokens" THEN "max_tokens" ELSE "none"

RHeard == zr.stop = StopOf(zup)
RBounds == \A i \in Items, p \in ItemParts : zup.deltas[i][p] <= answer[i].size[p]
RUnsettled == zr.settled \/ zup.over \/ (zup.reason = "none" /\ ~zup.restated)

REnded(z) ==
  /\ z \in Msg
  /\ z.phase = "failed" \/ (z.phase = "done" /\ z.stop = Stop(zr) /\ (zr.toolItems > 0 <=> ToolShown(z)))

\* The client's message is on its way to one in which every block is in order,
\* and the calls' blocks are where the stream has them.
RInv ==
  /\ RTypeOK /\ message \in Msg /\ zr.out = <<>>
  /\ RBounds /\ RHeard /\ RUnsettled
  /\ \E z : /\ Delivers(wire, message, z)
            /\ IF zup.over THEN REnded(z) ELSE ROK(zr, z, z) /\ Declines(zr)

LEMMA RFrame ==
  ASSUME answer' = answer
  PROVE  /\ Items' = Items
         /\ \A z : ROK(zr', z, z) => ROK(zr, z, z)'
         /\ Declines(zr') => Declines(zr)'
<1>1. Items' = Items BY DEF Items
<1>2. ZrRec' = ZrRec BY <1>1 DEF ZrRec
<1>3. \A z : ROwned(zr', z) => ROwned(zr, z)' BY <1>1 DEF ROwned, IsCall
<1>4. \A z : ROK(zr', z, z) => ROK(zr, z, z)' BY <1>2, <1>3 DEF ROK
<1>5. Declines(zr') => Declines(zr)' BY <1>1 DEF Declines
<1> QED BY <1>1, <1>4, <1>5

\* What a handler sends.
LEMMA RSends ==
  ASSUME message \in Msg, NEW s \in Sound(message), Goes(s)
  PROVE  /\ zr' \in ZrRec /\ zr'.out = <<>> /\ SameMarks(zr', s) /\ Declines(zr)'
         /\ message' = message /\ answer' = answer /\ tagged' = tagged
         /\ \E z : Delivers(wire', message', z) /\ ROK(zr, z, z)'
<1>0. PICK z : ROK(s, message, z) BY DEF Sound
<1>1. /\ s \in ZrRec /\ At(s, message, z) /\ Decent(z) /\ ROwned(s, z) /\ Declines(s)
      /\ (s.toolItems > 0 <=> ToolShown(z))
      BY <1>0 DEF ROK, Sound
<1>2. /\ zr' = [s EXCEPT !.out = <<>>] /\ wire' = s.out /\ message' = message
      /\ answer' = answer /\ tagged' = tagged
      BY DEF Goes, Send
<1>3. At(zr', z, z) BY <1>1, <1>2, ResetOK
<1>4. <<>> \in Seq(Events) OBVIOUS
<1>5. /\ zr' \in ZrRec /\ zr'.block = s.block /\ zr'.sent = s.sent /\ zr'.toolItems = s.toolItems
      /\ zr'.out = <<>> /\ SameMarks(zr', s)
      BY <1>1, <1>2, <1>4 DEF ZrRec, SameMarks
<1>6. ROwned(zr', z) BY <1>1, <1>5 DEF ROwned
<1>7. Delivers(wire', message', z) BY <1>1, <1>2 DEF At
<1>8. ROK(zr', z, z) BY <1>1, <1>3, <1>5, <1>6 DEF ROK
<1>9. Declines(zr') BY <1>1, <1>5 DEF Declines, SameMarks
<1> QED BY <1>2, <1>5, <1>7, <1>8, <1>9, RFrame

-----------------------------------------------------------------------------
LEMMA SoundIs ==
  ASSUME NEW m, NEW s, NEW z, ROK(s, m, z), s.started, Declines(s)
  PROVE  s \in Sound(m)
BY DEF Sound, ROK

LEMMA SoundStart ==
  ASSUME NEW s, NEW m, NEW z, ROK(s, m, z), Declines(s)
  PROVE  LET r == StartMessage(s)
         IN r \in Sound(m) /\ r.stop = s.stop /\ r.settled = s.settled
<1> DEFINE r == StartMessage(s)
<1>1. /\ r.stop = s.stop /\ r.started /\ r.sent = s.sent /\ r.settled = s.settled
      /\ \E y : ROK(r, m, y)
      BY RStarts
<1> HIDE DEF r
<1>2. Declines(r) BY <1>1 DEF Declines
<1>3. r \in Sound(m) BY <1>1, <1>2, SoundIs
<1> QED BY <1>1, <1>3 DEF r

LEMMA SoundSettled ==
  ASSUME NEW m, NEW s \in Sound(m)
  PROVE  LET r == [s EXCEPT !.settled = TRUE]
         IN r \in Sound(m) /\ r.stop = s.stop /\ r.settled = TRUE
<1> DEFINE r == [s EXCEPT !.settled = TRUE]
<1>0. PICK z : ROK(s, m, z) BY DEF Sound
<1>1. ROK(r, m, z) /\ r.stop = s.stop /\ r.started = s.started /\ r.sent = s.sent BY <1>0, RSettles
<1>2. s.started /\ Declines(s) /\ s \in ZrRec BY DEF Sound
<1>3. r.settled = TRUE BY <1>2 DEF ZrRec
<1> HIDE DEF r
<1>4. Declines(r) /\ r.started BY <1>1, <1>2 DEF Declines
<1>5. r \in Sound(m) BY <1>1, <1>4, SoundIs
<1> QED BY <1>1, <1>3, <1>5 DEF r

LEMMA SoundStop ==
  ASSUME NEW m, NEW s \in Sound(m), NEW stop \in StopReasons, stop = "refusal" \/ s.stop # "refusal"
  PROVE  LET r == [s EXCEPT !.stop = stop]
         IN r \in Sound(m) /\ r.stop = stop /\ r.settled = s.settled
<1> DEFINE r == [s EXCEPT !.stop = stop]
<1>0. PICK z : ROK(s, m, z) BY DEF Sound
<1>1. ROK(r, m, z) /\ r.stop = stop /\ r.started = s.started /\ r.settled = s.settled /\ r.sent = s.sent
      BY <1>0, RMarks
<1>2. s.started /\ Declines(s) BY DEF Sound
<1> HIDE DEF r
<1>4. Declines(r) /\ r.started BY <1>1, <1>2 DEF Declines
<1>5. r \in Sound(m) BY <1>1, <1>4, SoundIs
<1> QED BY <1>1, <1>5 DEF r

LEMMA SoundReason ==
  ASSUME NEW m, NEW s \in Sound(m), NEW reason \in Reasons
  PROVE  LET r == Reason(s, reason)
         IN /\ r \in Sound(m) /\ r.settled = s.settled
            /\ r.stop = (IF s.stop = "refusal" \/ reason = "content_filter" THEN "refusal"
                         ELSE IF reason = "max_output_tokens" THEN "max_tokens" ELSE s.stop)
<1>1. "refusal" \in StopReasons /\ "max_tokens" \in StopReasons /\ "max_tokens" # "refusal"
      /\ "content_filter" # "max_output_tokens"
      BY DEF StopReasons
<1>2. CASE reason = "content_filter"
  <2> DEFINE w == [s EXCEPT !.stop = "refusal"]
  <2>1. Reason(s, reason) = w BY <1>2 DEF Reason
  <2>2. w \in Sound(m) /\ w.stop = "refusal" /\ w.settled = s.settled BY <1>1, SoundStop
  <2> HIDE DEF w
  <2> QED BY <1>2, <2>1, <2>2
<1>3. CASE reason = "max_output_tokens" /\ s.stop # "refusal"
  <2> DEFINE w == [s EXCEPT !.stop = "max_tokens"]
  <2>1. Reason(s, reason) = w BY <1>3 DEF Reason
  <2>2. w \in Sound(m) /\ w.stop = "max_tokens" /\ w.settled = s.settled BY <1>1, <1>3, SoundStop
  <2> HIDE DEF w
  <2> QED BY <1>1, <1>3, <2>1, <2>2
<1>4. CASE reason # "content_filter" /\ ~(reason = "max_output_tokens" /\ s.stop # "refusal")
  <2>1. Reason(s, reason) = s BY <1>4 DEF Reason
  <2> QED BY <1>4, <2>1
<1> QED BY <1>2, <1>3, <1>4

LEMMA SoundCall ==
  ASSUME NEW m, NEW s \in Sound(m), NEW i \in Items, IsCall(i)
  PROVE  LET r == OpenCall(s, i)
         IN r \in Sound(m) /\ r.stop = s.stop /\ r.settled = s.settled
<1> DEFINE r == OpenCall(s, i)
<1>0. PICK z : ROK(s, m, z) BY DEF Sound
<1>2. s.started /\ Declines(s) BY DEF Sound
<1>1. r.sent = s.sent /\ SameMarks(r, s) /\ \E y : ROK(r, m, y)
      BY <1>0, <1>2, ROpenCall
<1> HIDE DEF r
<1>3. PICK y : ROK(r, m, y) BY <1>1
<1>4. Declines(r) /\ r.started BY <1>1, <1>2 DEF Declines, SameMarks
<1>5. r \in Sound(m) BY <1>3, <1>4, SoundIs
<1> QED BY <1>1, <1>5 DEF r, SameMarks

LEMMA SoundWrite ==
  ASSUME NEW m, NEW s \in Sound(m), NEW i \in Items, ~IsCall(i), NEW p \in ItemParts,
         NEW kind \in {"text", "thinking"}, NEW text, text # <<>>, NEW P,
         PiecesOf(text, i, P), P \subseteq KindParts(kind), p = "refusal" => s.stop = "refusal"
  PROVE  LET r == WriteKind(Record(s, i, p, text), i, kind, text)
         IN r \in Sound(m) /\ r.stop = s.stop /\ r.settled = s.settled
<1> DEFINE a == Record(s, i, p, text)
           r == WriteKind(a, i, kind, text)
<1>0. PICK z : ROK(s, m, z) BY DEF Sound
<1>2. s.started /\ Declines(s) BY DEF Sound
<1>3. text \in Texts BY DEF PiecesOf
<1>1. ROK(a, m, z) /\ SameMarks(a, s) /\ (p # "refusal" => SameRefusals(a, s))
      BY <1>0, <1>3, RRecord
<1> HIDE DEF a
<1>4. a.started BY <1>1, <1>2 DEF SameMarks
<1>5. r.sent = a.sent /\ SameMarks(r, a) /\ \E y : ROK(r, m, y) BY <1>1, <1>4, RWriteKind
<1> HIDE DEF r
<1>6. PICK y : ROK(r, m, y) BY <1>5
<1>7. Declines(r)
  <2>1. CASE p = "refusal" BY <1>1, <1>5, <2>1 DEF Declines, SameMarks
  <2>2. CASE p # "refusal" BY <1>1, <1>2, <1>5, <2>2 DEF Declines, SameMarks, SameRefusals
  <2> QED BY <2>1, <2>2
<1>8. r.started /\ r.stop = s.stop /\ r.settled = s.settled BY <1>1, <1>4, <1>5 DEF SameMarks
<1>9. r \in Sound(m) BY <1>6, <1>7, <1>8, SoundIs
<1> QED BY <1>8, <1>9 DEF r, a

LEMMA SoundArgs ==
  ASSUME NEW m, NEW s \in Sound(m), NEW i \in Items, IsCall(i), NEW text, text # <<>>,
         PiecesOf(text, i, {"args"})
  PROVE  LET r == WriteArgs(s, i, text)
         IN r \in Sound(m) /\ r.stop = s.stop /\ r.settled = s.settled
<1> DEFINE r == Write(Record(s, i, "args", text), text)
<1>1. WriteArgs(s, i, text) = IF i \in s.dropped \/ s.block[i] = 0 \/ s.block[i] # s.current THEN s ELSE r
      BY DEF WriteArgs
<1>2. CASE i \in s.dropped \/ s.block[i] = 0 \/ s.block[i] # s.current
      BY <1>1, <1>2
<1>3. CASE ~(i \in s.dropped \/ s.block[i] = 0 \/ s.block[i] # s.current)
  <2>0. PICK z : ROK(s, m, z) BY DEF Sound
  <2>1. s.started /\ Declines(s) BY DEF Sound
  <2>2. SameMarks(r, s) /\ SameRefusals(r, s) /\ \E y : ROK(r, m, y)
        BY <1>3, <2>0, <2>1, RArguments
  <2>3. WriteArgs(s, i, text) = r BY <1>1, <1>3
  <2> HIDE DEF r
  <2>4. PICK y : ROK(r, m, y) BY <2>2
  <2>5. Declines(r) /\ r.started BY <2>1, <2>2 DEF Declines, SameMarks, SameRefusals
  <2>6. r \in Sound(m) BY <2>4, <2>5, SoundIs
  <2> QED BY <2>2, <2>3, <2>6 DEF SameMarks
<1> QED BY <1>2, <1>3

LEMMA RListens ==
  ASSUME RInv, Listening
  PROVE  /\ ~zup.over /\ wire = <<>> /\ zup.reason = "none" /\ ~zup.restated
         /\ ROK(zr, message, message) /\ Declines(zr)
         /\ LET s == StartMessage(zr)
            IN s \in Sound(message) /\ s.stop = zr.stop /\ s.settled = zr.settled
<1>1. ~zup.over /\ wire = <<>> /\ ~zr.settled BY DEF Listening
<1>2. PICK z : Delivers(wire, message, z) /\ ROK(zr, z, z) /\ Declines(zr) BY <1>1 DEF RInv
<1>3. z = message BY <1>1, <1>2, NothingLeft
<1>4. zup.reason = "none" /\ ~zup.restated BY <1>1 DEF RInv, RUnsettled
<1> QED BY <1>1, <1>2, <1>3, <1>4, SoundStart

\* A handler that goes on with the stream in order keeps the invariant.
LEMMA RAdvances ==
  ASSUME RInv, NEW s \in Sound(message), Goes(s), zup' \in ZupRec, ~zup.over, ~zup'.over,
         \A i \in Items, p \in ItemParts : zup'.deltas[i][p] <= answer[i].size[p],
         s.stop = StopOf(zup'), s.settled \/ (zup'.reason = "none" /\ ~zup'.restated)
  PROVE  RInv' /\ message' = message
<1>1. RTypeOK /\ message \in Msg BY DEF RInv
<1>2. /\ zr' \in ZrRec /\ zr'.out = <<>> /\ SameMarks(zr', s) /\ Declines(zr)'
      /\ message' = message /\ answer' = answer /\ tagged' = tagged
      /\ \E z : Delivers(wire', message', z) /\ ROK(zr, z, z)'
      BY <1>1, RSends
<1>3. Items' = Items BY <1>2 DEF Items
<1>4. RTypeOK' BY <1>1, <1>2, <1>3 DEF RTypeOK, ZrRec, ZupRec
<1>5. RBounds' BY <1>2, <1>3 DEF RBounds
<1>6. RHeard'
  <2>1. zr'.stop = StopOf(zup') BY <1>2 DEF SameMarks
  <2>2. StopOf(zup)' = StopOf(zup') BY <1>2, <1>3 DEF StopOf, RefusedBy
  <2> QED BY <2>1, <2>2 DEF RHeard
<1>7. RUnsettled' BY <1>2 DEF RUnsettled, SameMarks
<1> QED BY <1>1, <1>2, <1>4, <1>5, <1>6, <1>7 DEF RInv

LEMMA RItemAdded ==
  ASSUME RInv, NEW i \in Items, ItemAdded(i) PROVE RInv' /\ message' = message
<1> DEFINE s == StartMessage(zr)
           r == IF answer[i].type = "function_call" THEN OpenCall(s, i) ELSE s
           A == zup.added \cup {i}
<1>0. Listening /\ zup' = [zup EXCEPT !.added = A] /\ Goes(r) BY DEF ItemAdded
<1>1. /\ ~zup.over /\ zup.reason = "none" /\ ~zup.restated
      /\ s \in Sound(message) /\ s.stop = zr.stop /\ s.settled = zr.settled
      BY <1>0, RListens
<1> HIDE DEF s
<1>2. r \in Sound(message) /\ r.stop = s.stop BY <1>1, SoundCall DEF IsCall
<1> HIDE DEF r
<1>3. A \in SUBSET Items BY DEF RInv, RTypeOK, ZupRec
<1> HIDE DEF A
<1>4. /\ zup' \in ZupRec /\ zup'.deltas = zup.deltas /\ zup'.done = zup.done
      /\ zup'.restated = zup.restated /\ zup'.reason = zup.reason /\ zup'.over = zup.over
      /\ zup'.refusing = zup.refusing
      BY <1>0, <1>3 DEF RInv, RTypeOK, ZupRec
<1>5. StopOf(zup') = StopOf(zup) BY <1>4 DEF StopOf, RefusedBy
<1>6. zr.stop = StopOf(zup) BY DEF RInv, RHeard
<1>7. \A j \in Items, p \in ItemParts : zup'.deltas[j][p] <= answer[j].size[p]
      BY <1>4 DEF RInv, RBounds
<1> QED BY <1>0, <1>1, <1>2, <1>4, <1>5, <1>6, <1>7, RAdvances

\* What a delta makes of the stream.
LEMMA RDelta ==
  ASSUME RInv, NEW i \in Items, NEW p \in ItemParts, ItemDelta(i, p)
  PROVE  \E r \in Sound(message) :
           Goes(r) /\ r.stop = (IF p = "refusal" THEN "refusal" ELSE zr.stop)
<1> DEFINE n == zup.deltas[i][p] + 1
           text == <<Piece(i, p, n)>>
           s == StartMessage(zr)
<1>0. Listening /\ n <= answer[i].size[p] BY DEF ItemDelta
<1>1. s \in Sound(message) /\ s.stop = zr.stop BY <1>0, RListens
<1>2. n \in Nat /\ n > 0 /\ i \in Nat /\ answer \in Answers
  <2>1. answer \in Answers /\ zup.deltas[i][p] \in Nat BY DEF RInv, RTypeOK, ZupRec
  <2>2. i \in Nat BY <2>1, AnswerFacts
  <2>3. n \in Nat /\ n > 0 BY <2>1
  <2> QED BY <2>1, <2>2, <2>3
<1>3. /\ answer[i].size[p] > 0 /\ answer[i].type \in {"reasoning", "message", "function_call"}
      /\ p \in (CASE answer[i].type = "reasoning" -> {"thinking"}
                  [] answer[i].type = "message" -> {"text", "refusal"}
                  [] OTHER -> {"args"})
  <2>1. answer[i].size[p] \in Nat BY <1>2, AnswerFacts
  <2>2. answer[i].size[p] > 0 BY <1>0, <1>2, <2>1
  <2> QED BY <1>2, <2>2, AnswerFacts
<1>4. /\ p = "args" => IsCall(i)
      /\ p # "args" => ~IsCall(i)
      BY <1>3 DEF IsCall
<1>5. text # <<>> /\ PiecesOf(text, i, {p})
  <2> DEFINE T == [item : Nat, part : PieceParts, n : Nat]
             e == Piece(i, p, n)
  <2>1. e \in T /\ e.item = i /\ e.part = p BY <1>2 DEF Piece, ItemParts, PieceParts
  <2> HIDE DEF T, e
  <2>2. <<e>> # <<>> /\ <<e>> \in Seq(T) /\ Len(<<e>>) = 1 /\ <<e>>[1] = e BY <2>1
  <2> QED BY <2>1, <2>2 DEF PiecesOf, Texts, T, e
<1>6. CASE p = "thinking"
  <2> DEFINE t == IF tagged /\ n > 1 /\ s.sent[i]["thinking"] # <<>>
                  THEN <<Gap(i), Piece(i, "thinking", n)>> ELSE <<Piece(i, "thinking", n)>>
             r == WriteKind(Record(s, i, "thinking", t), i, "thinking", t)
  <2>1. Goes(r) BY <1>6 DEF ItemDelta, WriteSummary
  <2>2. t # <<>> /\ PiecesOf(t, i, {"thinking", "gap"})
    <3> DEFINE T == [item : Nat, part : PieceParts, n : Nat]
               e == Piece(i, "thinking", n)
               g == Gap(i)
    <3>1. e \in T /\ e.item = i /\ e.part = "thinking" BY <1>2 DEF Piece, PieceParts
    <3>2. g \in T /\ g.item = i /\ g.part = "gap" BY <1>2 DEF Gap, PieceParts
    <3>3. t = <<e>> \/ t = <<g, e>> OBVIOUS
    <3> HIDE DEF T, e, g, t
    <3>4. <<e>> # <<>> /\ <<e>> \in Seq(T) /\ Len(<<e>>) = 1 /\ <<e>>[1] = e BY <3>1
    <3>5. /\ <<g, e>> # <<>> /\ <<g, e>> \in Seq(T) /\ Len(<<g, e>>) = 2
          /\ <<g, e>>[1] = g /\ <<g, e>>[2] = e
          BY <3>1, <3>2
    <3>6. CASE t = <<e>> BY <3>1, <3>4, <3>6 DEF PiecesOf, Texts, T
    <3>7. CASE t = <<g, e>>
      <4>1. \A l \in 1..Len(t) : t[l] = g \/ t[l] = e BY <3>5, <3>7
      <4> QED BY <3>1, <3>2, <3>5, <3>7, <4>1 DEF PiecesOf, Texts, T
    <3> QED BY <3>3, <3>6, <3>7
  <2>3. {"thinking", "gap"} \subseteq KindParts("thinking") BY DEF KindParts
  <2>4. ~IsCall(i) /\ "thinking" \in ItemParts BY <1>4, <1>6 DEF ItemParts
  <2> HIDE DEF t, s
  <2>5. r \in Sound(message) /\ r.stop = s.stop BY <1>1, <2>2, <2>3, <2>4, SoundWrite
  <2> HIDE DEF r
  <2> QED BY <1>1, <1>6, <2>1, <2>5
<1>7. CASE p = "args"
  <2> DEFINE r == WriteArgs(s, i, text)
  <2>1. Goes(r) BY <1>7 DEF ItemDelta
  <2>2. PiecesOf(text, i, {"args"}) /\ text # <<>> BY <1>5, <1>7
  <2> HIDE DEF s, text
  <2>3. r \in Sound(message) /\ r.stop = s.stop BY <1>1, <1>4, <1>7, <2>2, SoundArgs
  <2> HIDE DEF r
  <2> QED BY <1>1, <1>7, <2>1, <2>3
<1>8. CASE p = "text"
  <2> DEFINE r == WriteKind(Record(s, i, p, text), i, "text", text)
  <2>1. Goes(r) BY <1>8 DEF ItemDelta
  <2>2. {p} \subseteq KindParts("text") BY <1>8 DEF KindParts
  <2> HIDE DEF s, text
  <2>3. r \in Sound(message) /\ r.stop = s.stop BY <1>1, <1>4, <1>5, <1>8, <2>2, SoundWrite
  <2> HIDE DEF r
  <2> QED BY <1>1, <1>8, <2>1, <2>3
<1>9. CASE p = "refusal"
  <2> DEFINE a == [s EXCEPT !.stop = "refusal"]
             r == WriteKind(Record(a, i, p, text), i, "text", text)
  <2>1. Goes(r) BY <1>9 DEF ItemDelta
  <2>2. {p} \subseteq KindParts("text") BY <1>9 DEF KindParts
  <2>3. a \in Sound(message) /\ a.stop = "refusal"
    <3>1. "refusal" \in StopReasons BY DEF StopReasons
    <3> HIDE DEF s
    <3> QED BY <1>1, <3>1, SoundStop
  <2> HIDE DEF a, text
  <2>4. r \in Sound(message) /\ r.stop = a.stop BY <1>4, <1>5, <1>9, <2>2, <2>3, SoundWrite
  <2> HIDE DEF r
  <2> QED BY <1>9, <2>1, <2>3, <2>4
<1> QED BY <1>6, <1>7, <1>8, <1>9 DEF ItemParts

LEMMA RItemDelta ==
  ASSUME RInv, NEW i \in Items, NEW p \in ItemParts, ItemDelta(i, p)
  PROVE  RInv' /\ message' = message
<1> DEFINE n == zup.deltas[i][p] + 1
           dl == [zup.deltas EXCEPT ![i][p] = n]
<1>0. /\ Listening /\ n <= answer[i].size[p] /\ i \notin zup.done
      /\ zup' = [zup EXCEPT !.deltas[i][p] = n]
      BY DEF ItemDelta
<1>1. /\ ~zup.over /\ zup.reason = "none" /\ ~zup.restated BY <1>0, RListens
<1>2. PICK r \in Sound(message) : Goes(r) /\ r.stop = (IF p = "refusal" THEN "refusal" ELSE zr.stop)
      BY RDelta
<1>3. zup \in ZupRec /\ zup.deltas \in [Items -> [ItemParts -> Nat]] /\ n \in Nat /\ n > 0
      /\ zr.stop = StopOf(zup)
      BY DEF RInv, RTypeOK, ZupRec, RHeard
<1>4. /\ dl \in [Items -> [ItemParts -> Nat]]
      /\ dl[i][p] = n /\ \A j \in Items, q \in ItemParts : j # i \/ q # p => dl[j][q] = zup.deltas[j][q]
      BY <1>3
<1>5. zup' = [zup EXCEPT !.deltas = dl] BY <1>0
<1> HIDE DEF dl, n
<1>6. /\ zup' \in ZupRec /\ zup'.deltas = dl /\ zup'.done = zup.done
      /\ zup'.restated = zup.restated /\ zup'.reason = zup.reason /\ zup'.over = zup.over
      /\ zup'.refusing = zup.refusing
      BY <1>3, <1>4, <1>5 DEF ZupRec
<1>7. \A j \in Items, q \in ItemParts : zup'.deltas[j][q] <= answer[j].size[q]
  <2> TAKE j \in Items, q \in ItemParts
  <2>1. CASE j = i /\ q = p BY <1>0, <1>4, <1>6, <2>1
  <2>2. CASE j # i \/ q # p BY <1>4, <1>6, <2>2 DEF RInv, RBounds
  <2> QED BY <2>1, <2>2
<1>8. r.stop = StopOf(zup')
  <2>0. "refusal" \in ItemParts BY DEF ItemParts
  <2>1. CASE p = "refusal"
    <3>1. RefusedBy(zup', i) BY <1>0, <1>1, <1>3, <1>4, <1>6, <2>1 DEF RefusedBy
    <3> QED BY <1>2, <2>1, <3>1 DEF StopOf
  <2>2. CASE p # "refusal"
    <3>1. \A j \in Items : RefusedBy(zup', j) <=> RefusedBy(zup, j)
          BY <1>4, <1>6, <2>0, <2>2 DEF RefusedBy
    <3>2. StopOf(zup') = StopOf(zup) BY <1>6, <3>1 DEF StopOf
    <3> QED BY <1>2, <1>3, <2>2, <3>2
  <2> QED BY <2>1, <2>2
<1> QED BY <1>1, <1>2, <1>6, <1>7, <1>8, RAdvances

\* A refusal delta without text refuses the turn as well.
LEMMA REmptyRefusal ==
  ASSUME RInv, NEW i \in Items, EmptyRefusal(i) PROVE RInv' /\ message' = message
<1> DEFINE s == StartMessage(zr)
           r == [s EXCEPT !.stop = "refusal"]
           F == zup.refusing \cup {i}
<1>0. Listening /\ zup' = [zup EXCEPT !.refusing = F] /\ Goes(r) BY DEF EmptyRefusal
<1>1. /\ ~zup.over /\ zup.reason = "none" /\ ~zup.restated /\ s \in Sound(message)
      BY <1>0, RListens
<1> HIDE DEF s
<1>2. r \in Sound(message) /\ r.stop = "refusal"
  <2>1. "refusal" \in StopReasons BY DEF StopReasons
  <2> QED BY <1>1, <2>1, SoundStop
<1> HIDE DEF r
<1>3. F \in SUBSET Items /\ F # {} BY DEF RInv, RTypeOK, ZupRec
<1> HIDE DEF F
<1>4. /\ zup' \in ZupRec /\ zup'.deltas = zup.deltas /\ zup'.refusing = F
      /\ zup'.restated = zup.restated /\ zup'.reason = zup.reason /\ zup'.over = zup.over
      BY <1>0, <1>3 DEF RInv, RTypeOK, ZupRec
<1>5. StopOf(zup') = "refusal" BY <1>3, <1>4 DEF StopOf
<1>6. \A j \in Items, p \in ItemParts : zup'.deltas[j][p] <= answer[j].size[p]
      BY <1>4 DEF RInv, RBounds
<1> QED BY <1>0, <1>1, <1>2, <1>4, <1>5, <1>6, RAdvances

LEMMA RefusesHow ==
  ASSUME answer \in Answers, NEW i \in Items
  PROVE  RefusesAll(i) <=> answer[i].size["refusal"] > 0
<1>1. "refusal" \in ItemParts BY DEF ItemParts
<1>2. answer[i].size["refusal"] \in Nat BY <1>1, AnswerFacts
<1>3. Len(Whole(i, "refusal")) = answer[i].size["refusal"] /\ Whole(i, "refusal") \in Texts
      BY <1>1, WholeIs DEF PiecesOf
<1>4. Whole(i, "refusal") = <<>> <=> Len(Whole(i, "refusal")) = 0 BY <1>3 DEF Texts
<1> QED BY <1>2, <1>3, <1>4 DEF RefusesAll

LEMMA RItemDone ==
  ASSUME RInv, NEW i \in Items, ItemDone(i) PROVE RInv' /\ message' = message
<1> DEFINE s == StartMessage(zr)
           r == CompleteItem(s, i)
           D == zup.done \cup {i}
<1>0. Listening /\ zup' = [zup EXCEPT !.done = D] /\ Goes(r) BY DEF ItemDone
<1>1. /\ ~zup.over /\ zup.reason = "none" /\ ~zup.restated
      /\ s \in Sound(message) /\ s.stop = zr.stop /\ s.settled = zr.settled
      BY <1>0, RListens
<1>2. answer \in Answers /\ zr.stop = StopOf(zup) /\ zup \in ZupRec
      BY DEF RInv, RTypeOK, RHeard
<1> HIDE DEF s
<1>3. r \in Sound(message) /\ r.stop = (IF RefusesAll(i) THEN "refusal" ELSE s.stop)
      BY <1>1, <1>2, SoundItem
<1> HIDE DEF r
<1>4. D \in SUBSET Items /\ i \in D BY <1>2 DEF ZupRec
<1>d. \A j \in Items : j # i => (j \in D <=> j \in zup.done) OBVIOUS
<1> HIDE DEF D
<1>5. /\ zup' \in ZupRec /\ zup'.deltas = zup.deltas /\ zup'.done = D
      /\ zup'.restated = zup.restated /\ zup'.reason = zup.reason /\ zup'.over = zup.over
      /\ zup'.refusing = zup.refusing
      BY <1>0, <1>2, <1>4 DEF ZupRec
<1>6. \A j \in Items, p \in ItemParts : zup'.deltas[j][p] <= answer[j].size[p]
      BY <1>5 DEF RInv, RBounds
<1>7. r.stop = StopOf(zup')
  <2>1. RefusesAll(i) <=> answer[i].size["refusal"] > 0 BY <1>2, RefusesHow
  <2>2. RefusedBy(zup', i) <=> answer[i].size["refusal"] > 0 BY <1>4, <1>5 DEF RefusedBy
  <2>3. \A j \in Items : j # i => (RefusedBy(zup', j) <=> RefusedBy(zup, j))
        BY <1>d, <1>5 DEF RefusedBy
  <2>4. RefusedBy(zup, i) => answer[i].size["refusal"] > 0
    <3>1. "refusal" \in ItemParts BY DEF ItemParts
    <3>2. zup.deltas[i]["refusal"] <= answer[i].size["refusal"] BY <3>1 DEF RInv, RBounds
    <3>3. zup.deltas[i]["refusal"] \in Nat /\ answer[i].size["refusal"] \in Nat
          BY <1>2, <3>1, AnswerFacts DEF ZupRec
    <3> QED BY <3>2, <3>3 DEF RefusedBy
  <2>5. CASE RefusesAll(i) BY <1>3, <2>1, <2>2, <2>5 DEF StopOf
  <2>6. CASE ~RefusesAll(i)
    <3>1. \A j \in Items : RefusedBy(zup', j) <=> RefusedBy(zup, j) BY <2>1, <2>2, <2>3, <2>4, <2>6
    <3>2. StopOf(zup') = StopOf(zup) BY <1>5, <3>1 DEF StopOf
    <3> QED BY <1>1, <1>2, <1>3, <2>6, <3>2
  <2> QED BY <2>5, <2>6
<1> QED BY <1>0, <1>1, <1>3, <1>5, <1>6, <1>7, RAdvances

LEMMA RCompleted ==
  ASSUME RInv, NEW restated \in BOOLEAN, NEW reason \in Reasons, Completed(restated, reason)
  PROVE  RInv' /\ message' = message
<1> DEFINE a == StartMessage(zr)
           b == [a EXCEPT !.settled = TRUE]
           s == Reason(b, reason)
           r == IF restated THEN CompleteAll(s) ELSE s
<1>0. Listening /\ zup' = [zup EXCEPT !.restated = restated, !.reason = reason] /\ Goes(r)
      BY DEF Completed, CompleteAll
<1>1. /\ ~zup.over /\ zup.reason = "none" /\ ~zup.restated
      /\ a \in Sound(message) /\ a.stop = zr.stop
      BY <1>0, RListens
<1>2. answer \in Answers /\ zr.stop = StopOf(zup) /\ zup \in ZupRec
      BY DEF RInv, RTypeOK, RHeard
<1> HIDE DEF a
<1>3. b \in Sound(message) /\ b.stop = a.stop /\ b.settled = TRUE BY <1>1, SoundSettled
<1> HIDE DEF b
<1>4. /\ s \in Sound(message) /\ s.settled = TRUE
      /\ s.stop = (IF zr.stop = "refusal" \/ reason = "content_filter" THEN "refusal"
                   ELSE IF reason = "max_output_tokens" THEN "max_tokens" ELSE zr.stop)
      BY <1>1, <1>3, SoundReason
<1> HIDE DEF s
<1>5. /\ r \in Sound(message) /\ r.settled = TRUE
      /\ r.stop = (IF restated /\ \E i \in Items : RefusesAll(i) THEN "refusal" ELSE s.stop)
  <2>1. CASE restated BY <1>2, <1>4, <2>1, RCompletesAll
  <2>2. CASE ~restated BY <1>4, <2>2
  <2> QED BY <2>1, <2>2
<1> HIDE DEF r
<1>6. /\ zup' \in ZupRec /\ zup'.deltas = zup.deltas /\ zup'.done = zup.done
      /\ zup'.restated = restated /\ zup'.reason = reason /\ zup'.over = zup.over
      /\ zup'.refusing = zup.refusing
      BY <1>0, <1>2 DEF ZupRec
<1>7. \A j \in Items, p \in ItemParts : zup'.deltas[j][p] <= answer[j].size[p]
      BY <1>6 DEF RInv, RBounds
<1>8. r.stop = StopOf(zup')
  <2>1. \A j \in Items : RefusesAll(j) <=> answer[j].size["refusal"] > 0 BY <1>2, RefusesHow
  <2>2. zr.stop = IF (\E j \in Items : RefusedBy(zup, j)) \/ zup.refusing # {} THEN "refusal" ELSE "none"
        BY <1>1, <1>2 DEF StopOf
  <2>3. CASE restated
    <3>1. \A j \in Items : RefusedBy(zup', j) <=> RefusesAll(j) BY <1>6, <2>1, <2>3 DEF RefusedBy
    <3>2. \A j \in Items : RefusedBy(zup, j) => RefusesAll(j)
      <4> TAKE j \in Items
      <4>1. "refusal" \in ItemParts BY DEF ItemParts
      <4>2. zup.deltas[j]["refusal"] <= answer[j].size["refusal"] BY <4>1 DEF RInv, RBounds
      <4>3. zup.deltas[j]["refusal"] \in Nat /\ answer[j].size["refusal"] \in Nat
            BY <1>2, <4>1, AnswerFacts DEF ZupRec
      <4> QED BY <2>1, <4>2, <4>3 DEF RefusedBy
    <3>3. StopOf(zup') = IF \/ \E j \in Items : RefusesAll(j)
                            \/ zup.refusing # {} \/ reason = "content_filter"
                         THEN "refusal"
                         ELSE IF reason = "max_output_tokens" THEN "max_tokens" ELSE "none"
          BY <1>6, <3>1 DEF StopOf
    <3> QED BY <1>4, <1>5, <2>2, <2>3, <3>2, <3>3
  <2>4. CASE ~restated
    <3>1. \A j \in Items : RefusedBy(zup', j) <=> RefusedBy(zup, j) BY <1>1, <1>6, <2>4 DEF RefusedBy
    <3>3. StopOf(zup') = IF \/ \E j \in Items : RefusedBy(zup, j)
                            \/ zup.refusing # {} \/ reason = "content_filter"
                         THEN "refusal"
                         ELSE IF reason = "max_output_tokens" THEN "max_tokens" ELSE "none"
          BY <1>6, <3>1 DEF StopOf
    <3> QED BY <1>4, <1>5, <2>2, <2>4, <3>3
  <2> QED BY <2>3, <2>4
<1> QED BY <1>0, <1>1, <1>5, <1>6, <1>7, <1>8, RAdvances

-----------------------------------------------------------------------------
(* The end of the stream *)

\* What the end leaves of the translator's state.
LEMMA REnds ==
  ASSUME RInv, NEW r \in ZrRec, r.stop = zr.stop, zup' = [zup EXCEPT !.over = TRUE], Goes(r)
  PROVE  /\ RTypeOK' /\ RBounds' /\ RHeard' /\ RUnsettled' /\ zr'.out = <<>> /\ zup'.over
         /\ message' = message /\ wire' = r.out /\ answer' = answer
         /\ zr'.stop = r.stop /\ zr'.toolItems = r.toolItems
<1>1. /\ zr' = [r EXCEPT !.out = <<>>] /\ wire' = r.out /\ message' = message
      /\ answer' = answer /\ tagged' = tagged
      BY DEF Goes, Send
<1>2. <<>> \in Seq(Events) OBVIOUS
<1>3. zr' \in ZrRec /\ zr'.out = <<>> /\ zr'.stop = r.stop /\ zr'.toolItems = r.toolItems
      BY <1>1, <1>2 DEF ZrRec
<1>4. RTypeOK BY DEF RInv
<1>5. /\ zup' \in ZupRec /\ zup'.over /\ zup'.deltas = zup.deltas /\ zup'.done = zup.done
      /\ zup'.restated = zup.restated /\ zup'.reason = zup.reason /\ zup'.refusing = zup.refusing
      BY <1>4 DEF RTypeOK, ZupRec
<1>6. Items' = Items BY <1>1 DEF Items
<1>7. RTypeOK' BY <1>1, <1>3, <1>4, <1>5, <1>6 DEF RTypeOK, ZrRec, ZupRec
<1>8. RBounds' BY <1>1, <1>5, <1>6 DEF RInv, RBounds
<1>9. RHeard'
  <2>1. StopOf(zup)' = StopOf(zup) BY <1>1, <1>5, <1>6 DEF StopOf, RefusedBy
  <2> QED BY <1>3, <2>1 DEF RInv, RHeard
<1>10. RUnsettled' BY <1>5 DEF RUnsettled
<1> QED BY <1>1, <1>3, <1>5, <1>7, <1>8, <1>9, <1>10

LEMMA RFails ==
  ASSUME RInv, NEW s, NEW z, ROK(s, message, z), s.stop = zr.stop,
         zup' = [zup EXCEPT !.over = TRUE], Goes(EmitError(s))
  PROVE  RInv' /\ message' = message
<1> DEFINE r == EmitError(s)
           e == Emit(s, ErrorEvent)
<1>1. s \in ZrRec /\ At(s, message, z) BY DEF ROK
<1>2. PICK y : /\ Delivers(r.out, message, y) /\ y \in Msg /\ y.phase = "failed" /\ y.stop = "none"
      BY <1>1, ErrorOK
<1>3. Keeps(r, s, {"failed", "out"}) BY <1>1, ErrorOK
<1>4. r \in ZrRec
  <2>1. e \in ZrRec BY <1>1, EventsOf, REmitType
  <2>2. r = [e EXCEPT !.failed = TRUE] BY DEF EmitError
  <2> HIDE DEF e, r
  <2> QED BY <2>1, <2>2 DEF ZrRec
<1>5. Goes(r) OBVIOUS
<1> HIDE DEF r
<1>6. r.stop = zr.stop BY <1>1, <1>3 DEF Keeps, ZrRec
<1>7. /\ RTypeOK' /\ RBounds' /\ RHeard' /\ RUnsettled' /\ zr'.out = <<>> /\ zup'.over
      /\ message' = message /\ wire' = r.out /\ answer' = answer
      BY <1>4, <1>5, <1>6, REnds
<1>8. REnded(y)' BY <1>2 DEF REnded
<1>9. Delivers(wire', message', y) BY <1>2, <1>7
<1>10. message \in Msg BY DEF RInv
<1> QED BY <1>7, <1>8, <1>9, <1>10 DEF RInv

LEMMA RConcludes ==
  ASSUME RInv, ROK(zr, message, message),
         zup' = [zup EXCEPT !.over = TRUE], Goes(Conclude(zr, Stop(zr)))
  PROVE  RInv' /\ message' = message
<1> DEFINE stop == Stop(zr)
           r == Conclude(zr, stop)
<1>1. /\ zr \in ZrRec /\ At(zr, message, message) /\ Decent(message)
      /\ (zr.toolItems > 0 <=> ToolShown(message)) /\ message \in Msg
      BY DEF ROK, RInv
<1>2. stop \in StopReasons BY <1>1 DEF Stop, ZrRec, StopReasons
<1>3. zr.stop \in {"none", "refusal", "max_tokens"} BY DEF RInv, RHeard, StopOf
<1>4. stop = "tool_use" => ToolShown(message) BY <1>1, <1>3 DEF Stop
<1>5. Filled(message) BY <1>1, DecentFilled
<1>r. Goes(r) OBVIOUS
<1> HIDE DEF stop
<1>6. Keeps(r, zr, {"started", "current", "kind", "out"})
      BY <1>1, <1>2, <1>4, <1>5, ConcludeOK
<1>7. PICK y : /\ Delivers(r.out, message, y) /\ y \in Msg /\ y.phase = "done" /\ y.stop = stop
               /\ Len(y.blocks) = Len(message.blocks)
               /\ \A i \in 1..Len(message.blocks) : SameBlock(y, message, i)
      BY <1>1, <1>2, <1>4, <1>5, ConcludeOK
<1>8. r \in ZrRec
  <2> DEFINE a == StartMessage(zr)
             f == Emit(a, BlockStop(a.current))
             b == CloseCurrent(a)
             c == Emit(b, MessageDelta(stop))
  <2>1. a \in ZrRec BY <1>1, RStartType
  <2> HIDE DEF a
  <2>2. f \in ZrRec
    <3>1. a.current \in Nat BY <2>1 DEF ZrRec
    <3> QED BY <2>1, <3>1, EventsOf, REmitType
  <2>3. b = IF a.current = 0 THEN a ELSE [f EXCEPT !.current = 0, !.kind = "none"] BY DEF CloseCurrent
  <2> HIDE DEF b, f
  <2>4. b \in ZrRec BY <2>1, <2>2, <2>3 DEF ZrRec
  <2>5. c \in ZrRec BY <1>2, <2>4, EventsOf, REmitType
  <2> HIDE DEF c
  <2>6. Emit(c, MessageStop) \in ZrRec BY <2>5, EventsOf, REmitType
  <2> QED BY <2>6 DEF Conclude, a, b, c
<1> HIDE DEF r
<1>9. r.stop = zr.stop /\ r.toolItems = zr.toolItems BY <1>1, <1>6 DEF Keeps, ZrRec
<1>10. /\ RTypeOK' /\ RBounds' /\ RHeard' /\ RUnsettled' /\ zr'.out = <<>> /\ zup'.over
       /\ message' = message /\ wire' = r.out
       /\ zr'.stop = r.stop /\ zr'.toolItems = r.toolItems
       BY <1>8, <1>9, <1>r, REnds
<1>11. ToolShown(y) <=> ToolShown(message)
  <2>1. DOMAIN y.blocks = 1..Len(y.blocks) /\ DOMAIN message.blocks = 1..Len(message.blocks)
        BY <1>1, <1>7, MsgFields
  <2> QED BY <1>7, <2>1 DEF ToolShown, SameBlock
<1>12. Stop(zr)' = stop BY <1>9, <1>10 DEF Stop, stop
<1>13. REnded(y)' BY <1>1, <1>7, <1>9, <1>10, <1>11, <1>12 DEF REnded
<1>14. Delivers(wire', message', y) BY <1>7, <1>10
<1> QED BY <1>1, <1>10, <1>13, <1>14 DEF RInv

\* A step of the translator keeps its invariant, and is a step of the message
\* the client is promised.
LEMMA RStep == ASSUME RInv, ResponsesNext PROVE RInv' /\ (Promise!MSNext \/ message' = message)
<1>1. CASE Take /\ UNCHANGED <<zr, answer, tagged, zup>>
  <2>1. PICK z : Delivers(wire, message, z)
                 /\ (IF zup.over THEN REnded(z) ELSE ROK(zr, z, z) /\ Declines(zr))
        BY DEF RInv
  <2>2. message \in Msg BY DEF RInv
  <2>3. Promise!MSNext /\ message' \in Msg /\ Delivers(wire', message', z)
        BY <1>1, <2>1, <2>2, TakePromised
  <2>4. zr' = zr /\ answer' = answer /\ tagged' = tagged /\ zup' = zup BY <1>1
  <2>5. Items' = Items BY <2>4 DEF Items
  <2>6. RTypeOK' BY <2>4, <2>5 DEF RInv, RTypeOK, ZrRec, ZupRec
  <2>7. RBounds' /\ RUnsettled' BY <2>4, <2>5 DEF RInv, RBounds, RUnsettled
  <2>8. RHeard' BY <2>4, <2>5 DEF RInv, RHeard, StopOf, RefusedBy
  <2>9. REnded(z) => REnded(z)' BY <2>4 DEF REnded, Stop
  <2>10. (ROK(zr, z, z) => ROK(zr, z, z)') /\ (Declines(zr) => Declines(zr)') BY <2>4, RFrame
  <2>11. zr'.out = <<>> BY <2>4 DEF RInv
  <2> QED BY <2>1, <2>3, <2>4, <2>6, <2>7, <2>8, <2>9, <2>10, <2>11 DEF RInv
<1>2. ASSUME NEW i \in Items,
             ItemAdded(i) \/ ItemDone(i) \/ EmptyRefusal(i) \/ \E p \in ItemParts : ItemDelta(i, p)
      PROVE  RInv' /\ message' = message
      BY <1>2, RItemAdded, RItemDone, REmptyRefusal, RItemDelta
<1>3. ASSUME NEW restated \in BOOLEAN, NEW reason \in Reasons, Completed(restated, reason)
      PROVE  RInv' /\ message' = message
      BY <1>3, RCompleted
<1>4. CASE ResponseFailed
  <2> DEFINE a == StartMessage(zr)
             s == [a EXCEPT !.settled = TRUE]
  <2>1. Listening /\ zup' = [zup EXCEPT !.over = TRUE] /\ Goes(EmitError(s))
        BY <1>4 DEF ResponseFailed
  <2>2. a \in Sound(message) /\ a.stop = zr.stop BY <2>1, RListens
  <2> HIDE DEF a
  <2>3. s \in Sound(message) /\ s.stop = zr.stop BY <2>2, SoundSettled
  <2> HIDE DEF s
  <2>4. PICK z : ROK(s, message, z) BY <2>3 DEF Sound
  <2> QED BY <2>1, <2>3, <2>4, RFails
<1>5. ASSUME NEW how \in {"[DONE]", "eof", "error"}, StreamEnds(how)
      PROVE  RInv' /\ message' = message
  <2>1. wire = <<>> /\ ~zup.over /\ zup' = [zup EXCEPT !.over = TRUE] BY <1>5 DEF StreamEnds
  <2>2. ROK(zr, message, message)
    <3>1. PICK z : Delivers(wire, message, z) /\ ROK(zr, z, z) BY <2>1 DEF RInv
    <3>2. z = message BY <2>1, <3>1, NothingLeft
    <3> QED BY <3>1, <3>2
  <2>3. CASE how = "error" \/ (how = "eof" /\ ~zr.settled)
    <3>1. Goes(EmitError(zr)) BY <1>5, <2>3 DEF StreamEnds
    <3> QED BY <2>1, <2>2, <3>1, RFails
  <2>4. CASE ~(how = "error" \/ (how = "eof" /\ ~zr.settled))
    <3>1. Goes(Conclude(zr, Stop(zr))) BY <1>5, <2>4 DEF StreamEnds
    <3> QED BY <2>1, <2>2, <3>1, RConcludes
  <2> QED BY <2>3, <2>4
<1> QED BY <1>1, <1>2, <1>3, <1>4, <1>5 DEF ResponsesNext

LEMMA RInitially == ASSUME ResponsesInit PROVE RInv
<1>1. /\ wire = <<>> /\ message = NoMessage /\ answer \in Answers /\ tagged \in BOOLEAN
      /\ zr = [block |-> [i \in Items |-> 0],
               sent |-> [i \in Items |-> [p \in ItemParts |-> <<>>]],
               dropped |-> {}, toolItems |-> 0, settled |-> FALSE,
               started |-> FALSE, failed |-> FALSE, current |-> 0, kind |-> "none",
               next |-> 1, stop |-> "none", out |-> <<>>]
      /\ zup = [deltas |-> [i \in Items |-> [p \in ItemParts |-> 0]], refusing |-> {}, added |-> {},
                done |-> {}, restated |-> FALSE, reason |-> "none", over |-> FALSE]
      BY DEF ResponsesInit, WireInit, NewResponsesStream, NothingSent, Items
<1>2. <<>> \in Seq(Events) /\ <<>> \in Seq(Block) /\ <<>> \in Texts /\ Len(<<>>) = 0 BY DEF Texts
<1>a. zr.block \in [Items -> Nat] /\ zr.sent \in [Items -> [ItemParts -> Texts]]
      BY <1>1, <1>2
<1>3. zr \in ZrRec BY <1>1, <1>2, <1>a DEF ZrRec
<1>4. zup \in ZupRec BY <1>1 DEF ZupRec, Reasons
<1>5. message \in Msg /\ message.blocks = <<>> /\ message.phase = "none" /\ message.stop = "none"
      BY <1>1, <1>2 DEF Msg, NoMessage
<1>6. Delivers(<<>>, message, message) BY <1>5, DeliversNothing
<1>7. /\ zr = [x \in DOMAIN zr |-> zr[x]] /\ EmitterFields \subseteq DOMAIN zr
      /\ zr.out = <<>> /\ zr.started = FALSE /\ zr.next = 1 /\ zr.current = 0 /\ zr.kind = "none"
      /\ zr.stop = "none" /\ zr.block = [i \in Items |-> 0] /\ zr.toolItems = 0
      /\ zr.sent = [i \in Items |-> [p \in ItemParts |-> <<>>]]
      BY <1>1 DEF EmitterFields
<1>8. At(zr, message, message)
  <2>1. Delivers(zr.out, message, message) BY <1>6, <1>7
  <2>2. \A i \in 1..Len(message.blocks) : message.blocks[i].open <=> i = zr.current
        BY <1>2, <1>5
  <2>3. Len(message.blocks) = 0 BY <1>2, <1>5
  <2>4. zr.started \in BOOLEAN /\ message.phase = IF zr.started THEN "open" ELSE "none"
        BY <1>5, <1>7
  <2>5. zr.kind = IF zr.current = 0 THEN "none" ELSE message.blocks[zr.current].kind
        BY <1>7
  <2> QED BY <1>5, <1>7, <2>1, <2>2, <2>3, <2>4, <2>5 DEF At
<1>9. Decent(message) /\ ROwned(zr, message)
      BY <1>2, <1>5, <1>7 DEF Decent, DecentBut, ROwned
<1>10. zr.toolItems > 0 <=> ToolShown(message)
  <2>1. DOMAIN message.blocks = {} BY <1>5
  <2> QED BY <1>7, <2>1 DEF ToolShown
<1>11. Declines(zr)
  <2>1. "refusal" \in ItemParts BY DEF ItemParts
  <2> QED BY <1>7, <2>1 DEF Declines
<1>12. RBounds
  <2>1. \A i \in Items, p \in ItemParts : answer[i].size[p] \in Nat /\ zup.deltas[i][p] = 0
        BY <1>1, AnswerFacts
  <2> QED BY <2>1 DEF RBounds
<1>13. RHeard /\ RUnsettled
  <2>1. "refusal" \in ItemParts BY DEF ItemParts
  <2>2. \A i \in Items : ~RefusedBy(zup, i) BY <1>1, <2>1 DEF RefusedBy
  <2> QED BY <1>1, <1>7, <2>2 DEF RHeard, StopOf, RUnsettled
<1>14. Delivers(wire, message, message) /\ ~zup.over BY <1>1, <1>6
<1> QED BY <1>1, <1>3, <1>4, <1>5, <1>7, <1>8, <1>9, <1>10, <1>11, <1>12, <1>13, <1>14
        DEF RInv, RTypeOK, ROK

\* And the stop reason told is the one of the turn.
LEMMA RTold == ASSUME RInv PROVE ResponsesStop
<1> DEFINE declined == \/ \E i \in Items : Said(i, "refusal") # <<>>
                       \/ zup.refusing # {} \/ zup.reason = "content_filter"
<1>1. SUFFICES ASSUME zup.over, wire = <<>>, message.phase = "done"
               PROVE  message.stop = CASE declined -> "refusal"
                        [] ~declined /\ zup.reason = "max_output_tokens" -> "max_tokens"
                        [] OTHER -> IF ToolShown(message) THEN "tool_use" ELSE "end_turn"
      BY DEF ResponsesStop, Concluded
<1>2. PICK z : Delivers(wire, message, z) /\ REnded(z) BY <1>1 DEF RInv
<1>3. z = message BY <1>1, <1>2, NothingLeft
<1>4. message.stop = Stop(zr) /\ (zr.toolItems > 0 <=> ToolShown(message)) BY <1>1, <1>2, <1>3 DEF REnded
<1>5. answer \in Answers /\ zup \in ZupRec /\ zr.stop = StopOf(zup) BY DEF RInv, RTypeOK, RHeard
<1>6. \A i \in Items : Said(i, "refusal") # <<>> <=> RefusedBy(zup, i)
  <2> TAKE i \in Items
  <2>1. "refusal" \in ItemParts BY DEF ItemParts
  <2>2. i \in Nat /\ zup.deltas[i]["refusal"] \in Nat BY <1>5, <2>1, AnswerFacts DEF ZupRec
  <2> DEFINE q == Pieces(i, "refusal", zup.deltas[i]["refusal"])
  <2>3. q \in Texts /\ Len(q) = zup.deltas[i]["refusal"] BY <2>1, <2>2, PiecesAre DEF PiecesOf
  <2>4. q # <<>> <=> zup.deltas[i]["refusal"] > 0
    <3> HIDE DEF q
    <3>1. q = <<>> <=> Len(q) = 0 BY <2>3 DEF Texts
    <3> QED BY <2>2, <2>3, <3>1
  <2>5. Whole(i, "refusal") # <<>> <=> answer[i].size["refusal"] > 0 BY <1>5, RefusesHow DEF RefusesAll
  <2> QED BY <2>4, <2>5 DEF Said, RefusedBy
<1>7. declined <=> \/ \E i \in Items : RefusedBy(zup, i)
                   \/ zup.refusing # {} \/ zup.reason = "content_filter"
      BY <1>6
<1> HIDE DEF declined
<1> QED BY <1>4, <1>5, <1>7 DEF Stop, StopOf

LEMMA RStill ==
  ASSUME RInv, UNCHANGED <<wire, message, zr, answer, tagged, zup>> PROVE RInv'
<1>1. wire' = wire /\ message' = message /\ zr' = zr /\ answer' = answer /\ tagged' = tagged /\ zup' = zup
      OBVIOUS
<1>2. PICK z : Delivers(wire, message, z)
               /\ (IF zup.over THEN REnded(z) ELSE ROK(zr, z, z) /\ Declines(zr))
      BY DEF RInv
<1>5. Items' = Items BY <1>1 DEF Items
<1>6. RTypeOK' BY <1>1, <1>5 DEF RInv, RTypeOK, ZrRec, ZupRec
<1>7. RBounds' /\ RUnsettled' BY <1>1, <1>5 DEF RInv, RBounds, RUnsettled
<1>8. RHeard' BY <1>1, <1>5 DEF RInv, RHeard, StopOf, RefusedBy
<1>9. REnded(z) => REnded(z)' BY <1>1 DEF REnded, Stop
<1>10. (ROK(zr, z, z) => ROK(zr, z, z)') /\ (Declines(zr) => Declines(zr)') BY <1>1, RFrame
<1>11. message' \in Msg /\ Delivers(wire', message', z) /\ zr'.out = <<>> BY <1>1, <1>2 DEF RInv
<1> QED BY <1>1, <1>2, <1>6, <1>7, <1>8, <1>9, <1>10, <1>11 DEF RInv

-----------------------------------------------------------------------------
(* All of them *)

\* The invariant of the translator that the instance runs.
StreamsInv ==
  /\ part = "responses" => RInv
  /\ part = "chat" => ChatInv
  /\ part = "cloud" => CloudInv

LEMMA StreamsInitially == Init => StreamsInv /\ Promise!MSInit
<1> SUFFICES ASSUME Init PROVE StreamsInv /\ Promise!MSInit OBVIOUS
<1>1. message = NoMessage BY DEF Init, ResponsesInit, ChatInit, CloudInit, WireInit
<1>2. Promise!MSInit BY <1>1 DEF Promise!MSInit, NoMessage
<1>3. StreamsInv BY RInitially, ChatInitially, CloudInitially DEF Init, StreamsInv
<1> QED BY <1>2, <1>3

\* A step keeps the invariant, and is a step of the promised stream or leaves
\* the client's message as it is.
LEMMA StreamsStep ==
  ASSUME StreamsInv, [Next]_vars
  PROVE  StreamsInv' /\ [Promise!MSNext]_(Promise!msVars)
<1>1. CASE UNCHANGED vars
  <2>1. /\ UNCHANGED <<wire, message, zr, answer, tagged, zup>>
        /\ UNCHANGED <<wire, message, cs, gate, cup>>
        /\ UNCHANGED <<wire, message, conv, parts, cutoff, ended>>
        /\ part' = part
        BY <1>1 DEF vars, Streams, responses, chat, cloud
  <2>2. StreamsInv' BY <2>1, RStill, ChatStill, CloudStill DEF StreamsInv
  <2> QED BY <2>1, <2>2 DEF Promise!msVars
<1>2. CASE part' = part /\ part \in {"one request", "two requests"} /\ UNCHANGED Streams
  <2>1. message' = message BY <1>2 DEF Streams
  <2>2. StreamsInv' BY <1>2 DEF StreamsInv
  <2> QED BY <2>1, <2>2 DEF Promise!msVars
<1>3. CASE part' = part /\ part = "responses" /\ ResponsesNext
  <2>1. RInv' /\ (Promise!MSNext \/ message' = message) BY <1>3, RStep DEF StreamsInv
  <2>2. StreamsInv' BY <1>3, <2>1 DEF StreamsInv
  <2> QED BY <2>1, <2>2 DEF Promise!msVars
<1>4. CASE part' = part /\ part = "chat" /\ ChatNext
  <2>1. ChatInv' /\ (Promise!MSNext \/ message' = message) BY <1>4, ChatStep DEF StreamsInv
  <2>2. StreamsInv' BY <1>4, <2>1 DEF StreamsInv
  <2> QED BY <2>1, <2>2 DEF Promise!msVars
<1>5. CASE part' = part /\ part = "cloud" /\ CloudNext
  <2>1. CloudInv' /\ (Promise!MSNext \/ message' = message) BY <1>5, CloudStep DEF StreamsInv
  <2>2. StreamsInv' BY <1>5, <2>1 DEF StreamsInv
  <2> QED BY <2>1, <2>2 DEF Promise!msVars
<1> QED BY <1>1, <1>2, <1>3, <1>4, <1>5 DEF Next

\* Every translator implements the message stream a client is promised: blocks
\* one after the other, text to the open block and of its kind, a stop reason
\* once, nothing after an error (responsesstream.go 402-453, chatwire.go
\* 1048-1092, format/stream.go 69-222).
THEOREM StreamsKeepPromise == Spec => StreamsAsPromised
<1>1. Init => StreamsInv /\ Promise!MSInit BY StreamsInitially
<1>2. StreamsInv /\ [Next]_vars => StreamsInv' /\ [Promise!MSNext]_(Promise!msVars)
      BY StreamsStep
<1> QED BY <1>1, <1>2, PTL DEF Spec, StreamsAsPromised, Promise!MSSpec

THEOREM StreamsSound == Spec => []StreamsInv
<1>1. Init => StreamsInv BY StreamsInitially
<1>2. StreamsInv /\ [Next]_vars => StreamsInv' BY StreamsStep
<1> QED BY <1>1, <1>2, PTL DEF Spec

\* The stop reason tells how the turn ended, whatever came after it or before
\* (responsesstream.go 716-757, chatwire.go's finish, format/stream.go).
THEOREM StopReasonTells == Spec => []StopTells
<1>1. StreamsInv => StopTells BY RTold, ChatTold, CloudTold DEF StreamsInv, StopTells
<1> QED BY <1>1, StreamsSound, PTL
=============================================================================
