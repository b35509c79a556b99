------------------------------ MODULE OpenRouter ------------------------------
(***************************************************************************)
(* The OpenRouter gateway: how a message request is sent to one provider   *)
(* after another (forwardToOpenRouter in internal/api/server.go), with the *)
(* provider router, its circuit breaker and its sticky sessions            *)
(* (internal/openrouter/router.go, capability.go) and the rate limiter's   *)
(* cooldown (ratelimit.go).                                                *)
(*                                                                         *)
(* The requests are for one model and come from one session.  A pause is   *)
(* the time until a request's next step; the budget of a request runs out  *)
(* at any moment.  The pacing interval of the rate limiter is left out.    *)
(***************************************************************************)
EXTENDS Naturals, Sequences, FiniteSets

CONSTANTS
  Requests,    \* message requests
  Providers,   \* providers of the model
  NoProvider,  \* the empty provider name: OpenRouter chooses
  Catalogs,    \* the answers of the endpoints API: the providers by rank, and
               \* those that are healthy
  Orders,      \* the routing modes of the model a request may find, with the
               \* providers the operator names
  Needs,       \* the sets of providers that can serve a request's tools
  MaxRetries,  \* maxRetries: walks of the chain after the first
  Max429,      \* Retry429Max
  Threshold    \* FailureThreshold

NoCatalog == [ranks |-> <<>>, healthy |-> {}, known |-> FALSE]

\* What a request does next; one that is to stick to a provider has its name.
Stages == {"idle", "new", "filter", "top", "wait", "pick", "sent", "body",
           "answered", "failed", "gone"}

ASSUME OpenRouterAssumption ==
  /\ IsFiniteSet(Providers) /\ NoProvider \notin Providers
  /\ (Providers \cup {NoProvider}) \cap Stages = {}
  /\ MaxRetries \in Nat /\ Max429 \in Nat /\ Threshold \in Nat \ {0}
  /\ Catalogs \subseteq [ranks : Seq(Providers), healthy : SUBSET Providers, known : {TRUE}]
  /\ Orders \subseteq [mode : {"auto", "pinned", "custom"}, names : Seq(Providers)]
  /\ \A o \in Orders : o.mode = "pinned" => o.names # <<>>
  /\ Needs \subseteq SUBSET Providers
  /\ Orders # {} /\ Needs # {}

VARIABLES
  catalog,     \* ProviderRouter.ranks
  sticky,      \* the session's entry of ProviderRouter.sticky
  consecFails, \* consecutive failures of a provider, Threshold for all above
  resting,     \* the breaker's cooldown since the last result is not over
  cooldown,    \* RateLimiter: Wait would sleep
  appSpoof,    \* Server.appSpoofActivated
  stage,       \* what a request does next
  order, need, \* the routing mode and the tool requirement of a request
  chain,       \* candidates
  idx, tried, consec429, retryCycle, spoofed,  \* the loop's variables; spoofed
               \* is what the attempt's own headers were built with
  last,        \* history: how the last attempt ended; a "fault" is what another
               \* attempt may not meet
  late,        \* the deadline is past, or would be after the next pause
  asked        \* history: the providers a request was sent to, with the walk

routerVars == <<catalog, sticky, consecFails, resting>>
loopVars == <<idx, tried, consec429, retryCycle, spoofed>>
orVars == <<routerVars, cooldown, appSpoof, stage, order, need, chain, loopVars,
            last, late, asked>>

ORInit ==
  /\ catalog = NoCatalog /\ sticky = NoProvider
  /\ consecFails = [p \in Providers |-> 0]
  /\ resting = [p \in Providers |-> FALSE]
  /\ cooldown = FALSE /\ appSpoof = FALSE
  /\ stage = [r \in Requests |-> "idle"]
  /\ order = [r \in Requests |-> CHOOSE o \in Orders : TRUE]
  /\ need = [r \in Requests |-> CHOOSE n \in Needs : TRUE]
  /\ chain = [r \in Requests |-> <<>>]
  /\ idx = [r \in Requests |-> 1]
  /\ tried = [r \in Requests |-> {}]
  /\ consec429 = [r \in Requests |-> 0]
  /\ retryCycle = [r \in Requests |-> 0]
  /\ spoofed = [r \in Requests |-> FALSE]
  /\ last = [r \in Requests |-> "none"]
  /\ late = [r \in Requests |-> FALSE]
  /\ asked = [r \in Requests |-> {}]

Elems(s) == {s[i] : i \in DOMAIN s}

\* What a list has of a set, in its order.
Keep(s, S) ==
  LET kept[i \in 0 .. Len(s)] == IF i = 0 THEN << >>
                                 ELSE IF s[i] \in S THEN Append(kept[i-1], s[i])
                                 ELSE kept[i-1]
  IN kept[Len(s)]

\* A list with each provider at its first place only: a provider may have several
\* endpoints, and the operator may name one twice.
Once(s) ==
  LET new == {i \in DOMAIN s : \A j \in 1..i-1 : s[j] # s[i]}
      places == Keep([i \in DOMAIN s |-> i], new)
  IN [k \in DOMAIN places |-> s[places[k]]]

NoRepeats(s) == \A i, j \in DOMAIN s : s[i] = s[j] => i = j

GoTo(r, next) == stage' = [stage EXCEPT ![r] = next]

\* A request arrives; the operator's settings may have changed since the last.
Arrive(r) ==
  /\ stage[r] = "idle" /\ GoTo(r, "new")
  /\ \E o \in Orders, n \in Needs :
       order' = [order EXCEPT ![r] = o] /\ need' = [need EXCEPT ![r] = n]
  /\ UNCHANGED <<routerVars, cooldown, appSpoof, chain, loopVars, last, late, asked>>

-----------------------------------------------------------------------------
(* The provider router *)

\* A background fetch of the endpoints has landed, or the cache was refilled:
\* RefreshRanks, which drops a sticky provider that is not ranked any more.
RefreshRanks ==
  \E c \in Catalogs \ {catalog} :
    /\ catalog' = c
    /\ sticky' = IF sticky \in Elems(c.ranks) THEN sticky ELSE NoProvider
    /\ UNCHANGED <<consecFails, resting, cooldown, appSpoof, stage, order, need, chain,
                   loopVars, last, late, asked>>

\* providerHealthyUnderThresholdLocked
Usable(p) ==
  /\ catalog.known => p \in Elems(catalog.ranks) /\ p \in catalog.healthy
  /\ ~(consecFails[p] >= Threshold /\ resting[p])

Ranked == Elems(catalog.ranks)
AllUsable == {p \in Providers : Usable(p)}

StickyFirst ==
  LET front == IF sticky # NoProvider /\ Usable(sticky) THEN <<sticky>> ELSE <<>>
  IN front \o Keep(Once(catalog.ranks), AllUsable \ Elems(front))

\* SelectChain: the candidates of a request, the first of which the session
\* sticks to.
SelectChain(r) ==
  LET named == order[r].names
      custom == Keep(named, Ranked)
      Chosen(c) == /\ chain' = [chain EXCEPT ![r] = c]
                   /\ sticky' = IF c # <<>> THEN Head(c)
                                ELSE IF sticky # NoProvider /\ ~Usable(sticky) THEN NoProvider
                                ELSE sticky
  IN
  /\ stage[r] = "new" /\ GoTo(r, "filter")
  /\ \/ order[r].mode = "pinned" /\ Chosen(<<Head(named)>>)
     \/ order[r].mode = "custom" /\ custom # <<>> /\ Chosen(custom)
     \/ order[r].mode = "auto" /\ Chosen(StickyFirst)
     \/ order[r].mode = "custom" /\ custom = <<>> /\ Chosen(StickyFirst)
  /\ UNCHANGED <<catalog, consecFails, resting, cooldown, appSpoof, order, need,
                 loopVars, last, late, asked>>

\* FilterCapable, for the providers the catalog knows; with no candidate left
\* OpenRouter chooses.
FilterCapable(r) ==
  LET capable == need[r] \cup (Providers \ Ranked)
      kept == Keep(chain[r], capable)
      source == IF order[r].mode = "custom" /\ order[r].names # <<>>
                THEN order[r].names ELSE catalog.ranks
      filtered == IF chain[r] = <<>> \/ catalog.ranks = <<>> THEN chain[r]
                  ELSE IF kept # <<>> THEN kept
                  ELSE Keep(Once(source), capable \cap AllUsable)
  IN
  /\ stage[r] = "filter" /\ GoTo(r, "top")
  /\ chain' = [chain EXCEPT ![r] = IF filtered = <<>> THEN <<NoProvider>> ELSE filtered]
  /\ UNCHANGED <<routerVars, cooldown, appSpoof, order, need, loopVars, last, late, asked>>

\* RecordResult: the failures in a row; the breaker drops the sticky provider.
RecordResult(p, ok) ==
  IF p = NoProvider THEN UNCHANGED routerVars
  ELSE LET fails == IF ok THEN 0
                    ELSE IF consecFails[p] < Threshold THEN consecFails[p] + 1 ELSE Threshold
       IN
       /\ consecFails' = [consecFails EXCEPT ![p] = fails]
       /\ resting' = [resting EXCEPT ![p] = fails = Threshold]
       /\ sticky' = IF fails = Threshold /\ sticky = p THEN NoProvider ELSE sticky
       /\ UNCHANGED catalog

\* BreakerCooldown has passed since the last result: the provider is tried
\* again, its failures are not forgotten.
HalfOpen(p) ==
  /\ resting[p] /\ resting' = [resting EXCEPT ![p] = FALSE]
  /\ UNCHANGED <<catalog, sticky, consecFails, cooldown, appSpoof, stage, order, need,
                 chain, loopVars, last, late, asked>>

-----------------------------------------------------------------------------
(* The failover loop *)

Provider(r) == chain[r][idx[r]]

\* The top of the loop: the deadline.
CheckDeadline(r) ==
  /\ stage[r] = "top"
  /\ GoTo(r, IF late[r] THEN "failed" ELSE "wait")
  /\ UNCHANGED <<routerVars, cooldown, appSpoof, order, need, chain, loopVars, last,
                 late, asked>>

\* RateLimiter.Wait returns, however late.
Wait(r) ==
  /\ stage[r] = "wait" /\ ~cooldown
  /\ GoTo(r, "pick")
  /\ UNCHANGED <<routerVars, cooldown, appSpoof, order, need, chain, loopVars, last,
                 late, asked>>

\* The next candidate, if there is one; the attempt's headers are built.
Attempt(r) ==
  /\ stage[r] = "pick"
  /\ \/ /\ idx[r] > Len(chain[r])
        /\ GoTo(r, "failed")
        /\ UNCHANGED <<loopVars, asked>>
     \/ /\ idx[r] <= Len(chain[r]) /\ Provider(r) \in tried[r]
        /\ GoTo(r, "top")
        /\ idx' = [idx EXCEPT ![r] = @ + 1]
        /\ UNCHANGED <<tried, consec429, retryCycle, spoofed, asked>>
     \/ /\ idx[r] <= Len(chain[r]) /\ Provider(r) \notin tried[r]
        /\ GoTo(r, "sent")
        /\ tried' = [tried EXCEPT ![r] = @ \cup {Provider(r)}]
        /\ spoofed' = [spoofed EXCEPT ![r] = appSpoof]
        /\ asked' = [asked EXCEPT ![r] = @ \cup {<<Provider(r), retryCycle[r]>>}]
        /\ UNCHANGED <<idx, consec429, retryCycle>>
  /\ UNCHANGED <<routerVars, cooldown, appSpoof, order, need, chain, last, late>>

\* (wrong variant: the walks are not counted)
AdvanceAgain(r, mayCycle) ==
  \/ /\ ~(mayCycle /\ idx[r] >= Len(chain[r]) /\ ~late[r])
     /\ idx' = [idx EXCEPT ![r] = @ + 1]
     /\ GoTo(r, "top")
     /\ UNCHANGED <<tried, retryCycle, late>>
  \/ /\ mayCycle /\ idx[r] >= Len(chain[r]) /\ ~late[r]
     /\ idx' = [idx EXCEPT ![r] = 1]
     /\ tried' = [tried EXCEPT ![r] = {}]
     /\ GoTo(r, "top")
     /\ UNCHANGED <<retryCycle, late>>

\* (wrong variant: the providers tried in the last walk stay marked)
AdvanceStillTried(r, mayCycle) ==
  LET again == mayCycle /\ idx[r] >= Len(chain[r]) /\ retryCycle[r] < MaxRetries /\ ~late[r] IN
  /\ idx' = [idx EXCEPT ![r] = IF again THEN 1 ELSE @ + 1]
  /\ retryCycle' = [retryCycle EXCEPT ![r] = IF again THEN @ + 1 ELSE @]
  /\ GoTo(r, "top")
  /\ UNCHANGED <<tried, late>>

\* On to the next candidate, or to the next walk of the whole chain, unless the
\* pause before it would pass the deadline.
Advance(r, mayCycle) ==
  LET again == mayCycle /\ idx[r] >= Len(chain[r]) /\ retryCycle[r] < MaxRetries /\ ~late[r] IN
  \/ /\ ~again
     /\ idx' = [idx EXCEPT ![r] = @ + 1]
     /\ GoTo(r, "top")
     /\ UNCHANGED <<tried, retryCycle, late>>
  \/ /\ again
     /\ idx' = [idx EXCEPT ![r] = 1]
     /\ tried' = [tried EXCEPT ![r] = {}]
     /\ retryCycle' = [retryCycle EXCEPT ![r] = @ + 1]
     /\ \/ GoTo(r, "top") /\ UNCHANGED late
        \/ GoTo(r, "failed") /\ late' = [late EXCEPT ![r] = TRUE]

Ends(r, how) == last' = [last EXCEPT ![r] = how]

\* Who answers with 2xx headers: they name the provider if the request did not.
Named(r) == IF Provider(r) = NoProvider THEN Providers \cup {NoProvider} ELSE {Provider(r)}

\* No response: a network error, or the budget cut the wait for headers off.
NetworkError(r) ==
  /\ stage[r] = "sent" /\ Ends(r, "fault")
  /\ RecordResult(Provider(r), FALSE) /\ Advance(r, TRUE)
  /\ UNCHANGED <<cooldown, appSpoof, order, need, chain, consec429, spoofed, asked>>

\* An error status other than 429: the provider's failure.  Only a transient
\* one is worth another walk; a redirect ends the request.
ErrorStatus(r) ==
  /\ stage[r] = "sent"
  /\ RecordResult(Provider(r), FALSE)
  /\ \/ \E transient \in BOOLEAN :
          /\ Ends(r, IF transient THEN "fault" ELSE "refused")
          /\ consec429' = [consec429 EXCEPT ![r] = 0]
          /\ Advance(r, transient)
     \/ /\ Ends(r, "redirect") /\ GoTo(r, "failed")
        /\ UNCHANGED <<idx, tried, consec429, retryCycle, late>>
  /\ UNCHANGED <<cooldown, appSpoof, order, need, chain, spoofed, asked>>

\* (wrong variant: the flag is read again when the answer is there)
HarnessGateReread(r) ==
  /\ stage[r] = "sent" /\ ~spoofed[r] /\ Ends(r, "gate")
  /\ IF appSpoof
     THEN GoTo(r, "failed") /\ UNCHANGED <<appSpoof, tried>>
     ELSE /\ appSpoof' = TRUE
          /\ tried' = [tried EXCEPT ![r] = @ \ {Provider(r)}]
          /\ GoTo(r, "top")
  /\ UNCHANGED <<routerVars, cooldown, order, need, chain, idx, consec429, retryCycle,
                 spoofed, late, asked>>

\* 403 of a model restricted to agentic harnesses: once more with attribution
\* headers, if this attempt had none.
HarnessGate(r) ==
  /\ stage[r] = "sent" /\ Ends(r, "gate")
  /\ IF spoofed[r]
     THEN GoTo(r, "failed") /\ UNCHANGED <<appSpoof, tried>>
     ELSE /\ appSpoof' = TRUE
          /\ tried' = [tried EXCEPT ![r] = @ \ {Provider(r)}]
          /\ GoTo(r, "top")
  /\ UNCHANGED <<routerVars, cooldown, order, need, chain, idx, consec429, retryCycle,
                 spoofed, late, asked>>

\* 429: the same provider again after a pause, up to Max429 times, then the
\* next one.  RecordRateLimit makes the other requests wait as well.
RateLimited(r) ==
  LET over == consec429[r] >= Max429
      again == idx[r] >= Len(chain[r]) /\ retryCycle[r] < MaxRetries /\ ~late[r]
  IN
  /\ stage[r] = "sent" /\ Ends(r, "fault")
  /\ \/ /\ ~over /\ cooldown' = TRUE
        /\ consec429' = [consec429 EXCEPT ![r] = @ + 1]
        /\ \/ /\ tried' = [tried EXCEPT ![r] = @ \ {Provider(r)}]
              /\ GoTo(r, "top") /\ UNCHANGED late
           \/ /\ GoTo(r, "failed") /\ late' = [late EXCEPT ![r] = TRUE]
              /\ UNCHANGED tried
        /\ UNCHANGED <<idx, retryCycle>>
     \/ /\ over /\ ~again /\ GoTo(r, "top")
        /\ consec429' = [consec429 EXCEPT ![r] = 0]
        /\ idx' = [idx EXCEPT ![r] = @ + 1]
        /\ UNCHANGED <<tried, retryCycle, late, cooldown>>
     \/ /\ over /\ again /\ GoTo(r, "top") /\ cooldown' = TRUE
        /\ consec429' = [consec429 EXCEPT ![r] = 0]
        /\ idx' = [idx EXCEPT ![r] = 1]
        /\ tried' = [tried EXCEPT ![r] = {}]
        /\ retryCycle' = [retryCycle EXCEPT ![r] = @ + 1]
        /\ UNCHANGED late
  /\ UNCHANGED <<routerVars, appSpoof, order, need, chain, spoofed, asked>>

\* 2xx headers: RecordSuccess forgets the cooldown; the limits in the headers
\* may start another wait.
Headers(r) ==
  /\ stage[r] = "sent" /\ GoTo(r, "body")
  /\ cooldown' \in BOOLEAN
  /\ UNCHANGED <<routerVars, appSpoof, order, need, chain, loopVars, last, late, asked>>

\* The body of a unary answer fails, or the budget cut a stream off before its
\* first byte: the next candidate.
BodyFails(r) ==
  /\ stage[r] = "body" /\ Ends(r, "fault")
  /\ \E p \in Named(r) : RecordResult(p, FALSE)
  /\ Advance(r, TRUE)
  /\ UNCHANGED <<cooldown, appSpoof, order, need, chain, consec429, spoofed, asked>>

\* The client has bytes of a stream when it breaks: no failover any more.  The
\* events may have named another provider than was asked for.
StreamBreaks(r) ==
  /\ stage[r] = "body" /\ GoTo(r, "answered")
  /\ \E p \in Providers \cup {Provider(r)} : RecordResult(p, FALSE)
  /\ UNCHANGED <<cooldown, appSpoof, order, need, chain, loopVars, last, late, asked>>

\* The answer is whole: the provider that served it, which may be another than
\* was asked for, has succeeded and then becomes the session's sticky one.
Served(r) ==
  /\ stage[r] = "body"
  /\ \E p \in Providers \cup {Provider(r)} :
       /\ RecordResult(p, TRUE)
       /\ GoTo(r, IF p = NoProvider THEN "answered" ELSE p)
  /\ UNCHANGED <<cooldown, appSpoof, order, need, chain, loopVars, last, late, asked>>

SetSticky(r) ==
  /\ stage[r] \in Providers /\ sticky' = stage[r] /\ GoTo(r, "answered")
  /\ UNCHANGED <<catalog, consecFails, resting, cooldown, appSpoof, order, need, chain,
                 loopVars, last, late, asked>>

\* The client goes: an attempt under way ends in an error that counts against
\* its provider.
ClientGone(r) ==
  /\ \/ stage[r] \in {"top", "wait"} /\ UNCHANGED routerVars
     \/ stage[r] = "sent" /\ RecordResult(Provider(r), FALSE)
  /\ GoTo(r, "gone")
  /\ UNCHANGED <<cooldown, appSpoof, order, need, chain, loopVars, last, late, asked>>

BudgetEnds(r) ==
  /\ stage[r] \notin {"idle", "answered", "failed", "gone"} /\ ~late[r]
  /\ late' = [late EXCEPT ![r] = TRUE]
  /\ UNCHANGED <<routerVars, cooldown, appSpoof, stage, order, need, chain, loopVars,
                 last, asked>>

CooldownEnds ==
  /\ cooldown /\ cooldown' = FALSE
  /\ UNCHANGED <<routerVars, appSpoof, stage, order, need, chain, loopVars, last, late, asked>>

Answer(r) ==
  \/ NetworkError(r) \/ ErrorStatus(r) \/ HarnessGate(r) \/ RateLimited(r) \/ Headers(r)
  \/ BodyFails(r) \/ StreamBreaks(r) \/ Served(r)

RequestStep(r) ==
  \/ SelectChain(r) \/ FilterCapable(r) \/ CheckDeadline(r) \/ Wait(r) \/ Attempt(r)
  \/ Answer(r) \/ SetSticky(r)

ORNext ==
  \/ \E r \in Requests : Arrive(r) \/ RequestStep(r) \/ ClientGone(r) \/ BudgetEnds(r)
  \/ \E p \in Providers : HalfOpen(p)
  \/ RefreshRanks \/ CooldownEnds

\* A request's goroutine goes on, time passes, and upstream answers or the
\* budget cuts the attempt off.
ORFairness ==
  /\ \A r \in Requests : WF_orVars(RequestStep(r))
  /\ WF_orVars(CooldownEnds)

ORSpec == ORInit /\ [][ORNext]_orVars /\ ORFairness

-----------------------------------------------------------------------------
(* Properties *)

\* A request reports a failure, with its budget left and no gate or redirect, only
\* after every candidate was asked in every walk, and, when its last attempt met a
\* fault, after every walk it is allowed: neither the marks of tried providers nor
\* the 429s cut a walk short (server.go:2330-2640).  A custom order that names its
\* last provider twice gets one walk only: the second mention is skipped as tried,
\* and the loop runs off the end of the chain.
GaveUpAfterAll ==
  \A r \in Requests :
    stage[r] = "failed" /\ ~late[r] /\ last[r] \notin {"gate", "redirect"} =>
      /\ Elems(chain[r]) \X (0..retryCycle[r]) \subseteq asked[r]
      /\ last[r] # "refused" /\ NoRepeats(chain[r]) => retryCycle[r] = MaxRetries

\* A request with budget left is refused by the harness gate for good only if its
\* last attempt carried the attribution headers, although another request may have
\* turned them on after this one was sent (server.go:2556-2572).
GateTriedSpoofed ==
  \A r \in Requests : stage[r] = "failed" /\ ~late[r] /\ last[r] = "gate" => spoofed[r]

\* internal/openrouter/capability_test.go:179 "custom mode must not route outside
\* its allowlist": narrowing a chain of listed providers leaves listed ones.
CustomStaysInside ==
  [][\A r \in Requests :
       /\ stage[r] = "filter" /\ stage'[r] = "top" /\ order[r].mode = "custom"
       /\ chain[r] # <<>> /\ Elems(chain[r]) \subseteq Elems(order[r].names)
       => Elems(chain'[r]) \subseteq Elems(order[r].names)]_orVars

\* Every request is answered, fails or is left by its client: no rate limit,
\* breaker or alternation of answers keeps it in the loop.
RequestsEnd ==
  \A r \in Requests : stage[r] = "new" ~> stage[r] \in {"answered", "failed", "gone"}
==============================================================================
