--------------------------- MODULE Server_proofs ---------------------------
(***************************************************************************)
(* Proofs of the safety properties of what the server keeps beside its     *)
(* gateways: EndpointCatalog, for any number of endpoints, sources,        *)
(* requests and refreshers and any number of changes of the configuration, *)
(* and LogStream, for any number of streams and entries and any capacity   *)
(* of the ring and of the channels.                                        *)
(***************************************************************************)
EXTENDS EndpointCatalog, LogStream, TLAPS

(* The catalogs of custom endpoints *)

MaybeSource == Sources \cup {Off}
Configuration == [Endpoints -> MaybeSource]
Entry == [source : MaybeSource, from : MaybeSource, failed : BOOLEAN, recent : BOOLEAN,
          fresh : BOOLEAN, leader : Processes \cup {Off}]
Process == [at : {"idle", "look", "warm", "join", "look again", "routed", "not routed"},
            config : Configuration \cup {Off}, i : Nat \ {0}, route : MaybeSource, told : BOOLEAN]
Call == [at : {"none", "called", "waiting", "fetching", "done"},
         leader : Processes \cup {Off}, ran : BOOLEAN, got : BOOLEAN]
Calls == Processes \X Endpoints

TypeOK ==
  /\ config \in Configuration /\ changes \in Nat
  /\ cached \in [Endpoints -> Entry]
  /\ proc \in [Processes -> Process]
  /\ call \in [Calls -> Call]

\* Where a process is in the middle of its work it has a copy.
Active(p) == proc[p].at \in {"look", "warm", "join", "look again"}
CopyOK == \A p \in Processes : Active(p) => proc[p].config \in Configuration

\* Calls are made while a process warms or joins, one for a name, and only for
\* names its copy opts in.
CallsOK ==
  \A p \in Processes, n \in Endpoints :
    /\ call[<<p, n>>].at # "none" =>
         proc[p].at \in {"warm", "join"} /\ proc[p].config[n] # Off
    /\ call[<<p, n>>].at = "none" => call[<<p, n>>] = NoCall
    /\ call[<<p, n>>].leader # Off <=> call[<<p, n>>].at = "waiting"
    /\ call[<<p, n>>].got => call[<<p, n>>].ran /\ call[<<p, n>>].at = "done"

WalkOK ==
  \A p \in Processes :
    /\ proc[p].at = "warm" =>
         \A j \in DOMAIN Names : j >= proc[p].i => call[<<p, Names[j]>>].at = "none"
    /\ proc[p].at = "join" /\ p \in Askers => proc[p].i = 1

\* The fetch an entry names is under way, for the entry's own source.
LeaderOK ==
  \A n \in Endpoints : cached[n].leader # Off =>
    /\ call[<<cached[n].leader, n>>].at = "fetching"
    /\ cached[n].source = proc[cached[n].leader].config[n]
    /\ cached[n].recent

FromOwn == \A n \in Endpoints : cached[n].from \in {Off, cached[n].source}

\* Between the test and the call of a request, its entry's first attempt is not
\* over, or somebody has attempted it since.
CalledOK ==
  \A p \in Askers, n \in Endpoints :
    call[<<p, n>>].at = "called" /\ cached[n].source = proc[p].config[n] =>
      (cached[n].from = Off /\ ~cached[n].failed) \/ cached[n].recent

\* While nobody changes the configuration there is one copy of it, and one
\* source for a name, ...
OneCopy == changes = 0 => \A p \in Processes : Active(p) => proc[p].config = config
OneSource == changes = 0 => \A n \in Endpoints : cached[n].source \in {Off, config[n]}

\* ... every fetch is the one its entry names, what it listed stays, ...
OneFetch ==
  changes = 0 => \A p \in Processes, n \in Endpoints :
    call[<<p, n>>].at = "fetching" => cached[n].leader = p
GotKept ==
  changes = 0 => \A p \in Processes, n \in Endpoints :
    call[<<p, n>>].got => cached[n].source = config[n] /\ cached[n].from = config[n]

\* ... and who was told so has yet to look where the model is listed.
Ahead(p) ==
  \E j \in DOMAIN Names : /\ j >= proc[p].i /\ config[Names[j]] # Off
                         /\ Has(Names[j], config[Names[j]])
ToldRoutes ==
  changes = 0 => \A p \in Processes :
    /\ proc[p].at = "look again" /\ proc[p].told => Ahead(p)
    /\ proc[p].at \in {"idle", "look"} => ~proc[p].told

IInv ==
  /\ TypeOK /\ CopyOK /\ CallsOK /\ WalkOK /\ LeaderOK /\ FromOwn /\ CalledOK
  /\ OneCopy /\ OneSource /\ OneFetch /\ GotKept /\ ToldRoutes
  /\ RoutedByOwnSource /\ FetchesFirstOnly /\ NobodyWaitsInVain /\ WaitedThenRouted

\* What the constants are to each other, and what kind of thing a call, a
\* process and an entry begin as.
LEMMA Basics ==
  /\ Configs \subseteq Configuration
  /\ Off \notin Sources /\ Off \notin Processes
  /\ \A j \in DOMAIN Names : Names[j] \in Endpoints
  /\ NoCall \in Call /\ Idle \in Process /\ NoEntry \in Entry
<1>1. Idle \in Process
  BY DEF Idle, Process, MaybeSource
<1>2. NoCall \in Call /\ NoEntry \in Entry
  BY DEF NoCall, Call, NoEntry, Entry, MaybeSource
<1> QED
  BY <1>1, <1>2, EndpointCatalogAssumption DEF Configuration, MaybeSource, Processes, Endpoints

\* The fields of a call, a process and an entry at rest.
LEMMA Fields ==
  /\ NoCall.at = "none" /\ NoCall.leader = Off /\ ~NoCall.ran /\ ~NoCall.got
  /\ Idle.at = "idle" /\ Idle.config = Off /\ Idle.i = 1 /\ Idle.route = Off /\ ~Idle.told
  /\ NoEntry.source = Off /\ NoEntry.from = Off /\ ~NoEntry.failed /\ ~NoEntry.recent
  /\ ~NoEntry.fresh /\ NoEntry.leader = Off
BY DEF NoCall, Idle, NoEntry

\* The invariant holds at first: there is no call and no entry.
LEMMA InitIInv == CatalogInit => IInv
<1> SUFFICES ASSUME CatalogInit PROVE IInv
  OBVIOUS
<1>1. TypeOK
  BY Basics DEF CatalogInit, TypeOK, Calls
<1>2. \A p \in Processes, n \in Endpoints : call[<<p, n>>] = NoCall
  BY DEF CatalogInit
<1>3. \A p \in Processes : proc[p] = Idle
  BY DEF CatalogInit
<1>4. \A n \in Endpoints : cached[n] = NoEntry
  BY DEF CatalogInit
<1>5. CopyOK /\ OneCopy /\ ToldRoutes /\ WaitedThenRouted /\ RoutedByOwnSource
  BY <1>3, Fields DEF CopyOK, Active, OneCopy, ToldRoutes, WaitedThenRouted, RoutedByOwnSource,
              Processes
<1>6. WalkOK
  BY <1>3, Fields DEF WalkOK
<1>8. CallsOK
  BY <1>2, Fields DEF CallsOK
<1>9. OneFetch /\ GotKept
  BY <1>2, Fields DEF OneFetch, GotKept
<1>10. CalledOK /\ FetchesFirstOnly /\ NobodyWaitsInVain
  BY <1>2, Fields DEF CalledOK, FetchesFirstOnly, NobodyWaitsInVain, Processes
<1>7. LeaderOK /\ FromOwn /\ OneSource
  BY <1>4, Fields DEF LeaderOK, FromOwn, OneSource
<1> QED
  BY <1>1, <1>5, <1>6, <1>7, <1>8, <1>9, <1>10 DEF IInv

\* A request that begins has a copy of the configuration and no call.
LEMMA AskStep == ASSUME IInv, NEW p \in Askers, Ask(p) PROVE IInv'
<1>1. p \in Processes /\ config \in Configuration
  BY DEF Processes, IInv, TypeOK
<1>2. \A q \in Processes : q # p => proc'[q] = proc[q]
  BY <1>1 DEF Ask, IInv, TypeOK
<1>3. /\ proc[p].at = "idle" /\ proc'[p].at = "look" /\ proc'[p].config = config
      /\ proc'[p].i = proc[p].i /\ proc'[p].told = proc[p].told
  BY <1>1 DEF Ask, IInv, TypeOK, Process
<1>4. UNCHANGED <<config, changes, cached, call>>
  BY DEF Ask
<1>5. TypeOK'
  BY <1>1, <1>4, ZenonT(30) DEF Ask, IInv, TypeOK, Process
<1>a. CopyOK'
  BY <1>1, <1>2, <1>3, <1>4 DEF IInv, CopyOK, Active
<1>b. CallsOK'
  <2>1. SUFFICES ASSUME NEW q \in Processes, NEW n \in Endpoints
                 PROVE  call[<<q, n>>].at # "none" =>
                          proc'[q].at \in {"warm", "join"} /\ proc'[q].config[n] # Off
    BY <1>4 DEF CallsOK, IInv
  <2> QED
    BY <1>1, <1>2, <1>3 DEF CallsOK, IInv
<1>c. WalkOK'
  BY <1>1, <1>2, <1>3, <1>4 DEF IInv, WalkOK
<1>d. LeaderOK'
  BY <1>1, <1>2, <1>3, <1>4 DEF IInv, LeaderOK, CallsOK, TypeOK, Entry
<1>e. FromOwn' /\ OneSource' /\ OneFetch' /\ GotKept'
  BY <1>1, <1>2, <1>3, <1>4 DEF IInv, FromOwn, OneSource, OneFetch, GotKept
<1>f. CalledOK'
  BY <1>1, <1>2, <1>3, <1>4 DEF IInv, CalledOK, CallsOK, Processes
<1>g. OneCopy'
  BY <1>1, <1>2, <1>3, <1>4 DEF IInv, OneCopy, Active
<1>h. ToldRoutes'
  BY <1>1, <1>2, <1>3, <1>4 DEF IInv, ToldRoutes, Ahead, Has
<1>i. RoutedByOwnSource' /\ WaitedThenRouted'
  BY <1>1, <1>2, <1>3, <1>4 DEF IInv, RoutedByOwnSource, WaitedThenRouted, Processes
<1>j. FetchesFirstOnly' /\ NobodyWaitsInVain'
  BY <1>1, <1>2, <1>3, <1>4 DEF IInv, FetchesFirstOnly, NobodyWaitsInVain
<1> QED
  BY <1>5, <1>a, <1>b, <1>c, <1>d, <1>e, <1>f, <1>g, <1>h, <1>i, <1>j DEF IInv

\* The order of lookups is a sequence.
LEMMA NamesDomain == DOMAIN Names = 1 .. Len(Names) /\ Len(Names) \in Nat
BY EndpointCatalogAssumption

Truth(b) == b \in BOOLEAN

At == {"idle", "look", "warm", "join", "look again", "routed", "not routed"}

\* What the two ways of going on leave of a process.
LEMMA MovedTo ==
  ASSUME TypeOK, NEW p \in Processes, NEW at \in At, NEW i \in Nat \ {0}, MoveTo(p, at, i)
  PROVE  /\ proc' \in [Processes -> Process]
         /\ \A q \in Processes : q # p => proc'[q] = proc[q]
         /\ proc'[p].at = at /\ proc'[p].i = i /\ proc'[p].config = proc[p].config
         /\ proc'[p].told = proc[p].told /\ proc'[p].route = proc[p].route
<1>1. proc[p] \in Process
  BY DEF TypeOK
<1> QED
  BY <1>1 DEF MoveTo, TypeOK, Process, At

\* What the answer to a request leaves of it.
LEMMA ResolvedTo ==
  ASSUME TypeOK, NEW p \in Processes, NEW at \in At, NEW source \in MaybeSource,
         NEW told, Truth(told), Resolved(p, at, source, told)
  PROVE  /\ proc' \in [Processes -> Process]
         /\ \A q \in Processes : q # p => proc'[q] = proc[q]
         /\ proc'[p].at = at /\ proc'[p].route = source /\ proc'[p].told = told
         /\ proc'[p].i = 1
<1> DEFINE there == [Idle EXCEPT !.at = at, !.route = source, !.told = told]
<1>1. proc' = [proc EXCEPT ![p] = there]
  BY DEF Resolved
<1>2. Idle \in Process /\ Idle.i = 1
  BY Basics, Fields
<1>3. there \in Process /\ there.at = at /\ there.route = source /\ there.told = told /\ there.i = 1
  BY <1>2 DEF Process, At, Truth
<1> HIDE DEF there
<1> QED
  BY <1>1, <1>3 DEF TypeOK

\* What a request finds where it looks, and where it goes on.
LEMMA LookOutcome ==
  ASSUME IInv, NEW p \in Processes, Look(p)
  PROVE  /\ TypeOK'
         /\ \A q \in Processes : q # p => proc'[q] = proc[q]
         /\ \/ /\ proc[p].at = "look" /\ proc'[p].at = "warm" /\ proc'[p].i = 1
               /\ proc'[p].config = proc[p].config /\ proc'[p].told = proc[p].told
            \/ /\ proc[p].at = "look again" /\ AllSeen(p)
               /\ proc'[p].at = "not routed" /\ proc'[p].told = proc[p].told
            \/ proc'[p].at = "routed" /\ proc'[p].route \in Listing
            \/ /\ ~AllSeen(p) /\ ~(ThisSource(p) # Off /\ Has(This(p), ThisSource(p)))
               /\ proc'[p].at = proc[p].at /\ proc'[p].i = proc[p].i + 1
               /\ proc'[p].config = proc[p].config /\ proc'[p].told = proc[p].told
<1>1. UNCHANGED <<config, changes, cached, call>> /\ proc[p].at \in {"look", "look again"}
  BY DEF Look
<1>2. proc[p].i \in Nat \ {0} /\ proc[p].config \in Configuration
  BY <1>1 DEF IInv, TypeOK, Process, CopyOK, Active
<1>b. proc[p].told \in BOOLEAN
  BY DEF IInv, TypeOK, Process
<1>t. TypeOK
  BY DEF IInv
<1>u. proc' \in [Processes -> Process] => TypeOK'
  BY <1>1, <1>t DEF TypeOK
<1>3. CASE AllSeen(p) /\ proc[p].at = "look"
  <2>1. MoveTo(p, "warm", 1)
    BY <1>3 DEF Look
  <2>2. "warm" \in At /\ 1 \in Nat \ {0}
    BY DEF At
  <2> QED
    BY <2>1, <2>2, <1>t, <1>u, <1>3, MovedTo, Zenon
<1>4. CASE AllSeen(p) /\ proc[p].at = "look again"
  <2> DEFINE told == proc[p].told
  <2>1. Resolved(p, "not routed", Off, told)
    BY <1>4 DEF Look
  <2>2. Off \in MaybeSource /\ "not routed" \in At
    BY DEF MaybeSource, At
  <2>3. Truth(told)
    BY <1>b DEF Truth
  <2>4. told = proc[p].told
    OBVIOUS
  <2> HIDE DEF told
  <2>5. /\ proc' \in [Processes -> Process]
        /\ \A q \in Processes : q # p => proc'[q] = proc[q]
        /\ proc'[p].at = "not routed" /\ proc'[p].told = told
    BY <2>1, <2>2, <2>3, <1>t, ResolvedTo, ZenonT(60)
  <2> QED
    BY <2>4, <2>5, <1>u, <1>4, Zenon
<1>5. CASE ~AllSeen(p) /\ ThisSource(p) # Off /\ Has(This(p), ThisSource(p))
  <2>1. Resolved(p, "routed", ThisSource(p), FALSE)
    BY <1>5 DEF Look
  <2>2. This(p) \in Endpoints
    BY <1>2, <1>5, NamesDomain, Basics DEF AllSeen, This
  <2>3. ThisSource(p) \in Listing
    BY <2>2, <1>5, EndpointCatalogAssumption DEF Has, IInv, FromOwn
  <2>4. ThisSource(p) \in MaybeSource /\ "routed" \in At
    BY <2>2, <1>2 DEF ThisSource, Configuration, At
  <2>5. Truth(FALSE)
    BY DEF Truth
  <2> QED
    BY <2>1, <2>3, <2>4, <2>5, <1>t, <1>u, ResolvedTo, ZenonT(60)
<1>6. CASE ~AllSeen(p) /\ ~(ThisSource(p) # Off /\ Has(This(p), ThisSource(p)))
  <2>1. MoveTo(p, proc[p].at, proc[p].i + 1)
    BY <1>6 DEF Look
  <2>2. proc[p].i + 1 \in Nat \ {0}
    BY <1>2
  <2>3. proc[p].at \in At
    BY <1>1 DEF At
  <2> QED
    BY <2>1, <2>2, <2>3, <1>t, <1>u, <1>6, MovedTo, Zenon
<1> QED
  BY <1>1, <1>3, <1>4, <1>5, <1>6

\* The fetch an entry names is a process's.
LEMMA LeaderIsProcess ==
  ASSUME TypeOK, NEW n \in Endpoints, cached[n].leader # Off
  PROVE  cached[n].leader \in Processes
BY DEF TypeOK, Entry

\* Who waits, waits for a process.
LEMMA WaitsForProcess ==
  ASSUME IInv, NEW p \in Processes, NEW n \in Endpoints, call[<<p, n>>].at = "waiting"
  PROVE  call[<<p, n>>].leader \in Processes
<1>1. <<p, n>> \in Calls
  BY DEF Calls
<1>2. call[<<p, n>>].leader \in Processes \cup {Off}
  BY <1>1 DEF IInv, TypeOK, Call
<1>3. call[<<p, n>>].leader # Off
  BY DEF IInv, CallsOK
<1> QED
  BY <1>2, <1>3

\* A look at one catalog: the request is routed by it, goes on to the next one,
\* or has seen them all, which a request that was told so never does.
LEMMA LookStep == ASSUME IInv, NEW p \in Processes, Look(p) PROVE IInv'
<1>1. \A q \in Processes : q # p => proc'[q] = proc[q]
  BY LookOutcome, Zenon
<1>2. UNCHANGED <<config, changes, cached, call>> /\ proc[p].at \in {"look", "look again"}
  BY DEF Look
<1>3. proc[p].i \in Nat \ {0} /\ proc[p].config \in Configuration
  BY <1>2 DEF IInv, TypeOK, Process, CopyOK, Active
<1>4. \A n \in Endpoints : call[<<p, n>>].at = "none"
  BY <1>2 DEF IInv, CallsOK
<1>5. proc'[p].at \in {"look", "warm", "look again", "routed", "not routed"}
  BY LookOutcome, <1>2
<1>a. TypeOK'
  BY LookOutcome
<1>b. CopyOK'
  BY LookOutcome, <1>1, <1>2, <1>3 DEF IInv, CopyOK, Active
<1>c. CallsOK'
  <2>1. SUFFICES ASSUME NEW q \in Processes, NEW n \in Endpoints
                 PROVE  call[<<q, n>>].at # "none" =>
                          proc'[q].at \in {"warm", "join"} /\ proc'[q].config[n] # Off
    BY <1>2 DEF CallsOK, IInv
  <2> QED
    BY <1>1, <1>4 DEF CallsOK, IInv
<1>d. WalkOK'
  <2>1. ASSUME NEW q \in Processes, q # p
        PROVE  /\ proc'[q].at = "warm" =>
                    \A j \in DOMAIN Names : j >= proc'[q].i => call[<<q, Names[j]>>].at = "none"
               /\ proc'[q].at = "join" /\ q \in Askers => proc'[q].i = 1
    BY <2>1, <1>1 DEF WalkOK, IInv
  <2>2. \A j \in DOMAIN Names : call[<<p, Names[j]>>].at = "none"
    BY <1>4, Basics
  <2> QED
    BY <2>1, <2>2, <1>2, <1>5 DEF WalkOK
<1>e. LeaderOK'
  <2>1. SUFFICES ASSUME NEW n \in Endpoints, cached[n].leader # Off
                 PROVE  cached[n].source = proc'[cached[n].leader].config[n]
    BY <1>2 DEF LeaderOK, IInv
  <2>2. cached[n].leader # p /\ cached[n].leader \in Processes
    BY <2>1, <1>4, LeaderIsProcess DEF LeaderOK, IInv
  <2> QED
    BY <2>1, <2>2, <1>1 DEF LeaderOK, IInv
<1>f. FromOwn' /\ OneSource' /\ OneFetch' /\ GotKept' /\ FetchesFirstOnly' /\ NobodyWaitsInVain'
  BY <1>2 DEF IInv, FromOwn, OneSource, OneFetch, GotKept, FetchesFirstOnly, NobodyWaitsInVain
<1>g. CalledOK'
  BY <1>1, <1>2, <1>4 DEF IInv, CalledOK, Processes
<1>h. OneCopy'
  BY LookOutcome, <1>1, <1>2 DEF IInv, OneCopy, Active
<1>i. ASSUME changes = 0, NEW q \in Processes, proc'[q].at = "look again", proc'[q].told
      PROVE  Ahead(q)'
  <2>1. CASE q # p
    BY <2>1, <1>1, <1>2, <1>i DEF IInv, ToldRoutes, Ahead, Has
  <2>2. CASE q = p
    <3>1. /\ proc[p].at = "look again" /\ proc[p].told /\ proc'[p].i = proc[p].i + 1
          /\ ~(ThisSource(p) # Off /\ Has(This(p), ThisSource(p)))
      BY <2>2, <1>i, LookOutcome
    <3>2. PICK j \in DOMAIN Names : /\ j >= proc[p].i /\ config[Names[j]] # Off
                                    /\ Has(Names[j], config[Names[j]])
      BY <3>1, <1>i DEF IInv, ToldRoutes, Ahead
    <3>3. proc[p].config = config
      BY <1>2, <1>i DEF IInv, OneCopy, Active
    <3>4. j # proc[p].i
      BY <3>1, <3>2, <3>3 DEF This, ThisSource
    <3>6. proc'[p].i = proc[p].i + 1 /\ j >= proc[p].i
      BY <3>1, <3>2
    <3>7. proc[p].i \in Nat /\ j \in Nat
      BY <1>3, NamesDomain
    <3>5. j >= proc'[p].i
      BY <3>4, <3>6, <3>7
    <3> QED
      BY <3>2, <3>5, <2>2, <1>2 DEF Ahead, Has
  <2> QED
    BY <2>1, <2>2
<1>j. ToldRoutes'
  BY <1>1, <1>2, <1>i, LookOutcome DEF IInv, ToldRoutes
<1>k. ASSUME changes = 0, proc[p].at = "look again", AllSeen(p) PROVE ~proc[p].told
  <2>2. AllSeen(p)
    BY <1>k
  <2>3. proc[p].i > Len(Names) /\ proc[p].i \in Nat
    BY <2>2, <1>3 DEF AllSeen
  <2>1. \A j \in DOMAIN Names : ~(j >= proc[p].i)
    BY <2>3, NamesDomain
  <2> QED
    BY <2>1, <1>k DEF IInv, ToldRoutes, Ahead
<1>l. WaitedThenRouted'
  BY <1>1, <1>2, <1>k, LookOutcome DEF IInv, WaitedThenRouted, Processes
<1>m. RoutedByOwnSource'
  BY <1>1, LookOutcome, <1>2 DEF IInv, RoutedByOwnSource, Processes
<1> QED
  BY <1>a, <1>b, <1>c, <1>d, <1>e, <1>f, <1>g, <1>h, <1>j, <1>l, <1>m DEF IInv

Stages == {"none", "called", "waiting", "fetching", "done"}

\* What it leaves of a call to take it to another stage.
LEMMA CallTo ==
  ASSUME TypeOK, NEW c \in Calls, NEW at \in Stages, call' = [call EXCEPT ![c].at = at]
  PROVE  /\ call' \in [Calls -> Call]
         /\ \A d \in Calls : d # c => call'[d] = call[d]
         /\ call'[c].at = at /\ call'[c].leader = call[c].leader
         /\ call'[c].ran <=> call[c].ran
         /\ call'[c].got <=> call[c].got
<1>1. call[c] \in Call
  BY DEF TypeOK
<1>2. call'[c] = [call[c] EXCEPT !.at = at]
  BY DEF TypeOK
<1>3. \A d \in Calls : d # c => call'[d] = call[d]
  BY DEF TypeOK
<1>4. call'[c] \in Call
  BY <1>1, <1>2 DEF Call, Stages
<1>5. call' \in [Calls -> Call]
  BY <1>4 DEF TypeOK
<1>6. call'[c].at = at /\ call'[c].leader = call[c].leader
  BY <1>1, <1>2 DEF Call
<1>7. (call'[c].ran <=> call[c].ran) /\ (call'[c].got <=> call[c].got)
  BY <1>1, <1>2 DEF Call
<1> QED
  BY <1>3, <1>5, <1>6, <1>7

\* The call a process begins while it warms is a new one.
LEMMA WarmOutcome ==
  ASSUME IInv, NEW p \in Processes, Warm(p)
  PROVE  /\ TypeOK'
         /\ \A q \in Processes : q # p => proc'[q] = proc[q]
         /\ proc'[p].config = proc[p].config
         /\ \/ proc'[p].at = "join" /\ proc'[p].i = 1 /\ UNCHANGED call
            \/ /\ ~AllSeen(p) /\ proc'[p].at = "warm" /\ proc'[p].i = proc[p].i + 1
               /\ \/ UNCHANGED call
                  \/ /\ This(p) \in Endpoints /\ ThisSource(p) # Off
                     /\ AwaitsFirst(This(p), ThisSource(p))
                     /\ call[<<p, This(p)>>] = NoCall
                     /\ \A c \in Calls : c # <<p, This(p)>> => call'[c] = call[c]
                     /\ call'[<<p, This(p)>>].at = "called"
                     /\ call'[<<p, This(p)>>].leader = Off
                     /\ ~call'[<<p, This(p)>>].got
<1>1. UNCHANGED <<config, changes, cached>> /\ proc[p].at = "warm"
  BY DEF Warm
<1>2. proc[p].i \in Nat \ {0}
  BY DEF IInv, TypeOK, Process
<1>t. TypeOK
  BY DEF IInv
<1>u. proc' \in [Processes -> Process] /\ call' \in [Calls -> Call] => TypeOK'
  BY <1>1, <1>t DEF TypeOK
<1>3. CASE AllSeen(p)
  <2>1. MoveTo(p, "join", 1) /\ UNCHANGED call
    BY <1>3 DEF Warm
  <2>2. "join" \in At /\ 1 \in Nat \ {0} /\ call' \in [Calls -> Call]
    BY <2>1, <1>t DEF At, TypeOK
  <2> QED
    BY <2>1, <2>2, <1>t, <1>u, MovedTo, ZenonT(60)
<1>4. CASE ~AllSeen(p)
  <2>1. MoveTo(p, "warm", proc[p].i + 1)
    BY <1>4 DEF Warm
  <2>2. "warm" \in At
    BY DEF At
  <2>3. proc[p].i + 1 \in Nat \ {0}
    BY <1>2
  <2>4. /\ proc' \in [Processes -> Process]
        /\ \A q \in Processes : q # p => proc'[q] = proc[q]
        /\ proc'[p].at = "warm" /\ proc'[p].i = proc[p].i + 1
        /\ proc'[p].config = proc[p].config
    BY <2>1, <2>2, <2>3, <1>t, MovedTo, Zenon
  <2>5. CASE UNCHANGED call
    BY <2>4, <2>5, <1>4, <1>t, <1>u DEF TypeOK
  <2>6. CASE /\ ThisSource(p) # Off /\ AwaitsFirst(This(p), ThisSource(p))
             /\ call' = [call EXCEPT ![<<p, This(p)>>].at = "called"]
    <3>1. This(p) \in Endpoints /\ proc[p].i \in DOMAIN Names
      BY <1>2, <1>4, NamesDomain, Basics DEF AllSeen, This
    <3>2. <<p, This(p)>> \in Calls /\ "called" \in Stages
      BY <3>1 DEF Calls, Stages
    <3>3. call[<<p, This(p)>>].at = "none"
      <4>1. proc[p].i >= proc[p].i
        BY <1>2
      <4> QED
        BY <4>1, <3>1, <1>1 DEF IInv, WalkOK, This
    <3>4. call[<<p, This(p)>>] = NoCall
      BY <3>1, <3>3 DEF IInv, CallsOK
    <3>5. /\ call' \in [Calls -> Call]
          /\ \A c \in Calls : c # <<p, This(p)>> => call'[c] = call[c]
          /\ call'[<<p, This(p)>>].at = "called"
          /\ call'[<<p, This(p)>>].leader = call[<<p, This(p)>>].leader
          /\ call'[<<p, This(p)>>].got <=> call[<<p, This(p)>>].got
      BY <3>2, <2>6, <1>t, CallTo, Zenon
    <3>6. call'[<<p, This(p)>>].leader = Off /\ ~call'[<<p, This(p)>>].got
      BY <3>4, <3>5, Fields
    <3>7. TypeOK'
      BY <2>4, <3>5, <1>u
    <3> QED
      BY <2>4, <2>6, <3>1, <3>4, <3>5, <3>6, <3>7, <1>4, Zenon
  <2>7. UNCHANGED call \/ (/\ ThisSource(p) # Off /\ AwaitsFirst(This(p), ThisSource(p))
                           /\ call' = [call EXCEPT ![<<p, This(p)>>].at = "called"])
    BY <1>4 DEF Warm
  <2> QED
    BY <2>5, <2>6, <2>7
<1> QED
  BY <1>3, <1>4

\* A request that warms calls only what it finds without a first attempt.
LEMMA WarmStep == ASSUME IInv, NEW p \in Processes, Warm(p) PROVE IInv'
<1>1. \A q \in Processes : q # p => proc'[q] = proc[q]
  BY WarmOutcome, Zenon
<1>2. UNCHANGED <<config, changes, cached>> /\ proc[p].at = "warm"
  BY DEF Warm
<1>3. proc'[p].config = proc[p].config /\ proc'[p].at \in {"warm", "join"}
  BY WarmOutcome
<1>4. \A q \in Processes : proc'[q].config = proc[q].config
  BY <1>1, <1>3
<1> DEFINE Old(q, n) == call'[<<q, n>>] = call[<<q, n>>]
<1> DEFINE New(q, n) ==
      /\ q = p /\ proc'[p].at = "warm" /\ n = This(p) /\ ThisSource(p) # Off
      /\ AwaitsFirst(n, ThisSource(p)) /\ call[<<q, n>>] = NoCall
      /\ call'[<<q, n>>].at = "called" /\ call'[<<q, n>>].leader = Off
      /\ ~call'[<<q, n>>].got
<1>5. \A q \in Processes, n \in Endpoints : Old(q, n) \/ New(q, n)
  <2>1. SUFFICES ASSUME NEW q \in Processes, NEW n \in Endpoints PROVE Old(q, n) \/ New(q, n)
    OBVIOUS
  <2>2. <<q, n>> \in Calls /\ (<<q, n>> = <<p, This(p)>> => q = p /\ n = This(p))
    BY DEF Calls
  <2> QED
    BY <2>2, WarmOutcome, Zenon
<1>6. \A q \in Processes, n \in Endpoints : call[<<q, n>>].at # "none" => Old(q, n)
  BY <1>5, Fields
<1>7. \A q \in Processes, n \in Endpoints : call'[<<q, n>>].at # "called" => Old(q, n)
  BY <1>5
<1>a. TypeOK'
  BY WarmOutcome
<1>b. CopyOK' /\ OneCopy'
  BY <1>1, <1>2, <1>3 DEF IInv, CopyOK, OneCopy, Active
<1>c. CallsOK'
  <2>1. SUFFICES ASSUME NEW q \in Processes, NEW n \in Endpoints
                 PROVE  /\ call'[<<q, n>>].at # "none" =>
                             proc'[q].at \in {"warm", "join"} /\ proc'[q].config[n] # Off
                        /\ call'[<<q, n>>].at = "none" => call'[<<q, n>>] = NoCall
                        /\ call'[<<q, n>>].leader # Off <=> call'[<<q, n>>].at = "waiting"
                        /\ call'[<<q, n>>].got =>
                             call'[<<q, n>>].ran /\ call'[<<q, n>>].at = "done"
    BY DEF CallsOK
  <2>2. CASE Old(q, n)
    BY <2>2, <1>1, <1>3 DEF CallsOK, IInv
  <2>3. CASE New(q, n)
    BY <2>3, <1>3 DEF ThisSource
  <2> QED
    BY <2>2, <2>3, <1>5
<1>d. WalkOK'
  <2>1. ASSUME NEW q \in Processes, q # p
        PROVE  /\ proc'[q].at = "warm" =>
                    \A j \in DOMAIN Names : j >= proc'[q].i => call'[<<q, Names[j]>>].at = "none"
               /\ proc'[q].at = "join" /\ q \in Askers => proc'[q].i = 1
    BY <2>1, <1>1, <1>5, Basics DEF WalkOK, IInv
  <2>2. proc'[p].at = "join" => proc'[p].i = 1
    BY WarmOutcome
  <2>3. ASSUME proc'[p].at = "warm", NEW j \in DOMAIN Names, j >= proc'[p].i
        PROVE  call'[<<p, Names[j]>>].at = "none"
    <3>1. proc'[p].i = proc[p].i + 1 /\ ~AllSeen(p)
      BY <2>3, WarmOutcome
    <3>b. proc[p].i \in Nat \ {0}
      BY DEF IInv, TypeOK, Process
    <3>2. proc[p].i \in Nat \ {0} /\ j \in Nat
      BY <3>b, NamesDomain
    <3>a. proc'[p].i = proc[p].i + 1 /\ j >= proc'[p].i
      BY <3>1, <2>3
    <3>3. j >= proc[p].i /\ j # proc[p].i
      BY <3>a, <3>2
    <3>4. proc[p].i \in DOMAIN Names
      BY <3>1, <3>2, NamesDomain DEF AllSeen
    <3>5. Names[j] # This(p) /\ Names[j] \in Endpoints
      BY <3>3, <3>4, Basics, EndpointCatalogAssumption DEF This
    <3>6. Old(p, Names[j])
      BY <3>5, <1>5
    <3> QED
      BY <3>3, <3>6, <1>2 DEF IInv, WalkOK
  <2> QED
    BY <2>1, <2>2, <2>3 DEF WalkOK
<1>e. LeaderOK'
  <2>1. ASSUME NEW n \in Endpoints, cached[n].leader # Off
        PROVE  /\ call'[<<cached[n].leader, n>>].at = "fetching"
               /\ cached[n].source = proc'[cached[n].leader].config[n]
               /\ cached[n].recent
    <3>1. cached[n].leader \in Processes
      BY <2>1, LeaderIsProcess DEF IInv
    <3> QED
      BY <3>1, <2>1, <1>4, <1>6 DEF LeaderOK, IInv
  <2> QED
    BY <2>1, <1>2 DEF LeaderOK
<1>f. FromOwn' /\ OneSource'
  BY <1>2 DEF IInv, FromOwn, OneSource
<1>g. OneFetch' /\ GotKept'
  BY <1>2, <1>5 DEF IInv, OneFetch, GotKept
<1>h. FetchesFirstOnly'
  BY <1>2, <1>7 DEF IInv, FetchesFirstOnly, Processes
<1>i. NobodyWaitsInVain'
  <2>1. SUFFICES ASSUME NEW q \in Processes, NEW n \in Endpoints, call'[<<q, n>>].at = "waiting"
                 PROVE  call'[<<call'[<<q, n>>].leader, n>>].at = "fetching"
    BY DEF NobodyWaitsInVain
  <2>2. Old(q, n)
    BY <2>1, <1>7
  <2>3. call[<<call[<<q, n>>].leader, n>>].at = "fetching"
    BY <2>1, <2>2 DEF NobodyWaitsInVain, IInv
  <2>4. call[<<q, n>>].leader \in Processes
    BY <2>1, <2>2, WaitsForProcess DEF IInv
  <2> QED
    BY <2>2, <2>3, <2>4, <1>6
<1>j. CalledOK'
  <2>1. SUFFICES ASSUME NEW q \in Askers, NEW n \in Endpoints, call'[<<q, n>>].at = "called",
                        cached[n].source = proc[q].config[n]
                 PROVE  (cached[n].from = Off /\ ~cached[n].failed) \/ cached[n].recent
    BY <1>2, <1>4 DEF CalledOK, Processes
  <2>2. q \in Processes
    BY DEF Processes
  <2>3. CASE Old(q, n)
    BY <2>1, <2>3 DEF CalledOK, IInv
  <2>4. CASE New(q, n)
    BY <2>1, <2>4 DEF AwaitsFirst, ThisSource
  <2> QED
    BY <2>2, <2>3, <2>4, <1>5
<1>k. ToldRoutes'
  BY <1>1, <1>2, <1>3 DEF IInv, ToldRoutes, Ahead, Has
<1>l. RoutedByOwnSource' /\ WaitedThenRouted'
  BY <1>1, <1>2, <1>3 DEF IInv, RoutedByOwnSource, WaitedThenRouted, Processes
<1> QED
  BY <1>a, <1>b, <1>c, <1>d, <1>e, <1>f, <1>g, <1>h, <1>i, <1>j, <1>k, <1>l DEF IInv

\* A process whose calls are over forgets them.
LEMMA Forgotten ==
  ASSUME TypeOK, NEW p \in Processes,
         call' = [c \in DOMAIN call |-> IF c[1] = p THEN NoCall ELSE call[c]]
  PROVE  /\ call' \in [Calls -> Call]
         /\ \A n \in Endpoints : call'[<<p, n>>] = NoCall
         /\ \A q \in Processes, n \in Endpoints : q # p => call'[<<q, n>>] = call[<<q, n>>]
<1>1. DOMAIN call = Calls
  BY DEF TypeOK
<1>2. call' \in [Calls -> Call]
  BY <1>1, Basics DEF TypeOK
<1>3. \A q \in Processes, n \in Endpoints :
        <<q, n>> \in Calls /\ <<q, n>>[1] = q
  BY DEF Calls
<1> QED
  BY <1>1, <1>2, <1>3

\* Nobody of those who wait waits for a process whose calls are over, and no
\* fetch of an entry is its.
LEMMA NotInvolved ==
  ASSUME IInv, NEW p \in Processes, Over(p)
  PROVE  /\ \A n \in Endpoints : cached[n].leader # p
         /\ \A q \in Processes, n \in Endpoints :
              call[<<q, n>>].at = "waiting" => call[<<q, n>>].leader # p
<1>1. \A n \in Endpoints : call[<<p, n>>].at # "fetching"
  BY DEF Over
<1>2. \A n \in Endpoints : cached[n].leader # p
  BY <1>1, Basics DEF IInv, LeaderOK
<1>3. \A q \in Processes, n \in Endpoints :
        call[<<q, n>>].at = "waiting" => call[<<q, n>>].leader # p
  BY <1>1 DEF IInv, NobodyWaitsInVain
<1> QED
  BY <1>2, <1>3

\* What a request knows when its fetches are over, and where it goes on.
LEMMA JoinOutcome ==
  ASSUME IInv, NEW p \in Askers, Join(p)
  PROVE  /\ TypeOK'
         /\ \A q \in Processes : q # p => proc'[q] = proc[q]
         /\ \/ /\ proc'[p].at = "look again" /\ proc'[p].i = 1
               /\ proc'[p].config = proc[p].config
               /\ proc'[p].told <=> Told(p)
            \/ proc'[p].at = "not routed" /\ (proc'[p].told <=> Told(p))
               /\ ~\E n \in Endpoints : call[<<p, n>>].ran
<1>1. p \in Processes /\ UNCHANGED <<config, changes, cached>> /\ proc[p].at = "join"
  BY DEF Join, Processes
<1>2. proc[p].i = 1
  BY <1>1 DEF IInv, WalkOK
<1>t. TypeOK
  BY DEF IInv
<1>3. call' \in [Calls -> Call]
  BY <1>1, <1>t, Forgotten DEF Join
<1>u. proc' \in [Processes -> Process] => TypeOK'
  BY <1>1, <1>3, <1>t DEF TypeOK
<1> DEFINE told == Told(p)
<1>4. Truth(told)
  BY DEF Truth, Told
<1>5. CASE \E n \in Endpoints : call[<<p, n>>].ran
  <2>1. proc' = [proc EXCEPT ![p].at = "look again", ![p].told = told]
    BY <1>5 DEF Join
  <2> HIDE DEF told
  <2>2. proc[p] \in Process /\ proc[p].i = 1
    BY <1>1, <1>2, <1>t DEF TypeOK
  <2>3. proc'[p] = [proc[p] EXCEPT !.at = "look again", !.told = told]
    BY <2>1, <1>1, <1>t DEF TypeOK
  <2>4. proc'[p] \in Process
    BY <2>2, <2>3, <1>4 DEF Process, Truth
  <2>5. proc' \in [Processes -> Process] /\ \A q \in Processes : q # p => proc'[q] = proc[q]
    BY <2>1, <2>4, <1>t DEF TypeOK
  <2>6. proc'[p].at = "look again" /\ proc'[p].i = 1 /\ proc'[p].config = proc[p].config
    BY <2>2, <2>3 DEF Process
  <2>7. proc'[p].told = told
    BY <2>2, <2>3 DEF Process
  <2> QED
    BY <2>5, <2>6, <2>7, <1>u, Zenon DEF told
<1>6. CASE ~\E n \in Endpoints : call[<<p, n>>].ran
  <2>1. Resolved(p, "not routed", Off, told)
    BY <1>6 DEF Join
  <2>2. Off \in MaybeSource /\ "not routed" \in At
    BY DEF MaybeSource, At
  <2> HIDE DEF told
  <2>3. /\ proc' \in [Processes -> Process]
        /\ \A q \in Processes : q # p => proc'[q] = proc[q]
        /\ proc'[p].at = "not routed" /\ proc'[p].told = told
    BY <2>1, <2>2, <1>1, <1>4, <1>t, ResolvedTo, Zenon
  <2> QED
    BY <2>3, <1>6, <1>u, Zenon DEF told
<1> QED
  BY <1>5, <1>6

\* The invariants of entries and calls when a process forgets its calls, which
\* are over, and nobody else moves.
LEMMA AfterForgetting ==
  ASSUME IInv, NEW p \in Processes, Over(p), TypeOK',
         \A q \in Processes : q # p => proc'[q] = proc[q],
         call' = [c \in DOMAIN call |-> IF c[1] = p THEN NoCall ELSE call[c]],
         proc'[p].at \notin {"warm", "join"}
  PROVE  /\ CallsOK' /\ WalkOK' /\ NobodyWaitsInVain'
         /\ \A n \in Endpoints : call'[<<p, n>>] = NoCall
         /\ \A q \in Processes, n \in Endpoints : q # p => call'[<<q, n>>] = call[<<q, n>>]
<1>1. /\ \A n \in Endpoints : call'[<<p, n>>] = NoCall
      /\ \A q \in Processes, n \in Endpoints : q # p => call'[<<q, n>>] = call[<<q, n>>]
  BY Forgotten DEF IInv
<1>2. CallsOK'
  <2>1. SUFFICES ASSUME NEW q \in Processes, NEW n \in Endpoints
                 PROVE  /\ call'[<<q, n>>].at # "none" =>
                             proc'[q].at \in {"warm", "join"} /\ proc'[q].config[n] # Off
                        /\ call'[<<q, n>>].at = "none" => call'[<<q, n>>] = NoCall
                        /\ call'[<<q, n>>].leader # Off <=> call'[<<q, n>>].at = "waiting"
                        /\ call'[<<q, n>>].got =>
                             call'[<<q, n>>].ran /\ call'[<<q, n>>].at = "done"
    BY DEF CallsOK
  <2>2. CASE q = p
    BY <2>2, <1>1, Fields
  <2>3. CASE q # p
    BY <2>3, <1>1 DEF CallsOK, IInv
  <2> QED
    BY <2>2, <2>3
<1>3. WalkOK'
  <2>1. ASSUME NEW q \in Processes, q # p
        PROVE  /\ proc'[q].at = "warm" =>
                    \A j \in DOMAIN Names : j >= proc'[q].i => call'[<<q, Names[j]>>].at = "none"
               /\ proc'[q].at = "join" /\ q \in Askers => proc'[q].i = 1
    BY <2>1, <1>1, Basics DEF WalkOK, IInv
  <2> QED
    BY <2>1 DEF WalkOK
<1>4. NobodyWaitsInVain'
  <2>1. SUFFICES ASSUME NEW q \in Processes, NEW n \in Endpoints, call'[<<q, n>>].at = "waiting"
                 PROVE  call'[<<call'[<<q, n>>].leader, n>>].at = "fetching"
    BY DEF NobodyWaitsInVain
  <2>2. q # p
    BY <2>1, <1>1, Fields
  <2>3. call'[<<q, n>>] = call[<<q, n>>]
    BY <2>2, <1>1
  <2>4. call[<<q, n>>].leader \in Processes /\ call[<<q, n>>].leader # p
    BY <2>1, <2>3, WaitsForProcess, NotInvolved
  <2>5. call[<<call[<<q, n>>].leader, n>>].at = "fetching"
    BY <2>1, <2>3 DEF NobodyWaitsInVain, IInv
  <2> QED
    BY <2>3, <2>4, <2>5, <1>1
<1> QED
  BY <1>1, <1>2, <1>3, <1>4

\* A request whose fetches are over knows whether one listed the model.
LEMMA JoinStep == ASSUME IInv, NEW p \in Askers, Join(p) PROVE IInv'
<1>1. p \in Processes /\ UNCHANGED <<config, changes, cached>> /\ proc[p].at = "join" /\ Over(p)
  BY DEF Join, Processes
<1>2. \A q \in Processes : q # p => proc'[q] = proc[q]
  BY JoinOutcome, Zenon
<1>3. proc'[p].at \in {"look again", "not routed"}
  BY JoinOutcome
<1>a. TypeOK'
  BY JoinOutcome
<1>4. call' = [c \in DOMAIN call |-> IF c[1] = p THEN NoCall ELSE call[c]]
  BY DEF Join
<1>5. /\ CallsOK' /\ WalkOK' /\ NobodyWaitsInVain'
      /\ \A n \in Endpoints : call'[<<p, n>>] = NoCall
      /\ \A q \in Processes, n \in Endpoints : q # p => call'[<<q, n>>] = call[<<q, n>>]
  <2>1. proc'[p].at \notin {"warm", "join"}
    BY <1>3
  <2> QED
    BY <2>1, <1>1, <1>2, <1>a, <1>4, AfterForgetting
<1>6. proc'[p].at = "look again" => proc'[p].config = proc[p].config /\ proc'[p].i = 1
  BY JoinOutcome
<1>b. CopyOK' /\ OneCopy'
  BY <1>1, <1>2, <1>3, <1>6 DEF IInv, CopyOK, OneCopy, Active
<1>e. LeaderOK'
  <2>1. ASSUME NEW n \in Endpoints, cached[n].leader # Off
        PROVE  /\ call'[<<cached[n].leader, n>>].at = "fetching"
               /\ cached[n].source = proc'[cached[n].leader].config[n]
               /\ cached[n].recent
    <3>1. cached[n].leader \in Processes /\ cached[n].leader # p
      BY <2>1, <1>1, LeaderIsProcess, NotInvolved DEF IInv
    <3> QED
      BY <3>1, <2>1, <1>2, <1>5 DEF LeaderOK, IInv
  <2> QED
    BY <2>1, <1>1 DEF LeaderOK
<1>f. FromOwn' /\ OneSource'
  BY <1>1 DEF IInv, FromOwn, OneSource
<1>g. OneFetch' /\ GotKept'
  BY <1>1, <1>5, Fields DEF IInv, OneFetch, GotKept
<1>h. FetchesFirstOnly' /\ CalledOK'
  BY <1>1, <1>2, <1>5, Fields DEF IInv, FetchesFirstOnly, CalledOK, Processes
<1>i. ASSUME changes = 0, proc'[p].at = "look again", proc'[p].told PROVE Ahead(p)'
  <2>1. PICK n \in Endpoints : call[<<p, n>>].got /\ proc[p].config[n] \in Listing
    BY <1>i, JoinOutcome DEF Told
  <2>2. proc[p].config = config
    BY <1>1, <1>i DEF IInv, OneCopy, Active
  <2>3. cached[n].source = config[n] /\ cached[n].from = config[n]
    BY <2>1, <1>1, <1>i DEF IInv, GotKept
  <2>4. PICK j \in DOMAIN Names : n = Names[j]
    BY DEF Endpoints
  <2>a. proc'[p].i = 1
    BY <1>6, <1>i
  <2>5. j >= proc'[p].i
    BY <2>a, NamesDomain
  <2>6. config[n] # Off
    BY <2>1, <2>2, EndpointCatalogAssumption
  <2> QED
    BY <2>1, <2>2, <2>3, <2>4, <2>5, <2>6, <1>1 DEF Ahead, Has
<1>j. ToldRoutes'
  <2>1. ASSUME changes = 0, NEW q \in Processes, q # p
        PROVE  /\ proc'[q].at = "look again" /\ proc'[q].told => Ahead(q)'
               /\ proc'[q].at \in {"idle", "look"} => ~proc'[q].told
    BY <2>1, <1>1, <1>2 DEF IInv, ToldRoutes, Ahead, Has
  <2> QED
    BY <2>1, <1>1, <1>3, <1>i DEF ToldRoutes
<1>k. proc'[p].at = "not routed" => ~proc'[p].told
  <2>1. \A n \in Endpoints : call[<<p, n>>].got => call[<<p, n>>].ran
    BY <1>1 DEF IInv, CallsOK
  <2> QED
    BY <2>1, JoinOutcome DEF Told
<1>l. RoutedByOwnSource' /\ WaitedThenRouted'
  BY <1>1, <1>2, <1>3, <1>k DEF IInv, RoutedByOwnSource, WaitedThenRouted, Processes
<1> QED
  BY <1>a, <1>b, <1>5, <1>e, <1>f, <1>g, <1>h, <1>j, <1>l DEF IInv

\* The entry that takes the place of another source's.
LEMMA NewEntryFields ==
  ASSUME NEW source \in MaybeSource
  PROVE  /\ NewEntry(source) \in Entry
         /\ NewEntry(source).source = source /\ NewEntry(source).from = Off
         /\ ~NewEntry(source).failed /\ ~NewEntry(source).recent /\ ~NewEntry(source).fresh
         /\ NewEntry(source).leader = Off
BY DEF NewEntry, NoEntry, Entry, MaybeSource

\* The entry of a fetch that p begins.
Led(e, p) == [e EXCEPT !.leader = p, !.recent = TRUE]

\* The entry of a fetch that begins differs from what it was in the fetch only.
LEMMA EntryFetched ==
  ASSUME NEW e \in Entry, NEW p \in Processes, NEW f, f = Led(e, p)
  PROVE  /\ f \in Entry /\ f.leader = p /\ f.recent
         /\ f.source = e.source /\ f.from = e.from
         /\ f.failed <=> e.failed
<1>1. f \in Entry
  BY DEF Entry, Led
<1>2. f.leader = p /\ f.source = e.source /\ f.from = e.from
  BY DEF Entry, Led
<1>3. f.recent
  BY DEF Entry, Led
<1>4. f.failed <=> e.failed
  BY DEF Entry, Led
<1> QED
  BY <1>1, <1>2, <1>3, <1>4, Zenon

\* A call that waits for another's fetch.
LEMMA Waiting ==
  ASSUME NEW d \in Call, NEW leader \in Processes, NEW e,
         e = [d EXCEPT !.at = "waiting", !.leader = leader]
  PROVE  /\ e \in Call /\ e.at = "waiting" /\ e.leader = leader
         /\ e.got <=> d.got
<1>1. e \in Call
  BY DEF Call
<1>2. e.at = "waiting"
  BY DEF Call
<1>3. e.leader = leader
  BY DEF Call
<1>4. e.got <=> d.got
  BY DEF Call
<1> QED
  BY <1>1, <1>2, <1>3, <1>4, Zenon

\* What it leaves of a call to wait for another's fetch.
LEMMA CallWaits ==
  ASSUME TypeOK, NEW c \in Calls, NEW leader \in Processes,
         call' = [call EXCEPT ![c].at = "waiting", ![c].leader = leader]
  PROVE  /\ call' \in [Calls -> Call]
         /\ \A d \in Calls : d # c => call'[d] = call[d]
         /\ call'[c].at = "waiting" /\ call'[c].leader = leader
         /\ call'[c].got <=> call[c].got
<1>1. call[c] \in Call
  BY DEF TypeOK
<1>2. call'[c] = [call[c] EXCEPT !.at = "waiting", !.leader = leader]
  BY DEF TypeOK
<1>3. \A d \in Calls : d # c => call'[d] = call[d]
  BY DEF TypeOK
<1>4. /\ call'[c] \in Call /\ call'[c].at = "waiting" /\ call'[c].leader = leader
      /\ call'[c].got <=> call[c].got
  BY <1>1, <1>2, Waiting, Zenon
<1>5. call' \in [Calls -> Call]
  BY <1>4 DEF TypeOK
<1> QED
  BY <1>3, <1>4, <1>5, Zenon

\* How a call enters: it finds the entry of its source, if the map has one, and
\* waits, or is done, or fetches for it.
EnterWaits(p, n) ==
  /\ cached' = cached /\ cached[n].source = proc[p].config[n] /\ cached[n].leader # Off
  /\ call'[<<p, n>>].at = "waiting" /\ call'[<<p, n>>].leader = cached[n].leader
EnterDone(p, n) ==
  /\ cached' = cached
  /\ call'[<<p, n>>].at = "done" /\ call'[<<p, n>>].leader = Off
EnterFetches(p, n) ==
  /\ \A m \in Endpoints : m # n => cached'[m] = cached[m]
  /\ cached'[n].leader = p /\ cached'[n].recent /\ cached'[n].source = proc[p].config[n]
  /\ call'[<<p, n>>].at = "fetching" /\ call'[<<p, n>>].leader = Off
  /\ \/ /\ cached[n].source = proc[p].config[n] /\ cached[n].leader = Off
        /\ cached'[n].from = cached[n].from /\ (cached'[n].failed <=> cached[n].failed)
        /\ p \in Forced \/ ~cached[n].recent
     \/ /\ cached[n].source # proc[p].config[n]
        /\ cached'[n].from = Off /\ ~cached'[n].failed

\* refreshEndpointCatalog up to the unlock does one of the three.
LEMMA EnterOutcome ==
  ASSUME IInv, NEW p \in Processes, NEW n \in Endpoints, Enter(p, n)
  PROVE  /\ TypeOK'
         /\ \A c \in Calls : c # <<p, n>> => call'[c] = call[c]
         /\ ~call'[<<p, n>>].got
         /\ EnterWaits(p, n) \/ EnterDone(p, n) \/ EnterFetches(p, n)
<1> DEFINE c == <<p, n>>
           s == proc[p].config[n]
           entry == IF cached[n].source = s THEN cached[n] ELSE NewEntry(s)
<1>1. UNCHANGED <<config, changes, proc>> /\ call[c].at = "called" /\ c \in Calls
  BY DEF Enter, Calls
<1>2. call[c].leader = Off /\ ~call[c].got
  BY <1>1 DEF IInv, CallsOK
<1>3. s \in MaybeSource
  BY <1>1 DEF IInv, CallsOK, CopyOK, Active, Configuration
<1>4. cached[n] \in Entry /\ NewEntry(s) \in Entry /\ NewEntry(s).leader = Off
  BY <1>3, NewEntryFields DEF IInv, TypeOK
<1>5. entry \in Entry /\ entry.source = s
  BY <1>3, <1>4, NewEntryFields
<1>t. TypeOK
  BY DEF IInv
<1>u. cached' \in [Endpoints -> Entry] /\ call' \in [Calls -> Call] => TypeOK'
  BY <1>1, <1>t DEF TypeOK
<1>6. CASE /\ entry.leader # Off /\ cached' = cached
           /\ call' = [call EXCEPT ![c].at = "waiting", ![c].leader = entry.leader]
  <2>1. cached[n].source = s /\ entry = cached[n]
    BY <1>4, <1>6
  <2>2. cached[n].leader \in Processes /\ cached[n].leader # Off
    BY <2>1, <1>6, <1>t, LeaderIsProcess
  <2>3. call' = [call EXCEPT ![c].at = "waiting", ![c].leader = cached[n].leader]
    BY <2>1, <1>6
  <2> HIDE DEF c, s, entry
  <2>4. /\ call' \in [Calls -> Call] /\ \A d \in Calls : d # c => call'[d] = call[d]
        /\ call'[c].at = "waiting" /\ call'[c].leader = cached[n].leader
        /\ call'[c].got <=> call[c].got
    BY <2>2, <2>3, <1>1, <1>t, CallWaits, Zenon
  <2>5. TypeOK'
    BY <2>4, <1>6, <1>u, <1>t DEF TypeOK
  <2> QED
    BY <2>1, <2>2, <2>4, <2>5, <1>2, <1>6, Zenon DEF EnterWaits, c, s
<1>7. CASE /\ entry.leader = Off /\ p \notin Forced /\ ~Due(entry)
           /\ cached' = [cached EXCEPT ![n] = entry]
           /\ call' = [call EXCEPT ![c].at = "done"]
  <2>1. entry = cached[n]
    BY <1>3, <1>7, NewEntryFields DEF Due
  <2>2. cached' = cached
    BY <2>1, <1>7, <1>t DEF TypeOK
  <2>3. "done" \in Stages
    BY DEF Stages
  <2> HIDE DEF c, s, entry
  <2>4. /\ call' \in [Calls -> Call] /\ \A d \in Calls : d # c => call'[d] = call[d]
        /\ call'[c].at = "done" /\ call'[c].leader = call[c].leader
        /\ call'[c].got <=> call[c].got
    BY <2>3, <1>1, <1>7, <1>t, CallTo, Zenon
  <2>5. TypeOK'
    BY <2>2, <2>4, <1>u, <1>t DEF TypeOK
  <2> QED
    BY <2>2, <2>4, <2>5, <1>2, Zenon DEF EnterDone, c
<1>8. CASE /\ entry.leader = Off /\ (p \in Forced \/ Due(entry))
           /\ cached' = [cached EXCEPT ![n] = [entry EXCEPT !.leader = p, !.recent = TRUE]]
           /\ call' = [call EXCEPT ![c].at = "fetching"]
  <2>1. "fetching" \in Stages
    BY DEF Stages
  <2>2. \/ entry = cached[n] /\ cached[n].source = s
        \/ entry = NewEntry(s) /\ cached[n].source # s
    OBVIOUS
  <2> HIDE DEF c, s, entry
  <2>4. /\ call' \in [Calls -> Call] /\ \A d \in Calls : d # c => call'[d] = call[d]
        /\ call'[c].at = "fetching" /\ call'[c].leader = call[c].leader
        /\ call'[c].got <=> call[c].got
    BY <2>1, <1>1, <1>8, <1>t, CallTo, Zenon
  <2>5. cached'[n] = Led(entry, p)
    BY <1>8, <1>t DEF TypeOK, Led
  <2>6. /\ cached'[n] \in Entry /\ cached'[n].leader = p /\ cached'[n].recent
        /\ cached'[n].source = s /\ cached'[n].from = entry.from
        /\ cached'[n].failed <=> entry.failed
    <3>1. entry \in Entry
      BY <1>5
    <3>2. /\ cached'[n] \in Entry /\ cached'[n].leader = p /\ cached'[n].recent
          /\ cached'[n].source = entry.source /\ cached'[n].from = entry.from
          /\ cached'[n].failed <=> entry.failed
      BY <2>5, <3>1, EntryFetched, Zenon
    <3> QED
      BY <3>2, <1>5, Zenon
  <2>7. cached' \in [Endpoints -> Entry] /\ \A m \in Endpoints : m # n => cached'[m] = cached[m]
    BY <2>5, <2>6, <1>8, <1>t DEF TypeOK
  <2>8. TypeOK'
    BY <2>4, <2>7, <1>u
  <2>9. CASE entry = cached[n] /\ cached[n].source = s
    <3>1. p \in Forced \/ ~cached[n].recent
      BY <2>9, <1>8 DEF Due
    <3> QED
      BY <3>1, <2>4, <2>6, <2>7, <2>8, <2>9, <1>2, <1>8, Zenon DEF EnterFetches, c, s
  <2>10. CASE entry = NewEntry(s) /\ cached[n].source # s
    <3>1. entry.from = Off /\ ~entry.failed
      BY <2>10, <1>3, NewEntryFields
    <3> QED
      BY <3>1, <2>4, <2>6, <2>7, <2>8, <2>10, <1>2, <1>8, Zenon DEF EnterFetches, c, s
  <2> QED
    BY <2>2, <2>9, <2>10
<1> QED
  BY <1>6, <1>7, <1>8 DEF Enter
\* A call that enters waits for a fetch under way, or makes one for its own
\* source, a request only where nobody has tried.
LEMMA EnterStep == ASSUME IInv, NEW p \in Processes, NEW n \in Endpoints, Enter(p, n) PROVE IInv'
<1> DEFINE Old(q, m) == call'[<<q, m>>] = call[<<q, m>>]
<1> DEFINE Kept(m) == cached'[m].source = cached[m].source /\ cached'[m].from = cached[m].from
<1>1. UNCHANGED <<config, changes, proc>> /\ call[<<p, n>>].at = "called"
  BY DEF Enter
<1>2. \A q \in Processes, m \in Endpoints : q # p \/ m # n => Old(q, m)
  <2>1. \A c \in Calls : c # <<p, n>> => call'[c] = call[c]
    BY EnterOutcome, Zenon
  <2>2. \A q \in Processes, m \in Endpoints :
          <<q, m>> \in Calls /\ (q # p \/ m # n => <<q, m>> # <<p, n>>)
    BY DEF Calls
  <2> QED
    BY <2>1, <2>2
<1>3. ~call'[<<p, n>>].got
  BY EnterOutcome, Zenon
<1>4. EnterWaits(p, n) \/ EnterDone(p, n) \/ EnterFetches(p, n)
  BY EnterOutcome, Zenon
<1>5. /\ call'[<<p, n>>].at \in {"waiting", "done", "fetching"}
      /\ call'[<<p, n>>].at = "fetching" => EnterFetches(p, n)
      /\ call'[<<p, n>>].at = "waiting" <=> EnterWaits(p, n)
      /\ call'[<<p, n>>].leader # Off <=> EnterWaits(p, n)
  BY <1>4 DEF EnterWaits, EnterDone, EnterFetches
<1>6. \A m \in Endpoints : cached'[m] = cached[m] \/ (m = n /\ EnterFetches(p, n))
  BY <1>4 DEF EnterWaits, EnterDone, EnterFetches
<1>7. proc[p].at \in {"warm", "join"} /\ proc[p].config[n] # Off
  BY <1>1 DEF IInv, CallsOK
<1>8. changes = 0 => proc[p].config = config
  BY <1>7 DEF IInv, OneCopy, Active
<1>9. changes = 0 => \A m \in Endpoints : cached[m].source = config[m] => Kept(m)
  <2>1. SUFFICES ASSUME changes = 0, NEW m \in Endpoints, cached[m].source = config[m] PROVE Kept(m)
    OBVIOUS
  <2>2. CASE cached'[m] = cached[m]
    BY <2>2
  <2>3. CASE m = n /\ EnterFetches(p, n)
    BY <2>1, <2>3, <1>8 DEF EnterFetches
  <2> QED
    BY <2>2, <2>3, <1>6
<1> HIDE DEF Kept
<1>a. TypeOK'
  BY EnterOutcome, Zenon
<1>b. CopyOK' /\ OneCopy' /\ RoutedByOwnSource' /\ WaitedThenRouted'
  BY <1>1 DEF IInv, CopyOK, OneCopy, Active, RoutedByOwnSource, WaitedThenRouted
<1>c. CallsOK'
  <2>1. SUFFICES ASSUME NEW q \in Processes, NEW m \in Endpoints
                 PROVE  /\ call'[<<q, m>>].at # "none" =>
                             proc'[q].at \in {"warm", "join"} /\ proc'[q].config[m] # Off
                        /\ call'[<<q, m>>].at = "none" => call'[<<q, m>>] = NoCall
                        /\ call'[<<q, m>>].leader # Off <=> call'[<<q, m>>].at = "waiting"
                        /\ call'[<<q, m>>].got =>
                             call'[<<q, m>>].ran /\ call'[<<q, m>>].at = "done"
    BY DEF CallsOK
  <2>2. CASE q = p /\ m = n
    BY <2>2, <1>1, <1>3, <1>5, <1>7
  <2>3. CASE q # p \/ m # n
    BY <2>3, <1>1, <1>2 DEF CallsOK, IInv
  <2> QED
    BY <2>2, <2>3
<1>d. WalkOK'
  <2>1. ASSUME NEW q \in Processes, NEW m \in Endpoints, call[<<q, m>>].at = "none"
        PROVE  call'[<<q, m>>].at = "none"
    BY <2>1, <1>1, <1>2
  <2> QED
    BY <2>1, <1>1, Basics DEF WalkOK, IInv
<1>e. LeaderOK'
  <2>1. SUFFICES ASSUME NEW m \in Endpoints, cached'[m].leader # Off
                 PROVE  /\ call'[<<cached'[m].leader, m>>].at = "fetching"
                        /\ cached'[m].source = proc[cached'[m].leader].config[m]
                        /\ cached'[m].recent
    BY <1>1 DEF LeaderOK
  <2>2. CASE cached'[m] = cached[m]
    <3>1. cached[m].leader \in Processes
      BY <2>1, <2>2, LeaderIsProcess DEF IInv
    <3>2. /\ call[<<cached[m].leader, m>>].at = "fetching"
          /\ cached[m].source = proc[cached[m].leader].config[m] /\ cached[m].recent
      BY <2>1, <2>2 DEF LeaderOK, IInv
    <3>3. Old(cached[m].leader, m)
      BY <3>1, <3>2, <1>1, <1>2
    <3> QED
      BY <2>2, <3>2, <3>3
  <2>3. CASE m = n /\ EnterFetches(p, n)
    BY <2>3 DEF EnterFetches
  <2> QED
    BY <2>2, <2>3, <1>6
<1>f. FromOwn'
  <2>1. SUFFICES ASSUME NEW m \in Endpoints PROVE cached'[m].from \in {Off, cached'[m].source}
    BY DEF FromOwn
  <2>2. cached[m].from \in {Off, cached[m].source}
    BY DEF IInv, FromOwn
  <2>3. CASE m = n /\ EnterFetches(p, n)
    BY <2>2, <2>3 DEF EnterFetches
  <2> QED
    BY <2>2, <2>3, <1>6
<1>g. CalledOK'
  <2>1. SUFFICES ASSUME NEW q \in Askers, NEW m \in Endpoints, call'[<<q, m>>].at = "called",
                        cached'[m].source = proc[q].config[m]
                 PROVE  (cached'[m].from = Off /\ ~cached'[m].failed) \/ cached'[m].recent
    BY <1>1 DEF CalledOK
  <2>2. q \in Processes
    BY DEF Processes
  <2>3. Old(q, m)
    BY <2>1, <2>2, <1>2, <1>5
  <2>4. CASE cached'[m] = cached[m]
    BY <2>1, <2>3, <2>4 DEF CalledOK, IInv
  <2>5. CASE m = n /\ EnterFetches(p, n)
    BY <2>5 DEF EnterFetches
  <2> QED
    BY <2>4, <2>5, <1>6
<1>h. OneSource'
  <2>1. SUFFICES ASSUME changes = 0, NEW m \in Endpoints PROVE cached'[m].source \in {Off, config[m]}
    BY <1>1 DEF OneSource
  <2>2. CASE cached'[m] = cached[m]
    BY <2>1, <2>2 DEF OneSource, IInv
  <2>3. CASE m = n /\ EnterFetches(p, n)
    BY <2>1, <2>3, <1>8 DEF EnterFetches
  <2> QED
    BY <2>2, <2>3, <1>6
<1>i. OneFetch'
  <2>1. SUFFICES ASSUME changes = 0, NEW q \in Processes, NEW m \in Endpoints,
                        call'[<<q, m>>].at = "fetching"
                 PROVE  cached'[m].leader = q
    BY <1>1 DEF OneFetch
  <2>2. CASE q = p /\ m = n
    BY <2>1, <2>2, <1>5 DEF EnterFetches
  <2>3. CASE q # p \/ m # n
    <3>1. call[<<q, m>>].at = "fetching"
      BY <2>1, <2>3, <1>2
    <3>2. cached[m].leader = q /\ q # Off
      BY <2>1, <3>1, Basics DEF OneFetch, IInv
    <3>3. cached[m].source = proc[q].config[m] /\ proc[q].config[m] # Off
      BY <3>1, <3>2 DEF LeaderOK, CallsOK, IInv
    <3>4. cached[m].source = config[m]
      BY <2>1, <3>3 DEF OneSource, IInv
    <3>5. ~(m = n /\ EnterFetches(p, n))
      BY <2>1, <3>2, <3>4, <1>8 DEF EnterFetches
    <3> QED
      BY <3>2, <3>5, <1>6
  <2> QED
    BY <2>2, <2>3
<1>j. GotKept'
  <2>1. SUFFICES ASSUME changes = 0, NEW q \in Processes, NEW m \in Endpoints, call'[<<q, m>>].got
                 PROVE  cached'[m].source = config[m] /\ cached'[m].from = config[m]
    BY <1>1 DEF GotKept
  <2>2. call[<<q, m>>].got
    BY <2>1, <1>2, <1>3
  <2>3. cached[m].source = config[m] /\ cached[m].from = config[m]
    BY <2>1, <2>2 DEF GotKept, IInv
  <2>4. Kept(m)
    BY <2>1, <2>3, <1>9
  <2> QED
    BY <2>3, <2>4 DEF Kept
<1>k. ToldRoutes'
  <2>1. ASSUME changes = 0, NEW q \in Processes, Ahead(q) PROVE Ahead(q)'
    <3>1. PICK j \in DOMAIN Names : /\ j >= proc[q].i /\ config[Names[j]] # Off
                                    /\ Has(Names[j], config[Names[j]])
      BY <2>1 DEF Ahead
    <3>2. Names[j] \in Endpoints
      BY Basics
    <3>3. Kept(Names[j])
      BY <2>1, <3>1, <3>2, <1>9 DEF Has
    <3>4. Has(Names[j], config[Names[j]])'
      BY <3>1, <3>3, <1>1 DEF Has, Kept
    <3> QED
      BY <3>1, <3>4, <1>1 DEF Ahead
  <2> QED
    BY <2>1, <1>1 DEF ToldRoutes, IInv
<1>l. FetchesFirstOnly'
  <2>1. SUFFICES ASSUME NEW q \in Askers, NEW m \in Endpoints, call'[<<q, m>>].at = "fetching",
                        cached'[m].leader = q
                 PROVE  cached'[m].from = Off /\ ~cached'[m].failed
    BY DEF FetchesFirstOnly
  <2>2. q \in Processes /\ q \notin Forced
    BY EndpointCatalogAssumption DEF Processes
  <2>3. CASE q = p /\ m = n
    <3>1. EnterFetches(p, n)
      BY <2>1, <2>3, <1>5
    <3>2. CASE cached[n].source = proc[p].config[n]
      <4>1. /\ cached'[n].from = cached[n].from /\ (cached'[n].failed <=> cached[n].failed)
            /\ ~cached[n].recent
        BY <3>1, <3>2, <2>2, <2>3 DEF EnterFetches
      <4>2. cached[n].from = Off /\ ~cached[n].failed
        BY <4>1, <3>2, <2>3, <1>1 DEF CalledOK, IInv
      <4> QED
        BY <4>1, <4>2, <2>3
    <3>3. CASE cached[n].source # proc[p].config[n]
      BY <3>1, <3>3, <2>3 DEF EnterFetches
    <3> QED
      BY <3>2, <3>3
  <2>4. CASE q # p \/ m # n
    <3>1. ~(m = n /\ EnterFetches(p, n))
      BY <2>1, <2>4 DEF EnterFetches
    <3> QED
      BY <2>1, <2>2, <2>4, <3>1, <1>2, <1>6 DEF FetchesFirstOnly, IInv
  <2> QED
    BY <2>3, <2>4
<1>m. NobodyWaitsInVain'
  <2>1. SUFFICES ASSUME NEW q \in Processes, NEW m \in Endpoints, call'[<<q, m>>].at = "waiting"
                 PROVE  call'[<<call'[<<q, m>>].leader, m>>].at = "fetching"
    BY DEF NobodyWaitsInVain
  <2>2. ASSUME NEW l \in Processes, call[<<l, m>>].at = "fetching" PROVE call'[<<l, m>>].at = "fetching"
    BY <2>2, <1>1, <1>2
  <2>3. CASE q = p /\ m = n
    <3>1. EnterWaits(p, n)
      BY <2>1, <2>3, <1>5
    <3>2. call'[<<p, n>>].leader = cached[n].leader /\ cached[n].leader # Off
      BY <3>1 DEF EnterWaits
    <3>3. cached[n].leader \in Processes /\ call[<<cached[n].leader, n>>].at = "fetching"
      BY <3>2, LeaderIsProcess DEF LeaderOK, IInv
    <3> QED
      BY <3>2, <3>3, <2>2, <2>3
  <2>4. CASE q # p \/ m # n
    <3>1. Old(q, m)
      BY <2>4, <1>2
    <3>2. call[<<q, m>>].leader \in Processes
      BY <3>1, <2>1, WaitsForProcess
    <3>3. call[<<call[<<q, m>>].leader, m>>].at = "fetching"
      BY <3>1, <2>1 DEF NobodyWaitsInVain, IInv
    <3> QED
      BY <3>1, <3>2, <3>3, <2>2
  <2> QED
    BY <2>3, <2>4
<1> QED
  BY <1>a, <1>b, <1>c, <1>d, <1>e, <1>f, <1>g, <1>h, <1>i, <1>j, <1>k, <1>l, <1>m DEF IInv
\* A call whose fetch is over.
Done(ok) == [at |-> "done", leader |-> Off, ran |-> TRUE, got |-> ok]

\* The fields of a call whose fetch is over.
LEMMA DoneFields ==
  ASSUME NEW ok, Truth(ok)
  PROVE  /\ Done(ok) \in Call /\ Done(ok).at = "done" /\ Done(ok).leader = Off
         /\ Done(ok).ran /\ (Done(ok).got <=> ok)
<1>1. Done(ok) \in Call
  BY DEF Done, Call, Truth
<1>2. Done(ok).at = "done"
  BY DEF Done
<1>3. Done(ok).leader = Off
  BY DEF Done
<1>4. Done(ok).ran
  BY DEF Done
<1>5. Done(ok).got <=> ok
  BY DEF Done
<1> QED
  BY <1>1, <1>2, <1>3, <1>4, <1>5, Zenon

AfterFetch(e, s, ok, f) ==
  /\ f \in Entry /\ f.leader = Off /\ f.source = e.source /\ (f.recent <=> e.recent)
  /\ f.from = e.from \/ (ok /\ f.from = s)
  /\ ok => f.from = s

\* A fetch leaves an entry of the same source.
LEMMA FetchedFields ==
  ASSUME NEW e \in Entry, NEW s \in MaybeSource, NEW ok, Truth(ok), NEW f, f = Fetched(e, s, ok)
  PROVE  AfterFetch(e, s, ok, f)
<1>1. CASE ok
  <2>1. f = [e EXCEPT !.from = s, !.failed = FALSE, !.fresh = TRUE, !.leader = Off]
    BY <1>1 DEF Fetched
  <2>2. f \in Entry
    BY <2>1 DEF Entry
  <2>3. f.leader = Off /\ f.source = e.source /\ f.from = s
    BY <2>1 DEF Entry
  <2>4. f.recent <=> e.recent
    BY <2>1 DEF Entry
  <2> QED
    BY <2>2, <2>3, <2>4, <1>1, Zenon DEF AfterFetch
<1>2. CASE ~ok
  <2>1. f = [e EXCEPT !.failed = TRUE, !.leader = Off]
    BY <1>2 DEF Fetched
  <2>2. f \in Entry
    BY <2>1 DEF Entry
  <2>3. f.leader = Off /\ f.source = e.source /\ f.from = e.from
    BY <2>1 DEF Entry
  <2>4. f.recent <=> e.recent
    BY <2>1 DEF Entry
  <2> QED
    BY <2>2, <2>3, <2>4, <1>2, Zenon DEF AfterFetch
<1> QED
  BY <1>1, <1>2, Zenon

\* The calls that go on when p's fetch for n is over.
Ended(q, m, p, n) == m = n /\ (q = p \/ call[<<q, n>>].leader = p)

\* The end of a fetch reaches its entry, if the map still has it, and everybody
\* who waits for it, whether the map has it or not.
LEMMA FetchOutcome ==
  ASSUME IInv, NEW p \in Processes, NEW n \in Endpoints, NEW ok, Truth(ok),
         call[<<p, n>>].at = "fetching",
         cached' = IF cached[n].leader = p
                   THEN [cached EXCEPT ![n] = Fetched(@, proc[p].config[n], ok)]
                   ELSE cached,
         call' = [c \in DOMAIN call |->
            IF c = <<p, n>> \/ (c[2] = n /\ call[c].leader = p)
            THEN Done(ok) ELSE call[c]]
  PROVE  /\ cached' \in [Endpoints -> Entry] /\ call' \in [Calls -> Call]
         /\ \A q \in Processes, m \in Endpoints :
              IF Ended(q, m, p, n) THEN call'[<<q, m>>] = Done(ok)
                                   ELSE call'[<<q, m>>] = call[<<q, m>>]
         /\ \A m \in Endpoints : m # n \/ cached[n].leader # p => cached'[m] = cached[m]
         /\ cached[n].leader = p =>
              /\ cached'[n].leader = Off /\ cached'[n].source = cached[n].source
              /\ cached'[n].recent <=> cached[n].recent
              /\ cached'[n].from = cached[n].from \/ (ok /\ cached'[n].from = proc[p].config[n])
              /\ ok => cached'[n].from = proc[p].config[n]
<1> DEFINE s == proc[p].config[n]
<1>t. TypeOK
  BY DEF IInv
<1>1. s \in MaybeSource
  BY DEF IInv, CallsOK, CopyOK, Active, Configuration
<1>2. Done(ok) \in Call
  BY DoneFields, Zenon
<1>3. DOMAIN call = Calls
  BY <1>t DEF TypeOK
<1>4. call' \in [Calls -> Call]
  BY <1>2, <1>3, <1>t DEF TypeOK
<1>5. ASSUME NEW q \in Processes, NEW m \in Endpoints
      PROVE  IF Ended(q, m, p, n) THEN call'[<<q, m>>] = Done(ok)
                                  ELSE call'[<<q, m>>] = call[<<q, m>>]
  <2>1. <<q, m>> \in Calls /\ <<q, m>>[2] = m /\ (<<q, m>> = <<p, n>> <=> q = p /\ m = n)
    BY DEF Calls
  <2>2. call'[<<q, m>>] = IF <<q, m>> = <<p, n>> \/ (<<q, m>>[2] = n /\ call[<<q, m>>].leader = p)
                          THEN Done(ok) ELSE call[<<q, m>>]
    BY <2>1, <1>3
  <2> QED
    BY <2>1, <2>2 DEF Ended
<1>6. CASE cached[n].leader # p
  <2>1. cached' = cached
    BY <1>6
  <2>2. cached' \in [Endpoints -> Entry]
    BY <2>1, <1>t DEF TypeOK
  <2> QED
    BY <2>1, <2>2, <1>4, <1>5, <1>6, Zenon
<1>7. CASE cached[n].leader = p
  <2> HIDE DEF s
  <2>1. cached' = [cached EXCEPT ![n] = Fetched(cached[n], s, ok)]
    BY <1>7 DEF s
  <2>2. cached[n] \in Entry
    BY <1>t DEF TypeOK
  <2>3. cached'[n] = Fetched(cached[n], s, ok)
    BY <2>1, <1>t DEF TypeOK
  <2>a. AfterFetch(cached[n], s, ok, cached'[n])
    BY <2>2, <2>3, <1>1, FetchedFields, Zenon
  <2>4. /\ cached'[n] \in Entry /\ cached'[n].leader = Off /\ cached'[n].source = cached[n].source
        /\ cached'[n].recent <=> cached[n].recent
        /\ cached'[n].from = cached[n].from \/ (ok /\ cached'[n].from = s)
        /\ ok => cached'[n].from = s
    BY <2>a, Zenon DEF AfterFetch
  <2>5. cached' \in [Endpoints -> Entry] /\ \A m \in Endpoints : m # n => cached'[m] = cached[m]
    BY <2>1, <2>3, <2>4, <1>t DEF TypeOK
  <2> QED
    BY <2>4, <2>5, <1>4, <1>5, <1>7, Zenon DEF s
<1> QED
  BY <1>6, <1>7

\* When a fetch ends nobody is left to wait for it.
LEMMA FetchEndsStep ==
  ASSUME IInv, NEW p \in Processes, NEW n \in Endpoints, FetchEnds(p, n) PROVE IInv'
<1> DEFINE Old(q, m) == call'[<<q, m>>] = call[<<q, m>>]
<1>1. UNCHANGED <<config, changes, proc>> /\ call[<<p, n>>].at = "fetching"
  BY DEF FetchEnds
<1>2. PICK ok \in BOOLEAN :
        /\ cached' = IF cached[n].leader = p
                     THEN [cached EXCEPT ![n] = Fetched(@, proc[p].config[n], ok)]
                     ELSE cached
        /\ call' = [c \in DOMAIN call |->
             IF c = <<p, n>> \/ (c[2] = n /\ call[c].leader = p)
             THEN [at |-> "done", leader |-> Off, ran |-> TRUE, got |-> ok] ELSE call[c]]
  BY DEF FetchEnds
<1>3. Truth(ok)
  BY <1>2 DEF Truth
<1>4. /\ cached' \in [Endpoints -> Entry] /\ call' \in [Calls -> Call]
      /\ \A q \in Processes, m \in Endpoints :
           IF Ended(q, m, p, n) THEN call'[<<q, m>>] = Done(ok)
                                ELSE call'[<<q, m>>] = call[<<q, m>>]
      /\ \A m \in Endpoints : m # n \/ cached[n].leader # p => cached'[m] = cached[m]
      /\ cached[n].leader = p =>
           /\ cached'[n].leader = Off /\ cached'[n].source = cached[n].source
           /\ cached'[n].recent <=> cached[n].recent
           /\ cached'[n].from = cached[n].from \/ (ok /\ cached'[n].from = proc[p].config[n])
           /\ ok => cached'[n].from = proc[p].config[n]
  <2>1. call' = [c \in DOMAIN call |->
             IF c = <<p, n>> \/ (c[2] = n /\ call[c].leader = p) THEN Done(ok) ELSE call[c]]
    BY <1>2 DEF Done
  <2> QED
    BY <2>1, <1>1, <1>2, <1>3, FetchOutcome, ZenonT(60)
<1>5. \A q \in Processes, m \in Endpoints : Ended(q, m, p, n) =>
        /\ call'[<<q, m>>].at = "done" /\ call'[<<q, m>>].leader = Off
        /\ call'[<<q, m>>].ran /\ (call'[<<q, m>>].got <=> ok)
  BY <1>3, <1>4, DoneFields, Zenon
<1>6. \A q \in Processes, m \in Endpoints : ~Ended(q, m, p, n) => Old(q, m)
  BY <1>4, Zenon
<1>7. \A q \in Processes, m \in Endpoints :
        Ended(q, m, p, n) => call[<<q, m>>].at \in {"waiting", "fetching"}
  BY <1>1, Basics DEF Ended, IInv, CallsOK
<1>8. \A q \in Processes, m \in Endpoints : call'[<<q, m>>].at # "done" => Old(q, m)
  BY <1>5, <1>6
<1>9. ASSUME NEW q \in Processes, NEW m \in Endpoints, call[<<q, m>>].at = "fetching",
             m # n \/ q # p
      PROVE  call'[<<q, m>>].at = "fetching"
  <2>1. call[<<q, m>>].leader = Off
    BY <1>9 DEF IInv, CallsOK
  <2>2. ~Ended(q, m, p, n)
    BY <2>1, <1>9, Basics DEF Ended
  <2> QED
    BY <2>2, <1>6, <1>9
<1>10. cached[n].leader = p => cached[n].source = proc[p].config[n] /\ cached[n].recent
  BY Basics DEF IInv, LeaderOK
<1>11. \A m \in Endpoints : cached'[m].source = cached[m].source
  BY <1>4, Zenon
<1>12. \A m \in Endpoints :
         cached[m].from = cached[m].source => cached'[m].from = cached[m].source
  BY <1>4, <1>10, Zenon
<1>13. \A m \in Endpoints : cached'[m].leader # Off => cached'[m] = cached[m]
  BY <1>4, Zenon
<1>a. TypeOK'
  BY <1>1, <1>4 DEF IInv, TypeOK
<1>b. CopyOK' /\ OneCopy' /\ RoutedByOwnSource' /\ WaitedThenRouted'
  BY <1>1 DEF IInv, CopyOK, OneCopy, Active, RoutedByOwnSource, WaitedThenRouted
<1>c. CallsOK'
  <2>1. SUFFICES ASSUME NEW q \in Processes, NEW m \in Endpoints
                 PROVE  /\ call'[<<q, m>>].at # "none" =>
                             proc'[q].at \in {"warm", "join"} /\ proc'[q].config[m] # Off
                        /\ call'[<<q, m>>].at = "none" => call'[<<q, m>>] = NoCall
                        /\ call'[<<q, m>>].leader # Off <=> call'[<<q, m>>].at = "waiting"
                        /\ call'[<<q, m>>].got =>
                             call'[<<q, m>>].ran /\ call'[<<q, m>>].at = "done"
    BY DEF CallsOK
  <2>2. CASE Ended(q, m, p, n)
    <3>1. proc[q].at \in {"warm", "join"} /\ proc[q].config[m] # Off
      BY <2>2, <1>7 DEF CallsOK, IInv
    <3> QED
      BY <3>1, <2>2, <1>1, <1>5
  <2>3. CASE ~Ended(q, m, p, n)
    BY <2>3, <1>1, <1>6 DEF CallsOK, IInv
  <2> QED
    BY <2>2, <2>3
<1>d. WalkOK'
  <2>1. ASSUME NEW q \in Processes, NEW m \in Endpoints, call[<<q, m>>].at = "none"
        PROVE  call'[<<q, m>>].at = "none"
    BY <2>1, <1>6, <1>7
  <2> QED
    BY <2>1, <1>1, Basics DEF WalkOK, IInv
<1>e. LeaderOK'
  <2>1. SUFFICES ASSUME NEW m \in Endpoints, cached'[m].leader # Off
                 PROVE  /\ call'[<<cached'[m].leader, m>>].at = "fetching"
                        /\ cached'[m].source = proc[cached'[m].leader].config[m]
                        /\ cached'[m].recent
    BY <1>1 DEF LeaderOK
  <2>2. cached'[m] = cached[m]
    BY <2>1, <1>13
  <2>3. cached[m].leader \in Processes
    BY <2>1, <2>2, LeaderIsProcess DEF IInv
  <2>4. m # n \/ cached[m].leader # p
    BY <2>1, <1>4
  <2>5. /\ call[<<cached[m].leader, m>>].at = "fetching"
        /\ cached[m].source = proc[cached[m].leader].config[m] /\ cached[m].recent
    BY <2>1, <2>2 DEF LeaderOK, IInv
  <2> QED
    BY <2>2, <2>3, <2>4, <2>5, <1>9
<1>f. FromOwn'
  <2>1. SUFFICES ASSUME NEW m \in Endpoints PROVE cached'[m].from \in {Off, cached'[m].source}
    BY DEF FromOwn
  <2>2. cached[m].from \in {Off, cached[m].source}
    BY DEF IInv, FromOwn
  <2>3. cached'[m].from = cached[m].from \/ cached'[m].from = cached[m].source
    BY <1>4, <1>10, Zenon
  <2> QED
    BY <2>2, <2>3, <1>11
<1>g. CalledOK'
  <2>1. SUFFICES ASSUME NEW q \in Askers, NEW m \in Endpoints, call'[<<q, m>>].at = "called",
                        cached'[m].source = proc[q].config[m]
                 PROVE  (cached'[m].from = Off /\ ~cached'[m].failed) \/ cached'[m].recent
    BY <1>1 DEF CalledOK
  <2>2. q \in Processes
    BY DEF Processes
  <2>3. Old(q, m)
    BY <2>1, <2>2, <1>8
  <2>4. CASE m # n \/ cached[n].leader # p
    <3>1. cached'[m] = cached[m]
      BY <2>4, <1>4
    <3> QED
      BY <2>1, <2>3, <3>1 DEF CalledOK, IInv
  <2>5. CASE m = n /\ cached[n].leader = p
    BY <2>5, <1>4, <1>10
  <2> QED
    BY <2>4, <2>5
<1>h. OneSource'
  BY <1>1, <1>11 DEF OneSource, IInv
<1>i. OneFetch'
  <2>1. SUFFICES ASSUME changes = 0, NEW q \in Processes, NEW m \in Endpoints,
                        call'[<<q, m>>].at = "fetching"
                 PROVE  cached'[m].leader = q
    BY <1>1 DEF OneFetch
  <2>2. call[<<q, m>>].at = "fetching"
    BY <2>1, <1>8
  <2>3. cached[m].leader = q
    BY <2>1, <2>2 DEF OneFetch, IInv
  <2>4. ~Ended(q, m, p, n)
    BY <2>1, <1>5
  <2>5. m # n \/ cached[n].leader # p
    BY <2>3, <2>4 DEF Ended
  <2> QED
    BY <2>3, <2>5, <1>4
<1>j. GotKept'
  <2>1. SUFFICES ASSUME changes = 0, NEW q \in Processes, NEW m \in Endpoints, call'[<<q, m>>].got
                 PROVE  cached'[m].source = config[m] /\ cached'[m].from = config[m]
    BY <1>1 DEF GotKept
  <2>2. CASE ~Ended(q, m, p, n)
    <3>1. cached[m].source = config[m] /\ cached[m].from = config[m]
      BY <2>1, <2>2, <1>6 DEF GotKept, IInv
    <3> QED
      BY <3>1, <1>11, <1>12
  <2>3. CASE Ended(q, m, p, n)
    <3>1. ok /\ m = n
      BY <2>1, <2>3, <1>5 DEF Ended
    <3>2. cached[n].leader = p
      BY <2>1, <1>1 DEF OneFetch, IInv
    <3>3. proc[p].config[n] # Off
      BY <1>1 DEF CallsOK, IInv
    <3>4. cached[n].source = config[n]
      BY <2>1, <3>2, <3>3, <1>10 DEF OneSource, IInv
    <3> QED
      BY <3>1, <3>2, <3>4, <1>4, <1>10
  <2> QED
    BY <2>2, <2>3
<1>k. ToldRoutes'
  <2>1. ASSUME changes = 0, NEW q \in Processes, Ahead(q) PROVE Ahead(q)'
    <3>1. PICK j \in DOMAIN Names : /\ j >= proc[q].i /\ config[Names[j]] # Off
                                    /\ Has(Names[j], config[Names[j]])
      BY <2>1 DEF Ahead
    <3>2. Names[j] \in Endpoints
      BY Basics
    <3>3. cached[Names[j]].source = config[Names[j]] /\ cached[Names[j]].from \in Listing
      BY <3>1 DEF Has
    <3>4. cached[Names[j]].from = cached[Names[j]].source
      BY <3>2, <3>3, EndpointCatalogAssumption DEF FromOwn, IInv
    <3>5. Has(Names[j], config[Names[j]])'
      BY <3>2, <3>3, <3>4, <1>1, <1>11, <1>12 DEF Has
    <3> QED
      BY <3>1, <3>5, <1>1 DEF Ahead
  <2> QED
    BY <2>1, <1>1 DEF ToldRoutes, IInv
<1>l. FetchesFirstOnly'
  <2>1. SUFFICES ASSUME NEW q \in Askers, NEW m \in Endpoints, call'[<<q, m>>].at = "fetching",
                        cached'[m].leader = q
                 PROVE  cached'[m].from = Off /\ ~cached'[m].failed
    BY DEF FetchesFirstOnly
  <2>2. q \in Processes /\ q # Off
    BY EndpointCatalogAssumption DEF Processes
  <2>3. call[<<q, m>>].at = "fetching" /\ cached'[m] = cached[m]
    BY <2>1, <2>2, <1>8, <1>13
  <2> QED
    BY <2>1, <2>3 DEF FetchesFirstOnly, IInv
<1>m. NobodyWaitsInVain'
  <2>1. SUFFICES ASSUME NEW q \in Processes, NEW m \in Endpoints, call'[<<q, m>>].at = "waiting"
                 PROVE  call'[<<call'[<<q, m>>].leader, m>>].at = "fetching"
    BY DEF NobodyWaitsInVain
  <2>2. Old(q, m) /\ ~Ended(q, m, p, n)
    BY <2>1, <1>5, <1>8
  <2>3. call[<<q, m>>].leader \in Processes
    BY <2>1, <2>2, WaitsForProcess
  <2>4. call[<<call[<<q, m>>].leader, m>>].at = "fetching"
    BY <2>1, <2>2 DEF NobodyWaitsInVain, IInv
  <2>5. m # n \/ call[<<q, m>>].leader # p
    BY <2>2 DEF Ended
  <2> QED
    BY <2>2, <2>3, <2>4, <2>5, <1>9
<1> QED
  BY <1>a, <1>b, <1>c, <1>d, <1>e, <1>f, <1>g, <1>h, <1>i, <1>j, <1>k, <1>l, <1>m DEF IInv
\* What it leaves of the calls of a client that is gone, and of the others.
LEMMA GoneOutcome ==
  ASSUME IInv, NEW p \in Processes, Gone(p)
  PROVE  /\ call' \in [Calls -> Call]
         /\ \A q \in Processes, m \in Endpoints :
              \/ call'[<<q, m>>] = call[<<q, m>>] /\ ~(q = p /\ call[<<q, m>>].at = "waiting")
              \/ /\ q = p /\ call[<<q, m>>].at = "waiting"
                 /\ call'[<<q, m>>].at = "done" /\ call'[<<q, m>>].leader = Off
                 /\ ~call'[<<q, m>>].got
<1> DEFINE left == [NoCall EXCEPT !.at = "done"]
<1>1. left \in Call
  BY DEF Call, NoCall
<1>2. left.at = "done" /\ left.leader = Off
  BY DEF NoCall
<1>3. ~left.got
  BY DEF NoCall
<1>4. call' = [c \in DOMAIN call |-> IF c[1] = p /\ call[c].at = "waiting" THEN left ELSE call[c]]
  BY DEF Gone
<1> HIDE DEF left
<1>5. DOMAIN call = Calls /\ \A c \in Calls : call[c] \in Call
  BY DEF IInv, TypeOK
<1>6. call' \in [Calls -> Call]
  BY <1>1, <1>4, <1>5
<1>7. ASSUME NEW q \in Processes, NEW m \in Endpoints
      PROVE  call'[<<q, m>>] = IF q = p /\ call[<<q, m>>].at = "waiting" THEN left
                               ELSE call[<<q, m>>]
  <2>1. <<q, m>> \in Calls /\ <<q, m>>[1] = q
    BY DEF Calls
  <2> QED
    BY <2>1, <1>4, <1>5
<1>8. ASSUME NEW q \in Processes, NEW m \in Endpoints
      PROVE  \/ call'[<<q, m>>] = call[<<q, m>>] /\ ~(q = p /\ call[<<q, m>>].at = "waiting")
             \/ /\ q = p /\ call[<<q, m>>].at = "waiting"
                /\ call'[<<q, m>>].at = "done" /\ call'[<<q, m>>].leader = Off
                /\ ~call'[<<q, m>>].got
  <2>1. CASE q = p /\ call[<<q, m>>].at = "waiting"
    <3>1. call'[<<q, m>>] = left
      BY <2>1, <1>7
    <3> QED
      BY <2>1, <3>1, <1>2, <1>3, Zenon
  <2>2. CASE ~(q = p /\ call[<<q, m>>].at = "waiting")
    <3>1. call'[<<q, m>>] = call[<<q, m>>]
      BY <2>2, <1>7
    <3> QED
      BY <2>2, <3>1, Zenon
  <2> QED
    BY <2>1, <2>2, Zenon
<1> QED
  BY <1>6, <1>8, Zenon

\* A client that is gone waits no longer; its own fetches go on.
LEMMA GoneStep == ASSUME IInv, NEW p \in Processes, Gone(p) PROVE IInv'
<1> DEFINE Old(q, m) == call'[<<q, m>>] = call[<<q, m>>]
<1> DEFINE Left(q, m) ==
      /\ q = p /\ call[<<q, m>>].at = "waiting" /\ call'[<<q, m>>].at = "done"
      /\ call'[<<q, m>>].leader = Off /\ ~call'[<<q, m>>].got
<1>1. UNCHANGED <<config, changes, cached, proc>>
  BY DEF Gone
<1>2. \A q \in Processes, m \in Endpoints : Old(q, m) \/ Left(q, m)
  <2>1. SUFFICES ASSUME NEW q \in Processes, NEW m \in Endpoints PROVE Old(q, m) \/ Left(q, m)
    OBVIOUS
  <2> QED
    BY GoneOutcome
<1>3. \A q \in Processes, m \in Endpoints : call'[<<q, m>>].at # "done" => Old(q, m)
  BY <1>2
<1>4. \A q \in Processes, m \in Endpoints : call[<<q, m>>].at # "waiting" => Old(q, m)
  BY <1>2
<1>5. \A q \in Processes, m \in Endpoints : call'[<<q, m>>].got => Old(q, m)
  BY <1>2
<1>a. TypeOK'
  BY <1>1, GoneOutcome DEF IInv, TypeOK
<1>b. CopyOK' /\ OneCopy' /\ RoutedByOwnSource' /\ WaitedThenRouted'
  BY <1>1 DEF IInv, CopyOK, OneCopy, Active, RoutedByOwnSource, WaitedThenRouted
<1>c. CallsOK'
  <2>1. SUFFICES ASSUME NEW q \in Processes, NEW m \in Endpoints
                 PROVE  /\ call'[<<q, m>>].at # "none" =>
                             proc'[q].at \in {"warm", "join"} /\ proc'[q].config[m] # Off
                        /\ call'[<<q, m>>].at = "none" => call'[<<q, m>>] = NoCall
                        /\ call'[<<q, m>>].leader # Off <=> call'[<<q, m>>].at = "waiting"
                        /\ call'[<<q, m>>].got =>
                             call'[<<q, m>>].ran /\ call'[<<q, m>>].at = "done"
    BY DEF CallsOK
  <2>2. CASE Old(q, m)
    BY <2>2, <1>1 DEF CallsOK, IInv
  <2>3. CASE Left(q, m)
    BY <2>3, <1>1 DEF CallsOK, IInv
  <2> QED
    BY <2>2, <2>3, <1>2
<1>d. WalkOK'
  <2>1. ASSUME NEW q \in Processes, NEW m \in Endpoints, call[<<q, m>>].at = "none"
        PROVE  call'[<<q, m>>].at = "none"
    BY <2>1, <1>4
  <2> QED
    BY <2>1, <1>1, Basics DEF WalkOK, IInv
<1>e. LeaderOK'
  <2>1. ASSUME NEW m \in Endpoints, cached[m].leader # Off
        PROVE  call'[<<cached[m].leader, m>>].at = "fetching"
    <3>1. cached[m].leader \in Processes /\ call[<<cached[m].leader, m>>].at = "fetching"
      BY <2>1, LeaderIsProcess DEF LeaderOK, IInv
    <3> QED
      BY <3>1, <1>4
  <2> QED
    BY <2>1, <1>1 DEF LeaderOK, IInv
<1>f. FromOwn' /\ OneSource' /\ ToldRoutes'
  BY <1>1 DEF IInv, FromOwn, OneSource, ToldRoutes, Ahead, Has
<1>g. CalledOK' /\ FetchesFirstOnly'
  BY <1>1, <1>3 DEF IInv, CalledOK, FetchesFirstOnly, Processes
<1>h. OneFetch' /\ GotKept'
  BY <1>1, <1>3, <1>5 DEF IInv, OneFetch, GotKept
<1>i. NobodyWaitsInVain'
  <2>1. SUFFICES ASSUME NEW q \in Processes, NEW m \in Endpoints, call'[<<q, m>>].at = "waiting"
                 PROVE  call'[<<call'[<<q, m>>].leader, m>>].at = "fetching"
    BY DEF NobodyWaitsInVain
  <2>2. Old(q, m)
    BY <2>1, <1>3
  <2>3. call[<<q, m>>].leader \in Processes
    BY <2>1, <2>2, WaitsForProcess
  <2>4. call[<<call[<<q, m>>].leader, m>>].at = "fetching"
    BY <2>1, <2>2 DEF NobodyWaitsInVain, IInv
  <2> QED
    BY <2>2, <2>3, <2>4, <1>4
<1> QED
  BY <1>a, <1>b, <1>c, <1>d, <1>e, <1>f, <1>g, <1>h, <1>i DEF IInv

\* The calls a refresh begins, one for every name that has opted in.
LEMMA RefreshOutcome ==
  ASSUME IInv, NEW p \in Processes, Refresh(p)
  PROVE  /\ call' \in [Calls -> Call] /\ proc' \in [Processes -> Process]
         /\ \A q \in Processes : q # p => proc'[q] = proc[q]
         /\ proc'[p].at = "join" /\ proc'[p].config = config
         /\ \A q \in Processes, m \in Endpoints :
              \/ call'[<<q, m>>] = call[<<q, m>>]
              \/ /\ q = p /\ config[m] # Off
                 /\ call'[<<q, m>>].at = "called" /\ call'[<<q, m>>].leader = Off
                 /\ ~call'[<<q, m>>].got
<1> DEFINE new == [NoCall EXCEPT !.at = "called"]
<1>1. new \in Call
  BY DEF Call, NoCall
<1>2. new.at = "called" /\ new.leader = Off
  BY DEF NoCall
<1>3. ~new.got
  BY DEF NoCall
<1>4. call' = [c \in DOMAIN call |-> IF c[1] = p /\ config[c[2]] # Off THEN new ELSE call[c]]
  BY DEF Refresh
<1> HIDE DEF new
<1>5. DOMAIN call = Calls /\ \A c \in Calls : call[c] \in Call
  BY DEF IInv, TypeOK
<1>6. call' \in [Calls -> Call]
  BY <1>1, <1>4, <1>5
<1>7. ASSUME NEW q \in Processes, NEW m \in Endpoints
      PROVE  call'[<<q, m>>] = IF q = p /\ config[m] # Off THEN new ELSE call[<<q, m>>]
  <2>1. <<q, m>> \in Calls /\ <<q, m>>[1] = q /\ <<q, m>>[2] = m
    BY DEF Calls
  <2> QED
    BY <2>1, <1>4, <1>5
<1>8. ASSUME NEW q \in Processes, NEW m \in Endpoints
      PROVE  \/ call'[<<q, m>>] = call[<<q, m>>]
             \/ /\ q = p /\ config[m] # Off
                /\ call'[<<q, m>>].at = "called" /\ call'[<<q, m>>].leader = Off
                /\ ~call'[<<q, m>>].got
  <2>1. CASE q = p /\ config[m] # Off
    <3>1. call'[<<q, m>>] = new
      BY <2>1, <1>7
    <3> QED
      BY <2>1, <3>1, <1>2, <1>3, Zenon
  <2>2. CASE ~(q = p /\ config[m] # Off)
    BY <2>2, <1>7
  <2>3. (q = p /\ config[m] # Off) \/ ~(q = p /\ config[m] # Off)
    OBVIOUS
  <2> QED
    BY <2>1, <2>2, <2>3
<1>9. proc' \in [Processes -> Process]
  <2>1. config \in Configuration \cup {Off} /\ proc[p] \in Process
    BY DEF IInv, TypeOK
  <2> DEFINE now == [proc[p] EXCEPT !.at = "join", !.config = config]
  <2>2. now \in Process
    BY <2>1 DEF Process
  <2>3. proc' = [proc EXCEPT ![p] = now]
    BY DEF Refresh, IInv, TypeOK
  <2> HIDE DEF now
  <2> QED
    BY <2>2, <2>3 DEF IInv, TypeOK
<1>10. \A q \in Processes : q # p => proc'[q] = proc[q]
  BY DEF Refresh, IInv, TypeOK
<1>11. proc'[p].at = "join" /\ proc'[p].config = config
  BY DEF Refresh, IInv, TypeOK, Process
<1> QED
  BY <1>6, <1>8, <1>9, <1>10, <1>11, Zenon

\* A refresh calls what the present configuration opts in.
LEMMA RefreshStep == ASSUME IInv, NEW p \in Processes, Refresh(p) PROVE IInv'
<1> DEFINE Old(q, m) == call'[<<q, m>>] = call[<<q, m>>]
<1> DEFINE New(q, m) ==
      /\ q = p /\ config[m] # Off /\ call'[<<q, m>>].at = "called"
      /\ call'[<<q, m>>].leader = Off /\ ~call'[<<q, m>>].got
<1>1. /\ UNCHANGED <<config, changes, cached>> /\ proc[p].at = "idle" /\ p \notin Askers
      /\ config \in Configuration
  BY EndpointCatalogAssumption DEF Refresh, IInv, TypeOK
<1>2. /\ \A q \in Processes : q # p => proc'[q] = proc[q]
      /\ proc'[p].at = "join" /\ proc'[p].config = config
  BY RefreshOutcome, Zenon
<1>3. \A q \in Processes, m \in Endpoints : Old(q, m) \/ New(q, m)
  <2>1. SUFFICES ASSUME NEW q \in Processes, NEW m \in Endpoints PROVE Old(q, m) \/ New(q, m)
    OBVIOUS
  <2> QED
    BY RefreshOutcome
<1>4. \A m \in Endpoints : call[<<p, m>>].at = "none"
  BY <1>1 DEF IInv, CallsOK
<1>5. \A q \in Processes, m \in Endpoints : call[<<q, m>>].at # "none" => q # p /\ Old(q, m)
  BY <1>3, <1>4
<1>6. \A q \in Processes, m \in Endpoints : q # p => Old(q, m)
  BY <1>3
<1>7. \A q \in Processes, m \in Endpoints : call'[<<q, m>>].at # "called" => Old(q, m)
  BY <1>3
<1>8. \A q \in Askers : q # p /\ q \in Processes
  BY <1>1 DEF Processes
<1>a. TypeOK'
  BY <1>1, RefreshOutcome DEF IInv, TypeOK
<1>b. CopyOK' /\ OneCopy'
  BY <1>1, <1>2 DEF IInv, CopyOK, OneCopy, Active
<1>c. CallsOK'
  <2>1. SUFFICES ASSUME NEW q \in Processes, NEW m \in Endpoints
                 PROVE  /\ call'[<<q, m>>].at # "none" =>
                             proc'[q].at \in {"warm", "join"} /\ proc'[q].config[m] # Off
                        /\ call'[<<q, m>>].at = "none" => call'[<<q, m>>] = NoCall
                        /\ call'[<<q, m>>].leader # Off <=> call'[<<q, m>>].at = "waiting"
                        /\ call'[<<q, m>>].got =>
                             call'[<<q, m>>].ran /\ call'[<<q, m>>].at = "done"
    BY DEF CallsOK
  <2>2. CASE Old(q, m)
    BY <2>2, <1>2, <1>4 DEF CallsOK, IInv
  <2>3. CASE New(q, m)
    BY <2>3, <1>2
  <2> QED
    BY <2>2, <2>3, <1>3
<1>d. WalkOK'
  <2>1. ASSUME NEW q \in Processes, q # p
        PROVE  /\ proc'[q].at = "warm" =>
                    \A j \in DOMAIN Names : j >= proc'[q].i => call'[<<q, Names[j]>>].at = "none"
               /\ proc'[q].at = "join" /\ q \in Askers => proc'[q].i = 1
    BY <2>1, <1>2, <1>6, Basics DEF WalkOK, IInv
  <2> QED
    BY <2>1, <1>1, <1>2 DEF WalkOK
<1>e. LeaderOK'
  <2>1. ASSUME NEW m \in Endpoints, cached[m].leader # Off
        PROVE  /\ call'[<<cached[m].leader, m>>].at = "fetching"
               /\ cached[m].source = proc'[cached[m].leader].config[m]
    <3>1. cached[m].leader \in Processes /\ call[<<cached[m].leader, m>>].at = "fetching"
      BY <2>1, LeaderIsProcess DEF LeaderOK, IInv
    <3>2. cached[m].leader # p /\ Old(cached[m].leader, m)
      BY <3>1, <1>5
    <3> QED
      BY <2>1, <3>1, <3>2, <1>2 DEF LeaderOK, IInv
  <2> QED
    BY <2>1, <1>1 DEF LeaderOK, IInv
<1>f. FromOwn' /\ OneSource'
  BY <1>1 DEF IInv, FromOwn, OneSource
<1>g. CalledOK' /\ FetchesFirstOnly'
  BY <1>1, <1>2, <1>6, <1>8 DEF IInv, CalledOK, FetchesFirstOnly
<1>h. OneFetch' /\ GotKept'
  BY <1>1, <1>3 DEF IInv, OneFetch, GotKept
<1>i. NobodyWaitsInVain'
  <2>1. SUFFICES ASSUME NEW q \in Processes, NEW m \in Endpoints, call'[<<q, m>>].at = "waiting"
                 PROVE  call'[<<call'[<<q, m>>].leader, m>>].at = "fetching"
    BY DEF NobodyWaitsInVain
  <2>2. Old(q, m)
    BY <2>1, <1>7
  <2>3. call[<<q, m>>].leader \in Processes
    BY <2>1, <2>2, WaitsForProcess
  <2>4. call[<<call[<<q, m>>].leader, m>>].at = "fetching"
    BY <2>1, <2>2 DEF NobodyWaitsInVain, IInv
  <2> QED
    BY <2>2, <2>3, <2>4, <1>5
<1>j. ToldRoutes'
  BY <1>1, <1>2 DEF IInv, ToldRoutes, Ahead, Has
<1>k. RoutedByOwnSource' /\ WaitedThenRouted'
  BY <1>1, <1>2, <1>8 DEF IInv, RoutedByOwnSource, WaitedThenRouted
<1> QED
  BY <1>a, <1>b, <1>c, <1>d, <1>e, <1>f, <1>g, <1>h, <1>i, <1>j, <1>k DEF IInv
\* A refresh drops no entry somebody fetches for.
LEMMA DropStep == ASSUME IInv, NEW p \in Processes, Drop(p) PROVE IInv'
<1>1. /\ UNCHANGED <<config, changes>> /\ proc[p].at = "join" /\ Over(p) /\ p \notin Askers
      /\ call' = [c \in DOMAIN call |-> IF c[1] = p THEN NoCall ELSE call[c]]
      /\ proc' = [proc EXCEPT ![p] = Idle]
      /\ cached' = [n \in Endpoints |->
           IF proc[p].config[n] = Off /\ cached[n].leader = Off THEN NoEntry ELSE cached[n]]
  BY EndpointCatalogAssumption DEF Drop
<1>2. (\A q \in Processes : q # p => proc'[q] = proc[q]) /\ proc'[p] = Idle
  BY <1>1 DEF IInv, TypeOK
<1>3. \A n \in Endpoints :
        \/ cached'[n] = cached[n]
        \/ cached'[n] = NoEntry /\ proc[p].config[n] = Off
  BY <1>1
<1>4. \A n \in Endpoints : cached[n].leader # Off => cached'[n] = cached[n]
  BY <1>1
<1>5. \A n \in Endpoints : cached'[n].leader # Off => cached'[n] = cached[n]
  BY <1>3, Fields
<1>6. call' \in [Calls -> Call]
  BY <1>1, Forgotten DEF IInv
<1>a. TypeOK'
  <2>1. cached' \in [Endpoints -> Entry]
    BY <1>1, Basics DEF IInv, TypeOK
  <2>2. proc' \in [Processes -> Process]
    BY <1>1, Basics DEF IInv, TypeOK
  <2> QED
    BY <2>1, <2>2, <1>1, <1>6 DEF IInv, TypeOK
<1>7. /\ CallsOK' /\ WalkOK' /\ NobodyWaitsInVain'
      /\ \A n \in Endpoints : call'[<<p, n>>] = NoCall
      /\ \A q \in Processes, n \in Endpoints : q # p => call'[<<q, n>>] = call[<<q, n>>]
  <2>1. proc'[p].at \notin {"warm", "join"}
    BY <1>2, Fields
  <2>2. \A q \in Processes : q # p => proc'[q] = proc[q]
    BY <1>2
  <2> QED
    BY <2>1, <2>2, <1>1, <1>a, AfterForgetting
<1>8. \A q \in Askers : q # p /\ q \in Processes
  BY <1>1 DEF Processes
<1>9. \A q \in Processes, n \in Endpoints :
        call'[<<q, n>>].at # "none" => q # p /\ call'[<<q, n>>] = call[<<q, n>>]
  BY <1>7, Fields
<1>b. CopyOK' /\ OneCopy'
  <2>1. ~Active(p)'
    BY <1>2, Fields DEF Active
  <2> QED
    BY <2>1, <1>1, <1>2 DEF IInv, CopyOK, OneCopy, Active
<1>c. RoutedByOwnSource' /\ WaitedThenRouted'
  BY <1>1, <1>2, <1>8 DEF IInv, RoutedByOwnSource, WaitedThenRouted
<1>e. LeaderOK'
  <2>1. ASSUME NEW n \in Endpoints, cached'[n].leader # Off
        PROVE  /\ call'[<<cached'[n].leader, n>>].at = "fetching"
               /\ cached'[n].source = proc'[cached'[n].leader].config[n]
               /\ cached'[n].recent
    <3>1. cached'[n] = cached[n]
      BY <2>1, <1>5
    <3>2. cached[n].leader \in Processes /\ cached[n].leader # p
      BY <2>1, <3>1, <1>1, LeaderIsProcess, NotInvolved DEF IInv
    <3> QED
      BY <2>1, <3>1, <3>2, <1>2, <1>7 DEF LeaderOK, IInv
  <2> QED
    BY <2>1 DEF LeaderOK
<1>f. FromOwn' /\ OneSource'
  BY <1>1, <1>3, Fields DEF IInv, FromOwn, OneSource
<1>g. CalledOK'
  <2>1. SUFFICES ASSUME NEW q \in Askers, NEW n \in Endpoints, call'[<<q, n>>].at = "called",
                        cached'[n].source = proc'[q].config[n]
                 PROVE  (cached'[n].from = Off /\ ~cached'[n].failed) \/ cached'[n].recent
    BY DEF CalledOK
  <2>2. call'[<<q, n>>] = call[<<q, n>>] /\ proc'[q] = proc[q]
    BY <1>2, <1>7, <1>8
  <2>3. CASE cached'[n] = cached[n]
    BY <2>1, <2>2, <2>3 DEF CalledOK, IInv
  <2>4. CASE cached'[n] = NoEntry
    BY <2>4, Fields
  <2> QED
    BY <2>3, <2>4, <1>3
<1>h. OneFetch'
  <2>1. SUFFICES ASSUME changes = 0, NEW q \in Processes, NEW n \in Endpoints,
                        call'[<<q, n>>].at = "fetching"
                 PROVE  cached'[n].leader = q
    BY <1>1 DEF OneFetch
  <2>2. cached[n].leader = q /\ q # Off
    BY <2>1, <1>9, Basics DEF OneFetch, IInv
  <2> QED
    BY <2>2, <1>4
<1>10. ASSUME changes = 0, NEW n \in Endpoints, config[n] # Off PROVE cached'[n] = cached[n]
  <2>1. proc[p].config = config
    BY <1>10, <1>1 DEF OneCopy, Active, IInv
  <2> QED
    BY <2>1, <1>10, <1>3
<1>i. GotKept'
  <2>1. SUFFICES ASSUME changes = 0, NEW q \in Processes, NEW n \in Endpoints, call'[<<q, n>>].got
                 PROVE  cached'[n].source = config[n] /\ cached'[n].from = config[n]
    BY <1>1 DEF GotKept
  <2>2. q # p /\ call[<<q, n>>].got
    BY <2>1, <1>7, Fields
  <2>3. call[<<q, n>>].at = "done"
    BY <2>2 DEF CallsOK, IInv
  <2>4. Active(q) /\ proc[q].config[n] # Off
    BY <2>3 DEF CallsOK, IInv, Active
  <2>5. config[n] # Off
    BY <2>1, <2>4 DEF OneCopy, IInv
  <2> QED
    BY <2>1, <2>2, <2>5, <1>10 DEF GotKept, IInv
<1>j. ToldRoutes'
  <2>1. ASSUME changes = 0, NEW q \in Processes, q # p, Ahead(q) PROVE Ahead(q)'
    <3>1. PICK j \in DOMAIN Names : /\ j >= proc[q].i /\ config[Names[j]] # Off
                                    /\ Has(Names[j], config[Names[j]])
      BY <2>1 DEF Ahead
    <3>2. Names[j] \in Endpoints
      BY Basics
    <3>3. cached'[Names[j]] = cached[Names[j]]
      BY <2>1, <3>1, <3>2, <1>10
    <3>4. Has(Names[j], config[Names[j]])'
      BY <3>1, <3>3, <1>1 DEF Has
    <3> QED
      BY <2>1, <3>1, <3>4, <1>1, <1>2 DEF Ahead
  <2>2. ASSUME changes = 0, NEW q \in Processes, q # p
        PROVE  /\ proc'[q].at = "look again" /\ proc'[q].told => Ahead(q)'
               /\ proc'[q].at \in {"idle", "look"} => ~proc'[q].told
    BY <2>1, <2>2, <1>2 DEF ToldRoutes, IInv
  <2> QED
    BY <2>2, <1>1, <1>2, Fields DEF ToldRoutes
<1>k. FetchesFirstOnly'
  <2>1. SUFFICES ASSUME NEW q \in Askers, NEW n \in Endpoints, call'[<<q, n>>].at = "fetching",
                        cached'[n].leader = q
                 PROVE  cached'[n].from = Off /\ ~cached'[n].failed
    BY DEF FetchesFirstOnly
  <2>2. call[<<q, n>>].at = "fetching" /\ cached'[n] = cached[n]
    BY <2>1, <1>5, <1>7, <1>8, Basics
  <2> QED
    BY <2>1, <2>2 DEF FetchesFirstOnly, IInv
<1> QED
  BY <1>a, <1>7, <1>b, <1>c, <1>e, <1>f, <1>g, <1>h, <1>i, <1>j, <1>k DEF IInv

\* A change of the configuration touches no entry and no call.
LEMMA ChangeConfigStep == ASSUME IInv, ChangeConfig PROVE IInv'
<1>1. UNCHANGED <<cached, proc, call>> /\ changes' = changes + 1 /\ config' \in Configs
  BY DEF ChangeConfig
<1>2. changes \in Nat
  BY DEF IInv, TypeOK
<1>3. changes' \in Nat /\ changes' # 0
  BY <1>1, <1>2
<1>a. TypeOK'
  BY <1>1, <1>3, Basics DEF IInv, TypeOK
<1>b. CopyOK' /\ CallsOK' /\ WalkOK'
  <2>1. CopyOK'
    BY <1>1 DEF IInv, CopyOK, Active
  <2>2. CallsOK'
    BY <1>1 DEF IInv, CallsOK
  <2>3. WalkOK'
    BY <1>1 DEF IInv, WalkOK
  <2> QED
    BY <2>1, <2>2, <2>3
<1>e. LeaderOK' /\ FromOwn' /\ CalledOK'
  BY <1>1 DEF IInv, LeaderOK, FromOwn, CalledOK
<1>c. OneCopy' /\ OneSource' /\ OneFetch' /\ GotKept' /\ ToldRoutes' /\ WaitedThenRouted'
  BY <1>3 DEF OneCopy, OneSource, OneFetch, GotKept, ToldRoutes, WaitedThenRouted
<1>d. RoutedByOwnSource' /\ FetchesFirstOnly' /\ NobodyWaitsInVain'
  BY <1>1 DEF IInv, RoutedByOwnSource, FetchesFirstOnly, NobodyWaitsInVain
<1> QED
  BY <1>a, <1>b, <1>c, <1>d, <1>e DEF IInv

\* What time does to an entry: it ages.
Aged(e, f) ==
  /\ f \in Entry /\ f.source = e.source /\ f.from = e.from /\ f.leader = e.leader
  /\ f.failed <=> e.failed

\* An entry that ages keeps its source, its models and its fetch.
LEMMA AgedFields ==
  ASSUME NEW e \in Entry, NEW f,
         f = [e EXCEPT !.recent = FALSE] \/ f = [e EXCEPT !.fresh = FALSE]
  PROVE  Aged(e, f)
<1>1. f \in Entry
  BY DEF Entry
<1>2. f.source = e.source /\ f.from = e.from /\ f.leader = e.leader
  BY DEF Entry
<1>3. f.failed <=> e.failed
  BY DEF Entry
<1> QED
  BY <1>1, <1>2, <1>3, Zenon DEF Aged

\* Time passes for entries nobody fetches for.
LEMMA TimePassesStep == ASSUME IInv, TimePasses PROVE IInv'
<1>1. UNCHANGED <<config, changes, proc, call>> /\ \A c \in DOMAIN call : call[c].at # "called"
  BY DEF TimePasses
<1>2. \A p \in Processes, n \in Endpoints : call[<<p, n>>].at # "called"
  BY <1>1 DEF IInv, TypeOK, Calls
<1>3. PICK n \in Endpoints :
        /\ cached[n].leader = Off
        /\ \/ cached' = [cached EXCEPT ![n].recent = FALSE]
           \/ cached' = [cached EXCEPT ![n].fresh = FALSE]
  BY DEF TimePasses
<1>4. \A m \in Endpoints : m # n => cached'[m] = cached[m]
  BY <1>3 DEF IInv, TypeOK
<1>5. cached[n] \in Entry
  BY DEF IInv, TypeOK
<1>6. cached'[n] = [cached[n] EXCEPT !.recent = FALSE] \/ cached'[n] = [cached[n] EXCEPT !.fresh = FALSE]
  BY <1>3 DEF IInv, TypeOK
<1>7. Aged(cached[n], cached'[n])
  BY <1>5, <1>6, AgedFields, Zenon
<1>8. /\ cached'[n] \in Entry /\ cached'[n].source = cached[n].source
      /\ cached'[n].from = cached[n].from /\ cached'[n].leader = cached[n].leader
      /\ cached'[n].failed <=> cached[n].failed
  BY <1>7, Zenon DEF Aged
<1>9. \A m \in Endpoints :
        /\ cached'[m].source = cached[m].source /\ cached'[m].from = cached[m].from
        /\ cached'[m].leader = cached[m].leader
  BY <1>4, <1>8
<1>10. \A m \in Endpoints : cached'[m].failed <=> cached[m].failed
  BY <1>4, <1>8
<1>11. \A m \in Endpoints : cached[m].leader # Off => cached'[m] = cached[m]
  BY <1>3, <1>4
<1>a. TypeOK'
  <2>1. cached' \in [Endpoints -> Entry]
    BY <1>3, <1>8 DEF IInv, TypeOK
  <2> QED
    BY <2>1, <1>1 DEF IInv, TypeOK
<1>b. CopyOK' /\ CallsOK' /\ WalkOK' /\ OneCopy'
  <2>1. CopyOK' /\ OneCopy'
    BY <1>1 DEF IInv, CopyOK, Active, OneCopy
  <2>2. CallsOK'
    BY <1>1 DEF IInv, CallsOK
  <2>3. WalkOK'
    BY <1>1 DEF IInv, WalkOK
  <2> QED
    BY <2>1, <2>2, <2>3
<1>c. LeaderOK'
  BY <1>1, <1>9, <1>11 DEF IInv, LeaderOK
<1>d. FromOwn' /\ OneSource' /\ OneFetch' /\ GotKept'
  BY <1>1, <1>9 DEF IInv, FromOwn, OneSource, OneFetch, GotKept
<1>e. CalledOK'
  BY <1>1, <1>2 DEF CalledOK, Processes
<1>f. ToldRoutes'
  BY <1>1, <1>9, Basics DEF IInv, ToldRoutes, Ahead, Has
<1>g. RoutedByOwnSource' /\ WaitedThenRouted' /\ NobodyWaitsInVain'
  BY <1>1 DEF IInv, RoutedByOwnSource, WaitedThenRouted, NobodyWaitsInVain
<1>h. FetchesFirstOnly'
  BY <1>1, <1>9, <1>10 DEF IInv, FetchesFirstOnly
<1> QED
  BY <1>a, <1>b, <1>c, <1>d, <1>e, <1>f, <1>g, <1>h DEF IInv

\* Every step keeps the invariant.
LEMMA CatalogStep == ASSUME IInv, CatalogNext PROVE IInv'
<1>1. ASSUME NEW p \in Askers, Ask(p) PROVE IInv'
  BY <1>1, AskStep
<1>2. ASSUME NEW p \in Processes, Look(p) PROVE IInv'
  BY <1>2, LookStep
<1>3. ASSUME NEW p \in Processes, Warm(p) PROVE IInv'
  BY <1>3, WarmStep
<1>4. ASSUME NEW p \in Processes, Join(p) PROVE IInv'
  <2>1. p \in Askers
    BY <1>4 DEF Join
  <2> QED
    BY <2>1, <1>4, JoinStep
<1>5. ASSUME NEW p \in Processes, Drop(p) PROVE IInv'
  BY <1>5, DropStep
<1>6. ASSUME NEW p \in Processes, Gone(p) PROVE IInv'
  BY <1>6, GoneStep
<1>7. ASSUME NEW p \in Processes, Refresh(p) PROVE IInv'
  BY <1>7, RefreshStep
<1>8. ASSUME NEW p \in Processes, NEW n \in Endpoints, Enter(p, n) PROVE IInv'
  BY <1>8, EnterStep
<1>9. ASSUME NEW p \in Processes, NEW n \in Endpoints, FetchEnds(p, n) PROVE IInv'
  BY <1>9, FetchEndsStep
<1>10. CASE ChangeConfig
  BY <1>10, ChangeConfigStep
<1>11. CASE TimePasses
  BY <1>11, TimePassesStep
<1> QED
  BY <1>1, <1>2, <1>3, <1>4, <1>5, <1>6, <1>7, <1>8, <1>9, <1>10, <1>11
  DEF CatalogNext, ProcessStep, CallStep

\* A step that changes nothing keeps the invariant.
LEMMA CatalogStutter == ASSUME IInv, UNCHANGED catalogVars PROVE IInv'
<1>1. UNCHANGED <<config, changes, cached, proc, call>>
  BY DEF catalogVars
<1>a. TypeOK' /\ CopyOK' /\ CallsOK' /\ WalkOK'
  <2>1. TypeOK'
    BY <1>1 DEF IInv, TypeOK
  <2>2. CopyOK'
    BY <1>1 DEF IInv, CopyOK, Active
  <2>3. CallsOK'
    BY <1>1 DEF IInv, CallsOK
  <2>4. WalkOK'
    BY <1>1 DEF IInv, WalkOK
  <2> QED
    BY <2>1, <2>2, <2>3, <2>4
<1>d. LeaderOK' /\ FromOwn' /\ CalledOK'
  BY <1>1 DEF IInv, LeaderOK, FromOwn, CalledOK
<1>b. OneCopy' /\ OneSource' /\ OneFetch' /\ GotKept' /\ ToldRoutes'
  BY <1>1 DEF IInv, OneCopy, Active, OneSource, OneFetch, GotKept, ToldRoutes, Ahead, Has
<1>c. RoutedByOwnSource' /\ FetchesFirstOnly' /\ NobodyWaitsInVain' /\ WaitedThenRouted'
  BY <1>1 DEF IInv, RoutedByOwnSource, FetchesFirstOnly, NobodyWaitsInVain, WaitedThenRouted
<1> QED
  BY <1>a, <1>b, <1>c, <1>d DEF IInv

\* The invariant holds throughout.
LEMMA Invariance == CatalogSpec => []IInv
<1>1. IInv /\ [CatalogNext]_catalogVars => IInv'
  BY CatalogStep, CatalogStutter
<1> QED
  BY <1>1, InitIInv, PTL DEF CatalogSpec

\* A request is routed only to a source that listed the model, whatever fetches of
\* sources that were replaced are still under way.
THEOREM RoutesByOwnSource == CatalogSpec => []RoutedByOwnSource
<1>1. IInv => RoutedByOwnSource
  BY DEF IInv
<1> QED
  BY <1>1, Invariance, PTL

\* A request that waited for a fetch which listed the model is routed, as long as
\* nobody changes the configuration.
THEOREM RoutesWhatItWaitedFor == CatalogSpec => []WaitedThenRouted
<1>1. IInv => WaitedThenRouted
  BY DEF IInv
<1> QED
  BY <1>1, Invariance, PTL

\* Requests fetch only what nobody has tried to fetch yet.
THEOREM RequestsFetchFirstOnly == CatalogSpec => []FetchesFirstOnly
<1>1. IInv => FetchesFirstOnly
  BY DEF IInv
<1> QED
  BY <1>1, Invariance, PTL

\* Who waits for a fetch waits for one that is under way, also when its entry was
\* replaced or dropped meanwhile.
THEOREM WaitersAreWoken == CatalogSpec => []NobodyWaitsInVain
<1>1. IInv => NobodyWaitsInVain
  BY DEF IInv
<1> QED
  BY <1>1, Invariance, PTL

-----------------------------------------------------------------------------
(* The log streams of the panel *)

Increasing(s) == \A i, j \in DOMAIN s : i < j => s[i] < s[j]

Sent(r) == ToSet(reader[r].sent)
ToReplay(r) == ToSet(reader[r].replay)
Queued(r) == ToSet(reader[r].chan)

States == {"away", "subscribed", "replaying", "live", "gone"}
Reader == [at : States, history : BOOLEAN, chan : Seq(Nat), replay : Seq(Nat), sent : Seq(Nat)]

LogTypeOK ==
  /\ seq \in Nat
  /\ ring \in Seq(Nat)
  /\ reader \in [Readers -> Reader]
  /\ since \in [Readers -> Nat]
  /\ missed \in [Readers -> SUBSET Nat]

\* The ring holds the newest entries, oldest first.
RingOK ==
  /\ seq > 0 => ring # <<>>
  /\ \A i \in DOMAIN ring : ring[i] = seq - Len(ring) + i

\* What a stream has: its channel and what it replays are in order, what it has
\* written is older than what it replays.
StartOK(r) ==
  /\ reader[r].at \in {"away", "subscribed"} => reader[r].sent = <<>> /\ reader[r].replay = <<>>
  /\ reader[r].at = "live" => reader[r].replay = <<>>
OrderOK(r) ==
  /\ Increasing(reader[r].sent) /\ Increasing(reader[r].replay) /\ Increasing(reader[r].chan)
  /\ \A m \in Sent(r) : \A n \in ToReplay(r) : m < n
  /\ \A m \in Sent(r) \cup ToReplay(r) \cup Queued(r) : m <= seq

\* What it has written and is about to replay has no hole of its own making, and
\* every entry it was promised is written, to be replayed, queued or refused.
DenseOK(r) ==
  \A m \in Sent(r) \cup ToReplay(r) : \A n \in Nat :
    since[r] <= n /\ n <= m => n \in Sent(r) \cup ToReplay(r) \cup missed[r]
PromiseOK(r) ==
  Subscribed(r) =>
    \A n \in Nat : since[r] <= n /\ n <= seq =>
      n \in Sent(r) \cup ToReplay(r) \cup Queued(r) \cup missed[r]

ReaderOK(r) == StartOK(r) /\ OrderOK(r) /\ DenseOK(r) /\ PromiseOK(r)
LogInv == RingOK /\ \A r \in Readers : ReaderOK(r)

-----------------------------------------------------------------------------
(* Sequences in order *)

LEMMA SetOfAppend ==
  ASSUME NEW s \in Seq(Nat), NEW e \in Nat
  PROVE  ToSet(Append(s, e)) = ToSet(s) \cup {e}
<1> DEFINE t == Append(s, e)
<1>1. /\ Len(s) \in Nat /\ DOMAIN s = 1 .. Len(s) /\ DOMAIN t = 1 .. Len(s) + 1
      /\ t[Len(s) + 1] = e /\ \A i \in 1 .. Len(s) : t[i] = s[i]
      OBVIOUS
<1> HIDE DEF t
<1>2. ToSet(s) \cup {e} \subseteq ToSet(t)
  <2>1. Len(s) + 1 \in DOMAIN t /\ DOMAIN s \subseteq DOMAIN t BY <1>1
  <2>2. e \in ToSet(t) BY <1>1, <2>1 DEF ToSet
  <2>3. ToSet(s) \subseteq ToSet(t) BY <1>1, <2>1 DEF ToSet
  <2> QED BY <2>2, <2>3
<1>3. ToSet(t) \subseteq ToSet(s) \cup {e}
  <2>1. \A i \in DOMAIN t : i \in DOMAIN s \/ i = Len(s) + 1 BY <1>1
  <2> QED BY <1>1, <2>1 DEF ToSet
<1> QED BY <1>2, <1>3 DEF t

LEMMA SetOfHeadTail ==
  ASSUME NEW s \in Seq(Nat), s # <<>>
  PROVE  /\ Head(s) \in Nat /\ Tail(s) \in Seq(Nat) /\ Head(s) \in ToSet(s)
         /\ ToSet(s) = {Head(s)} \cup ToSet(Tail(s))
<1>1. Head(s) = s[1] /\ Len(s) \in Nat \ {0} /\ DOMAIN s = 1 .. Len(s) OBVIOUS
<1>2. DOMAIN Tail(s) = 1 .. Len(s) - 1 /\ \A i \in 1 .. Len(s) - 1 : Tail(s)[i] = s[i + 1]
      OBVIOUS
<1>3. ToSet(Tail(s)) = {s[i + 1] : i \in 1 .. Len(s) - 1} BY <1>2 DEF ToSet
<1>4. ToSet(s) \subseteq {Head(s)} \cup ToSet(Tail(s))
  <2> SUFFICES ASSUME NEW i \in 1 .. Len(s) PROVE s[i] = Head(s) \/ s[i] \in ToSet(Tail(s))
      BY <1>1 DEF ToSet
  <2>1. CASE i = 1 BY <1>1, <2>1
  <2>2. CASE i # 1
    <3>1. i - 1 \in 1 .. Len(s) - 1 /\ s[i] = s[(i - 1) + 1] BY <1>1, <2>2
    <3> QED BY <1>3, <3>1
  <2> QED BY <2>1, <2>2
<1>5. {Head(s)} \cup ToSet(Tail(s)) \subseteq ToSet(s) BY <1>1, <1>3 DEF ToSet
<1> QED BY <1>1, <1>4, <1>5

\* An entry newer than all of them keeps the order.
LEMMA IncreasingAppend ==
  ASSUME NEW s \in Seq(Nat), NEW e \in Nat, Increasing(s), \A m \in ToSet(s) : m < e
  PROVE  Increasing(Append(s, e))
<1>1. Len(Append(s, e)) = Len(s) + 1 /\ Append(s, e)[Len(s) + 1] = e
      /\ \A i \in 1 .. Len(s) : Append(s, e)[i] = s[i]
      OBVIOUS
<1>2. \A i \in 1 .. Len(s) : s[i] < e BY DEF ToSet
<1>3. \A i, j \in 1 .. Len(s) : i < j => s[i] < s[j] BY DEF Increasing
<1>4. DOMAIN Append(s, e) = 1 .. Len(s) + 1 /\ Len(s) \in Nat BY <1>1
<1> QED BY <1>1, <1>2, <1>3, <1>4 DEF Increasing

\* The oldest one goes.
LEMMA IncreasingTail ==
  ASSUME NEW s \in Seq(Nat), s # <<>>, Increasing(s)
  PROVE  Increasing(Tail(s)) /\ \A m \in ToSet(Tail(s)) : Head(s) < m
<1>1. Head(s) = s[1] /\ Len(s) \in Nat \ {0} /\ DOMAIN s = 1 .. Len(s)
      /\ DOMAIN Tail(s) = 1 .. Len(s) - 1
      OBVIOUS
<1>2. \A i \in 1 .. Len(s) - 1 : Tail(s)[i] = s[i + 1] OBVIOUS
<1>3. \A i, j \in 1 .. Len(s) : i < j => s[i] < s[j] BY <1>1 DEF Increasing
<1>4. \A i, j \in 1 .. Len(s) - 1 : i < j => s[i + 1] < s[j + 1] BY <1>1, <1>3
<1>5. \A i \in 1 .. Len(s) - 1 : s[1] < s[i + 1] BY <1>1, <1>3
<1> QED BY <1>1, <1>2, <1>4, <1>5 DEF Increasing, ToSet

\* The last one is the newest.
LEMMA LastIsNewest ==
  ASSUME NEW s \in Seq(Nat), s # <<>>, Increasing(s)
  PROVE  Last(s) \in ToSet(s) /\ \A m \in ToSet(s) : m <= Last(s)
<1>1. Len(s) \in Nat \ {0} /\ DOMAIN s = 1 .. Len(s) /\ \A i \in 1 .. Len(s) : s[i] \in Nat
      OBVIOUS
<1>2. \A i \in 1 .. Len(s) : s[i] <= s[Len(s)] BY <1>1 DEF Increasing
<1> QED BY <1>1, <1>2 DEF Last, ToSet

\* What emit makes of what is written: an entry that is not newer is skipped.
LEMMA WrittenFacts ==
  ASSUME NEW s \in Seq(Nat), NEW e \in Nat, Increasing(s)
  PROVE  /\ Written(s, e) \in Seq(Nat) /\ Increasing(Written(s, e))
         /\ \/ /\ \E m \in ToSet(s) : e <= m
               /\ ToSet(Written(s, e)) = ToSet(s)
            \/ /\ \A m \in ToSet(s) : m < e
               /\ ToSet(Written(s, e)) = ToSet(s) \cup {e}
<1>1. CASE s = <<>>
  <2>1. Written(s, e) = Append(s, e) BY <1>1 DEF Written
  <2>2. \A m \in ToSet(s) : m < e BY <1>1 DEF ToSet
  <2> QED BY <2>1, <2>2, SetOfAppend, IncreasingAppend
<1>2. CASE s # <<>>
  <2>1. Last(s) \in ToSet(s) /\ \A m \in ToSet(s) : m <= Last(s) BY <1>2, LastIsNewest
  <2>2. ToSet(s) \subseteq Nat BY DEF ToSet
  <2>3. CASE e <= Last(s)
    <3>1. Written(s, e) = s BY <1>2, <2>3 DEF Written
    <3> QED BY <2>1, <2>3, <3>1
  <2>4. CASE ~(e <= Last(s))
    <3>1. Written(s, e) = Append(s, e) BY <2>4 DEF Written
    <3>2. \A m \in ToSet(s) : m < e BY <2>1, <2>2, <2>4
    <3> QED BY <3>1, <3>2, SetOfAppend, IncreasingAppend
  <2> QED BY <2>3, <2>4
<1> QED BY <1>1, <1>2

LEMMA SetOfEmpty == ToSet(<<>>) = {} /\ Increasing(<<>>)
BY DEF ToSet, Increasing

-----------------------------------------------------------------------------
(* One stream *)

\* The sets of a stream are sets of numbers.
LEMMA SetTypes ==
  ASSUME LogTypeOK, NEW r \in Readers
  PROVE  /\ Sent(r) \subseteq Nat /\ ToReplay(r) \subseteq Nat /\ Queued(r) \subseteq Nat
         /\ missed[r] \subseteq Nat /\ since[r] \in Nat
         /\ reader[r].sent \in Seq(Nat) /\ reader[r].replay \in Seq(Nat)
         /\ reader[r].chan \in Seq(Nat) /\ reader[r].history \in BOOLEAN
         /\ reader[r].at \in States
<1>1. /\ reader[r].sent \in Seq(Nat) /\ reader[r].replay \in Seq(Nat)
      /\ reader[r].chan \in Seq(Nat) /\ reader[r].history \in BOOLEAN
      /\ reader[r].at \in States
      BY DEF LogTypeOK, Reader
<1>2. \A s \in Seq(Nat) : ToSet(s) \subseteq Nat BY DEF ToSet
<1> QED BY <1>1, <1>2 DEF LogTypeOK, Sent, ToReplay, Queued

\* A stream nothing happens to.
LEMMA ReaderStays ==
  ASSUME NEW r \in Readers, ReaderOK(r), reader'[r] = reader[r], since'[r] = since[r],
         missed'[r] = missed[r], seq' = seq
  PROVE  ReaderOK(r)'
BY DEF ReaderOK, StartOK, OrderOK, DenseOK, PromiseOK, Sent, ToReplay, Queued, Subscribed

LEMMA LogInitInv ==
  ASSUME LogInit PROVE LogTypeOK /\ LogInv
<1>1. /\ seq = 0 /\ ring = <<>> /\ \A r \in Readers : since[r] = 0 /\ missed[r] = {}
      /\ \A r \in Readers : reader[r] = Away
      BY DEF LogInit
<1>2. /\ Away.at = "away" /\ Away.chan = <<>> /\ Away.replay = <<>> /\ Away.sent = <<>>
      BY DEF Away
<1>3. LogTypeOK BY DEF LogInit, LogTypeOK, Away, Reader, States
<1>4. RingOK BY <1>1 DEF RingOK
<1>5. ASSUME NEW r \in Readers PROVE ReaderOK(r)
      BY <1>1, <1>2, SetOfEmpty
      DEF ReaderOK, StartOK, OrderOK, DenseOK, PromiseOK, Sent, ToReplay, Queued, Subscribed
<1> QED BY <1>3, <1>4, <1>5 DEF LogInv

\* A stream whose handler, channel or page moves on.
LEMMA ReaderWith ==
  ASSUME NEW x \in Reader, NEW a \in States, NEW h \in BOOLEAN,
         NEW c \in Seq(Nat), NEW w \in Seq(Nat)
  PROVE  /\ [x EXCEPT !.chan = c] \in Reader
         /\ [x EXCEPT !.at = a] \in Reader
         /\ [x EXCEPT !.at = a, !.history = h] \in Reader
         /\ [x EXCEPT !.at = a, !.replay = c] \in Reader
         /\ [x EXCEPT !.at = a, !.chan = c] \in Reader
         /\ [x EXCEPT !.sent = w, !.replay = c] \in Reader
         /\ [x EXCEPT !.sent = w, !.chan = c] \in Reader
BY DEF Reader

\* Every step keeps the types.
LEMMA LogTypeStep ==
  ASSUME LogTypeOK, [LogNext]_logVars PROVE LogTypeOK'
<1>0. seq \in Nat /\ ring \in Seq(Nat) BY DEF LogTypeOK
<1>1. ASSUME Add PROVE LogTypeOK'
  <2>1. seq' \in Nat /\ seq' = seq + 1 BY <1>0, <1>1 DEF Add
  <2>2. ring' \in Seq(Nat)
    <3>1. CASE Len(ring) < Capacity BY <1>0, <1>1, <2>1, <3>1 DEF Add
    <3>2. CASE ~(Len(ring) < Capacity)
      <4>1. ring # <<>>
            BY <1>0, <3>2, LogStreamAssumption DEF LogStreamAssumption
      <4>2. Tail(ring) \in Seq(Nat) BY <1>0, <4>1, SetOfHeadTail
      <4>3. ring' = Append(Tail(ring), seq') BY <1>1, <3>2 DEF Add
      <4> QED BY <2>1, <4>2, <4>3
    <3> QED BY <3>1, <3>2
  <2>3. since' \in [Readers -> Nat] BY <1>1 DEF Add, LogTypeOK
  <2>4. missed' \in [Readers -> SUBSET Nat] BY <1>1, <2>1 DEF Add, LogTypeOK
  <2>5. ASSUME NEW r \in Readers
        PROVE  reader[r] \in Reader
               /\ [reader[r] EXCEPT !.chan = Append(reader[r].chan, seq')] \in Reader
    <3>1. reader[r] \in Reader BY DEF LogTypeOK
    <3>2. reader[r].chan \in Seq(Nat) BY SetTypes
    <3>3. Append(reader[r].chan, seq') \in Seq(Nat) BY <2>1, <3>2
    <3>4. "away" \in States BY DEF States
    <3> QED BY <3>1, <3>3, <3>4, ReaderWith
  <2>6. reader' = [r \in Readers |->
           IF Subscribed(r) /\ Len(reader[r].chan) < BufSize
           THEN [reader[r] EXCEPT !.chan = Append(reader[r].chan, seq')] ELSE reader[r]]
        BY <1>1 DEF Add
  <2>7. reader' \in [Readers -> Reader] BY <2>5, <2>6
  <2> QED BY <2>1, <2>2, <2>3, <2>4, <2>7 DEF LogTypeOK
<1>2. ASSUME NEW r \in Readers, NEW x \in Reader, reader' = [reader EXCEPT ![r] = x],
             UNCHANGED <<seq, ring, missed>>, since' \in [Readers -> Nat]
      PROVE  LogTypeOK'
      BY <1>2 DEF LogTypeOK
<1>3. ASSUME NEW r \in Readers, Subscribe(r) PROVE LogTypeOK'
  <2>1. PICK h \in BOOLEAN :
          reader' = [reader EXCEPT ![r] = [reader[r] EXCEPT !.at = "subscribed", !.history = h]]
        BY <1>3 DEF Subscribe, LogTypeOK
  <2>2. [reader[r] EXCEPT !.at = "subscribed", !.history = h] \in Reader
        BY ReaderWith DEF LogTypeOK, States
  <2>3. since' \in [Readers -> Nat] BY <1>0, <1>3 DEF Subscribe, LogTypeOK
  <2>4. UNCHANGED <<seq, ring, missed>> BY <1>3 DEF Subscribe
  <2> QED BY <1>2, <2>1, <2>2, <2>3, <2>4
<1>4. ASSUME NEW r \in Readers, ReadHistory(r) PROVE LogTypeOK'
  <2>1. ring # <<>> => Head(ring) \in Nat BY <1>0, SetOfHeadTail
  <2>2. since' \in [Readers -> Nat] BY <1>4, <2>1 DEF ReadHistory, LogTypeOK
  <2>3. UNCHANGED <<seq, ring, missed>> BY <1>4 DEF ReadHistory
  <2>4. \/ reader' = [reader EXCEPT
                        ![r] = [reader[r] EXCEPT !.at = "replaying", !.replay = ring]]
        \/ reader' = [reader EXCEPT ![r] = [reader[r] EXCEPT !.at = "live"]]
        BY <1>4 DEF ReadHistory, LogTypeOK
  <2>5. /\ [reader[r] EXCEPT !.at = "replaying", !.replay = ring] \in Reader
        /\ [reader[r] EXCEPT !.at = "live"] \in Reader
        BY <1>0, ReaderWith DEF LogTypeOK, States
  <2> QED BY <1>2, <2>2, <2>3, <2>4, <2>5
<1>5. ASSUME NEW r \in Readers, NEW t \in Seq(Nat), t # <<>>
      PROVE  Written(reader[r].sent, Head(t)) \in Seq(Nat) /\ Tail(t) \in Seq(Nat)
      BY <1>5, SetTypes, SetOfHeadTail DEF Written
<1>6. ASSUME NEW r \in Readers, Replay(r) PROVE LogTypeOK'
  <2>1. UNCHANGED <<seq, ring, since, missed>> /\ reader[r].replay # <<>>
        BY <1>6 DEF Replay
  <2> DEFINE w == Written(reader[r].sent, Head(reader[r].replay))
             t == Tail(reader[r].replay)
  <2>2. reader' = [reader EXCEPT ![r] = [reader[r] EXCEPT !.sent = w, !.replay = t]]
        BY <1>6 DEF Replay, LogTypeOK
  <2>3. w \in Seq(Nat) /\ t \in Seq(Nat) BY <1>5, <2>1, SetTypes
  <2> HIDE DEF w, t
  <2>4. [reader[r] EXCEPT !.sent = w, !.replay = t] \in Reader
        BY <2>3, ReaderWith DEF LogTypeOK, States
  <2>5. since' \in [Readers -> Nat] BY <2>1 DEF LogTypeOK
  <2> QED BY <1>2, <2>1, <2>2, <2>4, <2>5
<1>7. ASSUME NEW r \in Readers, Receive(r) PROVE LogTypeOK'
  <2>1. UNCHANGED <<seq, ring, since, missed>> /\ reader[r].chan # <<>>
        BY <1>7 DEF Receive
  <2> DEFINE w == Written(reader[r].sent, Head(reader[r].chan))
             t == Tail(reader[r].chan)
  <2>2. reader' = [reader EXCEPT ![r] = [reader[r] EXCEPT !.sent = w, !.chan = t]]
        BY <1>7 DEF Receive, LogTypeOK
  <2>3. w \in Seq(Nat) /\ t \in Seq(Nat) BY <1>5, <2>1, SetTypes
  <2> HIDE DEF w, t
  <2>4. [reader[r] EXCEPT !.sent = w, !.chan = t] \in Reader
        BY <2>3, ReaderWith DEF LogTypeOK, States
  <2>5. since' \in [Readers -> Nat] BY <2>1 DEF LogTypeOK
  <2> QED BY <1>2, <2>1, <2>2, <2>4, <2>5
<1>8. ASSUME NEW r \in Readers, GoLive(r) \/ Leave(r) PROVE LogTypeOK'
  <2>1. UNCHANGED <<seq, ring, since, missed>> BY <1>8 DEF GoLive, Leave
  <2>2. \/ reader' = [reader EXCEPT ![r] = [reader[r] EXCEPT !.at = "live"]]
        \/ reader' = [reader EXCEPT ![r] = [reader[r] EXCEPT !.at = "gone", !.chan = <<>>]]
        BY <1>8 DEF GoLive, Leave, LogTypeOK
  <2>3. /\ [reader[r] EXCEPT !.at = "live"] \in Reader
        /\ [reader[r] EXCEPT !.at = "gone", !.chan = <<>>] \in Reader
    <3>1. <<>> \in Seq(Nat) OBVIOUS
    <3> QED BY <3>1, ReaderWith DEF LogTypeOK, States
  <2>4. since' \in [Readers -> Nat] BY <2>1 DEF LogTypeOK
  <2> QED BY <1>2, <2>1, <2>2, <2>3, <2>4
<1>9. CASE UNCHANGED logVars BY <1>9 DEF logVars, LogTypeOK
<1> QED BY <1>1, <1>3, <1>4, <1>6, <1>7, <1>8, <1>9 DEF LogNext, LogStep

\* The ring keeps the newest entries.
LEMMA RingStep ==
  ASSUME LogTypeOK, RingOK, [LogNext]_logVars PROVE RingOK'
<1>1. CASE UNCHANGED <<seq, ring>> BY <1>1 DEF RingOK
<1>2. ASSUME Add PROVE RingOK'
  <2> DEFINE kept == IF Len(ring) < Capacity THEN ring ELSE Tail(ring)
             n == Len(kept)
  <2>1. seq' = seq + 1 /\ ring' = Append(kept, seq') BY <1>2 DEF Add
  <2>2. /\ kept \in Seq(Nat) /\ n \in Nat /\ DOMAIN kept = 1 .. n
        /\ \A i \in 1 .. n : kept[i] = seq - n + i
    <3>1. \A i \in 1 .. Len(ring) : ring[i] = seq - Len(ring) + i /\ Len(ring) \in Nat
          BY DEF RingOK, LogTypeOK
    <3>2. CASE Len(ring) < Capacity BY <3>1, <3>2 DEF LogTypeOK
    <3>3. CASE ~(Len(ring) < Capacity)
      <4>1. Len(ring) > 0 /\ Len(ring) \in Nat
            BY <3>3, LogStreamAssumption DEF LogStreamAssumption, LogTypeOK
      <4>2. /\ Tail(ring) \in Seq(Nat) /\ Len(Tail(ring)) = Len(ring) - 1
            /\ DOMAIN Tail(ring) = 1 .. Len(ring) - 1
            /\ \A i \in 1 .. Len(ring) - 1 : Tail(ring)[i] = ring[i + 1]
            BY <4>1 DEF LogTypeOK
      <4>3. seq \in Nat BY DEF LogTypeOK
      <4>4. \A i \in 1 .. Len(ring) - 1 : Tail(ring)[i] = seq - Len(ring) + (i + 1)
            BY <3>1, <4>1, <4>2
      <4>5. kept = Tail(ring) /\ n = Len(ring) - 1 BY <3>3, <4>2
      <4>7. kept \in Seq(Nat) /\ DOMAIN kept = 1 .. n BY <4>2, <4>5, Zenon
      <4> HIDE DEF kept, n
      <4>6. \A i \in 1 .. n : kept[i] = seq - n + i BY <4>1, <4>3, <4>4, <4>5
      <4> QED BY <4>1, <4>5, <4>6, <4>7
    <3> QED BY <3>2, <3>3
  <2> HIDE DEF kept, n
  <2>3. /\ DOMAIN ring' = 1 .. n + 1 /\ Len(ring') = n + 1 /\ ring'[n + 1] = seq'
        /\ \A i \in 1 .. n : ring'[i] = kept[i]
        BY <2>1, <2>2 DEF n, LogTypeOK
  <2>4. seq \in Nat BY DEF LogTypeOK
  <2>5. ASSUME NEW i \in 1 .. n + 1 PROVE ring'[i] = seq' - Len(ring') + i
    <3>1. CASE i = n + 1 BY <2>1, <2>2, <2>3, <2>4, <3>1
    <3>2. CASE i # n + 1
      <4>1. i \in 1 .. n BY <2>2, <3>2
      <4> QED BY <2>1, <2>2, <2>3, <2>4, <4>1
    <3> QED BY <3>1, <3>2
  <2>6. ring' # <<>> BY <2>2, <2>3
  <2> QED BY <2>3, <2>5, <2>6 DEF RingOK
<1>3. ASSUME NEW r \in Readers, LogStep(r) \/ Leave(r) PROVE UNCHANGED <<seq, ring>>
      BY <1>3 DEF LogStep, Subscribe, ReadHistory, Replay, GoLive, Receive, Leave
<1> QED BY <1>1, <1>2, <1>3 DEF LogNext, logVars

\* The ring is the entries from its oldest one to the last number given.
LEMMA RingSet ==
  ASSUME LogTypeOK, RingOK
  PROVE  /\ Increasing(ring) /\ \A m \in ToSet(ring) : m <= seq
         /\ ring = <<>> => seq = 0
         /\ ring # <<>> => \A n \in Nat : Head(ring) <= n /\ n <= seq => n \in ToSet(ring)
<1>1. seq \in Nat /\ Len(ring) \in Nat /\ DOMAIN ring = 1 .. Len(ring) BY DEF LogTypeOK
<1>2. \A i \in 1 .. Len(ring) : ring[i] = seq - Len(ring) + i BY <1>1 DEF RingOK
<1>3. Increasing(ring) /\ \A m \in ToSet(ring) : m <= seq
      BY <1>1, <1>2 DEF Increasing, ToSet
<1>4. ASSUME ring # <<>>, NEW n \in Nat, Head(ring) <= n, n <= seq PROVE n \in ToSet(ring)
  <2>1. Head(ring) = ring[1] /\ Len(ring) > 0 BY <1>4 DEF LogTypeOK
  <2>2. Head(ring) = seq - Len(ring) + 1 BY <1>1, <1>2, <2>1
  <2>3. n - (seq - Len(ring)) \in 1 .. Len(ring) BY <1>1, <1>4, <2>2
  <2>4. ring[n - (seq - Len(ring))] = n BY <1>1, <1>2, <2>3
  <2> QED BY <1>1, <2>3, <2>4 DEF ToSet
<1> QED BY <1>1, <1>3, <1>4 DEF RingOK

\* An entry is numbered, kept, and queued or refused at every stream.
LEMMA AddKeeps ==
  ASSUME LogTypeOK, LogInv, Add, NEW r \in Readers
  PROVE  ReaderOK(r)'
<1>1. seq \in Nat /\ seq' = seq + 1 /\ since'[r] = since[r] BY DEF Add, LogTypeOK
<1>2. ReaderOK(r) BY DEF LogInv
<1>3. \/ /\ reader'[r] = [reader[r] EXCEPT !.chan = Append(reader[r].chan, seq')]
         /\ missed'[r] = missed[r]
      \/ /\ reader'[r] = reader[r]
         /\ Subscribed(r) => missed'[r] = missed[r] \cup {seq'}
         /\ ~Subscribed(r) => missed'[r] = missed[r]
      BY DEF Add, LogTypeOK
<1>4. /\ reader'[r].at = reader[r].at /\ reader'[r].sent = reader[r].sent
      /\ reader'[r].replay = reader[r].replay
      /\ \/ reader'[r].chan = Append(reader[r].chan, seq') /\ missed'[r] = missed[r]
         \/ /\ reader'[r].chan = reader[r].chan
            /\ Subscribed(r) => missed'[r] = missed[r] \cup {seq'}
            /\ ~Subscribed(r) => missed'[r] = missed[r]
      BY <1>3 DEF LogTypeOK, Reader
<1>5. /\ Sent(r)' = Sent(r) /\ ToReplay(r)' = ToReplay(r)
      /\ Subscribed(r)' <=> Subscribed(r)
      BY <1>4 DEF Sent, ToReplay, Subscribed
<1>0. seq' \in Nat /\ reader[r].chan \in Seq(Nat) BY <1>1, SetTypes
<1>13. ToSet(Append(reader[r].chan, seq')) = Queued(r) \cup {seq'}
       BY <1>0, SetOfAppend DEF Queued
<1>6. \/ Queued(r)' = Queued(r) \cup {seq'}
      \/ /\ Queued(r)' = Queued(r)
         /\ Subscribed(r) => missed'[r] = missed[r] \cup {seq'}
      BY <1>4, <1>13 DEF Queued
<1>7. Increasing(reader'[r].chan)
  <2>1. \A m \in Queued(r) : m < seq' BY <1>1, <1>2, SetTypes DEF ReaderOK, OrderOK
  <2>2. Increasing(reader[r].chan) BY <1>2 DEF ReaderOK, OrderOK
  <2>3. Increasing(Append(reader[r].chan, seq'))
        BY <1>1, <2>1, <2>2, SetTypes, IncreasingAppend DEF Queued
  <2> QED BY <1>4, <2>2, <2>3
<1>8. StartOK(r)' BY <1>2, <1>4 DEF ReaderOK, StartOK
<1>9. OrderOK(r)'
  <2>1. \A m \in Sent(r) \cup ToReplay(r) \cup Queued(r) : m <= seq' /\ seq' <= seq'
        BY <1>1, <1>2, SetTypes DEF ReaderOK, OrderOK
  <2>2. \A m \in (Sent(r) \cup ToReplay(r) \cup Queued(r))' : m <= seq'
        BY <1>1, <1>5, <1>6, <2>1
  <2> QED BY <1>2, <1>4, <1>5, <1>7, <2>2 DEF ReaderOK, OrderOK
<1>10. missed[r] \subseteq missed'[r] BY <1>4
<1>11. DenseOK(r)' BY <1>1, <1>2, <1>5, <1>10 DEF ReaderOK, DenseOK
<1>12. PromiseOK(r)'
  <2> SUFFICES ASSUME Subscribed(r), NEW n \in Nat, since[r] <= n, n <= seq'
               PROVE  n \in (Sent(r) \cup ToReplay(r) \cup Queued(r) \cup missed[r])'
      BY <1>1, <1>5 DEF PromiseOK
  <2>1. CASE n <= seq
    <3>1. n \in Sent(r) \cup ToReplay(r) \cup Queued(r) \cup missed[r]
          BY <1>2, <2>1 DEF ReaderOK, PromiseOK
    <3> QED BY <1>5, <1>6, <1>10, <3>1
  <2>2. CASE ~(n <= seq)
    <3>1. n = seq' BY <1>1, <2>2
    <3>2. seq' \in Queued(r)' \/ seq' \in missed'[r]
          BY <1>6
    <3> QED BY <3>1, <3>2
  <2> QED BY <2>1, <2>2
<1> QED BY <1>8, <1>9, <1>11, <1>12 DEF ReaderOK

\* A stream that subscribes is promised what comes next.
LEMMA SubscribeKeeps ==
  ASSUME LogTypeOK, LogInv, NEW r \in Readers, Subscribe(r)
  PROVE  ReaderOK(r)'
<1>1. ReaderOK(r) BY DEF LogInv
<1>2. seq \in Nat /\ seq' = seq /\ missed' = missed /\ since'[r] = seq + 1 /\ reader[r].at = "away"
      BY DEF Subscribe, LogTypeOK
<1>3. PICK h \in BOOLEAN :
        reader'[r] = [reader[r] EXCEPT !.at = "subscribed", !.history = h]
      BY DEF Subscribe, LogTypeOK
<1>4. /\ reader'[r].at = "subscribed" /\ reader'[r].sent = reader[r].sent
      /\ reader'[r].replay = reader[r].replay /\ reader'[r].chan = reader[r].chan
      BY <1>3 DEF LogTypeOK, Reader
<1>5. Sent(r)' = {} /\ ToReplay(r)' = {} /\ Queued(r)' = Queued(r)
      BY <1>1, <1>2, <1>4, SetOfEmpty DEF ReaderOK, StartOK, Sent, ToReplay, Queued
<1>6. StartOK(r)' /\ OrderOK(r)'
      BY <1>1, <1>2, <1>4, <1>5 DEF ReaderOK, StartOK, OrderOK
<1>7. DenseOK(r)' BY <1>5 DEF DenseOK
<1>8. PromiseOK(r)' BY <1>2 DEF PromiseOK
<1> QED BY <1>6, <1>7, <1>8 DEF ReaderOK

\* The copy of the ring has everything since its oldest entry.
LEMMA ReadHistoryKeeps ==
  ASSUME LogTypeOK, LogInv, NEW r \in Readers, ReadHistory(r)
  PROVE  ReaderOK(r)'
<1>1. ReaderOK(r) /\ RingOK BY DEF LogInv
<1>2. seq \in Nat /\ seq' = seq /\ missed' = missed /\ reader[r].at = "subscribed"
      BY DEF ReadHistory, LogTypeOK
<1>3. CASE reader[r].history
  <2>1. reader'[r] = [reader[r] EXCEPT !.at = "replaying", !.replay = ring]
        BY <1>3 DEF ReadHistory, LogTypeOK
  <2>2. since'[r] = IF ring = <<>> THEN since[r] ELSE Head(ring)
        BY <1>3 DEF ReadHistory, LogTypeOK
  <2>3. /\ reader'[r].at = "replaying" /\ reader'[r].sent = reader[r].sent
        /\ reader'[r].replay = ring /\ reader'[r].chan = reader[r].chan
        BY <2>1 DEF LogTypeOK, Reader
  <2>4. Sent(r)' = {} /\ ToReplay(r)' = ToSet(ring) /\ Queued(r)' = Queued(r) /\ Sent(r) = {}
        /\ ToReplay(r) = {}
        BY <1>1, <1>2, <2>3, SetOfEmpty DEF ReaderOK, StartOK, Sent, ToReplay, Queued
  <2>5. StartOK(r)' BY <2>3 DEF StartOK
  <2>6. OrderOK(r)'
    <3>1. Increasing(ring) /\ \A m \in ToSet(ring) : m <= seq BY <1>1, RingSet
    <3>2. \A m \in Queued(r) : m <= seq BY <1>1 DEF ReaderOK, OrderOK
    <3>3. Increasing(reader[r].chan) /\ Increasing(reader[r].sent)
          BY <1>1 DEF ReaderOK, OrderOK
    <3> QED BY <1>2, <2>3, <2>4, <3>1, <3>2, <3>3 DEF OrderOK
  <2>7. CASE ring = <<>>
    <3>1. ToSet(ring) = {} /\ since'[r] = since[r] BY <2>2, <2>7, SetOfEmpty
    <3>2. DenseOK(r)' BY <2>4, <3>1 DEF DenseOK
    <3>3. PromiseOK(r)'
      <4>1. \A n \in Nat : since[r] <= n /\ n <= seq =>
              n \in Queued(r) \cup missed[r]
            BY <1>1, <1>2, <2>4 DEF ReaderOK, PromiseOK, Subscribed
      <4> QED BY <1>2, <2>4, <3>1, <4>1 DEF PromiseOK
    <3> QED BY <2>5, <2>6, <3>2, <3>3 DEF ReaderOK
  <2>8. CASE ring # <<>>
    <3>1. \A n \in Nat : since'[r] <= n /\ n <= seq => n \in ToSet(ring)
          BY <1>1, <2>2, <2>8, RingSet
    <3>2. \A m \in ToSet(ring) : m <= seq /\ m \in Nat
          BY <1>1, RingSet DEF ToSet, LogTypeOK
    <3>3. since'[r] \in Nat BY <2>2, <2>8, SetOfHeadTail DEF LogTypeOK
    <3>4. DenseOK(r)' BY <1>2, <2>4, <3>1, <3>2, <3>3 DEF DenseOK
    <3>5. PromiseOK(r)' BY <1>2, <2>4, <3>1 DEF PromiseOK
    <3> QED BY <2>5, <2>6, <3>4, <3>5 DEF ReaderOK
  <2> QED BY <2>7, <2>8
<1>4. CASE ~reader[r].history
  <2>1. reader'[r] = [reader[r] EXCEPT !.at = "live"] /\ since'[r] = since[r]
        BY <1>4 DEF ReadHistory, LogTypeOK
  <2>2. /\ reader'[r].at = "live" /\ reader'[r].sent = reader[r].sent
        /\ reader'[r].replay = reader[r].replay /\ reader'[r].chan = reader[r].chan
        BY <2>1 DEF LogTypeOK, Reader
  <2>3. Sent(r)' = Sent(r) /\ ToReplay(r)' = ToReplay(r) /\ Queued(r)' = Queued(r)
        BY <2>2 DEF Sent, ToReplay, Queued
  <2>4. Subscribed(r) BY <1>2 DEF Subscribed
  <2> QED BY <1>1, <1>2, <2>1, <2>2, <2>3, <2>4
          DEF ReaderOK, StartOK, OrderOK, DenseOK, PromiseOK
<1> QED BY <1>3, <1>4

\* What is replayed is newer than what is written.
LEMMA ReplayKeeps ==
  ASSUME LogTypeOK, LogInv, NEW r \in Readers, Replay(r)
  PROVE  ReaderOK(r)'
<1> DEFINE e == Head(reader[r].replay)
           w == Written(reader[r].sent, e)
           t == Tail(reader[r].replay)
<1>1. ReaderOK(r) BY DEF LogInv
<1>2. /\ seq' = seq /\ missed' = missed /\ since' = since
      /\ reader[r].at = "replaying" /\ reader[r].replay # <<>>
      BY DEF Replay
<1>3. reader'[r] = [reader[r] EXCEPT !.sent = w, !.replay = t] BY DEF Replay, LogTypeOK
<1>4. /\ e \in Nat /\ t \in Seq(Nat) /\ e \in ToReplay(r) /\ ToReplay(r) = {e} \cup ToSet(t)
      /\ Increasing(t) /\ \A m \in ToSet(t) : e < m
      BY <1>1, <1>2, SetTypes, SetOfHeadTail, IncreasingTail DEF ToReplay, ReaderOK, OrderOK
<1>5. \A m \in Sent(r) : m < e BY <1>1, <1>4 DEF ReaderOK, OrderOK
<1>6. Increasing(w) /\ ToSet(w) = Sent(r) \cup {e}
  <2>1. Increasing(reader[r].sent) BY <1>1 DEF ReaderOK, OrderOK
  <2>2. ~\E m \in Sent(r) : e <= m BY <1>4, <1>5, SetTypes
  <2> QED BY <1>4, <2>1, <2>2, SetTypes, WrittenFacts DEF Sent
<1> HIDE DEF e, w, t
<1>7. /\ reader'[r].at = "replaying" /\ reader'[r].sent = w /\ reader'[r].replay = t
      /\ reader'[r].chan = reader[r].chan
      BY <1>2, <1>3 DEF LogTypeOK, Reader
<1>8. Sent(r)' = Sent(r) \cup {e} /\ ToReplay(r)' = ToSet(t) /\ Queued(r)' = Queued(r)
      BY <1>6, <1>7 DEF Sent, ToReplay, Queued
<1>9. StartOK(r)' BY <1>7 DEF StartOK
<1>10. OrderOK(r)'
  <2>1. \A m \in Sent(r)' : \A n \in ToReplay(r)' : m < n
        BY <1>1, <1>4, <1>8 DEF ReaderOK, OrderOK
  <2>2. \A m \in (Sent(r) \cup ToReplay(r) \cup Queued(r))' : m <= seq
        BY <1>1, <1>4, <1>8 DEF ReaderOK, OrderOK
  <2>3. Increasing(reader[r].chan) BY <1>1 DEF ReaderOK, OrderOK
  <2> QED BY <1>2, <1>4, <1>6, <1>7, <2>1, <2>2, <2>3 DEF OrderOK
<1>11. (Sent(r) \cup ToReplay(r))' = Sent(r) \cup ToReplay(r) BY <1>4, <1>8
<1>12. Subscribed(r) BY <1>2 DEF Subscribed
<1>13. DenseOK(r)' BY <1>1, <1>2, <1>11 DEF ReaderOK, DenseOK
<1>14. PromiseOK(r)' BY <1>1, <1>2, <1>8, <1>11, <1>12 DEF ReaderOK, PromiseOK
<1> QED BY <1>9, <1>10, <1>13, <1>14 DEF ReaderOK

\* An entry of the channel that is skipped is written; between the last one written
\* and one that is not skipped all are refused.
LEMMA ReceiveKeeps ==
  ASSUME LogTypeOK, LogInv, NEW r \in Readers, Receive(r)
  PROVE  ReaderOK(r)'
<1> DEFINE e == Head(reader[r].chan)
           w == Written(reader[r].sent, e)
           t == Tail(reader[r].chan)
<1>1. ReaderOK(r) BY DEF LogInv
<1>2. /\ seq' = seq /\ missed' = missed /\ since' = since
      /\ reader[r].at = "live" /\ reader[r].chan # <<>>
      BY DEF Receive
<1>3. reader'[r] = [reader[r] EXCEPT !.sent = w, !.chan = t] BY DEF Receive, LogTypeOK
<1>4. /\ e \in Nat /\ t \in Seq(Nat) /\ e \in Queued(r) /\ Queued(r) = {e} \cup ToSet(t)
      /\ Increasing(t) /\ \A m \in ToSet(t) : e < m
      BY <1>1, <1>2, SetTypes, SetOfHeadTail, IncreasingTail DEF Queued, ReaderOK, OrderOK
<1>5. /\ Increasing(w)
      /\ \/ (\E m \in Sent(r) : e <= m) /\ ToSet(w) = Sent(r)
         \/ (\A m \in Sent(r) : m < e) /\ ToSet(w) = Sent(r) \cup {e}
  <2>1. Increasing(reader[r].sent) BY <1>1 DEF ReaderOK, OrderOK
  <2> QED BY <1>4, <2>1, SetTypes, WrittenFacts DEF Sent
<1> HIDE DEF e, w, t
<1>6. /\ reader'[r].at = "live" /\ reader'[r].sent = w /\ reader'[r].chan = t
      /\ reader'[r].replay = reader[r].replay
      BY <1>2, <1>3 DEF LogTypeOK, Reader
<1>7. reader[r].replay = <<>> /\ ToReplay(r) = {} /\ ToReplay(r)' = {}
      BY <1>1, <1>2, <1>6, SetOfEmpty DEF ReaderOK, StartOK, ToReplay
<1>8. Sent(r)' = ToSet(w) /\ Queued(r)' = ToSet(t) BY <1>6 DEF Sent, Queued
<1>9. StartOK(r)' BY <1>6, <1>7 DEF StartOK
<1>10. OrderOK(r)'
  <2>1. \A m \in (Sent(r) \cup ToReplay(r) \cup Queued(r))' : m <= seq
        BY <1>1, <1>4, <1>5, <1>7, <1>8 DEF ReaderOK, OrderOK
  <2> QED BY <1>1, <1>2, <1>4, <1>5, <1>6, <1>7, <1>8, <2>1 DEF ReaderOK, OrderOK
<1>11. Subscribed(r) BY <1>2 DEF Subscribed
<1>12. \A n \in Nat : since[r] <= n /\ n <= seq => n \in Sent(r) \cup Queued(r) \cup missed[r]
       BY <1>1, <1>7, <1>11 DEF ReaderOK, PromiseOK
<1>13. \A m \in Sent(r) : \A n \in Nat : since[r] <= n /\ n <= m => n \in Sent(r) \cup missed[r]
       BY <1>1, <1>7 DEF ReaderOK, DenseOK
<1>14. e <= seq BY <1>1, <1>4 DEF ReaderOK, OrderOK
<1>15. CASE (\E m \in Sent(r) : e <= m) /\ ToSet(w) = Sent(r)
  <2>1. since[r] <= e => e \in Sent(r) \cup missed[r] BY <1>4, <1>13, <1>15
  <2>2. PromiseOK(r)' BY <1>2, <1>4, <1>8, <1>12, <1>15, <2>1 DEF PromiseOK
  <2>3. DenseOK(r)' BY <1>2, <1>7, <1>8, <1>13, <1>15 DEF DenseOK
  <2> QED BY <1>9, <1>10, <2>2, <2>3 DEF ReaderOK
<1>16. CASE (\A m \in Sent(r) : m < e) /\ ToSet(w) = Sent(r) \cup {e}
  <2>1. PromiseOK(r)' BY <1>2, <1>4, <1>8, <1>12, <1>16 DEF PromiseOK
  <2>2. ASSUME NEW n \in Nat, since[r] <= n, n <= e, n # e PROVE n \in Sent(r) \cup missed[r]
    <3>1. n <= seq /\ n < e
          BY <1>4, <1>14, <2>2, SetTypes DEF LogTypeOK
    <3>2. n \notin Queued(r) BY <1>4, <3>1, SetTypes
    <3> QED BY <1>12, <2>2, <3>1, <3>2
  <2>3. DenseOK(r)' BY <1>2, <1>7, <1>8, <1>13, <1>16, <2>2 DEF DenseOK
  <2> QED BY <1>9, <1>10, <2>1, <2>3 DEF ReaderOK
<1> QED BY <1>5, <1>15, <1>16

\* The replay is over, or the client is gone.
LEMMA LeaveKeeps ==
  ASSUME LogTypeOK, LogInv, NEW r \in Readers, GoLive(r) \/ Leave(r)
  PROVE  ReaderOK(r)'
<1>1. ReaderOK(r) BY DEF LogInv
<1>2. UNCHANGED <<seq, since, missed>> BY DEF GoLive, Leave
<1>3. CASE GoLive(r)
  <2>1. reader'[r] = [reader[r] EXCEPT !.at = "live"] BY <1>3 DEF GoLive, LogTypeOK
  <2>2. reader[r].at = "replaying" /\ reader[r].replay = <<>> BY <1>3 DEF GoLive
  <2>3. /\ reader'[r].at = "live" /\ reader'[r].sent = reader[r].sent
        /\ reader'[r].replay = reader[r].replay /\ reader'[r].chan = reader[r].chan
        BY <2>1 DEF LogTypeOK, Reader
  <2>4. Sent(r)' = Sent(r) /\ ToReplay(r)' = ToReplay(r) /\ Queued(r)' = Queued(r)
        BY <2>3 DEF Sent, ToReplay, Queued
  <2>5. Subscribed(r) BY <2>2 DEF Subscribed
  <2> QED BY <1>1, <1>2, <2>2, <2>3, <2>4, <2>5
          DEF ReaderOK, StartOK, OrderOK, DenseOK, PromiseOK
<1>4. CASE Leave(r)
  <2>1. reader'[r] = [reader[r] EXCEPT !.at = "gone", !.chan = <<>>]
        BY <1>4 DEF Leave, LogTypeOK
  <2>2. /\ reader'[r].at = "gone" /\ reader'[r].sent = reader[r].sent
        /\ reader'[r].replay = reader[r].replay /\ reader'[r].chan = <<>>
        BY <2>1 DEF LogTypeOK, Reader
  <2>3. Sent(r)' = Sent(r) /\ ToReplay(r)' = ToReplay(r) /\ Queued(r)' = {}
        /\ Increasing(reader'[r].chan)
        BY <2>2, SetOfEmpty DEF Sent, ToReplay, Queued
  <2>4. ~Subscribed(r)' BY <2>2 DEF Subscribed
  <2> QED BY <1>1, <1>2, <2>2, <2>3, <2>4
          DEF ReaderOK, StartOK, OrderOK, DenseOK, PromiseOK
<1> QED BY <1>3, <1>4

\* What a stream does leaves the others alone.
LEMMA OthersStay ==
  ASSUME LogTypeOK, NEW r \in Readers, LogStep(r) \/ Leave(r), NEW q \in Readers, q # r
  PROVE  reader'[q] = reader[q] /\ since'[q] = since[q] /\ missed'[q] = missed[q] /\ seq' = seq
BY DEF LogStep, Subscribe, ReadHistory, Replay, GoLive, Receive, Leave, LogTypeOK

LEMMA LogInvStep ==
  ASSUME LogTypeOK, LogInv, [LogNext]_logVars PROVE LogInv'
<1>1. RingOK' BY RingStep DEF LogInv
<1>2. ASSUME NEW q \in Readers PROVE ReaderOK(q)'
  <2>1. CASE Add BY <2>1, AddKeeps
  <2>2. ASSUME NEW r \in Readers, LogStep(r) \/ Leave(r) PROVE ReaderOK(q)'
    <3>1. CASE q = r
          BY <2>2, <3>1, SubscribeKeeps, ReadHistoryKeeps, ReplayKeeps, ReceiveKeeps, LeaveKeeps
          DEF LogStep
    <3>2. CASE q # r BY <2>2, <3>2, OthersStay, ReaderStays DEF LogInv
    <3> QED BY <3>1, <3>2
  <2>3. CASE UNCHANGED logVars BY <2>3, ReaderStays DEF LogInv, logVars
  <2> QED BY <2>1, <2>2, <2>3 DEF LogNext
<1> QED BY <1>1, <1>2 DEF LogInv

-----------------------------------------------------------------------------
(* Theorems *)

\* Every state keeps its types: a stream's channel, replay and page are sequences of
\* entries.
THEOREM LogTypeCorrect == LogSpec => []LogTypeOK
<1>1. LogInit => LogTypeOK BY LogInitInv
<1>2. LogTypeOK /\ [LogNext]_logVars => LogTypeOK' BY LogTypeStep
<1> QED BY <1>1, <1>2, PTL DEF LogSpec

LEMMA LogInvariant == LogSpec => [](LogTypeOK /\ LogInv)
<1>1. LogInit => LogTypeOK /\ LogInv BY LogInitInv
<1>2. LogTypeOK /\ LogInv /\ [LogNext]_logVars => (LogTypeOK /\ LogInv)'
      BY LogTypeStep, LogInvStep
<1> QED BY <1>1, <1>2, PTL DEF LogSpec

\* A stream's entries come in order and none comes twice, although the ring
\* and the channel both hold those added while the ring was being replayed
\* (sse.go 34-46).
THEOREM InOrder == LogSpec => []InOrderOnce
<1>1. LogTypeOK /\ LogInv => InOrderOnce
      BY DEF LogInv, ReaderOK, OrderOK, Increasing, InOrderOnce
<1> QED BY <1>1, LogInvariant, PTL

\* Once live, a stream has a hole only where its own channel was full
\* (sse.go 24-66, broadcaster.go 43-61).
THEOREM NothingElseMissed == LogSpec => []NoHole
<1>1. LogTypeOK /\ LogInv => NoHole
  <2> SUFFICES ASSUME LogTypeOK, LogInv, NEW r \in Readers, reader[r].at = "live",
                      NEW n \in since[r] .. seq
               PROVE  n \in Sent(r) \cup Queued(r) \cup missed[r]
      BY DEF NoHole, Sent, Queued
  <2>1. n \in Nat /\ since[r] <= n /\ n <= seq BY DEF LogTypeOK
  <2>2. ReaderOK(r) /\ Subscribed(r) BY DEF LogInv, Subscribed
  <2>3. ToReplay(r) = {} BY <2>2, SetOfEmpty DEF ReaderOK, StartOK, ToReplay
  <2> QED BY <2>1, <2>2, <2>3 DEF ReaderOK, PromiseOK
<1> QED BY <1>1, LogInvariant, PTL
=============================================================================
