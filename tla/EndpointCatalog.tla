--------------------------- MODULE EndpointCatalog ---------------------------
(***************************************************************************)
(* Discovery of the models of custom endpoints                             *)
(* (internal/api/endpointcatalog.go): per endpoint a catalog fetched from  *)
(* the endpoint's source, one fetch at a time that others wait for; the    *)
(* requests, which look a model up and wait for first fetches only; the    *)
(* refreshes of the worker and of the panel's button, which drop the       *)
(* catalogs of endpoints that no longer opt in; and an operator who        *)
(* changes the configuration, of which everybody keeps a copy.             *)
(*                                                                         *)
(* There is one model, which a source's catalog lists or not; models that  *)
(* have an endpoint entry of their own, or that another gateway owns, are  *)
(* decided without a catalog and left out.  An entry is replaced when the  *)
(* source changes and may still be fetched for; it is known by the call    *)
(* that fetches for it, so an entry that is no longer in the map is only   *)
(* that call and those that wait for it.                                   *)
(***************************************************************************)
EXTENDS Naturals, Sequences

CONSTANTS
  Names,       \* the endpoints of the configuration, in the order of lookups
  Sources,     \* where a catalog may be fetched: url, key and models url
  Listing,     \* the sources whose catalog lists the model
  Configs,     \* configurations: name -> its source, or Off
  Askers,      \* requests
  Refreshers,  \* the worker and the panel's button
  Forced,      \* those of them that refresh what is not due
  MaxChanges,  \* bound: changes of the configuration
  Off          \* not opted in; no source; no call

Endpoints == {Names[i] : i \in DOMAIN Names}

ASSUME EndpointCatalogAssumption ==
  /\ Names \in Seq(Endpoints)
  /\ \A i, j \in DOMAIN Names : Names[i] = Names[j] => i = j
  /\ Listing \subseteq Sources /\ Off \notin Sources
  /\ Forced \subseteq Refreshers /\ Askers \cap Refreshers = {}
  /\ Off \notin Askers \cup Refreshers
  /\ Configs \subseteq [Endpoints -> Sources \cup {Off}]
  /\ MaxChanges \in Nat

VARIABLES
  config,   \* the configuration
  changes,  \* how often it was changed
  cached,   \* name -> its entry in the map, or NoEntry
  proc,     \* asker or refresher -> where it is
  call      \* <<process, name>> -> its refreshEndpointCatalog

catalogVars == <<config, changes, cached, proc, call>>

Processes == Askers \cup Refreshers

NoEntry == [source |-> Off, from |-> Off, failed |-> FALSE, recent |-> FALSE,
            fresh |-> FALSE, leader |-> Off]
\* source: what the entry is for; from: where its models are from, if any;
\* failed: the last attempt did; recent, fresh: the last attempt, the last
\* success is younger than the retry gap, than the TTL; leader: the fetch.
NewEntry(s) == [NoEntry EXCEPT !.source = s]

NoCall == [at |-> "none", leader |-> Off, ran |-> FALSE, got |-> FALSE]

\* route: the source a request is routed to; told: a fetch it waited for
\* listed the model (history variable).
Idle == [at |-> "idle", config |-> Off, i |-> 1, route |-> Off, told |-> FALSE]

CatalogInit ==
  /\ config \in Configs /\ changes = 0
  /\ cached = [n \in Endpoints |-> NoEntry]
  /\ proc = [p \in Processes |-> Idle]
  /\ call = [c \in Processes \X Endpoints |-> NoCall]

\* (wrong variant: a catalog is known by the endpoint's name alone)
HasByName(n, s) == cached[n].source # Off /\ cached[n].from \in Listing

\* catalogHas: the entry is for the endpoint's present source and lists the model.
Has(n, s) == cached[n].source = s /\ cached[n].from \in Listing

\* awaitsFirstFetch: no attempt for the present source is over.
AwaitsFirst(n, s) ==
  cached[n].source # s \/ (cached[n].from = Off /\ ~cached[n].failed)

\* (wrong variant: a failed attempt may be repeated at once)
DueAtOnce(entry) == ~entry.fresh

Due(entry) == ~entry.recent /\ ~entry.fresh

-----------------------------------------------------------------------------
MoveTo(p, at, i) == proc' = [proc EXCEPT ![p].at = at, ![p].i = i]

Resolved(p, at, source, told) ==
  proc' = [proc EXCEPT ![p] = [Idle EXCEPT !.at = at, !.route = source, !.told = told]]

Ask(p) ==
  /\ proc[p].at = "idle"
  /\ proc' = [proc EXCEPT ![p].at = "look", ![p].config = config]
  /\ UNCHANGED <<config, changes, cached, call>>

\* The name a process is at, in the order of discoveringEndpoints, and the
\* source its copy of the configuration has there; Off: it has not opted in.
AllSeen(p) == proc[p].i > Len(Names)
This(p) == Names[proc[p].i]
ThisSource(p) == proc[p].config[This(p)]

\* lookupCustomEndpoint, one catalog (and one turn of its lock) at a time.
Look(p) ==
  /\ proc[p].at \in {"look", "look again"}
  /\ IF AllSeen(p)
     THEN IF proc[p].at = "look" THEN MoveTo(p, "warm", 1)
          ELSE Resolved(p, "not routed", Off, proc[p].told)
     ELSE IF ThisSource(p) # Off /\ Has(This(p), ThisSource(p))
          THEN Resolved(p, "routed", ThisSource(p), FALSE)
          ELSE MoveTo(p, proc[p].at, proc[p].i + 1)
  /\ UNCHANGED <<config, changes, cached, call>>

\* warmEndpointCatalogs: a goroutine for every catalog whose first attempt is
\* not over, and a wait for all of them.
Warm(p) ==
  /\ proc[p].at = "warm"
  /\ IF AllSeen(p) THEN MoveTo(p, "join", 1) /\ UNCHANGED call
     ELSE /\ MoveTo(p, "warm", proc[p].i + 1)
          /\ IF ThisSource(p) # Off /\ AwaitsFirst(This(p), ThisSource(p))
             THEN call' = [call EXCEPT ![<<p, This(p)>>].at = "called"]
             ELSE UNCHANGED call
  /\ UNCHANGED <<config, changes, cached>>

Over(p) == \A n \in Endpoints : call[<<p, n>>].at \in {"none", "done"}

Told(p) == \E n \in Endpoints : call[<<p, n>>].got /\ proc[p].config[n] \in Listing

Join(p) ==
  /\ p \in Askers /\ proc[p].at = "join" /\ Over(p)
  /\ IF \E n \in Endpoints : call[<<p, n>>].ran
     THEN proc' = [proc EXCEPT ![p].at = "look again", ![p].told = Told(p)]
     ELSE Resolved(p, "not routed", Off, Told(p))
  /\ call' = [c \in DOMAIN call |-> IF c[1] = p THEN NoCall ELSE call[c]]
  /\ UNCHANGED <<config, changes, cached>>

-----------------------------------------------------------------------------
\* refreshEndpointCatalog up to the unlock: an entry for another source is
\* replaced; who finds a fetch under way waits for it; what is not due is
\* left alone unless forced; otherwise the call fetches.
Enter(p, n) ==
  /\ call[<<p, n>>].at = "called"
  /\ LET s == proc[p].config[n]
         entry == IF cached[n].source = s THEN cached[n] ELSE NewEntry(s)
     IN \/ /\ entry.leader # Off
           /\ cached' = cached
           /\ call' = [call EXCEPT ![<<p, n>>].at = "waiting", ![<<p, n>>].leader = entry.leader]
        \/ /\ entry.leader = Off /\ p \notin Forced /\ ~Due(entry)
           /\ cached' = [cached EXCEPT ![n] = entry]
           /\ call' = [call EXCEPT ![<<p, n>>].at = "done"]
        \/ /\ entry.leader = Off /\ (p \in Forced \/ Due(entry))
           /\ cached' = [cached EXCEPT ![n] = [entry EXCEPT !.leader = p, !.recent = TRUE]]
           /\ call' = [call EXCEPT ![<<p, n>>].at = "fetching"]
  /\ UNCHANGED <<config, changes, proc>>

\* What a fetch leaves in an entry: a failure keeps the models it has.
Fetched(entry, s, ok) ==
  IF ok THEN [entry EXCEPT !.from = s, !.failed = FALSE, !.fresh = TRUE, !.leader = Off]
        ELSE [entry EXCEPT !.failed = TRUE, !.leader = Off]

\* (wrong variant: those who wait are told that nothing was fetched)
FetchEndsForOne(p, n) ==
  /\ call[<<p, n>>].at = "fetching"
  /\ \E ok \in BOOLEAN :
       /\ cached' = IF cached[n].leader = p
                     THEN [cached EXCEPT ![n] = Fetched(@, proc[p].config[n], ok)]
                     ELSE cached
       /\ call' = [c \in DOMAIN call |->
            IF c = <<p, n>> \/ (c[2] = n /\ call[c].leader = p)
            THEN [at |-> "done", leader |-> Off, ran |-> c = <<p, n>>, got |-> ok] ELSE call[c]]
  /\ UNCHANGED <<config, changes, proc>>

\* (wrong variant: only those who find their fetch in the map are woken)
FetchEndsInMap(p, n) ==
  /\ call[<<p, n>>].at = "fetching"
  /\ \E ok \in BOOLEAN :
       /\ cached' = IF cached[n].leader = p
                     THEN [cached EXCEPT ![n] = Fetched(@, proc[p].config[n], ok)]
                     ELSE cached
       /\ call' = [c \in DOMAIN call |->
            IF c = <<p, n>> \/ (c[2] = n /\ call[c].leader = p /\ cached[n].leader = p)
            THEN [at |-> "done", leader |-> Off, ran |-> TRUE, got |-> ok] ELSE call[c]]
  /\ UNCHANGED <<config, changes, proc>>

\* The rest of it, when the fetch succeeds, fails or runs out of time.  The
\* result goes to the entry the call began with, wherever that is by now, and
\* everybody who waits for this fetch goes on.
FetchEnds(p, n) ==
  /\ call[<<p, n>>].at = "fetching"
  /\ \E ok \in BOOLEAN :
       /\ cached' = IF cached[n].leader = p
                     THEN [cached EXCEPT ![n] = Fetched(@, proc[p].config[n], ok)]
                     ELSE cached
       /\ call' = [c \in DOMAIN call |->
            IF c = <<p, n>> \/ (c[2] = n /\ call[c].leader = p)
            THEN [at |-> "done", leader |-> Off, ran |-> TRUE, got |-> ok] ELSE call[c]]
  /\ UNCHANGED <<config, changes, proc>>

\* The client of a request, or of the panel's button, is gone: it waits no longer.
Gone(p) ==
  /\ p \in Askers \cup Forced
  /\ \E n \in Endpoints : call[<<p, n>>].at = "waiting"
  /\ call' = [c \in DOMAIN call |->
       IF c[1] = p /\ call[c].at = "waiting" THEN [NoCall EXCEPT !.at = "done"] ELSE call[c]]
  /\ UNCHANGED <<config, changes, cached, proc>>

-----------------------------------------------------------------------------
\* refreshEndpointCatalogs: every opted-in endpoint at once, and a wait.
Refresh(p) ==
  /\ p \in Refreshers /\ proc[p].at = "idle"
  /\ proc' = [proc EXCEPT ![p].at = "join", ![p].config = config]
  /\ call' = [c \in DOMAIN call |->
       IF c[1] = p /\ config[c[2]] # Off THEN [NoCall EXCEPT !.at = "called"] ELSE call[c]]
  /\ UNCHANGED <<config, changes, cached>>

\* The copy of the configuration it started with decides what is dropped.
Drop(p) ==
  /\ p \in Refreshers /\ proc[p].at = "join" /\ Over(p)
  /\ cached' = [n \in Endpoints |->
       IF proc[p].config[n] = Off /\ cached[n].leader = Off THEN NoEntry ELSE cached[n]]
  /\ proc' = [proc EXCEPT ![p] = Idle]
  /\ call' = [c \in DOMAIN call |-> IF c[1] = p THEN NoCall ELSE call[c]]
  /\ UNCHANGED <<config, changes>>

ChangeConfig ==
  /\ changes < MaxChanges /\ changes' = changes + 1
  /\ config' \in Configs \ {config}
  /\ UNCHANGED <<cached, proc, call>>

\* Half a minute and five minutes are long beside the steps of a call: no
\* request is between its test and its call, no fetch under way, meanwhile.
TimePasses ==
  /\ \A c \in DOMAIN call : call[c].at # "called"
  /\ \A p \in Processes : proc[p].at # "warm"
  /\ \E n \in Endpoints :
       /\ cached[n].leader = Off
       /\ \/ cached[n].recent /\ cached' = [cached EXCEPT ![n].recent = FALSE]
          \/ ~cached[n].recent /\ cached[n].fresh
             /\ cached' = [cached EXCEPT ![n].fresh = FALSE]
  /\ UNCHANGED <<config, changes, proc, call>>

ProcessStep(p) == Look(p) \/ Warm(p) \/ Join(p) \/ Drop(p)
CallStep(p, n) == Enter(p, n) \/ FetchEnds(p, n)

CatalogNext ==
  \/ \E p \in Askers : Ask(p)
  \/ \E p \in Processes : ProcessStep(p) \/ Gone(p) \/ Refresh(p)
  \/ \E p \in Processes, n \in Endpoints : CallStep(p, n)
  \/ ChangeConfig \/ TimePasses

CatalogSpec == CatalogInit /\ [][CatalogNext]_catalogVars

-----------------------------------------------------------------------------
\* A request is routed only to a source that listed the model: a source that
\* took another's place does not inherit its catalog, whatever fetch of the
\* old one is still under way (endpointcatalog.go 51-56, 118-124).
RoutedByOwnSource ==
  \A p \in Askers : proc[p].at = "routed" => proc[p].route \in Listing

\* A fetch that a request waited for, its own or another's, and that listed
\* the model routes it, if nobody changes the configuration
\* (154-170, 213-219).
WaitedThenRouted ==
  \A p \in Askers : proc[p].at = "not routed" /\ changes = 0 => ~proc[p].told

\* A request fetches only what nobody has tried to fetch: a dead or a stale
\* catalog is the worker's (154-160, 197-201).
FetchesFirstOnly ==
  \A p \in Askers, n \in Endpoints :
    call[<<p, n>>].at = "fetching" /\ cached[n].leader = p =>
      cached[n].from = Off /\ ~cached[n].failed

\* Who waits for a fetch waits for one that is still under way, though its
\* entry may have been replaced or dropped meanwhile (231-240, 270-271).
NobodyWaitsInVain ==
  \A p \in Processes, n \in Endpoints : call[<<p, n>>].at = "waiting" =>
    call[<<call[<<p, n>>].leader, n>>].at = "fetching"
=============================================================================
