------------------------------ MODULE CCTokens ------------------------------
(***************************************************************************)
(* The refresh tokens of the Claude Code accounts, which live in three     *)
(* places: upstream honours the newest of an account only, the pool of a   *)
(* request refreshes with the one it has, and config.json is what the next *)
(* pool is built from.  A request or the background worker refreshes in    *)
(* its pool and then writes the pool's token to config.json                *)
(* (syncRefreshedAccountToConfig), a request even when nothing was         *)
(* refreshed; the panel saves settings, which marks the pool stale         *)
(* (internal/api/claudecode_proxy.go, server.go, claudecode_management.go, *)
(* internal/claudecode/pool.go).                                           *)
(*                                                                         *)
(* A token is its number.  Of config.json only the accounts' tokens are    *)
(* kept: what else of the section a sync writes back is not told apart.    *)
(* Accounts are not added or deleted here, upstream does not lose answers, *)
(* and the tokens in claudecode_accounts.json, which the program writes    *)
(* but never reads, are in CCPoolSave.                                     *)
(***************************************************************************)
EXTENDS Naturals, FiniteSets

CONSTANTS
  Accounts,
  Forwards,   \* requests forwarded to Claude Code
  Workers,    \* the background worker
  MaxToken,   \* bound: the newest token of an account
  Nobody      \* no account

ASSUME TokensAssumption ==
  /\ IsFiniteSet(Forwards) /\ IsFiniteSet(Workers) /\ Forwards \cap Workers = {}
  /\ Nobody \notin Accounts /\ MaxToken \in Nat

VARIABLES
  filed,      \* config.json and its copy in memory: account -> token
  newest,     \* account -> the token upstream honours
  pools,      \* pool -> account -> token
  shared,     \* ccPoolInst, ccPoolStale and ccPoolCfg
  actor,      \* what requests and worker are at
  reached,    \* history: account -> the newest token config.json ever had
  left        \* history: accounts whose token was left unsaved, and by what

tokenVars == <<filed, newest, pools, shared, actor, reached, left>>

TokenHolders == Forwards \cup Workers

\* One pool for everybody who may hold one, and one to build.
Pools == 1 .. Cardinality(TokenHolders) + 1

FirstTokens == [a \in Accounts |-> 1]

\* copy: of the configuration; pool, acc: what it works on; token: of acc;
\* after401: the attempt has had its 401; todo: accounts the worker still looks at;
\* done: accounts a request has given up on, or the worker has refreshed;
\* error: a refresh of this tick failed.
AtRest == [at |-> "idle", copy |-> FirstTokens, pool |-> 0, acc |-> Nobody, token |-> 0,
           after401 |-> FALSE, todo |-> {}, done |-> {}, error |-> FALSE]

TokensInit ==
  /\ filed = FirstTokens /\ newest = FirstTokens
  /\ pools = [g \in Pools |-> FirstTokens]
  /\ shared = [current |-> 1, stale |-> TRUE, built |-> FirstTokens]
  /\ actor = [p \in TokenHolders |-> AtRest]
  /\ reached = FirstTokens
  /\ left = [bySave |-> {}, byTick |-> {}]

Goes(p, at) == actor' = [actor EXCEPT ![p].at = at]

-----------------------------------------------------------------------------
(* Requests and the worker *)

TakeConfig(p) ==
  /\ p \in TokenHolders /\ actor[p].at = "idle"
  /\ actor' = [actor EXCEPT ![p].at = "pool", ![p].copy = filed]
  /\ UNCHANGED <<filed, newest, pools, shared, reached, left>>

Unused == {g \in Pools : g # shared.current /\ \A p \in TokenHolders : actor[p].pool # g}

\* getOrCreateCCPool: the pool is built again when it is stale or its accounts
\* are not those of the caller's configuration, which may be an old copy.
GetOrCreatePool(p) ==
  /\ actor[p].at = "pool"
  /\ LET old == shared.stale \/ shared.built # actor[p].copy
         g == IF old THEN CHOOSE n \in Unused : TRUE ELSE shared.current
     IN /\ pools' = IF old THEN [pools EXCEPT ![g] = actor[p].copy] ELSE pools
        /\ shared' = IF old THEN [current |-> g, stale |-> FALSE, built |-> actor[p].copy] ELSE shared
        /\ actor' = [actor EXCEPT ![p].at = IF p \in Forwards THEN "select" ELSE "scan",
                                  ![p].copy = FirstTokens, ![p].pool = g,
                                  ![p].todo = IF p \in Workers THEN Accounts ELSE {}]
  /\ UNCHANGED <<filed, newest, reached, left>>

Rests(p) == actor' = [actor EXCEPT ![p] = AtRest]

\* The token of the account in the pool of the request or the worker.
InPool(p) == pools[actor[p].pool][actor[p].acc]

\* SelectAccount, or none is left; RefreshTokenIfNeeded refreshes only a token
\* that is about to expire, with the one it reads from the pool.
SelectNext(r) ==
  /\ r \in Forwards /\ actor[r].at = "select"
  /\ \/ Rests(r)
     \/ \E a \in Accounts \ actor[r].done :
          \/ actor' = [actor EXCEPT ![r].at = "sync", ![r].acc = a, ![r].after401 = FALSE]
          \/ actor' = [actor EXCEPT ![r].at = "ask", ![r].acc = a, ![r].after401 = FALSE,
                                    ![r].token = pools[actor[r].pool][a]]
  /\ UNCHANGED <<filed, newest, pools, shared, reached, left>>

\* The refresher: upstream gives a new token for the newest one.
AskRefresh(p) ==
  /\ actor[p].at = "ask" /\ actor[p].token = newest[actor[p].acc] /\ actor[p].token < MaxToken
  /\ newest' = [newest EXCEPT ![actor[p].acc] = @ + 1]
  /\ actor' = [actor EXCEPT ![p].at = "store", ![p].token = @ + 1]
  /\ UNCHANGED <<filed, pools, shared, reached, left>>

\* It refuses, or cannot be reached: RefreshTokenIfNeeded's error is ignored,
\* a 401 goes on to another account, the worker notes the error.
RefreshFails(p) ==
  /\ actor[p].at = "ask"
  /\ IF p \in Workers
     THEN actor' = [actor EXCEPT ![p].at = "scan", ![p].token = 0, ![p].error = TRUE]
     ELSE IF actor[p].after401
     THEN actor' = [actor EXCEPT ![p].at = "select", ![p].token = 0, ![p].done = @ \cup {actor[p].acc}]
     ELSE actor' = [actor EXCEPT ![p].at = "sync", ![p].token = 0]
  /\ UNCHANGED <<filed, newest, pools, shared, reached, left>>

\* (wrong variant: the token got after a 401 is used for the retry and not written)
StoreTokenForRetry(p) ==
  /\ actor[p].at = "store"
  /\ pools' = [pools EXCEPT ![actor[p].pool][actor[p].acc] = actor[p].token]
  /\ IF p \in Workers
     THEN actor' = [actor EXCEPT ![p].at = "scan", ![p].token = 0, ![p].done = @ \cup {actor[p].acc}]
     ELSE actor' = [actor EXCEPT ![p].at = IF actor[p].after401 THEN "sent" ELSE "sync", ![p].token = 0]
  /\ UNCHANGED <<filed, newest, shared, reached, left>>

StoreToken(p) ==
  /\ actor[p].at = "store"
  /\ pools' = [pools EXCEPT ![actor[p].pool][actor[p].acc] = actor[p].token]
  /\ IF p \in Workers
     THEN actor' = [actor EXCEPT ![p].at = "scan", ![p].token = 0, ![p].done = @ \cup {actor[p].acc}]
     ELSE actor' = [actor EXCEPT ![p].at = "sync", ![p].token = 0]
  /\ UNCHANGED <<filed, newest, shared, reached, left>>

\* RefreshAllExpiringTokens, one account at a time; an error of one account
\* ends the tick without a sync of the others.
Scan(w) ==
  /\ w \in Workers /\ actor[w].at = "scan"
  /\ IF actor[w].todo = {}
     THEN IF actor[w].error
          THEN Rests(w) /\ left' = [left EXCEPT !.byTick = @ \cup actor[w].done]
          ELSE Goes(w, "sync next") /\ UNCHANGED left
     ELSE /\ \E a \in actor[w].todo :
               \/ actor' = [actor EXCEPT ![w].todo = @ \ {a}]
               \/ actor' = [actor EXCEPT ![w].todo = @ \ {a}, ![w].at = "ask", ![w].acc = a,
                                         ![w].token = pools[actor[w].pool][a]]
          /\ UNCHANGED left
  /\ UNCHANGED <<filed, newest, pools, shared, reached>>

\* The refreshed ones are synced one after the other.
SyncNext(w) ==
  /\ actor[w].at = "sync next"
  /\ IF actor[w].done = {}
     THEN Rests(w)
     ELSE \E a \in actor[w].done :
            actor' = [actor EXCEPT ![w].at = "sync", ![w].acc = a, ![w].done = @ \ {a}]
  /\ UNCHANGED <<filed, newest, pools, shared, reached, left>>

-----------------------------------------------------------------------------
(* syncRefreshedAccountToConfig *)

\* Its arguments are read from the pool, then the configuration is copied.
ReadToken(p) ==
  /\ actor[p].at = "sync"
  /\ actor' = [actor EXCEPT ![p].at = "get", ![p].token = InPool(p)]
  /\ UNCHANGED <<filed, newest, pools, shared, reached, left>>

ReadConfig(p) ==
  /\ actor[p].at = "get"
  /\ actor' = [actor EXCEPT ![p].at = "save", ![p].copy = filed]
  /\ UNCHANGED <<filed, newest, pools, shared, reached, left>>

\* config.Save of the whole section with one token replaced; its error is ignored.
SaveConfig(p) ==
  /\ actor[p].at = "save"
  /\ \/ /\ filed' = [actor[p].copy EXCEPT ![actor[p].acc] = actor[p].token]
        /\ reached' = [a \in Accounts |-> IF filed'[a] > reached[a] THEN filed'[a] ELSE reached[a]]
        /\ UNCHANGED left
     \/ left' = [left EXCEPT !.bySave = @ \cup {actor[p].acc}] /\ UNCHANGED <<filed, reached>>
  /\ actor' = [actor EXCEPT ![p].at = IF p \in Workers THEN "sync next" ELSE "sent",
                            ![p].copy = FirstTokens, ![p].token = 0]
  /\ UNCHANGED <<newest, pools, shared>>

\* The request is served, or goes on to another account, or meets a 401 and
\* refreshes once (RefreshAccountToken).
Answered(r) ==
  /\ actor[r].at = "sent"
  /\ \/ Rests(r)
     \/ actor' = [actor EXCEPT ![r].at = "select", ![r].done = @ \cup {actor[r].acc}]
     \/ /\ ~actor[r].after401
        /\ actor' = [actor EXCEPT ![r].at = "ask", ![r].token = InPool(r), ![r].after401 = TRUE]
  /\ UNCHANGED <<filed, newest, pools, shared, reached, left>>

-----------------------------------------------------------------------------
(* The panel *)

\* handleClaudeCodeConfigPost drops the posted accounts and config.Save keeps
\* what the file has of them, so that only the pool becomes stale.
SaveSettings ==
  /\ shared' = [shared EXCEPT !.stale = TRUE]
  /\ UNCHANGED <<filed, newest, pools, actor, reached, left>>

-----------------------------------------------------------------------------
RefresherStep(p) ==
  \/ TakeConfig(p) \/ GetOrCreatePool(p) \/ SelectNext(p)
  \/ AskRefresh(p) \/ RefreshFails(p) \/ StoreToken(p) \/ Scan(p) \/ SyncNext(p)
  \/ ReadToken(p) \/ ReadConfig(p) \/ SaveConfig(p) \/ Answered(p)

TokensNext == (\E p \in TokenHolders : RefresherStep(p)) \/ SaveSettings

TokensSpec == TokensInit /\ [][TokensNext]_tokenVars

-----------------------------------------------------------------------------
Left == left.bySave \cup left.byTick

\* Who has the newest token of a on its way to config.json: about to store it in
\* its pool, about to write it, or a worker that will write what it refreshed.
Brings(p, a) ==
  \/ actor[p].at \in {"store", "get", "save"} /\ actor[p].acc = a /\ actor[p].token = newest[a]
  \/ /\ (actor[p].at = "sync" /\ actor[p].acc = a) \/ (p \in Workers /\ a \in actor[p].done)
     /\ pools[actor[p].pool][a] = newest[a]

\* Whatever overlaps - requests and the worker in one pool, or in pools built from
\* different copies of the configuration - the newest token upstream has given for
\* an account has been in config.json, or somebody at work is bringing it there,
\* unless a save with a token of that account failed or a tick that had refreshed
\* it ended with an error (claudecode_proxy.go 458-461, 473-477, 112-158, server.go
\* 314-332).  It need not be there still: see RefreshedIsSaved.
GivenIsFiled ==
  \A a \in Accounts \ Left :
    reached[a] = newest[a] \/ \E p \in TokenHolders : Brings(p, a)

\* When nobody is at work config.json has every account's newest token, unless
\* a save failed: the next pool is built from it, and a token that only an old
\* pool has is lost with the login (claudecode_proxy.go 112-158, 60-80).  It does
\* not hold: a tick that ends with an error writes nothing, and of overlapping
\* syncs, or one from an old pool, the last may write an older token.
RefreshedIsSaved ==
  (\A p \in TokenHolders : actor[p].at = "idle") /\ left.bySave = {} => filed = newest
=============================================================================
