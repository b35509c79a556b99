# Verification of antigravity-claude-proxy-go

The proxy serves the Anthropic and OpenAI HTTP APIs on one port of the local host and
forwards each request to one of several gateways: Google accounts of the Cloud Code API
(Antigravity), a pool of Claude Code accounts, Kimi, OpenRouter, OpenCode Zen, or an
endpoint the operator configures.  This directory holds TLA+ models of its stateful
parts, the TLC configurations that check them on small instances, and proofs of the main
results for every value of the constants.

Paths below are relative to `src/`.

1. [Inventory](#1-inventory)
2. [What is hard](#2-what-is-hard)
3. [Modules](#3-modules-and-how-they-correspond-to-the-code)
4. [Runs](#4-runs)
5. [Proofs](#5-proofs)
6. [Where the code and its words disagree](#6-where-the-code-and-its-words-disagree)
7. [What is not covered](#7-what-is-not-covered)
8. [Plan](#8-plan)
9. [Running it](#9-running-it)

## 1. Inventory

A request enters `internal/api`, may be answered locally by the permission classifier,
passes the headroom pipeline, has its model name mapped (at most five hops), and is given
to the first gateway of the configured order that claims it.  All gateways run inside one
process; every request is a goroutine, and so are the background jobs.  The components:

| component | state | operations | talks to | correct when |
|---|---|---|---|---|
| **prompt-cache bumper** `internal/cachebump`, `api/cachebump_*.go` | bounded store of replayable sessions, knobs of the scheduler | a finished turn upserts; the scheduler replays due records and applies the outcome; the operator stops, clears, edits the knobs | four senders (one per gateway), configuration | limits and byte count exact; one retry; the cap holds; only a turn arms a session; a due session is served |
| **Claude Code account pool** `internal/claudecode/{pool,ratelimit,storage}.go`, `api/claudecode_proxy.go` | accounts with cooldown, failures, load, limits; affinity of sessions; `unsaved`, `savePending`, `saving`, `retired`; the account file | select, acquire, release, record success, failure, 429; refresh tokens; add, delete; save in background, flush, retire; rebuild on a configuration change | configuration, account file, bumper | a closed window stays closed; load exact; affinity bounded and consistent; only the current pool writes; nothing forgotten |
| **Google account pool and dispatcher** `internal/accounts/{manager,dispatcher,outputlimit,throttlemeter,retry}.go` | accounts with locks per model, failures, validity; shared throttle; in-flight meter; background reads | select, resolve, call, classify the answer, mark, wait, retry, rotate; read a stream on after its client's limit; operator edits; `Close` | agy token file, Cloud Code client, statistics | bounded attempts; meter exact; `Close` leaves no stream being read on; a withdrawn model does not take every account away |
| **agy token file** `internal/auth/token.go`, `lock_*.go` | the token shared with the `agy` program, a cache | read under a file lock, refresh, write back | dispatcher, another process | one refresh at a time; the newest token stays |
| **OAuth logins** `internal/auth/{agy,claudecode,kimi}_oauth.go`, `oauth_server.go`, `api/kimi_oauth_handlers.go` | flows with a state, a poll or a loopback listener; the stored Kimi credential | start, callback, poll, cancel, complete, refresh, log out | configuration, account pools | a login is stored once or not at all; a refresh never puts an older credential back |
| account credentials and quota parsing `internal/accounts/{credentials,forensics}.go` | none | resolve, parse | dispatcher | pure |
| Claude Code client, router, usage capture, discovery `internal/claudecode/*.go` | price tables, last discovery | route, send, parse usage | Claude Code pool | pure, one request each |
| Claude Code usage ledger `internal/claudecode/ccusage` | incremental scan of transcripts | scan, deduplicate, aggregate in blocks | files | every entry counted once |
| API server `internal/api` | the instances of everything above | handlers, gateway walk, translation of streams, management | all | a request takes the first gateway that claims it |
| Claude Code wire identity `internal/ccidentity` | captured profile, bounded turn store | shape headers and bodies | Claude Code gateway, bumper | turns bounded, numbering monotonic |
| classifier `internal/classifier` | audit ring | match a permission prompt | API server | pure matching |
| Cloud Code client `internal/cloudcode` | none | call, stream, read quota | dispatcher | an error is classified once |
| configuration `internal/config` | the file and its normalised form | load, normalise, merge and save | all | unknown fields survive; a save is atomic |
| format translation `internal/format` | signature cache (bounded) | translate requests, answers and streams; output guard | API server, dispatcher | no block opened and not closed; guard cuts once |
| headroom pipeline `internal/headroom` | none | compress a body | API server | verbatim parts untouched |
| HTTP wire writer `internal/httpwire` | none | write headers in an order | Claude Code client | pure |
| Kimi gateway `internal/kimi` | device identity | rewrite, forward | API server | pure |
| MITM registry and capture `internal/mitm` | bounded, expiring registry of sessions, a CA | observe, expire, serve | API server | bounded, oldest out first |
| model catalog `internal/modelcatalog` | none | resolve names, follow mappings (at most five hops) | API server | terminates, deterministic |
| **OpenRouter gateway** `internal/openrouter`, `api/server.go` (`forwardToOpenRouter`) | the provider router with its breaker and sticky sessions, cooldowns per model, session totals, catalog cache | choose and filter a chain of providers, try them in turn, record, evict, fetch | API server | a request ends, and not before every candidate was tried; an operator's order is kept |
| **stream translation** `internal/zen/{responsesstream,chatwire}.go`, `format/stream.go` | per answer: the open block, what was shown of each item | translate each upstream event; fold the answer for a client that does not stream | Zen and Cloud Code gateways | a well-formed message with each text once, calls whole, the right stop reason |
| **custom endpoint discovery** `api/endpointcatalog.go` | a catalog of models per endpoint, with the fetch under way | look up, warm, fetch once for all who wait, refresh, drop | custom endpoints, configuration | a model is routed by its endpoint's present source only; waiting ends |
| **Claude Code credentials in the configuration** `api/{claudecode_proxy,claudecode_management,server}.go` | refresh tokens in the pool in use, in older pools and in `config.json` | refresh, copy to the configuration, save settings, rebuild | Claude Code pool, configuration | every new token reaches the file; the newest is what the next pool is built from |
| **log and audit streams** `internal/ringbuf`, `internal/logger`, `api/sse.go` | ring, subscribers, a stream per panel | publish, subscribe, replay, follow, leave | logger, classifier, panel | no entry twice or out of order, none missing unless dropped |
| proxy dialling and transports `internal/{proxydial,transport,tlsreplay}` | connection pools | dial | network | outside these models |
| reasoning and session identifiers `internal/{reasoning,sessionid}` | none | map, derive | API server | pure |
| statistics tracker `internal/stats` | counters, dirty flag, the file | record, save, load | API server | what was recorded is saved in the end |
| web panel `internal/webui` | none | serve files | browser | presentation |
| OpenCode Zen gateway `internal/zen` | two egress routes with exhaustion times, model cache | forward, fail over, recover | API server | an exhausted route is left alone until its reset |
| calibration `internal/calibrate`, `cmd/calibrate` | journal | probe, derive | an offline tool | offline |
| daemon and command line `cmd/proxy` | pid file | start, stop | operating system | one instance |
| probe tools `cmd/*` | none | diagnose | network | offline |

Components in bold are modelled, wholly or in part.  `PROJECT.json` lists the same components with every source file, and the hazards with the
line at which each one bites.

## 2. What is hard

* **Locks are short.**  Almost every mutable structure has one mutex held for a single
  method.  Decisions are made on copies and applied with a second call: the bumper
  (`scheduler.go:148-222`), the account save (`pool.go:180-215`), the rotation after an
  answer (`dispatcher.go:500-560`).  The models take one locked section as one step and
  let everything else interleave.
* **Objects outlive their owner.**  A request keeps the pool, or the account object, with
  which it started, while an edit of the configuration replaces it.
* **Background work.**  The save goroutine of a pool, the scheduler, streams read on after
  their client's answer was cut off, and the shutdown that waits for them.
* **Answers come in any order.**  The limits seen in the headers of a stream are recorded
  when it ends; a 429, a 5xx and a success of concurrent requests overwrite one another.
* **A secret that changes with every use.**  Kimi and Anthropic replace a refresh token when
  it is used.  The new one must reach the place the next refresh reads from, through
  failed writes, crashes, saves of the configuration by others and pools that are replaced.
* **Files and processes.**  The agy token file is renamed over by several programs, while
  the lock belongs to the file that was opened.
* **Streams.**  An upstream answer may say the same text by deltas and again as a whole,
  interleave its items and end early; the client sees blocks, one after the other.
* **Single flight.**  Requests wait for a fetch that another one makes, for an entry that
  may be replaced or dropped meanwhile.
* **Limits.**  The bump store, the affinity map, the retry budgets, the counters that must
  not go below zero.

## 3. Modules and how they correspond to the code

| module | extends / instantiates | models |
|---|---|---|
| `CacheBump` | | the bumper: store, scheduler, its callers |
| `CacheBump_proofs` | `CacheBump` | theorems |
| `CCStoreOwner` | | abstract: a file with one owner at a time |
| `CCPoolSave` | `CCStoreOwner` (refinement) | how the Claude Code pool reaches disk, is replaced and closed |
| `CCPoolSave_proofs` | `CCPoolSave`, `CCTokens` | theorems, refinement included |
| `CCPoolLocks` | | the locks of the same pool, operation by operation |
| `CCPool` | | health, selection, affinity and load of the same pool, and the requests and bumps that use it |
| `CCPool_proofs` | `CCPool`, `CCPoolLocks` | theorems |
| `Dispatcher` | | the Google account pool and the dispatcher |
| `Dispatcher_proofs` | `Dispatcher` | theorems |
| `AgyToken` | | the token file shared with the agy program |
| `KimiLogin` | | the device logins of Kimi, their handlers, the refresh of the stored credential |
| `Logins_proofs` | `AgyToken`, `KimiLogin` | theorems |
| `LogStream` | | the ring and the event streams that follow it |
| `EndpointCatalog` | | discovery of the models of custom endpoints |
| `Server_proofs` | `EndpointCatalog`, `LogStream` | theorems |
| `CCTokens` | | refresh tokens of the Claude Code accounts between upstream, pools and configuration |
| `OpenRouter` | | the failover loop of a request with the provider router and the rate limiter |
| `MessageStream` | | abstract: the message a streaming client is promised |
| `EventWire` | | the events between a translator and its client, and the shared block emitter |
| `ZenResponses`, `ZenChat`, `CloudStream` | `EventWire`; refine `MessageStream` | the three translators |
| `Gateways_proofs` | `MCGateways` | theorems on `OpenRouter` and the translators, the refinement of `MessageStream` included |
| `Answers_proofs` | `Gateways_proofs` | theorems on what a finished message shows |
| `MCBackground` | `MCCacheBump`, `CCPoolSave` | one instance, one part per behaviour |
| `MCServer` | the five modules of logins, logs, discovery and tokens | one instance, one part per behaviour |
| `MCGateways` | `OpenRouter`, the translators; instantiates `MessageStream` | one instance, one part per behaviour |
| other `MC*` | one or two each | constants and symmetry of the runs |

The Claude Code pool is modelled three times, at three grains, because the questions are
independent: what it knows (`CCPool`, one step per method), how it is saved (`CCPoolSave`,
accounts reduced to a version number, one step per locked section) and whether its locks
can block each other (`CCPoolLocks`, one step per lock operation).  `CCPool.Rebuild` and
`CCPoolSave.Rebuild`/`Retire`/`Publish` are the same function, `getOrCreateCCPool`.

Some modules contain definitions marked "wrong variant": each is the named operator with
one plausible mistake, used to show that a property would notice it.  No action uses them.

### CacheBump

State: `records` and `bytes` are `Store.records` and `Store.bytes`; `config` is the section
of the configuration file, `schedCfg` the copy inside the scheduler; `turns` are records
built by a finished turn and not yet upserted; `pc`, `due`, `cur`, `bumpNow`, `bumpCfg`,
`outcome` are the scheduler goroutine inside `Tick` and `bump`.

| action | code |
|---|---|
| `FinishTurn`, `Upsert` | `maybeRecordCacheBump` up to, and from, `Store.Upsert` (prune, replace, evict, arm) |
| `ManualStop`, `Clear`, `Reconfigure`, `EditConfig` | management handlers, `getCacheBump`, configuration page |
| `StartTick` | the pass of `StartCacheBumpScheduler` that copies the due records |
| `StopIdle`, `Send`, `Answer` | `bump` up to the freshness test |
| `ApplyFailure`, `ApplyPaidWrite`, `ApplyRead`, `CheckCap`, `StopCur` | each store call of `bump` after it |
| `Tick` | time |

A body is its size.  Statistics and events are written and never read back, and left out.
No two turns complete at the same instant: the clock of the code has nanoseconds.

### CCPoolSave and CCStoreOwner

The accounts of a pool are a version number that every change worth saving raises; the file
is the pair of the generation and the version it was written from.  `mem`, `throttle`,
`unsaved`, `pending`, `saving`, `retired`, `wg` are the fields of `AccountPool`; `step`, `at`
and `snap` are where each writer is: a request that saves, the save goroutine of each
generation, the goroutine that closes the server; `boss` is the holder of `ccPoolMu`.

| action | code |
|---|---|
| `ChangeLimits`, `ChangeTokens` | `setRateLimitsLocked`, token refresh and login |
| `RequestSave` | `requestSave` (starts the goroutine unless one runs) |
| `SaveStoredAccounts` | its test of retirement and `saveWG.Add` |
| `SaveLoop` | head of `saveLoop`: exit or take the pending pass |
| `ClearUnsaved`, `ReadAccounts`, `WriteFile` | the pass of `SaveStoredAccounts`, `saveLoop` and `Flush`, and `writeStore`: clear the mark, copy under the lock, rename under `storageMu` |
| `Rebuild`, `Retire`, `Publish` | `getOrCreateCCPool` |
| `Close`, `Flush`, `Retire`, `Closed` | `closeCCPool` |

`CCStoreOwner` says what that protocol is for: one generation owns the file, only it
writes, ownership passes on once and for good, and the file never names a state its owner
did not have.  The refinement maps `owner` to `current`, `latest` to `mem[current]`, `file`
to `disk`; `Publish` is the hand-over, a write is `Save`, a change in the current pool is
`Evolve`, everything else is a stutter.

### CCPoolLocks

An operation is the sequence of locks it takes and releases, read off its code, for every
order in which a Go map may yield the accounts.  A lock is a `sync.RWMutex`: a writer that
waits keeps new readers out, and when it leaves the readers that waited enter together;
this is what makes two readers able to block each other.

### CCPool

`current` is the generation of the pool; a slot is an account of one generation.  `live`,
`enabled`, `inFlight`, `fails`, `cooldown`, `limits` are the fields of `Account`; `sticky`
and `stickyAt` the two maps of the affinity; `req` what each request does: selecting,
chosen, sent, in a stream, copying.

| action | code |
|---|---|
| `SelectAccount`, `Acquire`, `GiveUp` | `SelectAccount` with `evictOldestSticky`, `Acquire`, the end of `forwardToClaudeCode`'s loop |
| `TransportError`, `RateLimited`, `UpstreamError`, `Answer`, `Finish` | the branches of `forwardToClaudeCode` and `sendClaudeCodeBump`, each with `RecordFailure`, `RecordRateLimit` or `RecordSuccess` and `Release` |
| `StartBump` | a bump, pinned to one account |
| `DeleteAccount`, `AddOrUpdateAccount`, `UpdateAccountRateLimits`, `Rebuild` | management, login, queries of the limits, a change of the configuration |

Upstream's headers are: nothing, a unified snapshot (observed, reset, rejected), another
limit exhausted until a time, or both.  `closed` and `removed` are history: until when a 429 said
the window is closed, and which slots were ever deleted.

### Dispatcher

An account object is a pair of an email and a number, because the manager replaces objects
while requests hold the old ones.  `acct` is what the object says of itself (enabled,
invalid, failures in a row, the remaining lock of each model), `until` and `recent` the
shared throttle, `inFlight` the meter, `req` each request, `tail` the goroutine that reads a
stream on, `closing` the shutdown.

| action | code |
|---|---|
| `Select`, `Empty`, `Wake` | `Manager.Select`, the branch without an account, `sleepContext` |
| `BadCredentials`, `Resolved`, `AskProject`, `GotProject`, `NoProject` | `Resolve`, `handleCredentialError`, `resolveProject` |
| `Send`, `Answered`, `PastLimit`, `TailEnd` | `sendStream`, with and without the output guard |
| `Succeed`, `Refuse`, `RetryCapacity`, `RetryQuick`, `SwitchLater`, `Limited`, `SwitchAbandoned`, `Failed`, `Invalid`, `Missing` | what `StreamGenerateContent` and `rotateForError` do with each answer |
| `SetAccountEnabled`, `ClearInvalid`, `RemoveAccount`, `AddOrUpdateAccount` | the operator |
| `Close`, `Closed` | `Dispatcher.Close` |

Abstractions: the strategies are preferences among the usable accounts, so `Select` may
return any of them; a sleep has any length; times are countdowns in steps; a client's
departure happens at the steps that can notice it (leaving at any other step has the same
effect as leaving at the next of those); whether the client asked for less than the
catalog's limit is chosen at each send; accounts are loaded enabled, valid and unlocked; a send
that `Close` refuses is counted and uncounted in one step.

### AgyToken

Callers of `Manager.Get` belong to processes, each with a cache.  The token file is an inode
with content; `path` names one, `flock` belongs to an inode, and a rename makes the path
name another while open descriptors keep the old one.  A token is its number; the provider
honours one refresh token per login (`honoured`) and may replace it with each refresh.

| action | code |
|---|---|
| `ReadCache`, `StatPath`, `Open`, `LockAndRead` | `Get` up to the decision to refresh |
| `RefreshRefused`, `RefreshAnswered`, `UserEmail` | the calls to Google |
| `WriteToken`, `Store`, `Return` | the write-back by rename, the cache, the unlock |
| `AgyLogin`, `TokenExpires`, `ProcessDies` | the agy program, time, a crash |

`RefreshTokenKept` (the file has the refresh token the provider honours, or its writer is on
the way) holds under two conditions, which the constants name; each has a counterexample
without it.

* `Stalls = FALSE`: a refreshed token does not expire before it is written back.  The comment
  at `token.go:167` says that the lock makes concurrent refreshes of one token impossible.
  It belongs to the inode: while a caller refreshes, the agy program renames a new file over
  the path, and a second caller locks and refreshes that one.  Both write to one path.  If
  the first one's write-back comes an hour late, it puts an older refresh token over the
  second one's.
* `Rotates` has one element: the provider replaces the refresh token at every refresh or at
  none.  If it does so only sometimes, the same two callers can finish in the wrong order
  within an hour, the late one with the token that was current when it asked.

With `Stalls = TRUE` in place of `FALSE`, or with `Rotates = {TRUE, FALSE}`, TLC finds these.

### KimiLogin

A credential is the device login it came from and the number of its refresh token.

| action | code |
|---|---|
| `RegisterSession`, `Granted`, `Completed`, `PollEnds`, `Cancel`, `RemoveSession`, `StopSession` | the device flow with its poller (`kimi_oauth.go`) |
| `GetSession`, `Snapshot`, `ClaimCompletion`, `Register`, `ReleaseCompletion`, `Logout`, `PostClear` | the status, cancel, logout and settings handlers; of the last only a post that clears the credential (one that brings a credential of its own is not modelled: the pages are given no token to post) |
| `Resolve` ... `Persist` | `resolveKimiCredential` and `refreshKimiOAuth`: what is read before the mutex, under it, and the comparison with the stored credential before the save |
| `Expire`, `Crash` | time, the end of the process with what it had in memory only |

A save of the configuration may fail, an answer of Kimi may be lost; both are counted.

### LogStream

`ring` and the subscribers' buffers are `Broadcaster`; each reader is one run of
`streamSSE`: subscribe, read the history, replay it, go live and drop what both brought,
leave.  An entry is its sequence number.  `Add` gives an entry to the subscribers that have
room and forgets the oldest one of a full ring, in one locked step.

### EndpointCatalog

There is one model, which a source lists or not.  An entry of the map is `cached`; a call of
`refreshEndpointCatalog` is a pair of a process and an endpoint.  `Look`, `Warm`, `Join` are
a request; `Refresh`, `Drop` the worker and the panel's button; `Enter`, `FetchEnds`, `Gone`
a call.  Every process works on the copy of the configuration it took when it began.

### CCTokens

Three places of a refresh token: upstream (`newest`), a pool, `config.json` (`filed`).  An
actor is a request or the worker; each takes the configuration, the pool in use or a new one,
refreshes if the account's token is about to expire, and copies the pool's token to the
configuration (`ReadToken`, `ReadConfig`, `SaveConfig`: `syncRefreshedAccountToConfig`, which
a request runs for every answer, refreshed or not).  The panel saves settings.  Nothing keeps
actors apart: they overlap at every step, in one pool or in several.

`GivenIsFiled` is what then holds: every token that upstream gives is on its way to
`config.json` until it has been there, whatever else is written (`reached` is the newest token
of an account that the file ever had), unless a save of that account fails or a tick of the
worker ends with an error.  That it *stays* there does not hold: `RefreshedIsSaved` is
violated already by the worker alone, and also by two requests of which the later save writes
the older token.

### OpenRouter

One action per stage of the loop in `forwardToOpenRouter`: `SelectChain`, `FilterCapable`,
`CheckDeadline`, `Wait`, `Attempt`, the answers (`NetworkError`, `ErrorStatus`, `HarnessGate`,
`RateLimited`, `Headers` followed by `BodyFails`, `StreamBreaks` or `Served`), `SetSticky`.
What requests share are the provider router (`consecFails`, `resting`, `sticky`), the
catalog it ranks by, the cooldown and `appSpoof`, the attribution headers that a gate turns
on for everybody.

### MessageStream, EventWire and the translators

`MessageStream` says what a client is promised: a message begins once, its blocks are opened
one after the other, text goes to the open block and is of its kind, the stop reason comes
once, after the last block, and nothing follows an error.  `EventWire` is the pipe between a
translator and its client (writes are synchronous) with the client's fold of the events into
a message, and the block emitter the two Zen translators share.  `ZenResponses`, `ZenChat`
and `CloudStream` have one action per upstream event.  Text is a sequence of pieces, so that
a text shown twice, or cut, or put into another block is seen.  What the client has folded
is mapped to `MessageStream`, and `StreamsAsPromised` is the refinement.

In `ZenResponses` a refusal delta may be empty (`EmptyRefusal`): it declines the turn and shows
nothing.  In `CloudStream` a thought may have no text (`blank`): it opens a thinking block and
has a delta all the same, so that the promise is about deltas there, and about text in text
blocks.

`ZenResponses.Aggregated` and `AggregatedStop` are the answer and the stop reason that a client
which does not stream gets, computed from what upstream said; `StopsAgree` compares the stop
reasons of the two, which differ (section 6).

## 4. Runs

Modules that share nothing are checked in one run where their sizes allow it: a variable
`part` says which of them a behaviour is about, and the others stand still.

| run | instance | distinct states | shows |
|---|---|---|---|
| `background` | either the bumper, with 3 sessions, bodies of 1, 2, 4 and room for 2 records and 3 bytes, or 2 sessions, cap of 1, time 6, or 1 session and three settings of the knobs; or 2 requests, 2 generations of the Claude Code pool, 2 changes each, a disk that may fail, a close; fair | 306 k | byte count and both limits (`WithinBudget`), older sessions go first (`KeepsNewest`), one retry (`RetriesOnce`), the cap (`BumpCap`), a stop is final until a turn (`StoppedStaysStopped`), a due session is served (`DueServed`); `OneSaver`, `NothingForgotten`, `NewestPoolWins`, `ImplementsOwner`, `RequestsServed`, `RetireReturns` |
| `cachebump_stale` | 2 sessions, time 12 | | *violation* of `StaleResultIgnored` |
| `poolsave_flush` | 2 requests, 1 generation, a healthy disk | | *violation* of `NothingLostOnClose` |
| `pool_health` | either 1 account, 2 requests or bumps, resets 2 steps away, and time 3 or 2 generations with deletions and logins; or 3 goroutines, 2 accounts, every operation but one | 571 k | what a 429 closed stays closed until its reset (`ClosedStaysClosed`), the load of an account is the number of requests that hold it (`InFlightExact`), no circle of waiting (`NoCircularWait`) |
| `poollocks_refresh` | 2 goroutines, with `RefreshTokenIfNeeded` | | *violation* of `NoCircularWait` |
| `pool_affinity` | 2 accounts, 2 sessions, 2 requests, room for 1 mapping | 941 k | the two maps agree and stay bounded (`StickySound`), a session moves only for a reason (`AffinityKept`) |
| `dispatcher_pool` | up to 2 accounts, 2 requests, 1 model, 1 attempt, 1 capacity retry, one operator edit or a close | 986 k | `TypeOK` (attempts bounded, counts in range), `MeterExact`, `ClosedQuiet`, `NotAllGone` |
| `server` | 2 processes that both write back, 2 agy logins, 3 tokens, 1 fault, no stalls; or 2 Kimi flows, 2 handlers, 1 failed save, 1 lost answer; or a ring of 2 entries, buffers of 2, 4 entries, 2 readers; or 1 endpoint, 2 sources, 2 requests, the panel's forced refresh, 1 change; or 1 account, 3 tokens, 2 requests and settings that are saved, or a request and the worker, at once; or the worker with 2 accounts | 1028 k | the eleven properties of `AgyToken`, `KimiLogin`, `LogStream`, `EndpointCatalog`, `CCTokens` |
| `tokens_worker` | 2 accounts, the worker alone | | *violation* of `RefreshedIsSaved` |
| `gateways` | 1 request to OpenRouter with three catalogs and three orders, or 2 requests for a pinned provider, 2 providers; or a Zen or Cloud Code answer of 2 items, or 3 parts; fair | 588 k | `GaveUpAfterAll`, `GateTriedSpoofed`, `RequestsEnd`; `AnswerExact`, `StopTells`, `StreamsAsPromised` |
| `openrouter_custom` | 1 request, a custom order of one provider | | *violation* of `CustomStaysInside` |
| `responses_stop` | 1 message that may decline | | *violation* of `StopsAgree` |

**Bounds and why they are enough.**  Each bound is a constant named in its module.
`MaxTime` and `MaxTurns` (bumper) let a record be armed, bumped, retried or capped, re-armed
in between, and pruned; `Sizes` holds a body larger than the whole budget, one that fills
most of it and one that fits beside another, so an insert evicts none, one or two records;
the three knob settings differ in whether bumping is on and in how long a client may idle.
`MaxGen = 2` is the only handover there is to get wrong: a third pool meets the second as
the second met the first.  `MaxVer = 2` lets a change come while an older copy is being
written.  Three goroutines are what a circle through a waiting writer needs.  Affinity is
checked with one slot, so every second selection evicts; its clock stands still and its pool
is not replaced (`OnePoolNext`), so all entries are equally old, any of them may be evicted,
and an account that cools down stays unavailable.  `pool_health` has one account because the
properties are about one account and failures of others do not touch it; limits and
replacement of the pool do not meet there (`LimitsOrEdits`: the product is too large), and do
in the proofs.  In `dispatcher_pool` a request makes one attempt (each of the two requests
may meet either account), an email has one object and at most one edit happens: with more
TLC takes too long, and replacement of an object that a request holds, rotation inside one
request and longer sequences of edits rest on the proofs, which have no such bounds.

In `server`, three inodes let a caller hold a file that two renames have replaced; two logins
are the user's change of account; three access tokens are a refresh
after a refresh (with four TLC needs 6.4 million states, and finds nothing new).  The
Kimi flows are two so that a login replaces another while a refresh of the first is out;
one failed save leaves a credential in memory only, and the next refresh starts from it.
A ring of two entries with four written overflows twice while a reader replays.  One
endpoint is enough where properties are per endpoint; the walk over several rests on the
proofs.  Who refreshes a catalog there is the panel, whose refresh is forced; the worker's, which
keeps the retry gap, and both together rest on the proofs.  Tokens: two requests, or a request
and the worker, are what an overlap needs, three tokens a refresh after a refresh; a part ends
(`FewAtOnce`) when the exemption of `GivenIsFiled` covers every account; all three at once
rest on the proof.  In `gateways` an answer has two items, enough to interleave them, to say one twice
and to end within one; three parts of a Cloud Code answer change the kind of block twice.
The lengths (`MaxPieces`, `MaxChunk`, `MaxFrame`) let a text come in one delta, in several
and half by deltas, half as a whole.  OpenRouter's threshold of two and one more walk
(`MaxRetries`) let a breaker trip within a request and close again within the other.

**Deadlock** is checked wherever the system goes on for ever: `cachebump_stale`, `poollocks_*`,
`pool_*`, `dispatcher_pool`, `tokens_worker`.  `background` and `poolsave_flush` do not check it, because
there the bounded number of changes and the close really end the behaviour, nor do `server`,
`gateways`, `openrouter_custom` and `responses_stop`, where an answer ends, a panel leaves and the bounds on
logins, tokens and entries are reached.

**Symmetry** is used in runs without liveness properties, for constants no definition tells
apart: requests, goroutines, guarded accounts, accounts, sessions, emails, logins and
handlers.

**Fairness.**  `CacheBump.FairSpec` assumes weak fairness of the scheduler goroutine: its
ticker fires for ever and every send has a deadline of 30 seconds, so it always takes its
next step.  Clients, the operator and the clock need not act.  `CCPoolSave.SaveFairSpec` assumes
that goroutines which have begun go on, each for itself: a request that is about to save
(`RequestGoesOn`), the save goroutine of a pool (`SaverGoesOn`), the holder of `ccPoolMu`
(`ManagerGoesOn`); a change, a rebuild and a close need not come.  `background` assumes the
two where the part runs.  No
fairness is assumed between a save that fails and one that succeeds.  `OpenRouter` assumes
that a request's goroutine goes on (the budget bounds the time to the first byte of
an answer; that a body which has begun ends, by upstream or by its client, is assumed) and
that a cooldown ends; nothing is assumed of what upstream answers, of the breaker or of the operator.


## 5. Proofs

TLAPS checks all of the following for every value of the constants that satisfies the
assumption named in the module (`ConstantsAssumption`, `NoneAssumption`, `SaveAssumption`,
`PoolAssumption`, `LocksAssumption`, `DispatcherAssumption`, `EndpointCatalogAssumption`, `AgyAssumption`,
`KimiAssumption`, `LogStreamAssumption`, `OpenRouterAssumption`, `TokensAssumption`, `ZenResponsesAssumption`,
`ZenChatAssumption`, `CloudStreamAssumption`: sizes,
delays and limits are natural numbers, the marker for nothing is none of the things it stands
beside, the sets that are counted are finite, requests, worker and panels are different
processes, an endpoint has one place in the configuration, an item of the Responses wire has
pieces only of the parts its type has).  Three theorems have hypotheses of
their own: `NoCircle` (`Ops \subseteq SafeOps`: every operation but `RefreshTokenIfNeeded`,
which section 6 is about), `KeepsRefreshToken` (`~Stalls` and `OneKind`, see `AgyToken` above) and `CapHolds`
(`OneCap`: an edit of the settings leaves the cap alone; a cap that is lowered is of course
passed by the sessions that were bumped before).  What the table's modules state:

| module | theorems that state a property of a run | others |
|---|---|---|
| `CacheBump_proofs` | `RetriesOnceAlways`, `StoppedStays`, `BudgetHolds`, `NewestKept`, `CapHolds` | `TypeCorrect`, `Inductive`, `NextBumpInWindow` |
| `CCPoolSave_proofs` | `Refinement`, `NewestWins`, `SaverInvariant`, `NotForgotten`, `TokensReachConfig` | `SaveInvariant` |
| `CCPool_proofs` | `ClosedStays`, `InFlight`, `StickyCorrect`, `AffinityHolds`, `NoCircle` | `TypeCorrect` |
| `Dispatcher_proofs` | `TypeCorrect`, `MeterCorrect`, `CloseCorrect`, `NeverAllGone` | |
| `Logins_proofs` | `AnswersCurrentLogin`, `KeepsRefreshToken`, `KeepsNewest`, `SignInWhenLost` | `AgyTypeCorrect`, `KimiTypeCorrect` |
| `Server_proofs` | `InOrder`, `NothingElseMissed`, `RoutesByOwnSource`, `RoutesWhatItWaitedFor`, `RequestsFetchFirstOnly`, `WaitersAreWoken` | `LogTypeCorrect` |
| `Gateways_proofs` | `AllAsked`, `GateAfterSpoof`, `StreamsKeepPromise`, `StopReasonTells` | `ORTypeCorrect`, `ChainsUnrepeated`, `StreamsSound` |
| `Answers_proofs` | `AnswerShownExactly` | `AnswersSound` |

Every invariant that a passing run checks is stated by one of these theorems.

**CacheBump.**  `NextBumpInWindow`: the next bump is after the turn and
before the cached prefix expires, whatever lead is configured.  `Inductive` is
`Spec => []IInv` with `IInv = TypeOK /\ PhaseOK /\ RetriesOnce /\ CopiesAhead /\ StampsUnique`.
`RetriesOnce` is not inductive alone: the retry budget is read from a *copy* of the record
and counted in the store, so one needs that no record is ahead of the copy the scheduler
holds (`CopiesAhead`: a record can only have been re-armed with a count of zero) and that a
pass holds one copy per key.  `StoppedStays` follows action by action from what each
store call does to one record, and needs `StampsUnique`: the time of the last turn
identifies one arming of a session.

`BudgetHolds` and `NewestKept` are about a sum over the records held, which `SizeOf` computes
by a fold that takes one record after another.  The lemmas before them show that the fold
exists, that its value does not depend on the order, and that it is additive (`SumExists`,
`SumAgree`, `SumAny`, `SumSplit`, `SumSame`).  These are inductions over finite sets; the
library's induction theorems take an operator, which no prover here can instantiate, so each
is made by least counterexample: `LeastNat` (from `WFMin` and `NatLessThanWellFounded`) takes
a set, and the set is that of the sizes at which the claim fails.  `Budget` then has three
parts: `WithinBudget`; `HeldOK`, the sessions held are finitely many, so that there is a sum;
`Distinct`, no two of them were seen at one time, so that the evicted prefix of the order is
the oldest.  `CapHolds` needs `BelowCap`: a record that waits, or that is being bumped, is
below the cap, since the scheduler counts a bump and tests the cap in two store calls.

**CCPoolSave.**  `SaveInvariant` is `SaveSpec => []SaveIInv` with
`SaveIInv = SaveTypeOK /\ Ownership`; `Ownership` says that every write under way works on the
published pool and is counted in its wait group, that replaced pools are retired, and that
no copy is ahead of its pool.  From it `Refinement` (`SaveSpec => ImplementsOwner`): `Publish`
waits for an empty wait group, so a write is always the owner's.  `NewestWins` follows.
`SaverInvariant` and `NotForgotten` add what the flags mean: `saving` is true exactly while
the save goroutine runs, and a change that no copy has yet is marked, requested, or about to
be copied by a writer that has passed its test of retirement.

**CCPool.**  `TypeCorrect` and `ClosedStays` come from
`IInv = TypeOK /\ Trying /\ Covered`.  `Covered` is the strengthening: a window that a 429
closed lies inside the account's cooldown, which only grows; the snapshot in `limits`, which
later answers may overwrite, is not what keeps the account closed.  `InFlight` comes from
`Load = Behind /\ LiveSlots /\ NoGhost /\ InFlightExact`, an induction on the requests that
hold each slot: each step adds, removes or keeps one holder, and a slot made anew has none
unless it was deleted before.  `StickyCorrect` and `AffinityHolds` come from
`Sticking = Agree /\ Pinned /\ Bounded /\ Unused`: the two maps agree, a session is mapped to
an account of its own pool, the map is bounded, and pools to come have no sessions, without
which a rebuild, which makes the slots of the next pool, could leave a mapping to an account
that is not there.  A request that holds a replaced pool maps its session in that one, so
`Behind` (no request is ahead of the published pool) is needed too.

**CCPoolLocks.**  `NoCircle` is for any number of goroutines and accounts, and any order of
the map.  A program *runs* from what is held before it to nothing held if each event takes a
lock that may be asked for, or releases one that is held (`Runs`); `ProgramsGood` shows it
for each operation, also for the walk over the accounts, which is as long as there are accounts.
`LocksInv` then says that what a goroutine has left runs from what the locks say it holds.
What may be asked for (`MayAsk`) is not quite an order: gate, pool, accounts, but the ranking
in `SelectAccount` holds one account and reads another.  It may because it has the pool for
itself, so there is one ranking at a time (`OneCompares`), and no writer of an account asks
for anything more.  `Level` turns this into a number: whoever is waited for has a higher one
(`Climbs`), so in every set somebody waits for nobody of it.  `Level` puts the account the
ranking holds before the one it asks for, and a writer that has announced itself before those
that find it there.

**Dispatcher.**  The invariant is one conjunct per account table
(`Accounts`) and per call table (`Calls`).  `MeterCorrect` and `CloseCorrect` need `TailOver`:
a stream is read on only for a request that has its answer, so a request and its background
read never stand for the same call.  `NeverAllGone` splits the steps into the mild ones,
which keep a lock, shorten it or set one no longer than a limit's or a failure's, and the
404, which sets the long one only while another account can serve the model.

**AgyToken.**  `AnswersCurrentLogin` is the weave of three facts about times, locks and
history.  A cached token is taken for the file's when the times agree, so times must tell
logins apart (`TimesTell`), also that of a token not yet written (`Unwritten`).  A token read
under the lock is written to the inode it was read from, or renamed over the path, hence
`Locked`: the file a caller holds keeps the login of its token.  `SeenAll` says what the
answer can still become.  `KeepsRefreshToken` has the invariant `RefreshInv`, whose core is
`LaterIsNewer`: while a caller is about to write, whoever has the same refresh token or a
later one has an access token at least as new, so does not refresh with it (`Tired`) before
the write is done, which without stalls is before the token ends (`InTime`).

**KimiLogin.**  `KimiInv` follows a refresh token through five places: the configuration,
the credential that could not be saved, the credential it replaced, and the two copies a
refresh works on.  `HandlersOK`: the mutex belongs to exactly one handler, and the
credential it found is still the configured one unless somebody cleared it, because
`Register` and `Logout` take the mutex and the settings handlers, which do not, can only clear.  `FlowsOK` and
`ClaimsOK`: nobody has a credential of a flow before its registration, and one handler
registers it.  `UnsavedOK` and `StoredOK`: as long as the configuration holds the token that
was replaced, its successor is the newest one or lost.  `SignInAgainOnlyIfLost` is the part of
`KimiInv` that says a refresh is never made with a spent token.

**LogStream.**  `RingOK`: the ring holds consecutive numbers.  Per stream, `OrderOK` puts what
is written before what is replayed; `PromiseOK` has every entry since the subscription
written, to be replayed, queued or refused; and `DenseOK`, the part that is easily
forgotten, has no hole *below* what is written, without which dropping the queued entries
up to the last number written could drop one that was never written.

**EndpointCatalog.**  `IInv` has the four properties and what they
need.  `NobodyWaitsInVain` needs that a call names somebody to wait for exactly while it
waits (`CallsOK`) and that the fetch an entry names is under way *for the entry's own
source* (`LeaderOK`), which with `FromOwn` also gives `RoutedByOwnSource`.  `FetchesFirstOnly`
needs `CalledOK`: between the test of a request and its call the entry is still untried or
has been tried within the retry gap.  `WaitedThenRouted` is about runs in which nobody
changes the configuration: there is then one copy of it (`OneCopy`), one source for a name
(`OneSource`), one fetch at a time (`OneFetch`), what a fetch listed stays (`GotKept`), and
who was told so still has the place ahead where the model is found (`ToldRoutes`).

**CCTokens.**  `TokensReachConfig` has no hypothesis on who overlaps whom: any number of
requests and workers, pools that are replaced under their holders, settings saved at any time.
Its invariant `TokensInv` adds to `GivenIsFiled` what each actor has in hand (`Hands`) and two
facts about all places where a token can be (`Known`: the file, every pool, the copies of the
configuration, the token an actor is about to ask with or to write).  `Given`: none of them has
a token upstream has not given.  `FreshStored`: a token on its way into a pool is the newest, and
nobody else has it; upstream gives a new one only for the newest, so two refreshes of one
account are never both about to be stored.  Hence what stands in a pool's place when the new
token is stored is older, whoever was bringing the newest one still brings it, and a save that
puts an older token over it comes after the file has had it.

**OpenRouter.**  Per request `ORInv` relates its place in the chain, its marks, its walks and
whom it asked (`AskedOK`): the marked were asked in this walk, and so was every candidate
before its place, since a candidate is only passed when it is marked or after its answer.
`MarksOK` has no mark ahead of the place, so that in a chain without repetitions nobody is
skipped; `EndOK` then has the end of the chain passed by the last walk, or by an answer no walk
would mend.  With a repetition the proof does not go through, and TLC shows why: the
last mention of a provider is skipped as marked, and a skip, unlike an answer, never
begins another walk (section 6).  `GaveUpAfterAll` says so now, and `ChainsUnrepeated` says that only
the operator's own order can have such a chain.  It needs what `Keep` and `Once` return
(`KeepPart`, `OncePart`): both are recursive over a list, so the lemmas are by
least counterexample again.

**Streams.**  `StreamsKeepPromise` is `Spec => StreamsAsPromised`: each translator implements
`MessageStream`, for any answers, and for any order, repetition or loss of upstream's events.
The refinement mapping takes the client's message as it is; a step of the translator leaves
the message alone and puts events on the wire, a step of the client takes one.  What makes
the second a step of the promise is a message `z` that the invariant keeps in an existential:
`Delivers(wire, message, z)` says that the wire's events make `z` of the client's message, one
step of `MessageStream` at a time.  `At` then says where the emitter stands in `z`: the
block it has open is the last one and the only open one, and its next index is the number of
blocks plus one.  Each primitive of the emitter (`StartMessage`, `OpenNext`, `Write`,
`CloseCurrent`, `Conclude`, `EmitError`) has a lemma that its events extend the delivery from
`z` to the next one, and the handlers are put together from these.  `ChatInv`, `CloudInv` and
`RInv` add what a handler relies on: the block a call was given is a tool block that holds
only that call's arguments (`ROwned`), no text block is empty and each piece is of its
block's kind (`Decent`), and the record's counts say what `z` shows (`toolItems`, the stop
reason heard so far).  The delivery is by steps because the client's fold of the whole wire
would need an induction over the events at every step.

`StopReasonTells` comes from the same invariant: at the end the last message on the wire has the
stop reason that the record computes (`REnded`, `ChatEnded`, `CloudEnded`).  On the Responses
wire it needs `Declines` (a refusal that was shown is the record's stop reason from then on,
however many caps and calls come after it) and `RHeard` (the record's stop reason is the one that
upstream's events so far call for).

**What a message shows.**  `AnswerShownExactly` compares a finished message
with everything upstream said.  Its invariant `AnswersInv` is that of the streams with one
conjunct per translator, each of which says of *every* message `z` that the wire delivers
which piece is in which block; the events on the wire make only one (`DeliversOne`), so
that a step may speak of the `z` it extends.

* Chat (`ChatShown`): per call, the block's text is the arguments received, all of them while
  the block is open; thinking and text are what was said, in order.
* Responses (`RShown`): per item and part, what the client has is what the record has marked
  as sent, and what is marked is what upstream's events have said, by deltas, by done item or
  by the completed response, whichever came first (`RSaid`).  What a restatement adds is
  therefore what is missing and nothing else, and a summary's gap stands where upstream tells
  the boundary.  Arguments may lack their end only if the call's block is not the last.
* Cloud (`CloudShown`): the message's blocks are the runs of the visible parts (`LaidOut`), one
  block each, where a run is given by its first and last part; the converter writes to the
  block of the last part (`Facing`), and the open thinking block is complete but for the
  signature that the converter keeps.  `Numbered` has the parts' numbers increase, from which
  the greatest signature of a run is the last one received.

What the client has of an item is computed by recursion over the blocks and, in each, over
the pieces.  That such functions exist is shown by least counterexample as above (`WalkExists`
and, from it, `SelectsExists`, `GathersExists` and `LeavesExists`); `ReceivedNext`, `ReceivedMore`
and `OnlyJoins` then say that a block or a piece more extends the result at its end.
The number of a block of `CloudExact` is the cardinality of the
beginnings so far; it is the place of the run in the list of runs by a bijection
(`FS_Bijection`).

The invariants were checked by TLC on small instances before they were proved, those of
`AgyToken` without stalls and with one answer of the provider, `Sticking` with two pools
on 4.7 million states.  Those of the streams quantify over all messages, which TLC cannot do.

**Only model-checked.**  Liveness under fairness (`DueServed`, `RequestsServed`, `RetireReturns`,
`RequestsEnd`), since it needs ENABLED, which is out of the prover's reach.  The six runs that
end in a violation have, of course, nothing to prove.

## 6. Where the code and its words disagree

Each has a run that ends in the behaviour described; `PROJECT.json` has the quotations.

* `scheduler.go:171`: the comment says a stale bump result must not touch the state of a
  newer turn.  The freshness test and the update are separate store calls, and a turn
  recorded in between is stopped or rescheduled by the older outcome (`cachebump_stale`).
* `pool.go:558`: `Flush` returns at once while a requested background pass has not begun,
  and `Retire` then drops it: the last change is lost on an orderly close (`poolsave_flush`).
* `pool.go:315`: `RefreshTokenIfNeeded` takes the account's lock and then the pool's; the
  other operations that hold both take the pool's first: two goroutines can wait for each other for ever
  (`poollocks_refresh`).
* `server.go:2295`: a custom order is an allowlist, says the comment in `capability.go`; when
  none of its providers can serve a request's tools, the request is sent with no order at all
  (`openrouter_custom`).
* `server.go:320`: the worker returns on any error before it copies the tokens it did refresh
  to `config.json` (`tokens_worker`), while the plan asks for refreshed tokens to be persisted
  atomically.
* `responsesstream.go:165`: the two translations of a Responses answer must agree on why the
  turn stopped, says `responseswire_test.go`, and a comment at 224 that a decline must survive
  the fold.  A refusal that only `response.completed` carries, of a message that was announced
  empty, is told to the client that streams and not to the other (`responses_stop`).

The models contain more that is worth knowing and that no word of the repository denies:

* OpenRouter: a custom order that names its last provider twice gets one walk only, however
  many retries are configured (the panel lists a provider once for each of its endpoints,
  and the custom branch of `SelectChain` keeps the repetitions).  A client that leaves counts as a failure of its provider; the pause between
  attempts is bounded by the client's patience, not by the budget; the success of a request
  that began before a 429 deletes the cooldown; `SetSticky` can bring back a provider whose
  breaker has tripped meanwhile.
* Streams: a Cloud Code stream that ends without a finish reason ends the message as
  `end_turn`; an answer with no parts is an empty message.  The fold for clients that do not
  stream keeps only what came by deltas when the item says more at its end, so the text of the
  two answers may differ as their stop reasons do; an empty refusal delta declines the turn of
  the client that streams only.
* Discovery: the worker's drop goes by an old copy of the configuration, and so does a
  request that replaces an entry; both cost a fetch, not a wrong route.
* Claude Code tokens: requests that overlap can write an older token over a newer one in
  `config.json`, so that the next pool asks with a spent one, and a copy of a token puts back
  settings saved meanwhile: the plan's "thread-safe" and "atomically" do not hold of overlapping
  requests either, though the run shows it for the worker.  `claudecode_accounts.json` is written and never read.
* Writers of `config.json` have no lock in common; the comment that the Kimi credential is
  saved under one is not true of the settings handlers.

## 7. What is not covered

Within the modelled components: the scan for cache markers and the senders of the bumper;
the parsing of headers; in the dispatcher the order of the strategies, health scores and
token buckets, filters by quota, `CoolingDownUntil`, the listing and recovery passes,
`Reload`, saving, the conversation-start and live-quota calls, and the catalog fetches and
searches for a missing model, for which `Close` does not wait (`ClosedQuiet` is about streams that
are read on); the loopback logins of
Claude Code and Google; OpenRouter's ranking score, pacing interval, session totals, response
cache and statistics; usage figures and names of tools in the streams; the non-streaming
fold of the Chat wire; login, import and deletion of accounts in `CCTokens`; `Clear` of the
ring, which nothing calls; a post of the configuration that brings a Kimi credential of its own.

Among the components: those marked pure in the inventory have no protocol to check and are
candidates, where it is worth it, for functions on bounded inputs; those that are plumbing
(transports, TLS, wire order), generated (`src/gen`, most of the repository's lines) or
presentation (web panel) or offline tools are out of a model of this grain.

Hazards seen and without a property yet (besides those in `PROJECT.json` with a note): the
index of the sticky strategy after `RemoveAccount` shifts the list; two of the manager's
selections run under separate locks, so "no accounts available" can be said of a pool that
is just recovering; a rebuilt Claude Code pool forgets cooldowns; a flow that is started
again while its loopback listener is closing; the registry of the capture proxy evicts by
a time that several entries share; at capacity OpenRouter's session totals drop the oldest
session even if the one recorded exists; quick retries of the dispatcher are unbounded
while upstream names short delays; a configuration file that cannot be parsed is taken for
an absent one; a pid file that outlives its process.

## 8. Plan

Done: the pools and the bumper (`CacheBump`, `CCPoolSave` with `CCStoreOwner`, `CCPoolLocks`,
`CCPool`, `Dispatcher`), then what they lean on (`AgyToken`, `KimiLogin`, `CCTokens`), the
other gateways (`OpenRouter`, the translators with `MessageStream`, `EndpointCatalog`) and
`LogStream`.  The order was by importance: what every request passes and what is shared
between requests first.

Next, models:

1. `Dispatcher`: liveness (a request ends once upstream is healed), the sticky and
   round-robin strategies.
2. Saves of `accounts` and `stats` as instances of one abstract protocol with `CCPoolSave`,
   and the writers of `config.json` as one composition.
3. Zen's failover between two egress routes; OpenRouter's session totals, the capture
   registry and the turn store as bounded stores; the model catalog's single fetch
   (`dispatcher.go` 246-330).
4. Pure functions against a reference definition: gateway order, mapping of models in at
   most five hops, normalisation of the configuration, the output guard.

Next, proofs: the invariants of the models above as they come; for `Dispatcher` and
`CCPoolSave` the same protocol of saves once it is an abstract specification of its own.

## 9. Running it

    tlc -workers 2 -config MCCPool_affinity.cfg MCCPool
    tlapm CCPool_proofs.tla

Every run takes at most a few minutes on two cores; `PROJECT.json` names the module,
configuration and expected result of each, the mutants that break each property, the lines
each definition models, and the theorems.
