------------------------------- MODULE KimiLogin -------------------------------
(***************************************************************************)
(* The Kimi Code login of the proxy: the device flow of                    *)
(* internal/auth/kimi_oauth.go, the handlers that poll, cancel and log out *)
(* (internal/api/kimi_oauth_handlers.go) and the refresh of the stored     *)
(* credential (refreshKimiOAuth in internal/api/server.go).                *)
(*                                                                         *)
(* A credential is the device login it came from and the number of its     *)
(* refresh token; Kimi replaces the refresh token with every refresh and   *)
(* honours the newest one only.  Handlers run one request at a time.       *)
(***************************************************************************)
EXTENDS Naturals

CONSTANTS
  Sessions,     \* device flows, each a login of its own
  Handlers,     \* goroutines that serve the management and message routes
  NoCred,       \* no credential, no holder
  MaxAttempts,  \* the attempts of one RefreshToken (3 in the code)
  MaxVersion,   \* bound: refresh tokens of one login
  MaxSaveFails, \* bound: saves of the configuration that fail
  MaxNetFails   \* bound: refresh requests without an answer, and crashes

ASSUME KimiAssumption ==
  /\ MaxAttempts \in Nat \ {0} /\ MaxVersion \in Nat \ {0}
  /\ MaxSaveFails \in Nat /\ MaxNetFails \in Nat
  /\ NoCred \notin Handlers /\ NoCred \notin [login : Sessions, version : Nat]

VARIABLES
  status,     \* KimiAuthSession.Status; "ended" is expired, denied, cancelled or error
  registered, \* KimiAuthSession.registered
  stopped,    \* the poller's context is cancelled
  poller,     \* what pollDeviceGrant does
  listed,     \* KimiOAuthManager.sessions
  valid,      \* the refresh token Kimi honours for a login
  expiring,   \* the latest version whose access token is about to expire
  stored,     \* kimi.oauth in the configuration
  unsaved,    \* kimiUnsaved
  from,       \* kimiUnsavedFrom
  dead,       \* kimiDeadRefreshToken
  mutex,      \* kimiRefreshMu: who holds it during a refresh
  at,         \* what a handler does next
  on,         \* the session a handler works on
  before,     \* the credential a refresh found in the configuration
  current,    \* the credential it sends, then the one it received
  attempt,    \* attempts made
  saveFails, netFails,  \* faults so far
  lost        \* history: logins whose newest refresh token nobody has any more

sessionVars == <<status, registered, stopped, poller, listed>>
credVars == <<stored, unsaved, from, dead>>
refreshVars == <<before, current, attempt>>
faultVars == <<saveFails, netFails, lost>>
kimiVars == <<sessionVars, valid, expiring, credVars, mutex, at, on, refreshVars, faultVars>>

Cred(s, v) == [login |-> s, version |-> v]
Expiring(c) == c.version <= expiring[c.login]
HandlerAt(h, step) == at' = [at EXCEPT ![h] = step]
SaveFails == saveFails < MaxSaveFails /\ saveFails' = saveFails + 1
NetFails == netFails < MaxNetFails /\ netFails' = netFails + 1

KimiInit ==
  /\ status = [s \in Sessions |-> "none"]
  /\ registered = [s \in Sessions |-> FALSE]
  /\ stopped = [s \in Sessions |-> FALSE]
  /\ poller = [s \in Sessions |-> "off"]
  /\ listed = {}
  /\ valid = [s \in Sessions |-> 0]
  /\ expiring = [s \in Sessions |-> 0]
  /\ stored = NoCred /\ unsaved = NoCred /\ from = NoCred /\ dead = NoCred
  /\ mutex = NoCred
  /\ at = [h \in Handlers |-> "idle"]
  /\ on = [h \in Handlers |-> NoCred]
  /\ before = [h \in Handlers |-> NoCred]
  /\ current = [h \in Handlers |-> NoCred]
  /\ attempt = [h \in Handlers |-> 0]
  /\ saveFails = 0 /\ netFails = 0 /\ lost = {}

-----------------------------------------------------------------------------
(* The device flow *)

\* registerSession, the end of StartDeviceAuth: every earlier flow is told to
\* stop and leaves the map.
RegisterSession(s) ==
  /\ status[s] = "none"
  /\ status' = [t \in Sessions |->
                  IF t = s THEN "pending"
                  ELSE IF t \in listed /\ status[t] = "pending" THEN "ended" ELSE status[t]]
  /\ stopped' = [t \in Sessions |-> stopped[t] \/ t \in listed]
  /\ listed' = {s}
  /\ poller' = [poller EXCEPT ![s] = "polling"]
  /\ UNCHANGED <<registered, valid, expiring, credVars, mutex, at, on, refreshVars,
                 faultVars>>

\* The token endpoint answers with a token.  A cancelled context stops the
\* poller at its next sleep or request, not after an answer.
Granted(s) ==
  /\ poller[s] = "polling" /\ ~stopped[s]
  /\ poller' = [poller EXCEPT ![s] = "granted"]
  /\ valid' = [valid EXCEPT ![s] = 1]
  /\ UNCHANGED <<status, registered, stopped, listed, expiring, credVars,
                 mutex, at, on, refreshVars, faultVars>>

\* The profile was asked for; the session is completed whatever its status is.
Completed(s) ==
  /\ poller[s] = "granted"
  /\ poller' = [poller EXCEPT ![s] = "off"]
  /\ status' = [status EXCEPT ![s] = "completed"]
  /\ UNCHANGED <<registered, stopped, listed, valid, expiring, credVars,
                 mutex, at, on, refreshVars, faultVars>>

\* Denied, expired, cancelled or failed: finish, while the session is pending.
PollEnds(s) ==
  /\ poller[s] = "polling"
  /\ poller' = [poller EXCEPT ![s] = "off"]
  /\ status' = [status EXCEPT ![s] = IF @ = "pending" THEN "ended" ELSE @]
  /\ UNCHANGED <<registered, stopped, listed, valid, expiring, credVars,
                 mutex, at, on, refreshVars, faultVars>>

-----------------------------------------------------------------------------
(* The handlers of the device flow *)

\* handleKimiAuthStatusGet: GetSession, then Snapshot.
GetSession(h, s) ==
  /\ at[h] = "idle" /\ s \in listed
  /\ HandlerAt(h, "snapshot")
  /\ on' = [on EXCEPT ![h] = s]
  /\ UNCHANGED <<sessionVars, valid, expiring, credVars, mutex, refreshVars, faultVars>>

Snapshot(h) ==
  /\ at[h] = "snapshot"
  /\ HandlerAt(h, CASE status[on[h]] = "completed" -> "claim"
                    [] status[on[h]] = "ended" -> "remove"
                    [] OTHER -> "idle")
  /\ UNCHANGED <<sessionVars, valid, expiring, credVars, mutex, on, refreshVars, faultVars>>

\* (wrong variant: every poll of a completed session saves its token)
ClaimEveryTime(h) ==
  /\ at[h] = "claim"
  /\ HandlerAt(h, "save")
  /\ registered' = [registered EXCEPT ![on[h]] = TRUE]
  /\ UNCHANGED <<status, stopped, poller, listed, valid, expiring, credVars,
                 mutex, on, refreshVars, faultVars>>

ClaimCompletion(h) ==
  /\ at[h] = "claim"
  /\ IF registered[on[h]]
     THEN HandlerAt(h, "idle") /\ UNCHANGED registered
     ELSE HandlerAt(h, "save") /\ registered' = [registered EXCEPT ![on[h]] = TRUE]
  /\ UNCHANGED <<status, stopped, poller, listed, valid, expiring, credVars,
                 mutex, on, refreshVars, faultVars>>

\* registerAuthenticatedKimiOAuth, under kimiRefreshMu.
Register(h) ==
  /\ at[h] = "save" /\ mutex = NoCred
  /\ \/ HandlerAt(h, "remove") /\ stored' = Cred(on[h], 1) /\ UNCHANGED saveFails
     \/ HandlerAt(h, "release") /\ SaveFails /\ UNCHANGED stored
  /\ UNCHANGED <<sessionVars, valid, expiring, unsaved, from, dead, mutex, on,
                 refreshVars, netFails, lost>>

ReleaseCompletion(h) ==
  /\ at[h] = "release"
  /\ HandlerAt(h, "idle")
  /\ registered' = [registered EXCEPT ![on[h]] = FALSE]
  /\ UNCHANGED <<status, stopped, poller, listed, valid, expiring, credVars,
                 mutex, on, refreshVars, faultVars>>

\* handleKimiAuthCancelPost
Cancel(h, s) ==
  /\ at[h] = "idle" /\ status[s] # "none"
  /\ HandlerAt(h, "remove")
  /\ on' = [on EXCEPT ![h] = s]
  /\ UNCHANGED <<sessionVars, valid, expiring, credVars, mutex, refreshVars, faultVars>>

\* CancelSession: the map first, then the session.
RemoveSession(h) ==
  /\ at[h] = "remove"
  /\ HandlerAt(h, IF on[h] \in listed THEN "stop" ELSE "idle")
  /\ listed' = listed \ {on[h]}
  /\ UNCHANGED <<status, registered, stopped, poller, valid, expiring, credVars, mutex,
                 on, refreshVars, faultVars>>

StopSession(h) ==
  /\ at[h] = "stop"
  /\ HandlerAt(h, "idle")
  /\ stopped' = [stopped EXCEPT ![on[h]] = TRUE]
  /\ status' = [status EXCEPT ![on[h]] = IF @ = "pending" THEN "ended" ELSE @]
  /\ UNCHANGED <<registered, poller, listed, valid, expiring, credVars, mutex,
                 on, refreshVars, faultVars>>

\* handleKimiAuthLogoutPost: one critical section.
Logout(h) ==
  /\ at[h] = "idle" /\ mutex = NoCred /\ stored # NoCred
  /\ \/ stored' = NoCred /\ UNCHANGED saveFails
     \/ SaveFails /\ UNCHANGED stored
  /\ unsaved' = NoCred /\ from' = NoCred
  /\ lost' = IF stored' # NoCred /\ stored'.version # valid[stored'.login]
             THEN lost \cup {stored'.login} ELSE lost
  /\ UNCHANGED <<sessionVars, valid, expiring, dead, mutex, at, on, refreshVars, netFails>>

\* /api/config and /api/kimi/config take no mutex: a post with "oauth": null.
\* Not modelled: a post that brings a credential of its own, token and all, which
\* is saved as it is; the pages are never given a token they could post.
PostClear ==
  /\ stored # NoCred
  /\ stored' = NoCred
  /\ UNCHANGED <<sessionVars, valid, expiring, unsaved, from, dead, mutex, at, on,
                 refreshVars, faultVars>>

-----------------------------------------------------------------------------
(* refreshKimiOAuth *)

\* resolveKimiCredential: the request's copy of the configuration has a
\* credential that is about to expire.
Resolve(h) ==
  /\ at[h] = "idle" /\ stored # NoCred /\ Expiring(stored)
  /\ HandlerAt(h, "lock")
  /\ UNCHANGED <<sessionVars, valid, expiring, credVars, mutex, on, refreshVars, faultVars>>

\* What the critical section starts with: `b` is in the configuration, `c` is
\* the credential in force.
BeginRefresh(h, b, c) ==
  IF ~Expiring(c) \/ c = dead
  THEN HandlerAt(h, "idle") /\ UNCHANGED <<mutex, refreshVars>>
  ELSE /\ HandlerAt(h, "refresh") /\ mutex' = h
       /\ before' = [before EXCEPT ![h] = b]
       /\ current' = [current EXCEPT ![h] = c]
       /\ attempt' = [attempt EXCEPT ![h] = 0]

\* (wrong variant: kimiUnsaved is not looked at)
EnterRefreshIgnoringUnsaved(h) ==
  /\ at[h] = "lock" /\ mutex = NoCred
  /\ IF stored = NoCred THEN HandlerAt(h, "idle") /\ UNCHANGED <<mutex, refreshVars>>
     ELSE BeginRefresh(h, stored, stored)
  /\ UNCHANGED <<sessionVars, valid, expiring, credVars, on, faultVars>>

\* A credential that could not be saved is in force while the configuration
\* holds the one it replaced, and its save is tried again.
EnterRefresh(h) ==
  /\ at[h] = "lock" /\ mutex = NoCred
  /\ \/ /\ stored = NoCred
        /\ HandlerAt(h, "idle")
        /\ UNCHANGED <<credVars, mutex, refreshVars, saveFails>>
     \/ /\ stored # NoCred /\ (unsaved = NoCred \/ from # stored)
        /\ BeginRefresh(h, stored, stored)
        /\ unsaved' = NoCred /\ from' = NoCred
        /\ UNCHANGED <<stored, dead, saveFails>>
     \/ /\ stored # NoCred /\ unsaved # NoCred /\ from = stored
        /\ \/ /\ stored' = unsaved /\ unsaved' = NoCred /\ from' = NoCred
              /\ BeginRefresh(h, unsaved, unsaved)
              /\ UNCHANGED saveFails
           \/ /\ SaveFails
              /\ BeginRefresh(h, stored, unsaved)
              /\ UNCHANGED <<stored, unsaved, from>>
        /\ UNCHANGED dead
  /\ UNCHANGED <<sessionVars, valid, expiring, on, netFails, lost>>

LeaveRefresh(h) ==
  /\ HandlerAt(h, "idle") /\ mutex' = NoCred
  /\ before' = [before EXCEPT ![h] = NoCred]
  /\ current' = [current EXCEPT ![h] = NoCred]
  /\ attempt' = [attempt EXCEPT ![h] = 0]

\* Kimi rotates the refresh token and its answer arrives.
Refreshed(h) ==
  LET c == current[h] IN
  /\ at[h] = "refresh" /\ attempt[h] < MaxAttempts
  /\ c.version = valid[c.login] /\ valid[c.login] < MaxVersion
  /\ valid' = [valid EXCEPT ![c.login] = @ + 1]
  /\ current' = [current EXCEPT ![h] = Cred(c.login, c.version + 1)]
  /\ HandlerAt(h, "compare")
  /\ UNCHANGED <<sessionVars, expiring, credVars, mutex, on, before, attempt, faultVars>>

\* No answer, or a server error; the token may have been rotated already.
RefreshUnanswered(h) ==
  LET c == current[h] IN
  /\ at[h] = "refresh" /\ attempt[h] < MaxAttempts
  /\ NetFails
  /\ attempt' = [attempt EXCEPT ![h] = @ + 1]
  /\ \/ UNCHANGED <<valid, lost>>
     \/ /\ c.version = valid[c.login] /\ valid[c.login] < MaxVersion
        /\ valid' = [valid EXCEPT ![c.login] = @ + 1]
        /\ lost' = lost \cup {c.login}
  /\ UNCHANGED <<sessionVars, expiring, credVars, mutex, at, on, before, current, saveFails>>

\* invalid_grant
Rejected(h) ==
  /\ at[h] = "refresh" /\ attempt[h] < MaxAttempts
  /\ current[h].version # valid[current[h].login]
  /\ dead' = current[h]
  /\ LeaveRefresh(h)
  /\ UNCHANGED <<sessionVars, valid, expiring, stored, unsaved, from, on, faultVars>>

\* The last attempt failed, or a status that is not worth another came.
GivesUp(h) ==
  /\ at[h] = "refresh"
  /\ LeaveRefresh(h)
  /\ UNCHANGED <<sessionVars, valid, expiring, credVars, on, faultVars>>

\* The configuration is read again: it may have been replaced meanwhile.
CompareStored(h) ==
  /\ at[h] = "compare"
  /\ IF stored = before[h]
     THEN HandlerAt(h, "persist") /\ UNCHANGED <<mutex, refreshVars>>
     ELSE LeaveRefresh(h)
  /\ UNCHANGED <<sessionVars, valid, expiring, credVars, on, faultVars>>

Persist(h) ==
  /\ at[h] = "persist"
  /\ \/ /\ stored' = current[h] /\ unsaved' = NoCred /\ from' = NoCred
        /\ UNCHANGED saveFails
     \/ /\ SaveFails
        /\ unsaved' = current[h] /\ from' = before[h]
        /\ UNCHANGED stored
  /\ LeaveRefresh(h)
  /\ UNCHANGED <<sessionVars, valid, expiring, dead, on, netFails, lost>>

-----------------------------------------------------------------------------
(* Time and crashes *)

Expire(s) ==
  /\ expiring[s] < valid[s]
  /\ expiring' = [expiring EXCEPT ![s] = @ + 1]
  /\ UNCHANGED <<sessionVars, valid, credVars, mutex, at, on, refreshVars, faultVars>>

\* The process stops: what was only in memory is gone.
Crash ==
  /\ NetFails
  /\ lost' = lost \cup {s \in Sessions : valid[s] > 1 /\ stored # Cred(s, valid[s])}
  /\ status' = [s \in Sessions |-> IF status[s] = "none" THEN "none" ELSE "ended"]
  /\ poller' = [s \in Sessions |-> "off"]
  /\ listed' = {}
  /\ unsaved' = NoCred /\ from' = NoCred /\ dead' = NoCred /\ mutex' = NoCred
  /\ at' = [h \in Handlers |-> "idle"]
  /\ before' = [h \in Handlers |-> NoCred]
  /\ current' = [h \in Handlers |-> NoCred]
  /\ attempt' = [h \in Handlers |-> 0]
  /\ UNCHANGED <<registered, stopped, valid, expiring, stored, on, saveFails>>

KimiNext ==
  \/ \E s \in Sessions :
       RegisterSession(s) \/ Granted(s) \/ Completed(s) \/ PollEnds(s) \/ Expire(s)
  \/ \E h \in Handlers :
       \/ \E s \in Sessions : GetSession(h, s) \/ Cancel(h, s)
       \/ Snapshot(h) \/ ClaimCompletion(h) \/ Register(h) \/ ReleaseCompletion(h)
       \/ RemoveSession(h) \/ StopSession(h) \/ Logout(h)
       \/ Resolve(h) \/ EnterRefresh(h) \/ Refreshed(h) \/ RefreshUnanswered(h)
       \/ Rejected(h) \/ GivesUp(h) \/ CompareStored(h) \/ Persist(h)
  \/ PostClear
  \/ Crash

KimiSpec == KimiInit /\ [][KimiNext]_kimiVars

-----------------------------------------------------------------------------
(* Properties *)

\* The newest refresh token of the login in the configuration is there, or in
\* memory marked as its successor, or in the hands of the refresh under way:
\* unless an answer of Kimi or the process was lost, polls, saves that fail and
\* logins never leave a configuration that cannot be refreshed
\* (server.go:1554-1611).
NewestKept ==
  stored # NoCred =>
    LET s == stored.login
        newest == Cred(s, valid[s]) IN
    \/ s \in lost
    \/ stored = newest
    \/ unsaved = newest /\ from = stored
    \/ \E h \in Handlers : at[h] \in {"compare", "persist"} /\ current[h] = newest

\* The user is told to sign in again (server.go:1573-1583) only when the newest
\* refresh token was lost: requests that refresh at the same time never spend
\* one refresh token twice.
SignInAgainOnlyIfLost == dead # NoCred => dead.login \in lost
==============================================================================
