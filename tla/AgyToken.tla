------------------------------- MODULE AgyToken -------------------------------
(***************************************************************************)
(* The token file that agy writes and the proxies read and refresh:        *)
(* Manager.Get in internal/auth/token.go, with its in-memory cache.        *)
(*                                                                         *)
(* Get locks the file it opened (flock belongs to the inode); the          *)
(* write-back renames a new file over the path, so a caller may hold the   *)
(* lock of a file that the path no longer names.  The callers belong to    *)
(* several processes, each with a cache of its own.  A login, an access    *)
(* token and a refresh token are numbers or model values.                  *)
(***************************************************************************)
EXTENDS Naturals, FiniteSets

CONSTANTS
  Callers,    \* goroutines that call Get
  Procs,      \* processes, each with its tokenCache
  ProcOf,     \* the process of a caller
  WriteBack,  \* the processes with AGY_TOKEN_WRITEBACK=1
  Inodes,     \* files that exist at once, temporary ones included
  Logins,     \* Google accounts a user logs agy in with
  Rotates,    \* whether the provider answers a refresh with a new refresh
              \* token (which ends the old one): the set of its possible answers
  AgyWrites,  \* whether the user logs agy in while the proxies run
  Stalls,     \* whether a process may stop for the whole life of a token between
              \* the answer to a refresh and its rename (a suspended machine)
  NoToken,    \* neither a file, nor an entry, nor an answer
  MaxAccess,  \* bound: access tokens issued
  MaxFaults   \* bound: crashes, failed writes and lost answers

ASSUME AgyAssumption ==
  /\ ProcOf \in [Callers -> Procs] /\ WriteBack \subseteq Procs
  /\ IsFiniteSet(Inodes) /\ Inodes # {} /\ NoToken \notin Callers /\ NoToken \notin Inodes
  /\ Rotates \subseteq BOOLEAN /\ AgyWrites \in BOOLEAN /\ Stalls \in BOOLEAN
  /\ MaxAccess \in Nat /\ MaxFaults \in Nat
  /\ NoToken \notin [login : Logins, access : Nat, refresh : Nat, mtime : Nat]

VARIABLES
  path,    \* the inode the token path names
  file,    \* the content of an inode and its modification time; each content
           \* has an access token of its own, whose number serves as its time
  flock,   \* who holds the exclusive lock of an inode, else NoToken
  expired, \* the latest access token that is within a minute of its end;
           \* tokens live equally long, so they end in the order of their issue
  issued,  \* the latest access token the provider issued
  honoured,   \* the refresh token the provider honours, per login
  cache,   \* tokenCache of a process for this path
  pc,      \* what a caller does next
  entry,   \* the cache entry a caller has read
  fd,      \* the inode a caller has opened
  token,   \* the token a caller holds
  answer,  \* what a caller's Get returns, NoToken for an error
  faults,  \* how many faults there were
  seen,    \* history: the logins the path had since a caller's Get began,
           \* empty outside of one
  agyLost     \* history: logins whose newest refresh token never reached the file

agyVars == <<path, file, flock, expired, issued, honoured, cache, pc, entry,
             fd, token, answer, faults, seen, agyLost>>
world == <<path, file, expired, issued, honoured>>
local == <<entry, fd, token, answer>>

Fresh(a) == a > expired

\* An inode that nothing names any more.
Free == {i \in Inodes : i # path /\ \A c \in Callers : fd[c] # i}

\* What is left of the files when the path and the callers' descriptors change:
\* a file that is neither named nor open is gone.
Kept(f, p, d) ==
  [i \in Inodes |-> IF i = p \/ \E c \in Callers : d[c] = i THEN f[i] ELSE NoToken]

\* The calls under way see a new login.
Witness(login) ==
  seen' = [c \in Callers |-> IF pc[c] = "idle" THEN {} ELSE seen[c] \cup {login}]

\* The path now names a new inode with this content; which one does not matter.
Rename(login, access, refresh) ==
  LET i == CHOOSE j \in Free : TRUE IN
  /\ Free # {}
  /\ path' = i
  /\ file' = Kept([file EXCEPT ![i] = [login |-> login, access |-> access,
                                       refresh |-> refresh, mtime |-> access]], i, fd)
  /\ Witness(login)

AgyInit ==
  \E l \in Logins :
    /\ path = CHOOSE i \in Inodes : TRUE
    /\ file = [j \in Inodes |->
                 IF j = path THEN [login |-> l, access |-> 1, refresh |-> 1, mtime |-> 1]
                 ELSE NoToken]
    /\ flock = [j \in Inodes |-> NoToken]
    /\ expired = 0 /\ issued = 1
    /\ honoured = [m \in Logins |-> 1]
    /\ cache = [p \in Procs |-> NoToken]
    /\ pc = [c \in Callers |-> "idle"]
    /\ entry = [c \in Callers |-> NoToken]
    /\ fd = [c \in Callers |-> NoToken]
    /\ token = [c \in Callers |-> NoToken]
    /\ answer = [c \in Callers |-> NoToken]
    /\ faults = 0
    /\ seen = [c \in Callers |-> {}]
    /\ agyLost = {}

-----------------------------------------------------------------------------
(* Manager.Get *)

\* getCachedCredentials copies the entry under tokenCacheMu and tests its age.
ReadCache(c) ==
  /\ pc[c] = "idle"
  /\ LET e == cache[ProcOf[c]] IN
     IF e # NoToken /\ Fresh(e.access)
     THEN pc' = [pc EXCEPT ![c] = "stat"] /\ entry' = [entry EXCEPT ![c] = e]
     ELSE pc' = [pc EXCEPT ![c] = "open"] /\ UNCHANGED entry
  /\ seen' = [seen EXCEPT ![c] = {file[path].login}]
  /\ UNCHANGED <<world, flock, cache, fd, token, answer, faults, agyLost>>

\* os.Stat(path): the entry is good when the file has the time it was read at.
StatPath(c) ==
  /\ pc[c] = "stat"
  /\ IF file[path].mtime = entry[c].mtime
     THEN pc' = [pc EXCEPT ![c] = "return"] /\ answer' = [answer EXCEPT ![c] = entry[c]]
     ELSE pc' = [pc EXCEPT ![c] = "open"] /\ UNCHANGED answer
  /\ entry' = [entry EXCEPT ![c] = NoToken]
  /\ UNCHANGED <<world, flock, cache, fd, token, faults, seen, agyLost>>

Open(c) ==
  /\ pc[c] = "open"
  /\ fd' = [fd EXCEPT ![c] = path]
  /\ pc' = [pc EXCEPT ![c] = "lock"]
  /\ UNCHANGED <<world, flock, cache, entry, token, answer, faults, seen, agyLost>>

\* flockExclusive, then ReadAll and parseToken.  A fresh token is used as it is.
LockAndRead(c) ==
  LET t == file[fd[c]] IN
  /\ pc[c] = "lock" /\ flock[fd[c]] = NoToken
  /\ flock' = [flock EXCEPT ![fd[c]] = c]
  /\ token' = [token EXCEPT ![c] = t]
  /\ pc' = [pc EXCEPT ![c] = IF Fresh(t.access) THEN "email" ELSE "refresh"]
  /\ UNCHANGED <<world, cache, entry, fd, answer, faults, seen, agyLost>>

Writes(c) == ProcOf[c] \in WriteBack

\* The provider answers the refresh request.  With a refresh token it has
\* replaced, or when it is out of order, the answer is an error.
RefreshRefused(c) ==
  /\ pc[c] = "refresh"
  /\ pc' = [pc EXCEPT ![c] = "return"]
  /\ UNCHANGED <<world, flock, cache, local, faults, seen, agyLost>>

RefreshAnswered(c) ==
  LET t == token[c] IN
  /\ pc[c] = "refresh" /\ issued < MaxAccess
  /\ t.refresh = honoured[t.login]
  /\ issued' = issued + 1
  /\ \E rotated \in Rotates, arrives \in BOOLEAN :
     LET newest == IF rotated THEN t.refresh + 1 ELSE t.refresh IN
     /\ honoured' = [honoured EXCEPT ![t.login] = newest]
     /\ IF arrives
        THEN /\ token' = [token EXCEPT ![c] = [t EXCEPT !.access = issued', !.refresh = newest]]
             /\ pc' = [pc EXCEPT ![c] = IF Writes(c) THEN "write" ELSE "email"]
             /\ UNCHANGED faults
        ELSE /\ faults < MaxFaults /\ faults' = faults + 1
             /\ pc' = [pc EXCEPT ![c] = "return"]
             /\ UNCHANGED token
     /\ agyLost' = IF rotated /\ ~(arrives /\ Writes(c)) THEN agyLost \cup {t.login} ELSE agyLost
  /\ UNCHANGED <<path, file, flock, expired, cache, entry, fd, answer, seen>>

\* (wrong variant: writeToken keeps the refresh token that was in the file)
WriteTokenOld(c) ==
  /\ pc[c] = "write"
  /\ Rename(token[c].login, token[c].access, file[fd[c]].refresh)
  /\ pc' = [pc EXCEPT ![c] = "email"]
  /\ UNCHANGED <<flock, expired, issued, honoured, cache, local, faults, agyLost>>

\* writeToken: a temporary file, renamed over the path; or an error.
WriteToken(c) ==
  /\ pc[c] = "write"
  /\ \/ /\ Rename(token[c].login, token[c].access, token[c].refresh)
        /\ pc' = [pc EXCEPT ![c] = "email"]
        /\ UNCHANGED <<faults, agyLost>>
     \/ /\ faults < MaxFaults /\ faults' = faults + 1
        /\ pc' = [pc EXCEPT ![c] = "return"]
        /\ agyLost' = agyLost \cup {token[c].login}
        /\ UNCHANGED <<path, file, seen>>
  /\ UNCHANGED <<flock, expired, issued, honoured, cache, local>>

UserEmail(c) ==
  /\ pc[c] = "email"
  /\ pc' \in {[pc EXCEPT ![c] = "store"], [pc EXCEPT ![c] = "return"]}
  /\ UNCHANGED <<world, flock, cache, local, faults, seen, agyLost>>

\* (wrong variant: the time is that of the file the path names now)
StoreAtPath(c) ==
  LET e == [token[c] EXCEPT !.mtime = file[path].mtime] IN
  /\ pc[c] = "store"
  /\ cache' = [cache EXCEPT ![ProcOf[c]] = e]
  /\ answer' = [answer EXCEPT ![c] = e]
  /\ pc' = [pc EXCEPT ![c] = "return"]
  /\ UNCHANGED <<world, flock, entry, fd, token, faults, seen, agyLost>>

\* setCachedCredentials, with the time of the file that was opened.
Store(c) ==
  LET e == [token[c] EXCEPT !.mtime = file[fd[c]].mtime] IN
  /\ pc[c] = "store"
  /\ cache' = [cache EXCEPT ![ProcOf[c]] = e]
  /\ answer' = [answer EXCEPT ![c] = e]
  /\ pc' = [pc EXCEPT ![c] = "return"]
  /\ UNCHANGED <<world, flock, entry, fd, token, faults, seen, agyLost>>

\* The deferred unlock and close, when the file was opened.
Return(c) ==
  /\ pc[c] = "return"
  /\ flock' = [i \in Inodes |-> IF i = fd[c] THEN NoToken ELSE flock[i]]
  /\ fd' = [fd EXCEPT ![c] = NoToken]
  /\ token' = [token EXCEPT ![c] = NoToken]
  /\ answer' = [answer EXCEPT ![c] = NoToken]
  /\ seen' = [seen EXCEPT ![c] = {}]
  /\ pc' = [pc EXCEPT ![c] = "idle"]
  /\ file' = Kept(file, path, fd')
  /\ UNCHANGED <<path, expired, issued, honoured, cache, entry, faults, agyLost>>

-----------------------------------------------------------------------------
(* The rest of the world *)

\* The user logs agy in.  agy either replaces the file or rewrites it under its
\* lock.
AgyLogin(l) ==
  /\ AgyWrites
  /\ issued < MaxAccess /\ issued' = issued + 1
  /\ \/ Rename(l, issued', honoured[l])
     \/ /\ flock[path] = NoToken
        /\ file' = [file EXCEPT ![path] = [login |-> l, access |-> issued',
                                           refresh |-> honoured[l], mtime |-> issued']]
        /\ Witness(l)
        /\ UNCHANGED path
  /\ agyLost' = agyLost \ {l}
  /\ UNCHANGED <<flock, expired, honoured, cache, pc, local, faults>>

\* The expiry of a token comes from its answer and the write-back follows at
\* once: without stalls a caller writes a token that is still good.
TokenExpires ==
  /\ expired < issued /\ expired' = expired + 1
  /\ Stalls \/ \A c \in Callers : pc[c] = "write" => token[c].access > expired'
  /\ UNCHANGED <<path, file, flock, issued, honoured, cache, pc, local, faults,
                 seen, agyLost>>

\* A process dies and starts again: its locks are released and its cache is
\* empty.
ProcessDies(p) ==
  LET mine == {c \in Callers : ProcOf[c] = p}
      Cleared(f) == [c \in Callers |-> IF c \in mine THEN NoToken ELSE f[c]] IN
  /\ faults < MaxFaults /\ faults' = faults + 1
  /\ agyLost' = agyLost \cup {token[c].login : c \in {d \in mine : pc[d] = "write"}}
  /\ flock' = [i \in Inodes |-> IF flock[i] \in mine THEN NoToken ELSE flock[i]]
  /\ cache' = [cache EXCEPT ![p] = NoToken]
  /\ pc' = [c \in Callers |-> IF c \in mine THEN "idle" ELSE pc[c]]
  /\ entry' = Cleared(entry) /\ fd' = Cleared(fd)
  /\ token' = Cleared(token) /\ answer' = Cleared(answer)
  /\ seen' = [c \in Callers |-> IF c \in mine THEN {} ELSE seen[c]]
  /\ file' = Kept(file, path, fd')
  /\ UNCHANGED <<path, expired, issued, honoured>>

AgyNext ==
  \/ \E c \in Callers :
       \/ ReadCache(c) \/ StatPath(c) \/ Open(c) \/ LockAndRead(c)
       \/ RefreshRefused(c) \/ RefreshAnswered(c) \/ WriteToken(c)
       \/ UserEmail(c) \/ Store(c) \/ Return(c)
  \/ \E l \in Logins : AgyLogin(l)
  \/ TokenExpires
  \/ \E p \in Procs : ProcessDies(p)

AgySpec == AgyInit /\ [][AgyNext]_agyVars

-----------------------------------------------------------------------------
(* Properties *)

\* What Get returns is the token of a login that the path had at some time
\* during the call, from the cache as from the file.
AnswerIsCurrent ==
  \A c \in Callers : answer[c] # NoToken => answer[c].login \in seen[c]

\* The refresh token in the file is the one the provider honours, or a caller is
\* about to write that one, unless it was lost on the way to the file: the
\* proxies and agy never leave a login that cannot be refreshed any more.  Two
\* callers can hold the locks of two files of the path at once, so this needs
\* that no write-back stalls for the life of a token, and that the provider
\* replaces refresh tokens always or never.
RefreshTokenKept ==
  LET l == file[path].login IN
  \/ l \in agyLost
  \/ file[path].refresh = honoured[l]
  \/ \E c \in Callers : /\ pc[c] = "write" /\ token[c].login = l
                        /\ token[c].refresh = honoured[l]
==============================================================================
