----------------------------- MODULE Logins_proofs -----------------------------
(***************************************************************************)
(* Proofs of the safety properties of AgyToken, for any number of callers, *)
(* processes, files and Google accounts, any number of refreshes, faults   *)
(* and logins of agy; and of KimiLogin, for any number of device flows and *)
(* handlers, and any number of refreshes, failed saves, lost answers and   *)
(* crashes.  The two share nothing but their subject: tokens that a        *)
(* refresh replaces and that must not be lost.                             *)
(***************************************************************************)
EXTENDS AgyToken, KimiLogin, TLAPS

-----------------------------------------------------------------------------
(* The token file of the agy CLI *)


\* The content of a file, also an entry, a token and an answer.
FileRec == [login : Logins, access : Nat, refresh : Nat, mtime : Nat]
States == {"idle", "stat", "open", "lock", "refresh", "write", "email", "store", "return"}
Held == {"refresh", "write", "email", "store"}

AgyTypeOK ==
  /\ path \in Inodes
  /\ file \in [Inodes -> FileRec \cup {NoToken}]
  /\ flock \in [Inodes -> Callers \cup {NoToken}]
  /\ expired \in Nat /\ issued \in Nat /\ faults \in Nat
  /\ honoured \in [Logins -> Nat]
  /\ cache \in [Procs -> FileRec \cup {NoToken}]
  /\ pc \in [Callers -> States]
  /\ entry \in [Callers -> FileRec \cup {NoToken}]
  /\ fd \in [Callers -> Inodes \cup {NoToken}]
  /\ token \in [Callers -> FileRec \cup {NoToken}]
  /\ answer \in [Callers -> FileRec \cup {NoToken}]
  /\ seen \in [Callers -> SUBSET Logins]
  /\ agyLost \in SUBSET Logins

\* What a caller has where it stands: a file from its open on, a token from its
\* read on, an entry while it compares times.
CallerOK(c) ==
  /\ pc[c] \in {"idle", "stat", "open"} => fd[c] = NoToken
  /\ pc[c] \in Held \cup {"lock"} => fd[c] # NoToken
  /\ pc[c] \in Held => token[c] # NoToken
  /\ pc[c] = "stat" => entry[c] # NoToken
  /\ fd[c] # NoToken => file[fd[c]] # NoToken

Shape == file[path] # NoToken /\ \A c \in Callers : CallerOK(c)

\* The records whose time a reader may compare, and the copies of a token that
\* a caller may refresh with or write.
Stamps == ({file[i] : i \in Inodes} \cup {cache[p] : p \in Procs}
             \cup {entry[c] : c \in Callers}) \ {NoToken}
Copies == ({file[i] : i \in Inodes} \cup {token[c] : c \in Callers}) \ {NoToken}

\* Two records with one time are of one login, and a token about to be written
\* has a time that no record has.
TimesTell == \A r, s \in Stamps : r.mtime = s.mtime => r.login = s.login
TimesIssued == \A r \in Stamps : r.mtime <= issued
Unwritten ==
  \A c \in Callers : pc[c] = "write" =>
    /\ token[c].access <= issued
    /\ \A r \in Stamps : r.mtime # token[c].access
    /\ \A d \in Callers : pc[d] = "write" /\ d # c => token[d].access # token[c].access

\* From its read on a caller holds the lock of the file it opened, so that file
\* stays with the login of the token it read.
LockedBy(c) ==
  /\ pc[c] \in Held \cup {"return"} /\ fd[c] # NoToken => flock[fd[c]] = c
  /\ pc[c] \in Held => token[c].login = file[fd[c]].login
Locked == \A c \in Callers : LockedBy(c)

\* Everything a caller could still answer with is of a login it has seen.
SeenBy(c) ==
  /\ pc[c] # "idle" => file[path].login \in seen[c]
  /\ fd[c] # NoToken => file[fd[c]].login \in seen[c]
  /\ pc[c] \in Held => token[c].login \in seen[c]
  /\ pc[c] # "return" => answer[c] = NoToken
  /\ answer[c] # NoToken => answer[c].login \in seen[c]
SeenAll == \A c \in Callers : SeenBy(c)

\* The inductive invariant of AnswerIsCurrent.
AnswerInv == TimesTell /\ TimesIssued /\ Unwritten /\ Locked /\ SeenAll

\* No copy is newer than what the provider issued or honours.
Bounded ==
  /\ expired <= issued
  /\ \A r \in Copies : r.access <= issued /\ r.refresh <= honoured[r.login]

\* Only an expired token is refreshed, and a token is written while it is good:
\* the place where stalls would break the argument.
Tired == \A c \in Callers : pc[c] = "refresh" => token[c].access <= expired
InTime == \A c \in Callers : pc[c] = "write" => token[c].access > expired

\* A write-back brings the refresh token the provider honours.
WritesNewest ==
  \A c \in Callers : pc[c] = "write" => token[c].refresh = honoured[token[c].login]

\* With a provider that rotates, nothing has the refresh token about to be
\* written, or a later one, but with an access token at least as new: nobody
\* else who could refresh with it would need to.
LaterIsNewer ==
  \A c \in Callers : pc[c] = "write" /\ TRUE \in Rotates =>
    \A r \in Copies :
      r.login = token[c].login /\ r.refresh >= token[c].refresh => r.access >= token[c].access

\* The path has the newest refresh token, or its writer is on the way.
PathOrWriter ==
  \/ file[path].login \in agyLost
  \/ file[path].refresh = honoured[file[path].login]
  \/ \E c \in Callers : pc[c] = "write" /\ token[c].login = file[path].login

\* The provider either replaces the refresh token at every refresh or never.
OneKind == \A a, b \in Rotates : a = b

\* The inductive invariant of RefreshTokenKept.
RefreshInv == Bounded /\ Tired /\ InTime /\ WritesNewest /\ LaterIsNewer /\ PathOrWriter
-----------------------------------------------------------------------------
\* The content of a file that was just written.
New(l, a, r) == [login |-> l, access |-> a, refresh |-> r, mtime |-> a]

\* The fields of a new content.
LEMMA NewType ==
  ASSUME NEW l \in Logins, NEW a \in Nat, NEW r \in Nat
  PROVE  /\ New(l, a, r) \in FileRec
         /\ New(l, a, r).login = l /\ New(l, a, r).access = a
         /\ New(l, a, r).refresh = r /\ New(l, a, r).mtime = a
BY DEF New, FileRec

\* NoToken is told apart from records, files and callers.
LEMMA NoTokenIsNone ==
  /\ NoToken \notin FileRec /\ NoToken \notin Inodes /\ NoToken \notin Callers
BY AgyAssumption DEF AgyAssumption, FileRec

\* What becomes of the files when descriptors are closed.
LEMMA KeptFacts ==
  ASSUME NEW f \in [Inodes -> FileRec \cup {NoToken}], NEW p, NEW d
  PROVE  /\ Kept(f, p, d) \in [Inodes -> FileRec \cup {NoToken}]
         /\ \A i \in Inodes : Kept(f, p, d)[i] \in {f[i], NoToken}
         /\ p \in Inodes => Kept(f, p, d)[p] = f[p]
         /\ \A c \in Callers : d[c] \in Inodes => Kept(f, p, d)[d[c]] = f[d[c]]
BY DEF Kept

\* What a rename does: the path names a file that nobody had open, and the files
\* that callers have open stay as they were.
LEMMA RenameFacts ==
  ASSUME AgyTypeOK, NEW l \in Logins, NEW a \in Nat, NEW r \in Nat, Rename(l, a, r)
  PROVE  /\ path' \in Inodes /\ file' \in [Inodes -> FileRec \cup {NoToken}]
         /\ file'[path'] = New(l, a, r)
         /\ \A i \in Inodes : i # path' => file'[i] \in {file[i], NoToken}
         /\ \A c \in Callers : fd[c] \in Inodes => fd[c] # path' /\ file'[fd[c]] = file[fd[c]]
         /\ Witness(l)
<1> DEFINE i == CHOOSE j \in Free : TRUE
           f == [file EXCEPT ![i] = New(l, a, r)]
<1>1. i \in Free BY DEF Rename
<1>2. i \in Inodes /\ i # path /\ \A c \in Callers : fd[c] # i BY <1>1 DEF Free
<1>3. path' = i /\ file' = Kept(f, i, fd) /\ Witness(l) BY DEF Rename, New
<1> HIDE DEF i
<1>4. f \in [Inodes -> FileRec \cup {NoToken}] BY <1>2, NewType DEF AgyTypeOK
<1>5. f[i] = New(l, a, r) /\ \A j \in Inodes : j # i => f[j] = file[j] BY <1>2 DEF AgyTypeOK
<1> HIDE DEF f
<1>6. file' \in [Inodes -> FileRec \cup {NoToken}] /\ file'[i] = f[i]
      BY <1>2, <1>3, <1>4, KeptFacts
<1>7. \A j \in Inodes : j # i => file'[j] \in {file[j], NoToken}
      BY <1>3, <1>4, <1>5, KeptFacts
<1>8. \A c \in Callers : fd[c] \in Inodes => fd[c] # i /\ file'[fd[c]] = file[fd[c]]
      BY <1>2, <1>3, <1>4, <1>5, KeptFacts
<1> QED BY <1>2, <1>3, <1>5, <1>6, <1>7, <1>8

\* What a new login does to the logins the calls have seen.
LEMMA WitnessFacts ==
  ASSUME AgyTypeOK, NEW l \in Logins, Witness(l)
  PROVE  /\ seen' \in [Callers -> SUBSET Logins]
         /\ \A c \in Callers : seen[c] \subseteq seen'[c] \/ pc[c] = "idle"
         /\ \A c \in Callers : pc[c] # "idle" => l \in seen'[c]
BY DEF AgyTypeOK, Witness

\* The two outcomes of an answered refresh, field by field.
LEMMA AnswerCases ==
  ASSUME AgyTypeOK, Shape, NEW c \in Callers, RefreshAnswered(c)
  PROVE  /\ pc[c] = "refresh" /\ issued' = issued + 1
         /\ token[c] \in FileRec /\ token[c].refresh = honoured[token[c].login]
         /\ UNCHANGED <<path, file, flock, expired, cache, entry, fd, answer, seen>>
         /\ faults' \in Nat
         /\ \E rotated \in Rotates, newest \in Nat :
              /\ newest = IF rotated THEN token[c].refresh + 1 ELSE token[c].refresh
              /\ honoured' = [honoured EXCEPT ![token[c].login] = newest]
              /\ \/ /\ token' \in [Callers -> FileRec \cup {NoToken}]
                    /\ \A d \in Callers : d # c => token'[d] = token[d]
                    /\ token'[c] \in FileRec /\ token'[c].login = token[c].login
                    /\ token'[c].access = issued + 1 /\ token'[c].refresh = newest
                    /\ pc' = [pc EXCEPT ![c] = IF Writes(c) THEN "write" ELSE "email"]
                    /\ agyLost' = IF rotated /\ ~Writes(c) THEN agyLost \cup {token[c].login}
                                 ELSE agyLost
                 \/ /\ pc' = [pc EXCEPT ![c] = "return"] /\ token' = token
                    /\ agyLost' = IF rotated THEN agyLost \cup {token[c].login} ELSE agyLost
<1>1. token[c] \in FileRec /\ token[c].login \in Logins /\ token[c].refresh \in Nat
      BY DEF AgyTypeOK, Shape, CallerOK, RefreshAnswered, Held, FileRec
<1>2. PICK rotated \in Rotates, arrives \in BOOLEAN :
        LET newest == IF rotated THEN token[c].refresh + 1 ELSE token[c].refresh IN
        /\ honoured' = [honoured EXCEPT ![token[c].login] = newest]
        /\ IF arrives
           THEN /\ token' = [token EXCEPT ![c] =
                               [token[c] EXCEPT !.access = issued', !.refresh = newest]]
                /\ pc' = [pc EXCEPT ![c] = IF Writes(c) THEN "write" ELSE "email"]
                /\ UNCHANGED faults
           ELSE /\ faults < MaxFaults /\ faults' = faults + 1
                /\ pc' = [pc EXCEPT ![c] = "return"]
                /\ UNCHANGED token
        /\ agyLost' = IF rotated /\ ~(arrives /\ Writes(c)) THEN agyLost \cup {token[c].login}
                     ELSE agyLost
      BY Zenon DEF RefreshAnswered
<1> DEFINE newest == IF rotated THEN token[c].refresh + 1 ELSE token[c].refresh
<1>3. newest \in Nat BY <1>1
<1>4. issued' = issued + 1 /\ issued' \in Nat BY DEF AgyTypeOK, RefreshAnswered
<1>5. faults' \in Nat BY <1>2 DEF AgyTypeOK
<1>6. honoured' = [honoured EXCEPT ![token[c].login] = newest] BY <1>2
<1>7. CASE arrives
  <2>1. token' = [token EXCEPT ![c] =
                    [token[c] EXCEPT !.access = issued', !.refresh = newest]]
        BY <1>2, <1>7
  <2>2. token \in [Callers -> FileRec \cup {NoToken}] BY DEF AgyTypeOK
  <2> HIDE DEF newest
  <2>3. /\ token' \in [Callers -> FileRec \cup {NoToken}]
        /\ \A d \in Callers : d # c => token'[d] = token[d]
        /\ token'[c] \in FileRec /\ token'[c].login = token[c].login
        /\ token'[c].access = issued' /\ token'[c].refresh = newest
    <3> DEFINE r == [token[c] EXCEPT !.access = issued', !.refresh = newest]
    <3>1. r \in FileRec /\ r.login = token[c].login /\ r.access = issued' /\ r.refresh = newest
          BY <1>1, <1>3, <1>4 DEF FileRec
    <3> HIDE DEF r
    <3>2. token' = [token EXCEPT ![c] = r] BY <2>1 DEF r
    <3> QED BY <2>2, <3>1, <3>2
  <2>4. /\ pc' = [pc EXCEPT ![c] = IF Writes(c) THEN "write" ELSE "email"]
        /\ agyLost' = IF rotated /\ ~Writes(c) THEN agyLost \cup {token[c].login} ELSE agyLost
        BY <1>2, <1>7
  <2>5. newest = IF rotated THEN token[c].refresh + 1 ELSE token[c].refresh BY DEF newest
  <2> QED BY <1>1, <1>3, <1>4, <1>5, <1>6, <2>3, <2>4, <2>5 DEF RefreshAnswered
<1>8. CASE ~arrives
  <2>1. /\ pc' = [pc EXCEPT ![c] = "return"] /\ token' = token
        /\ agyLost' = IF rotated THEN agyLost \cup {token[c].login} ELSE agyLost
        BY <1>2, <1>8
  <2> QED BY <1>1, <1>3, <1>4, <1>5, <1>6, <2>1 DEF RefreshAnswered
<1> QED BY <1>2, <1>7, <1>8

\* The initial state has the right types.
LEMMA AgyInitType ==
  ASSUME AgyInit PROVE AgyTypeOK /\ Shape
<1>1. PICK l \in Logins :
        /\ path = CHOOSE i \in Inodes : TRUE
        /\ file = [j \in Inodes |-> IF j = path THEN New(l, 1, 1) ELSE NoToken]
      BY DEF AgyInit, New
<1>2. path \in Inodes BY <1>1, AgyAssumption DEF AgyAssumption
<1>3. New(l, 1, 1) \in FileRec BY NewType
<1>4. file \in [Inodes -> FileRec \cup {NoToken}] /\ file[path] = New(l, 1, 1)
      BY <1>1, <1>2, <1>3
<1>5. AgyTypeOK BY <1>2, <1>4 DEF AgyInit, AgyTypeOK, States
<1>6. Shape BY <1>3, <1>4, NoTokenIsNone DEF AgyInit, Shape, CallerOK, Held
<1> QED BY <1>5, <1>6

\* Every step keeps the types and what a caller has where it stands.
LEMMA AgyTypeStep ==
  ASSUME AgyTypeOK, Shape, [AgyNext]_agyVars
  PROVE  AgyTypeOK' /\ Shape'
<1> USE DEF world, local
<1>1. ASSUME NEW c \in Callers, ReadCache(c) PROVE AgyTypeOK' /\ Shape'
  <2>0. file[path] \in FileRec /\ cache[ProcOf[c]] \in FileRec \cup {NoToken}
        BY AgyAssumption DEF AgyTypeOK, Shape, AgyAssumption
  <2>a. file[path].login \in Logins BY <2>0 DEF FileRec
  <2>1. AgyTypeOK' BY <1>1, <2>0, <2>a DEF AgyTypeOK, ReadCache, States
  <2>2. Shape' BY <1>1, <2>0 DEF AgyTypeOK, ReadCache, Shape, CallerOK, Held
  <2> QED BY <2>1, <2>2
<1>2. ASSUME NEW c \in Callers, StatPath(c) PROVE AgyTypeOK' /\ Shape'
  <2>1. AgyTypeOK' BY <1>2 DEF AgyTypeOK, StatPath, States
  <2>2. Shape' BY <1>2 DEF AgyTypeOK, StatPath, Shape, CallerOK, Held
  <2> QED BY <2>1, <2>2
<1>3. ASSUME NEW c \in Callers, Open(c) PROVE AgyTypeOK' /\ Shape'
  <2>1. AgyTypeOK' BY <1>3 DEF AgyTypeOK, Open, States
  <2>2. Shape' BY <1>3, NoTokenIsNone DEF AgyTypeOK, Open, Shape, CallerOK, Held
  <2> QED BY <2>1, <2>2
<1>4. ASSUME NEW c \in Callers, LockAndRead(c) PROVE AgyTypeOK' /\ Shape'
  <2>0. fd[c] \in Inodes /\ file[fd[c]] \in FileRec
        BY <1>4 DEF AgyTypeOK, Shape, CallerOK, LockAndRead
  <2>1. AgyTypeOK' BY <1>4, <2>0 DEF AgyTypeOK, LockAndRead, States
  <2>2. Shape' BY <1>4, <2>0, NoTokenIsNone DEF AgyTypeOK, LockAndRead, Shape, CallerOK, Held
  <2> QED BY <2>1, <2>2
<1>5. ASSUME NEW c \in Callers, RefreshRefused(c) PROVE AgyTypeOK' /\ Shape'
  <2>1. AgyTypeOK' BY <1>5 DEF AgyTypeOK, RefreshRefused, States
  <2>2. Shape' BY <1>5 DEF AgyTypeOK, RefreshRefused, Shape, CallerOK, Held
  <2> QED BY <2>1, <2>2
<1>6. ASSUME NEW c \in Callers, RefreshAnswered(c) PROVE AgyTypeOK' /\ Shape'
  <2>0. token[c] \in FileRec /\ token[c].login \in Logins /\ token[c].refresh \in Nat
        BY <1>6 DEF AgyTypeOK, Shape, CallerOK, RefreshAnswered, Held, FileRec
  <2>1. PICK rotated \in Rotates, newest \in Nat :
          /\ honoured' = [honoured EXCEPT ![token[c].login] = newest]
          /\ token' \in [Callers -> FileRec \cup {NoToken}]
          /\ \A d \in Callers : d # c => token'[d] = token[d]
          /\ pc' \in [Callers -> States]
          /\ \A d \in Callers : d # c => pc'[d] = pc[d]
          /\ token'[c] # NoToken /\ pc'[c] \in {"write", "email", "return"}
          /\ agyLost' \in {agyLost, agyLost \cup {token[c].login}}
        <3>1. pc \in [Callers -> States] BY DEF AgyTypeOK
        <3>2. token \in [Callers -> FileRec \cup {NoToken}] BY DEF AgyTypeOK
        <3> QED BY <1>6, <3>1, <3>2, AnswerCases, NoTokenIsNone DEF States
  <2>2. AgyTypeOK' BY <1>6, <2>0, <2>1, AnswerCases DEF AgyTypeOK
  <2>3. Shape'
    <3>1. pc[c] = "refresh" /\ UNCHANGED <<path, file, fd, entry>> BY <1>6, AnswerCases
    <3> QED BY <2>1, <3>1 DEF AgyTypeOK, Shape, CallerOK, Held
  <2> QED BY <2>2, <2>3
<1>7. ASSUME NEW c \in Callers, WriteToken(c) PROVE AgyTypeOK' /\ Shape'
  <2>0. /\ token[c] \in FileRec /\ token[c].login \in Logins /\ token[c].refresh \in Nat
        /\ token[c].access \in Nat
        BY <1>7 DEF AgyTypeOK, Shape, CallerOK, WriteToken, Held, FileRec
  <2>1. CASE Rename(token[c].login, token[c].access, token[c].refresh)
    <3>1. /\ path' \in Inodes /\ file' \in [Inodes -> FileRec \cup {NoToken}]
          /\ file'[path'] = New(token[c].login, token[c].access, token[c].refresh)
          /\ \A d \in Callers : fd[d] \in Inodes => fd[d] # path' /\ file'[fd[d]] = file[fd[d]]
          /\ Witness(token[c].login)
          BY <2>0, <2>1, RenameFacts
    <3>2. seen' \in [Callers -> SUBSET Logins] BY <2>0, <3>1, WitnessFacts
    <3>3. file'[path'] # NoToken BY <2>0, <3>1, NewType, NoTokenIsNone
    <3>4. AgyTypeOK' BY <1>7, <2>0, <3>1, <3>2 DEF AgyTypeOK, WriteToken, States
    <3>5. Shape' BY <1>7, <3>1, <3>3 DEF AgyTypeOK, WriteToken, Shape, CallerOK, Held
    <3> QED BY <3>4, <3>5
  <2>2. CASE ~Rename(token[c].login, token[c].access, token[c].refresh)
    <3>1. AgyTypeOK' BY <1>7, <2>0, <2>2 DEF AgyTypeOK, WriteToken, States
    <3>2. Shape' BY <1>7, <2>2 DEF AgyTypeOK, WriteToken, Shape, CallerOK, Held
    <3> QED BY <3>1, <3>2
  <2> QED BY <2>1, <2>2
<1>8. ASSUME NEW c \in Callers, UserEmail(c) PROVE AgyTypeOK' /\ Shape'
  <2>1. AgyTypeOK' BY <1>8 DEF AgyTypeOK, UserEmail, States
  <2>2. Shape' BY <1>8 DEF AgyTypeOK, UserEmail, Shape, CallerOK, Held
  <2> QED BY <2>1, <2>2
<1>9. ASSUME NEW c \in Callers, Store(c) PROVE AgyTypeOK' /\ Shape'
  <2> DEFINE e == [token[c] EXCEPT !.mtime = file[fd[c]].mtime]
  <2>0. token[c] \in FileRec /\ file[fd[c]] \in FileRec
        BY <1>9 DEF AgyTypeOK, Shape, CallerOK, Store, Held
  <2>1. e \in FileRec BY <2>0 DEF FileRec
  <2>2. /\ cache' = [cache EXCEPT ![ProcOf[c]] = e] /\ answer' = [answer EXCEPT ![c] = e]
        BY <1>9 DEF Store
  <2> HIDE DEF e
  <2>a. /\ pc' = [pc EXCEPT ![c] = "return"]
        /\ UNCHANGED <<path, file, expired, issued, honoured, flock, entry, fd, token, faults,
                       seen, agyLost>>
        BY <1>9 DEF Store
  <2>b. cache' \in [Procs -> FileRec \cup {NoToken}] BY <2>1, <2>2 DEF AgyTypeOK
  <2>c. answer' \in [Callers -> FileRec \cup {NoToken}] BY <2>1, <2>2 DEF AgyTypeOK
  <2>3. AgyTypeOK' BY <2>a, <2>b, <2>c DEF AgyTypeOK, States
  <2>4. Shape' BY <1>9 DEF AgyTypeOK, Store, Shape, CallerOK, Held
  <2> QED BY <2>3, <2>4
<1>10. ASSUME NEW c \in Callers, Return(c) PROVE AgyTypeOK' /\ Shape'
  <2>0. file \in [Inodes -> FileRec \cup {NoToken}] /\ path \in Inodes BY DEF AgyTypeOK
  <2>1. fd' = [fd EXCEPT ![c] = NoToken] /\ file' = Kept(file, path, fd') /\ path' = path
        BY <1>10 DEF Return
  <2>a. file' = Kept(file, path, fd') BY <2>1
  <2>2. /\ file' \in [Inodes -> FileRec \cup {NoToken}] /\ file'[path] = file[path]
        /\ \A d \in Callers : fd'[d] \in Inodes => file'[fd'[d]] = file[fd'[d]]
        BY <2>0, <2>a, KeptFacts
  <2>b. /\ fd'[c] = NoToken /\ pc'[c] = "idle"
        /\ \A d \in Callers : d # c => fd'[d] = fd[d] /\ pc'[d] = pc[d] /\ token'[d] = token[d]
        /\ UNCHANGED entry
        BY <1>10 DEF AgyTypeOK, Return
  <2>c. fd \in [Callers -> Inodes \cup {NoToken}] BY DEF AgyTypeOK
  <2>3. AgyTypeOK' BY <1>10, <2>2 DEF AgyTypeOK, Return, States
  <2>4. Shape'
    <3>1. CallerOK(c)' BY <2>b DEF CallerOK, Held
    <3>2. ASSUME NEW d \in Callers, d # c PROVE CallerOK(d)'
      <4>1. CallerOK(d) BY DEF Shape
      <4> QED BY <2>2, <2>b, <2>c, <3>2, <4>1 DEF CallerOK, Held
    <3> QED BY <2>1, <2>2, <3>1, <3>2 DEF Shape
  <2> QED BY <2>3, <2>4
<1>11. ASSUME NEW l \in Logins, AgyLogin(l) PROVE AgyTypeOK' /\ Shape'
  <2>0. honoured[l] \in Nat /\ issued' = issued + 1 /\ issued' \in Nat
        BY <1>11 DEF AgyTypeOK, AgyLogin
  <2>1. CASE Rename(l, issued', honoured[l])
    <3>1. /\ path' \in Inodes /\ file' \in [Inodes -> FileRec \cup {NoToken}]
          /\ file'[path'] = New(l, issued', honoured[l])
          /\ \A d \in Callers : fd[d] \in Inodes => fd[d] # path' /\ file'[fd[d]] = file[fd[d]]
          /\ Witness(l)
          BY <2>0, <2>1, RenameFacts
    <3>2. seen' \in [Callers -> SUBSET Logins] BY <2>0, <3>1, WitnessFacts
    <3>3. file'[path'] # NoToken BY <2>0, <3>1, NewType, NoTokenIsNone
    <3>4. AgyTypeOK' BY <1>11, <2>0, <3>1, <3>2 DEF AgyTypeOK, AgyLogin
    <3>5. Shape' BY <1>11, <3>1, <3>3 DEF AgyTypeOK, AgyLogin, Shape, CallerOK, Held
    <3> QED BY <3>4, <3>5
  <2>2. CASE ~Rename(l, issued', honoured[l])
    <3>1. /\ file' = [file EXCEPT ![path] = New(l, issued', honoured[l])]
          /\ Witness(l) /\ UNCHANGED path
          BY <1>11, <2>2 DEF AgyLogin, New
    <3>2. New(l, issued', honoured[l]) \in FileRec BY <2>0, NewType
    <3>3. seen' \in [Callers -> SUBSET Logins] BY <2>0, <3>1, WitnessFacts
    <3>4. AgyTypeOK' BY <1>11, <2>0, <3>1, <3>2, <3>3 DEF AgyTypeOK, AgyLogin
    <3>5. Shape' BY <1>11, <3>1, <3>2, NoTokenIsNone DEF AgyTypeOK, AgyLogin, Shape, CallerOK, Held
    <3> QED BY <3>4, <3>5
  <2> QED BY <2>1, <2>2
<1>12. ASSUME TokenExpires PROVE AgyTypeOK' /\ Shape'
  <2>1. AgyTypeOK' BY <1>12 DEF AgyTypeOK, TokenExpires
  <2>2. Shape' BY <1>12 DEF AgyTypeOK, TokenExpires, Shape, CallerOK, Held
  <2> QED BY <2>1, <2>2
<1>13. ASSUME NEW p \in Procs, ProcessDies(p) PROVE AgyTypeOK' /\ Shape'
  <2>0. file \in [Inodes -> FileRec \cup {NoToken}] /\ path \in Inodes BY DEF AgyTypeOK
  <2>1. /\ fd' = [c \in Callers |-> IF ProcOf[c] = p THEN NoToken ELSE fd[c]]
        /\ token' = [c \in Callers |-> IF ProcOf[c] = p THEN NoToken ELSE token[c]]
        /\ entry' = [c \in Callers |-> IF ProcOf[c] = p THEN NoToken ELSE entry[c]]
        /\ answer' = [c \in Callers |-> IF ProcOf[c] = p THEN NoToken ELSE answer[c]]
        /\ pc' = [c \in Callers |-> IF ProcOf[c] = p THEN "idle" ELSE pc[c]]
        /\ seen' = [c \in Callers |-> IF ProcOf[c] = p THEN {} ELSE seen[c]]
        /\ file' = Kept(file, path, fd') /\ path' = path
        /\ cache' = [cache EXCEPT ![p] = NoToken]
        BY <1>13 DEF ProcessDies
  <2>2. flock' \in [Inodes -> Callers \cup {NoToken}] BY <1>13 DEF AgyTypeOK, ProcessDies
  <2>3. agyLost' \in SUBSET Logins
    <3>1. \A c \in Callers : pc[c] = "write" => token[c].login \in Logins
          BY DEF AgyTypeOK, Shape, CallerOK, Held, FileRec
    <3> QED BY <1>13, <3>1 DEF AgyTypeOK, ProcessDies
  <2>4. /\ file' \in [Inodes -> FileRec \cup {NoToken}] /\ file'[path] = file[path]
        /\ \A d \in Callers : fd'[d] \in Inodes => file'[fd'[d]] = file[fd'[d]]
        BY <2>0, <2>1, KeptFacts
  <2>5. faults' \in Nat /\ UNCHANGED <<expired, issued, honoured>>
        BY <1>13 DEF AgyTypeOK, ProcessDies
  <2>6. AgyTypeOK' BY <2>1, <2>2, <2>3, <2>4, <2>5 DEF AgyTypeOK, States
  <2>7. Shape' BY <2>1, <2>4, NoTokenIsNone DEF AgyTypeOK, Shape, CallerOK, Held
  <2> QED BY <2>6, <2>7
<1>14. CASE UNCHANGED agyVars
  <2>1. AgyTypeOK' BY <1>14 DEF AgyTypeOK, agyVars
  <2>2. Shape' BY <1>14 DEF Shape, CallerOK, agyVars
  <2> QED BY <2>1, <2>2
<1> QED BY <1>1, <1>2, <1>3, <1>4, <1>5, <1>6, <1>7, <1>8, <1>9, <1>10, <1>11, <1>12, <1>13,
           <1>14 DEF AgyNext
-----------------------------------------------------------------------------
\* The part of the invariant that is about times.
TimesOK == TimesTell /\ TimesIssued /\ Unwritten

\* Stamps are records, and hold every file, cache entry and copied entry.
LEMMA StampsType ==
  ASSUME AgyTypeOK
  PROVE  /\ \A r \in Stamps : r \in FileRec /\ r.mtime \in Nat
         /\ \A i \in Inodes : file[i] # NoToken => file[i] \in Stamps
         /\ \A p \in Procs : cache[p] # NoToken => cache[p] \in Stamps
         /\ \A c \in Callers : entry[c] # NoToken => entry[c] \in Stamps
BY DEF AgyTypeOK, Stamps, FileRec

\* The stamps after a step that adds at most one record.
LEMMA StampsNext ==
  ASSUME NEW e,
         \A i \in Inodes : file'[i] = NoToken \/ file'[i] = e \/ file'[i] \in Stamps,
         \A p \in Procs : cache'[p] = NoToken \/ cache'[p] = e \/ cache'[p] \in Stamps,
         \A c \in Callers : entry'[c] = NoToken \/ entry'[c] = e \/ entry'[c] \in Stamps
  PROVE  Stamps' \subseteq Stamps \cup {e}
BY DEF Stamps

\* A caller past its read has a token and a file with content.
LEMMA HeldToken ==
  ASSUME AgyTypeOK, Shape, NEW c \in Callers, pc[c] \in Held
  PROVE  /\ token[c] \in FileRec /\ token[c].login \in Logins /\ token[c].access \in Nat
         /\ token[c].refresh \in Nat /\ token[c].mtime \in Nat
         /\ fd[c] \in Inodes /\ file[fd[c]] \in FileRec /\ file[fd[c]].mtime \in Nat
BY DEF AgyTypeOK, Shape, CallerOK, FileRec

\* The tokens about to be written stay apart when no new one comes.
LEMMA WritersKept ==
  ASSUME AgyTypeOK, AgyTypeOK', Shape, Unwritten, issued' >= issued,
         \A c \in Callers : pc'[c] = "write" =>
           /\ pc[c] = "write" /\ token'[c] = token[c]
           /\ \A r \in Stamps' : r.mtime # token[c].access
  PROVE  Unwritten'
<1> SUFFICES ASSUME NEW c \in Callers, pc'[c] = "write"
    PROVE  /\ token'[c].access <= issued'
           /\ \A r \in Stamps' : r.mtime # token'[c].access
           /\ \A d \in Callers : pc'[d] = "write" /\ d # c => token'[d].access # token'[c].access
    BY DEF Unwritten
<1>1. pc[c] = "write" /\ token'[c] = token[c] OBVIOUS
<1>2. token[c].access \in Nat /\ token[c].access <= issued
      BY <1>1, HeldToken DEF Held, Unwritten
<1>3. token'[c].access <= issued' BY <1>1, <1>2 DEF AgyTypeOK
<1>4. \A r \in Stamps' : r.mtime # token'[c].access BY <1>1
<1>5. \A d \in Callers : pc'[d] = "write" /\ d # c => token'[d].access # token'[c].access
      BY <1>1 DEF Unwritten
<1> QED BY <1>3, <1>4, <1>5

\* A step that adds no stamp and no writer keeps the times.
LEMMA TimesKept ==
  ASSUME AgyTypeOK, AgyTypeOK', Shape, TimesOK, Stamps' \subseteq Stamps, issued' >= issued,
         \A c \in Callers : pc'[c] = "write" => pc[c] = "write" /\ token'[c] = token[c]
  PROVE  TimesOK'
<1>1. TimesTell' BY DEF TimesOK, TimesTell
<1>2. TimesIssued' BY StampsType DEF TimesOK, TimesIssued, AgyTypeOK
<1>3. Unwritten'
  <2>1. \A c \in Callers : pc[c] = "write" => \A r \in Stamps' : r.mtime # token[c].access
        BY DEF TimesOK, Unwritten
  <2> QED BY <2>1, WritersKept DEF TimesOK
<1> QED BY <1>1, <1>2, <1>3 DEF TimesOK

\* So does one that adds a stamp with a time of its own.
LEMMA TimesAdded ==
  ASSUME AgyTypeOK, AgyTypeOK', Shape, TimesOK, NEW e \in FileRec,
         Stamps' \subseteq Stamps \cup {e}, issued' >= issued, e.mtime <= issued',
         \A r \in Stamps : r.mtime # e.mtime,
         \A c \in Callers : pc'[c] = "write" =>
           pc[c] = "write" /\ token'[c] = token[c] /\ token[c].access # e.mtime
  PROVE  TimesOK'
<1>1. TimesTell' BY DEF TimesOK, TimesTell
<1>2. TimesIssued' BY StampsType DEF TimesOK, TimesIssued, AgyTypeOK
<1>3. Unwritten'
  <2>1. \A c \in Callers : pc'[c] = "write" => \A r \in Stamps' : r.mtime # token[c].access
        BY DEF TimesOK, Unwritten
  <2> QED BY <2>1, WritersKept DEF TimesOK
<1> QED BY <1>1, <1>2, <1>3 DEF TimesOK

\* So does one that adds a stamp with the time and login of another.
LEMMA TimesCopied ==
  ASSUME AgyTypeOK, AgyTypeOK', Shape, TimesOK, NEW e \in FileRec,
         Stamps' \subseteq Stamps \cup {e}, NEW s \in Stamps, e.mtime = s.mtime,
         e.login = s.login, issued' >= issued,
         \A c \in Callers : pc'[c] = "write" => pc[c] = "write" /\ token'[c] = token[c]
  PROVE  TimesOK'
<1>1. TimesTell' BY DEF TimesOK, TimesTell
<1>2. TimesIssued' BY StampsType DEF TimesOK, TimesIssued, AgyTypeOK
<1>3. Unwritten'
  <2>1. \A c \in Callers : pc'[c] = "write" => \A r \in Stamps' : r.mtime # token[c].access
        BY DEF TimesOK, Unwritten
  <2> QED BY <2>1, WritersKept DEF TimesOK
<1> QED BY <1>1, <1>2, <1>3 DEF TimesOK

\* Nothing but a copy of what was there is stamped in these actions.
LEMMA QuietTimes ==
  ASSUME AgyTypeOK, AgyTypeOK', Shape, TimesOK, issued' >= issued,
         \A i \in Inodes : file'[i] \in {file[i], NoToken},
         \A p \in Procs : cache'[p] \in {cache[p], NoToken},
         \A c \in Callers : \/ entry'[c] \in {entry[c], NoToken}
                            \/ \E p \in Procs : entry'[c] = cache[p],
         \A c \in Callers : pc'[c] = "write" => pc[c] = "write" /\ token'[c] = token[c]
  PROVE  TimesOK'
<1>1. Stamps' \subseteq Stamps \cup {NoToken}
  <2>1. \A i \in Inodes : file'[i] = NoToken \/ file'[i] \in Stamps BY StampsType
  <2>2. \A p \in Procs : cache'[p] = NoToken \/ cache'[p] \in Stamps BY StampsType
  <2>3. \A c \in Callers : entry'[c] = NoToken \/ entry'[c] \in Stamps BY StampsType
  <2> QED BY <2>1, <2>2, <2>3, StampsNext
<1>2. NoToken \notin Stamps' BY DEF Stamps
<1> QED BY <1>1, <1>2, TimesKept

\* Every step keeps what the times tell.
LEMMA AgyTimesStep ==
  ASSUME AgyTypeOK, AgyTypeOK', Shape, Locked, TimesOK, [AgyNext]_agyVars
  PROVE  TimesOK'
<1> USE DEF world, local
<1>0. issued \in Nat /\ issued >= issued BY DEF AgyTypeOK
<1>1. ASSUME NEW c \in Callers, ReadCache(c) PROVE TimesOK'
  <2>1. \A d \in Callers : entry'[d] = entry[d] \/ entry'[d] = cache[ProcOf[c]]
        BY <1>1 DEF ReadCache, AgyTypeOK
  <2>2. ProcOf[c] \in Procs BY AgyAssumption DEF AgyAssumption
  <2>3. \A d \in Callers : pc'[d] = "write" => pc[d] = "write"
        BY <1>1 DEF ReadCache, AgyTypeOK
  <2>4. UNCHANGED <<file, cache, issued, token>> BY <1>1 DEF ReadCache
  <2> QED BY <1>0, <2>1, <2>2, <2>3, <2>4, QuietTimes
<1>2. ASSUME NEW c \in Callers, StatPath(c) PROVE TimesOK'
  <2>1. /\ \A d \in Callers : entry'[d] \in {entry[d], NoToken}
        /\ \A d \in Callers : pc'[d] = "write" => pc[d] = "write"
        BY <1>2 DEF StatPath, AgyTypeOK
  <2>2. UNCHANGED <<file, cache, issued, token>> BY <1>2 DEF StatPath
  <2> QED BY <1>0, <2>1, <2>2, QuietTimes
<1>3. ASSUME NEW c \in Callers, Open(c) PROVE TimesOK'
  <2>1. \A d \in Callers : pc'[d] = "write" => pc[d] = "write" BY <1>3 DEF Open, AgyTypeOK
  <2>2. UNCHANGED <<file, cache, issued, token, entry>> BY <1>3 DEF Open
  <2> QED BY <1>0, <2>1, <2>2, QuietTimes
<1>4. ASSUME NEW c \in Callers, LockAndRead(c) PROVE TimesOK'
  <2>1. \A d \in Callers : pc'[d] = "write" => pc[d] = "write" /\ token'[d] = token[d]
        BY <1>4 DEF LockAndRead, AgyTypeOK
  <2>2. UNCHANGED <<file, cache, issued, entry>> BY <1>4 DEF LockAndRead
  <2> QED BY <1>0, <2>1, <2>2, QuietTimes
<1>5. ASSUME NEW c \in Callers, RefreshRefused(c) PROVE TimesOK'
  <2>1. \A d \in Callers : pc'[d] = "write" => pc[d] = "write"
        BY <1>5 DEF RefreshRefused, AgyTypeOK
  <2>2. UNCHANGED <<file, cache, issued, token, entry>> BY <1>5 DEF RefreshRefused
  <2> QED BY <1>0, <2>1, <2>2, QuietTimes
<1>6. ASSUME NEW c \in Callers, RefreshAnswered(c) PROVE TimesOK'
  <2>1. UNCHANGED <<file, cache, entry>> /\ issued' = issued + 1 BY <1>6, AnswerCases
  <2>2. Stamps' = Stamps BY <2>1 DEF Stamps
  <2>3. TimesTell' BY <2>2 DEF TimesOK, TimesTell
  <2>4. TimesIssued' BY <2>1, <2>2, <1>0, StampsType DEF TimesOK, TimesIssued
  <2>5. \A d \in Callers : pc'[d] = "write" =>
          \/ d = c /\ token'[d].access = issued + 1
          \/ d # c /\ pc[d] = "write" /\ token'[d] = token[d]
    <3>1. pc \in [Callers -> States] BY DEF AgyTypeOK
    <3> QED BY <1>6, <3>1, AnswerCases
  <2>6. \A d \in Callers : pc[d] = "write" => token[d].access \in Nat /\ token[d].access <= issued
        BY HeldToken DEF Held, TimesOK, Unwritten
  <2>7. \A r \in Stamps : r.mtime \in Nat /\ r.mtime <= issued
        BY StampsType DEF TimesOK, TimesIssued
  <2>8. Unwritten'
    <3> SUFFICES ASSUME NEW d \in Callers, pc'[d] = "write"
        PROVE  /\ token'[d].access <= issued'
               /\ \A r \in Stamps' : r.mtime # token'[d].access
               /\ \A b \in Callers :
                    pc'[b] = "write" /\ b # d => token'[b].access # token'[d].access
        BY DEF Unwritten
    <3>1. CASE d = c
      <4>1. token'[d].access = issued + 1 BY <2>5, <3>1
      <4>2. \A b \in Callers : pc'[b] = "write" /\ b # d =>
              token'[b].access \in Nat /\ token'[b].access <= issued
            BY <2>5, <2>6, <3>1
      <4> QED BY <1>0, <2>1, <2>2, <2>7, <4>1, <4>2
    <3>2. CASE d # c
      <4>1. pc[d] = "write" /\ token'[d] = token[d] BY <2>5, <3>2
      <4>2. token[d].access \in Nat /\ token[d].access <= issued BY <2>6, <4>1
      <4>3. \A r \in Stamps' : r.mtime # token'[d].access
            BY <2>2, <4>1 DEF TimesOK, Unwritten
      <4>4. ASSUME NEW b \in Callers, pc'[b] = "write", b # d
            PROVE  token'[b].access # token'[d].access
        <5>1. CASE b = c BY <1>0, <2>5, <4>1, <4>2, <4>4, <5>1
        <5>2. CASE b # c BY <2>5, <4>1, <4>4, <5>2 DEF TimesOK, Unwritten
        <5> QED BY <5>1, <5>2
      <4> QED BY <1>0, <2>1, <4>1, <4>2, <4>3, <4>4
    <3> QED BY <3>1, <3>2
  <2> QED BY <2>3, <2>4, <2>8 DEF TimesOK
<1>7. ASSUME NEW c \in Callers, WriteToken(c) PROVE TimesOK'
  <2>0. pc[c] = "write" /\ UNCHANGED <<cache, entry, issued, token>> BY <1>7 DEF WriteToken
  <2>1. /\ token[c] \in FileRec /\ token[c].login \in Logins /\ token[c].refresh \in Nat
        /\ token[c].access \in Nat
        BY <2>0, HeldToken DEF Held
  <2>2. \A d \in Callers : pc'[d] = "write" => pc[d] = "write" /\ d # c
        BY <1>7 DEF WriteToken, AgyTypeOK
  <2>3. CASE Rename(token[c].login, token[c].access, token[c].refresh)
    <3> DEFINE e == New(token[c].login, token[c].access, token[c].refresh)
    <3>1. e \in FileRec /\ e.mtime = token[c].access BY <2>1, NewType
    <3>2. \A i \in Inodes : file'[i] \in {file[i], NoToken, e} BY <2>1, <2>3, RenameFacts
    <3> HIDE DEF e
    <3>3. Stamps' \subseteq Stamps \cup {e}
      <4>1. \A i \in Inodes : file'[i] = NoToken \/ file'[i] = e \/ file'[i] \in Stamps
            BY <3>2, StampsType
      <4>2. \A p \in Procs : cache'[p] = NoToken \/ cache'[p] = e \/ cache'[p] \in Stamps
            BY <2>0, StampsType
      <4>3. \A d \in Callers : entry'[d] = NoToken \/ entry'[d] = e \/ entry'[d] \in Stamps
            BY <2>0, StampsType
      <4> QED BY <4>1, <4>2, <4>3, StampsNext
    <3>4. \A r \in Stamps : r.mtime # e.mtime BY <2>0, <3>1 DEF TimesOK, Unwritten
    <3>5. e.mtime <= issued' BY <2>0, <3>1 DEF TimesOK, Unwritten
    <3>6. \A d \in Callers : pc'[d] = "write" =>
            pc[d] = "write" /\ token'[d] = token[d] /\ token[d].access # e.mtime
          BY <2>0, <2>2, <3>1 DEF TimesOK, Unwritten
    <3>7. issued' >= issued BY <1>0, <2>0
    <3> QED BY <3>1, <3>3, <3>4, <3>5, <3>6, <3>7, TimesAdded
  <2>4. CASE ~Rename(token[c].login, token[c].access, token[c].refresh)
    <3>1. UNCHANGED file BY <1>7, <2>4 DEF WriteToken
    <3> QED BY <1>0, <2>0, <2>2, <3>1, QuietTimes
  <2> QED BY <2>3, <2>4
<1>8. ASSUME NEW c \in Callers, UserEmail(c) PROVE TimesOK'
  <2>1. \A d \in Callers : pc'[d] = "write" => pc[d] = "write" BY <1>8 DEF UserEmail, AgyTypeOK
  <2>2. UNCHANGED <<file, cache, issued, token, entry>> BY <1>8 DEF UserEmail
  <2> QED BY <1>0, <2>1, <2>2, QuietTimes
<1>9. ASSUME NEW c \in Callers, Store(c) PROVE TimesOK'
  <2> DEFINE e == [token[c] EXCEPT !.mtime = file[fd[c]].mtime]
  <2>0. pc[c] = "store" /\ UNCHANGED <<file, issued, token, entry>> BY <1>9 DEF Store
  <2>1. token[c] \in FileRec /\ fd[c] \in Inodes /\ file[fd[c]] \in FileRec
        BY <2>0, HeldToken DEF Held
  <2>2. e \in FileRec /\ e.mtime = file[fd[c]].mtime /\ e.login = token[c].login
        BY <2>1 DEF FileRec
  <2>3. cache' = [cache EXCEPT ![ProcOf[c]] = e] BY <1>9 DEF Store
  <2> HIDE DEF e
  <2>4. \A p \in Procs : cache'[p] \in {cache[p], e} BY <2>3 DEF AgyTypeOK
  <2>5. Stamps' \subseteq Stamps \cup {e} BY <2>0, <2>4, StampsType, StampsNext
  <2>6. file[fd[c]] \in Stamps BY <2>1, NoTokenIsNone, StampsType
  <2>7. e.login = file[fd[c]].login BY <2>0, <2>2 DEF Locked, LockedBy, Held
  <2>8. \A d \in Callers : pc'[d] = "write" => pc[d] = "write" /\ token'[d] = token[d]
        BY <1>9 DEF Store, AgyTypeOK
  <2> QED BY <1>0, <2>0, <2>2, <2>5, <2>6, <2>7, <2>8, TimesCopied
<1>10. ASSUME NEW c \in Callers, Return(c) PROVE TimesOK'
  <2>1. /\ \A d \in Callers : pc'[d] = "write" => pc[d] = "write" /\ token'[d] = token[d]
        /\ UNCHANGED <<cache, issued, entry>> /\ file' = Kept(file, path, fd')
        BY <1>10 DEF Return, AgyTypeOK
  <2>2. \A i \in Inodes : file'[i] \in {file[i], NoToken} BY <2>1 DEF Kept
  <2> QED BY <1>0, <2>1, <2>2, QuietTimes
<1>11. ASSUME NEW l \in Logins, AgyLogin(l) PROVE TimesOK'
  <2> DEFINE e == New(l, issued', honoured[l])
  <2>0. /\ honoured[l] \in Nat /\ issued' = issued + 1 /\ issued' \in Nat
        /\ UNCHANGED <<cache, entry, token, pc>>
        BY <1>11 DEF AgyTypeOK, AgyLogin
  <2>1. e \in FileRec /\ e.mtime = issued' BY <2>0, NewType
  <2>2. \A i \in Inodes : file'[i] \in {file[i], NoToken, e}
    <3>1. CASE Rename(l, issued', honoured[l]) BY <2>0, <3>1, RenameFacts
    <3>2. CASE ~Rename(l, issued', honoured[l])
      <4>1. file' = [file EXCEPT ![path] = e] BY <1>11, <3>2 DEF AgyLogin, New
      <4> HIDE DEF e
      <4> QED BY <4>1 DEF AgyTypeOK
    <3> QED BY <3>1, <3>2
  <2> HIDE DEF e
  <2>3. Stamps' \subseteq Stamps \cup {e}
    <3>1. \A i \in Inodes : file'[i] = NoToken \/ file'[i] = e \/ file'[i] \in Stamps
          BY <2>2, StampsType
    <3>2. \A p \in Procs : cache'[p] = NoToken \/ cache'[p] = e \/ cache'[p] \in Stamps
          BY <2>0, StampsType
    <3>3. \A d \in Callers : entry'[d] = NoToken \/ entry'[d] = e \/ entry'[d] \in Stamps
          BY <2>0, StampsType
    <3> QED BY <3>1, <3>2, <3>3, StampsNext
  <2>4. \A r \in Stamps : r.mtime # e.mtime
        BY <1>0, <2>0, <2>1, StampsType DEF TimesOK, TimesIssued
  <2>5. \A d \in Callers : pc[d] = "write" => token[d].access # e.mtime
        BY <1>0, <2>0, <2>1, HeldToken DEF Held, TimesOK, Unwritten
  <2>6. issued' >= issued /\ e.mtime <= issued' BY <1>0, <2>0, <2>1
  <2> QED BY <2>0, <2>1, <2>3, <2>4, <2>5, <2>6, TimesAdded
<1>12. ASSUME TokenExpires PROVE TimesOK'
  <2>1. UNCHANGED <<file, cache, issued, token, entry, pc>> BY <1>12 DEF TokenExpires
  <2> QED BY <1>0, <2>1, QuietTimes
<1>13. ASSUME NEW p \in Procs, ProcessDies(p) PROVE TimesOK'
  <2>1. /\ \A d \in Callers : entry'[d] \in {entry[d], NoToken}
        /\ \A d \in Callers : pc'[d] = "write" => pc[d] = "write" /\ token'[d] = token[d]
        /\ \A q \in Procs : cache'[q] \in {cache[q], NoToken}
        /\ UNCHANGED issued /\ file' = Kept(file, path, fd')
        BY <1>13 DEF ProcessDies, AgyTypeOK
  <2>2. \A i \in Inodes : file'[i] \in {file[i], NoToken} BY <2>1 DEF Kept
  <2> QED BY <1>0, <2>1, <2>2, QuietTimes
<1>14. CASE UNCHANGED agyVars
  <2>1. UNCHANGED <<file, cache, issued, token, entry, pc>> BY <1>14 DEF agyVars
  <2> QED BY <1>0, <2>1, QuietTimes
<1> QED BY <1>1, <1>2, <1>3, <1>4, <1>5, <1>6, <1>7, <1>8, <1>9, <1>10, <1>11, <1>12, <1>13,
           <1>14 DEF AgyNext
-----------------------------------------------------------------------------
\* A caller that does not move keeps its lock, if the others leave it and the
\* file alone.
LEMMA LockKept ==
  ASSUME AgyTypeOK, Shape, NEW c \in Callers, LockedBy(c),
         pc'[c] = pc[c], fd'[c] = fd[c], token'[c] = token[c],
         fd[c] \in Inodes /\ flock[fd[c]] = c =>
           flock'[fd[c]] = c /\ file'[fd[c]].login = file[fd[c]].login
  PROVE  LockedBy(c)'
BY HeldToken DEF LockedBy, AgyTypeOK, Shape, CallerOK

\* Every step leaves the callers their locks and the files under them.
LEMMA AgyLockStep ==
  ASSUME AgyTypeOK, AgyTypeOK', Shape, Locked, [AgyNext]_agyVars
  PROVE  Locked'
<1> USE DEF world, local
<1>1. ASSUME NEW c \in Callers, ReadCache(c) PROVE Locked'
  BY <1>1 DEF ReadCache, AgyTypeOK, Locked, LockedBy, Held
<1>2. ASSUME NEW c \in Callers, StatPath(c) PROVE Locked'
  <2>1. fd[c] = NoToken BY <1>2 DEF StatPath, Shape, CallerOK
  <2> QED BY <1>2, <2>1 DEF StatPath, AgyTypeOK, Locked, LockedBy, Held
<1>3. ASSUME NEW c \in Callers, Open(c) PROVE Locked'
  BY <1>3 DEF Open, AgyTypeOK, Locked, LockedBy, Held
<1>4. ASSUME NEW c \in Callers, LockAndRead(c) PROVE Locked'
  <2>1. fd[c] \in Inodes /\ flock[fd[c]] = NoToken /\ UNCHANGED <<fd, file>>
        BY <1>4 DEF LockAndRead, AgyTypeOK, Shape, CallerOK
  <2>2. LockedBy(c)' BY <1>4, <2>1 DEF LockAndRead, AgyTypeOK, LockedBy
  <2>3. ASSUME NEW d \in Callers, d # c PROVE LockedBy(d)'
    <3>1. pc'[d] = pc[d] /\ token'[d] = token[d] BY <1>4, <2>3 DEF LockAndRead, AgyTypeOK
    <3>2. fd[d] \in Inodes /\ flock[fd[d]] = d => flock'[fd[d]] = d
          BY <1>4, <2>1, NoTokenIsNone DEF LockAndRead, AgyTypeOK
    <3> QED BY <2>1, <3>1, <3>2, LockKept DEF Locked
  <2> QED BY <2>2, <2>3 DEF Locked
<1>5. ASSUME NEW c \in Callers, RefreshRefused(c) PROVE Locked'
  BY <1>5 DEF RefreshRefused, AgyTypeOK, Locked, LockedBy, Held
<1>6. ASSUME NEW c \in Callers, RefreshAnswered(c) PROVE Locked'
  <2>1. pc[c] = "refresh" /\ UNCHANGED <<file, fd, flock>> BY <1>6, AnswerCases
  <2>2. /\ token'[c].login = token[c].login
        /\ \A d \in Callers : d # c => token'[d] = token[d] /\ pc'[d] = pc[d]
    <3>1. pc \in [Callers -> States] BY DEF AgyTypeOK
    <3> QED BY <1>6, <3>1, AnswerCases
  <2>3. LockedBy(c)' BY <2>1, <2>2 DEF Locked, LockedBy, Held
  <2>4. \A d \in Callers : d # c => LockedBy(d)' BY <2>1, <2>2 DEF Locked, LockedBy
  <2> QED BY <2>3, <2>4 DEF Locked
<1>7. ASSUME NEW c \in Callers, WriteToken(c) PROVE Locked'
  <2>0. /\ pc[c] = "write" /\ UNCHANGED <<fd, flock, token>>
        /\ pc'[c] \in {"email", "return"} /\ \A d \in Callers : d # c => pc'[d] = pc[d]
        BY <1>7 DEF WriteToken, AgyTypeOK
  <2>1. /\ token[c] \in FileRec /\ token[c].login \in Logins /\ token[c].refresh \in Nat
        /\ token[c].access \in Nat
        BY <2>0, HeldToken DEF Held
  <2>2. \A d \in Callers : fd[d] \in Inodes => file'[fd[d]] = file[fd[d]]
    <3>1. CASE Rename(token[c].login, token[c].access, token[c].refresh)
      BY <2>1, <3>1, RenameFacts
    <3>2. CASE ~Rename(token[c].login, token[c].access, token[c].refresh)
      BY <1>7, <3>2 DEF WriteToken
    <3> QED BY <3>1, <3>2
  <2>3. LockedBy(c)' BY <2>0, <2>2, HeldToken DEF Locked, LockedBy, Held
  <2>4. \A d \in Callers : d # c => LockedBy(d)' BY <2>0, <2>2, LockKept DEF Locked
  <2> QED BY <2>3, <2>4 DEF Locked
<1>8. ASSUME NEW c \in Callers, UserEmail(c) PROVE Locked'
  BY <1>8 DEF UserEmail, AgyTypeOK, Locked, LockedBy, Held
<1>9. ASSUME NEW c \in Callers, Store(c) PROVE Locked'
  <2>1. /\ pc[c] = "store" /\ pc' = [pc EXCEPT ![c] = "return"]
        /\ UNCHANGED <<fd, flock, token, file>>
        BY <1>9 DEF Store
  <2> QED BY <2>1 DEF AgyTypeOK, Locked, LockedBy, Held
<1>10. ASSUME NEW c \in Callers, Return(c) PROVE Locked'
  <2>1. /\ pc'[c] = "idle"
        /\ \A d \in Callers : d # c => fd'[d] = fd[d] /\ pc'[d] = pc[d] /\ token'[d] = token[d]
        /\ flock' = [i \in Inodes |-> IF i = fd[c] THEN NoToken ELSE flock[i]]
        /\ pc[c] = "return"
        BY <1>10 DEF Return, AgyTypeOK
  <2>2. LockedBy(c)' BY <2>1 DEF LockedBy, Held
  <2>3. file' = Kept(file, path, fd') BY <1>10 DEF Return
  <2>4. \A d \in Callers : fd'[d] \in Inodes => file'[fd'[d]] = file[fd'[d]]
        BY <2>3, KeptFacts DEF AgyTypeOK
  <2>5. ASSUME NEW d \in Callers, d # c PROVE LockedBy(d)'
    <3>1. fd[d] \in Inodes /\ flock[fd[d]] = d => flock'[fd[d]] = d
      <4> SUFFICES ASSUME fd[d] \in Inodes, flock[fd[d]] = d, fd[d] = fd[c] PROVE FALSE
          BY <2>1
      <4> QED BY <2>1, <2>5, NoTokenIsNone DEF Locked, LockedBy
    <3>2. fd[d] \in Inodes => file'[fd[d]] = file[fd[d]] BY <2>1, <2>4, <2>5
    <3> QED BY <2>1, <2>5, <3>1, <3>2, LockKept DEF Locked
  <2> QED BY <2>2, <2>5 DEF Locked
<1>11. ASSUME NEW l \in Logins, AgyLogin(l) PROVE Locked'
  <2>0. /\ honoured[l] \in Nat /\ issued' \in Nat
        /\ UNCHANGED <<fd, flock, token, pc>>
        BY <1>11 DEF AgyTypeOK, AgyLogin
  <2>1. ASSUME NEW d \in Callers, fd[d] \in Inodes, flock[fd[d]] = d
        PROVE  file'[fd[d]] = file[fd[d]]
    <3>1. CASE Rename(l, issued', honoured[l]) BY <2>0, <2>1, <3>1, RenameFacts
    <3>2. CASE ~Rename(l, issued', honoured[l])
      <4>1. /\ file' = [file EXCEPT ![path] = New(l, issued', honoured[l])]
            /\ flock[path] = NoToken
            BY <1>11, <3>2 DEF AgyLogin, New
      <4> QED BY <2>1, <4>1, NoTokenIsNone DEF AgyTypeOK
    <3> QED BY <3>1, <3>2
  <2> QED BY <2>0, <2>1, LockKept DEF Locked
<1>12. ASSUME TokenExpires PROVE Locked'
  BY <1>12 DEF TokenExpires, Locked, LockedBy
<1>13. ASSUME NEW p \in Procs, ProcessDies(p) PROVE Locked'
  <2>1. /\ \A d \in Callers : ProcOf[d] # p =>
              fd'[d] = fd[d] /\ pc'[d] = pc[d] /\ token'[d] = token[d]
        /\ \A d \in Callers : ProcOf[d] = p => pc'[d] = "idle"
        /\ \A i \in Inodes : \A d \in Callers : flock[i] = d /\ ProcOf[d] # p => flock'[i] = d
        /\ file' = Kept(file, path, fd')
        BY <1>13 DEF ProcessDies, AgyTypeOK
  <2>2. \A d \in Callers : fd'[d] \in Inodes => file'[fd'[d]] = file[fd'[d]]
        BY <2>1, KeptFacts DEF AgyTypeOK
  <2>3. ASSUME NEW d \in Callers, ProcOf[d] = p PROVE LockedBy(d)'
        BY <2>1, <2>3 DEF LockedBy, Held
  <2>4. ASSUME NEW d \in Callers, ProcOf[d] # p PROVE LockedBy(d)'
        BY <2>1, <2>2, <2>4, LockKept DEF Locked
  <2> QED BY <2>3, <2>4 DEF Locked
<1>14. CASE UNCHANGED agyVars
  BY <1>14 DEF agyVars, Locked, LockedBy
<1> QED BY <1>1, <1>2, <1>3, <1>4, <1>5, <1>6, <1>7, <1>8, <1>9, <1>10, <1>11, <1>12, <1>13,
           <1>14 DEF AgyNext

-----------------------------------------------------------------------------
\* Every step keeps what the callers could answer with among what they have seen.
LEMMA AgySeenStep ==
  ASSUME AgyTypeOK, AgyTypeOK', Shape, TimesTell, SeenAll, [AgyNext]_agyVars
  PROVE  SeenAll'
<1> USE DEF world, local
<1>1. ASSUME NEW c \in Callers, ReadCache(c) PROVE SeenAll'
  <2>1. SeenBy(c)'
    <3>1. pc[c] = "idle" /\ pc'[c] \in {"stat", "open"} /\ seen'[c] = {file[path].login}
          /\ UNCHANGED <<file, path, answer, fd>>
          BY <1>1 DEF ReadCache, AgyTypeOK
    <3>2. fd[c] = NoToken /\ answer[c] = NoToken
          BY <3>1 DEF Shape, CallerOK, SeenAll, SeenBy
    <3> QED BY <3>1, <3>2 DEF SeenBy, Held
  <2>2. ASSUME NEW d \in Callers, d # c PROVE SeenBy(d)'
    <3>1. SeenBy(d) BY DEF SeenAll
    <3> QED BY <1>1, <2>2, <3>1 DEF ReadCache, AgyTypeOK, SeenBy
  <2> QED BY <2>1, <2>2 DEF SeenAll
<1>2. ASSUME NEW c \in Callers, StatPath(c) PROVE SeenAll'
  <2>1. pc[c] = "stat" /\ UNCHANGED <<file, path, fd, token, seen>> BY <1>2 DEF StatPath
  <2>2. fd[c] = NoToken /\ entry[c] # NoToken BY <2>1 DEF Shape, CallerOK
  <2>3. entry[c] \in Stamps /\ file[path] \in Stamps BY <2>2, StampsType DEF Shape, AgyTypeOK
  <2>4. file[path].mtime = entry[c].mtime => entry[c].login = file[path].login
        BY <2>3 DEF TimesTell
  <2>5. SeenBy(c)' BY <1>2, <2>1, <2>2, <2>4 DEF StatPath, AgyTypeOK, SeenAll, SeenBy, Held
  <2>6. ASSUME NEW d \in Callers, d # c PROVE SeenBy(d)'
    <3>1. SeenBy(d) BY DEF SeenAll
    <3> QED BY <1>2, <2>6, <3>1 DEF StatPath, AgyTypeOK, SeenBy
  <2> QED BY <2>5, <2>6 DEF SeenAll
<1>3. ASSUME NEW c \in Callers, Open(c) PROVE SeenAll'
  BY <1>3 DEF Open, AgyTypeOK, SeenAll, SeenBy, Held
<1>4. ASSUME NEW c \in Callers, LockAndRead(c) PROVE SeenAll'
  <2>1. pc[c] = "lock" BY <1>4 DEF LockAndRead
  <2>2. fd[c] # NoToken BY <2>1 DEF Shape, CallerOK, Held
  <2> QED BY <1>4, <2>1, <2>2 DEF LockAndRead, AgyTypeOK, SeenAll, SeenBy, Held
<1>5. ASSUME NEW c \in Callers, RefreshRefused(c) PROVE SeenAll'
  BY <1>5 DEF RefreshRefused, AgyTypeOK, SeenAll, SeenBy, Held
<1>6. ASSUME NEW c \in Callers, RefreshAnswered(c) PROVE SeenAll'
  <2>1. pc[c] = "refresh" /\ UNCHANGED <<file, path, fd, answer, seen>> BY <1>6, AnswerCases
  <2>2. /\ token'[c].login = token[c].login
        /\ \A d \in Callers : d # c => token'[d] = token[d] /\ pc'[d] = pc[d]
    <3>1. pc \in [Callers -> States] BY DEF AgyTypeOK
    <3> QED BY <1>6, <3>1, AnswerCases
  <2>3. SeenBy(c)' BY <2>1, <2>2 DEF SeenAll, SeenBy, Held
  <2>4. \A d \in Callers : d # c => SeenBy(d)' BY <2>1, <2>2 DEF SeenAll, SeenBy
  <2> QED BY <2>3, <2>4 DEF SeenAll
<1>7. ASSUME NEW c \in Callers, WriteToken(c) PROVE SeenAll'
  <2>0. /\ pc[c] = "write" /\ UNCHANGED <<fd, answer, token>>
        /\ pc'[c] \in {"email", "return"} /\ \A d \in Callers : d # c => pc'[d] = pc[d]
        BY <1>7 DEF WriteToken, AgyTypeOK
  <2>1. /\ token[c] \in FileRec /\ token[c].login \in Logins /\ token[c].refresh \in Nat
        /\ token[c].access \in Nat
        BY <2>0, HeldToken DEF Held
  <2>2. CASE Rename(token[c].login, token[c].access, token[c].refresh)
    <3>1. /\ file'[path'] = New(token[c].login, token[c].access, token[c].refresh)
          /\ \A d \in Callers : fd[d] \in Inodes => file'[fd[d]] = file[fd[d]]
          /\ Witness(token[c].login)
          BY <2>1, <2>2, RenameFacts
    <3>2. file'[path'].login = token[c].login BY <2>1, <3>1, NewType
    <3>3. /\ \A d \in Callers : seen[d] \subseteq seen'[d] \/ pc[d] = "idle"
          /\ \A d \in Callers : pc[d] # "idle" => token[c].login \in seen'[d]
          BY <2>1, <3>1, WitnessFacts
    <3>4. ASSUME NEW d \in Callers PROVE SeenBy(d)'
      <4>1. SeenBy(d) /\ CallerOK(d) /\ fd[d] \in Inodes \cup {NoToken}
            BY DEF SeenAll, Shape, AgyTypeOK
      <4>2. CASE pc[d] = "idle"
            BY <2>0, <4>1, <4>2 DEF SeenBy, CallerOK, Held
      <4>3. CASE pc[d] # "idle"
            BY <2>0, <3>1, <3>2, <3>3, <4>1, <4>3 DEF SeenBy, CallerOK, Held
      <4> QED BY <4>2, <4>3
    <3> QED BY <3>4 DEF SeenAll
  <2>3. CASE ~Rename(token[c].login, token[c].access, token[c].refresh)
    <3>1. UNCHANGED <<path, file, seen>> BY <1>7, <2>3 DEF WriteToken
    <3> QED BY <2>0, <3>1 DEF SeenAll, SeenBy, Held
  <2> QED BY <2>2, <2>3
<1>8. ASSUME NEW c \in Callers, UserEmail(c) PROVE SeenAll'
  BY <1>8 DEF UserEmail, AgyTypeOK, SeenAll, SeenBy, Held
<1>9. ASSUME NEW c \in Callers, Store(c) PROVE SeenAll'
  <2> DEFINE e == [token[c] EXCEPT !.mtime = file[fd[c]].mtime]
  <2>0. pc[c] = "store" /\ UNCHANGED <<file, path, fd, token, seen>>
        /\ pc' = [pc EXCEPT ![c] = "return"]
        BY <1>9 DEF Store
  <2>1. token[c] \in FileRec /\ file[fd[c]] \in FileRec BY <2>0, HeldToken DEF Held
  <2>2. e \in FileRec /\ e.login = token[c].login BY <2>1 DEF FileRec
  <2>3. answer' = [answer EXCEPT ![c] = e] BY <1>9 DEF Store
  <2> HIDE DEF e
  <2>4. SeenBy(c)' BY <2>0, <2>2, <2>3 DEF AgyTypeOK, SeenAll, SeenBy, Held
  <2>5. ASSUME NEW d \in Callers, d # c PROVE SeenBy(d)'
    <3>1. SeenBy(d) BY DEF SeenAll
    <3> QED BY <2>0, <2>3, <2>5, <3>1 DEF AgyTypeOK, SeenBy
  <2> QED BY <2>4, <2>5 DEF SeenAll
<1>10. ASSUME NEW c \in Callers, Return(c) PROVE SeenAll'
  <2>1. /\ pc'[c] = "idle" /\ fd'[c] = NoToken /\ answer'[c] = NoToken
        /\ \A d \in Callers : d # c => /\ fd'[d] = fd[d] /\ pc'[d] = pc[d] /\ token'[d] = token[d]
                                       /\ answer'[d] = answer[d] /\ seen'[d] = seen[d]
        /\ path' = path
        BY <1>10 DEF Return, AgyTypeOK
  <2>2. SeenBy(c)' BY <2>1 DEF SeenBy, Held
  <2>3. file' = Kept(file, path, fd') BY <1>10 DEF Return
  <2>4. /\ file'[path] = file[path]
        /\ \A d \in Callers : fd'[d] \in Inodes => file'[fd'[d]] = file[fd'[d]]
        BY <2>3, KeptFacts DEF AgyTypeOK
  <2>5. ASSUME NEW d \in Callers, d # c PROVE SeenBy(d)'
    <3>1. SeenBy(d) /\ fd[d] \in Inodes \cup {NoToken} BY DEF SeenAll, AgyTypeOK
    <3> QED BY <2>1, <2>4, <2>5, <3>1 DEF SeenBy
  <2> QED BY <2>2, <2>5 DEF SeenAll
<1>11. ASSUME NEW l \in Logins, AgyLogin(l) PROVE SeenAll'
  <2>0. /\ honoured[l] \in Nat /\ issued' \in Nat /\ Witness(l)
        /\ UNCHANGED <<fd, answer, token, pc>>
        BY <1>11 DEF AgyTypeOK, AgyLogin, Rename
  <2>1. /\ \A d \in Callers : seen[d] \subseteq seen'[d] \/ pc[d] = "idle"
        /\ \A d \in Callers : pc[d] # "idle" => l \in seen'[d]
        BY <2>0, WitnessFacts
  <2>2. New(l, issued', honoured[l]).login = l BY <2>0, NewType
  <2>3. /\ file'[path'].login = l
        /\ \A d \in Callers : fd[d] \in Inodes =>
             file'[fd[d]] = file[fd[d]] \/ file'[fd[d]].login = l
    <3>1. CASE Rename(l, issued', honoured[l]) BY <2>0, <2>2, <3>1, RenameFacts
    <3>2. CASE ~Rename(l, issued', honoured[l])
      <4>1. file' = [file EXCEPT ![path] = New(l, issued', honoured[l])] /\ path' = path
            BY <1>11, <3>2 DEF AgyLogin, New
      <4> QED BY <2>2, <4>1 DEF AgyTypeOK
    <3> QED BY <3>1, <3>2
  <2>4. ASSUME NEW d \in Callers PROVE SeenBy(d)'
    <3>1. SeenBy(d) /\ CallerOK(d) /\ fd[d] \in Inodes \cup {NoToken}
          BY DEF SeenAll, Shape, AgyTypeOK
    <3> QED BY <2>0, <2>1, <2>3, <3>1 DEF SeenBy, CallerOK, Held
  <2> QED BY <2>4 DEF SeenAll
<1>12. ASSUME TokenExpires PROVE SeenAll'
  BY <1>12 DEF TokenExpires, SeenAll, SeenBy
<1>13. ASSUME NEW p \in Procs, ProcessDies(p) PROVE SeenAll'
  <2>1. /\ \A d \in Callers : ProcOf[d] # p =>
              /\ fd'[d] = fd[d] /\ pc'[d] = pc[d] /\ token'[d] = token[d]
              /\ answer'[d] = answer[d] /\ seen'[d] = seen[d]
        /\ \A d \in Callers : ProcOf[d] = p =>
              pc'[d] = "idle" /\ fd'[d] = NoToken /\ answer'[d] = NoToken
        /\ file' = Kept(file, path, fd') /\ path' = path
        BY <1>13 DEF ProcessDies, AgyTypeOK
  <2>2. /\ file'[path] = file[path]
        /\ \A d \in Callers : fd'[d] \in Inodes => file'[fd'[d]] = file[fd'[d]]
        BY <2>1, KeptFacts DEF AgyTypeOK
  <2>3. ASSUME NEW d \in Callers, ProcOf[d] = p PROVE SeenBy(d)'
        BY <2>1, <2>3 DEF SeenBy, Held
  <2>4. ASSUME NEW d \in Callers, ProcOf[d] # p PROVE SeenBy(d)'
    <3>1. SeenBy(d) /\ fd[d] \in Inodes \cup {NoToken} BY DEF SeenAll, AgyTypeOK
    <3> QED BY <2>1, <2>2, <2>4, <3>1 DEF SeenBy
  <2> QED BY <2>3, <2>4 DEF SeenAll
<1>14. CASE UNCHANGED agyVars
  BY <1>14 DEF agyVars, SeenAll, SeenBy
<1> QED BY <1>1, <1>2, <1>3, <1>4, <1>5, <1>6, <1>7, <1>8, <1>9, <1>10, <1>11, <1>12, <1>13,
           <1>14 DEF AgyNext

\* The initial state satisfies the invariant.
LEMMA AnswerInit ==
  ASSUME AgyInit PROVE AnswerInv
<1>1. PICK l \in Logins :
        /\ path = CHOOSE i \in Inodes : TRUE
        /\ file = [j \in Inodes |-> IF j = path THEN New(l, 1, 1) ELSE NoToken]
      BY DEF AgyInit, New
<1>2. New(l, 1, 1).mtime = 1 BY NewType
<1>3. Stamps \subseteq {New(l, 1, 1)} BY <1>1 DEF AgyInit, Stamps
<1>4. TimesTell /\ TimesIssued BY <1>2, <1>3 DEF AgyInit, TimesTell, TimesIssued
<1>5. Unwritten /\ Locked /\ SeenAll
      BY DEF AgyInit, Unwritten, Locked, LockedBy, SeenAll, SeenBy, Held
<1> QED BY <1>4, <1>5 DEF AnswerInv

\* The state has the right types, and every caller has what it needs where it
\* stands in Get: a descriptor of a file with content once it has opened, a token
\* once it has read.
THEOREM AgyTypeCorrect == AgySpec => [](AgyTypeOK /\ Shape)
<1>1. AgyInit => AgyTypeOK /\ Shape BY AgyInitType
<1>2. AgyTypeOK /\ Shape /\ [AgyNext]_agyVars => (AgyTypeOK /\ Shape)' BY AgyTypeStep
<1> QED BY <1>1, <1>2, PTL DEF AgySpec

\* What Get returns, from its cache or from the file, is the token of a login
\* the path had while the call ran, with logins that replace or rewrite the file,
\* write-backs that rename over it and crashes at any time.
THEOREM AnswersCurrentLogin == AgySpec => []AnswerIsCurrent
<1>1. AgyInit => AnswerInv BY AnswerInit
<1>2. /\ AgyTypeOK /\ Shape /\ (AgyTypeOK /\ Shape)' /\ AnswerInv /\ [AgyNext]_agyVars
      => AnswerInv'
      BY AgyTimesStep, AgyLockStep, AgySeenStep DEF AnswerInv, TimesOK
<1>3. AnswerInv => AnswerIsCurrent BY DEF AnswerInv, SeenAll, SeenBy, AnswerIsCurrent
<1> QED BY <1>1, <1>2, <1>3, AgyTypeCorrect, PTL DEF AgySpec
-----------------------------------------------------------------------------
\* Copies are records, and hold every file and every token.
LEMMA CopiesType ==
  ASSUME AgyTypeOK
  PROVE  /\ \A r \in Copies : /\ r \in FileRec /\ r.login \in Logins
                              /\ r.access \in Nat /\ r.refresh \in Nat
         /\ \A i \in Inodes : file[i] # NoToken => file[i] \in Copies
         /\ \A c \in Callers : token[c] # NoToken => token[c] \in Copies
BY DEF AgyTypeOK, Copies, FileRec

\* The copies after a step that adds at most one record.
LEMMA CopiesNext ==
  ASSUME NEW e,
         \A i \in Inodes : file'[i] = NoToken \/ file'[i] = e \/ file'[i] \in Copies,
         \A c \in Callers : token'[c] = NoToken \/ token'[c] = e \/ token'[c] \in Copies
  PROVE  Copies' \subseteq Copies \cup {e}
BY DEF Copies

\* The copies after a step that only drops some.
LEMMA CopiesQuiet ==
  ASSUME AgyTypeOK,
         \A i \in Inodes : file'[i] \in {file[i], NoToken},
         \A c \in Callers : token'[c] \in {token[c], NoToken}
  PROVE  Copies' \subseteq Copies
BY DEF AgyTypeOK, Copies

\* A writer's token has the types of the record's fields.
LEMMA WriterToken ==
  ASSUME AgyTypeOK, Shape, NEW c \in Callers, pc[c] = "write"
  PROVE  /\ token[c] \in Copies /\ token[c] # NoToken /\ token[c].login \in Logins
         /\ token[c].access \in Nat /\ token[c].refresh \in Nat
<1>1. token[c] # NoToken BY DEF Shape, CallerOK, Held
<1> QED BY <1>1, CopiesType, HeldToken DEF Held

\* A step that adds no copy and no writer keeps what is said of copies.
LEMMA RefreshQuiet ==
  ASSUME AgyTypeOK, AgyTypeOK', Shape, RefreshInv,
         Copies' \subseteq Copies,
         UNCHANGED <<expired, issued, honoured>>,
         \A c \in Callers : pc'[c] = "write" => pc[c] = "write" /\ token'[c] = token[c],
         \A c \in Callers : pc'[c] = "refresh" =>
           (pc[c] = "refresh" /\ token'[c] = token[c]) \/ token'[c].access <= expired
  PROVE  Bounded' /\ Tired' /\ InTime' /\ WritesNewest' /\ LaterIsNewer'
<1>1. Bounded' BY DEF RefreshInv, Bounded
<1>2. Tired' BY DEF RefreshInv, Tired
<1>3. InTime' BY DEF RefreshInv, InTime
<1>4. WritesNewest' BY DEF RefreshInv, WritesNewest
<1>5. LaterIsNewer' BY DEF RefreshInv, LaterIsNewer
<1> QED BY <1>1, <1>2, <1>3, <1>4, <1>5

\* A step that leaves the content of the path and the writers alone, or counts
\* what they lose, keeps the promise about the path.
LEMMA PathKept ==
  ASSUME AgyTypeOK, Shape, RefreshInv, UNCHANGED honoured, file'[path'] = file[path],
         agyLost \subseteq agyLost',
         \A c \in Callers : pc[c] = "write" =>
            (pc'[c] = "write" /\ token'[c] = token[c]) \/ token[c].login \in agyLost'
  PROVE  PathOrWriter'
BY DEF RefreshInv, PathOrWriter

\* Every step keeps the invariant, without stalls and with a provider of one kind.
LEMMA AgyRefreshStep ==
  ASSUME AgyTypeOK, AgyTypeOK', Shape, Shape', RefreshInv, [AgyNext]_agyVars, ~Stalls, OneKind
  PROVE  RefreshInv'
<1> USE DEF world, local
<1>q. ASSUME Copies' \subseteq Copies, UNCHANGED <<expired, issued, honoured>>,
             file'[path'] = file[path], agyLost \subseteq agyLost',
             \A c \in Callers : pc'[c] = "write" => pc[c] = "write" /\ token'[c] = token[c],
             \A c \in Callers : pc[c] = "write" =>
                (pc'[c] = "write" /\ token'[c] = token[c]) \/ token[c].login \in agyLost',
             \A c \in Callers : pc'[c] = "refresh" =>
               (pc[c] = "refresh" /\ token'[c] = token[c]) \/ token'[c].access <= expired
      PROVE  RefreshInv'
      BY <1>q, RefreshQuiet, PathKept DEF RefreshInv
<1>s. ASSUME UNCHANGED <<path, file, expired, issued, honoured, token, agyLost>>,
             \A c \in Callers : pc'[c] = "write" <=> pc[c] = "write",
             \A c \in Callers : pc'[c] = "refresh" => pc[c] = "refresh"
      PROVE  RefreshInv'
  <2>1. Copies' = Copies BY <1>s DEF Copies
  <2> QED BY <1>q, <1>s, <2>1
<1>1. ASSUME NEW c \in Callers, ReadCache(c) PROVE RefreshInv'
  <2>1. /\ \A d \in Callers : pc'[d] = "write" <=> pc[d] = "write"
        /\ \A d \in Callers : pc'[d] = "refresh" => pc[d] = "refresh"
        BY <1>1 DEF ReadCache, AgyTypeOK
  <2> QED BY <1>s, <1>1, <2>1 DEF ReadCache
<1>2. ASSUME NEW c \in Callers, StatPath(c) PROVE RefreshInv'
  <2>1. /\ \A d \in Callers : pc'[d] = "write" <=> pc[d] = "write"
        /\ \A d \in Callers : pc'[d] = "refresh" => pc[d] = "refresh"
        BY <1>2 DEF StatPath, AgyTypeOK
  <2> QED BY <1>s, <1>2, <2>1 DEF StatPath
<1>3. ASSUME NEW c \in Callers, Open(c) PROVE RefreshInv'
  <2>1. /\ \A d \in Callers : pc'[d] = "write" <=> pc[d] = "write"
        /\ \A d \in Callers : pc'[d] = "refresh" => pc[d] = "refresh"
        BY <1>3 DEF Open, AgyTypeOK
  <2> QED BY <1>s, <1>3, <2>1 DEF Open
<1>4. ASSUME NEW c \in Callers, LockAndRead(c) PROVE RefreshInv'
  <2>1. /\ UNCHANGED <<path, file, expired, issued, honoured, agyLost>>
        /\ pc[c] = "lock" /\ token'[c] = file[fd[c]]
        /\ pc'[c] = IF Fresh(file[fd[c]].access) THEN "email" ELSE "refresh"
        /\ \A d \in Callers : d # c => pc'[d] = pc[d] /\ token'[d] = token[d]
        BY <1>4 DEF LockAndRead, AgyTypeOK
  <2>2. fd[c] \in Inodes /\ file[fd[c]] # NoToken /\ file[fd[c]] \in FileRec
        BY <2>1 DEF Shape, CallerOK, Held, AgyTypeOK
  <2>3. Copies' \subseteq Copies
    <3>1. /\ \A i \in Inodes : file'[i] = NoToken \/ file'[i] \in Copies
          /\ \A d \in Callers : token'[d] = NoToken \/ token'[d] \in Copies
          BY <2>1, <2>2, CopiesType
    <3>2. Copies' \subseteq Copies \cup {NoToken} BY <3>1, CopiesNext
    <3> QED BY <3>2 DEF Copies
  <2>4. pc'[c] = "refresh" => token'[c].access <= expired
        BY <2>1, <2>2 DEF Fresh, FileRec, AgyTypeOK
  <2>5. pc'[c] # "write" BY <2>1
  <2> QED BY <1>q, <2>1, <2>3, <2>4, <2>5
<1>5. ASSUME NEW c \in Callers, RefreshRefused(c) PROVE RefreshInv'
  <2>1. /\ \A d \in Callers : pc'[d] = "write" <=> pc[d] = "write"
        /\ \A d \in Callers : pc'[d] = "refresh" => pc[d] = "refresh"
        BY <1>5 DEF RefreshRefused, AgyTypeOK
  <2> QED BY <1>s, <1>5, <2>1 DEF RefreshRefused
<1>8. ASSUME NEW c \in Callers, UserEmail(c) PROVE RefreshInv'
  <2>1. /\ \A d \in Callers : pc'[d] = "write" <=> pc[d] = "write"
        /\ \A d \in Callers : pc'[d] = "refresh" => pc[d] = "refresh"
        BY <1>8 DEF UserEmail, AgyTypeOK
  <2> QED BY <1>s, <1>8, <2>1 DEF UserEmail
<1>9. ASSUME NEW c \in Callers, Store(c) PROVE RefreshInv'
  <2>1. /\ \A d \in Callers : pc'[d] = "write" <=> pc[d] = "write"
        /\ \A d \in Callers : pc'[d] = "refresh" => pc[d] = "refresh"
        BY <1>9 DEF Store, AgyTypeOK
  <2>2. UNCHANGED <<path, file, expired, issued, honoured, token, agyLost>> BY <1>9 DEF Store
  <2> QED BY <1>s, <2>1, <2>2
<1>10. ASSUME NEW c \in Callers, Return(c) PROVE RefreshInv'
  <2>1. /\ pc[c] = "return" /\ pc'[c] = "idle" /\ token'[c] = NoToken
        /\ \A d \in Callers : d # c => pc'[d] = pc[d] /\ token'[d] = token[d]
        /\ UNCHANGED <<path, expired, issued, honoured, agyLost>>
        /\ file' = Kept(file, path, fd')
        BY <1>10 DEF Return, AgyTypeOK
  <2>2. /\ \A i \in Inodes : file'[i] \in {file[i], NoToken}
        /\ file'[path] = file[path]
        BY <2>1, KeptFacts DEF AgyTypeOK
  <2>3. Copies' \subseteq Copies BY <2>1, <2>2, CopiesQuiet
  <2> QED BY <1>q, <2>1, <2>2, <2>3
<1>12. ASSUME TokenExpires PROVE RefreshInv'
  <2>1. /\ UNCHANGED <<path, file, issued, honoured, token, agyLost, pc>>
        /\ expired < issued /\ expired' = expired + 1
        /\ \A c \in Callers : pc[c] = "write" => token[c].access > expired'
        BY <1>12 DEF TokenExpires
  <2>2. Copies' = Copies BY <2>1 DEF Copies
  <2>3. Bounded' BY <2>1, <2>2 DEF RefreshInv, Bounded, AgyTypeOK
  <2>4. Tired'
    <3>1. \A c \in Callers : pc[c] = "refresh" => token[c].access \in Nat
          BY HeldToken DEF Held
    <3> QED BY <2>1, <3>1 DEF RefreshInv, Tired, AgyTypeOK
  <2>5. InTime' BY <2>1 DEF InTime
  <2>6. WritesNewest' BY <2>1 DEF RefreshInv, WritesNewest
  <2>7. LaterIsNewer' BY <2>1, <2>2 DEF RefreshInv, LaterIsNewer
  <2>8. PathOrWriter' BY <2>1 DEF RefreshInv, PathOrWriter
  <2> QED BY <2>3, <2>4, <2>5, <2>6, <2>7, <2>8 DEF RefreshInv
<1>13. ASSUME NEW p \in Procs, ProcessDies(p) PROVE RefreshInv'
  <2>1. /\ \A d \in Callers : ProcOf[d] # p => pc'[d] = pc[d] /\ token'[d] = token[d]
        /\ \A d \in Callers : ProcOf[d] = p => pc'[d] = "idle" /\ token'[d] = NoToken
        /\ UNCHANGED <<path, expired, issued, honoured>>
        /\ file' = Kept(file, path, fd')
        BY <1>13 DEF ProcessDies, AgyTypeOK
  <2>2. /\ \A i \in Inodes : file'[i] \in {file[i], NoToken}
        /\ file'[path] = file[path]
        BY <2>1, KeptFacts DEF AgyTypeOK
  <2>3. Copies' \subseteq Copies BY <2>1, <2>2, CopiesQuiet
  <2>4. agyLost \subseteq agyLost'
        /\ \A d \in Callers : ProcOf[d] = p /\ pc[d] = "write" => token[d].login \in agyLost'
        BY <1>13 DEF ProcessDies
  <2> QED BY <1>q, <2>1, <2>2, <2>3, <2>4
<1>14. CASE UNCHANGED agyVars
  BY <1>14, <1>s DEF agyVars
<1>6. ASSUME NEW c \in Callers, RefreshAnswered(c) PROVE RefreshInv'
  <2>1. /\ pc[c] = "refresh" /\ issued' = issued + 1
        /\ token[c] \in FileRec /\ token[c].refresh = honoured[token[c].login]
        /\ UNCHANGED <<path, file, expired>>
        BY <1>6, AnswerCases
  <2>2. PICK rotated \in Rotates, newest \in Nat :
          /\ newest = IF rotated THEN token[c].refresh + 1 ELSE token[c].refresh
          /\ honoured' = [honoured EXCEPT ![token[c].login] = newest]
          /\ \/ /\ token' \in [Callers -> FileRec \cup {NoToken}]
                /\ \A d \in Callers : d # c => token'[d] = token[d]
                /\ token'[c] \in FileRec /\ token'[c].login = token[c].login
                /\ token'[c].access = issued + 1 /\ token'[c].refresh = newest
                /\ pc' = [pc EXCEPT ![c] = IF Writes(c) THEN "write" ELSE "email"]
                /\ agyLost' = IF rotated /\ ~Writes(c) THEN agyLost \cup {token[c].login}
                             ELSE agyLost
             \/ /\ pc' = [pc EXCEPT ![c] = "return"] /\ token' = token
                /\ agyLost' = IF rotated THEN agyLost \cup {token[c].login} ELSE agyLost
        BY <1>6, AnswerCases
  <2> DEFINE l == token[c].login
  <2>3. l \in Logins /\ honoured[l] \in Nat /\ token[c] \in Copies /\ token[c].access \in Nat
        /\ token[c].access <= expired
        BY <2>1, HeldToken, CopiesType, NoTokenIsNone DEF Held, RefreshInv, Tired, AgyTypeOK
  <2>4. rotated \in BOOLEAN /\ (TRUE \in Rotates => rotated)
        BY AgyAssumption DEF AgyAssumption, OneKind
  <2>5. /\ honoured'[l] = newest /\ newest >= honoured[l]
        /\ \A m \in Logins : m # l => honoured'[m] = honoured[m]
        BY <2>1, <2>2, <2>3 DEF AgyTypeOK
  <2>6. \A d \in Callers : d # c => pc'[d] = pc[d] /\ token'[d] = token[d]
    <3>1. pc \in [Callers -> States] BY DEF AgyTypeOK
    <3> QED BY <2>2, <3>1
  <2>7. pc'[c] # "refresh" /\ (pc'[c] = "write" =>
          token'[c].login = l /\ token'[c].access = issued + 1 /\ token'[c].refresh = newest)
    <3>1. pc \in [Callers -> States] BY DEF AgyTypeOK
    <3> QED BY <2>2, <3>1
  <2>8. PICK e \in FileRec :
          /\ e = token[c] \/ (e.login = l /\ e.access = issued + 1 /\ e.refresh = newest)
          /\ token'[c] = e
        BY <2>1, <2>2
  <2>9. Copies' \subseteq Copies \cup {e}
    <3>1. /\ \A i \in Inodes : file'[i] = NoToken \/ file'[i] \in Copies
          /\ \A d \in Callers : token'[d] = NoToken \/ token'[d] = e \/ token'[d] \in Copies
          BY <2>1, <2>6, <2>8, CopiesType
    <3> QED BY <3>1, CopiesNext
  <2> HIDE DEF l
  <2>10. \A r \in Copies : /\ r.login \in Logins /\ r.access \in Nat /\ r.refresh \in Nat
                           /\ r.access <= issued /\ r.refresh <= honoured[r.login]
         BY CopiesType DEF RefreshInv, Bounded
  <2>11. ASSUME NEW d \in Callers, pc[d] = "write", token[d].login = l PROVE ~rotated
    <3>1. token[d].access \in Nat /\ token[d].access > expired /\ token[d].refresh = honoured[l]
          BY <2>11, WriterToken DEF RefreshInv, InTime, WritesNewest
    <3>2. token[c].refresh = honoured[l] /\ token[c].login = l BY <2>1 DEF l
    <3>3. token[c].refresh >= token[d].refresh /\ token[c].login = token[d].login
          BY <2>3, <2>11, <3>1, <3>2
    <3>4. LaterIsNewer BY DEF RefreshInv
    <3>5. ASSUME TRUE \in Rotates PROVE token[c].access >= token[d].access
          BY <2>3, <2>11, <3>3, <3>4, <3>5 DEF LaterIsNewer
    <3>6. ~(token[c].access >= token[d].access) BY <2>3, <3>1 DEF AgyTypeOK
    <3>7. rotated => TRUE \in Rotates
      <4>1. rotated => rotated = TRUE BY <2>4
      <4> QED BY <4>1
    <3> QED BY <3>5, <3>6, <3>7
  <2>12. Bounded'
    <3>1. expired' <= issued' BY <2>1 DEF RefreshInv, Bounded, AgyTypeOK
    <3>2. ASSUME NEW r \in Copies PROVE r.access <= issued' /\ r.refresh <= honoured'[r.login]
      <4>1. r.access <= issued' BY <2>1, <2>10 DEF AgyTypeOK
      <4>2. CASE r.login = l BY <2>2, <2>3, <2>5, <2>10, <4>1, <4>2
      <4>3. CASE r.login # l BY <2>5, <2>10, <4>1, <4>3
      <4> QED BY <4>2, <4>3
    <3>3. CASE e = token[c] BY <2>3, <2>9, <3>1, <3>2, <3>3 DEF Bounded
    <3>4. CASE e.login = l /\ e.access = issued + 1 /\ e.refresh = newest
      <4>1. e.access <= issued' /\ e.refresh <= honoured'[e.login]
            BY <2>1, <2>5, <3>4 DEF AgyTypeOK
      <4> QED BY <2>9, <3>1, <3>2, <4>1 DEF Bounded
    <3> QED BY <2>8, <3>3, <3>4
  <2>13. Tired' BY <2>1, <2>6, <2>7 DEF RefreshInv, Tired
  <2>14. InTime'
    <3>1. issued + 1 > expired BY DEF RefreshInv, Bounded, AgyTypeOK
    <3> QED BY <2>1, <2>6, <2>7, <3>1 DEF RefreshInv, InTime
  <2>15. WritesNewest'
    <3> SUFFICES ASSUME NEW d \in Callers, pc'[d] = "write"
        PROVE  token'[d].refresh = honoured'[token'[d].login]
        BY DEF WritesNewest
    <3>1. CASE d = c BY <2>5, <2>7, <3>1
    <3>2. CASE d # c
      <4>1. pc[d] = "write" /\ token'[d] = token[d] BY <2>6, <3>2
      <4>2. token[d].login \in Logins /\ token[d].refresh = honoured[token[d].login]
            BY <4>1, WriterToken DEF RefreshInv, WritesNewest
      <4>3. CASE token[d].login = l
        <5>1. newest = honoured[l] BY <2>1, <2>2, <2>11, <4>1, <4>3 DEF l
        <5> QED BY <2>5, <4>1, <4>2, <4>3, <5>1
      <4>4. CASE token[d].login # l BY <2>5, <4>1, <4>2, <4>4
      <4> QED BY <4>3, <4>4
    <3> QED BY <3>1, <3>2
  <2>16. LaterIsNewer'
    <3> SUFFICES ASSUME NEW d \in Callers, pc'[d] = "write", TRUE \in Rotates,
                        NEW r \in Copies', r.login = token'[d].login,
                        r.refresh >= token'[d].refresh
        PROVE  r.access >= token'[d].access
        BY DEF LaterIsNewer
    <3>0. r \in Copies \/ r = e BY <2>9
    <3>1. CASE d = c
      <4>1. token'[c].login = l /\ token'[c].access = issued + 1 /\ token'[c].refresh = newest
            BY <2>7, <3>1
      <4>2. newest = honoured[l] + 1 BY <2>1, <2>2, <2>4 DEF l
      <4>3. CASE r \in Copies
        <5>1. r.refresh <= honoured[l] /\ r.refresh \in Nat BY <2>10, <3>1, <4>1, <4>3
        <5> QED BY <2>3, <3>1, <4>1, <4>2, <5>1
      <4>4. CASE r = e BY <2>8, <3>1, <4>1, <4>4 DEF AgyTypeOK
      <4> QED BY <3>0, <4>3, <4>4
    <3>2. CASE d # c
      <4>1. pc[d] = "write" /\ token'[d] = token[d] BY <2>6, <3>2
      <4>2. CASE r \in Copies BY <4>1, <4>2 DEF RefreshInv, LaterIsNewer
      <4>3. CASE r = e /\ e.access = issued + 1
        <5>1. token[d].access \in Nat /\ token[d].access <= issued
              BY <2>10, <4>1, WriterToken
        <5> QED BY <4>1, <4>3, <5>1 DEF AgyTypeOK
      <4> QED BY <2>3, <2>8, <3>0, <4>2, <4>3
    <3> QED BY <3>1, <3>2
  <2>17. PathOrWriter'
    <3> DEFINE m == file[path].login
    <3>1. m \in Logins /\ file'[path'] = file[path] BY <2>1 DEF AgyTypeOK, Shape, FileRec
    <3>2. agyLost \subseteq agyLost' BY <2>2
    <3>3. CASE m # l
      <4>1. honoured'[m] = honoured[m] BY <2>5, <3>1, <3>3
      <4>2. \A d \in Callers : pc[d] = "write" => pc'[d] = "write" /\ token'[d] = token[d]
            BY <2>1, <2>6
      <4> QED BY <3>1, <3>2, <4>1, <4>2 DEF RefreshInv, PathOrWriter
    <3>4. CASE m = l /\ ~rotated
      <4>1. honoured'[m] = honoured[m] BY <2>1, <2>2, <2>5, <3>4 DEF l
      <4>2. \A d \in Callers : pc[d] = "write" => pc'[d] = "write" /\ token'[d] = token[d]
            BY <2>1, <2>6
      <4> QED BY <3>1, <3>2, <4>1, <4>2 DEF RefreshInv, PathOrWriter
    <3>5. CASE m = l /\ rotated
      <4>1. l \in agyLost' \/ (pc'[c] = "write" /\ token'[c].login = l)
        <5>1. pc \in [Callers -> States] BY DEF AgyTypeOK
        <5> QED BY <2>2, <3>5, <5>1 DEF l
      <4> QED BY <3>1, <3>5, <4>1 DEF PathOrWriter
    <3> QED BY <2>4, <3>3, <3>4, <3>5
  <2> QED BY <2>12, <2>13, <2>14, <2>15, <2>16, <2>17 DEF RefreshInv
<1>7. ASSUME NEW c \in Callers, WriteToken(c) PROVE RefreshInv'
  <2>0. /\ pc[c] = "write" /\ UNCHANGED <<expired, issued, honoured, token>>
        /\ pc'[c] \in {"email", "return"} /\ \A d \in Callers : d # c => pc'[d] = pc[d]
        BY <1>7 DEF WriteToken, AgyTypeOK
  <2>1. /\ token[c] \in FileRec /\ token[c].login \in Logins /\ token[c].refresh \in Nat
        /\ token[c].access \in Nat /\ token[c] \in Copies
        BY <2>0, HeldToken, WriterToken DEF Held
  <2>2. CASE Rename(token[c].login, token[c].access, token[c].refresh)
    <3> DEFINE e == New(token[c].login, token[c].access, token[c].refresh)
    <3>1. /\ e \in FileRec /\ e.login = token[c].login /\ e.access = token[c].access
          /\ e.refresh = token[c].refresh
          BY <2>1, NewType
    <3>2. /\ \A i \in Inodes : file'[i] \in {file[i], NoToken, e}
          /\ file'[path'] = e
          BY <2>1, <2>2, RenameFacts
    <3> HIDE DEF e
    <3>3. Copies' \subseteq Copies \cup {e}
      <4>1. /\ \A i \in Inodes : file'[i] = NoToken \/ file'[i] = e \/ file'[i] \in Copies
            /\ \A d \in Callers : token'[d] = NoToken \/ token'[d] = e \/ token'[d] \in Copies
            BY <2>0, <3>2, CopiesType
      <4> QED BY <4>1, CopiesNext
    <3>4. Bounded' BY <2>0, <2>1, <3>1, <3>3 DEF RefreshInv, Bounded
    <3>5. Tired' BY <2>0 DEF RefreshInv, Tired
    <3>6. InTime' BY <2>0 DEF RefreshInv, InTime
    <3>7. WritesNewest' BY <2>0 DEF RefreshInv, WritesNewest
    <3>8. LaterIsNewer' BY <2>0, <2>1, <3>1, <3>3 DEF RefreshInv, LaterIsNewer
    <3>9. PathOrWriter'
      <4>1. token[c].refresh = honoured[token[c].login] BY <2>0 DEF RefreshInv, WritesNewest
      <4> QED BY <2>0, <3>1, <3>2, <4>1 DEF PathOrWriter
    <3> QED BY <3>4, <3>5, <3>6, <3>7, <3>8, <3>9 DEF RefreshInv
  <2>3. CASE ~Rename(token[c].login, token[c].access, token[c].refresh)
    <3>1. UNCHANGED <<path, file>> /\ agyLost' = agyLost \cup {token[c].login}
          BY <1>7, <2>3 DEF WriteToken
    <3>2. Copies' = Copies BY <2>0, <3>1 DEF Copies
    <3> QED BY <1>q, <2>0, <3>1, <3>2
  <2> QED BY <2>2, <2>3
<1>11. ASSUME NEW l \in Logins, AgyLogin(l) PROVE RefreshInv'
  <2> DEFINE e == New(l, issued', honoured[l])
  <2>0. /\ honoured[l] \in Nat /\ issued' = issued + 1 /\ issued' \in Nat
        /\ UNCHANGED <<expired, honoured, token, pc>>
        BY <1>11 DEF AgyTypeOK, AgyLogin
  <2>1. e \in FileRec /\ e.login = l /\ e.access = issued' /\ e.refresh = honoured[l]
        BY <2>0, NewType
  <2>2. /\ \A i \in Inodes : file'[i] \in {file[i], NoToken, e}
        /\ file'[path'] = e
    <3>1. CASE Rename(l, issued', honoured[l]) BY <2>0, <3>1, RenameFacts
    <3>2. CASE ~Rename(l, issued', honoured[l])
      <4>1. file' = [file EXCEPT ![path] = e] /\ path' = path
            BY <1>11, <3>2 DEF AgyLogin, New
      <4> HIDE DEF e
      <4> QED BY <4>1 DEF AgyTypeOK
    <3> QED BY <3>1, <3>2
  <2> HIDE DEF e
  <2>3. Copies' \subseteq Copies \cup {e}
    <3>1. /\ \A i \in Inodes : file'[i] = NoToken \/ file'[i] = e \/ file'[i] \in Copies
          /\ \A d \in Callers : token'[d] = NoToken \/ token'[d] = e \/ token'[d] \in Copies
          BY <2>0, <2>2, CopiesType
    <3> QED BY <3>1, CopiesNext
  <2>4. \A r \in Copies : r.access \in Nat BY CopiesType
  <2>5. Bounded' BY <2>0, <2>1, <2>3, <2>4 DEF RefreshInv, Bounded, AgyTypeOK
  <2>6. Tired' BY <2>0 DEF RefreshInv, Tired
  <2>7. InTime' BY <2>0 DEF RefreshInv, InTime
  <2>8. WritesNewest' BY <2>0 DEF RefreshInv, WritesNewest
  <2>9. LaterIsNewer'
    <3>1. \A d \in Callers : pc[d] = "write" => token[d].access \in Nat /\ token[d].access <= issued
          BY WriterToken DEF RefreshInv, Bounded
    <3>2. \A d \in Callers : pc[d] = "write" => e.access >= token[d].access
          BY <2>0, <2>1, <3>1 DEF AgyTypeOK
    <3> QED BY <2>0, <2>3, <3>2 DEF RefreshInv, LaterIsNewer
  <2>10. PathOrWriter' BY <2>0, <2>1, <2>2 DEF PathOrWriter
  <2> QED BY <2>5, <2>6, <2>7, <2>8, <2>9, <2>10 DEF RefreshInv
<1> QED BY <1>1, <1>2, <1>3, <1>4, <1>5, <1>6, <1>7, <1>8, <1>9, <1>10, <1>11, <1>12, <1>13,
           <1>14 DEF AgyNext

\* The initial state satisfies the invariant.
LEMMA RefreshInit ==
  ASSUME AgyInit PROVE RefreshInv
<1>1. PICK l \in Logins :
        /\ path = CHOOSE i \in Inodes : TRUE
        /\ file = [j \in Inodes |-> IF j = path THEN New(l, 1, 1) ELSE NoToken]
      BY DEF AgyInit, New
<1>2. /\ New(l, 1, 1).access = 1 /\ New(l, 1, 1).refresh = 1 /\ New(l, 1, 1).login = l
      BY NewType
<1>3. Copies \subseteq {New(l, 1, 1)} BY <1>1 DEF AgyInit, Copies
<1>4. expired = 0 /\ issued = 1 /\ \A m \in Logins : honoured[m] = 1 BY DEF AgyInit
<1>5. Bounded BY <1>2, <1>3, <1>4 DEF Bounded
<1>6. path \in Inodes BY <1>1, AgyAssumption DEF AgyAssumption
<1>7. file[path] = New(l, 1, 1) BY <1>1, <1>6
<1>8. PathOrWriter BY <1>2, <1>4, <1>7 DEF PathOrWriter
<1>9. Tired /\ InTime /\ WritesNewest /\ LaterIsNewer
      BY DEF AgyInit, Tired, InTime, WritesNewest, LaterIsNewer
<1> QED BY <1>5, <1>8, <1>9 DEF RefreshInv

\* The path has the refresh token the provider honours for its login, or a
\* write-back of that token is under way, unless it was lost before it reached a
\* file: two callers may hold the locks of two files of one path and refresh both,
\* but none puts an old refresh token over a newer one.
THEOREM KeepsRefreshToken ==
  ASSUME ~Stalls, OneKind
  PROVE  AgySpec => []RefreshTokenKept
<1>1. AgyInit => RefreshInv BY RefreshInit
<1>2. /\ AgyTypeOK /\ Shape /\ (AgyTypeOK /\ Shape)' /\ RefreshInv /\ [AgyNext]_agyVars
      => RefreshInv'
      BY AgyRefreshStep
<1>3. RefreshInv => RefreshTokenKept
      BY DEF RefreshInv, WritesNewest, PathOrWriter, RefreshTokenKept
<1> QED BY <1>1, <1>2, <1>3, AgyTypeCorrect, PTL DEF AgySpec

-----------------------------------------------------------------------------
(* The Kimi sign-in *)


Creds == [login : Sessions, version : Nat \ {0}]
MaybeCred == Creds \cup {NoCred}
Critical == {"refresh", "compare", "persist"}
WithSession == {"snapshot", "claim", "save", "release", "remove", "stop"}

KimiTypeOK ==
  /\ status \in [Sessions -> {"none", "pending", "completed", "ended"}]
  /\ registered \in [Sessions -> BOOLEAN]
  /\ poller \in [Sessions -> {"off", "polling", "granted"}]
  /\ listed \in SUBSET Sessions
  /\ valid \in [Sessions -> Nat]
  /\ stored \in MaybeCred /\ unsaved \in MaybeCred /\ from \in MaybeCred /\ dead \in MaybeCred
  /\ mutex \in Handlers \cup {NoCred}
  /\ at \in [Handlers -> {"idle", "lock"} \cup WithSession \cup Critical]
  /\ on \in [Handlers -> Sessions \cup {NoCred}]
  /\ before \in [Handlers -> MaybeCred] /\ current \in [Handlers -> MaybeCred]
  /\ lost \in SUBSET Sessions

\* A handler in the middle of its work has its session, or the mutex with the
\* credential it found and the one it refreshes, both of one login.  The one it
\* found stays in the configuration unless it is cleared.
HandlerOK(h) ==
  /\ at[h] \in WithSession => on[h] \in Sessions
  /\ at[h] \in Critical <=> mutex = h
  /\ at[h] \in Critical => /\ before[h] # NoCred /\ current[h] # NoCred
                           /\ before[h].login = current[h].login
                           /\ stored \in {before[h], NoCred}
  /\ at[h] = "refresh" =>
       \/ current[h].version = valid[current[h].login]
       \/ current[h].login \in lost
  /\ at[h] \in {"compare", "persist"} => current[h].version = valid[current[h].login]
HandlersOK == \A h \in Handlers : HandlerOK(h)

\* The credentials the program has, whatever for.
Traces == ({stored, unsaved, from} \cup {before[h] : h \in Handlers}
             \cup {current[h] : h \in Handlers}) \ {NoCred}
Known == \A c \in Traces : c.version <= valid[c.login]
NoTrace(s) == \A c \in Traces : c.login # s

\* A flow has its first refresh token once it is granted, and nothing has a
\* credential of it before its registration is saved: only then it is refreshed.
FlowStarted(s) ==
  /\ status[s] = "none" \/ poller[s] = "polling" => valid[s] = 0
  /\ status[s] = "none" => poller[s] = "off"
  /\ status[s] = "completed" \/ poller[s] = "granted" => valid[s] >= 1
FlowOK(s) == FlowStarted(s) /\ (~registered[s] => valid[s] <= 1 /\ NoTrace(s))
FlowsOK == \A s \in Sessions : FlowOK(s)
Saving(h) == at[h] \in {"save", "release"}
ClaimsOK ==
  \A h \in Handlers :
    /\ at[h] = "claim" => valid[on[h]] >= 1
    /\ Saving(h) => registered[on[h]] /\ valid[on[h]] = 1 /\ NoTrace(on[h])
    /\ \A g \in Handlers : Saving(h) /\ Saving(g) /\ on[h] = on[g] => g = h

\* The refreshed credential that could not be saved is the newest of its login
\* as long as the configuration holds the one it replaced.
UnsavedOK ==
  unsaved # NoCred /\ stored # NoCred /\ from = stored =>
    /\ unsaved.login = stored.login
    /\ \/ stored.login \in lost
       \/ unsaved.version = valid[stored.login]
       \/ \E h \in Handlers : at[h] \in {"compare", "persist"}

\* The configuration's credential is the newest of its login, or lost, or its
\* successor is in memory or under way.
StoredOK ==
  stored # NoCred =>
    \/ stored.login \in lost
    \/ stored.version = valid[stored.login]
    \/ unsaved # NoCred /\ from = stored
    \/ \E h \in Handlers : at[h] \in {"compare", "persist"}
KimiInv ==
  /\ HandlersOK /\ Known /\ FlowsOK /\ ClaimsOK
  /\ UnsavedOK /\ StoredOK /\ SignInAgainOnlyIfLost

\* The steps that give the program a credential, and those of Kimi's that change
\* the refresh token it honours.
Obtains == \E h \in Handlers : Register(h) \/ Refreshed(h)
Renewal == \/ \E h \in Handlers : Refreshed(h)
           \/ \E h \in Handlers : RefreshUnanswered(h)
           \/ \E s \in Sessions : Granted(s)
Releases(s) == \E h \in Handlers : ReleaseCompletion(h) /\ on[h] = s

\* How a flow and its poller move, and how a handler comes to a claim.
StatusMoves ==
  \A s \in Sessions :
    /\ poller'[s] = "polling" => poller[s] = "polling" \/ status[s] = "none"
    /\ status'[s] = "none" => status[s] = "none" /\ poller'[s] = "off"
    /\ \/ ~(status'[s] = "completed" \/ poller'[s] = "granted")
       \/ status[s] = "completed" \/ poller[s] = "granted" \/ valid'[s] = 1
HandlerMoves ==
  \A h \in Handlers :
    /\ at'[h] = "claim" =>
         /\ on'[h] = on[h]
         /\ at[h] = "claim" \/ (at[h] = "snapshot" /\ status[on[h]] = "completed")
    /\ Saving(h)' =>
         /\ on'[h] = on[h]
         /\ Saving(h) \/ (at[h] = "claim" /\ ~registered[on[h]])
         /\ ~Saving(h) => ClaimCompletion(h) /\ \A g \in Handlers : g # h => at'[g] = at[g]

\* How the configuration's credential and the unsaved one may change.
StoreMoves ==
  \/ /\ UNCHANGED <<stored, unsaved, from>>
     /\ \A h \in Handlers : at[h] \in {"compare", "persist"} =>
          at'[h] \in {"compare", "persist"} \/ stored = NoCred
  \/ stored' = NoCred
  \/ \E h \in Handlers : Register(h) \/ EnterRefresh(h) \/ Persist(h) \/ Logout(h)
  \/ Crash

-----------------------------------------------------------------------------
\* NoCred is told apart from credentials and handlers.
LEMMA NoCredIsNone == NoCred \notin Creds /\ NoCred \notin Handlers
BY KimiAssumption DEF KimiAssumption, Creds

\* The fields of a credential.
LEMMA CredType ==
  ASSUME NEW s \in Sessions, NEW v \in Nat \ {0}
  PROVE  Cred(s, v) \in Creds /\ Cred(s, v).login = s /\ Cred(s, v).version = v
BY DEF Cred, Creds

\* What a handler in the critical section holds.
LEMMA CriticalFacts ==
  ASSUME KimiTypeOK, HandlersOK, NEW h \in Handlers, at[h] \in Critical
  PROVE  /\ mutex = h /\ before[h] \in Creds /\ current[h] \in Creds
         /\ current[h].login \in Sessions /\ current[h].version \in Nat \ {0}
         /\ before[h].login = current[h].login /\ stored \in {before[h], NoCred}
BY DEF KimiTypeOK, HandlersOK, HandlerOK, Creds, MaybeCred

LEMMA KimiInitInv ==
  ASSUME KimiInit PROVE KimiTypeOK /\ KimiInv
<1>1. KimiTypeOK BY DEF KimiInit, KimiTypeOK, MaybeCred
<1>2. Traces = {} BY DEF KimiInit, Traces
<1>3. HandlersOK BY NoCredIsNone DEF KimiInit, HandlersOK, HandlerOK, WithSession, Critical
<1>4. Known /\ FlowsOK BY <1>2 DEF KimiInit, Known, FlowsOK, FlowOK, FlowStarted, NoTrace
<1>5. ClaimsOK BY DEF KimiInit, ClaimsOK, Saving
<1>6. UnsavedOK /\ StoredOK /\ SignInAgainOnlyIfLost
      BY DEF KimiInit, UnsavedOK, StoredOK, SignInAgainOnlyIfLost
<1> QED BY <1>1, <1>3, <1>4, <1>5, <1>6 DEF KimiInv

\* Every step keeps the types.
LEMMA KimiTypeStep ==
  ASSUME KimiTypeOK, HandlersOK, [KimiNext]_kimiVars
  PROVE  KimiTypeOK'
<1> USE DEF sessionVars, credVars, refreshVars, faultVars, HandlerAt, SaveFails, NetFails
<1>1. ASSUME NEW s \in Sessions, RegisterSession(s) PROVE KimiTypeOK'
  BY <1>1 DEF RegisterSession, KimiTypeOK, WithSession, Critical, MaybeCred
<1>2. ASSUME NEW s \in Sessions, Granted(s) PROVE KimiTypeOK'
  BY <1>2 DEF Granted, KimiTypeOK, WithSession, Critical, MaybeCred
<1>3. ASSUME NEW s \in Sessions, Completed(s) PROVE KimiTypeOK'
  BY <1>3 DEF Completed, KimiTypeOK, WithSession, Critical, MaybeCred
<1>4. ASSUME NEW s \in Sessions, PollEnds(s) PROVE KimiTypeOK'
  BY <1>4 DEF PollEnds, KimiTypeOK, WithSession, Critical, MaybeCred
<1>5. ASSUME NEW s \in Sessions, Expire(s) PROVE KimiTypeOK'
  BY <1>5 DEF Expire, KimiTypeOK, WithSession, Critical, MaybeCred
<1>6. ASSUME NEW h \in Handlers, NEW s \in Sessions, GetSession(h, s) PROVE KimiTypeOK'
  BY <1>6 DEF GetSession, KimiTypeOK, WithSession, Critical, MaybeCred
<1>7. ASSUME NEW h \in Handlers, NEW s \in Sessions, Cancel(h, s) PROVE KimiTypeOK'
  BY <1>7 DEF Cancel, KimiTypeOK, WithSession, Critical, MaybeCred
<1>8. ASSUME NEW h \in Handlers, Snapshot(h) PROVE KimiTypeOK'
  BY <1>8 DEF Snapshot, KimiTypeOK, WithSession, Critical, MaybeCred
<1>9. ASSUME NEW h \in Handlers, ClaimCompletion(h) PROVE KimiTypeOK'
  BY <1>9 DEF ClaimCompletion, KimiTypeOK, WithSession, Critical, MaybeCred
<1>10. ASSUME NEW h \in Handlers, Register(h) PROVE KimiTypeOK'
  <2>1. on[h] \in Sessions BY <1>10 DEF Register, HandlersOK, HandlerOK, WithSession
  <2>2. Cred(on[h], 1) \in Creds BY <2>1, CredType
  <2> QED BY <1>10, <2>2 DEF Register, KimiTypeOK, WithSession, MaybeCred
<1>11. ASSUME NEW h \in Handlers, ReleaseCompletion(h) PROVE KimiTypeOK'
  BY <1>11 DEF ReleaseCompletion, KimiTypeOK, WithSession, Critical, MaybeCred
<1>12. ASSUME NEW h \in Handlers, RemoveSession(h) PROVE KimiTypeOK'
  BY <1>12 DEF RemoveSession, KimiTypeOK, WithSession, Critical, MaybeCred
<1>13. ASSUME NEW h \in Handlers, StopSession(h) PROVE KimiTypeOK'
  BY <1>13 DEF StopSession, KimiTypeOK, WithSession, Critical, MaybeCred
<1>14. ASSUME NEW h \in Handlers, Logout(h) PROVE KimiTypeOK'
  <2>1. stored # NoCred => stored.login \in Sessions BY DEF KimiTypeOK, MaybeCred, Creds
  <2>2. lost' \in SUBSET Sessions BY <1>14, <2>1 DEF Logout, KimiTypeOK
  <2> QED BY <1>14, <2>2 DEF Logout, KimiTypeOK, MaybeCred
<1>15. ASSUME NEW h \in Handlers, Resolve(h) PROVE KimiTypeOK'
  BY <1>15 DEF Resolve, KimiTypeOK, WithSession, Critical, MaybeCred
<1>16. ASSUME NEW h \in Handlers, EnterRefresh(h) PROVE KimiTypeOK'
  BY <1>16 DEF EnterRefresh, BeginRefresh, KimiTypeOK, WithSession, Critical, MaybeCred
<1>17. ASSUME NEW h \in Handlers, Refreshed(h) PROVE KimiTypeOK'
  <2>1. /\ current[h].login \in Sessions /\ current[h].version \in Nat \ {0}
        BY <1>17, CriticalFacts DEF Refreshed, Critical
  <2>2. Cred(current[h].login, current[h].version + 1) \in Creds BY <2>1, CredType
  <2> QED BY <1>17, <2>1, <2>2 DEF Refreshed, KimiTypeOK, Critical, MaybeCred
<1>18. ASSUME NEW h \in Handlers, RefreshUnanswered(h) PROVE KimiTypeOK'
  <2>1. current[h].login \in Sessions BY <1>18, CriticalFacts DEF RefreshUnanswered, Critical
  <2> QED BY <1>18, <2>1 DEF RefreshUnanswered, KimiTypeOK
<1>19. ASSUME NEW h \in Handlers, Rejected(h) PROVE KimiTypeOK'
  BY <1>19 DEF Rejected, LeaveRefresh, KimiTypeOK, WithSession, Critical, MaybeCred
<1>20. ASSUME NEW h \in Handlers, GivesUp(h) PROVE KimiTypeOK'
  BY <1>20 DEF GivesUp, LeaveRefresh, KimiTypeOK, WithSession, Critical, MaybeCred
<1>21. ASSUME NEW h \in Handlers, CompareStored(h) PROVE KimiTypeOK'
  BY <1>21 DEF CompareStored, LeaveRefresh, KimiTypeOK, WithSession, Critical, MaybeCred
<1>22. ASSUME NEW h \in Handlers, Persist(h) PROVE KimiTypeOK'
  BY <1>22 DEF Persist, LeaveRefresh, KimiTypeOK, WithSession, Critical, MaybeCred
<1>23. ASSUME PostClear PROVE KimiTypeOK'
  BY <1>23 DEF PostClear, KimiTypeOK, WithSession, Critical, MaybeCred
<1>24. ASSUME Crash PROVE KimiTypeOK'
  BY <1>24 DEF Crash, KimiTypeOK, WithSession, Critical, MaybeCred
<1>25. CASE UNCHANGED kimiVars
  BY <1>25 DEF kimiVars, KimiTypeOK, WithSession, Critical, MaybeCred
<1> QED BY <1>1, <1>2, <1>3, <1>4, <1>5, <1>6, <1>7, <1>8, <1>9, <1>10, <1>11, <1>12, <1>13,
           <1>14, <1>15, <1>16, <1>17, <1>18, <1>19, <1>20, <1>21, <1>22, <1>23, <1>24, <1>25
       DEF KimiNext

\* A handler outside of the critical section that does not move.
LEMMA OutsideStays ==
  ASSUME NEW g \in Handlers, HandlerOK(g), at[g] \notin Critical, at'[g] = at[g],
         on'[g] = on[g], mutex' # g
  PROVE  HandlerOK(g)'
BY DEF HandlerOK, Critical

\* The variables that hold a credential are credentials the program has.
LEMMA InTraces ==
  /\ stored # NoCred => stored \in Traces
  /\ unsaved # NoCred => unsaved \in Traces
  /\ from # NoCred => from \in Traces
  /\ \A h \in Handlers : /\ before[h] # NoCred => before[h] \in Traces
                         /\ current[h] # NoCred => current[h] \in Traces
BY DEF Traces

\* A credential the program has names a flow that was granted.
LEMMA TraceFacts ==
  ASSUME KimiTypeOK, Known, NEW c \in Traces
  PROVE  /\ c \in Creds /\ c # NoCred /\ c.login \in Sessions /\ c.version \in Nat \ {0}
         /\ c.version <= valid[c.login] /\ valid[c.login] \in Nat \ {0}
<1>1. c \in Creds /\ c # NoCred BY DEF KimiTypeOK, Traces, MaybeCred
<1>2. c.login \in Sessions /\ c.version \in Nat \ {0} BY <1>1 DEF Creds
<1>3. valid[c.login] \in Nat BY <1>2 DEF KimiTypeOK
<1>4. c.version <= valid[c.login] BY DEF Known
<1> QED BY <1>1, <1>2, <1>3, <1>4

\* What a refresh that Kimi answers does to the credential and its login.
LEMMA RefreshedFacts ==
  ASSUME KimiTypeOK, HandlersOK, NEW h \in Handlers, Refreshed(h)
  PROVE  /\ current'[h] \in Creds /\ current'[h] # NoCred
         /\ current'[h].login = current[h].login
         /\ current'[h].version = current[h].version + 1
         /\ current[h].version = valid[current[h].login]
         /\ valid'[current[h].login] = current[h].version + 1
         /\ \A s \in Sessions : s # current[h].login => valid'[s] = valid[s]
<1> DEFINE l == current[h].login
           v == current[h].version
<1>1. at[h] = "refresh" BY DEF Refreshed
<1>2. l \in Sessions /\ v \in Nat \ {0} BY <1>1, CriticalFacts DEF Critical
<1>3. current'[h] = Cred(l, v + 1) BY DEF Refreshed, KimiTypeOK
<1>4. v = valid[l] BY DEF Refreshed
<1>5. valid' = [valid EXCEPT ![l] = valid[l] + 1] BY Zenon DEF Refreshed
<1> HIDE DEF l, v
<1>6. v + 1 \in Nat \ {0} BY <1>2
<1>7. Cred(l, v + 1) \in Creds /\ Cred(l, v + 1).login = l /\ Cred(l, v + 1).version = v + 1
      BY <1>2, <1>6, CredType
<1>8. valid'[l] = v + 1 /\ \A s \in Sessions : s # l => valid'[s] = valid[s]
      BY <1>2, <1>4, <1>5 DEF KimiTypeOK
<1>9. current'[h] \in Creds /\ current'[h].login = l /\ current'[h].version = v + 1
      BY <1>3, <1>7
<1> QED BY <1>4, <1>8, <1>9, NoCredIsNone DEF l, v

\* Every step keeps what a handler in the middle of its work has.
LEMMA HandlersStep ==
  ASSUME KimiTypeOK, KimiTypeOK', KimiInv, [KimiNext]_kimiVars
  PROVE  HandlersOK'
<1> USE DEF sessionVars, credVars, refreshVars, faultVars, HandlerAt, SaveFails, NetFails
<1>0. HandlersOK /\ Known /\ FlowsOK /\ UnsavedOK /\ StoredOK BY DEF KimiInv
<1>1. ASSUME NEW s \in Sessions, RegisterSession(s) PROVE HandlersOK'
  BY <1>1, <1>0 DEF RegisterSession, KimiTypeOK, HandlersOK, HandlerOK, WithSession, Critical
<1>2. ASSUME NEW s \in Sessions, Granted(s) PROVE HandlersOK'
  <2>1. \A g \in Handlers : at[g] \in Critical => current[g].login # s
    <3> SUFFICES ASSUME NEW g \in Handlers, at[g] \in Critical PROVE current[g].login # s
        OBVIOUS
    <3>1. current[g] # NoCred BY <1>0, CriticalFacts, NoCredIsNone
    <3>4. current[g] \in Traces BY <3>1, InTraces
    <3>2. valid[current[g].login] # 0 BY <1>0, <3>4, TraceFacts
    <3>3. valid[s] = 0 BY <1>2, <1>0 DEF Granted, FlowsOK, FlowOK, FlowStarted
    <3> QED BY <3>2, <3>3
  <2>2. \A g \in Handlers : at[g] \in Critical =>
          valid'[current[g].login] = valid[current[g].login]
    <3>1. \A g \in Handlers : at[g] \in Critical => current[g].login \in Sessions
          BY <1>0, CriticalFacts
    <3> QED BY <1>2, <2>1, <3>1 DEF Granted, KimiTypeOK
  <2> QED BY <1>2, <1>0, <2>2 DEF Granted, HandlersOK, HandlerOK, Critical
<1>3. ASSUME NEW s \in Sessions, Completed(s) PROVE HandlersOK'
  BY <1>3, <1>0 DEF Completed, KimiTypeOK, HandlersOK, HandlerOK, WithSession, Critical
<1>4. ASSUME NEW s \in Sessions, PollEnds(s) PROVE HandlersOK'
  BY <1>4, <1>0 DEF PollEnds, KimiTypeOK, HandlersOK, HandlerOK, WithSession, Critical
<1>5. ASSUME NEW s \in Sessions, Expire(s) PROVE HandlersOK'
  BY <1>5, <1>0 DEF Expire, KimiTypeOK, HandlersOK, HandlerOK, WithSession, Critical
<1>6. ASSUME NEW h \in Handlers, NEW s \in Sessions, GetSession(h, s) PROVE HandlersOK'
  BY <1>6, <1>0 DEF GetSession, KimiTypeOK, HandlersOK, HandlerOK, WithSession, Critical
<1>7. ASSUME NEW h \in Handlers, NEW s \in Sessions, Cancel(h, s) PROVE HandlersOK'
  BY <1>7, <1>0 DEF Cancel, KimiTypeOK, HandlersOK, HandlerOK, WithSession, Critical
<1>8. ASSUME NEW h \in Handlers, Snapshot(h) PROVE HandlersOK'
  BY <1>8, <1>0 DEF Snapshot, KimiTypeOK, HandlersOK, HandlerOK, WithSession, Critical
<1>9. ASSUME NEW h \in Handlers, ClaimCompletion(h) PROVE HandlersOK'
  BY <1>9, <1>0 DEF ClaimCompletion, KimiTypeOK, HandlersOK, HandlerOK, WithSession, Critical
<1>10. ASSUME NEW h \in Handlers, Register(h) PROVE HandlersOK'
  <2>0. /\ mutex = NoCred /\ at[h] = "save" /\ on[h] \in Sessions
        /\ at'[h] \in {"remove", "release"} /\ UNCHANGED <<on, mutex>>
        /\ \A g \in Handlers : g # h => at'[g] = at[g]
        BY <1>10, <1>0 DEF Register, HandlersOK, HandlerOK, KimiTypeOK, WithSession
  <2>1. HandlerOK(h)' BY <2>0, NoCredIsNone DEF HandlerOK, WithSession, Critical
  <2>2. ASSUME NEW g \in Handlers, g # h PROVE HandlerOK(g)'
    <3>1. HandlerOK(g) /\ at[g] \notin Critical
          BY <1>0, <2>0, NoCredIsNone DEF HandlersOK, HandlerOK
    <3> QED BY <2>0, <2>2, <3>1, NoCredIsNone, OutsideStays
  <2> QED BY <2>1, <2>2 DEF HandlersOK
<1>11. ASSUME NEW h \in Handlers, ReleaseCompletion(h) PROVE HandlersOK'
  BY <1>11, <1>0 DEF ReleaseCompletion, KimiTypeOK, HandlersOK, HandlerOK, WithSession, Critical
<1>12. ASSUME NEW h \in Handlers, RemoveSession(h) PROVE HandlersOK'
  BY <1>12, <1>0 DEF RemoveSession, KimiTypeOK, HandlersOK, HandlerOK, WithSession, Critical
<1>13. ASSUME NEW h \in Handlers, StopSession(h) PROVE HandlersOK'
  BY <1>13, <1>0 DEF StopSession, KimiTypeOK, HandlersOK, HandlerOK, WithSession, Critical
<1>14. ASSUME NEW h \in Handlers, Logout(h) PROVE HandlersOK'
  BY <1>14, <1>0 DEF Logout, KimiTypeOK, HandlersOK, HandlerOK, WithSession, Critical
<1>15. ASSUME NEW h \in Handlers, Resolve(h) PROVE HandlersOK'
  BY <1>15, <1>0 DEF Resolve, KimiTypeOK, HandlersOK, HandlerOK, WithSession, Critical
<1>16. ASSUME NEW h \in Handlers, EnterRefresh(h) PROVE HandlersOK'
  <2>0. /\ mutex = NoCred /\ at[h] = "lock" /\ UNCHANGED <<on, valid, lost>>
        /\ \A g \in Handlers : g # h => at'[g] = at[g]
        BY <1>16 DEF EnterRefresh, BeginRefresh, KimiTypeOK
  <2>1. ASSUME NEW g \in Handlers PROVE at[g] \notin Critical /\ HandlerOK(g)
        BY <1>0, <2>0, NoCredIsNone DEF HandlersOK, HandlerOK
  <2>2. mutex' \in {h, NoCred} BY <1>16, <2>0 DEF EnterRefresh, BeginRefresh
  <2>3. ASSUME NEW g \in Handlers, g # h PROVE HandlerOK(g)'
        BY <2>0, <2>1, <2>2, <2>3, NoCredIsNone, OutsideStays
  <2>4. \/ at'[h] = "idle" /\ mutex' = NoCred
        \/ /\ at'[h] = "refresh" /\ mutex' = h /\ stored # NoCred
           /\ before'[h] = stored' /\ current'[h] \in {stored', unsaved}
           /\ \/ current'[h] = stored /\ (unsaved = NoCred \/ from # stored)
              \/ current'[h] = unsaved /\ unsaved # NoCred /\ from = stored
           /\ stored' \in {stored, unsaved} /\ stored' # NoCred
        BY <1>16, <2>0 DEF EnterRefresh, BeginRefresh, KimiTypeOK
  <2>5. CASE at'[h] = "idle" /\ mutex' = NoCred
    <3>1. HandlerOK(h)' BY <2>5, NoCredIsNone DEF HandlerOK, WithSession, Critical
    <3> QED BY <2>3, <3>1 DEF HandlersOK
  <2>6. CASE ~(at'[h] = "idle" /\ mutex' = NoCred)
    <3>1. \/ current'[h].login \in lost
          \/ current'[h].version = valid[current'[h].login]
          BY <1>0, <2>1, <2>4, <2>6 DEF StoredOK, UnsavedOK, Critical
    <3>2. current'[h] # NoCred /\ before'[h].login = current'[h].login
          BY <1>0, <2>4, <2>6 DEF UnsavedOK
    <3>3. HandlerOK(h)'
          BY <2>0, <2>4, <2>6, <3>1, <3>2 DEF HandlerOK, WithSession, Critical
    <3> QED BY <2>3, <3>3 DEF HandlersOK
  <2> QED BY <2>5, <2>6
<1>17. ASSUME NEW h \in Handlers, Refreshed(h) PROVE HandlersOK'
  <2>0. /\ at[h] = "refresh" /\ at'[h] = "compare" /\ UNCHANGED <<on, before, mutex, stored>>
        /\ \A g \in Handlers : g # h => at'[g] = at[g]
        BY <1>17 DEF Refreshed, KimiTypeOK
  <2>1. /\ mutex = h /\ before[h] \in Creds /\ before[h].login = current[h].login
        /\ stored \in {before[h], NoCred}
        BY <1>0, <2>0, CriticalFacts DEF Critical
  <2>2. /\ current'[h] # NoCred /\ current'[h].login = current[h].login
        /\ current'[h].version = valid'[current[h].login]
        BY <1>17, <1>0, RefreshedFacts
  <2>4. HandlerOK(h)'
        BY <2>0, <2>1, <2>2, NoCredIsNone DEF HandlerOK, WithSession, Critical
  <2>5. ASSUME NEW g \in Handlers, g # h PROVE HandlerOK(g)'
    <3>1. HandlerOK(g) /\ at[g] \notin Critical BY <1>0, <2>1, <2>5 DEF HandlersOK, HandlerOK
    <3> QED BY <2>0, <2>1, <2>5, <3>1, OutsideStays
  <2> QED BY <2>4, <2>5 DEF HandlersOK
<1>18. ASSUME NEW h \in Handlers, RefreshUnanswered(h) PROVE HandlersOK'
  BY <1>18, <1>0 DEF RefreshUnanswered, KimiTypeOK, HandlersOK, HandlerOK, WithSession, Critical
<1>19. ASSUME NEW h \in Handlers, Rejected(h) PROVE HandlersOK'
  <2>0. at[h] \in Critical /\ mutex = h BY <1>19, <1>0 DEF Rejected, HandlersOK, HandlerOK, Critical
  <2>1. /\ at'[h] = "idle" /\ mutex' = NoCred /\ UNCHANGED on
        /\ \A g \in Handlers : g # h => at'[g] = at[g]
        BY <1>19 DEF Rejected, LeaveRefresh, KimiTypeOK
  <2>2. HandlerOK(h)' BY <2>1, NoCredIsNone DEF HandlerOK, WithSession, Critical
  <2>3. ASSUME NEW g \in Handlers, g # h PROVE HandlerOK(g)'
    <3>1. HandlerOK(g) BY <1>0 DEF HandlersOK
    <3>2. at[g] \notin Critical BY <2>0, <2>3, <3>1 DEF HandlerOK
    <3> QED BY <2>1, <2>3, <3>1, <3>2, NoCredIsNone, OutsideStays
  <2> QED BY <2>2, <2>3 DEF HandlersOK
<1>20. ASSUME NEW h \in Handlers, GivesUp(h) PROVE HandlersOK'
  <2>0. at[h] \in Critical /\ mutex = h BY <1>20, <1>0 DEF GivesUp, HandlersOK, HandlerOK, Critical
  <2>1. /\ at'[h] = "idle" /\ mutex' = NoCred /\ UNCHANGED on
        /\ \A g \in Handlers : g # h => at'[g] = at[g]
        BY <1>20 DEF GivesUp, LeaveRefresh, KimiTypeOK
  <2>2. HandlerOK(h)' BY <2>1, NoCredIsNone DEF HandlerOK, WithSession, Critical
  <2>3. ASSUME NEW g \in Handlers, g # h PROVE HandlerOK(g)'
    <3>1. HandlerOK(g) BY <1>0 DEF HandlersOK
    <3>2. at[g] \notin Critical BY <2>0, <2>3, <3>1 DEF HandlerOK
    <3> QED BY <2>1, <2>3, <3>1, <3>2, NoCredIsNone, OutsideStays
  <2> QED BY <2>2, <2>3 DEF HandlersOK
<1>21. ASSUME NEW h \in Handlers, CompareStored(h) PROVE HandlersOK'
  <2>1. CASE stored = before[h]
        BY <1>21, <1>0, <2>1 DEF CompareStored, KimiTypeOK, HandlersOK, HandlerOK,
           WithSession, Critical
  <2>2. CASE stored # before[h]
    <3>0. at[h] \in Critical /\ mutex = h
          BY <1>21, <1>0 DEF CompareStored, HandlersOK, HandlerOK, Critical
    <3>1. /\ at'[h] = "idle" /\ mutex' = NoCred /\ UNCHANGED on
          /\ \A g \in Handlers : g # h => at'[g] = at[g]
          BY <1>21, <2>2 DEF CompareStored, LeaveRefresh, KimiTypeOK
    <3>2. HandlerOK(h)' BY <3>1, NoCredIsNone DEF HandlerOK, WithSession, Critical
    <3>3. ASSUME NEW g \in Handlers, g # h PROVE HandlerOK(g)'
      <4>1. HandlerOK(g) BY <1>0 DEF HandlersOK
      <4>2. at[g] \notin Critical BY <3>0, <3>3, <4>1 DEF HandlerOK
      <4> QED BY <3>1, <3>3, <4>1, <4>2, NoCredIsNone, OutsideStays
    <3> QED BY <3>2, <3>3 DEF HandlersOK
  <2> QED BY <2>1, <2>2
<1>22. ASSUME NEW h \in Handlers, Persist(h) PROVE HandlersOK'
  <2>0. at[h] \in Critical /\ mutex = h BY <1>22, <1>0 DEF Persist, HandlersOK, HandlerOK, Critical
  <2>1. /\ at'[h] = "idle" /\ mutex' = NoCred /\ UNCHANGED on
        /\ \A g \in Handlers : g # h => at'[g] = at[g]
        BY <1>22 DEF Persist, LeaveRefresh, KimiTypeOK
  <2>2. HandlerOK(h)' BY <2>1, NoCredIsNone DEF HandlerOK, WithSession, Critical
  <2>3. ASSUME NEW g \in Handlers, g # h PROVE HandlerOK(g)'
    <3>1. HandlerOK(g) BY <1>0 DEF HandlersOK
    <3>2. at[g] \notin Critical BY <2>0, <2>3, <3>1 DEF HandlerOK
    <3> QED BY <2>1, <2>3, <3>1, <3>2, NoCredIsNone, OutsideStays
  <2> QED BY <2>2, <2>3 DEF HandlersOK
<1>23. ASSUME PostClear PROVE HandlersOK'
  BY <1>23, <1>0 DEF PostClear, KimiTypeOK, HandlersOK, HandlerOK, WithSession, Critical
<1>24. ASSUME Crash PROVE HandlersOK'
  <2>1. mutex' = NoCred /\ \A g \in Handlers : at'[g] = "idle" BY <1>24 DEF Crash
  <2> QED BY <2>1, NoCredIsNone DEF HandlersOK, HandlerOK, WithSession, Critical
<1>25. CASE UNCHANGED kimiVars
  BY <1>25, <1>0 DEF kimiVars, KimiTypeOK, HandlersOK, HandlerOK, WithSession, Critical
<1> QED BY <1>1, <1>2, <1>3, <1>4, <1>5, <1>6, <1>7, <1>8, <1>9, <1>10, <1>11, <1>12, <1>13,
           <1>14, <1>15, <1>16, <1>17, <1>18, <1>19, <1>20, <1>21, <1>22, <1>23, <1>24, <1>25
       DEF KimiNext

\* Only a registration and a refresh that Kimi answers give the program a credential it
\* did not have.
LEMMA TracesStep ==
  ASSUME KimiTypeOK, [KimiNext]_kimiVars
  PROVE  Traces' \subseteq Traces \/ Obtains
<1> USE DEF sessionVars, credVars, refreshVars, faultVars, HandlerAt, SaveFails, NetFails
<1>1. ASSUME NEW s \in Sessions, RegisterSession(s)
       PROVE  Traces' \subseteq Traces \/ Obtains
  BY <1>1 DEF RegisterSession, Traces, KimiTypeOK
<1>2. ASSUME NEW s \in Sessions, Granted(s) PROVE Traces' \subseteq Traces \/ Obtains
  BY <1>2 DEF Granted, Traces, KimiTypeOK
<1>3. ASSUME NEW s \in Sessions, Completed(s) PROVE Traces' \subseteq Traces \/ Obtains
  BY <1>3 DEF Completed, Traces, KimiTypeOK
<1>4. ASSUME NEW s \in Sessions, PollEnds(s) PROVE Traces' \subseteq Traces \/ Obtains
  BY <1>4 DEF PollEnds, Traces, KimiTypeOK
<1>5. ASSUME NEW s \in Sessions, Expire(s) PROVE Traces' \subseteq Traces \/ Obtains
  BY <1>5 DEF Expire, Traces, KimiTypeOK
<1>6. ASSUME NEW h \in Handlers, NEW s \in Sessions, GetSession(h, s)
       PROVE  Traces' \subseteq Traces \/ Obtains
  BY <1>6 DEF GetSession, Traces, KimiTypeOK
<1>7. ASSUME NEW h \in Handlers, NEW s \in Sessions, Cancel(h, s)
       PROVE  Traces' \subseteq Traces \/ Obtains
  BY <1>7 DEF Cancel, Traces, KimiTypeOK
<1>8. ASSUME NEW h \in Handlers, Snapshot(h) PROVE Traces' \subseteq Traces \/ Obtains
  BY <1>8 DEF Snapshot, Traces, KimiTypeOK
<1>9. ASSUME NEW h \in Handlers, ClaimCompletion(h)
       PROVE  Traces' \subseteq Traces \/ Obtains
  BY <1>9 DEF ClaimCompletion, Traces, KimiTypeOK
<1>10. ASSUME NEW h \in Handlers, Register(h) PROVE Traces' \subseteq Traces \/ Obtains
  BY <1>10 DEF Obtains
<1>11. ASSUME NEW h \in Handlers, ReleaseCompletion(h)
       PROVE  Traces' \subseteq Traces \/ Obtains
  BY <1>11 DEF ReleaseCompletion, Traces, KimiTypeOK
<1>12. ASSUME NEW h \in Handlers, RemoveSession(h) PROVE Traces' \subseteq Traces \/ Obtains
  BY <1>12 DEF RemoveSession, Traces, KimiTypeOK
<1>13. ASSUME NEW h \in Handlers, StopSession(h) PROVE Traces' \subseteq Traces \/ Obtains
  BY <1>13 DEF StopSession, Traces, KimiTypeOK
<1>14. ASSUME NEW h \in Handlers, Logout(h) PROVE Traces' \subseteq Traces \/ Obtains
  BY <1>14 DEF Logout, Traces, KimiTypeOK
<1>15. ASSUME NEW h \in Handlers, Resolve(h) PROVE Traces' \subseteq Traces \/ Obtains
  BY <1>15 DEF Resolve, Traces, KimiTypeOK
<1>16. ASSUME NEW h \in Handlers, EnterRefresh(h) PROVE Traces' \subseteq Traces \/ Obtains
  BY <1>16 DEF EnterRefresh, BeginRefresh, Traces, KimiTypeOK
<1>17. ASSUME NEW h \in Handlers, Refreshed(h) PROVE Traces' \subseteq Traces \/ Obtains
  BY <1>17 DEF Obtains
<1>18. ASSUME NEW h \in Handlers, RefreshUnanswered(h)
       PROVE  Traces' \subseteq Traces \/ Obtains
  BY <1>18 DEF RefreshUnanswered, Traces, KimiTypeOK
<1>19. ASSUME NEW h \in Handlers, Rejected(h) PROVE Traces' \subseteq Traces \/ Obtains
  BY <1>19 DEF Rejected, LeaveRefresh, Traces, KimiTypeOK
<1>20. ASSUME NEW h \in Handlers, GivesUp(h) PROVE Traces' \subseteq Traces \/ Obtains
  BY <1>20 DEF GivesUp, LeaveRefresh, Traces, KimiTypeOK
<1>21. ASSUME NEW h \in Handlers, CompareStored(h) PROVE Traces' \subseteq Traces \/ Obtains
  BY <1>21 DEF CompareStored, LeaveRefresh, Traces, KimiTypeOK
<1>22. ASSUME NEW h \in Handlers, Persist(h) PROVE Traces' \subseteq Traces \/ Obtains
  BY <1>22 DEF Persist, LeaveRefresh, Traces, KimiTypeOK
<1>23. ASSUME PostClear PROVE Traces' \subseteq Traces \/ Obtains
  BY <1>23 DEF PostClear, Traces, KimiTypeOK
<1>24. ASSUME Crash PROVE Traces' \subseteq Traces \/ Obtains
  BY <1>24 DEF Crash, Traces, KimiTypeOK
<1>25. CASE UNCHANGED kimiVars
  BY <1>25 DEF kimiVars, Traces, KimiTypeOK
<1> QED BY <1>1, <1>2, <1>3, <1>4, <1>5, <1>6, <1>7, <1>8, <1>9, <1>10, <1>11, <1>12, <1>13,
           <1>14, <1>15, <1>16, <1>17, <1>18, <1>19, <1>20, <1>21, <1>22, <1>23, <1>24, <1>25
       DEF KimiNext

\* Only Kimi changes the refresh token it honours.
LEMMA ValidStep ==
  ASSUME KimiTypeOK, [KimiNext]_kimiVars
  PROVE  UNCHANGED valid \/ Renewal
<1> USE DEF sessionVars, credVars, refreshVars, faultVars, HandlerAt, SaveFails, NetFails
<1>1. ASSUME NEW s \in Sessions, RegisterSession(s) PROVE UNCHANGED valid \/ Renewal
  BY <1>1 DEF RegisterSession, KimiTypeOK
<1>2. ASSUME NEW s \in Sessions, Granted(s) PROVE UNCHANGED valid \/ Renewal
  BY <1>2, Zenon DEF Renewal
<1>3. ASSUME NEW s \in Sessions, Completed(s) PROVE UNCHANGED valid \/ Renewal
  BY <1>3 DEF Completed, KimiTypeOK
<1>4. ASSUME NEW s \in Sessions, PollEnds(s) PROVE UNCHANGED valid \/ Renewal
  BY <1>4 DEF PollEnds, KimiTypeOK
<1>5. ASSUME NEW s \in Sessions, Expire(s) PROVE UNCHANGED valid \/ Renewal
  BY <1>5 DEF Expire, KimiTypeOK
<1>6. ASSUME NEW h \in Handlers, NEW s \in Sessions, GetSession(h, s)
       PROVE  UNCHANGED valid \/ Renewal
  BY <1>6 DEF GetSession, KimiTypeOK
<1>7. ASSUME NEW h \in Handlers, NEW s \in Sessions, Cancel(h, s)
       PROVE  UNCHANGED valid \/ Renewal
  BY <1>7 DEF Cancel, KimiTypeOK
<1>8. ASSUME NEW h \in Handlers, Snapshot(h) PROVE UNCHANGED valid \/ Renewal
  BY <1>8 DEF Snapshot, KimiTypeOK
<1>9. ASSUME NEW h \in Handlers, ClaimCompletion(h) PROVE UNCHANGED valid \/ Renewal
  BY <1>9 DEF ClaimCompletion, KimiTypeOK
<1>10. ASSUME NEW h \in Handlers, Register(h) PROVE UNCHANGED valid \/ Renewal
  BY <1>10 DEF Register, KimiTypeOK
<1>11. ASSUME NEW h \in Handlers, ReleaseCompletion(h) PROVE UNCHANGED valid \/ Renewal
  BY <1>11 DEF ReleaseCompletion, KimiTypeOK
<1>12. ASSUME NEW h \in Handlers, RemoveSession(h) PROVE UNCHANGED valid \/ Renewal
  BY <1>12 DEF RemoveSession, KimiTypeOK
<1>13. ASSUME NEW h \in Handlers, StopSession(h) PROVE UNCHANGED valid \/ Renewal
  BY <1>13 DEF StopSession, KimiTypeOK
<1>14. ASSUME NEW h \in Handlers, Logout(h) PROVE UNCHANGED valid \/ Renewal
  BY <1>14 DEF Logout, KimiTypeOK
<1>15. ASSUME NEW h \in Handlers, Resolve(h) PROVE UNCHANGED valid \/ Renewal
  BY <1>15 DEF Resolve, KimiTypeOK
<1>16. ASSUME NEW h \in Handlers, EnterRefresh(h) PROVE UNCHANGED valid \/ Renewal
  BY <1>16 DEF EnterRefresh, BeginRefresh, KimiTypeOK
<1>17. ASSUME NEW h \in Handlers, Refreshed(h) PROVE UNCHANGED valid \/ Renewal
  BY <1>17, Zenon DEF Renewal
<1>18. ASSUME NEW h \in Handlers, RefreshUnanswered(h) PROVE UNCHANGED valid \/ Renewal
  BY <1>18, Zenon DEF Renewal
<1>19. ASSUME NEW h \in Handlers, Rejected(h) PROVE UNCHANGED valid \/ Renewal
  BY <1>19 DEF Rejected, LeaveRefresh, KimiTypeOK
<1>20. ASSUME NEW h \in Handlers, GivesUp(h) PROVE UNCHANGED valid \/ Renewal
  BY <1>20 DEF GivesUp, LeaveRefresh, KimiTypeOK
<1>21. ASSUME NEW h \in Handlers, CompareStored(h) PROVE UNCHANGED valid \/ Renewal
  BY <1>21 DEF CompareStored, LeaveRefresh, KimiTypeOK
<1>22. ASSUME NEW h \in Handlers, Persist(h) PROVE UNCHANGED valid \/ Renewal
  BY <1>22 DEF Persist, LeaveRefresh, KimiTypeOK
<1>23. ASSUME PostClear PROVE UNCHANGED valid \/ Renewal
  BY <1>23 DEF PostClear, KimiTypeOK
<1>24. ASSUME Crash PROVE UNCHANGED valid \/ Renewal
  BY <1>24 DEF Crash, KimiTypeOK
<1>25. CASE UNCHANGED kimiVars
  BY <1>25 DEF kimiVars, KimiTypeOK
<1> QED BY <1>1, <1>2, <1>3, <1>4, <1>5, <1>6, <1>7, <1>8, <1>9, <1>10, <1>11, <1>12, <1>13,
           <1>14, <1>15, <1>16, <1>17, <1>18, <1>19, <1>20, <1>21, <1>22, <1>23, <1>24, <1>25
       DEF KimiNext

\* A registration adds the first credential of its flow, which has no other.
LEMMA RegisterFacts ==
  ASSUME KimiTypeOK, KimiInv, NEW h \in Handlers, Register(h)
  PROVE  /\ on[h] \in Sessions /\ registered[on[h]] /\ valid[on[h]] = 1 /\ NoTrace(on[h])
         /\ UNCHANGED <<valid, registered, on, unsaved, from>>
         /\ \/ at'[h] = "release" /\ UNCHANGED stored
            \/ at'[h] = "remove" /\ stored' = Cred(on[h], 1)
         /\ Cred(on[h], 1) \in Creds /\ Cred(on[h], 1).login = on[h]
         /\ Cred(on[h], 1).version = 1
         /\ \A g \in Handlers : g # h => at'[g] = at[g]
         /\ at[h] = "save"
         /\ Traces' \subseteq Traces \cup {stored'}
<1> USE DEF sessionVars, credVars, refreshVars, faultVars, HandlerAt, SaveFails
<1>1. HandlersOK /\ ClaimsOK BY DEF KimiInv
<1>2. /\ at[h] = "save" /\ UNCHANGED <<valid, registered, on, unsaved, from, before, current>>
      /\ \/ at'[h] = "release" /\ UNCHANGED stored
         \/ at'[h] = "remove" /\ stored' = Cred(on[h], 1)
      /\ \A g \in Handlers : g # h => at'[g] = at[g]
      BY DEF Register, KimiTypeOK
<1>3. on[h] \in Sessions BY <1>1, <1>2 DEF HandlersOK, HandlerOK, WithSession
<1>4. registered[on[h]] /\ valid[on[h]] = 1 /\ NoTrace(on[h])
      BY <1>1, <1>2 DEF ClaimsOK, Saving
<1>5. Cred(on[h], 1) \in Creds /\ Cred(on[h], 1).login = on[h] /\ Cred(on[h], 1).version = 1
      BY <1>3, CredType
<1>6. Traces' \subseteq Traces \cup {stored'} BY <1>2 DEF Traces
<1> QED BY <1>2, <1>3, <1>4, <1>5, <1>6

\* A refresh that Kimi answers adds the successor of the credential it sent.
LEMMA RefreshedTraces ==
  ASSUME KimiTypeOK, HandlersOK, NEW h \in Handlers, Refreshed(h)
  PROVE  Traces' \subseteq Traces \cup {current'[h]}
<1> USE DEF credVars
<1>1. /\ UNCHANGED <<stored, unsaved, from, before>>
      /\ \A g \in Handlers : g # h => current'[g] = current[g]
      BY DEF Refreshed, KimiTypeOK
<1> QED BY <1>1 DEF Traces

\* What a rotation whose answer is lost does to the login.
LEMMA UnansweredFacts ==
  ASSUME KimiTypeOK, HandlersOK, NEW h \in Handlers, RefreshUnanswered(h)
  PROVE  /\ current[h] \in Traces /\ current[h].login \in Sessions
         /\ \A s \in Sessions : valid'[s] = valid[s] \/ (s = current[h].login
                                  /\ valid'[s] = valid[s] + 1 /\ s \in lost')
         /\ lost \subseteq lost'
<1> DEFINE l == current[h].login
<1>1. at[h] = "refresh" BY DEF RefreshUnanswered
<1>2. l \in Sessions /\ current[h] \in Creds BY <1>1, CriticalFacts DEF Critical
<1>3. \/ UNCHANGED <<valid, lost>>
      \/ valid' = [valid EXCEPT ![l] = valid[l] + 1] /\ lost' = lost \cup {l}
      BY Zenon DEF RefreshUnanswered
<1>4. current[h] \in Traces BY <1>2, NoCredIsNone, InTraces
<1> HIDE DEF l
<1>5. \A s \in Sessions : valid'[s] = valid[s] \/ (s = l /\ valid'[s] = valid[s] + 1 /\ s \in lost')
      BY <1>2, <1>3 DEF KimiTypeOK
<1> QED BY <1>2, <1>3, <1>4, <1>5 DEF l

\* A flow that was granted keeps its newest refresh token, unless it is the login
\* of a credential the program has.
LEMMA ValidGrows ==
  ASSUME KimiTypeOK, KimiInv, [KimiNext]_kimiVars, NEW s \in Sessions
  PROVE  \/ valid'[s] = valid[s]
         \/ valid[s] = 0 /\ valid'[s] = 1 /\ poller[s] = "polling" /\ poller'[s] = "granted"
         \/ valid'[s] = valid[s] + 1 /\ ~NoTrace(s)
<1>1. CASE UNCHANGED valid BY <1>1
<1>2. ASSUME NEW h \in Handlers, Refreshed(h)
      PROVE  valid'[s] = valid[s] \/ (valid'[s] = valid[s] + 1 /\ ~NoTrace(s))
  <2>1. HandlersOK BY DEF KimiInv
  <2>2. at[h] = "refresh" BY <1>2 DEF Refreshed
  <2>3. current[h] \in Traces
        BY <2>1, <2>2, CriticalFacts, NoCredIsNone, InTraces DEF Critical
  <2>4. CASE s = current[h].login
    <3>1. valid'[s] = valid[s] + 1 BY <1>2, <2>1, <2>4, RefreshedFacts
    <3>2. ~NoTrace(s) BY <2>3, <2>4 DEF NoTrace
    <3> QED BY <3>1, <3>2
  <2>5. CASE s # current[h].login BY <1>2, <2>1, <2>5, RefreshedFacts
  <2> QED BY <2>4, <2>5
<1>3. ASSUME NEW h \in Handlers, RefreshUnanswered(h)
      PROVE  valid'[s] = valid[s] \/ (valid'[s] = valid[s] + 1 /\ ~NoTrace(s))
      BY <1>3, UnansweredFacts DEF KimiInv, NoTrace
<1>4. ASSUME NEW t \in Sessions, Granted(t)
      PROVE  \/ valid'[s] = valid[s]
             \/ valid[s] = 0 /\ valid'[s] = 1 /\ poller[s] = "polling" /\ poller'[s] = "granted"
  <2>1. FlowOK(t) BY DEF KimiInv, FlowsOK
  <2>2. poller[t] = "polling" BY <1>4 DEF Granted
  <2>3. valid[t] = 0 BY <2>1, <2>2 DEF FlowOK, FlowStarted
  <2>4. valid' = [valid EXCEPT ![t] = 1] /\ poller' = [poller EXCEPT ![t] = "granted"]
        BY <1>4 DEF Granted
  <2>5. t # s => valid'[s] = valid[s] BY <2>4 DEF KimiTypeOK
  <2>6. valid'[t] = 1 BY <2>4 DEF KimiTypeOK
  <2>7. poller'[t] = "granted" BY <2>4 DEF KimiTypeOK
  <2> QED BY <2>2, <2>3, <2>5, <2>6, <2>7
<1> QED BY <1>1, <1>2, <1>3, <1>4, ValidStep DEF Renewal

\* No step gives a credential a version its login does not have.
LEMMA KnownStep ==
  ASSUME KimiTypeOK, KimiTypeOK', KimiInv, [KimiNext]_kimiVars
  PROVE  Known'
<1>1. HandlersOK /\ Known BY DEF KimiInv
<1>2. ASSUME NEW c \in Traces PROVE c.version <= valid'[c.login]
  <2>1. /\ c.login \in Sessions /\ c.version \in Nat /\ c.version <= valid[c.login]
        /\ valid[c.login] \in Nat \ {0}
        BY <1>1, TraceFacts
  <2>2. valid'[c.login] = valid[c.login] \/ valid'[c.login] = valid[c.login] + 1
        BY <2>1, ValidGrows
  <2> QED BY <2>1, <2>2
<1>3. CASE Traces' \subseteq Traces BY <1>2, <1>3 DEF Known
<1>4. ASSUME NEW h \in Handlers, Register(h) PROVE Known'
  <2>1. ASSUME NEW c \in Traces', c \notin Traces PROVE c.version <= valid'[c.login]
    <3>1. c = stored' BY <1>4, <2>1, RegisterFacts
    <3>2. stored' # stored
      <4> SUFFICES ASSUME stored' = stored PROVE FALSE OBVIOUS
      <4>1. stored = NoCred BY <2>1, <3>1, InTraces
      <4> QED BY <4>1, <3>1, <2>1 DEF Traces
    <3>3. c = Cred(on[h], 1) BY <1>4, <3>1, <3>2, RegisterFacts
    <3>4. c.login = on[h] /\ c.version = 1 BY <1>4, <3>3, RegisterFacts
    <3>5. valid'[on[h]] = 1 BY <1>4, RegisterFacts
    <3> QED BY <3>4, <3>5
  <2> QED BY <1>2, <2>1 DEF Known
<1>5. ASSUME NEW h \in Handlers, Refreshed(h) PROVE Known'
  <2>1. current'[h].version <= valid'[current'[h].login]
    <3>1. current'[h].version = valid'[current'[h].login] BY <1>1, <1>5, RefreshedFacts
    <3>2. current'[h] \in Creds BY <1>1, <1>5, RefreshedFacts
    <3>3. current'[h].version \in Nat BY <3>2 DEF Creds
    <3> QED BY <3>1, <3>3
  <2> QED BY <1>1, <1>2, <1>5, <2>1, RefreshedTraces DEF Known
<1> QED BY <1>3, <1>4, <1>5, TracesStep DEF Obtains

\* Only releaseCompletion takes back that a flow is registered.
LEMMA RegisteredStep ==
  ASSUME KimiTypeOK, [KimiNext]_kimiVars
  PROVE  \A x \in Sessions : registered[x] /\ ~registered'[x] => Releases(x)
<1> USE DEF sessionVars, credVars, refreshVars, faultVars, HandlerAt, SaveFails, NetFails
<1>1. ASSUME NEW s \in Sessions, RegisterSession(s)
       PROVE  \A x \in Sessions : registered[x] /\ ~registered'[x] => Releases(x)
  BY <1>1 DEF RegisterSession, KimiTypeOK
<1>2. ASSUME NEW s \in Sessions, Granted(s)
       PROVE  \A x \in Sessions : registered[x] /\ ~registered'[x] => Releases(x)
  BY <1>2 DEF Granted, KimiTypeOK
<1>3. ASSUME NEW s \in Sessions, Completed(s)
       PROVE  \A x \in Sessions : registered[x] /\ ~registered'[x] => Releases(x)
  BY <1>3 DEF Completed, KimiTypeOK
<1>4. ASSUME NEW s \in Sessions, PollEnds(s)
       PROVE  \A x \in Sessions : registered[x] /\ ~registered'[x] => Releases(x)
  BY <1>4 DEF PollEnds, KimiTypeOK
<1>5. ASSUME NEW s \in Sessions, Expire(s)
       PROVE  \A x \in Sessions : registered[x] /\ ~registered'[x] => Releases(x)
  BY <1>5 DEF Expire, KimiTypeOK
<1>6. ASSUME NEW h \in Handlers, NEW s \in Sessions, GetSession(h, s)
       PROVE  \A x \in Sessions : registered[x] /\ ~registered'[x] => Releases(x)
  BY <1>6 DEF GetSession, KimiTypeOK
<1>7. ASSUME NEW h \in Handlers, NEW s \in Sessions, Cancel(h, s)
       PROVE  \A x \in Sessions : registered[x] /\ ~registered'[x] => Releases(x)
  BY <1>7 DEF Cancel, KimiTypeOK
<1>8. ASSUME NEW h \in Handlers, Snapshot(h)
       PROVE  \A x \in Sessions : registered[x] /\ ~registered'[x] => Releases(x)
  BY <1>8 DEF Snapshot, KimiTypeOK
<1>9. ASSUME NEW h \in Handlers, ClaimCompletion(h)
       PROVE  \A x \in Sessions : registered[x] /\ ~registered'[x] => Releases(x)
  <2>1. \/ UNCHANGED registered
        \/ registered' = [registered EXCEPT ![on[h]] = TRUE]
        BY <1>9 DEF ClaimCompletion
  <2> QED BY <2>1 DEF KimiTypeOK
<1>10. ASSUME NEW h \in Handlers, Register(h)
       PROVE  \A x \in Sessions : registered[x] /\ ~registered'[x] => Releases(x)
  BY <1>10 DEF Register, KimiTypeOK
<1>11. ASSUME NEW h \in Handlers, ReleaseCompletion(h)
       PROVE  \A x \in Sessions : registered[x] /\ ~registered'[x] => Releases(x)
  <2>1. registered' = [registered EXCEPT ![on[h]] = FALSE] BY <1>11 DEF ReleaseCompletion
  <2>2. \A s \in Sessions : s # on[h] => registered'[s] = registered[s] BY <2>1 DEF KimiTypeOK
  <2> QED BY <1>11, <2>2 DEF Releases
<1>12. ASSUME NEW h \in Handlers, RemoveSession(h)
       PROVE  \A x \in Sessions : registered[x] /\ ~registered'[x] => Releases(x)
  BY <1>12 DEF RemoveSession, KimiTypeOK
<1>13. ASSUME NEW h \in Handlers, StopSession(h)
       PROVE  \A x \in Sessions : registered[x] /\ ~registered'[x] => Releases(x)
  BY <1>13 DEF StopSession, KimiTypeOK
<1>14. ASSUME NEW h \in Handlers, Logout(h)
       PROVE  \A x \in Sessions : registered[x] /\ ~registered'[x] => Releases(x)
  BY <1>14 DEF Logout, KimiTypeOK
<1>15. ASSUME NEW h \in Handlers, Resolve(h)
       PROVE  \A x \in Sessions : registered[x] /\ ~registered'[x] => Releases(x)
  BY <1>15 DEF Resolve, KimiTypeOK
<1>16. ASSUME NEW h \in Handlers, EnterRefresh(h)
       PROVE  \A x \in Sessions : registered[x] /\ ~registered'[x] => Releases(x)
  BY <1>16 DEF EnterRefresh, BeginRefresh, KimiTypeOK
<1>17. ASSUME NEW h \in Handlers, Refreshed(h)
       PROVE  \A x \in Sessions : registered[x] /\ ~registered'[x] => Releases(x)
  BY <1>17 DEF Refreshed, KimiTypeOK
<1>18. ASSUME NEW h \in Handlers, RefreshUnanswered(h)
       PROVE  \A x \in Sessions : registered[x] /\ ~registered'[x] => Releases(x)
  BY <1>18 DEF RefreshUnanswered, KimiTypeOK
<1>19. ASSUME NEW h \in Handlers, Rejected(h)
       PROVE  \A x \in Sessions : registered[x] /\ ~registered'[x] => Releases(x)
  BY <1>19 DEF Rejected, LeaveRefresh, KimiTypeOK
<1>20. ASSUME NEW h \in Handlers, GivesUp(h)
       PROVE  \A x \in Sessions : registered[x] /\ ~registered'[x] => Releases(x)
  BY <1>20 DEF GivesUp, LeaveRefresh, KimiTypeOK
<1>21. ASSUME NEW h \in Handlers, CompareStored(h)
       PROVE  \A x \in Sessions : registered[x] /\ ~registered'[x] => Releases(x)
  BY <1>21 DEF CompareStored, LeaveRefresh, KimiTypeOK
<1>22. ASSUME NEW h \in Handlers, Persist(h)
       PROVE  \A x \in Sessions : registered[x] /\ ~registered'[x] => Releases(x)
  BY <1>22 DEF Persist, LeaveRefresh, KimiTypeOK
<1>23. ASSUME PostClear
       PROVE  \A x \in Sessions : registered[x] /\ ~registered'[x] => Releases(x)
  BY <1>23 DEF PostClear, KimiTypeOK
<1>24. ASSUME Crash
       PROVE  \A x \in Sessions : registered[x] /\ ~registered'[x] => Releases(x)
  BY <1>24 DEF Crash, KimiTypeOK
<1>25. CASE UNCHANGED kimiVars
  BY <1>25 DEF kimiVars, KimiTypeOK
<1> QED BY <1>1, <1>2, <1>3, <1>4, <1>5, <1>6, <1>7, <1>8, <1>9, <1>10, <1>11, <1>12, <1>13,
           <1>14, <1>15, <1>16, <1>17, <1>18, <1>19, <1>20, <1>21, <1>22, <1>23, <1>24, <1>25
       DEF KimiNext

\* How a flow's status and its poller may change.
LEMMA StatusStep ==
  ASSUME KimiTypeOK, \A s \in Sessions : status[s] = "none" => poller[s] = "off",
         [KimiNext]_kimiVars
  PROVE  StatusMoves
<1> USE DEF sessionVars, credVars, refreshVars, faultVars, HandlerAt, SaveFails, NetFails
<1>1. ASSUME NEW s \in Sessions, RegisterSession(s) PROVE StatusMoves
  BY <1>1 DEF RegisterSession, StatusMoves, KimiTypeOK
<1>2. ASSUME NEW s \in Sessions, Granted(s) PROVE StatusMoves
  BY <1>2 DEF Granted, StatusMoves, KimiTypeOK
<1>3. ASSUME NEW s \in Sessions, Completed(s) PROVE StatusMoves
  BY <1>3 DEF Completed, StatusMoves, KimiTypeOK
<1>4. ASSUME NEW s \in Sessions, PollEnds(s) PROVE StatusMoves
  BY <1>4 DEF PollEnds, StatusMoves, KimiTypeOK
<1>5. ASSUME NEW s \in Sessions, Expire(s) PROVE StatusMoves
  BY <1>5 DEF Expire, StatusMoves, KimiTypeOK
<1>6. ASSUME NEW h \in Handlers, NEW s \in Sessions, GetSession(h, s) PROVE StatusMoves
  BY <1>6 DEF GetSession, StatusMoves, KimiTypeOK
<1>7. ASSUME NEW h \in Handlers, NEW s \in Sessions, Cancel(h, s) PROVE StatusMoves
  BY <1>7 DEF Cancel, StatusMoves, KimiTypeOK
<1>8. ASSUME NEW h \in Handlers, Snapshot(h) PROVE StatusMoves
  BY <1>8 DEF Snapshot, StatusMoves, KimiTypeOK
<1>9. ASSUME NEW h \in Handlers, ClaimCompletion(h) PROVE StatusMoves
  <2>1. UNCHANGED <<status, poller, valid>> BY <1>9 DEF ClaimCompletion
  <2> QED BY <2>1 DEF StatusMoves
<1>10. ASSUME NEW h \in Handlers, Register(h) PROVE StatusMoves
  BY <1>10 DEF Register, StatusMoves, KimiTypeOK
<1>11. ASSUME NEW h \in Handlers, ReleaseCompletion(h) PROVE StatusMoves
  <2>1. UNCHANGED <<status, poller, valid>> BY <1>11 DEF ReleaseCompletion
  <2> QED BY <2>1 DEF StatusMoves
<1>12. ASSUME NEW h \in Handlers, RemoveSession(h) PROVE StatusMoves
  BY <1>12 DEF RemoveSession, StatusMoves, KimiTypeOK
<1>13. ASSUME NEW h \in Handlers, StopSession(h) PROVE StatusMoves
  BY <1>13 DEF StopSession, StatusMoves, KimiTypeOK
<1>14. ASSUME NEW h \in Handlers, Logout(h) PROVE StatusMoves
  BY <1>14 DEF Logout, StatusMoves, KimiTypeOK
<1>15. ASSUME NEW h \in Handlers, Resolve(h) PROVE StatusMoves
  BY <1>15 DEF Resolve, StatusMoves, KimiTypeOK
<1>16. ASSUME NEW h \in Handlers, EnterRefresh(h) PROVE StatusMoves
  BY <1>16 DEF EnterRefresh, BeginRefresh, StatusMoves, KimiTypeOK
<1>17. ASSUME NEW h \in Handlers, Refreshed(h) PROVE StatusMoves
  <2>1. UNCHANGED <<status, poller>> BY <1>17 DEF Refreshed
  <2> QED BY <2>1 DEF StatusMoves
<1>18. ASSUME NEW h \in Handlers, RefreshUnanswered(h) PROVE StatusMoves
  <2>1. UNCHANGED <<status, poller>> BY <1>18 DEF RefreshUnanswered
  <2> QED BY <2>1 DEF StatusMoves
<1>19. ASSUME NEW h \in Handlers, Rejected(h) PROVE StatusMoves
  BY <1>19 DEF Rejected, LeaveRefresh, StatusMoves, KimiTypeOK
<1>20. ASSUME NEW h \in Handlers, GivesUp(h) PROVE StatusMoves
  BY <1>20 DEF GivesUp, LeaveRefresh, StatusMoves, KimiTypeOK
<1>21. ASSUME NEW h \in Handlers, CompareStored(h) PROVE StatusMoves
  BY <1>21 DEF CompareStored, LeaveRefresh, StatusMoves, KimiTypeOK
<1>22. ASSUME NEW h \in Handlers, Persist(h) PROVE StatusMoves
  BY <1>22 DEF Persist, LeaveRefresh, StatusMoves, KimiTypeOK
<1>23. ASSUME PostClear PROVE StatusMoves
  BY <1>23 DEF PostClear, StatusMoves, KimiTypeOK
<1>24. ASSUME Crash PROVE StatusMoves
  BY <1>24 DEF Crash, StatusMoves, KimiTypeOK
<1>25. CASE UNCHANGED kimiVars
  BY <1>25 DEF kimiVars, StatusMoves, KimiTypeOK
<1> QED BY <1>1, <1>2, <1>3, <1>4, <1>5, <1>6, <1>7, <1>8, <1>9, <1>10, <1>11, <1>12, <1>13,
           <1>14, <1>15, <1>16, <1>17, <1>18, <1>19, <1>20, <1>21, <1>22, <1>23, <1>24, <1>25
       DEF KimiNext

\* A login no credential names gets one by a registration only.
LEMMA NoTraceStep ==
  ASSUME KimiTypeOK, KimiInv, [KimiNext]_kimiVars, NEW s \in Sessions, NoTrace(s)
  PROVE  \/ NoTrace(s)'
         \/ \E h \in Handlers : Register(h) /\ on[h] = s /\ at'[h] = "remove"
<1>1. HandlersOK BY DEF KimiInv
<1>2. CASE Traces' \subseteq Traces BY <1>2 DEF NoTrace
<1>3. ASSUME NEW h \in Handlers, Register(h), ~(on[h] = s /\ at'[h] = "remove")
      PROVE  NoTrace(s)'
  <2>1. CASE stored' = stored
        BY <1>3, <2>1, RegisterFacts DEF NoTrace, Traces
  <2>2. CASE stored' # stored
    <3>1. stored' = Cred(on[h], 1) /\ at'[h] = "remove" BY <1>3, <2>2, RegisterFacts
    <3>2. stored'.login = on[h] BY <1>3, <3>1, RegisterFacts
    <3>3. on[h] # s BY <1>3, <3>1
    <3> QED BY <1>3, <3>2, <3>3, RegisterFacts DEF NoTrace
  <2> QED BY <2>1, <2>2
<1>4. ASSUME NEW h \in Handlers, Refreshed(h) PROVE NoTrace(s)'
  <2>1. at[h] = "refresh" BY <1>4 DEF Refreshed
  <2>2. current[h] \in Traces
        BY <1>1, <2>1, CriticalFacts, NoCredIsNone, InTraces DEF Critical
  <2>3. current'[h].login # s BY <1>1, <1>4, <2>2, RefreshedFacts DEF NoTrace
  <2> QED BY <1>1, <1>4, <2>3, RefreshedTraces DEF NoTrace
<1> QED BY <1>2, <1>3, <1>4, TracesStep DEF Obtains

\* A flow has its first refresh token once it is granted.
LEMMA FlowsStep ==
  ASSUME KimiTypeOK, KimiTypeOK', KimiInv, [KimiNext]_kimiVars
  PROVE  FlowsOK'
<1>0. FlowsOK /\ Known /\ ClaimsOK /\ HandlersOK BY DEF KimiInv
<1>1. StatusMoves BY <1>0, StatusStep DEF FlowsOK, FlowOK, FlowStarted
<1>2. ASSUME NEW s \in Sessions PROVE FlowStarted(s)'
  <2>1. FlowStarted(s) BY <1>0 DEF FlowsOK, FlowOK
  <2>2. valid[s] \in Nat /\ valid'[s] \in Nat BY DEF KimiTypeOK
  <2>3. ~NoTrace(s) => valid[s] # 0 BY <1>0, TraceFacts DEF NoTrace
  <2>4. \/ valid'[s] = valid[s]
        \/ valid[s] = 0 /\ valid'[s] = 1 /\ poller[s] = "polling" /\ poller'[s] = "granted"
        \/ valid'[s] = valid[s] + 1 /\ valid[s] # 0
        BY <2>3, ValidGrows
  <2>5. /\ poller'[s] = "polling" => poller[s] = "polling" \/ status[s] = "none"
        /\ status'[s] = "none" => status[s] = "none" /\ poller'[s] = "off"
        /\ \/ ~(status'[s] = "completed" \/ poller'[s] = "granted")
           \/ status[s] = "completed" \/ poller[s] = "granted" \/ valid'[s] = 1
        BY <1>1 DEF StatusMoves
  <2>6. status'[s] = "none" \/ poller'[s] = "polling" => valid'[s] = 0
        BY <2>1, <2>2, <2>4, <2>5 DEF FlowStarted
  <2>7. status'[s] = "completed" \/ poller'[s] = "granted" => valid'[s] >= 1
        BY <2>1, <2>2, <2>4, <2>5 DEF FlowStarted
  <2> QED BY <2>5, <2>6, <2>7 DEF FlowStarted
<1>3. ASSUME NEW s \in Sessions, ~registered'[s] PROVE (valid[s] <= 1 /\ NoTrace(s))'
  <2>1. valid[s] \in Nat /\ valid[s] <= 1 /\ NoTrace(s)
    <3>1. CASE registered[s]
      <4>1. PICK h \in Handlers : ReleaseCompletion(h) /\ on[h] = s
            BY <1>3, <3>1, RegisteredStep DEF Releases
      <4>2. at[h] = "release" BY <4>1 DEF ReleaseCompletion
      <4> QED BY <1>0, <4>1, <4>2 DEF ClaimsOK, Saving
    <3>2. CASE ~registered[s] BY <1>0, <3>2 DEF FlowsOK, FlowOK, KimiTypeOK
    <3> QED BY <3>1, <3>2
  <2>2. valid'[s] <= 1 BY <2>1, ValidGrows
  <2>3. ASSUME NEW h \in Handlers, Register(h), on[h] = s PROVE FALSE
    <3>1. registered[s] /\ registered' = registered BY <2>3, RegisterFacts
    <3> QED BY <1>3, <3>1
  <2>4. NoTrace(s)' BY <2>1, <2>3, NoTraceStep
  <2> QED BY <2>2, <2>4
<1> QED BY <1>2, <1>3 DEF FlowsOK, FlowOK

\* A handler comes to the claim by a completed session, and to the registration by the
\* claim of one that is not registered yet.
LEMMA ClaimMoves ==
  ASSUME KimiTypeOK, [KimiNext]_kimiVars
  PROVE  HandlerMoves
<1> USE DEF sessionVars, credVars, refreshVars, faultVars, HandlerAt, SaveFails, NetFails
<1>1. ASSUME NEW s \in Sessions, RegisterSession(s) PROVE HandlerMoves
  BY <1>1 DEF RegisterSession, HandlerMoves, Saving, KimiTypeOK
<1>2. ASSUME NEW s \in Sessions, Granted(s) PROVE HandlerMoves
  BY <1>2 DEF Granted, HandlerMoves, Saving, KimiTypeOK
<1>3. ASSUME NEW s \in Sessions, Completed(s) PROVE HandlerMoves
  BY <1>3 DEF Completed, HandlerMoves, Saving, KimiTypeOK
<1>4. ASSUME NEW s \in Sessions, PollEnds(s) PROVE HandlerMoves
  BY <1>4 DEF PollEnds, HandlerMoves, Saving, KimiTypeOK
<1>5. ASSUME NEW s \in Sessions, Expire(s) PROVE HandlerMoves
  BY <1>5 DEF Expire, HandlerMoves, Saving, KimiTypeOK
<1>6. ASSUME NEW h \in Handlers, NEW s \in Sessions, GetSession(h, s) PROVE HandlerMoves
  BY <1>6 DEF GetSession, HandlerMoves, Saving, KimiTypeOK
<1>7. ASSUME NEW h \in Handlers, NEW s \in Sessions, Cancel(h, s) PROVE HandlerMoves
  BY <1>7 DEF Cancel, HandlerMoves, Saving, KimiTypeOK
<1>8. ASSUME NEW h \in Handlers, Snapshot(h) PROVE HandlerMoves
  BY <1>8 DEF Snapshot, HandlerMoves, Saving, KimiTypeOK
<1>9. ASSUME NEW h \in Handlers, ClaimCompletion(h) PROVE HandlerMoves
  BY <1>9 DEF ClaimCompletion, HandlerMoves, Saving, KimiTypeOK
<1>10. ASSUME NEW h \in Handlers, Register(h) PROVE HandlerMoves
  BY <1>10 DEF Register, HandlerMoves, Saving, KimiTypeOK
<1>11. ASSUME NEW h \in Handlers, ReleaseCompletion(h) PROVE HandlerMoves
  BY <1>11 DEF ReleaseCompletion, HandlerMoves, Saving, KimiTypeOK
<1>12. ASSUME NEW h \in Handlers, RemoveSession(h) PROVE HandlerMoves
  BY <1>12 DEF RemoveSession, HandlerMoves, Saving, KimiTypeOK
<1>13. ASSUME NEW h \in Handlers, StopSession(h) PROVE HandlerMoves
  BY <1>13 DEF StopSession, HandlerMoves, Saving, KimiTypeOK
<1>14. ASSUME NEW h \in Handlers, Logout(h) PROVE HandlerMoves
  BY <1>14 DEF Logout, HandlerMoves, Saving, KimiTypeOK
<1>15. ASSUME NEW h \in Handlers, Resolve(h) PROVE HandlerMoves
  BY <1>15 DEF Resolve, HandlerMoves, Saving, KimiTypeOK
<1>16. ASSUME NEW h \in Handlers, EnterRefresh(h) PROVE HandlerMoves
  BY <1>16 DEF EnterRefresh, BeginRefresh, HandlerMoves, Saving, KimiTypeOK
<1>17. ASSUME NEW h \in Handlers, Refreshed(h) PROVE HandlerMoves
  BY <1>17 DEF Refreshed, HandlerMoves, Saving, KimiTypeOK
<1>18. ASSUME NEW h \in Handlers, RefreshUnanswered(h) PROVE HandlerMoves
  BY <1>18 DEF RefreshUnanswered, HandlerMoves, Saving, KimiTypeOK
<1>19. ASSUME NEW h \in Handlers, Rejected(h) PROVE HandlerMoves
  BY <1>19 DEF Rejected, LeaveRefresh, HandlerMoves, Saving, KimiTypeOK
<1>20. ASSUME NEW h \in Handlers, GivesUp(h) PROVE HandlerMoves
  BY <1>20 DEF GivesUp, LeaveRefresh, HandlerMoves, Saving, KimiTypeOK
<1>21. ASSUME NEW h \in Handlers, CompareStored(h) PROVE HandlerMoves
  BY <1>21 DEF CompareStored, LeaveRefresh, HandlerMoves, Saving, KimiTypeOK
<1>22. ASSUME NEW h \in Handlers, Persist(h) PROVE HandlerMoves
  BY <1>22 DEF Persist, LeaveRefresh, HandlerMoves, Saving, KimiTypeOK
<1>23. ASSUME PostClear PROVE HandlerMoves
  BY <1>23 DEF PostClear, HandlerMoves, Saving, KimiTypeOK
<1>24. ASSUME Crash PROVE HandlerMoves
  BY <1>24 DEF Crash, HandlerMoves, Saving, KimiTypeOK
<1>25. CASE UNCHANGED kimiVars
  BY <1>25 DEF kimiVars, HandlerMoves, Saving, KimiTypeOK
<1> QED BY <1>1, <1>2, <1>3, <1>4, <1>5, <1>6, <1>7, <1>8, <1>9, <1>10, <1>11, <1>12, <1>13,
           <1>14, <1>15, <1>16, <1>17, <1>18, <1>19, <1>20, <1>21, <1>22, <1>23, <1>24, <1>25
       DEF KimiNext

\* The handlers that claim or register sessions are on different ones.
LEMMA ClaimsStep ==
  ASSUME KimiTypeOK, KimiTypeOK', KimiInv, [KimiNext]_kimiVars
  PROVE  ClaimsOK'
<1>0. FlowsOK /\ Known /\ ClaimsOK /\ HandlersOK BY DEF KimiInv
<1>1. HandlerMoves BY ClaimMoves
<1>2. ASSUME NEW h \in Handlers, at'[h] = "claim" PROVE valid'[on'[h]] >= 1
  <2>1. /\ on'[h] = on[h]
        /\ at[h] = "claim" \/ (at[h] = "snapshot" /\ status[on[h]] = "completed")
        BY <1>1, <1>2 DEF HandlerMoves
  <2>2. on[h] \in Sessions BY <1>0, <2>1 DEF HandlersOK, HandlerOK, WithSession
  <2>3. valid[on[h]] >= 1 BY <1>0, <2>1, <2>2 DEF ClaimsOK, FlowsOK, FlowOK, FlowStarted
  <2>4. valid[on[h]] \in Nat /\ valid'[on[h]] \in Nat BY <2>2 DEF KimiTypeOK
  <2>5. valid'[on[h]] = valid[on[h]] \/ valid'[on[h]] = 1 \/ valid'[on[h]] = valid[on[h]] + 1
        BY <2>2, ValidGrows
  <2> QED BY <2>1, <2>3, <2>4, <2>5
<1>3. ASSUME NEW h \in Handlers, Saving(h)'
      PROVE  /\ on'[h] = on[h] /\ on[h] \in Sessions
             /\ at[h] \in {"claim", "save", "release"}
             /\ valid[on[h]] = 1 /\ NoTrace(on[h])
             /\ Saving(h) <=> registered[on[h]]
  <2>1. /\ on'[h] = on[h]
        /\ Saving(h) \/ (at[h] = "claim" /\ ~registered[on[h]])
        BY <1>1, <1>3 DEF HandlerMoves
  <2>2. on[h] \in Sessions BY <1>0, <2>1 DEF HandlersOK, HandlerOK, WithSession, Saving
  <2>3. valid[on[h]] \in Nat BY <2>2 DEF KimiTypeOK
  <2>4. CASE Saving(h) BY <1>0, <2>1, <2>2, <2>4 DEF ClaimsOK, Saving
  <2>5. CASE at[h] = "claim" /\ ~registered[on[h]]
    <3>1. valid[on[h]] >= 1 BY <1>0, <2>5 DEF ClaimsOK
    <3>2. valid[on[h]] <= 1 /\ NoTrace(on[h]) BY <1>0, <2>2, <2>5 DEF FlowsOK, FlowOK
    <3>3. ~Saving(h) BY <2>5 DEF Saving
    <3> QED BY <2>1, <2>2, <2>3, <2>5, <3>1, <3>2, <3>3
  <2> QED BY <2>1, <2>4, <2>5
<1>4. ASSUME NEW h \in Handlers, Saving(h)' PROVE registered'[on'[h]]
  <2>1. on'[h] = on[h] /\ on[h] \in Sessions BY <1>3, <1>4
  <2>2. CASE Saving(h)
    <3>1. registered[on[h]] BY <1>3, <1>4, <2>2
    <3>2. SUFFICES ASSUME ~registered'[on[h]] PROVE FALSE BY <2>1
    <3>3. PICK g \in Handlers : ReleaseCompletion(g) /\ on[g] = on[h]
          BY <2>1, <3>1, <3>2, RegisteredStep DEF Releases
    <3>4. at[g] = "release" /\ at'[g] = "idle"
          BY <3>3 DEF ReleaseCompletion, HandlerAt, KimiTypeOK
    <3>5. Saving(g) BY <3>4 DEF Saving
    <3>6. g = h BY <1>0, <2>2, <3>3, <3>5 DEF ClaimsOK
    <3> QED BY <1>4, <3>4, <3>6 DEF Saving
  <2>3. CASE ~Saving(h)
    <3>1. ClaimCompletion(h) BY <1>1, <1>4, <2>3 DEF HandlerMoves
    <3>2. ~registered[on[h]] BY <1>3, <1>4, <2>3
    <3>3. registered' = [registered EXCEPT ![on[h]] = TRUE] BY <3>1, <3>2 DEF ClaimCompletion
    <3> QED BY <2>1, <3>3 DEF KimiTypeOK
  <2> QED BY <2>2, <2>3
<1>5. ASSUME NEW h \in Handlers, Saving(h)' PROVE valid'[on'[h]] = 1
  <2>1. on'[h] = on[h] /\ on[h] \in Sessions /\ valid[on[h]] = 1 /\ NoTrace(on[h])
        BY <1>3, <1>5
  <2> QED BY <2>1, ValidGrows
<1>6. ASSUME NEW h \in Handlers, Saving(h)' PROVE NoTrace(on[h])'
  <2>1. on'[h] = on[h] /\ on[h] \in Sessions /\ NoTrace(on[h]) BY <1>3, <1>6
  <2>2. ASSUME NEW g \in Handlers, Register(g), on[g] = on[h], at'[g] = "remove" PROVE FALSE
    <3>1. registered[on[h]] /\ at[g] = "save" BY <2>2, RegisterFacts
    <3>2. Saving(g) /\ Saving(h) BY <1>3, <1>6, <3>1 DEF Saving
    <3>3. g = h BY <1>0, <2>2, <3>2 DEF ClaimsOK
    <3> QED BY <1>6, <2>2, <3>3 DEF Saving
  <2>5. PICK s \in Sessions : s = on[h] BY <2>1
  <2>6. NoTrace(s)' BY <2>1, <2>2, <2>5, NoTraceStep
  <2> QED BY <2>1, <2>5, <2>6 DEF NoTrace
<1>7. ASSUME NEW h \in Handlers, NEW g \in Handlers, Saving(h)', Saving(g)', on'[h] = on'[g]
      PROVE  g = h
  <2>1. on[h] = on[g] BY <1>3, <1>7
  <2>2. Saving(h) <=> Saving(g) BY <1>3, <1>7, <2>1
  <2>3. CASE Saving(h) BY <1>0, <2>1, <2>2, <2>3 DEF ClaimsOK
  <2>4. CASE ~Saving(h)
        BY <1>1, <1>7, <2>2, <2>4 DEF HandlerMoves, Saving
  <2> QED BY <2>3, <2>4
<1> QED BY <1>2, <1>4, <1>5, <1>6, <1>7 DEF ClaimsOK

\* What was lost stays lost.
LEMMA LostGrows ==
  ASSUME KimiTypeOK, [KimiNext]_kimiVars
  PROVE  lost \subseteq lost'
<1> USE DEF sessionVars, credVars, refreshVars, faultVars, HandlerAt, SaveFails, NetFails
<1>1. ASSUME NEW s \in Sessions, RegisterSession(s) PROVE lost \subseteq lost'
  BY <1>1 DEF RegisterSession, KimiTypeOK
<1>2. ASSUME NEW s \in Sessions, Granted(s) PROVE lost \subseteq lost'
  BY <1>2 DEF Granted, KimiTypeOK
<1>3. ASSUME NEW s \in Sessions, Completed(s) PROVE lost \subseteq lost'
  BY <1>3 DEF Completed, KimiTypeOK
<1>4. ASSUME NEW s \in Sessions, PollEnds(s) PROVE lost \subseteq lost'
  BY <1>4 DEF PollEnds, KimiTypeOK
<1>5. ASSUME NEW s \in Sessions, Expire(s) PROVE lost \subseteq lost'
  BY <1>5 DEF Expire, KimiTypeOK
<1>6. ASSUME NEW h \in Handlers, NEW s \in Sessions, GetSession(h, s)
       PROVE  lost \subseteq lost'
  BY <1>6 DEF GetSession, KimiTypeOK
<1>7. ASSUME NEW h \in Handlers, NEW s \in Sessions, Cancel(h, s) PROVE lost \subseteq lost'
  BY <1>7 DEF Cancel, KimiTypeOK
<1>8. ASSUME NEW h \in Handlers, Snapshot(h) PROVE lost \subseteq lost'
  BY <1>8 DEF Snapshot, KimiTypeOK
<1>9. ASSUME NEW h \in Handlers, ClaimCompletion(h) PROVE lost \subseteq lost'
  BY <1>9 DEF ClaimCompletion, KimiTypeOK
<1>10. ASSUME NEW h \in Handlers, Register(h) PROVE lost \subseteq lost'
  BY <1>10 DEF Register, KimiTypeOK
<1>11. ASSUME NEW h \in Handlers, ReleaseCompletion(h) PROVE lost \subseteq lost'
  BY <1>11 DEF ReleaseCompletion, KimiTypeOK
<1>12. ASSUME NEW h \in Handlers, RemoveSession(h) PROVE lost \subseteq lost'
  BY <1>12 DEF RemoveSession, KimiTypeOK
<1>13. ASSUME NEW h \in Handlers, StopSession(h) PROVE lost \subseteq lost'
  BY <1>13 DEF StopSession, KimiTypeOK
<1>14. ASSUME NEW h \in Handlers, Logout(h) PROVE lost \subseteq lost'
  BY <1>14 DEF Logout, KimiTypeOK
<1>15. ASSUME NEW h \in Handlers, Resolve(h) PROVE lost \subseteq lost'
  BY <1>15 DEF Resolve, KimiTypeOK
<1>16. ASSUME NEW h \in Handlers, EnterRefresh(h) PROVE lost \subseteq lost'
  BY <1>16 DEF EnterRefresh, BeginRefresh, KimiTypeOK
<1>17. ASSUME NEW h \in Handlers, Refreshed(h) PROVE lost \subseteq lost'
  BY <1>17 DEF Refreshed, KimiTypeOK
<1>18. ASSUME NEW h \in Handlers, RefreshUnanswered(h) PROVE lost \subseteq lost'
  BY <1>18 DEF RefreshUnanswered, KimiTypeOK
<1>19. ASSUME NEW h \in Handlers, Rejected(h) PROVE lost \subseteq lost'
  BY <1>19 DEF Rejected, LeaveRefresh, KimiTypeOK
<1>20. ASSUME NEW h \in Handlers, GivesUp(h) PROVE lost \subseteq lost'
  BY <1>20 DEF GivesUp, LeaveRefresh, KimiTypeOK
<1>21. ASSUME NEW h \in Handlers, CompareStored(h) PROVE lost \subseteq lost'
  BY <1>21 DEF CompareStored, LeaveRefresh, KimiTypeOK
<1>22. ASSUME NEW h \in Handlers, Persist(h) PROVE lost \subseteq lost'
  BY <1>22 DEF Persist, LeaveRefresh, KimiTypeOK
<1>23. ASSUME PostClear PROVE lost \subseteq lost'
  BY <1>23 DEF PostClear, KimiTypeOK
<1>24. ASSUME Crash PROVE lost \subseteq lost'
  BY <1>24 DEF Crash, KimiTypeOK
<1>25. CASE UNCHANGED kimiVars
  BY <1>25 DEF kimiVars, KimiTypeOK
<1> QED BY <1>1, <1>2, <1>3, <1>4, <1>5, <1>6, <1>7, <1>8, <1>9, <1>10, <1>11, <1>12, <1>13,
           <1>14, <1>15, <1>16, <1>17, <1>18, <1>19, <1>20, <1>21, <1>22, <1>23, <1>24, <1>25
       DEF KimiNext

\* How the configuration's credential and the unsaved one change.
LEMMA StoredMoves ==
  ASSUME KimiTypeOK, HandlersOK, [KimiNext]_kimiVars
  PROVE  StoreMoves
<1> USE DEF sessionVars, credVars, refreshVars, faultVars, HandlerAt, SaveFails, NetFails
<1>1. ASSUME NEW s \in Sessions, RegisterSession(s) PROVE StoreMoves
  BY <1>1 DEF RegisterSession, StoreMoves, KimiTypeOK
<1>2. ASSUME NEW s \in Sessions, Granted(s) PROVE StoreMoves
  BY <1>2 DEF Granted, StoreMoves, KimiTypeOK
<1>3. ASSUME NEW s \in Sessions, Completed(s) PROVE StoreMoves
  BY <1>3 DEF Completed, StoreMoves, KimiTypeOK
<1>4. ASSUME NEW s \in Sessions, PollEnds(s) PROVE StoreMoves
  BY <1>4 DEF PollEnds, StoreMoves, KimiTypeOK
<1>5. ASSUME NEW s \in Sessions, Expire(s) PROVE StoreMoves
  BY <1>5 DEF Expire, StoreMoves, KimiTypeOK
<1>6. ASSUME NEW h \in Handlers, NEW s \in Sessions, GetSession(h, s) PROVE StoreMoves
  BY <1>6 DEF GetSession, StoreMoves, KimiTypeOK
<1>7. ASSUME NEW h \in Handlers, NEW s \in Sessions, Cancel(h, s) PROVE StoreMoves
  BY <1>7 DEF Cancel, StoreMoves, KimiTypeOK
<1>8. ASSUME NEW h \in Handlers, Snapshot(h) PROVE StoreMoves
  BY <1>8 DEF Snapshot, StoreMoves, KimiTypeOK
<1>9. ASSUME NEW h \in Handlers, ClaimCompletion(h) PROVE StoreMoves
  BY <1>9 DEF ClaimCompletion, StoreMoves, KimiTypeOK
<1>10. ASSUME NEW h \in Handlers, Register(h) PROVE StoreMoves
  BY <1>10 DEF StoreMoves
<1>11. ASSUME NEW h \in Handlers, ReleaseCompletion(h) PROVE StoreMoves
  BY <1>11 DEF ReleaseCompletion, StoreMoves, KimiTypeOK
<1>12. ASSUME NEW h \in Handlers, RemoveSession(h) PROVE StoreMoves
  BY <1>12 DEF RemoveSession, StoreMoves, KimiTypeOK
<1>13. ASSUME NEW h \in Handlers, StopSession(h) PROVE StoreMoves
  BY <1>13 DEF StopSession, StoreMoves, KimiTypeOK
<1>14. ASSUME NEW h \in Handlers, Logout(h) PROVE StoreMoves
  <2>1. /\ unsaved' = NoCred /\ stored' \in {stored, NoCred}
        /\ stored' # NoCred => stored.version = valid[stored.login] \/ stored.login \in lost'
        BY <1>14 DEF Logout
  <2> QED BY <1>14, <2>1 DEF StoreMoves
<1>15. ASSUME NEW h \in Handlers, Resolve(h) PROVE StoreMoves
  BY <1>15 DEF Resolve, StoreMoves, KimiTypeOK
<1>16. ASSUME NEW h \in Handlers, EnterRefresh(h) PROVE StoreMoves
  BY <1>16 DEF StoreMoves
<1>17. ASSUME NEW h \in Handlers, Refreshed(h) PROVE StoreMoves
  BY <1>17 DEF Refreshed, StoreMoves, KimiTypeOK
<1>18. ASSUME NEW h \in Handlers, RefreshUnanswered(h) PROVE StoreMoves
  BY <1>18 DEF RefreshUnanswered, StoreMoves, KimiTypeOK
<1>19. ASSUME NEW h \in Handlers, Rejected(h) PROVE StoreMoves
  BY <1>19 DEF Rejected, LeaveRefresh, StoreMoves, KimiTypeOK
<1>20. ASSUME NEW h \in Handlers, GivesUp(h) PROVE StoreMoves
  BY <1>20 DEF GivesUp, LeaveRefresh, StoreMoves, KimiTypeOK
<1>21. ASSUME NEW h \in Handlers, CompareStored(h) PROVE StoreMoves
  <2>1. UNCHANGED <<stored, unsaved, from>> BY <1>21 DEF CompareStored
  <2>2. \A g \in Handlers : g # h => at'[g] = at[g]
        BY <1>21 DEF CompareStored, LeaveRefresh, KimiTypeOK
  <2>3. stored = before[h] => at'[h] = "persist" BY <1>21 DEF CompareStored, KimiTypeOK
  <2>4. stored # before[h] => stored = NoCred
        BY <1>21 DEF CompareStored, HandlersOK, HandlerOK, Critical
  <2> QED BY <2>1, <2>2, <2>3, <2>4 DEF StoreMoves
<1>22. ASSUME NEW h \in Handlers, Persist(h) PROVE StoreMoves
  BY <1>22 DEF StoreMoves
<1>23. ASSUME PostClear PROVE StoreMoves
  BY <1>23 DEF PostClear, StoreMoves, KimiTypeOK
<1>24. ASSUME Crash PROVE StoreMoves
  BY <1>24 DEF StoreMoves
<1>25. CASE UNCHANGED kimiVars
  BY <1>25 DEF kimiVars, StoreMoves, KimiTypeOK
<1> QED BY <1>1, <1>2, <1>3, <1>4, <1>5, <1>6, <1>7, <1>8, <1>9, <1>10, <1>11, <1>12, <1>13,
           <1>14, <1>15, <1>16, <1>17, <1>18, <1>19, <1>20, <1>21, <1>22, <1>23, <1>24, <1>25
       DEF KimiNext

\* A persisted refresh, and one that could not be saved.
LEMMA PersistFacts ==
  ASSUME KimiTypeOK, HandlersOK, NEW h \in Handlers, Persist(h)
  PROVE  /\ current[h] # NoCred /\ before[h] # NoCred /\ current[h].login = before[h].login
         /\ current[h].version = valid[current[h].login]
         /\ stored \in {before[h], NoCred} /\ UNCHANGED <<valid, lost>>
         /\ \/ stored' = current[h] /\ unsaved' = NoCred
            \/ stored' = stored /\ unsaved' = current[h] /\ from' = before[h]
<1>1. at[h] = "persist" BY DEF Persist
<1>2. /\ current[h] # NoCred /\ before[h] # NoCred /\ current[h].login = before[h].login
      /\ stored \in {before[h], NoCred}
      BY <1>1, CriticalFacts, NoCredIsNone DEF Critical
<1>3. current[h].version = valid[current[h].login] BY <1>1 DEF HandlersOK, HandlerOK
<1>4. /\ UNCHANGED <<valid, lost>>
      /\ \/ stored' = current[h] /\ unsaved' = NoCred
         \/ stored' = stored /\ unsaved' = current[h] /\ from' = before[h]
      BY DEF Persist
<1> QED BY <1>2, <1>3, <1>4

\* The newest token of the login of a credential the program has changes only by a
\* refresh, whose answer is under way or lost.
LEMMA NewestMoves ==
  ASSUME KimiTypeOK, KimiInv, [KimiNext]_kimiVars, NEW c \in Traces
  PROVE  \/ valid'[c.login] = valid[c.login]
         \/ c.login \in lost'
         \/ \E h \in Handlers : at'[h] \in {"compare", "persist"}
<1>1. HandlersOK /\ Known /\ FlowsOK BY DEF KimiInv
<1>2. c.login \in Sessions /\ valid[c.login] # 0 BY <1>1, TraceFacts
<1>3. ASSUME NEW h \in Handlers, Refreshed(h)
      PROVE  \E g \in Handlers : at'[g] \in {"compare", "persist"}
      BY <1>3 DEF Refreshed, HandlerAt, KimiTypeOK
<1>4. ASSUME NEW h \in Handlers, RefreshUnanswered(h)
      PROVE  valid'[c.login] = valid[c.login] \/ c.login \in lost'
      BY <1>1, <1>2, <1>4, UnansweredFacts
<1>5. ASSUME NEW s \in Sessions, Granted(s) PROVE valid'[c.login] = valid[c.login]
  <2>1. poller[s] = "polling" /\ valid' = [valid EXCEPT ![s] = 1] BY <1>5 DEF Granted
  <2>2. valid[s] = 0 BY <1>1, <2>1 DEF FlowsOK, FlowOK, FlowStarted
  <2> QED BY <1>2, <2>1, <2>2 DEF KimiTypeOK
<1> QED BY <1>3, <1>4, <1>5, ValidStep DEF Renewal

\* The credential that could not be saved stays the newest one.
LEMMA UnsavedStep ==
  ASSUME KimiTypeOK, KimiTypeOK', KimiInv, [KimiNext]_kimiVars
  PROVE  UnsavedOK'
<1>0. HandlersOK /\ Known /\ UnsavedOK BY DEF KimiInv
<1>1. StoreMoves BY <1>0, StoredMoves
<1>2. SUFFICES ASSUME unsaved' # NoCred, stored' # NoCred, from' = stored'
      PROVE  /\ unsaved'.login = stored'.login
             /\ \/ stored'.login \in lost'
                \/ unsaved'.version = valid'[stored'.login]
                \/ \E h \in Handlers : at'[h] \in {"compare", "persist"}
      BY DEF UnsavedOK
<1>3. CASE /\ UNCHANGED <<stored, unsaved, from>>
           /\ \A h \in Handlers : at[h] \in {"compare", "persist"} =>
                at'[h] \in {"compare", "persist"} \/ stored = NoCred
  <2>1. stored # NoCred /\ unsaved # NoCred /\ from = stored BY <1>2, <1>3
  <2>2. stored \in Traces BY <2>1, InTraces
  <2>3. \/ valid'[stored.login] = valid[stored.login]
        \/ stored.login \in lost'
        \/ \E h \in Handlers : at'[h] \in {"compare", "persist"}
        BY <2>2, NewestMoves
  <2>4. /\ unsaved.login = stored.login
        /\ \/ stored.login \in lost
           \/ unsaved.version = valid[stored.login]
           \/ \E h \in Handlers : at[h] \in {"compare", "persist"}
        BY <1>0, <2>1 DEF UnsavedOK
  <2>5. lost \subseteq lost' BY LostGrows
  <2> QED BY <1>3, <2>1, <2>3, <2>4, <2>5
<1>4. ASSUME NEW h \in Handlers, Persist(h)
      PROVE  /\ unsaved'.login = stored'.login
             /\ unsaved'.version = valid'[stored'.login]
  <2>1. stored' = stored /\ unsaved' = current[h] /\ from' = before[h]
        BY <1>0, <1>2, <1>4, PersistFacts
  <2>2. stored = before[h] BY <1>2, <2>1
  <2>3. /\ current[h].login = before[h].login
        /\ current[h].version = valid[current[h].login] /\ valid' = valid
        BY <1>0, <1>4, PersistFacts
  <2> QED BY <2>1, <2>2, <2>3
<1>5. ASSUME NEW h \in Handlers, Register(h), stored' # stored PROVE FALSE
  <2>1. /\ stored' = Cred(on[h], 1) /\ stored'.login = on[h] /\ NoTrace(on[h])
        /\ from' = from
        BY <1>5, RegisterFacts
  <2>2. from \in Traces BY <1>2, <2>1, InTraces
  <2> QED BY <1>2, <2>1, <2>2 DEF NoTrace
<1>6. ASSUME NEW h \in Handlers, Register(h), UNCHANGED stored
      PROVE  /\ UNCHANGED <<stored, unsaved, from>>
             /\ \A g \in Handlers : at[g] \in {"compare", "persist"} =>
                  at'[g] \in {"compare", "persist"} \/ stored = NoCred
      BY <1>6, RegisterFacts
<1>7. ASSUME NEW h \in Handlers, EnterRefresh(h)
      PROVE  /\ UNCHANGED <<stored, unsaved, from>>
             /\ \A g \in Handlers : at[g] \in {"compare", "persist"} =>
                  at'[g] \in {"compare", "persist"} \/ stored = NoCred
  <2>1. at[h] = "lock" /\ \A g \in Handlers : g # h => at'[g] = at[g]
        BY <1>7 DEF EnterRefresh, BeginRefresh, HandlerAt, KimiTypeOK
  <2>2. UNCHANGED <<stored, unsaved, from>> BY <1>2, <1>7 DEF EnterRefresh, credVars
  <2> QED BY <2>1, <2>2
<1>8. (\E h \in Handlers : Logout(h)) \/ Crash => unsaved' = NoCred BY DEF Logout, Crash
<1> QED BY <1>1, <1>2, <1>3, <1>4, <1>5, <1>6, <1>7, <1>8 DEF StoreMoves

\* The configuration's credential is the newest one of its login, or its successor
\* is in memory.
LEMMA StoredStep ==
  ASSUME KimiTypeOK, KimiTypeOK', KimiInv, [KimiNext]_kimiVars
  PROVE  StoredOK'
<1>0. HandlersOK /\ Known /\ UnsavedOK /\ StoredOK BY DEF KimiInv
<1>1. StoreMoves BY <1>0, StoredMoves
<1> DEFINE Answered == \E h \in Handlers : at'[h] \in {"compare", "persist"}
           Goal == \/ stored'.login \in lost'
                   \/ stored'.version = valid'[stored'.login]
                   \/ unsaved' # NoCred /\ from' = stored'
                   \/ Answered
<1>2. SUFFICES ASSUME stored' # NoCred PROVE Goal BY DEF StoredOK
<1>3. CASE /\ UNCHANGED <<stored, unsaved, from>>
           /\ \A h \in Handlers : at[h] \in {"compare", "persist"} =>
                at'[h] \in {"compare", "persist"} \/ stored = NoCred
  <2>1. stored # NoCred BY <1>2, <1>3
  <2>2. stored \in Traces BY <2>1, InTraces
  <2>3. valid'[stored.login] = valid[stored.login] \/ stored.login \in lost' \/ Answered
        BY <2>2, NewestMoves
  <2>4. \/ stored.login \in lost
        \/ stored.version = valid[stored.login]
        \/ unsaved # NoCred /\ from = stored
        \/ \E h \in Handlers : at[h] \in {"compare", "persist"}
        BY <1>0, <2>1 DEF StoredOK
  <2>5. lost \subseteq lost' BY LostGrows
  <2> QED BY <1>3, <2>1, <2>3, <2>4, <2>5
<1>4. ASSUME NEW h \in Handlers, Persist(h) PROVE Goal
  <2>1. \/ stored' = current[h]
        \/ stored' = before[h] /\ unsaved' # NoCred /\ from' = stored'
        BY <1>0, <1>2, <1>4, PersistFacts
  <2>2. current[h].version = valid'[current[h].login] BY <1>0, <1>4, PersistFacts
  <2> QED BY <2>1, <2>2
<1>5. ASSUME NEW h \in Handlers, Register(h), stored' # stored PROVE Goal
  <2>1. stored' = Cred(on[h], 1) /\ valid'[on[h]] = 1 BY <1>5, RegisterFacts
  <2>2. stored'.login = on[h] /\ stored'.version = 1 BY <1>5, <2>1, RegisterFacts
  <2> QED BY <2>1, <2>2
<1>6. ASSUME NEW h \in Handlers, Register(h), UNCHANGED stored
      PROVE  /\ UNCHANGED <<stored, unsaved, from>>
             /\ \A g \in Handlers : at[g] \in {"compare", "persist"} =>
                  at'[g] \in {"compare", "persist"} \/ stored = NoCred
      BY <1>6, RegisterFacts
<1>7. ASSUME NEW h \in Handlers, EnterRefresh(h) PROVE Goal
  <2>1. /\ at[h] = "lock" /\ UNCHANGED <<valid, lost>>
        /\ \A g \in Handlers : g # h => at'[g] = at[g]
        BY <1>7 DEF EnterRefresh, BeginRefresh, HandlerAt, KimiTypeOK
  <2>2. \A g \in Handlers : at[g] \in {"compare", "persist"} =>
                at'[g] \in {"compare", "persist"}
        BY <2>1
  <2>3. \/ UNCHANGED <<stored, unsaved, from>>
        \/ stored' = stored /\ (unsaved = NoCred \/ from # stored)
        \/ stored' = unsaved /\ stored # NoCred /\ unsaved # NoCred /\ from = stored
        BY <1>7 DEF EnterRefresh, credVars
  <2>4. CASE UNCHANGED <<stored, unsaved, from>> BY <1>3, <2>2, <2>4
  <2>5. CASE stored' = stored /\ (unsaved = NoCred \/ from # stored)
    <3>1. \/ stored.login \in lost
          \/ stored.version = valid[stored.login]
          \/ \E g \in Handlers : at[g] \in {"compare", "persist"}
          BY <1>0, <1>2, <2>5 DEF StoredOK
    <3> QED BY <2>1, <2>2, <2>5, <3>1
  <2>6. CASE stored' = unsaved /\ stored # NoCred /\ unsaved # NoCred /\ from = stored
    <3>1. /\ unsaved.login = stored.login
          /\ \/ stored.login \in lost
             \/ unsaved.version = valid[stored.login]
             \/ \E g \in Handlers : at[g] \in {"compare", "persist"}
          BY <1>0, <2>6 DEF UnsavedOK
    <3> QED BY <2>1, <2>2, <2>6, <3>1
  <2> QED BY <2>3, <2>4, <2>5, <2>6
<1>8. ASSUME NEW h \in Handlers, Logout(h) PROVE Goal
  <2>1. stored' = stored /\ UNCHANGED valid BY <1>2, <1>8 DEF Logout
  <2>2. stored'.version # valid[stored'.login] => stored'.login \in lost'
        BY <1>2, <1>8 DEF Logout
  <2> QED BY <2>1, <2>2
<1>9. ASSUME Crash PROVE Goal
  <2>1. UNCHANGED <<stored, valid>> BY <1>9 DEF Crash
  <2>2. stored \in Traces BY <1>2, <2>1, InTraces
  <2>3. /\ stored.login \in Sessions /\ stored.version \in Nat \ {0}
        /\ stored.version <= valid[stored.login] /\ valid[stored.login] \in Nat
        BY <1>0, <2>2, TraceFacts
  <2>4. CASE stored.version # valid[stored.login]
    <3>1. valid[stored.login] > 1 BY <2>3, <2>4
    <3>2. stored # Cred(stored.login, valid[stored.login])
          BY <2>3, <2>4, CredType
    <3>3. stored.login \in {s \in Sessions : valid[s] > 1 /\ stored # Cred(s, valid[s])}
          BY <2>3, <3>1, <3>2
    <3>4. stored.login \in lost' BY <1>9, <3>3 DEF Crash
    <3> QED BY <2>1, <3>4
  <2> QED BY <2>1, <2>4
<1> HIDE DEF Goal
<1> QED BY <1>1, <1>2, <1>3, <1>4, <1>5, <1>6, <1>7, <1>8, <1>9 DEF StoreMoves

\* Kimi refuses a credential that nobody else could have spent only when a newer one was
\* lost.
LEMMA SignInStep ==
  ASSUME KimiTypeOK, HandlersOK, SignInAgainOnlyIfLost, lost \subseteq lost', [KimiNext]_kimiVars
  PROVE  SignInAgainOnlyIfLost'
<1> USE DEF sessionVars, credVars, refreshVars, faultVars, HandlerAt, SaveFails, NetFails
<1>1. ASSUME NEW s \in Sessions, RegisterSession(s) PROVE SignInAgainOnlyIfLost'
  BY <1>1 DEF RegisterSession, SignInAgainOnlyIfLost, KimiTypeOK
<1>2. ASSUME NEW s \in Sessions, Granted(s) PROVE SignInAgainOnlyIfLost'
  BY <1>2 DEF Granted, SignInAgainOnlyIfLost, KimiTypeOK
<1>3. ASSUME NEW s \in Sessions, Completed(s) PROVE SignInAgainOnlyIfLost'
  BY <1>3 DEF Completed, SignInAgainOnlyIfLost, KimiTypeOK
<1>4. ASSUME NEW s \in Sessions, PollEnds(s) PROVE SignInAgainOnlyIfLost'
  BY <1>4 DEF PollEnds, SignInAgainOnlyIfLost, KimiTypeOK
<1>5. ASSUME NEW s \in Sessions, Expire(s) PROVE SignInAgainOnlyIfLost'
  BY <1>5 DEF Expire, SignInAgainOnlyIfLost, KimiTypeOK
<1>6. ASSUME NEW h \in Handlers, NEW s \in Sessions, GetSession(h, s)
       PROVE  SignInAgainOnlyIfLost'
  BY <1>6 DEF GetSession, SignInAgainOnlyIfLost, KimiTypeOK
<1>7. ASSUME NEW h \in Handlers, NEW s \in Sessions, Cancel(h, s)
       PROVE  SignInAgainOnlyIfLost'
  BY <1>7 DEF Cancel, SignInAgainOnlyIfLost, KimiTypeOK
<1>8. ASSUME NEW h \in Handlers, Snapshot(h) PROVE SignInAgainOnlyIfLost'
  BY <1>8 DEF Snapshot, SignInAgainOnlyIfLost, KimiTypeOK
<1>9. ASSUME NEW h \in Handlers, ClaimCompletion(h) PROVE SignInAgainOnlyIfLost'
  BY <1>9 DEF ClaimCompletion, SignInAgainOnlyIfLost, KimiTypeOK
<1>10. ASSUME NEW h \in Handlers, Register(h) PROVE SignInAgainOnlyIfLost'
  BY <1>10 DEF Register, SignInAgainOnlyIfLost, KimiTypeOK
<1>11. ASSUME NEW h \in Handlers, ReleaseCompletion(h) PROVE SignInAgainOnlyIfLost'
  BY <1>11 DEF ReleaseCompletion, SignInAgainOnlyIfLost, KimiTypeOK
<1>12. ASSUME NEW h \in Handlers, RemoveSession(h) PROVE SignInAgainOnlyIfLost'
  BY <1>12 DEF RemoveSession, SignInAgainOnlyIfLost, KimiTypeOK
<1>13. ASSUME NEW h \in Handlers, StopSession(h) PROVE SignInAgainOnlyIfLost'
  BY <1>13 DEF StopSession, SignInAgainOnlyIfLost, KimiTypeOK
<1>14. ASSUME NEW h \in Handlers, Logout(h) PROVE SignInAgainOnlyIfLost'
  BY <1>14 DEF Logout, SignInAgainOnlyIfLost, KimiTypeOK
<1>15. ASSUME NEW h \in Handlers, Resolve(h) PROVE SignInAgainOnlyIfLost'
  BY <1>15 DEF Resolve, SignInAgainOnlyIfLost, KimiTypeOK
<1>16. ASSUME NEW h \in Handlers, EnterRefresh(h) PROVE SignInAgainOnlyIfLost'
  BY <1>16 DEF EnterRefresh, BeginRefresh, SignInAgainOnlyIfLost, KimiTypeOK
<1>17. ASSUME NEW h \in Handlers, Refreshed(h) PROVE SignInAgainOnlyIfLost'
  BY <1>17 DEF Refreshed, SignInAgainOnlyIfLost, KimiTypeOK
<1>18. ASSUME NEW h \in Handlers, RefreshUnanswered(h) PROVE SignInAgainOnlyIfLost'
  BY <1>18 DEF RefreshUnanswered, SignInAgainOnlyIfLost, KimiTypeOK
<1>19. ASSUME NEW h \in Handlers, Rejected(h) PROVE SignInAgainOnlyIfLost'
  <2>1. at[h] = "refresh" /\ current[h].version # valid[current[h].login] /\ dead' = current[h]
        BY <1>19 DEF Rejected
  <2>2. current[h].login \in lost BY <2>1 DEF HandlersOK, HandlerOK
  <2> QED BY <2>1, <2>2 DEF SignInAgainOnlyIfLost
<1>20. ASSUME NEW h \in Handlers, GivesUp(h) PROVE SignInAgainOnlyIfLost'
  BY <1>20 DEF GivesUp, LeaveRefresh, SignInAgainOnlyIfLost, KimiTypeOK
<1>21. ASSUME NEW h \in Handlers, CompareStored(h) PROVE SignInAgainOnlyIfLost'
  BY <1>21 DEF CompareStored, LeaveRefresh, SignInAgainOnlyIfLost, KimiTypeOK
<1>22. ASSUME NEW h \in Handlers, Persist(h) PROVE SignInAgainOnlyIfLost'
  BY <1>22 DEF Persist, LeaveRefresh, SignInAgainOnlyIfLost, KimiTypeOK
<1>23. ASSUME PostClear PROVE SignInAgainOnlyIfLost'
  BY <1>23 DEF PostClear, SignInAgainOnlyIfLost, KimiTypeOK
<1>24. ASSUME Crash PROVE SignInAgainOnlyIfLost'
  BY <1>24 DEF Crash, SignInAgainOnlyIfLost, KimiTypeOK
<1>25. CASE UNCHANGED kimiVars
  BY <1>25 DEF kimiVars, SignInAgainOnlyIfLost, KimiTypeOK
<1> QED BY <1>1, <1>2, <1>3, <1>4, <1>5, <1>6, <1>7, <1>8, <1>9, <1>10, <1>11, <1>12, <1>13,
           <1>14, <1>15, <1>16, <1>17, <1>18, <1>19, <1>20, <1>21, <1>22, <1>23, <1>24, <1>25
       DEF KimiNext

-----------------------------------------------------------------------------
(* Theorems *)

LEMMA KimiStep ==
  ASSUME KimiTypeOK, KimiInv, [KimiNext]_kimiVars
  PROVE  KimiTypeOK' /\ KimiInv'
<1>1. HandlersOK /\ SignInAgainOnlyIfLost BY DEF KimiInv
<1>2. KimiTypeOK' BY <1>1, KimiTypeStep
<1>3. SignInAgainOnlyIfLost' BY <1>1, LostGrows, SignInStep
<1> QED BY <1>2, <1>3, HandlersStep, KnownStep, FlowsStep, ClaimsStep, UnsavedStep, StoredStep
    DEF KimiInv

\* Every state keeps its types.
THEOREM KimiTypeCorrect == KimiSpec => []KimiTypeOK
<1>1. KimiInit => KimiTypeOK /\ KimiInv BY KimiInitInv
<1>2. KimiTypeOK /\ KimiInv /\ [KimiNext]_kimiVars => (KimiTypeOK /\ KimiInv)' BY KimiStep
<1> QED BY <1>1, <1>2, PTL DEF KimiSpec

\* The user is told to sign in again (server.go:1573-1583) only when the newest
\* refresh token was lost.
THEOREM SignInWhenLost == KimiSpec => []SignInAgainOnlyIfLost
<1>1. KimiInit => KimiTypeOK /\ KimiInv BY KimiInitInv
<1>2. KimiTypeOK /\ KimiInv /\ [KimiNext]_kimiVars => (KimiTypeOK /\ KimiInv)' BY KimiStep
<1>3. KimiInv => SignInAgainOnlyIfLost BY DEF KimiInv
<1> QED BY <1>1, <1>2, <1>3, PTL DEF KimiSpec

\* A credential is the newest one of its login when it has the newest version.
LEMMA NewestCred ==
  ASSUME NEW c \in Creds, NEW s \in Sessions, c.login = s, c.version = valid[s]
  PROVE  c = Cred(s, valid[s])
BY DEF Creds, Cred

\* The inductive invariant has the configuration refreshed as long as nothing was
\* lost.
LEMMA InvKeepsNewest ==
  ASSUME KimiTypeOK, KimiInv PROVE NewestKept
<1>0. HandlersOK /\ UnsavedOK /\ StoredOK BY DEF KimiInv
<1> DEFINE s == stored.login
<1>1. SUFFICES ASSUME stored # NoCred, s \notin lost
      PROVE  \/ stored = Cred(s, valid[s])
             \/ unsaved = Cred(s, valid[s]) /\ from = stored
             \/ \E h \in Handlers : at[h] \in {"compare", "persist"}
                                      /\ current[h] = Cred(s, valid[s])
      BY DEF NewestKept
<1>2. stored \in Creds BY <1>1 DEF KimiTypeOK, MaybeCred
<1>3. s \in Sessions BY <1>2 DEF Creds
<1>4. ASSUME NEW h \in Handlers, at[h] \in {"compare", "persist"}
      PROVE  current[h] = Cred(s, valid[s])
  <2>1. at[h] \in Critical BY <1>4 DEF Critical
  <2>2. current[h] \in Creds /\ current[h].login = s
        BY <1>0, <1>1, <2>1, CriticalFacts
  <2>3. current[h].version = valid[s] BY <1>0, <1>4, <2>2 DEF HandlersOK, HandlerOK
  <2> QED BY <1>3, <2>2, <2>3, NewestCred
<1>5. CASE stored.version = valid[s] BY <1>2, <1>3, <1>5, NewestCred
<1>6. ASSUME unsaved # NoCred, from = stored,
             ~\E h \in Handlers : at[h] \in {"compare", "persist"}
      PROVE  unsaved = Cred(s, valid[s])
  <2>1. unsaved \in Creds BY <1>6 DEF KimiTypeOK, MaybeCred
  <2>2. unsaved.login = s /\ unsaved.version = valid[s] BY <1>0, <1>1, <1>6 DEF UnsavedOK
  <2> QED BY <1>3, <2>1, <2>2, NewestCred
<1> QED BY <1>0, <1>1, <1>4, <1>5, <1>6 DEF StoredOK

\* The newest refresh token of the login in the configuration is there, or in
\* memory marked as its successor, or in the hands of the refresh under way,
\* unless an answer of Kimi or the process was lost (server.go:1554-1611).
THEOREM KeepsNewest == KimiSpec => []NewestKept
<1>1. KimiInit => KimiTypeOK /\ KimiInv BY KimiInitInv
<1>2. KimiTypeOK /\ KimiInv /\ [KimiNext]_kimiVars => (KimiTypeOK /\ KimiInv)' BY KimiStep
<1>3. KimiTypeOK /\ KimiInv => NewestKept BY InvKeepsNewest
<1> QED BY <1>1, <1>2, <1>3, PTL DEF KimiSpec
==============================================================================
