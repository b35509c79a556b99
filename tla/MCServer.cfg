SPECIFICATION Spec
CONSTANTS
  c1 = c1
  c2 = c2
  p1 = p1
  p2 = p2
  Callers = {c1, c2}
  Procs = {p1, p2}
  ProcOf <- TwoProcs
  WriteBack = {p1, p2}
  Inodes = {i1, i2, i3}
  Logins = {l1, l2}
  Rotates = {TRUE}
  AgyWrites = TRUE
  Stalls = FALSE
  NoToken = NoToken
  MaxAccess = 3
  MaxFaults = 1
  Sessions = {s1, s2}
  Handlers = {h1, h2}
  NoCred = NoCred
  MaxAttempts = 2
  MaxVersion = 2
  MaxSaveFails = 1
  MaxNetFails = 1
  Readers = {h1, h2}
  Capacity = 2
  BufSize = 2
  MaxEntries = 4
  e1 = e1
  z1 = z1
  z2 = z2
  Off = Off
  Names <- OneEndpoint
  Sources = {z1, z2}
  Listing = {z1}
  Configs <- EverySource
  Askers = {h1, h2}
  Refreshers = {panel}
  Forced = {panel}
  MaxChanges = 1
  a2 = a2
  Accounts = {a1, a2}
  Forwards = {h1, h2}
  Workers = {worker}
  MaxToken = 3
  Nobody = Nobody
SYMMETRY Symmetry
CHECK_DEADLOCK FALSE
INVARIANT AnswerIsCurrent
INVARIANT RefreshTokenKept
INVARIANT NewestKept
INVARIANT SignInAgainOnlyIfLost
INVARIANT InOrderOnce
INVARIANT NoHole
INVARIANT RoutedByOwnSource
INVARIANT WaitedThenRouted
INVARIANT FetchesFirstOnly
INVARIANT NobodyWaitsInVain
INVARIANT GivenIsFiled
