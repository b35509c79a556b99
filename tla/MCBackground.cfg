CHECK_DEADLOCK FALSE
SPECIFICATION BackgroundSpec
CONSTANTS
  k1 = k1
  k2 = k2
  k3 = k3
  Keys = {k1, k2, k3}
  None = None
  RetryAfter = 1
  MaxTurns = 1
  Sizes = {1, 2, 4}
  TTLs = {5}
  Configs <- EditedConfigs
  StoreTTL = 4
  MaxEntries = 2
  MaxBytes = 3
  MaxTime = 6
  r1 = r1
  r2 = r2
  Requests = {r1, r2}
  Closer = closer
  MaxGen = 2
  MaxVer = 2
  DiskFails = TRUE
PROPERTY RequestsServed
PROPERTY RetireReturns
INVARIANT WithinBudget
INVARIANT RetriesOnce
INVARIANT BumpCap
PROPERTY KeepsNewest
PROPERTY StoppedStaysStopped
PROPERTY DueServed
INVARIANT OneSaver
INVARIANT NothingForgotten
PROPERTY NewestPoolWins
PROPERTY ImplementsOwner
