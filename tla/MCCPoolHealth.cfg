SPECIFICATION HealthSpec
CONSTANTS
  Accounts = {a1}
  Sessions = {}
  Requests = {r1, r2}
  None = none
  Priority <- SamePriority
  MaxAttempts = 2
  FailLimit = 2
  MaxSticky = 1
  EvictBatch = 1
  Delays = {2}
  MaxGen = 2
  MaxTime = 3
  Goroutines = {r1, r2, g3}
  Guarded = {l1, l2}
  Pool = pool
  Gate = gate
  NoWriter = none
  Ops <- OrderedOps
SYMMETRY Symmetry
INVARIANT ClosedStaysClosed
INVARIANT InFlightExact
INVARIANT NoCircularWait
