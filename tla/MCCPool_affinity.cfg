SPECIFICATION OnePoolSpec
CONSTANTS
  Accounts = {a1, a2}
  Sessions = {s1, s2}
  Requests = {r1, r2}
  None = none
  Priority <- SamePriority
  MaxAttempts = 2
  FailLimit = 2
  MaxSticky = 1
  EvictBatch = 1
  Delays = {}
  MaxGen = 1
  MaxTime = 1
SYMMETRY SymmetryAll
INVARIANT StickySound
PROPERTY AffinityKept
