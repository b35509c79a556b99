SPECIFICATION LocksSpec
CONSTANTS
  Goroutines = {g1, g2}
  Guarded = {a1, a2}
  Pool = pool
  Gate = gate
  NoWriter = none
  Ops <- AllOps
INVARIANT NoCircularWait
