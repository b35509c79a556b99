SPECIFICATION Spec
CONSTANTS
  Emails = {e1, e2}
  Copies = {1}
  Models = {m}
  Requests = {r1, r2}
  None = none
  MaxAttempts = 1
  MaxCapacity = 1
  FailLimit = 1
  MaxWait = 1
  Window = 1
  Quick = {1}
  Long = {2}
  Minute = 1
  Day = 3
  MaxEdits = 1
SYMMETRY Symmetry
INVARIANT TypeOK
INVARIANT MeterExact
INVARIANT ClosedQuiet
PROPERTY NotAllGone
