CHECK_DEADLOCK FALSE
SPECIFICATION SaveSpec
CONSTANTS
  Requests = {r1, r2}
  Closer = closer
  MaxGen = 1
  MaxVer = 2
  DiskFails = FALSE
PROPERTY NothingLostOnClose
