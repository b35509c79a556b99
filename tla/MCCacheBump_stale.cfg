SPECIFICATION Spec
CONSTANTS
  Keys = {k1, k2}
  None = None
  RetryAfter = 1
  MaxTurns = 1
  Sizes = {1}
  TTLs = {5}
  Configs <- FixedConfig
  StoreTTL = 20
  MaxEntries = 2
  MaxBytes = 2
  MaxTime = 12
PROPERTY StaleResultIgnored
