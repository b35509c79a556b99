SPECIFICATION TokensSpec
CONSTANTS
  Accounts = {a1, a2}
  Forwards = {}
  Workers = {worker}
  MaxToken = 2
  Nobody = nobody
INVARIANT RefreshedIsSaved
