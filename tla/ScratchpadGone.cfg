CONSTANTS
  None = None
  s1 = s1
  s2 = s2
  Sessions <- MCSessions
  Requests = {r1, r2}
  User <- MCUser
  Ttl = 1
  MaxDays = 2
  MaxCalls = 2
  MaxTrouble = 2
  Callers = {c1, c2}
  Offers <- MCOffers
  Lists <- MCLists
  MaxLooks = 4
  CacheTTL = 2
  Timeout = 1
  MaxTime = 6
  MaxVersions = 3
  ExpiresIn = 2
  Margin = 1
  MaxTokens = 4
  Clients = {ada, bob}
  Burst = 2
  Cost = 2
  Stale = 4
  CleanEvery = 2
  MaxTicks = 6
SPECIFICATION Spec
INVARIANTS
  CreatesIfNone
CHECK_DEADLOCK FALSE
