\* Three requests of two sources to one host with one slot or two.
CONSTANTS
  s1 = s1  s2 = s2  r1 = r1  r2 = r2  r3 = r3
  Sources = {s1, s2}
  Requests = {r1, r2, r3}
  SourceOf <- MCSourceOf
  Concurrencies = {1, 2}
  Politeness <- MCPoliteness
  Slowdowns = {1, 2}
  Window = 3
  Quota <- MCQuota
  Threshold = 2
  Cooldown = 2
  MaxAttempts = 2
  Backoffs = {1}
  RetryAfters = {1}
  MaxRequests = 4
  Never = Never
SPECIFICATION HttpFairSpec
INVARIANT SlotsAreBalanced
INVARIANT FailingSourceRests
PROPERTY EveryRequestEnds
PROPERTY LoadIsShared
