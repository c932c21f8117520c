SPECIFICATION FairSpec
CONSTANTS
  Requests = {q1, q2}
  Playground = {q2}
  Preferences = {"subscription_first", "wallet_first"}
  Estimates = {2}
  Actuals = {1, 3}
  InitialQuota = 3
  InitialToken = 2
  TrustQuota = 2
  NumSubs = 2
  SubTotal = 3
  StrictSubs = {2}
  MaxResets = 2
  MaxFaults = 0
  MaxLostCommits = 1
INVARIANTS
  TypeOK
  UsageWithinTotal
PROPERTIES
  RequestsEnd
CHECK_DEADLOCK FALSE
