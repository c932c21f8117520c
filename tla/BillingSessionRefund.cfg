SPECIFICATION Spec
CONSTANTS
  Requests = {q1, q2}
  Playground = {}
  Preferences = {"subscription_only"}
  Estimates = {1}
  Actuals = {1}
  InitialQuota = 3
  InitialToken = 3
  TrustQuota = 2
  NumSubs = 1
  SubTotal = 3
  StrictSubs = {}
  MaxResets = 0
  MaxFaults = 0
  MaxLostCommits = 1
INVARIANTS
  UsageCoversReservations
CHECK_DEADLOCK FALSE
