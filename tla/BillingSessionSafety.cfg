SPECIFICATION Spec
CONSTANTS
  Requests = {q1, q2}
  Playground = {}
  Preferences = {"subscription_first", "wallet_first", "subscription_only", "wallet_only"}
  Estimates = {0, 1, 2}
  Actuals = {0, 1, 3}
  InitialQuota = 3
  InitialToken = 3
  TrustQuota = 2
  NumSubs = 2
  SubTotal = 3
  StrictSubs = {}
  MaxResets = 0
  MaxFaults = 1
  MaxLostCommits = 0
PROPERTIES
  WalletCharged
  TokenCharged
  SubscriptionsCharged
CHECK_DEADLOCK FALSE
