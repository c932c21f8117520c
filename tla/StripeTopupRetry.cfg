SPECIFICATION Spec
CONSTANTS
  Orders = {o1, o2}
  Payers = {o1, o2}
  PaidQuota = 1
  Cash = 1
  MaxQuota = 2
  MaxTries = 2
  MaxEvents = 3
INVARIANTS
  RetryCreditsPaidOrders
CHECK_DEADLOCK FALSE
