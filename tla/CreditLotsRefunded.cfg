SPECIFICATION Spec
CONSTANTS
  Orders = {o1}
  Requests = {q1}
  Handlers = {}
  PaidQuota = 1
  PromoQuota = 1
  PromoLifetimes = {0, 1}
  Amounts = {1, 2}
  Gifts = {1}
  PlanPrices = {}
  Overrides = {}
  MaxQuota = 4
  MaxTime = 1
INVARIANT
  RefundedOrderHoldsNoCredit
CHECK_DEADLOCK FALSE
