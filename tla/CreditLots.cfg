SPECIFICATION Spec
CONSTANTS
  Orders = {o1}
  Requests = {q1, q2}
  Handlers = {h1}
  PaidQuota = 1
  PromoQuota = 1
  PromoLifetimes = {1}
  Amounts = {1, 2}
  Gifts = {1}
  PlanPrices = {1}
  Overrides <- NegativeOverride
  MaxQuota = 2
  MaxTime = 1
SYMMETRY Symmetry
INVARIANTS
  TypeOK
  LedgerMatchesLots
  NoCreditMinted
  RefundUndoesReserve
  CoveredChargesPass
PROPERTIES
  PromoCoverKept
  NestingKept
CHECK_DEADLOCK FALSE
