SPECIFICATION FairSpec
CONSTANTS
  Orders = {o1}
  Payers = {o1}
  PaidQuota = 1
  Cash = 2
  MaxQuota = 2
  MaxTries = 2
  MaxEvents = 3
INVARIANTS
  TypeOK
  CreditedAtMostOnce
PROPERTIES
  CreditNeedsPayment
  CreditSticks
  RefundTakesOwnCredit
  PageVerdictFinal
  PaidOrdersSettle
CHECK_DEADLOCK FALSE
