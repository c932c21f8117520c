SPECIFICATION Spec
CONSTANTS
  Tasks = {t1}
  Platforms = {"video"}
  Pollers = {p1, p2, p3}
  Users = {}
  Quotas = {1, 2}
  Actuals = {1, 3}
  MaxExtra = 2
INVARIANTS
  TypeOK
  RefundedAtMostOnce
  SuccessIsCharged
  FailureIsRefunded
PROPERTIES
  EndIsFinal
CHECK_DEADLOCK FALSE
