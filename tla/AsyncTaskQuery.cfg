SPECIFICATION Spec
CONSTANTS
  Tasks = {t1}
  Platforms = {"suno", "gemini", "video"}
  Pollers = {p1, p2}
  Users = {u1}
  Quotas = {1, 2}
  Actuals = {1}
  MaxExtra = 2
INVARIANTS
  QueriedFailureIsRefunded
CHECK_DEADLOCK FALSE
