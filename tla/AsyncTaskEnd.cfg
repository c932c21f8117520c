SPECIFICATION FairSpec
CONSTANTS
  Tasks = {t1}
  Platforms = {"suno", "gemini", "video"}
  Pollers = {p1, p2}
  Users = {u1}
  Quotas = {2}
  Actuals = {1}
  MaxExtra = 2
PROPERTIES
  TasksEnd
CHECK_DEADLOCK FALSE
