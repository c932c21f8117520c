SPECIFICATION FairSpec
CONSTANTS
  Tasks = {t1, t2}
  Runners = {r1, r2}
  None = None
  TTL = 1
  MaxStall = 1
INVARIANTS
  TypeOK
  ExecutedAtMostOnce
  RunningIsLeased
  ActiveKeyIsExact
PROPERTIES
  StartsAreLeased
  EveryTaskEnds
CHECK_DEADLOCK FALSE
