SPECIFICATION FairSpec
CONSTANTS
  MaxRetries = 2
  MaxMessages = 3
INVARIANTS
  TypeOK
  RetryHasTarget
  SpinnerIsServed
  RetriesAreBounded
PROPERTIES
  AnswersStay
  GenerationEnds
CHECK_DEADLOCK FALSE
