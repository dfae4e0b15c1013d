CONSTANTS
  Targets <- AllTargets
  MaxAttempts = 3
SPECIFICATION Spec
INVARIANTS RecordIsOfLastAttempt
PROPERTIES PromiseKept
CHECK_DEADLOCK FALSE
