CONSTANTS
  e = e
  f = f
  o = o
  Triggers <- Numbers
  EventTypes = {e, f}
  OCITypes = {o}
  EventSpecs <- TwoEvents
  TriggerSpecs <- SwitchedTriggers
  RetryLimit = 2
  MaxEdits = 1
  MaxMishaps = 1
  MaxDisturbances = 1
  MaxLag = 2
SPECIFICATION FairSpec
INVARIANTS TypeOK VerdictIsEarned AttemptBudget
PROPERTIES SucceededNeverReinvoked OnlyProcessedExpires
           EventuallyDone ProcessedExpires
