CONSTANTS
  p = p
  q = q
  nil = nil
  Digests = {p, q, nil}
  Specs <- TwoSpecs
  MaxPayloads = 2
  MaxRetryLimit = 1
  MaxEdits = 1
  MaxCrashes = 1
  MaxStaleReads = 1
  MaxDisturbances = 2
  MaxLag = 1
SPECIFICATION FairSpec
INVARIANTS TypeOK SucceededMeansDelivered RecordsAreEarned InvocationBudget
PROPERTIES SuccessNeverRegresses PromiseKept
           SucceededNeverReinvoked QuietAfterTerminal
           EventuallyFinished
