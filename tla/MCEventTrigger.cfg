CONSTANTS
  f = f
  g = g
  none = none
  v = v
  w = w
  c = c
  d = d
  Functions = {f, g}
  NoFunction = none
  Wants = {v, w}
  Compartments = {c, d}
  Specs <- EverySpec
  MaxRules = 3
  MaxEdits = 1
  MaxChanges = 1
  MaxRemovals = 1
  MaxFaults = 1
  MaxCrashes = 1
  MaxStaleReads = 1
  MaxDisturbances = 2
  MaxLag = 1
SPECIFICATION FairSpec
INVARIANTS TypeOK AtMostOneRule RuleIsGuarded
PROPERTIES RecordedRuleDeleted
           EventuallyServed DeletionCompletes
