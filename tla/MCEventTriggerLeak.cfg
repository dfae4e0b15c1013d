CONSTANTS
  f = f
  g = g
  none = none
  v = v
  w = w
  c = c
  d = d
  Functions = {f}
  NoFunction = none
  Wants = {v, w}
  Compartments = {c}
  Specs <- OneSpec
  MaxRules = 2
  MaxEdits = 0
  MaxChanges = 0
  MaxRemovals = 0
  MaxFaults = 0
  MaxCrashes = 0
  MaxStaleReads = 0
  MaxDisturbances = 0
  MaxLag = 1
SPECIFICATION Spec
INVARIANTS NoRuleLeftBehind
