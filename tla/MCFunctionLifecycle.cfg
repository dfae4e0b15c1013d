CONSTANTS
  i = i
  j = j
  r = r
  s = s
  Images = {i, j}
  FnSpecs <- SwitchedSpecs
  Regions = {r, s}
  Home = r
  ListsGone = TRUE
  UserFns = {1}
  MaxApps = 1
  MaxFns = 2
  MaxDisturbances = 1
  MaxEdits = 1
  MaxCreations = 1
  MaxMishaps = 1
  MaxRaces = 0
SPECIFICATION FairSpec
INVARIANTS TypeOK ReadyIsBacked
PROPERTIES FunctionGoneWithObject ApplicationGoneWithObject RetainKeeps
           EventuallyReady FunctionDeletionCompletes
