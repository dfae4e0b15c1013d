CONSTANTS
  i = i
  j = j
  r = r
  s = s
  Images = {i}
  FnSpecs <- OneSpec
  Regions = {r, s}
  Home = r
  ListsGone = TRUE
  UserFns = {}
  MaxApps = 1
  MaxFns = 1
  MaxDisturbances = 0
  MaxEdits = 0
  MaxCreations = 1
  MaxMishaps = 0
  MaxRaces = 0
SPECIFICATION FairSpec
PROPERTIES FunctionDeletionAlwaysCompletes
