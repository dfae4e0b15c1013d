CONSTANTS
  f = f
  g = g
  a = a
  m = m
  n = n
  i = i
  j = j
  u = u
  v = v
  q = q
  Functions = {f, g}
  AppNames = {a}
  Names = {m, n}
  Images = {i, j}
  Nets = {u, v}
  Groups = {q}
  Specs <- ManyShapes
  UserFns = {1}
  MaxApps = 1
  MaxFns = 4
  MaxEdits = 1
  MaxMishaps = 1
  MaxDisturbances = 1
SPECIFICATION Spec
INVARIANTS ReadyNamesItsFunction
PROPERTIES CreatedUnderFinalizer GoneWithObject DeletesOnlyOwn
CHECK_DEADLOCK FALSE
