CONSTANTS
  f = f
  g = g
  a = a
  m = m
  n = n
  i = i
  j = j
  u = u
  v = v
  q = q
  Functions = {f}
  AppNames = {a}
  Names = {m, n}
  Images = {i, j}
  Nets = {u, v}
  Groups = {q}
  Specs <- Switching
  UserFns = {1}
  MaxApps = 1
  MaxFns = 2
  MaxEdits = 1
  MaxMishaps = 0
  MaxDisturbances = 1
SPECIFICATION Spec
PROPERTIES UsersFnsKept
CHECK_DEADLOCK FALSE
