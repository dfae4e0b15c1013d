CONSTANTS
  o = o
  p = p
  x = x
  b = b
  u = u
  c = c
  d = d
  h = h
  r = r
  k = k
  m = m
  n = n
  j = j
  t = t
  Objects = {o, p}
  AppNames = {x, b}
  Nets = {u}
  Confs = {c, d}
  Groups = {h, r}
  LogNames = {k, m, n}
  Lines = {j, t}
  Specs <- TwoObjects
  UserApps <- TheirApp
  UserLogs <- TheirLogs
  MaxApps = 3
  MaxLogs = 5
  MaxEdits = 1
  MaxCreations = 1
  MaxMishaps = 1
  MaxMeddling = 1
  MaxDisturbances = 1
SPECIFICATION FairSpec
INVARIANTS ReadyHasLog
PROPERTIES NoSecondLog
           EventuallyLogged
CHECK_DEADLOCK FALSE
