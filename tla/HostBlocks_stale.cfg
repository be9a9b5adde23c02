SPECIFICATION Spec
CONSTANTS
  a = a
  b = b
  t1 = t1
  t2 = t2
  t3 = t3
  d = d
  None = None
  Alias = {a, b}
  Tunnel = {t1, t2, t3}
  Doctor = {d}
  AliasOf <- MCAliasOf
  SlowThreads = FALSE
SYMMETRY Symmetry
CHECK_DEADLOCK FALSE
PROPERTY NextStartRemovesStale
