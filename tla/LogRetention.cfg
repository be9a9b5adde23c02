SPECIFICATION SpecRetention
CONSTANTS
  Run = {o1, o2, r1, r2, r3}
  Past = {o1, o2}
  KeepLogs = 2
  MaxWrites = 6
SYMMETRY Symmetry
CHECK_DEADLOCK FALSE
PROPERTIES
  KeepsFew
  OutlivedByMany
