SPECIFICATION Spec
CONSTANTS
  Workers = {"worker"}
  MaxRecords = 1
  MaxDisplays = 1
  SignalsInLock = FALSE
CHECK_DEADLOCK FALSE
INVARIANTS
  TypeOK
  PrintComesAfter
  HiddenWhenDue
  ExitsClean
PROPERTIES
  FlushReturns
  
