SPECIFICATION Spec
CONSTANTS
  Capacity = 2
  MaxRecords = 4
  MaxFiles = 2
CHECK_DEADLOCK FALSE
INVARIANTS
  TypeOK
  TerminalIsRight
  FilesAreRight
