SPECIFICATION Spec
CONSTANTS
  Process = {p1, p2}
  Key = {k1, k2}
  None = None
SYMMETRY Symmetry
CHECK_DEADLOCK FALSE
INVARIANTS
  PasswordIsGuarded
  PromptIsLastResort
  LinesAreWhole
PROPERTIES
  LoginRunsDown
