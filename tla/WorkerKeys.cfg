SPECIFICATION Spec
CONSTANTS
  Run = {r1, r2, r3}
  MaxCrashes = 1
SYMMETRY Symmetry
CHECK_DEADLOCK FALSE
INVARIANTS
  TypeOK
  KeysAreSound
  ProvisionedMatches
