SPECIFICATION SpecCommand
CONSTANTS
  p = p
  q = q
  r = r
  None = None
  Unknown = unknown
  Profile = {p, q, r}
  Configs <- MCConfigs
  Commands <- MCCommands
CHECK_DEADLOCK FALSE
INVARIANTS
  NearestWins
  
PROPERTIES
  StoredPasswordStops
