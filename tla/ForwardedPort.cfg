SPECIFICATION SpecPort
CONSTANT Conn = {c1, c2, c3}
CHECK_DEADLOCK FALSE
INVARIANTS
  PortIsSound
PROPERTIES
  LoginEndsConnections
