SPECIFICATION Spec
INVARIANTS
  CleanupCovers
  CleanupOrdered
PROPERTIES
  LossIsBlamed
  KeepsPromise
  
