SPECIFICATION CBFairSpec
CONSTANTS
  Caller = {c1, c2}
  failureThreshold = 3
  successThreshold = 2
  openTimeout = 5
INVARIANTS
  CBTypeOK
  
PROPERTIES
  ClosedByProbes
  Retried
