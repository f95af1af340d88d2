SPECIFICATION Spec
CONSTANTS
  a = a
  b = b
  Jobs <- TwoJobs
  Retention = 0
  MaxClock = 0
  MaxConcurrentJobs = 1
  FaultyOps <- NoFaults
PROPERTIES
  NoClaimWhileDraining
