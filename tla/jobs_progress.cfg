SPECIFICATION FairSpec
CONSTANTS
  a = a
  b = b
  Jobs <- TwoJobs
  Retention = 1
  MaxClock = 0
  MaxConcurrentJobs = 1
  FaultyOps <- RecordFaults
PROPERTIES
  AcceptedSettles
  StopEnds
