SPECIFICATION ReadsSpec
CONSTANTS
  a = a
  b = b
  Jobs <- TwoJobs
  Retention = 0
  MaxClock = 1
  MaxConcurrentJobs = 1
  FaultyOps <- NoFaults
  DefaultHistoryLimit = 1
  MaxHistoryLimit = 2
INVARIANTS
  HistoryByAcceptance
