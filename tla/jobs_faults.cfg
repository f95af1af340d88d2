SPECIFICATION Spec
CONSTANTS
  a = a
  b = b
  Jobs <- TwoJobs
  Retention = 1
  MaxClock = 2
  MaxConcurrentJobs = 1
  FaultyOps <- AllFaults
INVARIANTS
  RunnerOwnsLiveJob
  
  CreationTimeKept
  DrainedIsSettled
  DocumentsBounded
PROPERTIES
  NoResurrection
  
  DeadlineKept
  ImplementsLedger
SYMMETRY Symmetry
