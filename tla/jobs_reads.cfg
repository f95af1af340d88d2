SPECIFICATION ReadsSpec
CONSTANTS
  a = a
  b = b
  Jobs <- OneJob
  Retention = 1
  MaxClock = 2
  MaxConcurrentJobs = 1
  FaultyOps <- RecordFaults
  DefaultHistoryLimit = 1
  MaxHistoryLimit = 2
INVARIANTS
  NoUnreachableUpload
  ServedIsWhole
PROPERTIES
  
  ExpiredIsDeleted
  StalledClientHoldsNothing
