SPECIFICATION MCSpec
CONSTANTS
  ssn = ssn
  note = note
  ours = ours
  theirs = theirs
  Fields <- BothFields
  Supported <- OnlySsn
  MaxPages = 2
  Hosts <- TwoHosts
  Ports <- OnePort
  MaxRedirects = 5
  MaxBody = 1
  MaxItems = 2
  MaxBoxes = 2
INVARIANTS
  
  UntouchedMeansNothingReported
  BlameFits
  UsableAnswerIsUsed
  AllowedHostsOnly
  NeverInTheClear
PROPERTIES
  ImplementsPipeline
CHECK_DEADLOCK FALSE
