SPECIFICATION MCSpec
CONSTANTS
  ssn = ssn
  note = note
  ours = ours
  theirs = theirs
  Fields <- BothFields
  Supported <- OnlySsn
  MaxPages = 2
  Hosts <- TwoHosts
  Ports <- OnePort
  MaxRedirects = 1
  MaxBody = 1
  MaxItems = 1
  MaxBoxes = 2
INVARIANTS
  EveryBoxWasRead
CHECK_DEADLOCK FALSE
