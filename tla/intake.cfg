SPECIFICATION MCSpec
CONSTANTS
  MaxInt = 63
  Mebibyte = 8
  Unit = 6
  Headroom = 3
  DefaultSize = 2
  DefaultPages = 2
  DefaultTime = 2
INVARIANTS
  
  AcceptedIsWhole
  TooLargeIsTooLarge
  AcceptedStaysAcceptable
