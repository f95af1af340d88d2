SPECIFICATION Spec
CONSTANTS
  Unit = 16
  Boxes <- GridBoxes
  Sizes <- GridSizes
  ApiSizes <- GridApiSizes
  Length = 2
  Spans <- HalfSpans
INVARIANTS
  HiddenIsCovered
  DrawnShows
  UsableBoxIsDrawn
  
CHECK_DEADLOCK FALSE
