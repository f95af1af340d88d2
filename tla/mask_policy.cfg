SPECIFICATION Spec
CONSTANTS
  Inputs <- ShortInputs
INVARIANTS
  RuneAligned
  NeverTheOriginal
  SpansAreTheHidden
  
CHECK_DEADLOCK FALSE
