SPECIFICATION Spec
CONSTANTS
  Inputs <- Names
INVARIANTS
  EvenCharactersMasked
CHECK_DEADLOCK FALSE
