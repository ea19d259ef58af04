CONSTANTS
  MaxWrites = 2
  MaxFile = 8
  Scenarios <- TornReused
SPECIFICATION Spec
CHECK_DEADLOCK FALSE
INVARIANTS OpenServesAcked
