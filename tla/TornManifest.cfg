CONSTANTS
  MaxWrites = 2
  MaxFile = 10
  Scenarios <- CutEdit
SPECIFICATION Spec
CHECK_DEADLOCK FALSE
INVARIANTS OpenSucceeds
