CONSTANTS
  MaxWrites = 1
  MaxFile = 8
  Scenarios <- NewMachine
SPECIFICATION Spec
CHECK_DEADLOCK FALSE
INVARIANTS OpenSucceeds
