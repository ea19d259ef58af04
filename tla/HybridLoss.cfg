CONSTANTS
  MaxWrites = 2
  MaxFile = 8
  Scenarios <- OnlyMachine
SPECIFICATION Spec
CHECK_DEADLOCK FALSE
INVARIANTS SyncCoversEarlier
