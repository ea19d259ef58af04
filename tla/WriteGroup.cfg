CONSTANTS
  Writers = {t1, t2, t3}
  Compactors = {}
  Batches <- SmallAndLarge
  MaxTickets = 3
  MaxKeys = 1
  MaxRounds = 0
  MaxSamples = 0
  MaxCascade = 1
  WriteBufferSize = 1
  SmallBatch = 2
  MaxGroupSize = 4
  CompactionTrigger = 1
  SlowdownTrigger = 1
  StopTrigger = 2
  SeekCompaction = TRUE
  ForceDisable = FALSE
  EnvErrors = FALSE
SPECIFICATION Spec
SYMMETRY Symmetry
INVARIANTS LoggerIsFront AckedSyncIsSynced PublishedIsReadable MemMatchesLog
