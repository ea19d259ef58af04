CONSTANTS
  Writers = {t1, t2}
  Compactors = {c1}
  Batches <- OneBatch
  MaxTickets = 3
  MaxKeys = 1
  MaxRounds = 1
  MaxSamples = 1
  MaxCascade = 1
  WriteBufferSize = 0
  SmallBatch = 2
  MaxGroupSize = 4
  CompactionTrigger = 1
  SlowdownTrigger = 1
  StopTrigger = 2
  SeekCompaction = TRUE
  ForceDisable = FALSE
  EnvErrors = TRUE
SPECIFICATION Spec
SYMMETRY Symmetry
INVARIANTS ManualStaysRegistered
