CONSTANTS
  Writers = {t1, t2}
  Compactors = {}
  Batches <- OneBatch
  MaxTickets = 4
  MaxKeys = 1
  MaxRounds = 0
  MaxSamples = 0
  MaxCascade = 0
  WriteBufferSize = 0
  SmallBatch = 2
  MaxGroupSize = 4
  CompactionTrigger = 1
  SlowdownTrigger = 1
  StopTrigger = 2
  SeekCompaction = TRUE
  ForceDisable = FALSE
  EnvErrors = TRUE
SPECIFICATION Spec
SYMMETRY Symmetry
INVARIANTS PathInvariant AckedIsReadable LogIsSequenced LevelZeroBounded
PROPERTY ReadableStays
