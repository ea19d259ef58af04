CONSTANTS
  Writers = {t1}
  Compactors = {}
  Batches <- OneBatch
  MaxTickets = 3
  MaxKeys = 1
  MaxRounds = 1
  MaxSamples = 1
  MaxCascade = 1
  WriteBufferSize = 0
  SmallBatch = 2
  MaxGroupSize = 4
  CompactionTrigger = 1
  SlowdownTrigger = 1
  StopTrigger = 1
  SeekCompaction = FALSE
  ForceDisable = FALSE
  EnvErrors = FALSE
SPECIFICATION FairSpec
PROPERTIES BackgroundRests
