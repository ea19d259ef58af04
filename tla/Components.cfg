INIT mcInit
NEXT mcNext
CONSTANTS
  Keys = {1, 2, 3}
  NumLevels = 3
  GrandParentLimit = 1
  ExpandLimit = 4
  ManualLimit = 2
  Modes <- mcModes
  PoolThreads = {1, 2, 3}
  PoolTags = {1, 2}
  MaxJobs = 2
  MaxPoolCalls = 3
  LruKeys = {1, 2}
  LruHandles = {1, 2, 3}
  LruCharges = {1, 2}
  LruCapacities = {0, 3}
  MaxClients = 2
  SkipKeys = {2, 3, 4}
  MaxHeight = 2
  MaxReads = 2
  BlockSize = 16
  Align = 4
  AllocSizes = {1, 3, 4, 5}
  MaxAllocs = 5
  BloomBits <- mcBloomBits
  BloomKeys = {1, 2, 3}
  BloomHashOf <- mcHashOf
  HashWidth = 8
  HashTurn = 3
  FilterBase = 4
  RegionFilters = 2
  BlockSizes = {2, 5, 9}
  MaxBlocks = 2
  MaxBlockKeys = 2
  EnvReaders = {1, 2}
  EnvBuffers = 2
  EnvFds = 1
  EnvPage = 4
  EnvRequests <- mcEnvRequests
  MaxEnvReads = 3
  MaxEnvItems = 3
  LockProcs = {1, 2}
  LockThreads = {1, 2}
  MaxLockCalls = 4
  MemNames = {1, 2}
  MemHandles = {1, 2}
  MemBlock = 3
  MemAppends = {2, 4}
  MaxMemFiles = 2
  MaxMemBytes = 8
  SepKeys = {1, 2}
  SepSizes = {1, 2}
  SepHeader = 2
  MaxSepPuts = 3
  MaxSepCrashes = 2
  IterKeys = {1, 2, 3}
  IterSeqs = {1, 2, 3}
  IterSources = {1, 2}
  TableKeys <- mcTableKeys
  MaxByte = 3
  RestartInterval = 2
  TableBlockSize = 22
  SuccessorFrom = 1
  FilterBaseLg = 3
  RegionSize = 16
  MaxTableKeys = 6
  VarintBase = 4
  VarintMax = 3
  CodecLevels = 2
  CodecNumbers = {63}
  CodecSlices <- mcCodecSlices
  MaxCodecOps = 3
  LogBlock = 9
  LogHeader = 3
  LogLengths = {0, 2, 4, 11}
  NumberMax = 127
  NameWidth = 2
  RepairContents <- mcRepairContents
  MaxRepairs = 2
  MaxRepairCrashes = 1
  MaxRepairFaults = 1
  Files = {1, 2}
  NumRegions = 2
  Readers = {"r1", "r2"}
  Compactor = "bg"
  Bits <- mcFilterBits
  InitFilters = 2
  Garbage = {0, 5}
  Width = 8
  Options <- mcOptions
  RedisItems <- mcRedisItems
  MaxRedisItems = 2
  ReaderDepth = 3
  ReaderDiscard = 6
  AsyncTargets <- mcAsyncTargets
  MaxAsyncCommands = 3
  MaxMessages = 1
  MaxEmptyReads = 0
  DictInitial = 1
  SyncAddresses = 2
  ConnectRetries = 2
  MaxSyncCommands = 2
  MaxConnects = 2
  SdsPieces <- mcSdsPieces
  SdsPrealloc = 6
  MaxSdsOps = 3
  YcsbThreads = {1, 2}
  YcsbConfigs <- mcYcsbConfigs
INVARIANTS
   SmallerLevelIsNewer 
  PoolServesQueue LruMatchesClients MemTableServesReaders NoFalseNegatives 
  OneHolderPerProcess  IndexFindsValue IteratorShowsSnapshot TableReadsBack
  EncodingsReadBack RepairLosesNothing 
  RepliesSurviveChunks  RepliesAnswerInOrder SdsHoldsString 
CHECK_DEADLOCK FALSE
