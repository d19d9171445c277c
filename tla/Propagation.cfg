SPECIFICATION Spec
CONSTANTS
  k1 = k1
  k2 = k2
  k3 = k3
  Keys <- MCKeys
  Shard <- MCShard
  NumShards = 2
  Workloads <- MCWorkloads
  Bounds <- MCBounds
  DurationHalf = 64
  Start = 3
  MaxInt = 20
  MsPerSec = 2
  MaxExpireMillis = 512
  MaxStringLength = 8
  HashMaxListpackEntries = 2
  HashMaxListpackValue = 2
  MaxRandCount = 3
  ListMaxListpackSize = 2
  ListBudget = 8
  ListMaxListpackValue = 2
  SetMaxIntsetEntries = 2
  SetMaxListpackEntries = 3
  SetMaxListpackValue = 2
  ZsetMaxListpackEntries = 2
  ZsetMaxListpackValue = 2
  BlockBytes = 4
  WordBytes = 2
  MaxBitOffset = 40
  HllRegisters = 2
  HllHash <- MCHllHash
INVARIANTS ReplicaAgrees ContainersWellFormed ScanComplete
PROPERTIES RepliesTrue UpdatesConserve 
CHECK_DEADLOCK FALSE
