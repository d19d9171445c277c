CONSTANTS
  Callers = {"c1", "c2"}
  Scripts = {"short", "endless", "flush", "broken"}
  VMs = {1, 2}
  maxPooledVMs = 1
  Clients = {"c1", "c2"}
  Cron = "cron"
  NumKeys = 3
  ShardOf <- Shards
  MaxSize = 2
  maxMemory = 1
  MaxOps = 3
  Policies = {"noeviction", "allkeys", "volatile"}
  Mixes <- NamedMixes
  MixNames = {"three", "writes", "expiry", "flush"}
  Components = {"eviction", "scripting"}
SPECIFICATION MCSpec
INVARIANTS UsedIsSum MemoryBounded PoolClean
PROPERTIES EvictionEnds ScriptsEnd
