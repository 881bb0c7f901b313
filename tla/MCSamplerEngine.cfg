SPECIFICATION EngineFairSpec
CONSTANTS
  NumPasses = 2
  TriggersPerPass = 2
  StartPass = 1
  WarmupRotations = 1
  MaxRingRecords = 2
  MaxRotations = 5
INVARIANTS EngineTypeOK Windows SessionOutlivesWorker
PROPERTY CleanupReturns
CHECK_DEADLOCK FALSE
