SPECIFICATION FairSpec
CONSTANTS
  Requests = {r1, r2}
  RequestFees <- LowFees
  BaseFees = {1, 2}
  MinPriority = 1
  MaxMaxFee = 2
  RetryFactor = 200
  Timeout = 1
  PruneBlocks = 1
  PruneSeconds = 1
  MaxLag = 1
  FaultKinds = {"loss", "drop", "move", "drain", "crash"}
  MaxFaults = 1
INVARIANTS  BoostFindsOldest
PROPERTIES   IsOutbox
CHECK_DEADLOCK FALSE
