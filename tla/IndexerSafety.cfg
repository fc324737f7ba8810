SPECIFICATION Spec
CONSTANTS
  MaxTx = 2
  Kinds = {"transact", "malformed"}
  Worker = Worker
  ApiCallers = {Api}
  DiscoveryLimits = {1}
  ProcessingLimits = {2}
  Tables = {"outputs", "nullifiers"}
  MaxAttempts = 2
  FaultPoints = {"findState", "getSignatures", "insertSignatures", "upsertState", "claim", "getTransaction", "insertRows", "markDone", "markFailed"}
  MaxFaults = 1
  MaxCrashes = 1
  MaxShutdowns = 0
INVARIANTS TypeOK ClaimExclusive DoneIsIndexed NothingPremature AttemptsAccounted WatermarkCovered
PROPERTY SettledStays
