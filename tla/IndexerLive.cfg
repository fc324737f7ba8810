SPECIFICATION FairSpec
CONSTANTS
  MaxTx = 2
  Kinds = {"transact", "failed"}
  Worker = Worker
  ApiCallers = {Api}
  DiscoveryLimits = {2}
  ProcessingLimits = {1}
  Tables = {"outputs", "roots", "nullifiers"}
  MaxAttempts = 2
  FaultPoints = {"insertSignatures", "getTransaction"}
  MaxFaults = 1
  MaxCrashes = 0
  MaxShutdowns = 1
INVARIANTS ClaimsAreHeld OutputsContiguous
PROPERTY EventuallySettled
