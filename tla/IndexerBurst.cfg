SPECIFICATION Spec
CONSTANTS
  MaxTx = 2
  Kinds = {"transact"}
  Worker = Worker
  ApiCallers = {Api}
  DiscoveryLimits = {1}
  ProcessingLimits = {1}
  Tables = {"outputs"}
  MaxAttempts = 2
  FaultPoints = {}
  MaxFaults = 0
  MaxCrashes = 0
  MaxShutdowns = 0
INVARIANT OutputsContiguous
