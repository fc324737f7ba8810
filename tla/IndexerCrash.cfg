SPECIFICATION FairSpec
CONSTANTS
  MaxTx = 2
  Kinds = {"transact"}
  Worker = Worker
  ApiCallers = {Api}
  DiscoveryLimits = {2}
  ProcessingLimits = {1}
  Tables = {"outputs"}
  MaxAttempts = 2
  FaultPoints = {}
  MaxFaults = 0
  MaxCrashes = 1
  MaxShutdowns = 0
PROPERTY EventuallySettled
