SPECIFICATION FairSpec
CONSTANTS
  MaxOutputs = 3
  BatchSize = 1
  Scans = {One, Two}
  Modes = {"incremental"}
  Local = Local
  MaxClears = 1
  MaxImports = 0
PROPERTIES ScansEnd
