SPECIFICATION Spec
CONSTANTS
  MaxOutputs = 3
  BatchSize = 1
  Scans = {One, Two}
  Modes = {"incremental"}
  Local = Local
  MaxClears = 0
  MaxImports = 0
PROPERTIES SyncPreserves
