SPECIFICATION Spec
CONSTANTS
  MaxOutputs = 3
  BatchSize = 2
  Scans = {One, Two}
  Modes = {"full", "incremental", "single"}
  Local = Local
  MaxClears = 1
  MaxImports = 1
INVARIANTS TypeOK BackupGapless NeverBehind FullScanCovers IncrementalScanCovers
