SPECIFICATION Spec
CONSTANTS
  f1 = f1
  f2 = f2
  NRows = 3
  Folder = {f1, f2}
  Target <- MCTarget
  BatchSize = 2
  Threshold = 3
  MaxRuns = 1
  MaxSaves = 99
  Faults = {"corrupt"}
INVARIANTS
  IntegrityRunStops
CHECK_DEADLOCK TRUE
