SPECIFICATION PowerSpec
CONSTANTS
  f1 = f1
  f2 = f2
  NRows = 3
  Folder = {f1, f2}
  Target <- MCTarget
  BatchSize = 2
  Threshold = 2
  MaxRuns = 3
  MaxSaves = 6
  Faults = {"crash", "cancel", "stream", "corrupt", "database"}
INVARIANTS
  OneConversionPerRow
  WindowBounded
  CompletedMeansSettled
CONSTRAINT SavesBounded
CHECK_DEADLOCK TRUE
