SPECIFICATION Spec
CONSTANTS
  f1 = f1
  f2 = f2
  NRows = 1
  Folder = {f1, f2}
  Target <- MCTarget
  BatchSize = 2
  Threshold = 10
  MaxRuns = 2
  MaxSaves = 99
  Faults = {"crash", "conversion"}
INVARIANTS
  RecoveryClosesCrashWindow
CHECK_DEADLOCK TRUE
