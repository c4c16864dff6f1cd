SPECIFICATION AppFairSpec
CONSTANTS
  f1 = f1
  f2 = f2
  NRows = 2
  Folder = {f1}
  Target <- MCTarget
  BatchSize = 2
  Threshold = 2
  MaxRuns = 2
  MaxLaunches = 2
  MaxSaves = 99
  Faults = {"crash", "cancel", "stream", "store", "corrupt", "folder", "database"}
  AppFaults = {"checks", "delete", "remove", "session", "validation"}
PROPERTIES
  EveryLaunchEnds
CHECK_DEADLOCK TRUE
