SPECIFICATION AppSpec
CONSTANTS
  f1 = f1
  f2 = f2
  NRows = 2
  Folder = {f1}
  Target <- MCTarget
  BatchSize = 2
  Threshold = 2
  MaxRuns = 3
  MaxLaunches = 3
  MaxSaves = 4
  Faults = {"crash", "cancel", "stream", "corrupt", "delete", "entryid", "dbfolder"}
  AppFaults = {"checks", "delete", "remove", "foreign", "create", "session", "jobstatus", "validation"}
INVARIANTS
  AppTypeOK
  SuccessIsEarned
  CompletedJobHolds
  CancelIsClean
CONSTRAINT SavesBounded
CHECK_DEADLOCK TRUE
