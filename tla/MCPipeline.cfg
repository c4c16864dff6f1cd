SPECIFICATION Spec
CONSTANTS
  f1 = f1
  f2 = f2
  NRows = 2
  Folder = {f1, f2}
  Target <- MCTarget
  BatchSize = 2
  Threshold = 2
  MaxRuns = 2
  MaxSaves = 3
  Faults = {"crash", "cancel", "source", "folder", "stream", "conversion", "store", "corrupt", "entryid", "delete", "index", "dbwrite", "database"}
INVARIANTS
  TypeOK
  RecordedIsSaved
PROPERTIES
  SettledRowsAreFinal
  SettledRowsAreLeftAlone
  KeepsLedger
CONSTRAINT SavesBounded
CHECK_DEADLOCK TRUE
