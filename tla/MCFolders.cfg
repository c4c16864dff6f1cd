SPECIFICATION Spec
CONSTANTS
  Stem <- MCStem
  Shape <- MCShape
  Pattern <- MCPattern
  Path <- MCPath
  MaxDirs = 4
  Before <- MCBefore
  RootMessages <- MCRootMessages
  Blank = ""
  Underscore = "_"
  Clean <- MCClean
  Long = {"long1", "long2"}
  Prefix <- MCPrefix
  Hash <- MCHash
  SiblingBefore <- MCSiblingBefore
  MaxDepth = 3
INVARIANTS
  CaseVariantsMerge
  PositionKept
  TargetsDiffer
  TreeKept
  EveryDirPlanned
CHECK_DEADLOCK FALSE
