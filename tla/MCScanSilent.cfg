SPECIFICATION Spec
CONSTANTS
  Node <- MCNode
  Root <- MCRoot
  Parent <- MCParent
  Above <- MCAbove
  Depth <- MCDepth
  Kind <- MCKind
  Tagged <- MCTagged
  Before <- MCBefore
  MaxDepth = 2
  Faults = {"denied"}
  Bytes <- MCBytes
  Disks <- MCDisks
  Versions = {0, 1}
  Settings = {"s"}
  Free = {92, 200}
  GiB = 2
  Word = 4096
  MaxLaunches = 1
INVARIANTS
  ProblemsRecorded
CHECK_DEADLOCK FALSE
