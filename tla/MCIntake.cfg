SPECIFICATION Spec
CONSTANTS
  Node <- MCNode
  Root <- MCRoot
  Parent <- MCParent
  Above <- MCAbove
  Depth <- MCDepth
  Kind <- MCKind
  Tagged <- MCTagged
  Before <- MCBefore
  MaxDepth = 2
  Faults = {"root", "open", "denied", "stat", "probe", "size", "next", "throw"}
  Bytes <- MCBytes
  Disks <- MCDisks
  Versions = {0, 1}
  Settings = {"s", "t"}
  Free = {92, 200}
  GiB = 2
  Word = 4096
  MaxLaunches = 2
INVARIANTS
  IntakeTypeOK
  MailAccounted
  NothingTwice
  NothingBehindLinks
  AcceptedFits
  ResumedJobIsSame
  OrderNeverRejects
  AcceptedIsComplete
CHECK_DEADLOCK FALSE
