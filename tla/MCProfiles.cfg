SPECIFICATION Spec
CONSTANTS
  w1 = w1
  w2 = w2
  p1 = p1
  p2 = p2
  p3 = p3
  p4 = p4
  Workers = {w1, w2}
  Profiles = {p1, p2, p3, p4}
  NoProfile = NoProfile
  MaxLaunches = 4
  Faults = {"crash", "create", "configure", "logon", "work", "remove", "destroy", "list", "sweep"}
SYMMETRY Symmetry
INVARIANTS
  TypeOK
  LeftoversAreAbandoned
  SweptBeforeConverting
CHECK_DEADLOCK FALSE
