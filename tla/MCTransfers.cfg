SPECIFICATION Spec

CONSTANTS
  d1 = d1
  d2 = d2
  i1 = i1
  i2 = i2
  Deliverers = {d1, d2}
  Storers = {i1, i2}
  Jobs <- MCJobs
  a = a
  b = b
  Sources = {a, b}
  MaxTasks = 3

SYMMETRY Symmetry

INVARIANTS
  TransfersInv
  ObjectsOwn
  DropsOwn
  HotWhole

CHECK_DEADLOCK FALSE
