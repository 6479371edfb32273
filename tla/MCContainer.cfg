CONSTANTS
  Name = {a, unnamed}
  Unnamed = unnamed
  Pid = {i1, i2}
  Proc = {p1, p2}
  MaxFaults = 1
  Absent = Absent
  Torn = Torn
  Free = Free
  Foreign = Foreign
  Idle = Idle
SYMMETRY Symmetry
SPECIFICATION Spec
INVARIANTS TypeOK RunningIsWhole NoOrphanWorkspace
CONSTRAINT Bound
