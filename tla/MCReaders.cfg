CONSTANTS
  Name = {a, b}
  Unnamed = Unnamed
  Pid = {i1, i2}
  Proc = {p1}
  MaxFaults = 1
  Absent = Absent
  Torn = Torn
  Free = Free
  Foreign = Foreign
  Idle = Idle
  Reader = {r1}
  Machine = Machine
SYMMETRY Symmetry
SPECIFICATION KSpec
INVARIANTS KTypeOK InsideIfLived ListFailsForAReason
PROPERTIES BrokenStays
