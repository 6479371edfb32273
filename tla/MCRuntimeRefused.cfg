CONSTANTS
  Name = {a, b}
  Unnamed = Unnamed
  Pid = {i1, i2}
  Proc = {p1, p2}
  MaxFaults = 0
  Absent = Absent
  Torn = Torn
  Free = Free
  Foreign = Foreign
  Idle = Idle
  Addr = {1, 2}
  MaxDeletes = 0
  None = None
SYMMETRY Symmetry
SPECIFICATION RSpec
INVARIANTS ConnectedUntilStopped
