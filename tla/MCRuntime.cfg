CONSTANTS
  Name = {a, b}
  Unnamed = Unnamed
  Pid = {i1, i2}
  Proc = {p1, p2}
  MaxFaults = 0
  Absent = Absent
  Torn = Torn
  Free = Free
  Foreign = Foreign
  Idle = Idle
  Addr = {1, 2}
  MaxDeletes = 1
  None = None
CONSTRAINT Bound
SYMMETRY Symmetry
SPECIFICATION RSpec
INVARIANTS RTypeOK AddressIsOwn AddressesAccounted
PROPERTIES RecordOutlivesAddress StuckWithoutNetwork
