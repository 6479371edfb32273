CONSTANTS
  Name = {a}
  Unnamed = Unnamed
  Pid = {i1}
  Proc = {p1, p2}
  MaxFaults = 1
  Absent = Absent
  Torn = Torn
  Free = Free
  Foreign = Foreign
  Idle = Idle
  Addr = {1}
  MaxDeletes = 1
  None = None
SPECIFICATION FairSpec
PROPERTIES CommandsEnd LeavesNothing NoChildWaits
