CONSTANTS
  Name = {n1}
  Container = {c1, c2}
  Proc = {p1, p2}
  Port = {h1, h2}
  Subnet <- OneSubnet
  PortMappings <- AllPorts
  MaxRules = 2
  MaxFaults = 1
  Absent = Absent
  Empty = Empty
  Torn = Torn
  NoLease = NoLease
  NoBridge = NoBridge
  NoEndpoint = NoEndpoint
  Nobody = Nobody
  Idle = Idle
SYMMETRY Symmetry
SPECIFICATION Spec
INVARIANTS TypeOK SavedNetworkIsUp ConnectedIsReachable AddressesAccounted
PROPERTY HalfDeletedIsFinal
CHECK_DEADLOCK FALSE
CONSTRAINT Bound
