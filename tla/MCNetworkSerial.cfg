CONSTANTS
  Name = {n1, n2}
  Container = {c1, c2}
  Proc = {p1, p2}
  Port = {h1, h2}
  Subnet <- TwoSubnets
  PortMappings <- AllPorts
  MaxRules = 2
  MaxFaults = 0
  Absent = Absent
  Empty = Empty
  Torn = Torn
  NoLease = NoLease
  NoBridge = NoBridge
  NoEndpoint = NoEndpoint
  Nobody = Nobody
  Idle = Idle
SYMMETRY Symmetry
SPECIFICATION SerialSpec
INVARIANT CleanWhenIdle
