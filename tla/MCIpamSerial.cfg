CONSTANTS
  Holder = {h1, h2, h3}
  Subnet <- TwoSubnets
  NoLease = NoLease
  NoFile = NoFile
  Empty = Empty
  Torn = Torn
SYMMETRY Symmetry
SPECIFICATION SerialSpec
INVARIANT NoDuplicate
PROPERTY ImplementsPool
