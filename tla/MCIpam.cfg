CONSTANTS
  Holder = {h1, h2, h3}
  Subnet <- TwoSubnets
  NoLease = NoLease
  NoFile = NoFile
  Empty = Empty
  Torn = Torn
SYMMETRY Symmetry
SPECIFICATION Spec
INVARIANTS TypeOK UniqueUnlessMishap BitmapIsLeases
PROPERTIES RefusedOnlyWhenFull FailStop PoolUnlessMishap
