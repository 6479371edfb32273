CONSTANTS
  Dir = {h1, h2}
  Deep = {h2}
  Target <- MCTarget
  MaxVolumes = 3
  MaxFaults = 1
  Invalid = Invalid
SPECIFICATION Spec
INVARIANTS TypeOK VolumesKept NothingStaysMounted FindsItsVolumes
CHECK_DEADLOCK FALSE
