SPECIFICATION FairSpec
CONSTANTS
  a = a
  b = b
  c = c
  d = d
  e = e
  f = f
  z = z
  z2 = z2
  None = None
  Tags <- MCTags
  Configs <- MCConfigs
  Defaults <- MCDefaults
CHECK_DEADLOCK FALSE
INVARIANTS
  Coherent
PROPERTIES
  LatestLoaded
