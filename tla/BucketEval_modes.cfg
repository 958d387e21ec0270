SPECIFICATION Spec
CONSTANTS
  a = a
  d = d
  e = e
  f = f
  g = g
  h = h
  Items <- MCItems
  XBuckets <- MCXBuckets
  YBuckets <- MCYBuckets
  Configs <- MCConfigs
  SizeRange <- MCSizeRange
INVARIANTS
  BridgeSound
  CheckedTrueIsExact
  DuplicateNeverTrue
  GivesUpLast
  EncodeFits
PROPERTIES
  ServiceSpec
