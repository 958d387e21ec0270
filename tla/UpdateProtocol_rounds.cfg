SPECIFICATION Spec
CONSTANTS
  a = a
  d = d
  e = e
  Items <- MCItems
  BucketCount = 2
  Hash <- MCHash
  Threads = 2
  PerThreadContext = TRUE
  MaxFaults = 1
  XSets <- MCXSets
  YSets <- MCYSets
  AddSets <- MCAddSets
  DelSets <- MCDelSets
  MaxCopies = 2
  YLists <- MCYLists
  DeltaLists <- MCDeltaLists
INVARIANTS
  TypeOK
  BucketsTrackSets
  CleanBucketsExact
  SuccessExact
  VerdictForeseen
  LoopsMatchClosedForms
PROPERTIES
  UnflaggedReused
  RoundsSpec
  CallsReturn
