SPECIFICATION InitialSpec
CONSTANTS
  a = a
  d = d
  e = e
  Items <- MCItems
  BucketCount = 3
  Hash <- MCHash
  Threads = 2
  PerThreadContext = FALSE
  MaxFaults = 0
  XSets <- MCXSets
  YSets <- MCYSets
INVARIANTS
  ContextLive
