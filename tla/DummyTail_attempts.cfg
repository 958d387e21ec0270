SPECIFICATION Spec
CONSTANTS
  WordRange = 64
  SplitMix64 <- MCSplitMix64
  WordXor <- MCWordXor
  ItemHashes <- MCItemHashes
  Sizes <- MCSizes
  SampleCaps = {0, 1, 2, 4, 64}
  Retries = 3
  Candidates = 2
  h2_seed1 = 19
  h2_seed2 = 44
INVARIANTS
  KeysDistinct
  RetryDiffers
  SampleCovers
PROPERTIES
  Returns
CHECK_DEADLOCK FALSE
