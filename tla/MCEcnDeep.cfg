SPECIFICATION EcnSpec
CONSTANTS
  K_MIN = 1250
  K_MAX = 3000
  SEED_K_MAX = 51
  SEED_RANGE_MAX = 256
  QDEPTH_MAX = 524288
  Depths <- MCDepths
  Randoms <- MCRandoms
  Sums <- MCSums
INVARIANT FullQueueMarks
