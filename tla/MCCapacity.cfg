\* An 8-bit usize with chunks of 8: 15 chunks, as the real ratio 2^k - 1.
CONSTANTS
  CHUNK_SIZE = 8
  USIZE_MAX = 255
SPECIFICATION Spec
INVARIANTS
  LinearRounding
  ExponentialRounding
  DownwardRounding
  GrowthMakesRoom
CHECK_DEADLOCK FALSE
