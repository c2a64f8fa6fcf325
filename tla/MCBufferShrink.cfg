CONSTANTS
  CHUNK_SIZE = 2
  USIZE_MAX = 31
  NoLimit = NoLimit
  StreamLen = 5
  Delimiters = {4}
  Amounts = {1, 3}
  Targets = {1, 6}
  Limits = {3, NoLimit}
SPECIFICATION AnyShrink
INVARIANT
  CapacityIsStorage
