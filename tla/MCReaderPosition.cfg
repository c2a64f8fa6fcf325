CONSTANTS
  CHUNK_SIZE = 1
  USIZE_MAX = 15
  NoLimit = NoLimit
  StreamLen = 3
  Delimiters = {3}
  DEFAULT_MAX_CAPACITY = 2
  I64_MIN <- MCI64Min
  MAX_POSITION = 4
  Settings = {1, 3, NoLimit}
  Requests = {1, 3}
  Positions = {4}
  Offsets <- MCOffsets
SPECIFICATION AloneSpec
INVARIANT
  StreamPositionIsLogical
