CONSTANTS
  CHUNK_SIZE = 1
  USIZE_MAX = 15
  NoLimit = NoLimit
  StreamLen = 2
  Delimiters = {2}
  DEFAULT_MAX_CAPACITY = 2
  I64_MIN <- MCI64Min
  MAX_POSITION = 2
  Settings = {1, NoLimit}
  Requests = {1, 3}
  Positions = {0}
  Offsets <- MCOffsets
SPECIFICATION FairSpec
PROPERTY
  CallsReturn
