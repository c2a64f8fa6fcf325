CONSTANTS
  CHUNK_SIZE = 2
  USIZE_MAX = 15
  NoLimit = NoLimit
  StreamLen = 14
  Delimiters = {1, 3, 7, 8, 13}
  DEFAULT_MAX_CAPACITY = 4
  I64_MIN <- MCI64Min
  MAX_POSITION = 14
  Settings = {NoLimit}
  Requests = {}
  Positions = {}
  Offsets = {}
  RECORD_CAPACITY = 4
SPECIFICATION RecordsSpec
PROPERTY
  SplitsItsInput
  KeepsGoing
CHECK_DEADLOCK FALSE
