CONSTANTS
  CHUNK_SIZE = 4
  USIZE_MAX = 31
  NoLimit = NoLimit
  StreamLen = 9
  Delimiters = {2, 5}
  DEFAULT_MAX_CAPACITY = 8
  I64_MIN <- MCI64Min
  MAX_POSITION = 9
  Settings = {NoLimit}
  Requests = {}
  Positions = {}
  Offsets = {}
  PayloadLens = {0, 1, 2, 3}
  CopyLens = {1, 5}
SPECIFICATION ExamplesSpec
INVARIANTS
  FramesIntact
  VerdictIsRight
  HeaderThenBody
  RefusesOnlyLong
PROPERTY
  Returns
CHECK_DEADLOCK FALSE
