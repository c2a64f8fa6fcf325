CONSTANTS
  CHUNK_SIZE = 2
  USIZE_MAX = 31
  NoLimit = NoLimit
  StreamLen = 5
  Delimiters = {4}
  Amounts = {1, 3, 15}
  Targets = {1, 6}
  Limits = {3, 5, NoLimit}
SPECIFICATION Spec
INVARIANTS
  TypeOK
  StorageInvariant
  NoPanic
  BytesInOrder
  CountIsExact
  DelimiterVerdict
  LimitRespected
  CapacityAfterFill
  EofIsEnd
PROPERTIES
  FillsOnlyAppend
  SplitIsLossless
