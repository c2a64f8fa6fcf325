CONSTANTS
  CHUNK_SIZE = 2
  USIZE_MAX = 31
  NoLimit = NoLimit
  StreamLen = 5
  Delimiters = {4}
  Amounts = {1, 31}
  Targets = {1, 6}
  Limits = {3, NoLimit}
SPECIFICATION AnyConsume
PROPERTY
  ConsumeClamps
