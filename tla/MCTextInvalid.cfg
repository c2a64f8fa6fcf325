CONSTANTS
  CHUNK_SIZE = 2
  USIZE_MAX = 15
  NoLimit = NoLimit
  StreamLen = 4
  Delimiters = {}
  Amounts = {1}
  Targets = {1}
  Limits = {NoLimit}
  Contents <- MCContents
  Needles <- MCNeedles
  NeedleChars = {97}
SPECIFICATION TextSpec
INVARIANT
  NonTextIsReported
