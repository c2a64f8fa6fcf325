CONSTANTS
  CHUNK_SIZE = 2
  USIZE_MAX = 15
  NoLimit = NoLimit
  StreamLen = 4
  Delimiters = {}
  Amounts = {1}
  Targets = {1}
  Limits = {2, NoLimit}
  Contents <- MCContents
  Needles <- MCNeedles
  NeedleChars = {97, 233, 128512}
SPECIFICATION TextSpec
INVARIANTS
  TextTypeOK
  SearchVerdict
PROPERTIES
  RejectsOnlyNonText
  FillsLikeBuffer
