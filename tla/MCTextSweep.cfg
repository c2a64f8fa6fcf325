CONSTANTS
  Chars = {97, 233, 19990, 55295, 128512}
  MaxChars = 3
SPECIFICATION SweepSpec
INVARIANTS
  WholeCharacters
  AlignsBackward
  AlignsForward
CHECK_DEADLOCK FALSE
