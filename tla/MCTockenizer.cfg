SPECIFICATION Spec
CONSTANTS
  letter = letter
  semicolon = semicolon
  colon = colon
  NUL = NUL
  Chars = {letter, semicolon, colon, NUL}
  Addresses <- MCAddresses
  Last = 5
  Separators <- MCSeparators
  MaxSeparators = 1
  Memories <- MCMemories
  NULL = NULL
  Buffers <- MCBuffers
  WORD = 16
INVARIANTS
  TypeOK
  InBounds
  YieldsSplit
CHECK_DEADLOCK FALSE
