SPECIFICATION Spec
CONSTANTS
  Files <- NumberedFiles
  Chars <- Numbers
  Eof = 0
  Junk = 99
  Size = 4
  MaxPeek = 2
  MaxPast = 2
INVARIANT TypeOK
PROPERTY ImplementsStream
CHECK_DEADLOCK FALSE
