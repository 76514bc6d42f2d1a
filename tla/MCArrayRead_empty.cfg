SPECIFICATION Spec
CONSTANTS
  Reads <- MCReads
  MaxShape = 2
  MaxChunk = 2
  Fill = Fill
  Pad = Pad
  Undefined = Undefined
INVARIANT EmptyReadAsksNothing
CHECK_DEADLOCK FALSE
