SPECIFICATION Spec
CONSTANTS
  Wide = 256
  CRT_COLS = 3
  CRT_ROWS = 3
  BUFLEN = 5
  MAXARGS = 3
  PrintBuf = 5
  Inputs <- MCInputs
INVARIANTS
  StringsRight
  MovesCopy
  TextIsFormatted
  CommandsArrive
CHECK_DEADLOCK FALSE
