CONSTANTS
  Low = 6
  Databases <- MCShort
SPECIFICATION RdbSpec
INVARIANTS LoadedIsRead CutIsRefused
PROPERTY ParserEnds
CHECK_DEADLOCK FALSE
