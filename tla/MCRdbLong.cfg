CONSTANTS
  Low = 6
  Databases <- MCLong
SPECIFICATION RdbSpec
INVARIANT LoadedIsRead
CHECK_DEADLOCK FALSE
