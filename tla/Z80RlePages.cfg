SPECIFICATION Spec
CONSTANTS
  MaxByte = 3
  ED = 3
  Versions = {2}
  MaxFiles = 1
  MaxPages = 2
  MaxLen = 2
PROPERTY PageIsWritten
CHECK_DEADLOCK FALSE
