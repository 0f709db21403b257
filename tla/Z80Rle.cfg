SPECIFICATION Spec
CONSTANTS
  MaxByte = 3
  ED = 3
  Versions = {1, 2}
  MaxFiles = 2
  MaxPages = 2
  MaxLen = 5
INVARIANTS TypeOK NothingLost EndTagFound
PROPERTY CarriesOnlyHeld
CHECK_DEADLOCK FALSE
