SPECIFICATION Spec
CONSTANTS
  ByteMod = 16
  RamBase = 64
INVARIANTS TypeOK ProgramRestored ProgramKept
CHECK_DEADLOCK FALSE
