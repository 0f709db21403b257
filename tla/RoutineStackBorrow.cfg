SPECIFICATION Spec
CONSTANTS
  ByteMod = 16
  RamBase = 64
INVARIANT SizeSubtracted
CHECK_DEADLOCK FALSE
