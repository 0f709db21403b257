SPECIFICATION Spec
CONSTANTS
  Keys <- MCKeys
  MaxHeld = 3
  Habits = {}
INVARIANTS TypeOK NoGhostKey ModifiersFollowKeys
