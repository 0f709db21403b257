SPECIFICATION Spec
CONSTANTS
  Keys <- MCKeys
  MaxHeld = 3
  Habits = {"repeat"}
PROPERTY ShiftGoesWithKey
