CONSTANTS
  MaxVersion = 4
  Pre = {3, 4}
  NoPlan = NoPlan
SPECIFICATION Spec
PROPERTY UpdateLands
CHECK_DEADLOCK FALSE
