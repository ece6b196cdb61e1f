SPECIFICATION Spec
CONSTANTS
  Frames = {f, g}
  Operators = {o, p}
  Ids = {c, d}
  Inodes = {i1, i2, i3, i4, i5}
  None = none
  Console = {}
  MaxCodes = 2
  MaxOwners = 2
  MaxFaults = 1
PROPERTIES NothingCarriedOver
SYMMETRY Symmetry
CHECK_DEADLOCK FALSE
