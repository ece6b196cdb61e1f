SPECIFICATION Spec
CONSTANTS
  Frames = {f, g}
  Operators = {o, p}
  Ids = {c, d}
  Inodes = {i1, i2, i3, i4, i5}
  None = none
  Console = {o, p}
  MaxCodes = 2
  MaxOwners = 2
  MaxFaults = 1
INVARIANTS TypeOK OneTenant FailuresKeepData
PROPERTIES ShownCodeClaims
SYMMETRY Symmetry
CHECK_DEADLOCK FALSE
