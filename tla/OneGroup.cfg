SPECIFICATION ConvSpec
CONSTANTS
  Calls = {k1, k2}
  Direct = Direct
  MaxGroups = 2
  NoRow = NoRow
  MaxConvFaults = 1
CHECK_DEADLOCK FALSE
INVARIANTS OneGroupPerCommand
