SPECIFICATION WireSpec
CONSTANTS
  MaxWire = 2
  Unstored = Unstored
INVARIANTS NonOperationalStartsNothing
CHECK_DEADLOCK FALSE
