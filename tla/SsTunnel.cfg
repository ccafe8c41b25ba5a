CONSTANTS
  MaxUnits = 3
  MaxTotal = 6
  HeaderUnits = 1
  FreshTakes = {"all"}
SPECIFICATION Spec
INVARIANTS NothingLost InOrder
PROPERTIES RelaySpec ConnectEnds
CHECK_DEADLOCK FALSE
