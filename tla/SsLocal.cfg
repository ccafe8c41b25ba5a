CONSTANTS
  MaxUnits = 3
  MaxTotal = 6
  Acl = TRUE
  FreshTakes = {"all"}
SPECIFICATION Spec
INVARIANTS PumpsAlternate NothingLost InOrder TimerRuns
PROPERTIES RelaySpec RelayEnds
CHECK_DEADLOCK FALSE
