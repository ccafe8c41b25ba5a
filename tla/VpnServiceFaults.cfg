CONSTANTS
  ClientOps = {"start", "stop", "register", "unregister"}
  MaxCalls = 3
  MaxRevokes = 0
  MaxFaults = 1
SPECIFICATION Spec
INVARIANTS TypeOK
PROPERTIES ComesToRest
CHECK_DEADLOCK FALSE
