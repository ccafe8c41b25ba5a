CONSTANTS
  ClientOps = {"start", "stop"}
  MaxCalls = 2
  MaxRevokes = 0
  MaxFaults = 1
SPECIFICATION Spec
PROPERTIES StopCancels
CHECK_DEADLOCK FALSE
