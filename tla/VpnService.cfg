CONSTANTS
  ClientOps = {"start", "stop"}
  MaxCalls = 3
  MaxRevokes = 2
  MaxFaults = 1
SPECIFICATION Spec
CONSTRAINT ShortOverlap
INVARIANTS DaemonsReachable ConnectedIsWhole StoppedIsClean CallsAccepted
PROPERTIES ConnectedAfterConnecting StopsBeforeDropping UsesDaemons
CHECK_DEADLOCK FALSE
