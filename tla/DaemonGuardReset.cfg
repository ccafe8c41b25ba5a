CONSTANTS
  MaxStarts = 2
  MaxRevokes = 1
  MaxCrashes = 0
  MaxExecFails = 0
SPECIFICATION Spec
INVARIANTS ContextReset
