CONSTANTS
  MaxStarts = 2
  MaxRevokes = 1
  MaxCrashes = 1
  MaxExecFails = 1
SPECIFICATION Spec
INVARIANTS TypeOK NoOrphanedDaemon DroppedMeansDead OneGuard
PROPERTIES StartReturns DestroyReturns KeptAlive ImplementsDaemon
