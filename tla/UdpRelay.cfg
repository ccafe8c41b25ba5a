CONSTANTS
  Sources = {1, 2, 3}
  MaxConn = 3
  Timeout = 2
  MaxPackets = 5
SPECIFICATION Spec
INVARIANTS CacheOwns OldestFirst
PROPERTIES EndsForAReason SilentAreFreed
CHECK_DEADLOCK FALSE
