CONSTANTS
  MaxServers = 2
  Calls = {1, 2}
  PoolSize = 1
SPECIFICATION Spec
INVARIANTS AnswerIsTrue StoppedTakesOne NewestKeepsPath
CHECK_DEADLOCK FALSE
