CONSTANTS
  Wnd = 3
  SndBuf = 2
  RecvBuf = 3
  MaxTotal = 5
SPECIFICATION Spec
INVARIANTS CallbacksSafe NeverRefused UpKept DownKept NeverStuck
 
CHECK_DEADLOCK FALSE
