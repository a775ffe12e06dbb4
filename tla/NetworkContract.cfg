SPECIFICATION HistorySpec
CONSTANTS
  Client = {c1}
  Leaving = {c1}
  MaxVersion = 2
  Size <- MCSize
  MaxTransfer = 2
  SockBuf = 2
  Garbage = 1
INVARIANT OneWriteAtATime
CHECK_DEADLOCK FALSE
