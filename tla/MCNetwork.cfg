SPECIFICATION FairHistorySpec
CONSTANTS
  Client = {c1, c2}
  Leaving = {c1}
  MaxVersion = 2
  Size <- MCSize
  MaxTransfer = 2
  SockBuf = 2
  Garbage = 1
INVARIANTS ViewIsSnapshot NoUpdateLost FramesContinue
PROPERTIES ImplementsMirror Converges
CHECK_DEADLOCK FALSE
