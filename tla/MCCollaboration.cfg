SPECIFICATION CollaborationSpec
CONSTANTS
  Client = {c1}
  Viewer = c1
  Leaving = {c1}
  MaxVersion = 2
  Size <- MCSize
  MaxTransfer = 2
  SockBuf = 4
  Garbage = 99
  Char <- MCChar
  Newline = "nl"
  Space = "_"
  Tab = "tab"
  Return = "cr"
  Nul = "nul"
  GapSize = 1
  TerEndX = 3
  TabStop = 2
  Path <- MCPath
  NoPath = ""
  Readable = {"f"}
  Writable = {"f"}
  Absent = Absent
  None = None
  HostPath = "f"
  HostFile <- MCFile
  Typed = {"a"}
  Clips <- MCClips
  MaxLen = 5
VIEW UpToSelections
PROPERTIES ImplementsSharedText ViewerCatchesUp
CHECK_DEADLOCK FALSE
