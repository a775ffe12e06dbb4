SPECIFICATION Spec
CONSTANTS
  Char <- MCChar
  Newline = "nl"
  Space = "_"
  Tab = "tab"
  Return = "cr"
  Nul = "nul"
  GapSize = 1
  TerEndX = 3
  TabStop = 2
  TerEndY = 3
  TopPad = 1
  LeftPad = 3
  StartModes = {"Host"}
  Path <- MCPath1
  NoPath = ""
  Readable = {"f"}
  Writable = {"f"}
  Absent = Absent
  None = None
  Disks <- MCDisks1
  Typed = {"a"}
  Clips <- MCClips
  Messages <- MCMessages
  MaxLen = 4
VIEW UpToClipboard
PROPERTY CopyIsSelectedText
CHECK_DEADLOCK FALSE
