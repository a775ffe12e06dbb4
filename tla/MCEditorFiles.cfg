SPECIFICATION Spec
CONSTANTS
  Char <- MCChar
  Newline = "nl"
  Space = "_"
  Tab = "tab"
  Return = "cr"
  Nul = "nul"
  GapSize = 1
  TerEndX = 3
  TabStop = 2
  TerEndY = 3
  TopPad = 1
  LeftPad = 2
  StartModes = {"Offline", "Client"}
  Path <- MCPath
  NoPath = ""
  Readable = {"f", "g"}
  Writable = {"f", "g", "h"}
  Absent = Absent
  None = None
  Disks <- MCDisks
  Typed = {"a"}
  Clips <- MCClips
  Messages <- MCMessages
  MaxLen = 1
VIEW UpToClipboard
INVARIANTS QuitSavesWritable ModalExcludesSelection TextInPlace
PROPERTIES ChangeFileKeepsText OnlyOpenFilesChange ImplementsTextEditor
CHECK_DEADLOCK FALSE
