SPECIFICATION Spec
CONSTANTS
  Char <- MCChar
  Newline = "nl"
  Space = "_"
  Tab = "tab"
  TerEndX = 4
  TabStop = 2
  Texts <- AllTexts
PROPERTY DownReachesVisualColumn
