SPECIFICATION Spec
CONSTANTS
  Char <- MCChar
  Newline = "nl"
  Space = "_"
  Tab = "tab"
  TerEndX = 4
  TabStop = 2
  Texts <- AllTexts
INVARIANTS TypeOK DownThenUpReturns WordRightThenLeftReturns ColumnIsDrawnWithoutTabs
PROPERTIES UpGoesOneRowUp DownKeepsColumn DownNeverGoesBack UpGoesForwardOnlyAtTop
