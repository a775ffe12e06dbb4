SPECIFICATION FairSpec
CONSTANTS
  Client = {c1, c2}
  Block <- MCBlock
  OldText <- MCOldText
  NewText <- MCNewText
  MaxPosts = 1
INVARIANTS TypeOK AtMostOneOutlives
 
CHECK_DEADLOCK FALSE
