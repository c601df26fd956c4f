CONSTANTS
  InpCnt = 2
  MaxId = 5
  Tables <- MCTables
SPECIFICATION Spec
INVARIANTS
  Sound
  OutputsRight
  AssertsHold
\* The pass stops at the end of the file.
CHECK_DEADLOCK FALSE
