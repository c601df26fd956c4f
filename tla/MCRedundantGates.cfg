CONSTANTS
  InpCnt = 1
  MaxId = 6
  Window = 4
  Tables <- MCTables
  Pairs <- MCPairs
SPECIFICATION Spec
INVARIANTS
  MapSound
  OneLookup
  Resolves
  InOrder
\* The parser ends.
CHECK_DEADLOCK FALSE
