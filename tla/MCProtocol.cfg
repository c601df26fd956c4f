SPECIFICATION FairSpec
CONSTANTS
  MaxNodes = 2
  EvlInpCnt = 2
  GateCnt = 2
  EvlOut = TRUE
  GenOut = TRUE
  Caps = {0, 2}
  Setups <- MCSetups
  Prog <- Schedule
INVARIANTS
  Matched
  CollectivesAgree
PROPERTIES
  Terminates
