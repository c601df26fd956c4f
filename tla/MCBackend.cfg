CONSTANTS
  InpCnt = 2
  MaxId = 7
  Files <- MCFiles
  StoreTypes = {"file", "stl"}
  MaxMapItems = 2
  InputParty <- MCInputParty
  UINT8_MAX = 2
  UINT16_MAX = 4
  UINT32_MAX = 15
SPECIFICATION SpecAll
INVARIANTS
  OutputsSame
  Renumbered
  OnlyLive
  ChainHolds
  NoClobber
  HeaderHolds
  CountsExact
\* The chain ends.
CHECK_DEADLOCK FALSE
