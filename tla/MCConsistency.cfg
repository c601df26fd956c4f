SPECIFICATION FairSpec
CONSTANTS
  Q = 5
  NodeAmnt = 2
  Load = 4
  InpCnt = 2
  EvlCnt = 3
  Seeds <- MCSeeds
  Exp <- MCExp
INVARIANTS
  Rebuilt
  AllRebuilt
PROPERTIES
  Completes
