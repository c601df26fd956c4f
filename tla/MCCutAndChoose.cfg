SPECIFICATION FairSpec
CONSTANTS
  K = 2
  Sizes <- MCSizes
  NodeAmnts <- MCNodeAmnts
  Draw <- MCDraw
  Hash <- MCHash
INVARIANTS
  TypeOK
  NoSpuriousAbort
  GoodChoice
  SameChoice
PROPERTIES
  Completes
