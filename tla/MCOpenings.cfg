SPECIFICATION Spec
CONSTANTS
  Q = 11
  MaxNodes = 2
  ChannelCap = 1
  HashBufferSize = 3
  Junk = Junk
  Unset = Unset
  Slot <- MCSlot
  Circuits <- MCCircuits
  InpCnt <- MCInpCnt
  Shapes <- MCShapes
  Seeds <- MCSeeds
  Rand <- MCRand
INVARIANTS
  Handed
  VerdictRight
