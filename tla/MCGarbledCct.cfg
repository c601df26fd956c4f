SPECIFICATION FairSpec
CONSTANTS
  K = 2
  Slot <- MCSlot
  Circuits <- MCCircuits
  InpCnt <- MCInpCnt
  Seeds <- MCSeeds
  Junk <- MCJunk
  OtKeys <- MCOtKeys
  ChannelCap = 2
  Rand <- MCRand
  InpKey <- MCInpKey
  KDF128 <- MCKDF128
  KDF256 <- MCKDF256
INVARIANTS
  TypeOK
  InStep
  LabelsAgree
PROPERTIES
  PlainSpec
  Completes
