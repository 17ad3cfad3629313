SPECIFICATION Spec
CONSTANTS
  SECTOR = 3
  REGLEN = 2
  Blocks <- MCBlocks
  REG = REG
  CardHC = FALSE
  ATTEMPTS = 1
  PER_MS = 2
  ACMD41_MS = 0
  BYTE_US = 0
INVARIANTS
  TypeOK
  HandshakeMeetsQuietCard
  SuccessMeansUsable
PROPERTY
  InitReturns
