SPECIFICATION Spec
CONSTANTS
  SECTOR = 3
  REGLEN = 2
  Blocks <- MCBlocks
  REG = REG
  CardHC = FALSE
  ATTEMPTS = 1
  PER_MS = 1000
  ACMD41_MS = 20
  BYTE_US = 64
INVARIANT TwoSecondTimeout
