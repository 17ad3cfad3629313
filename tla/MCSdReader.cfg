SPECIFICATION Spec
CONSTANTS
  SECTOR = 3
  REGLEN = 2
  Blocks <- MCBlocks
  REG = REG
  CardHC = FALSE
  type_ = "SD2"
  MOD16 = 8
  MOD32 = 8
  POLLS = 2
  RETRIES = 1
  Calls <- MCCalls
INVARIANTS
  TypeOK
  StreamInSync
  CommandsMeetReadyCard
PROPERTIES
  CloseLeavesNothing
  ImplementsStore
  EveryCallReturns
