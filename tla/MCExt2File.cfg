SPECIFICATION Spec
CONSTANTS
  Sizes <- MCSizes
  NDIR = 2
  PTRS = 2
  HALF = 2
  Blocks <- MCBlocks
  ZEROS = ZEROS
  IBlock <- MCIBlock
  Table <- MCTable
  NoPointers <- MCNoPointers
  WritesFail = FALSE
INVARIANTS
  TypeOK
  CountsAgree
PROPERTIES
  PrintsFile
CHECK_DEADLOCK FALSE
