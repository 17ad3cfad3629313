SPECIFICATION Spec
CONSTANTS
  Sizes <- ShortWriteSizes
  NDIR = 2
  PTRS = 2
  HALF = 1
  Blocks <- MCBlocks
  ZEROS = ZEROS
  IBlock <- MCIBlock
  Table <- MCTable
  NoPointers <- MCNoPointers
  WritesFail = TRUE
INVARIANTS
  WithinBlocks
PROPERTIES
  Terminates
CHECK_DEADLOCK FALSE
