SPECIFICATION Spec
CONSTANTS
    BUF = 4
    BYTE = 4
    SuperBlocks <- MCSuperBlocks
    Directories <- MCDirectories
INVARIANTS TypeOK BlockTakenWhole
PROPERTIES EveryBytePlayed OldBytesFade
