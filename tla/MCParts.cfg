SPECIFICATION PartsSpec
CONSTANTS
    CAP = 8
    FRAME = 22
    HEAP = 1000
    NAME = 11
    Sizes = {22, 60}
    Names = {4, 12}
    MAXCALLS = 7
    N = 4
    MOD32 = 2
    Cells = 10
    INT = 65536
    PAD = 4
    Words = {0, 7, 10, 101, 255, 4096, 32767, 40000}
    Longs = {0, 99, 20000, 70000}
    Positions = {0, 2, 66, 100}
    BYTE = 64
    LOW1 = 4
    HIGH2 = 16
    UNIT = 256
    Csds <- MCCsds
    Systems <- MCSystems
CHECK_DEADLOCK FALSE
INVARIANT TypeOK
INVARIANT EveryThreadStored
INVARIANT FramesInOwnStack
INVARIANT StatesShown
INVARIANT ColoursAreKept
INVARIANT PicturesAreErased
INVARIANT PrintsTheNumber
INVARIANT RightInode
PROPERTY NextInTurn
PROPERTY FindsReady
PROPERTY SizeIsCapacity
