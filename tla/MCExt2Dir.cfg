SPECIFICATION Spec
CONSTANTS
    BLOCK = 4
    NDIR = 2
    MOD8 = 8
    MAXENT = 5
    NAMEBUF = 3
    Inodes <- MCInodes
    Dirs <- MCDirs
CHECK_DEADLOCK FALSE
INVARIANT TypeOK
INVARIANT NothingLeaks
PROPERTY Lists
PROPERTY Terminates
