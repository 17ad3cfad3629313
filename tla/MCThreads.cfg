SPECIFICATION Spec
CONSTANTS
    NT = 3
    Bodies <- AnyBodies
    LowBytes <- MCLowBytes
INVARIANT TypeOK
INVARIANT MutualExclusion
INVARIANT OwnCodeOwnStack
PROPERTY OnlyThreadTwo
PROPERTY TableStays
PROPERTY InterruptsReturn
