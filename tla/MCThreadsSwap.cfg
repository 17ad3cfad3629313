SPECIFICATION Spec
CONSTANTS
    NT = 2
    Bodies <- PoliteBodies
    LowBytes <- MCLowBytes
PROPERTY ThreadsSwap
