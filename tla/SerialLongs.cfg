SPECIFICATION SerialSpec
CONSTANTS
    INT = 65536
    PAD = 4
    Words = {0, 7}
    Longs = {0, 99, 20000}
    Positions = {0, 15}
INVARIANT Int32Printed
