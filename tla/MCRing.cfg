CONSTANTS
    Byte = {1, 2}
    Size = 4
    IndexMod = 8
    MaxLen = 3
SPECIFICATION Spec
INVARIANTS
    TypeOK
    RaceFree
    PeekStable
PROPERTY
    Fifo
