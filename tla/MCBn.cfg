CONSTANTS
    RADIX = 2
    LOOP_BITS = 1
    LEN = 3
    b1 = b1
    b2 = b2
    b3 = b3
    Buffers = {b1, b2, b3}
    BITS = 2
    N_LEN = 2
    Moduli <- MCModuli
SPECIFICATION SpecBn
INVARIANTS
    SumSoFar
    LoopsAreBigNum
PROPERTY ImplementsField
