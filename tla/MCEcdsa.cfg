CONSTANTS
    BITS = 2
    LEN = 3
    Curves <- MCCurves
    Keys <- MCKeys
    Given <- MCGiven
SPECIFICATION Spec
INVARIANTS
    MultiplesRight
    CheckIsEquation
    SignatureVerifies
CHECK_DEADLOCK FALSE
