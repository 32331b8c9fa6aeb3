CONSTANTS
    BLOCK = 2
    Files <- MCFiles
    KeyLists <- MCKeyLists
    Signer <- MCSigner
    Wilds <- MCWilds
    W = 8
SPECIFICATION Spec
INVARIANT UnalignedFails
CHECK_DEADLOCK FALSE
