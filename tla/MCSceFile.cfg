CONSTANTS
    BLOCK = 2
    Files <- MCFiles
    KeyLists <- MCKeyLists
    Signer <- MCSigner
    Wilds <- MCWilds
    W = 8
SPECIFICATION Spec
INVARIANTS
    KeyStreamUsedOnce
    NothingInClear
    Restored
    VerdictOnGoodFile
    DamageNoticed
    DamageStaysLocal
CHECK_DEADLOCK FALSE
