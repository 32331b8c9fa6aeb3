CONSTANTS
    PhNums <- MCPhNums
    EhSizes <- MCEhSizes
    PhEntSizes <- MCPhEntSizes
SPECIFICATION LayoutSpec
INVARIANTS
    PiecesApart
    HashesSpareTheKeys
    SignatureBehindSigned
CHECK_DEADLOCK FALSE
