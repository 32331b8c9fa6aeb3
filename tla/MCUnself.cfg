CONSTANTS
    W <- MCW
    MAX_SECTIONS = 5
    Inputs <- MCInputs
    Sizes <- MCSizes
SPECIFICATION USpec
INVARIANTS
    PiecesBounded
    PiecesFollow
    EachSegmentOnce
PROPERTY Terminates
CHECK_DEADLOCK FALSE
