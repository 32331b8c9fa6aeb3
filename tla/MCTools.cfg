CONSTANTS
    Jobs <- MCJobs
    Begins <- MCBegins
    Curves <- MCCurves
    BLOCK = 4
    LENGTH = 2
    WORD = 16
    HIGH = 5
    Values = {0, 128}
    MaxChunk = 3
SPECIFICATION Tools
INVARIANTS
    SignedIsVerified
    ListAgrees
    NothingLost
    LengthCounts
    PaddingIsStandard
PROPERTY DigestStays
CHECK_DEADLOCK FALSE
