CONSTANTS
    ALIGNMENT = 2
    HeaderSize = 2
    W <- MCW
    MAX_SECTIONS = 5
    Inputs = {}
    Elfs <- MCElfs
    Sizes <- MCSizes
SPECIFICATION RoundTrip
INVARIANTS
    SegmentsApart
    BufferSuffices
    AllStored
    PlainRoundTrip
    SegmentsRecovered
    RepairedReadable
CHECK_DEADLOCK FALSE
