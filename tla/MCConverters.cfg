CONSTANTS
    Names <- MCNames
    Temps <- MCTemps
    Jobs <- MCJobs
SPECIFICATION Spec
INVARIANTS
    AlwaysWhole
    ConvertedAsListed
CHECK_DEADLOCK FALSE
