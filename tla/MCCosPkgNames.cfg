CONSTANTS
    KEEP = 2
    NAME_LEN = 3
    MAX_FILES = 2
    ALIGN = 2
    HDR = 1
    ENTRY = 3
    MaxDir = 3
    Entries <- MCEntries
SPECIFICATION Spec
INVARIANT NamesKept
CHECK_DEADLOCK FALSE
