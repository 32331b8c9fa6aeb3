CONSTANTS
    KEEP = 2
    NAME_LEN = 3
    MAX_FILES = 2
    ALIGN = 2
    HDR = 1
    ENTRY = 3
    MaxDir = 3
    Entries <- MCEntries
    t_names <- MCNames
    W = 31
    PAGE = 9
    INFO = 5
    PKG_ALIGN = 4
    BLOCK = 3
    NAME_MAX = 4
    PupJobs <- MCPupJobs
    PkgJobs <- MCPkgJobs
    Dumps <- MCDumps
    Packages <- MCPackages
SPECIFICATION Archives
INVARIANTS
    Intact
    Unpacked
    PupRestored
    PupVerdicts
    PackageWhole
    NorAsTree
    GpkgRestored
CHECK_DEADLOCK FALSE
