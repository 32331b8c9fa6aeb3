CONSTANTS
    anna = anna
    bea = bea
    Runs <- MCRuns
SPECIFICATION Spec
INVARIANT MountedOnce
CHECK_DEADLOCK FALSE
