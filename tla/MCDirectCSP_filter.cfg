CONSTANTS
    Vars <- MCVars
    Problems <- FilterProblems
SPECIFICATION CallSpec
CHECK_DEADLOCK FALSE
INVARIANTS
    FilteringSound
    FilteringComplete
