CONSTANTS
    Vars <- MCVars
    Tasks <- MinusTasks
SPECIFICATION Spec
INVARIANTS
    SafeDeadEnds
