CONSTANTS
    Vars <- MCVars
    Vals <- MCVals
    Tasks <- MCTasks
    Configs <- MCConfigs
    Heuristics <- MCHeuristics
    NoAction = NoAction
SPECIFICATION Spec
INVARIANTS
    PlanIsCorrect
    UnsolvableIsTrue
    PathsConsistent
    EvaluatedOnce
PROPERTIES
    Termination
CHECK_DEADLOCK FALSE
