CONSTANTS
    Vars <- MCVars
    Vals <- MCVals
    Tasks <- MCTasks
    NoveltyAtoms <- PositiveAtoms
    NoveltyLevels = 3
    Pruning = FALSE
    UseR = TRUE
    RComputation = "seed"
    RelevantSets <- MCRelevantSets
    None = None
SPECIFICATION Spec
INVARIANTS
    TypeOK
    NoveltyTablesComplete
    NothingLost
    NoPlanIsCertified
    PlanSolvesTask
PROPERTIES
    NeverExpandedTwice
    Termination
    ImplementsForwardSearch
