CONSTANTS
    Vars <- MCVars
    Vals <- MCVals
    Tasks <- MCTasks
    NoveltyAtoms <- PositiveAtoms
    NoveltyLevels = 3
    Pruning = TRUE
    UseR = TRUE
    RComputation = "decrease"
    RelevantSets <- MCRelevantSets
    None = None
SPECIFICATION Spec
INVARIANTS
    PruningIsStrict
    OneNodePerState
    RelevantCountExact
