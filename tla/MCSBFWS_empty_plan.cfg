CONSTANTS
    Vars <- MCVars
    Vals <- MCVals
    Tasks <- TrivialTasks
    NoveltyAtoms <- PositiveAtoms
    NoveltyLevels = 3
    Pruning = FALSE
    UseR = TRUE
    RComputation = "seed"
    RelevantSets <- MCRelevantSets
    None = None
SPECIFICATION Spec
INVARIANTS
    EmptyPlanFound
