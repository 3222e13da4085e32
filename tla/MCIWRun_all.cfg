CONSTANTS
    Vars <- MCVars
    Vals <- MCVals
    Tasks <- MCTasks
    NoveltyAtoms <- PositiveAtoms
    Configs <- AllConfigs
SPECIFICATION Spec
INVARIANTS
    RunOK
    OptimalIsFirst
    WidthGuarantee
    RelevantPaths
PROPERTIES
    Termination
