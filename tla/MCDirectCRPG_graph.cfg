CONSTANTS
    Vars <- MCVars
    Tasks <- MCTasks
SPECIFICATION Spec
INVARIANTS
    LayersExact
    EstimatesSafe
    SupportSufficient
    RelaxedPlanValid
PROPERTIES
    Termination
