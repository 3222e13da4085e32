SPECIFICATION Spec
CONSTANTS
    Objects <- MCObjects
    Arity <- MCArity
    Values <- MCValues
    Predicates <- MCPredicates
    Instances <- MCInstances
INVARIANTS
    LayersExact
    SafeDeadEnds
    RelaxedPlanReachesGoal
    HelpfulAtomsExist
    LiftedApplicableExact
