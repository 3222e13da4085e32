SPECIFICATION Spec
CONSTANTS
    Objects <- MCObjects
    Arity <- MCArity
    Values <- MCValues
    Predicates <- MCPredicates
    Instances <- RepeatedInstances
INVARIANTS
    RelaxedPlanReachesGoal
