SPECIFICATION MSpec
CONSTANTS
    TypeObjects <- MCObjects
    StateVars <- TreeVars
    Fluents <- TreeFluents
    Predicates <- TreePredicates
    Statics <- MCStatics
    Tasks <- TreeTasks
    Places <- MCPlaces
    Domain <- MCDomain
INVARIANTS
    ApplicableExact
