SPECIFICATION MSpec
CONSTANTS
    TypeObjects <- MCObjects
    StateVars <- MCVars
    Fluents <- MCFluents
    Predicates <- MCPredicates
    Statics <- MCStatics
    Tasks <- NestedTasks
    Places <- MCPlaces
    Domain <- MCDomain
INVARIANTS
    ApplicableExact
