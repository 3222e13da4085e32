SPECIFICATION MSpec
CONSTANTS
    TypeObjects <- MCObjects
    StateVars <- MCVars
    Fluents <- MCFluents
    Predicates <- MCPredicates
    Statics <- MCStatics
    Tasks <- MCTasks
    Places <- MCPlaces
    Domain <- MCDomain
INVARIANTS
    GroundingExact
    ApplicableExact
    StatesSatisfyConstraints
