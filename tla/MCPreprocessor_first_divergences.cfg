SPECIFICATION Spec
CONSTANT Tasks <- FirstRouteDivergences
CONSTANT Routes = {"fd"}
CHECK_DEADLOCK FALSE
INVARIANTS
    FaithfulStates
    FaithfulActions
    FaithfulGoal
    Translated
