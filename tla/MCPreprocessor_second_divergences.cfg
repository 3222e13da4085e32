SPECIFICATION Spec
CONSTANT Tasks <- SecondRouteDivergences
CONSTANT Routes = {"asp"}
CHECK_DEADLOCK FALSE
INVARIANTS
    FaithfulStates
    FaithfulActions
    FaithfulGoal
    Translated
