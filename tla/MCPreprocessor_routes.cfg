SPECIFICATION Spec
CONSTANT Tasks <- MCTasks
CONSTANT Routes = {"fd", "asp"}
CHECK_DEADLOCK FALSE
INVARIANTS
    FaithfulStates
    FaithfulActions
    FaithfulGoal
