--------------------------- MODULE ForwardSearch ----------------------------
(***************************************************************************)
(* What a forward search of the planner promises, whatever its queues and  *)
(* heuristics: states are opened one by one from the successors of closed  *)
(* states, each state is closed at most once, a plan is announced only     *)
(* when a goal was reached, and no plan only when the closed states prove  *)
(* that there is none - unless the search was told to prune.               *)
(***************************************************************************)
EXTENDS PlanningTask

CONSTANT MayDrop   \* whether open states may be dropped unexpanded

VARIABLES
    task,     \* the problem being solved
    open,     \* the states known but not expanded
    closed,   \* the states expanded
    result    \* the answer of the search

vars == <<task, open, closed, result>>

Reached == UNION {Successors(task, s) : s \in closed}

Init ==
    /\ task \in Tasks
    /\ open = {} /\ closed = {}
    /\ result = "none"

Begin ==
    /\ result = "none" /\ open = {} /\ closed = {}
    /\ ~IsGoal(task, task.init)
    /\ open' = {task.init}
    /\ UNCHANGED <<task, closed, result>>

Open(s) ==
    /\ result = "none"
    /\ s \in Reached \ (open \cup closed)
    /\ ~IsGoal(task, s)
    /\ open' = open \cup {s}
    /\ UNCHANGED <<task, closed, result>>

Close(s) ==
    /\ result = "none"
    /\ s \in open
    /\ open' = open \ {s}
    /\ closed' = closed \cup {s}
    /\ UNCHANGED <<task, result>>

Drop(s) ==
    /\ MayDrop
    /\ result = "none"
    /\ s \in open
    /\ open' = open \ {s}
    /\ UNCHANGED <<task, closed, result>>

AnnouncePlan ==
    /\ result = "none"
    /\ \E s \in Reached : IsGoal(task, s)
    /\ result' = "plan"
    /\ UNCHANGED <<task, open, closed>>

AnnounceNoPlan ==
    /\ result = "none" /\ open = {}
    /\ MayDrop \/ UnsolvabilityCertificate(task, closed)
    /\ result' = "no_plan"
    /\ UNCHANGED <<task, open, closed>>

Next ==
    \/ Begin
    \/ \E s \in State : Open(s) \/ Close(s) \/ Drop(s)
    \/ AnnouncePlan \/ AnnounceNoPlan

Spec == Init /\ [][Next]_vars
=============================================================================
