-------------------------- MODULE HeuristicSearch ---------------------------
(***************************************************************************)
(* The heuristic searches of the planner and the runner around them:       *)
(* enhanced hill climbing (EHCSearch over EHCBreadthFirstSearch), the      *)
(* greedy best-first search it falls back to, the observers that decide    *)
(* when a node is evaluated and whether it is helpful, and do_search, which*)
(* turns the outcome into an exit code.                                    *)
(*                                                                         *)
(* The heuristic is abstract: an estimate and a set of relevant atoms for  *)
(* every state.  StlBestFirstSearch comes from the LAPKT library, outside  *)
(* the repository, and is modelled from the hooks the code gives it: the   *)
(* node's comparison, dead_end, update_in_open_list and the four events.   *)
(***************************************************************************)
EXTENDS PlanningTask

CONSTANTS
    Configs,        \* the drivers and options to consider
    Heuristics(_),  \* the heuristics a task may be solved with
    NoAction        \* ActionT::invalid_action_id

Evaluations == {"eager", "delayed", "delayed_for_unhelpful"}

\* driver "smart" is SmartEffectDriver; "plain" any other one with this engine.
ConfigType == [driver : {"smart", "plain"}, ehc : BOOLEAN,
               helpful_actions : BOOLEAN, evaluation : Evaluations]

HeuristicType == [h : [State -> Int], relevant : [State -> SUBSET Atom]]

\* Only SmartEffectDriver builds an EHC phase.
ASSUME ConfigsAssumption ==
    Configs \subseteq {c \in ConfigType : c.ehc => c.driver = "smart"}

ASSUME NoActionAssumption == NoAction \notin Action

\* The estimate is 0 exactly on goals, and -1 is a proof that there is no plan.
ASSUME HeuristicsAssumption ==
    \A t \in Tasks : \A e \in Heuristics(t) :
        /\ e \in HeuristicType
        /\ \A s \in State : /\ (e.h[s] = 0) = IsGoal(t, s)
                            /\ e.h[s] < 0 => e.h[s] = -1 /\ s \notin Solvable(t)

VARIABLES
    task,      \* the problem being solved
    heuristic, \* its heuristic
    config,    \* the driver and its options
    pc,        \* where the search stands
    node,      \* the nodes of the current phase, by generation order
    queue,     \* _open of the breadth-first search, a FIFO queue
    open,      \* _open of the best-first search
    closed,    \* the states in _closed of the current search
    bound,     \* h_bound of the current breadth-first search
    cur,       \* the node being expanded, or the one EHC climbs from
    pending,   \* the applicable actions still to try
    solution,  \* the node the plan is retrieved from, 0 for none
    exit       \* the exit code of do_search

problem == <<task, heuristic, config>>
vars == <<problem, pc, node, queue, open, closed, bound, cur, pending, solution, exit>>

Nodes == DOMAIN node

Init ==
    /\ task \in Tasks /\ heuristic \in Heuristics(task) /\ config \in Configs
    /\ pc = "start"
    /\ node = <<>> /\ queue = <<>> /\ open = {} /\ closed = {}
    /\ bound = 0 /\ cur = 0 /\ pending = {} /\ solution = 0
    /\ exit = "none"

-----------------------------------------------------------------------------
(***************************************************************************)
(* Nodes.  evals counts the calls of evaluate_with; an unevaluated node of *)
(* the best-first search has the estimate Unevaluated (LONG_MAX).          *)
(***************************************************************************)
Unevaluated == 1000000

Root == [state |-> task.init, via |-> NoAction, parent |-> 0, g |-> 0,
         h |-> Unevaluated, relevant |-> {}, helpful |-> FALSE, evals |-> 0]

Child(p, a) ==
    [Root EXCEPT !.state = NextState(node[p].state, a), !.via = a,
                 !.parent = p, !.g = node[p].g + 1]

Evaluate(n) ==
    [n EXCEPT !.h = heuristic.h[n.state], !.relevant = heuristic.relevant[n.state],
              !.evals = @ + 1]

Inherit(n) == [n EXCEPT !.h = node[n.parent].h]

DeadEnd(n) == n.h = -1

(***************************************************************************)
(* HelpfulObserver: the child of a node is helpful when it holds one of    *)
(* the atoms relevant to the parent's relaxed plan.                        *)
(***************************************************************************)
IsMarked(n) == n.parent = 0 \/ node[n.parent].relevant \cap AtomsOf(n.state) # {}
MarkAsHelpful(n) == [n EXCEPT !.helpful = @ \/ IsMarked(n)]

\* EvaluationObserver::do_early_evaluation.
EarlyEvaluation(n) ==
    \/ n.parent = 0
    \/ config.evaluation = "eager"
    \/ config.evaluation = "delayed_for_unhelpful" /\ n.helpful

OnCreation(n) == IF EarlyEvaluation(n) THEN Evaluate(n) ELSE Inherit(n)
EvaluateUnlessEager(n) ==   \* slip: the root is evaluated again
    IF config.evaluation = "eager" THEN n ELSE Evaluate(n)
OnExpansion(n) == IF EarlyEvaluation(n) THEN n ELSE Evaluate(n)

RequiresHelpfulnessAssessment ==
    \/ config.evaluation = "delayed_for_unhelpful"
    \/ config.helpful_actions /\ config.ehc

(***************************************************************************)
(* The creation event reaches the observers in the order in which the      *)
(* driver set them up: evaluation first, helpfulness second, and only      *)
(* SmartEffectDriver sets up the second.                                   *)
(***************************************************************************)
NotifyCreation(n) ==
    IF config.driver = "smart" /\ RequiresHelpfulnessAssessment
    THEN MarkAsHelpful(OnCreation(n))
    ELSE OnCreation(n)

-----------------------------------------------------------------------------
(***************************************************************************)
(* Enhanced hill climbing.  EHCSearchNode leaves _helpful uninitialised,   *)
(* so with helpful actions a successor that the observer does not mark is  *)
(* skipped or kept, by chance: EHCSkip and EHCGenerate are both enabled.   *)
(***************************************************************************)
StartEHC ==
    /\ pc = "start" /\ config.ehc
    /\ node' = <<Evaluate(Root)>>
    /\ cur' = 1
    /\ pc' = "climb"
    /\ UNCHANGED <<problem, queue, open, closed, bound, pending, solution, exit>>

\* while (node->h > 0): a fresh breadth-first search from the node.
StartEpisode ==
    /\ pc = "climb" /\ node[cur].h > 0
    /\ queue' = <<cur>>
    /\ closed' = {}
    /\ bound' = node[cur].h
    /\ pc' = "ehc_open"
    /\ UNCHANGED <<problem, node, open, cur, pending, solution, exit>>

EHCReachesGoal ==
    /\ pc = "climb" /\ node[cur].h = 0
    /\ solution' = cur
    /\ pc' = "solved"
    /\ UNCHANGED <<problem, node, queue, open, closed, bound, cur, pending, exit>>

\* A dead end counts as an improvement, and the loop ends there.
EHCEndsInDeadEnd ==
    /\ pc = "climb" /\ node[cur].h < 0
    /\ pc' = "gbfs_start"
    /\ UNCHANGED <<problem, node, queue, open, closed, bound, cur, pending, solution, exit>>

EHCOpen ==
    /\ pc = "ehc_open" /\ queue # <<>>
    /\ cur' = Head(queue)
    /\ queue' = Tail(queue)
    /\ closed' = closed \cup {node[cur'].state}
    /\ pending' = ApplicableActions(task, node[cur'].state)
    /\ pc' = "ehc_expand"
    /\ UNCHANGED <<problem, node, open, bound, solution, exit>>

EHCExhausted ==
    /\ pc = "ehc_open" /\ queue = <<>>
    /\ pc' = "gbfs_start"
    /\ UNCHANGED <<problem, node, queue, open, closed, bound, cur, pending, solution, exit>>

\* A successor is known once its state is closed; open is not searched.
EHCKnown(s) == s \in closed

Improves(n) == n.h < bound

EHCSkip(a) ==
    /\ pc = "ehc_expand" /\ a \in pending
    /\ \/ EHCKnown(NextState(node[cur].state, a))
       \/ config.helpful_actions /\ ~IsMarked(Child(cur, a))
    /\ pending' = pending \ {a}
    /\ UNCHANGED <<problem, pc, node, queue, open, closed, bound, cur, solution, exit>>

EHCGenerate(a) ==
    LET n == Evaluate(Child(cur, a)) IN
    /\ pc = "ehc_expand" /\ a \in pending
    /\ ~EHCKnown(n.state)
    /\ node' = Append(node, n)
    /\ IF Improves(n)
       THEN /\ cur' = Len(node') /\ pending' = {} /\ queue' = <<>>
            /\ pc' = "climb"
       ELSE /\ queue' = Append(queue, Len(node'))
            /\ pending' = pending \ {a}
            /\ UNCHANGED <<pc, cur>>
    /\ UNCHANGED <<problem, open, closed, bound, solution, exit>>

EHCExpanded ==
    /\ pc = "ehc_expand" /\ pending = {}
    /\ pc' = "ehc_open"
    /\ UNCHANGED <<problem, node, queue, open, closed, bound, cur, pending, solution, exit>>

-----------------------------------------------------------------------------
(***************************************************************************)
(* The best-first search.  Its open list refuses dead ends, and a state    *)
(* that is already open has its path improved instead of a second node.    *)
(***************************************************************************)
GBFSStart ==
    /\ pc = IF config.ehc THEN "gbfs_start" ELSE "start"
    /\ LET root == NotifyCreation(Root) IN
       /\ node' = <<root>>
       /\ open' = IF DeadEnd(root) THEN {} ELSE {1}
    /\ queue' = <<>> /\ closed' = {} /\ bound' = 0 /\ cur' = 0
    /\ pc' = "gbfs_open"
    /\ UNCHANGED <<problem, pending, solution, exit>>

\* next(): the node leaves the open list.
Peek(n) == open   \* slip: it stays
Dequeue(n) == open \ {n}

\* operator>: any node with the least estimate may be the next.
Best == {m \in open : \A n \in open : node[m].h <= node[n].h}

GBFSReachesGoal ==
    /\ pc = "gbfs_open"
    /\ \E n \in Best :
        /\ IsGoal(task, node[n].state)
        /\ cur' = n /\ solution' = n
        /\ open' = Dequeue(n)
        /\ closed' = closed \cup {node[n].state}
    /\ pc' = "solved"
    /\ UNCHANGED <<problem, node, queue, bound, pending, exit>>

GBFSOpen ==
    /\ pc = "gbfs_open"
    /\ \E n \in Best :
        /\ ~IsGoal(task, node[n].state)
        /\ cur' = n
        /\ open' = Dequeue(n)
        /\ closed' = closed \cup {node[n].state}
        /\ pending' = ApplicableActions(task, node[n].state)
        /\ node' = [node EXCEPT ![n] = OnExpansion(@)]
    /\ pc' = "gbfs_expand"
    /\ UNCHANGED <<problem, queue, bound, solution, exit>>

GBFSExhausted ==
    /\ pc = "gbfs_open" /\ open = {}
    /\ pc' = "failed"
    /\ UNCHANGED <<problem, node, queue, open, closed, bound, cur, pending, solution, exit>>

GBFSSkip(a) ==
    /\ pc = "gbfs_expand" /\ a \in pending
    /\ NextState(node[cur].state, a) \in closed
    /\ pending' = pending \ {a}
    /\ UNCHANGED <<problem, pc, node, queue, open, closed, bound, cur, solution, exit>>

\* update_in_open_list: a shorter path replaces action and parent, not h.
Relink(old, new) ==   \* slips: the action, the length is not replaced
    IF new.g < old.g THEN [old EXCEPT !.g = new.g, !.parent = new.parent] ELSE old
Rewire(old, new) ==
    IF new.g < old.g THEN [old EXCEPT !.via = new.via, !.parent = new.parent] ELSE old
UpdateInOpenList(old, new) ==
    IF new.g < old.g
    THEN [old EXCEPT !.g = new.g, !.via = new.via, !.parent = new.parent]
    ELSE old

GBFSUpdate(a) ==
    LET n == Child(cur, a) IN
    /\ pc = "gbfs_expand" /\ a \in pending
    /\ n.state \notin closed
    /\ \E m \in open :
        /\ node[m].state = n.state
        /\ node' = [node EXCEPT ![m] = UpdateInOpenList(@, n)]
    /\ pending' = pending \ {a}
    /\ UNCHANGED <<problem, pc, queue, open, closed, bound, cur, solution, exit>>

GBFSGenerate(a) ==
    LET n == Child(cur, a) IN
    /\ pc = "gbfs_expand" /\ a \in pending
    /\ n.state \notin closed
    /\ \A m \in open : node[m].state # n.state
    /\ LET created == NotifyCreation(n) IN
       IF DeadEnd(created)
       THEN UNCHANGED <<node, open>>
       ELSE node' = Append(node, created) /\ open' = open \cup {Len(node')}
    /\ pending' = pending \ {a}
    /\ UNCHANGED <<problem, pc, queue, closed, bound, cur, solution, exit>>

GBFSExpanded ==
    /\ pc = "gbfs_expand" /\ pending = {}
    /\ pc' = "gbfs_open"
    /\ UNCHANGED <<problem, node, queue, open, closed, bound, cur, pending, solution, exit>>

-----------------------------------------------------------------------------
(***************************************************************************)
(* do_search: only bad_alloc is caught, and it may come at any step of the *)
(* search.  A plan is checked before it is announced.                      *)
(***************************************************************************)
OutOfMemory ==
    /\ pc \notin {"solved", "failed", "oom", "done"}
    /\ pc' = "oom"
    /\ UNCHANGED <<problem, node, queue, open, closed, bound, cur, pending, solution, exit>>

\* retrieve_solution: the actions on the way from the root.
PlanTo(n) ==
    LET path[m \in Nodes] ==
            IF node[m].parent = 0 THEN <<>>
            ELSE Append(path[node[m].parent], node[m].via)
    IN  path[n]

ReportByPlan ==   \* slip: whatever is not a plan is called unsolvable
    IF pc = "solved" THEN "PLAN_FOUND" ELSE "UNSOLVABLE"
ExitCode ==
    CASE pc = "solved" -> IF Solves(task, task.init, PlanTo(solution))
                          THEN "PLAN_FOUND" ELSE "RUNTIME_ERROR"
      [] pc = "oom"    -> "OUT_OF_MEMORY"
      [] OTHER         -> "UNSOLVABLE"

Report ==
    /\ pc \in {"solved", "failed", "oom"}
    /\ exit' = ExitCode
    /\ pc' = "done"
    /\ UNCHANGED <<problem, node, queue, open, closed, bound, cur, pending, solution>>

Next ==
    \/ StartEHC \/ StartEpisode \/ EHCReachesGoal \/ EHCEndsInDeadEnd
    \/ EHCOpen \/ EHCExhausted \/ EHCExpanded
    \/ \E a \in pending : EHCSkip(a) \/ EHCGenerate(a)
    \/ GBFSStart \/ GBFSReachesGoal \/ GBFSOpen \/ GBFSExhausted \/ GBFSExpanded
    \/ \E a \in pending : GBFSSkip(a) \/ GBFSUpdate(a) \/ GBFSGenerate(a)
    \/ OutOfMemory \/ Report

Spec == Init /\ [][Next]_vars /\ WF_vars(Next)

-----------------------------------------------------------------------------
(***************************************************************************)
(* The plan of a solved search, taken from parent links that several       *)
(* episodes of hill climbing or several updates in the open list produced, *)
(* solves the task: do_search never throws "The plan output by the planner *)
(* is not correct!".                                                       *)
(***************************************************************************)
PlanIsCorrect == exit # "RUNTIME_ERROR"

(***************************************************************************)
(* The exit code UNSOLVABLE is a proof: whatever hill climbing pruned,     *)
(* whichever estimates were inherited and whichever nodes the open list    *)
(* refused, the task then has no plan.                                     *)
(***************************************************************************)
UnsolvableIsTrue == exit = "UNSOLVABLE" => task.init \notin Solvable(task)

(***************************************************************************)
(* The open nodes of the best-first search are reached by the path their   *)
(* links describe, of the length g, over closed states: updates in the     *)
(* open list keep the links and the counts of all their descendants right. *)
(***************************************************************************)
PathsConsistent ==
    pc \in {"gbfs_open", "gbfs_expand"} =>
        \A n \in Nodes : node[n].parent # 0 =>
            LET p == node[node[n].parent] IN
            /\ p.state \in closed
            /\ node[n].g = p.g + 1
            /\ node[n].via \in ApplicableActions(task, p.state)
            /\ node[n].state = NextState(p.state, node[n].via)

Expanded == {n \in Nodes \ open : node[n].state \in closed /\ ~IsGoal(task, node[n].state)}

(***************************************************************************)
(* "If we didn't evaluate the node early, we do it now": a node the best-  *)
(* first search expands has been evaluated exactly once.  This holds where *)
(* no helpfulness is assessed between the two events.                      *)
(***************************************************************************)
EvaluatedOnce ==
    /\ pc \in {"gbfs_open", "gbfs_expand"}
    /\ config.driver = "plain" \/ config.evaluation # "delayed_for_unhelpful"
    => \A n \in Expanded : node[n].evals = 1

\* The search comes to an end, whatever mixture of phases it goes through.
Termination == <>(pc = "done")
=============================================================================
