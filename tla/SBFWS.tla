------------------------------- MODULE SBFWS --------------------------------
(***************************************************************************)
(* SBFWS: the best-first width search of search/drivers/sbfws/sbfws.hxx.   *)
(* Four queues of search nodes are served by priority; nodes are run       *)
(* through the novelty tables lazily, when they leave a queue, and the set *)
(* of relevant atoms R that the tables of type <#g, #r> need is itself     *)
(* computed lazily along the chain of parents.                             *)
(*                                                                         *)
(* One call of process_one_node is a short run of actions here: taking a   *)
(* node off a queue, the frames of the recursive compute_R, the novelty    *)
(* evaluation, and one Generate per applicable action when the node is     *)
(* expanded.                                                               *)
(***************************************************************************)
EXTENDS Novelty, RelevantAtoms

CONSTANTS
    NoveltyLevels,  \* _novelty_levels: 2 or 3
    Pruning,        \* _pruning (option bfws.prune)
    UseR,           \* relevant_set_type = Sim rather than None (option bfws.rs)
    RComputation,   \* "seed" or "decrease" (option bfws.rcomp)
    RelevantSets,   \* the sets R a simulation may return
    None            \* nullptr, and ActionT::invalid_action_id

IndexBase == 65536   \* 1 << 16, see TypeIndex

ASSUME ConfigAssumption ==
    /\ NoveltyLevels \in {2, 3}
    /\ Pruning \in BOOLEAN
    /\ UseR \in BOOLEAN
    /\ RComputation \in {"seed", "decrease"}
ASSUME RelevantSetsAssumption == RelevantSets \subseteq SUBSET Atom
ASSUME NoneAssumption == None \notin Action \cup RelevantAtomSet
\* #r must fit in the low half of the type index.
ASSUME IndexAssumption == Cardinality(Atom) < IndexBase

VARIABLES
    task,        \* the problem being solved
    pc,          \* where search() stands
    node,        \* the nodes that create_node was called on, by generation order
    processed,   \* the nodes with _processed set
    closed,      \* the states in _closed
    q1, qwgr1, qwgr2, qrest,   \* the open lists
    w_gr,        \* the w_{#g,#r} novelty of each node
    relevant,    \* the cached _relevant_atoms of each node, or None
    wg1_table,   \* width-1 tables of the types #g
    wgr1_table,  \* width-1 tables of the types <#g, #r>
    wgr2_table,  \* width-2 tables of the types <#g, #r>
    cur,         \* the node being processed, evaluated or backtracked from
    stack,       \* the pending calls of compute_R, innermost first
    pending,     \* the applicable actions expand_node has still to try
    solution,    \* _solution, 0 for nullptr
    plan,        \* the plan extracted so far
    result       \* what search() returned

queues == <<q1, qwgr1, qwgr2, qrest>>
tables == <<wg1_table, wgr1_table, wgr2_table>>
vars == <<task, pc, node, processed, closed, queues, w_gr, relevant, tables,
          cur, stack, pending, solution, plan, result>>

Nodes == DOMAIN node
MaxUnsigned == Cardinality(Vars) + 1   \* above every number of subgoals

HasParent(n) == node[n].parent # 0
Parent(n) == node[n].parent

DecreasesUnachieved(n) ==
    HasParent(n) => node[n].unachieved < node[Parent(n)].unachieved

Init ==
    /\ task \in Tasks
    /\ pc = "start"
    /\ node = <<>> /\ w_gr = <<>> /\ relevant = <<>>
    /\ processed = {} /\ closed = {}
    /\ q1 = {} /\ qwgr1 = {} /\ qwgr2 = {} /\ qrest = {}
    /\ wg1_table = {} /\ wgr1_table = {} /\ wgr2_table = {}
    /\ cur = 0 /\ stack = <<>> /\ pending = {} /\ solution = 0
    /\ plan = <<>> /\ result = "none"

-----------------------------------------------------------------------------
(***************************************************************************)
(* unachieved_subgoals_comparer orders by #g, then by g.  Its further tie  *)
(* breaks (novelty, then generation order) are no strict weak order, so    *)
(* the heap may return any node that is minimal in <#g, g>.                *)
(***************************************************************************)
NoWorseByGoals(m, n) ==   \* slip: g is forgotten
    node[m].unachieved <= node[n].unachieved

NoWorse(m, n) ==
    \/ node[m].unachieved < node[n].unachieved
    \/ node[m].unachieved = node[n].unachieved /\ node[m].g <= node[n].g

Best(q) == {m \in q : \A n \in q : NoWorse(m, n)}

\* next(): the node leaves the queue.
Peek(q, n) == q   \* slip: the node stays in the queue
Dequeue(q, n) == q \ {n}

OpenNodes == q1 \cup qwgr1 \cup qwgr2 \cup qrest

\* is_open: some open list holds a node with this state.
IsOpenInQ1(s) == \E n \in q1 : node[n].state = s   \* slip: one queue only
IsOpen(s) == \E n \in OpenNodes : node[n].state = s

\* The states expand_node skips.
KnownIfClosed(s) == s \in closed   \* slips: one of the two checks is dropped
KnownIfOpen(s)   == IsOpen(s)
Known(s) == s \in closed \/ IsOpen(s)

-----------------------------------------------------------------------------
(***************************************************************************)
(* create_node for a node with this state, action and parent (0: the       *)
(* root).  A goal node is remembered and put in no queue; any other node   *)
(* is evaluated in the table of its #g and queued.                         *)
(***************************************************************************)
AppendNode(s, a, p, ng, w) ==
    /\ node' = Append(node, [state |-> s, action |-> a, parent |-> p,
                             g |-> IF p = 0 THEN 0 ELSE node[p].g + 1,
                             unachieved |-> ng, w_g |-> w])
    /\ w_gr' = Append(w_gr, "Unknown")
    /\ relevant' = Append(relevant, None)

CreateOpenNode(s, a, p) ==
    LET new  == Len(node) + 1
        ng   == UnachievedSubgoals(task, s)
        same == p # 0 /\ node[p].unachieved = ng
        seen == TuplesToCheck(1, s, node[p].state, same)
        w    == IF \E x \in seen : <<ng, x>> \notin wg1_table THEN "One" ELSE "GTOne"
    IN  /\ AppendNode(s, a, p, ng, w)
        /\ wg1_table' = wg1_table \cup {<<ng, x>> : x \in seen}
        /\ q1' = IF w = "One" THEN q1 \cup {new} ELSE q1
        /\ qwgr1' = qwgr1 \cup {new}
        /\ qwgr2' = IF NoveltyLevels = 3 THEN qwgr2 \cup {new} ELSE qwgr2
        /\ UNCHANGED qrest

CreateNode(s, a, p) ==
    IF IsGoal(task, s)
    THEN /\ AppendNode(s, a, p, MaxUnsigned, "Unknown")
         /\ UNCHANGED <<queues, wg1_table>>
    ELSE CreateOpenNode(s, a, p)

\* search(): create the root, then forget any solution this may have found.
CreateRoot ==
    /\ pc = "start"
    /\ pc' = "loop"
    /\ CreateNode(task.init, None, 0)
    /\ solution' = 0
    /\ UNCHANGED <<task, processed, closed, wgr1_table, wgr2_table, cur, stack,
                   pending, plan, result>>

-----------------------------------------------------------------------------
\* process_node, up to the loop over the applicable actions.
ProcessNode(n) ==
    /\ processed' = processed \cup {n}
    /\ closed' = closed \cup {node[n].state}
    /\ pending' = ApplicableActions(task, node[n].state)

\* One round of the loop of expand_node; it breaks on a goal.
Generate ==
    /\ pending # {}
    /\ \E a \in pending :
         LET s == NextState(node[cur].state, a)
         IN  IF Known(s)
             THEN /\ pending' = pending \ {a}
                  /\ UNCHANGED <<node, queues, w_gr, relevant, wg1_table, solution>>
             ELSE /\ CreateNode(s, a, cur)
                  /\ IF IsGoal(task, s)
                     THEN pending' = {} /\ solution' = Len(node) + 1
                     ELSE pending' = pending \ {a} /\ UNCHANGED solution
    /\ UNCHANGED <<task, pc, processed, closed, wgr1_table, wgr2_table, cur, stack,
                   plan, result>>

\* handle_unprocessed_node: keep the node for last, unless pruning drops it.
KeepIfPruning(n, is_last_queue) ==   \* slip: the flag is read the wrong way round
    /\ qrest' = IF is_last_queue /\ Pruning THEN qrest \cup {n} ELSE qrest
    /\ UNCHANGED <<processed, closed, pending>>

KeepAlways(n, is_last_queue) ==      \* slip: the flag is ignored
    /\ qrest' = IF is_last_queue THEN qrest \cup {n} ELSE qrest
    /\ UNCHANGED <<processed, closed, pending>>

HandleUnprocessed(n, is_last_queue) ==
    /\ qrest' = IF is_last_queue /\ ~Pruning THEN qrest \cup {n} ELSE qrest
    /\ UNCHANGED <<processed, closed, pending>>

\* What becomes of a node once its novelty is known.
Dispatch(n, novel, is_last_queue) ==
    IF n \in processed
    THEN UNCHANGED <<processed, closed, pending, qrest>>
    ELSE IF novel
    THEN ProcessNode(n) /\ UNCHANGED qrest
    ELSE HandleUnprocessed(n, is_last_queue)

-----------------------------------------------------------------------------
\* The main loop looks at the queues only between two expansions.
Idle == pc = "loop" /\ pending = {} /\ solution = 0

\* process_one_node looks at the queues in this order.
TurnOfQ1    == Idle /\ q1 # {}
TurnOfQwgr1 == Idle /\ q1 = {} /\ qwgr1 # {}
TurnOfQwgr2 == Idle /\ q1 = {} /\ qwgr1 = {} /\ NoveltyLevels = 3 /\ qwgr2 # {}
TurnOfQrest == /\ Idle /\ q1 = {} /\ qwgr1 = {} /\ ~(NoveltyLevels = 3 /\ qwgr2 # {})
               /\ qrest # {}
AllButRestEmpty ==   \* slip: _qrest is not looked at
    Idle /\ q1 = {} /\ qwgr1 = {} /\ ~(NoveltyLevels = 3 /\ qwgr2 # {})
AllEmpty    == /\ Idle /\ q1 = {} /\ qwgr1 = {} /\ ~(NoveltyLevels = 3 /\ qwgr2 # {})
               /\ qrest = {}

\* The node is taken off q1 and expanded: it has w_{#g} = 1.
PopQ1 ==
    /\ TurnOfQ1
    /\ \E n \in Best(q1) :
         /\ q1' = Dequeue(q1, n)
         /\ cur' = n
         /\ ProcessNode(n)
    /\ UNCHANGED <<task, pc, node, qwgr1, qwgr2, qrest, w_gr, relevant, tables,
                   stack, solution, plan, result>>

\* The types of a node and of its parent are needed: two calls of compute_R.
CallsOfComputeR(n) ==
    IF ~UseR THEN <<>> ELSE IF HasParent(n) THEN <<n, Parent(n)>> ELSE <<n>>

PopQwgr1 ==
    /\ TurnOfQwgr1
    /\ \E n \in Best(qwgr1) :
         /\ qwgr1' = Dequeue(qwgr1, n)
         /\ cur' = n
         /\ stack' = CallsOfComputeR(n)
    /\ pc' = "wgr1"
    /\ UNCHANGED <<task, node, processed, closed, q1, qwgr2, qrest, w_gr, relevant,
                   tables, pending, solution, plan, result>>

PopQwgr2 ==
    /\ TurnOfQwgr2
    /\ \E n \in Best(qwgr2) :
         /\ qwgr2' = Dequeue(qwgr2, n)
         /\ cur' = n
         /\ stack' = CallsOfComputeR(n)
    /\ pc' = "wgr2"
    /\ UNCHANGED <<task, node, processed, closed, q1, qwgr1, qrest, w_gr, relevant,
                   tables, pending, solution, plan, result>>

PopQrest ==
    /\ TurnOfQrest
    /\ \E n \in Best(qrest) :
         /\ qrest' = Dequeue(qrest, n)
         /\ cur' = n
         /\ IF n \in processed THEN UNCHANGED <<processed, closed, pending>>
                               ELSE ProcessNode(n)
    /\ UNCHANGED <<task, pc, node, q1, qwgr1, qwgr2, w_gr, relevant, tables,
                   stack, solution, plan, result>>

-----------------------------------------------------------------------------
NeedsSimulation(n) ==
    IF RComputation = "seed" THEN ~HasParent(n) ELSE DecreasesUnachieved(n)

(***************************************************************************)
(* The innermost frame of compute_R: return the cached set, or simulate    *)
(* from the node, or derive the set from the parent's, which is computed   *)
(* first when it is not cached.                                            *)
(***************************************************************************)
Return(n, r) ==
    /\ relevant' = [relevant EXCEPT ![n] = r]
    /\ stack' = Tail(stack)

ComputeR ==
    /\ stack # <<>>
    /\ LET n == Head(stack)
           p == Parent(n)
           s == node[n].state
       IN  \/ /\ relevant[n] # None
              /\ Return(n, relevant[n])
           \/ /\ relevant[n] = None /\ NeedsSimulation(n)
              /\ \E R \in RelevantSets : Return(n, InitAtomSet(EmptyAtomSet(R), s))
           \/ /\ relevant[n] = None /\ ~NeedsSimulation(n) /\ relevant[p] # None
              /\ Return(n, IF DecreasesUnachieved(n) THEN InitAtomSet(relevant[p], s)
                                                     ELSE UpdateAtomSet(relevant[p], s))
           \/ /\ relevant[n] = None /\ ~NeedsSimulation(n) /\ relevant[p] = None
              /\ stack' = <<p>> \o stack
              /\ UNCHANGED relevant
    /\ UNCHANGED <<task, pc, node, processed, closed, queues, w_gr, tables, cur,
                   pending, solution, plan, result>>

\* compute_node_complex_type: (#g << 16) | #r, which is the sum while #r < 2^16.
TypeIndex(ng, nr) == ng * IndexBase + nr
NumReached(n) == IF UseR THEN relevant[n].num ELSE 0
ComplexType(n) == TypeIndex(node[n].unachieved, NumReached(n))

\* evaluate_novelty in the tables of type <#g, #r>: the tuples looked up.
TuplesOfType(k, n) ==
    LET same == HasParent(n) /\ ComplexType(n) = ComplexType(Parent(n))
    IN  TuplesToCheck(k, node[n].state, node[Parent(n)].state, same)

EvaluateWgr1 ==
    /\ pc = "wgr1" /\ stack = <<>>
    /\ LET seen == IF UseR THEN TuplesOfType(1, cur) ELSE {}
           ty   == ComplexType(cur)
           one  == \E x \in seen : <<ty, x>> \notin wgr1_table
       IN  /\ wgr1_table' = wgr1_table \cup {<<ty, x>> : x \in seen}
           /\ w_gr' = [w_gr EXCEPT ![cur] = IF one THEN "One" ELSE "GTOne"]
           /\ Dispatch(cur, one, NoveltyLevels = 2)
    /\ pc' = "loop"
    /\ UNCHANGED <<task, node, q1, qwgr1, qwgr2, relevant, wg1_table, wgr2_table,
                   cur, stack, solution, plan, result>>

EvaluateWgr2 ==
    /\ pc = "wgr2" /\ stack = <<>>
    /\ LET seen == TuplesOfType(2, cur)
           ty   == ComplexType(cur)
           two  == \E x \in seen : <<ty, x>> \notin wgr2_table
       IN  /\ wgr2_table' = wgr2_table \cup {<<ty, x>> : x \in seen}
           /\ w_gr' = [w_gr EXCEPT ![cur] =
                         IF @ = "One" THEN @ ELSE IF two THEN "Two" ELSE "GTTwo"]
           /\ Dispatch(cur, two, TRUE)
    /\ pc' = "loop"
    /\ UNCHANGED <<task, node, q1, qwgr1, qwgr2, relevant, wg1_table, wgr1_table,
                   cur, stack, solution, plan, result>>

-----------------------------------------------------------------------------
\* process_one_node found every queue empty: extract_plan returns false.
NoPlan ==
    /\ AllEmpty
    /\ pc' = "done" /\ result' = "no_plan"
    /\ UNCHANGED <<task, node, processed, closed, queues, w_gr, relevant, tables,
                   cur, stack, pending, solution, plan>>

\* extract_plan follows the parents back from the solution.
StartExtraction ==
    /\ pc = "loop" /\ pending = {} /\ solution # 0
    /\ pc' = "extract" /\ cur' = solution
    /\ UNCHANGED <<task, node, processed, closed, queues, w_gr, relevant, tables,
                   stack, pending, solution, plan, result>>

AppendToPlan(a) == Append(plan, a)   \* slip: the final reversal is forgotten
ExtendPlan(a) == <<a>> \o plan

ExtractAction ==
    /\ pc = "extract" /\ HasParent(cur)
    /\ plan' = ExtendPlan(node[cur].action)
    /\ cur' = Parent(cur)
    /\ UNCHANGED <<task, pc, node, processed, closed, queues, w_gr, relevant, tables,
                   stack, pending, solution, result>>

PlanExtracted ==
    /\ pc = "extract" /\ ~HasParent(cur)
    /\ pc' = "done" /\ result' = "plan"
    /\ UNCHANGED <<task, node, processed, closed, queues, w_gr, relevant, tables,
                   cur, stack, pending, solution, plan>>

Terminating == pc = "done" /\ UNCHANGED vars

Next ==
    \/ CreateRoot
    \/ PopQ1 \/ PopQwgr1 \/ PopQwgr2 \/ PopQrest
    \/ Generate
    \/ ComputeR \/ EvaluateWgr1 \/ EvaluateWgr2
    \/ NoPlan \/ StartExtraction \/ ExtractAction \/ PlanExtracted
    \/ Terminating

\* The search runs on one thread that never waits.
Spec == Init /\ [][Next]_vars /\ WF_vars(Next)

-----------------------------------------------------------------------------
Novelties == {"Unknown", "One", "GTOne", "Two", "GTTwo"}

NodeType == [state : State, action : Action \cup {None}, parent : Nat, g : Nat,
             unachieved : Nat, w_g : Novelties]

\* Entries of a table family whose evaluator looks at tuples of k atoms.
TableEntries(k) == Nat \X {x \in SUBSET NoveltyAtoms : Cardinality(x) = k}

TypeOK ==
    /\ task \in Tasks
    /\ pc \in {"start", "loop", "wgr1", "wgr2", "extract", "done"}
    /\ node \in Seq(NodeType)
    /\ processed \subseteq Nodes
    /\ closed \subseteq State
    /\ q1 \subseteq Nodes /\ qwgr1 \subseteq Nodes
    /\ qwgr2 \subseteq Nodes /\ qrest \subseteq Nodes
    /\ w_gr \in Seq(Novelties) /\ Len(w_gr) = Len(node)
    /\ relevant \in Seq(RelevantAtomSet \cup {None}) /\ Len(relevant) = Len(node)
    /\ wg1_table \subseteq TableEntries(1) /\ wgr1_table \subseteq TableEntries(1)
    /\ wgr2_table \subseteq TableEntries(2)
    /\ cur \in Nodes \cup {0}
    /\ stack \in Seq(Nodes)
    /\ pending \subseteq task.actions
    /\ solution \in Nodes \cup {0}
    /\ plan \in Seq(Action)
    /\ result \in {"none", "plan", "no_plan"}

(***************************************************************************)
(* Properties.                                                             *)
(***************************************************************************)
\* The node taken off a queue whose novelty is still being evaluated.
InEvaluation == IF pc \in {"wgr1", "wgr2"} THEN {cur} ELSE {}

\* Goal nodes are never queued: the ones that were have a #g.
Queued == {n \in Nodes : node[n].unachieved # MaxUnsigned}

\* The nodes the search can still expand or has expanded.
Live == OpenNodes \cup InEvaluation \cup processed

(***************************************************************************)
(* Evaluating a state only against what is new since its parent is sound   *)
(* ("works only when the parent has the same novelty type and thus goes    *)
(* against the same novelty tables"): every node that went through a table *)
(* left all its tuples there, although the incremental evaluation skips    *)
(* those of the parent.  It rests on the order of the queues: a parent of  *)
(* the same #g always goes through the tables before its children.  And as *)
(* evaluate_wgr1 and evaluate_wgr2 assert, a node goes through the wgr1    *)
(* tables once, and before the wgr2 tables, where novelty 2 then means     *)
(* "exactly w = 2".                                                        *)
(***************************************************************************)
NoveltyTablesComplete ==
    /\ pc = "wgr1" => w_gr[cur] = "Unknown"
    /\ pc = "wgr2" => w_gr[cur] \in {"One", "GTOne"}
    /\ \A n \in Queued :
          /\ Entries(1, node[n].unachieved, node[n].state) \subseteq wg1_table
          /\ UseR /\ w_gr[n] # "Unknown"
               => Entries(1, ComplexType(n), node[n].state) \subseteq wgr1_table
          /\ NoveltyLevels = 3 /\ n \notin qwgr2 \cup InEvaluation
               => Entries(2, ComplexType(n), node[n].state) \subseteq wgr2_table

(***************************************************************************)
(* No two nodes that are open or were expanded have the same state, even   *)
(* when pruning lets a dropped state be generated again.                   *)
(***************************************************************************)
OneNodePerState ==
    \A m, n \in Live : node[m].state = node[n].state => m = n

\* Without pruning a node that was created stays in some queue until it is expanded.
NothingLost == ~Pruning => Queued \subseteq Live

(***************************************************************************)
(* When the search gives up without pruning, the closed states prove that  *)
(* no goal is reachable (an initial state that is a goal aside, which the  *)
(* search does not handle: see EmptyPlanFound).                            *)
(***************************************************************************)
NoPlanIsCertified ==
    result = "no_plan" /\ ~Pruning /\ ~IsGoal(task, task.init)
        => UnsolvabilityCertificate(task, closed)

\* The plan extract_plan returns leads from the initial state to a goal.
PlanSolvesTask == result = "plan" => Solves(task, task.init, plan)

\* With pruning only nodes of novelty 1 or 2 are ever expanded.
PruningIsStrict ==
    Pruning => \A n \in processed : node[n].w_g = "One" \/ w_gr[n] \in {"One", "Two"}

(***************************************************************************)
(* #r: the relevant atoms reached on the way to the node since #g last     *)
(* decreased, those already true then not counted.  The code caches the    *)
(* sets and derives them from each other in the order of the queues; the   *)
(* definition here only looks at the path.                                 *)
(***************************************************************************)
PathSinceDecrease ==
    LET path[n \in Nodes] ==
            IF DecreasesUnachieved(n) THEN <<n>> ELSE Append(path[Parent(n)], n)
    IN  path

RelevantCountExact ==
    \A n \in Nodes : relevant[n] # None =>
        LET path    == PathSinceDecrease[n]
            reached == UNION {AtomsOf(node[m].state) \cap relevant[n].rel : m \in {path[i] : i \in DOMAIN path}}
        IN  /\ relevant[n].reached = reached
            /\ relevant[n].num = Cardinality(reached \ AtomsOf(node[Head(path)].state))

\* process_node: "Don't process a node twice!" - no state is expanded twice.
NeverExpandedTwice ==
    [][pending = {} /\ pending' # {} => node[cur'].state \notin closed]_vars

(***************************************************************************)
(* The four queues, the lazy evaluation and the node bookkeeping implement *)
(* the plain forward search: dropping a state needs pruning, and giving up *)
(* without pruning needs a certificate.                                    *)
(***************************************************************************)
OpenStates == {node[n].state : n \in Live \ processed}

FS == INSTANCE ForwardSearch WITH MayDrop <- Pruning, open <- OpenStates

ImplementsForwardSearch == FS!Spec

\* The search comes to an end.
Termination == <>(pc = "done")

(***************************************************************************)
(* extract_plan "returns true iff there is an actual plan": an initial     *)
(* state that is a goal is solved by the empty plan.                       *)
(***************************************************************************)
EmptyPlanFound == IsGoal(task, task.init) => result # "no_plan"
=============================================================================
