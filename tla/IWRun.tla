------------------------------- MODULE IWRun --------------------------------
(***************************************************************************)
(* IWRun: the simulation of search/drivers/sbfws/iw_run.hxx that computes  *)
(* the set R of relevant atoms for SBFWS.  Depending on the options it     *)
(* throws IW(1), IW(2) or both from a seed state - breadth-first searches  *)
(* that keep only nodes of novelty at most the width - until each subgoal  *)
(* was reached once, and reads R off the novelty table or off the paths to *)
(* the subgoals.                                                           *)
(*                                                                         *)
(* The seed is task.init; a subgoal is named by its variable.  All calls   *)
(* set _complete to FALSE, so process_node_complete is never reached, and  *)
(* the counters that only feed the statistics are left out.                *)
(***************************************************************************)
EXTENDS Novelty, FiniteSetsExt, SequencesExt

CONSTANT Configs   \* the option settings to consider

ConfigType == [method : {"r_all", "r_g_prime", "adaptive", "plain"},
               max_width : {1, 2},      \* width.simulation, the width of the evaluator
               goal_directed : BOOLEAN,
               too_many_actions : BOOLEAN]   \* whether sim.act_cutoff is exceeded

\* The adaptive method runs IW(2) and needs an evaluator that wide.
ASSUME ConfigsAssumption ==
    /\ Configs \subseteq ConfigType
    /\ \A c \in Configs : c.method = "adaptive" => c.max_width = 2

VARIABLES
    task,       \* the problem and the seed state
    config,     \* _config
    pc,         \* where compute_R stands
    width,      \* the width of the current or last run, 0 before the first
    node,       \* the nodes of the current run, by generation order
    table,      \* the tuples in the tables of the evaluator
    open_w1, open_w2, open_w1_next, open_w2_next,   \* the open lists
    current,    \* the node being expanded
    pending,    \* the applicable actions still to try
    in_seed,    \* the subgoals true in the seed
    unreached,  \* the subgoals not reached yet
    optimal,    \* _optimal_paths: the node that reached a subgoal, or 0
    R           \* what compute_R returned, {} before

open == <<open_w1, open_w2, open_w1_next, open_w2_next>>
goals == <<in_seed, unreached, optimal>>
vars == <<task, config, pc, width, node, table, open, current, pending, goals, R>>

Nodes == DOMAIN node
Subgoals == DOMAIN task.goal
HoldsIn(g, s) == s[g] = task.goal[g]   \* goal(state, i)
HasParent(n) == node[n].parent # 0

Init ==
    /\ task \in Tasks /\ config \in Configs
    /\ pc = "compute_R" /\ width = 0
    /\ node = <<>> /\ table = {}
    /\ open_w1 = <<>> /\ open_w2 = <<>> /\ open_w1_next = <<>> /\ open_w2_next = <<>>
    /\ current = 0 /\ pending = {}
    /\ in_seed = {} /\ unreached = {} /\ optimal = [g \in Subgoals |-> 0]
    /\ R = {}

-----------------------------------------------------------------------------
\* The novelty a state whose checked tuples are X gets; 3 stands for "greater".
NoveltyOf(X) ==
    LET new == {Cardinality(x) : x \in X \ table}
    IN  IF new = {} THEN 3 ELSE Min(new)

\* The tuples the compound evaluator looks up, against the parent's state if any.
Checked(s, p) ==
    UNION {IF p = 0 THEN Tuples(k, s) ELSE TuplesToCheck(k, s, node[p].state, TRUE)
              : k \in 1..config.max_width}

\* A successor that is kept waits for the next level.
EnqueueNow(n, w) ==   \* slip: it joins the current level
    /\ open_w1' = IF w = 1 THEN Append(open_w1, n) ELSE open_w1
    /\ open_w2' = IF w = 2 /\ w <= width THEN Append(open_w2, n) ELSE open_w2
    /\ UNCHANGED <<open_w1_next, open_w2_next>>

Enqueue(n, w) ==
    /\ open_w1_next' = IF w = 1 THEN Append(open_w1_next, n) ELSE open_w1_next
    /\ open_w2_next' = IF w = 2 /\ w <= width THEN Append(open_w2_next, n) ELSE open_w2_next
    /\ UNCHANGED <<open_w1, open_w2>>

\* process_node: cross off the subgoals that state s reaches.
Reaches(s) == {g \in unreached : HoldsIn(g, s)}

ProcessLastWins(n, s) ==   \* slip: a later node replaces the first
    /\ unreached' = unreached \ Reaches(s)
    /\ optimal' = [g \in Subgoals |-> IF HoldsIn(g, s) THEN n ELSE optimal[g]]
    /\ UNCHANGED in_seed

ProcessNode(n, s) ==
    /\ unreached' = unreached \ Reaches(s)
    /\ optimal' = [g \in Subgoals |-> IF g \in Reaches(s) /\ optimal[g] = 0 THEN n ELSE optimal[g]]
    /\ UNCHANGED in_seed

-----------------------------------------------------------------------------
(***************************************************************************)
(* reset() and the first lines of run(): mark_seed_subgoals, and the seed  *)
(* evaluated and queued, whatever its novelty.                             *)
(***************************************************************************)
StaleTable == table   \* slip: reset() forgets the evaluator
TableAtStart == {}

ToReach(s) == {g \in Subgoals : ~HoldsIn(g, s)}

StartRun(w) ==
    LET s == task.init
    IN  /\ node' = <<[state |-> s, parent |-> 0, g |-> 0, nov2 |-> {}]>>
        /\ table' = TableAtStart \cup Checked(s, 0)
        /\ width' = w /\ pc' = "run"
        /\ open_w1' = <<1>> /\ open_w2' = <<>> /\ open_w1_next' = <<>> /\ open_w2_next' = <<>>
        /\ in_seed' = {g \in Subgoals : HoldsIn(g, s)}
        /\ unreached' = ToReach(s)
        /\ optimal' = [g \in Subgoals |-> 0]
        /\ current' = 0 /\ pending' = {}
        /\ UNCHANGED <<task, config, R>>

\* compute_R returns.
Return(r) ==
    /\ R' = r /\ pc' = "done"
    /\ UNCHANGED <<task, config, width, node, table, open, current, pending, goals>>

Nonzero(atoms) == {x \in atoms : x[2] # 0}   \* getValue() != 0
R_all == Nonzero(Atom)

\* compute_R: choose the method.
ComputeR ==
    /\ pc = "compute_R"
    /\ CASE config.method = "r_all" -> Return(R_all)
         [] config.method = "plain" -> StartRun(config.max_width)
         [] OTHER                   -> StartRun(1)

-----------------------------------------------------------------------------
\* The loop of run() takes the next node of the level, those of novelty 1 first.
Expand ==
    /\ pc = "run" /\ pending = {}
    /\ open_w1 # <<>> \/ open_w2 # <<>>
    /\ IF open_w1 # <<>>
       THEN current' = Head(open_w1) /\ open_w1' = Tail(open_w1) /\ UNCHANGED open_w2
       ELSE current' = Head(open_w2) /\ open_w2' = Tail(open_w2) /\ UNCHANGED open_w1
    /\ pending' = ApplicableActions(task, node[current'].state)
    /\ UNCHANGED <<task, config, pc, width, node, table, open_w1_next, open_w2_next, goals, R>>

\* One successor; the run stops at once when it was the last subgoal's.
Generate ==
    /\ pc = "run" /\ pending # {}
    /\ \E a \in pending :
         LET s == NextState(node[current].state, a)
             n == Len(node) + 1
             X == Checked(s, current)
         IN  /\ node' = Append(node, [state |-> s, parent |-> current,
                                      g |-> node[current].g + 1, nov2 |-> {}])
             /\ table' = table \cup X
             /\ ProcessNode(n, s)
             /\ IF unreached' = {}
                THEN pending' = {} /\ pc' = "extract" /\ UNCHANGED open
                ELSE pending' = pending \ {a} /\ Enqueue(n, NoveltyOf(X)) /\ UNCHANGED pc
    /\ UNCHANGED <<task, config, width, current, R>>

\* The level is exhausted: go on with the next one, or end the run.
NextLevel ==
    /\ pc = "run" /\ pending = {} /\ open_w1 = <<>> /\ open_w2 = <<>>
    /\ open_w1' = open_w1_next /\ open_w1_next' = <<>>
    /\ open_w2' = open_w2_next /\ open_w2_next' = <<>>
    /\ pc' = IF open_w1_next = <<>> /\ open_w2_next = <<>> THEN "extract" ELSE "run"
    /\ UNCHANGED <<task, config, width, node, table, current, pending, goals, R>>

-----------------------------------------------------------------------------
\* extract_R_1: all atoms in the novelty-1 table.
ReachedAtoms == {x \in Atom : {x} \in table}

\* extract_seed_nodes
SeedNodes == {optimal[g] : g \in Subgoals \ in_seed} \ {0}

(***************************************************************************)
(* The walk of both marking functions: from each seed node up the parents, *)
(* the root excluded, stopping at a node that was visited before.          *)
(***************************************************************************)
NotAbove(n, visited) ==   \* slip: a seed node marks itself only
    IF HasParent(n) THEN {n} ELSE {}

UpFrom(n, visited) ==
    LET up[m \in Nodes] ==
            IF ~HasParent(m) \/ m \in visited THEN {} ELSE {m} \cup up[node[m].parent]
    IN  up[n]

Visited == FoldSet(LAMBDA n, visited : visited \cup UpFrom(n, visited), {}, SeedNodes)

\* mark_all_atoms_in_path_to_subgoal
AtomsOnPaths == Nonzero(UNION {AtomsOf(node[n].state) : n \in Visited})

\* mark_atoms_in_path_to_subgoal: from each pair the atom the parent has, or both.
Marked(n, x) ==
    LET old == x \cap AtomsOf(node[node[n].parent].state)
    IN  IF old = {} THEN x ELSE old

AtomsOfPairs == Nonzero(UNION {UNION {Marked(n, x) : x \in node[n].nov2} : n \in Visited})

MayRetry == config.max_width = 1 \/ config.too_many_actions   \* slip: IW(2) may be thrown again
NoFurtherRun == width = 2 \/ config.max_width = 1 \/ config.too_many_actions

Extract ==
    /\ pc = "extract"
    /\ CASE config.method = "plain" /\ width = 1 ->
              Return(IF config.goal_directed /\ unreached = {} THEN AtomsOnPaths ELSE ReachedAtoms)
         [] config.method = "r_g_prime" /\ unreached = {} -> Return(AtomsOnPaths)
         [] config.method = "r_g_prime" /\ unreached # {} ->
              IF NoFurtherRun THEN Return(R_all) ELSE StartRun(2)
         [] config.method = "adaptive" /\ width = 1 ->
              IF unreached = {} THEN Return({}) ELSE StartRun(2)
         [] OTHER -> Return(IF unreached = {} THEN AtomsOfPairs ELSE R_all)   \* extract_R_G

Terminating == pc = "done" /\ UNCHANGED vars

Next == ComputeR \/ Expand \/ Generate \/ NextLevel \/ Extract \/ Terminating

\* A simulation is a plain function call.
Spec == Init /\ [][Next]_vars /\ WF_vars(Next)

-----------------------------------------------------------------------------
NodeType == [state : State, parent : Nat, g : Nat,
             nov2 : SUBSET {x \in SUBSET NoveltyAtoms : Cardinality(x) = 2}]

(***************************************************************************)
(* Properties.                                                             *)
(***************************************************************************)
OpenNodes == UNION {ToSet(q) : q \in {open_w1, open_w2, open_w1_next, open_w2_next}}

(***************************************************************************)
(* The bookkeeping of a run.  The table holds exactly the tuples of the    *)
(* states generated so far, although every successor was only compared     *)
(* with its parent, and nothing of an earlier run is left in it.  And the  *)
(* run needs no closed list: a state that comes up again has no new tuple  *)
(* and is pruned, so no state is expanded or queued twice.                 *)
(***************************************************************************)
TableIsHistory ==
    table = UNION {Tuples(k, node[n].state) : k \in 1..config.max_width, n \in Nodes}

Explored == {node[n].parent : n \in {m \in Nodes : HasParent(m)}}

NoStateTwice ==
    \A m, n \in Explored \cup OpenNodes : node[m].state = node[n].state => m = n

TypeOK ==
    /\ task \in Tasks /\ config \in Configs
    /\ pc \in {"compute_R", "run", "extract", "done"}
    /\ width \in 0..2
    /\ node \in Seq(NodeType)
    /\ open_w1 \in Seq(Nodes) /\ open_w2 \in Seq(Nodes)
    /\ open_w1_next \in Seq(Nodes) /\ open_w2_next \in Seq(Nodes)
    /\ current \in Nodes \cup {0}
    /\ pending \subseteq task.actions
    /\ in_seed \subseteq Subgoals /\ unreached \subseteq Subgoals \ in_seed
    /\ optimal \in [Subgoals -> Nodes \cup {0}]
    /\ R \subseteq Atom

RunOK == TypeOK /\ TableIsHistory /\ NoStateTwice

(***************************************************************************)
(* optimal[g] is the first node in which subgoal g holds, no node reached  *)
(* it at a smaller depth, and the subgoals without one are those in the    *)
(* seed and the unreached ones.                                            *)
(***************************************************************************)
OptimalIsFirst ==
    width # 0 => \A g \in Subgoals \ in_seed :
        LET reaching == {n \in Nodes : HoldsIn(g, node[n].state)}
        IN  /\ optimal[g] = (IF reaching = {} THEN 0 ELSE Min(reaching))
            /\ \A n \in reaching : node[optimal[g]].g <= node[n].g
            /\ g \in unreached <=> reaching = {}

(***************************************************************************)
(* What IW(k) is known to achieve, stated without queues or tables: a      *)
(* tuple x' of cost d+1 is guaranteed when from every state in which some  *)
(* guaranteed tuple x of cost d first holds, one action makes x' true.     *)
(***************************************************************************)
Guaranteed(k) ==
    LET Depths == 0..Cardinality(State)
        tuples(S) == UNION {Tuples(i, s) : i \in 1..k, s \in S}
        within[d \in Depths] ==
            IF d = 0 THEN {task.init}
            ELSE LET S == within[d-1] IN S \cup UNION {Successors(task, s) : s \in S}
        guaranteed[d \in Depths] ==
            IF d = 0 THEN tuples({task.init})
            ELSE LET S == within[d-1]
                     T == guaranteed[d-1]
                 IN  {y \in tuples(within[d]) \ tuples(S) :
                        \E x \in T : \A s \in S :
                            x \subseteq AtomsOf(s) =>
                                \E z \in Successors(task, s) : y \subseteq AtomsOf(z)}
    IN  guaranteed

(***************************************************************************)
(* A run of width k that was not stopped early reached every guaranteed    *)
(* subgoal, and on a shortest path.                                        *)
(***************************************************************************)
WidthGuarantee ==
    pc = "extract" =>
        LET G == Guaranteed(width)
        IN  \A g \in Subgoals \ in_seed : \A d \in 1..Cardinality(State) :
                {<<g, task.goal[g]>>} \in G[d] =>
                    optimal[g] # 0 /\ node[optimal[g]].g = d

\* The nonzero atoms on the paths from the seed, itself excluded, to the subgoals.
PathFromSeed(n) ==
    LET path[m \in Nodes] == IF HasParent(m) THEN {m} \cup path[node[m].parent] ELSE {}
    IN  path[n]

OnPaths == Nonzero(UNION {AtomsOf(node[m].state) : m \in UNION {PathFromSeed(n) : n \in SeedNodes}})

(***************************************************************************)
(* "An atom is considered relevant for a certain goal atom if that atom is *)
(* true in at least one of the states that lies on the path between the    *)
(* seed node and the first node where that goal atom is satisfied": so for *)
(* every method but adaptive and plain IW(2).  Cutting the walks short at  *)
(* visited nodes loses no atom, and R'_G is just those atoms, or all atoms *)
(* when some subgoal was not reached.                                      *)
(***************************************************************************)
RelevantPaths ==
    pc = "done" =>
        /\ config.method \in {"r_all", "r_g_prime"} \/ (config.method = "plain" /\ width = 1)
             => OnPaths \cap NoveltyAtoms \subseteq R
        /\ config.method = "r_g_prime" => R = IF unreached = {} THEN OnPaths ELSE R_all

\* compute_R returns.
Termination == <>(pc = "done")
=============================================================================
