----------------------- MODULE HeuristicSearch_proofs -----------------------
(***************************************************************************)
(* Proofs about the heuristic searches, for every task, every heuristic    *)
(* whose dead ends are dead ends, and every driver and option: plans are   *)
(* correct, and UNSOLVABLE is a proof that there is none.                  *)
(*                                                                         *)
(* Two arguments carry them.  A plan is read off the parent links, which   *)
(* form a forest because g grows along them; updates in the open list keep *)
(* it one because no node has an open parent.  And the closed states of    *)
(* the best-first search can only be left through open nodes or into       *)
(* states that are not solvable, because estimates of -1 are inherited     *)
(* from parents that are not solvable themselves.                          *)
(***************************************************************************)
EXTENDS HeuristicSearch, PlanningTask_proofs

InEHC  == pc \in {"climb", "ehc_open", "ehc_expand"}
InGBFS == pc \in {"gbfs_open", "gbfs_expand"}

PCs == {"start", "climb", "ehc_open", "ehc_expand", "gbfs_start", "gbfs_open",
        "gbfs_expand", "solved", "failed", "oom", "done"}

ExitCodes == {"none", "PLAN_FOUND", "RUNTIME_ERROR", "OUT_OF_MEMORY", "UNSOLVABLE"}

NodeType == [state : State, via : Action \cup {NoAction}, parent : Nat, g : Nat,
             h : Int, relevant : SUBSET Atom, helpful : BOOLEAN, evals : Nat]

TypeOK ==
    /\ task \in Tasks /\ heuristic \in Heuristics(task) /\ config \in Configs
    /\ pc \in PCs
    /\ node \in Seq(NodeType)
    /\ queue \in Seq(Nodes)
    /\ open \subseteq Nodes
    /\ closed \subseteq State
    /\ bound \in Int
    /\ cur \in Nat /\ (pc \in {"climb", "ehc_expand", "gbfs_expand"} => cur \in Nodes)
    /\ pending \subseteq task.actions
    /\ solution \in Nat
    /\ exit \in ExitCodes
    /\ pc = "start" => queue = <<>> /\ open = {}

\* A node is the root of its phase, or comes from its parent by its action.
Linked(n) ==
    \/ node[n].parent = 0 /\ node[n].state = task.init /\ node[n].g = 0
    \/ /\ node[n].parent \in Nodes
       /\ LET p == node[node[n].parent] IN
          /\ node[n].g = p.g + 1
          /\ node[n].via \in ApplicableActions(task, p.state)
          /\ node[n].state = NextState(p.state, node[n].via)

Links ==
    /\ \A n \in Nodes : Linked(n)
    /\ pc \in {"ehc_expand", "gbfs_expand"} =>
           pending \subseteq ApplicableActions(task, node[cur].state)

\* Hill climbing evaluates every node; the best-first search links new nodes
\* to closed ones only.
PhasesOK ==
    /\ InEHC => \A n \in Nodes : node[n].h = heuristic.h[node[n].state]
    /\ InGBFS => \A n \in Nodes : node[n].parent # 0 =>
                     /\ node[n].parent \notin open
                     /\ node[node[n].parent].state \in closed
    /\ pc = "gbfs_expand" => cur \notin open /\ node[cur].state \in closed

\* An estimate of -1, computed or inherited, is a proof that there is no plan.
DeadEndsOK ==
    InGBFS => \A n \in Nodes : DeadEnd(node[n]) => node[n].state \notin Solvable(task)

\* The states in front of the closed ones: open, or of no use.
Ahead(s) ==
    \/ s \in closed
    \/ \E m \in open : node[m].state = s
    \/ s \notin Solvable(task)

ExploredOK ==
    InGBFS =>
        /\ Ahead(task.init)
        /\ \A s \in closed :
              /\ ~IsGoal(task, s)
              /\ \A a \in ApplicableActions(task, s) :
                    \/ Ahead(NextState(s, a))
                    \/ pc = "gbfs_expand" /\ s = node[cur].state /\ a \in pending

AnswerOK ==
    /\ pc = "solved" => solution \in Nodes /\ IsGoal(task, node[solution].state)
    /\ pc = "failed" => task.init \notin Solvable(task)
    /\ exit = "UNSOLVABLE" => task.init \notin Solvable(task)
    /\ exit # "RUNTIME_ERROR"

\* Where no helpfulness is assessed between the creation of a node and its
\* expansion, exactly the nodes not evaluated early wait for their expansion.
AssessesNothing == config.driver = "plain" \/ config.evaluation # "delayed_for_unhelpful"

EvaluationsOK ==
    InGBFS /\ AssessesNothing =>
        \A n \in Nodes :
            /\ config.evaluation = "delayed_for_unhelpful" => ~node[n].helpful
            /\ node[n].evals = IF n \in open /\ ~EarlyEvaluation(node[n]) THEN 0 ELSE 1

-----------------------------------------------------------------------------
(* Operators *)

LEMMA TaskOK ==
    ASSUME TypeOK
    PROVE  /\ task \in TaskType /\ task.init \in State
           /\ \A s \in State : \A a \in ApplicableActions(task, s) :
                  a \in Action /\ a \in task.actions /\ NextState(s, a) \in State
<1>1. task \in TaskType
  BY TasksAssumption DEF TypeOK
<1> QED BY <1>1, TaskFacts DEF ApplicableActions

LEMMA HeuristicOK ==
    ASSUME TypeOK, NEW s \in State
    PROVE  /\ heuristic.h[s] \in Int /\ heuristic.relevant[s] \in SUBSET Atom
           /\ heuristic.h[s] = 0 <=> IsGoal(task, s)
           /\ heuristic.h[s] < 0 => heuristic.h[s] = -1 /\ s \notin Solvable(task)
<1>1. heuristic \in HeuristicType
  BY HeuristicsAssumption DEF TypeOK
<1>2. /\ (heuristic.h[s] = 0) = IsGoal(task, s)
      /\ heuristic.h[s] < 0 => heuristic.h[s] = -1 /\ s \notin Solvable(task)
  BY HeuristicsAssumption DEF TypeOK
<1> QED BY <1>1, <1>2 DEF HeuristicType, IsGoal, Satisfies

LEMMA NodeFacts ==
    ASSUME TypeOK
    PROVE  /\ Len(node) \in Nat /\ Nodes = 1..Len(node)
           /\ \A n \in Nodes : node[n] \in NodeType /\ node[n].state \in State
<1>1. node \in Seq(NodeType)
  BY DEF TypeOK
<1>2. Len(node) \in Nat /\ Nodes = 1..Len(node) /\ \A n \in 1..Len(node) : node[n] \in NodeType
  BY <1>1, LenProperties, ElementOfSeq DEF Nodes
<1>3. \A n \in 1..Len(node) : node[n].state \in State
  BY <1>2 DEF NodeType
<1> QED BY <1>2, <1>3

\* What the observers do to a node: they only touch its evaluation.
SameNode(m, n) ==
    /\ m \in NodeType
    /\ m.state = n.state /\ m.via = n.via /\ m.parent = n.parent /\ m.g = n.g

LEMMA EvaluateFacts ==
    ASSUME TypeOK, NEW n \in NodeType
    PROVE  /\ SameNode(Evaluate(n), n)
           /\ Evaluate(n).h = heuristic.h[n.state] /\ Evaluate(n).evals = n.evals + 1
           /\ Evaluate(n).helpful = n.helpful
<1>1. heuristic.h[n.state] \in Int /\ heuristic.relevant[n.state] \in SUBSET Atom
  BY HeuristicOK DEF NodeType
<1> DEFINE n1 == [n EXCEPT !.h = heuristic.h[n.state]]
           n2 == [n1 EXCEPT !.relevant = heuristic.relevant[n.state]]
           n3 == [n2 EXCEPT !.evals = n.evals + 1]
<1>2. Evaluate(n) = n3
  BY DEF Evaluate
<1>3. SameNode(n1, n) /\ n1.h = heuristic.h[n.state] /\ n1.evals = n.evals /\ n1.helpful = n.helpful
  BY <1>1 DEF SameNode, NodeType
<1> HIDE DEF n1
<1>4. SameNode(n2, n1) /\ n2.h = n1.h /\ n2.evals = n1.evals /\ n2.helpful = n1.helpful
  BY <1>1, <1>3 DEF SameNode, NodeType
<1> HIDE DEF n2
<1>5. SameNode(n3, n2) /\ n3.h = n2.h /\ n3.evals = n.evals + 1 /\ n3.helpful = n2.helpful
  BY <1>3, <1>4 DEF SameNode, NodeType
<1> HIDE DEF n3
<1> QED BY <1>2, <1>3, <1>4, <1>5 DEF SameNode

LEMMA RootFacts ==
    ASSUME TypeOK
    PROVE  Root \in NodeType
BY TaskOK DEF Root, NodeType, Unevaluated

LEMMA ChildFacts ==
    ASSUME TypeOK, NEW p \in Nodes, NEW a \in ApplicableActions(task, node[p].state)
    PROVE  /\ Child(p, a) \in NodeType
           /\ Child(p, a).state = NextState(node[p].state, a) /\ Child(p, a).via = a
           /\ Child(p, a).parent = p /\ Child(p, a).g = node[p].g + 1
           /\ Child(p, a).evals = 0 /\ Child(p, a).helpful = FALSE
<1>1. /\ node[p].state \in State /\ node[p].g \in Nat /\ p \in Nat
  BY NodeFacts DEF NodeType
<1>2. NextState(node[p].state, a) \in State /\ a \in Action
  BY <1>1, TaskOK
<1> DEFINE c1 == [Root EXCEPT !.state = NextState(node[p].state, a)]
           c2 == [c1 EXCEPT !.via = a]
           c3 == [c2 EXCEPT !.parent = p]
           c4 == [c3 EXCEPT !.g = node[p].g + 1]
<1>3. Child(p, a) = c4
  BY DEF Child
<1>4. Root \in NodeType /\ Root.evals = 0 /\ Root.helpful = FALSE
  BY RootFacts DEF Root
<1>5. c1 \in NodeType /\ c1.state = NextState(node[p].state, a) /\ c1.evals = 0 /\ c1.helpful = FALSE
  BY <1>2, <1>4 DEF NodeType
<1> HIDE DEF c1
<1>6. /\ c2 \in NodeType /\ c2.state = c1.state /\ c2.via = a
      /\ c2.evals = 0 /\ c2.helpful = FALSE
  BY <1>2, <1>5 DEF NodeType
<1> HIDE DEF c2
<1>7. /\ c3 \in NodeType /\ c3.state = c1.state /\ c3.via = a /\ c3.parent = p
      /\ c3.evals = 0 /\ c3.helpful = FALSE
  BY <1>1, <1>6 DEF NodeType
<1> HIDE DEF c3
<1>8. /\ c4 \in NodeType /\ c4.state = c1.state /\ c4.via = a /\ c4.parent = p
      /\ c4.g = node[p].g + 1 /\ c4.evals = 0 /\ c4.helpful = FALSE
  BY <1>1, <1>7 DEF NodeType
<1> HIDE DEF c4
<1> QED BY <1>3, <1>5, <1>8

LEMMA CreationFacts ==
    ASSUME TypeOK, NEW n \in NodeType, n.parent = 0 \/ n.parent \in Nodes
    PROVE  /\ SameNode(NotifyCreation(n), n)
           /\ NotifyCreation(n).h = IF EarlyEvaluation(n) THEN heuristic.h[n.state]
                                    ELSE node[n.parent].h
           /\ NotifyCreation(n).evals = IF EarlyEvaluation(n) THEN n.evals + 1 ELSE n.evals
           /\ AssessesNothing /\ config.evaluation = "delayed_for_unhelpful" =>
                  NotifyCreation(n).helpful = n.helpful
<1> DEFINE m == OnCreation(n)
<1>1. /\ SameNode(m, n) /\ m.helpful = n.helpful
      /\ m.h = IF EarlyEvaluation(n) THEN heuristic.h[n.state] ELSE node[n.parent].h
      /\ m.evals = IF EarlyEvaluation(n) THEN n.evals + 1 ELSE n.evals
  <2>1. CASE EarlyEvaluation(n)
    BY <2>1, EvaluateFacts DEF OnCreation
  <2>2. CASE ~EarlyEvaluation(n)
    <3>1. node[n.parent].h \in Int
      BY <2>2, NodeFacts DEF EarlyEvaluation, NodeType
    <3> QED BY <2>2, <3>1 DEF OnCreation, Inherit, SameNode, NodeType
  <2> QED BY <2>1, <2>2
<1> HIDE DEF m
<1>2. SameNode(MarkAsHelpful(m), m) /\ MarkAsHelpful(m).h = m.h /\ MarkAsHelpful(m).evals = m.evals
  <2>1. m \in NodeType /\ IsMarked(m) \in BOOLEAN
    BY <1>1 DEF SameNode, IsMarked
  <2> HIDE DEF IsMarked
  <2> QED BY <2>1 DEF MarkAsHelpful, SameNode, NodeType
<1>3. CASE config.driver = "smart" /\ RequiresHelpfulnessAssessment
  <2>1. NotifyCreation(n) = MarkAsHelpful(m)
    BY <1>3 DEF NotifyCreation, m
  <2>2. ~(AssessesNothing /\ config.evaluation = "delayed_for_unhelpful")
    BY <1>3 DEF AssessesNothing
  <2> QED BY <1>1, <1>2, <2>1, <2>2 DEF SameNode
<1>4. CASE ~(config.driver = "smart" /\ RequiresHelpfulnessAssessment)
  <2>1. NotifyCreation(n) = m
    BY <1>4 DEF NotifyCreation, m
  <2> QED BY <1>1, <2>1
<1> QED BY <1>3, <1>4

LEMMA ExpansionFacts ==
    ASSUME TypeOK, NEW n \in NodeType
    PROVE  /\ SameNode(OnExpansion(n), n) /\ OnExpansion(n).helpful = n.helpful
           /\ OnExpansion(n).h = IF EarlyEvaluation(n) THEN n.h ELSE heuristic.h[n.state]
           /\ OnExpansion(n).evals = IF EarlyEvaluation(n) THEN n.evals ELSE n.evals + 1
BY EvaluateFacts DEF OnExpansion, SameNode

LEMMA UpdateFacts ==
    ASSUME NEW old \in NodeType, NEW new \in NodeType
    PROVE  LET up == UpdateInOpenList(old, new)
           IN  /\ up \in NodeType
               /\ up.state = old.state /\ up.h = old.h /\ up.helpful = old.helpful
               /\ up.evals = old.evals
               /\ \/ /\ up.parent = old.parent /\ up.via = old.via /\ up.g = old.g
                  \/ /\ up.parent = new.parent /\ up.via = new.via /\ up.g = new.g
                     /\ new.g < old.g
BY DEF UpdateInOpenList, NodeType

\* The nodes after a new one.
LEMMA AppendFacts ==
    ASSUME TypeOK, NEW n \in NodeType, node' = Append(node, n)
    PROVE  /\ node' \in Seq(NodeType) /\ Len(node') = Len(node) + 1
           /\ Nodes' = Nodes \cup {Len(node')} /\ Len(node') \notin Nodes
           /\ node'[Len(node')] = n /\ \A m \in Nodes : node'[m] = node[m]
<1>1. node \in Seq(NodeType) /\ Len(node) \in Nat /\ Nodes = 1..Len(node)
  BY NodeFacts DEF TypeOK
<1>2. node' \in Seq(NodeType) /\ Len(node') = Len(node) + 1 /\ node'[Len(node) + 1] = n
  BY <1>1
<1>3. \A m \in 1..Len(node) : node'[m] = node[m]
  BY <1>1
<1>4. Nodes' = 1..(Len(node) + 1)
  BY <1>2, LenProperties DEF Nodes
<1> QED BY <1>1, <1>2, <1>3, <1>4

\* The nodes after one of them is replaced.
LEMMA ExceptFacts ==
    ASSUME TypeOK, NEW n \in Nodes, NEW e \in NodeType, node' = [node EXCEPT ![n] = e]
    PROVE  /\ node' \in Seq(NodeType) /\ Nodes' = Nodes
           /\ node'[n] = e /\ \A m \in Nodes \ {n} : node'[m] = node[m]
<1>1. node \in Seq(NodeType) /\ Len(node) \in Nat /\ Nodes = 1..Len(node)
  BY NodeFacts DEF TypeOK
<1>2. DOMAIN node' = 1..Len(node) /\ \A m \in 1..Len(node) : node'[m] = IF m = n THEN e ELSE node[m]
  BY <1>1 DEF Nodes
<1>3. node' \in Seq(NodeType)
  BY <1>1, ExceptSeq
<1> QED BY <1>1, <1>2, <1>3 DEF Nodes

\* An action that is pending is applicable in the node being expanded.
LEMMA PendingFacts ==
    ASSUME TypeOK, Links, pc \in {"ehc_expand", "gbfs_expand"}, NEW a \in pending
    PROVE  /\ cur \in Nodes /\ node[cur].state \in State /\ cur \in Nat /\ cur # 0
           /\ a \in ApplicableActions(task, node[cur].state)
           /\ Child(cur, a) \in NodeType
<1>1. cur \in Nodes
  BY DEF TypeOK
<1>2. node[cur].state \in State /\ cur \in Nat /\ cur # 0
  BY <1>1, NodeFacts
<1>3. a \in ApplicableActions(task, node[cur].state)
  BY DEF Links
<1> QED BY <1>1, <1>2, <1>3, ChildFacts

-----------------------------------------------------------------------------
(* The steps of the best-first search that change a node *)

\* A node leaves the open list and is evaluated, if it was not before.
LEMMA OpenFacts ==
    ASSUME TypeOK, GBFSOpen
    PROVE  \E n \in open :
              /\ n \in Nodes /\ node[n] \in NodeType
              /\ ~IsGoal(task, node[n].state)
              /\ pc = "gbfs_open" /\ pc' = "gbfs_expand" /\ cur' = n /\ open' = open \ {n}
              /\ closed' = closed \cup {node[n].state}
              /\ pending' = ApplicableActions(task, node[n].state)
              /\ Nodes' = Nodes /\ node' \in Seq(NodeType)
              /\ node'[n] = OnExpansion(node[n])
              /\ \A m \in Nodes \ {n} : node'[m] = node[m]
              /\ \A m \in Nodes : SameNode(node'[m], node[m])
              /\ UNCHANGED <<task, heuristic, config, queue, bound, solution, exit>>
<1>1. PICK n \in open : /\ ~IsGoal(task, node[n].state) /\ cur' = n /\ open' = open \ {n}
                        /\ closed' = closed \cup {node[n].state}
                        /\ pending' = ApplicableActions(task, node[n].state)
                        /\ node' = [node EXCEPT ![n] = OnExpansion(node[n])]
  BY DEF GBFSOpen, Best, Dequeue
<1>2. n \in Nodes /\ node[n] \in NodeType
  BY NodeFacts DEF TypeOK
<1>3. OnExpansion(node[n]) \in NodeType /\ SameNode(OnExpansion(node[n]), node[n])
  BY <1>2, ExpansionFacts DEF SameNode
<1>4. /\ Nodes' = Nodes /\ node' \in Seq(NodeType) /\ node'[n] = OnExpansion(node[n])
      /\ \A m \in Nodes \ {n} : node'[m] = node[m]
  BY <1>1, <1>2, <1>3, ExceptFacts
<1>5. \A m \in Nodes : SameNode(node'[m], node[m])
  BY <1>3, <1>4, NodeFacts DEF SameNode
<1>6. /\ pc = "gbfs_open" /\ pc' = "gbfs_expand"
      /\ UNCHANGED <<task, heuristic, config, queue, bound, solution, exit>>
  BY DEF GBFSOpen, problem
<1> QED BY <1>1, <1>2, <1>4, <1>5, <1>6

\* An open node keeps its state and its estimate, and may get a shorter path.
LEMMA UpdatedFacts ==
    ASSUME TypeOK, Links, NEW a \in pending, GBFSUpdate(a)
    PROVE  /\ pc = "gbfs_expand" /\ cur \in Nodes /\ cur # 0
           /\ a \in ApplicableActions(task, node[cur].state)
           /\ pending' = pending \ {a} /\ Nodes' = Nodes /\ node' \in Seq(NodeType)
           /\ UNCHANGED <<task, heuristic, config, pc, queue, open, closed, bound, cur, solution, exit>>
           /\ \E o \in open :
                 /\ o \in Nodes /\ node[o] \in NodeType
                 /\ node[o].state = NextState(node[cur].state, a)
                 /\ \A m \in Nodes \ {o} : node'[m] = node[m]
                 /\ LET up == node'[o]
                    IN  /\ up.state = node[o].state /\ up.h = node[o].h
                        /\ up.helpful = node[o].helpful /\ up.evals = node[o].evals
                        /\ \/ up.parent = node[o].parent /\ up.via = node[o].via /\ up.g = node[o].g
                           \/ /\ up.parent = cur /\ up.via = a /\ up.g = node[cur].g + 1
                              /\ up.g < node[o].g
<1>1. /\ pc = "gbfs_expand" /\ pending' = pending \ {a}
      /\ UNCHANGED <<task, heuristic, config, pc, queue, open, closed, bound, cur, solution, exit>>
  BY DEF GBFSUpdate, problem
<1> DEFINE n == Child(cur, a)
<1>2. /\ cur \in Nodes /\ cur # 0 /\ a \in ApplicableActions(task, node[cur].state) /\ n \in NodeType
  BY <1>1, PendingFacts
<1>3. n.parent = cur /\ n.via = a /\ n.g = node[cur].g + 1 /\ n.state = NextState(node[cur].state, a)
  BY <1>2, ChildFacts
<1> HIDE DEF n
<1>4. PICK o \in open : node[o].state = n.state /\ node' = [node EXCEPT ![o] = UpdateInOpenList(node[o], n)]
  BY DEF GBFSUpdate, n
<1> DEFINE up == UpdateInOpenList(node[o], n)
<1>5. o \in Nodes /\ node[o] \in NodeType
  BY NodeFacts DEF TypeOK
<1>6. /\ up \in NodeType /\ up.state = node[o].state /\ up.h = node[o].h
      /\ up.helpful = node[o].helpful /\ up.evals = node[o].evals
      /\ \/ up.parent = node[o].parent /\ up.via = node[o].via /\ up.g = node[o].g
         \/ up.parent = n.parent /\ up.via = n.via /\ up.g = n.g /\ n.g < node[o].g
  BY <1>2, <1>5, UpdateFacts
<1> HIDE DEF up
<1>7. /\ Nodes' = Nodes /\ node' \in Seq(NodeType) /\ node'[o] = up
      /\ \A m \in Nodes \ {o} : node'[m] = node[m]
  <2>1. node' = [node EXCEPT ![o] = up]
    BY <1>4 DEF up
  <2> QED BY <1>5, <1>6, <2>1, ExceptFacts
<1> QED BY <1>1, <1>2, <1>3, <1>4, <1>5, <1>6, <1>7

\* A child is created, and dropped if its estimate says it is a dead end.
LEMMA GeneratedFacts ==
    ASSUME TypeOK, Links, NEW a \in pending, GBFSGenerate(a)
    PROVE  /\ pc = "gbfs_expand" /\ cur \in Nodes /\ cur # 0
           /\ a \in ApplicableActions(task, node[cur].state)
           /\ pending' = pending \ {a}
           /\ UNCHANGED <<task, heuristic, config, pc, queue, closed, bound, cur, solution, exit>>
           /\ \E n \in NodeType :
                 /\ SameNode(n, Child(cur, a))
                 /\ n.parent = cur /\ n.state = NextState(node[cur].state, a)
                 /\ n.h = heuristic.h[n.state] \/ n.h = node[cur].h
                 /\ n.evals = IF EarlyEvaluation(Child(cur, a)) THEN 1 ELSE 0
                 /\ AssessesNothing /\ config.evaluation = "delayed_for_unhelpful" => ~n.helpful
                 /\ \/ n.h = -1 /\ UNCHANGED <<node, open>>
                    \/ \E k \in Nat \ Nodes :
                          /\ node' = Append(node, n) /\ node' \in Seq(NodeType)
                          /\ Nodes' = Nodes \cup {k} /\ open' = open \cup {k} /\ node'[k] = n
                          /\ \A m \in Nodes : node'[m] = node[m]
<1>1. /\ pc = "gbfs_expand" /\ pending' = pending \ {a}
      /\ UNCHANGED <<task, heuristic, config, pc, queue, closed, bound, cur, solution, exit>>
  BY DEF GBFSGenerate, problem
<1> DEFINE c == Child(cur, a)
           n == NotifyCreation(c)
<1>2. /\ cur \in Nodes /\ cur # 0 /\ a \in ApplicableActions(task, node[cur].state) /\ c \in NodeType
  BY <1>1, PendingFacts
<1>3. /\ c.parent = cur /\ c.state = NextState(node[cur].state, a)
      /\ c.evals = 0 /\ c.helpful = FALSE
  BY <1>2, ChildFacts
<1>4. \/ DeadEnd(n) /\ UNCHANGED <<node, open>>
      \/ node' = Append(node, n) /\ open' = open \cup {Len(node')}
  BY DEF GBFSGenerate
<1> HIDE DEF c
<1>5. /\ n \in NodeType /\ SameNode(n, c) /\ n.parent = cur /\ n.state = c.state
      /\ n.h = heuristic.h[n.state] \/ n.h = node[cur].h
      /\ n.evals = IF EarlyEvaluation(c) THEN 1 ELSE 0
      /\ AssessesNothing /\ config.evaluation = "delayed_for_unhelpful" => ~n.helpful
  BY <1>2, <1>3, CreationFacts DEF SameNode
<1> HIDE DEF n
<1>6. CASE DeadEnd(n) /\ UNCHANGED <<node, open>>
  BY <1>1, <1>2, <1>3, <1>5, <1>6 DEF DeadEnd, c
<1>7. CASE node' = Append(node, n) /\ open' = open \cup {Len(node')}
  <2>1. /\ node' \in Seq(NodeType) /\ Len(node') = Len(node) + 1
        /\ Nodes' = Nodes \cup {Len(node')} /\ Len(node') \notin Nodes
        /\ node'[Len(node')] = n /\ \A m \in Nodes : node'[m] = node[m]
    BY <1>5, <1>7, AppendFacts
  <2>2. Len(node') \in Nat \ Nodes
    BY <2>1, NodeFacts
  <2> QED BY <1>1, <1>2, <1>3, <1>5, <1>7, <2>1, <2>2 DEF c
<1> QED BY <1>4, <1>6, <1>7

-----------------------------------------------------------------------------
(* Types *)

LEMMA TypeStep ==
    ASSUME TypeOK, Links, [Next]_vars
    PROVE  TypeOK'
<1> USE DEF PCs
<1>1. /\ node \in Seq(NodeType) /\ Len(node) \in Nat /\ Nodes = 1..Len(node)
      /\ \A n \in Nodes : /\ node[n] \in NodeType /\ node[n].state \in State
                          /\ heuristic.h[node[n].state] \in Int /\ node[n].h \in Int
                          /\ ApplicableActions(task, node[n].state) \subseteq task.actions
  BY NodeFacts, HeuristicOK DEF TypeOK, ApplicableActions, NodeType
<1>2. Root \in NodeType /\ Evaluate(Root) \in NodeType /\ NotifyCreation(Root) \in NodeType
  BY RootFacts, EvaluateFacts, CreationFacts DEF SameNode, Root
<1>3. CASE StartEHC
  <2>1. node' \in Seq(NodeType) /\ Nodes' = {1} /\ cur' = 1
    BY <1>2, <1>3 DEF StartEHC, Nodes
  <2> QED BY <1>3, <2>1 DEF StartEHC, TypeOK, problem
<1>4. CASE StartEpisode
  <2>1. cur \in Nodes /\ node[cur].h \in Int /\ <<cur>> \in Seq(Nodes)
    BY <1>1, <1>4 DEF StartEpisode, TypeOK
  <2>2. Nodes' = Nodes
    BY <1>4 DEF StartEpisode, Nodes
  <2> QED BY <1>4, <2>1, <2>2 DEF StartEpisode, TypeOK, problem
<1>5. CASE EHCReachesGoal \/ EHCEndsInDeadEnd \/ EHCExhausted \/ EHCExpanded
           \/ GBFSExhausted \/ GBFSExpanded \/ OutOfMemory
  <2>1. /\ UNCHANGED <<problem, node, queue, open, closed, bound, cur, pending, exit>>
        /\ solution' \in {cur, solution}
        /\ pc' \in PCs \ {"start", "climb", "ehc_expand", "gbfs_expand"}
    BY <1>5 DEF EHCReachesGoal, EHCEndsInDeadEnd, EHCExhausted, EHCExpanded, GBFSExhausted,
                GBFSExpanded, OutOfMemory
  <2>2. Nodes' = Nodes
    BY <2>1 DEF Nodes
  <2> QED BY <2>1, <2>2 DEF TypeOK, problem
<1>6. CASE EHCOpen
  <2>1. cur' \in Nodes /\ queue' \in Seq(Nodes)
    BY <1>6, HeadTailProperties DEF EHCOpen, TypeOK
  <2>2. Nodes' = Nodes /\ cur' \in Nat
    BY <1>1, <1>6, <2>1 DEF EHCOpen, Nodes
  <2> QED BY <1>1, <1>6, <2>1, <2>2 DEF EHCOpen, TypeOK, problem
<1>7. ASSUME NEW a \in pending, EHCSkip(a) \/ GBFSSkip(a) PROVE TypeOK'
  <2>1. /\ UNCHANGED <<problem, pc, node, queue, open, closed, bound, cur, solution, exit>>
        /\ pending' \subseteq pending
    BY <1>7 DEF EHCSkip, GBFSSkip
  <2>2. Nodes' = Nodes
    BY <2>1 DEF Nodes
  <2> QED BY <2>1, <2>2 DEF TypeOK, problem
<1>8. ASSUME NEW a \in pending, EHCGenerate(a) PROVE TypeOK'
  <2> DEFINE n == Evaluate(Child(cur, a))
  <2>1. n \in NodeType /\ node' = Append(node, n)
    BY <1>8, PendingFacts, EvaluateFacts DEF EHCGenerate, SameNode
  <2>2. node' \in Seq(NodeType) /\ Nodes' = Nodes \cup {Len(node')} /\ Len(node') \in Nat
    BY <1>1, <2>1, AppendFacts
  <2>3. Append(queue, Len(node')) \in Seq(Nodes') /\ <<>> \in Seq(Nodes')
    BY <2>2, SeqMonotonic DEF TypeOK
  <2> HIDE DEF n
  <2>4. queue' \in Seq(Nodes') /\ cur' \in Nodes' /\ cur' \in Nat
    BY <1>8, <2>2, <2>3, PendingFacts DEF EHCGenerate
  <2>5. pc' \in {"climb", "ehc_expand"} /\ pending' \subseteq task.actions
    BY <1>8 DEF EHCGenerate, TypeOK
  <2> QED BY <1>8, <2>2, <2>4, <2>5 DEF EHCGenerate, TypeOK, problem
<1>9. CASE GBFSStart
  <2>1. node' \in Seq(NodeType) /\ Nodes' = {1} /\ open' \subseteq {1} /\ queue' \in Seq(Nodes')
    BY <1>2, <1>9 DEF GBFSStart, Nodes
  <2> QED BY <1>9, <2>1 DEF GBFSStart, TypeOK, problem
<1>10. CASE GBFSReachesGoal
  <2>1. PICK n \in open : /\ cur' = n /\ solution' = n /\ open' \subseteq open
                          /\ closed' = closed \cup {node[n].state}
    BY <1>10 DEF GBFSReachesGoal, Best, Dequeue
  <2>2. n \in Nodes /\ n \in Nat /\ node[n].state \in State /\ Nodes' = Nodes
    BY <1>1, <1>10, <2>1 DEF TypeOK, GBFSReachesGoal, Nodes
  <2> QED BY <1>10, <2>1, <2>2 DEF GBFSReachesGoal, TypeOK, problem
<1>11. CASE GBFSOpen
  <2>1. PICK n \in open : /\ n \in Nodes /\ pc' = "gbfs_expand" /\ cur' = n /\ open' = open \ {n}
                          /\ closed' = closed \cup {node[n].state}
                          /\ pending' = ApplicableActions(task, node[n].state)
                          /\ Nodes' = Nodes /\ node' \in Seq(NodeType)
                          /\ UNCHANGED <<task, heuristic, config, queue, bound, solution, exit>>
    BY <1>11, OpenFacts
  <2> QED BY <1>1, <2>1 DEF TypeOK
<1>12. ASSUME NEW a \in pending, GBFSUpdate(a) PROVE TypeOK'
  <2>1. /\ pc = "gbfs_expand" /\ pending' = pending \ {a} /\ Nodes' = Nodes /\ node' \in Seq(NodeType)
        /\ UNCHANGED <<task, heuristic, config, pc, queue, open, closed, bound, cur, solution, exit>>
    BY <1>12, UpdatedFacts
  <2> QED BY <2>1 DEF TypeOK
<1>13. ASSUME NEW a \in pending, GBFSGenerate(a) PROVE TypeOK'
  <2>1. /\ pc = "gbfs_expand" /\ pending' = pending \ {a}
        /\ UNCHANGED <<task, heuristic, config, pc, queue, closed, bound, cur, solution, exit>>
    BY <1>13, GeneratedFacts
  <2>2. node' \in Seq(NodeType) /\ Nodes \subseteq Nodes' /\ open' \subseteq Nodes'
    <3>1. CASE UNCHANGED <<node, open>>
      BY <3>1 DEF TypeOK, Nodes
    <3>2. ASSUME NEW k, node' \in Seq(NodeType), Nodes' = Nodes \cup {k}, open' = open \cup {k}
          PROVE  node' \in Seq(NodeType) /\ Nodes \subseteq Nodes' /\ open' \subseteq Nodes'
      BY <3>2 DEF TypeOK
    <3> QED BY <1>13, <3>1, <3>2, GeneratedFacts
  <2>3. queue' \in Seq(Nodes')
    BY <2>1, <2>2, SeqMonotonic DEF TypeOK
  <2> QED BY <2>1, <2>2, <2>3 DEF TypeOK
<1>14. CASE Report
  <2>1. ExitCode \in ExitCodes
    BY <1>14 DEF Report, ExitCode, ExitCodes
  <2>2. Nodes' = Nodes
    BY <1>14 DEF Report, Nodes
  <2> QED BY <1>14, <2>1, <2>2 DEF Report, TypeOK, problem
<1>15. CASE UNCHANGED vars
  <2>1. Nodes' = Nodes
    BY <1>15 DEF vars, Nodes
  <2> QED BY <1>15, <2>1 DEF vars, problem, TypeOK
<1> QED BY <1>3, <1>4, <1>5, <1>6, <1>7, <1>8, <1>9, <1>10, <1>11, <1>12, <1>13, <1>14, <1>15
        DEF Next

-----------------------------------------------------------------------------
(* Links *)

\* A new child of the node being expanded.
LEMMA ChildKeepsLinks ==
    ASSUME TypeOK, Links, pc \in {"ehc_expand", "gbfs_expand"}, NEW a \in pending,
           NEW n, SameNode(n, Child(cur, a)), node' = Append(node, n), task' = task
    PROVE  \A m \in Nodes' : Linked(m)'
<1>1. /\ cur \in Nodes /\ cur # 0
      /\ a \in ApplicableActions(task, node[cur].state)
  BY PendingFacts
<1>2. /\ n \in NodeType /\ n.parent = cur /\ n.via = a /\ n.g = node[cur].g + 1
      /\ n.state = NextState(node[cur].state, a)
  BY <1>1, ChildFacts DEF SameNode
<1>3. /\ Nodes' = Nodes \cup {Len(node')} /\ node'[Len(node')] = n
      /\ \A m \in Nodes : node'[m] = node[m]
  BY <1>2, AppendFacts
<1> SUFFICES ASSUME NEW m \in Nodes' PROVE Linked(m)'
  OBVIOUS
<1>4. CASE m = Len(node')
  BY <1>1, <1>2, <1>3, <1>4 DEF Linked
<1>5. CASE m \in Nodes
  <2>1. Linked(m)
    BY <1>5 DEF Links
  <2> QED BY <1>3, <1>5, <2>1 DEF Linked
<1> QED BY <1>3, <1>4, <1>5

\* An evaluation keeps the links.
LEMMA EvaluationKeepsLinks ==
    ASSUME Links, Nodes' = Nodes, task' = task,
           \A m \in Nodes : SameNode(node'[m], node[m])
    PROVE  \A m \in Nodes' : Linked(m)'
<1> SUFFICES ASSUME NEW m \in Nodes PROVE Linked(m)'
  OBVIOUS
<1>1. Linked(m)
  BY DEF Links
<1> QED BY <1>1 DEF Linked, SameNode

\* A node that is no parent may be linked to another one.
LEMMA UpdateKeepsLinks ==
    ASSUME TypeOK, Links, PhasesOK, NEW a \in pending, GBFSUpdate(a)
    PROVE  /\ \A m \in Nodes' : Linked(m)'
           /\ node'[cur] = node[cur]
<1>1. /\ pc = "gbfs_expand" /\ cur \in Nodes /\ cur # 0 /\ Nodes' = Nodes /\ task' = task
      /\ a \in ApplicableActions(task, node[cur].state)
  BY UpdatedFacts
<1>2. PICK o \in open :
          /\ o \in Nodes /\ node[o].state = NextState(node[cur].state, a)
          /\ \A m \in Nodes \ {o} : node'[m] = node[m]
          /\ node'[o].state = node[o].state
          /\ \/ node'[o].parent = node[o].parent /\ node'[o].via = node[o].via /\ node'[o].g = node[o].g
             \/ node'[o].parent = cur /\ node'[o].via = a /\ node'[o].g = node[cur].g + 1
  BY UpdatedFacts
<1>3. cur # o /\ \A m \in Nodes : node[m].parent # 0 => node[m].parent # o
  BY <1>1 DEF PhasesOK, InGBFS
<1>4. \A m \in Nodes : node[m].parent \in Nodes => node'[node[m].parent] = node[node[m].parent]
  BY <1>2, <1>3, NodeFacts
<1>5. ASSUME NEW m \in Nodes PROVE Linked(m)'
  <2>1. Linked(m)
    BY DEF Links
  <2>2. CASE /\ node'[m].parent = node[m].parent /\ node'[m].via = node[m].via
             /\ node'[m].g = node[m].g /\ node'[m].state = node[m].state
    BY <1>1, <1>4, <2>1, <2>2 DEF Linked
  <2>3. CASE m = o /\ node'[o].parent = cur /\ node'[o].via = a /\ node'[o].g = node[cur].g + 1
    BY <1>1, <1>2, <1>3, <2>3 DEF Linked
  <2> QED BY <1>2, <2>2, <2>3
<1> QED BY <1>1, <1>2, <1>3, <1>5

LEMMA LinksStep ==
    ASSUME TypeOK, Links, PhasesOK, [Next]_vars
    PROVE  Links'
<1>1. \A m \in Nodes : Linked(m)
  BY DEF Links
<1>2. CASE StartEHC \/ GBFSStart
  <2>1. PICK n : SameNode(n, Root) /\ node' = <<n>>
    <3>1. SameNode(Evaluate(Root), Root) /\ SameNode(NotifyCreation(Root), Root)
      BY RootFacts, EvaluateFacts, CreationFacts DEF Root
    <3> QED BY <1>2, <3>1 DEF StartEHC, GBFSStart
  <2>2. Nodes' = {1} /\ node'[1] = n /\ n.parent = 0 /\ n.g = 0 /\ n.state = task.init
    BY <2>1 DEF Nodes, SameNode, Root
  <2>3. task' = task /\ pc' \in {"climb", "gbfs_open"}
    BY <1>2 DEF StartEHC, GBFSStart, problem
  <2> QED BY <2>2, <2>3 DEF Links, Linked
<1>3. CASE StartEpisode \/ EHCReachesGoal \/ EHCEndsInDeadEnd \/ EHCExhausted \/ EHCExpanded
           \/ GBFSReachesGoal \/ GBFSExhausted \/ GBFSExpanded \/ OutOfMemory \/ Report
  <2>1. UNCHANGED <<node, task>> /\ pc' \notin {"ehc_expand", "gbfs_expand"}
    BY <1>3 DEF StartEpisode, EHCReachesGoal, EHCEndsInDeadEnd, EHCExhausted, EHCExpanded,
                GBFSReachesGoal, GBFSExhausted, GBFSExpanded, OutOfMemory, Report, problem
  <2> QED BY <1>1, <2>1 DEF Links, Linked, Nodes
<1>4. CASE EHCOpen
  <2>1. UNCHANGED <<node, task>> /\ pending' = ApplicableActions(task, node[cur'].state)
    BY <1>4 DEF EHCOpen, problem
  <2> QED BY <1>1, <2>1 DEF Links, Linked, Nodes
<1>5. ASSUME NEW a \in pending, EHCSkip(a) \/ GBFSSkip(a) PROVE Links'
  <2>1. UNCHANGED <<node, task, cur, pc>> /\ pending' \subseteq pending
    BY <1>5 DEF EHCSkip, GBFSSkip, problem
  <2> QED BY <1>1, <2>1 DEF Links, Linked, Nodes
<1>6. ASSUME NEW a \in pending, EHCGenerate(a) PROVE Links'
  <2> DEFINE n == Evaluate(Child(cur, a))
  <2>1. pc = "ehc_expand" /\ task' = task /\ node' = Append(node, n)
    BY <1>6 DEF EHCGenerate, problem
  <2>2. cur \in Nodes /\ Child(cur, a) \in NodeType
    BY <2>1, PendingFacts
  <2>3. n \in NodeType /\ SameNode(n, Child(cur, a))
    BY <2>2, EvaluateFacts DEF SameNode
  <2> HIDE DEF n
  <2>4. \A m \in Nodes' : Linked(m)'
    BY <2>1, <2>3, ChildKeepsLinks
  <2>5. \/ pc' = "climb"
        \/ pc' = "ehc_expand" /\ cur' = cur /\ pending' \subseteq pending /\ node'[cur] = node[cur]
    BY <1>6, <2>1, <2>2, <2>3, AppendFacts DEF EHCGenerate
  <2> QED BY <2>1, <2>4, <2>5 DEF Links
<1>7. CASE GBFSOpen
  <2>1. PICK n \in open : /\ n \in Nodes /\ cur' = n /\ Nodes' = Nodes /\ task' = task
                          /\ pending' = ApplicableActions(task, node[n].state)
                          /\ \A m \in Nodes : SameNode(node'[m], node[m])
    BY <1>7, OpenFacts
  <2>2. \A m \in Nodes' : Linked(m)'
    BY <2>1, EvaluationKeepsLinks
  <2> QED BY <2>1, <2>2 DEF Links, SameNode
<1>8. ASSUME NEW a \in pending, GBFSUpdate(a) PROVE Links'
  <2>1. pending' \subseteq pending /\ UNCHANGED <<task, cur, pc>>
    BY <1>8 DEF GBFSUpdate, problem
  <2> QED BY <1>8, <2>1, UpdateKeepsLinks DEF Links
<1>9. ASSUME NEW a \in pending, GBFSGenerate(a) PROVE Links'
  <2>1. /\ pc = "gbfs_expand" /\ cur \in Nodes /\ pending' \subseteq pending /\ UNCHANGED <<task, cur, pc>>
    BY <1>9, GeneratedFacts
  <2>2. CASE UNCHANGED node
    BY <1>1, <2>1, <2>2 DEF Links, Linked, Nodes
  <2>3. ASSUME NEW n, SameNode(n, Child(cur, a)), node' = Append(node, n),
               \A m \in Nodes : node'[m] = node[m]
        PROVE  Links'
    <3>1. \A m \in Nodes' : Linked(m)'
      BY <2>1, <2>3, ChildKeepsLinks
    <3> QED BY <2>1, <2>3, <3>1 DEF Links
  <2> QED BY <1>9, <2>2, <2>3, GeneratedFacts
<1>10. CASE UNCHANGED vars
  BY <1>1, <1>10 DEF vars, problem, Links, Linked, Nodes
<1> QED BY <1>2, <1>3, <1>4, <1>5, <1>6, <1>7, <1>8, <1>9, <1>10 DEF Next

-----------------------------------------------------------------------------
(* Phases *)

\* Steps that change no node and do not start a phase.
QuietStep ==
    \/ StartEpisode \/ EHCReachesGoal \/ EHCEndsInDeadEnd \/ EHCOpen \/ EHCExhausted \/ EHCExpanded
    \/ \E a \in pending : EHCSkip(a)
    \/ OutOfMemory \/ Report

LEMMA QuietFacts ==
    ASSUME QuietStep
    PROVE  /\ UNCHANGED <<task, heuristic, config, node>> /\ Nodes' = Nodes /\ ~InGBFS'
           /\ InEHC' => InEHC
BY DEF QuietStep, StartEpisode, EHCReachesGoal, EHCEndsInDeadEnd, EHCOpen, EHCExhausted,
       EHCExpanded, EHCSkip, OutOfMemory, Report, problem, InGBFS, InEHC, Nodes

\* Steps of the best-first search that change no node.
LEMMA WaitFacts ==
    ASSUME GBFSReachesGoal \/ GBFSExhausted \/ GBFSExpanded \/ \E a \in pending : GBFSSkip(a)
    PROVE  /\ UNCHANGED <<task, heuristic, config, node>> /\ Nodes' = Nodes /\ InGBFS
           /\ InGBFS' => UNCHANGED <<open, closed, cur>> /\ (pc' = "gbfs_expand" => pc = "gbfs_expand")
           /\ ~InEHC'
BY DEF GBFSReachesGoal, GBFSExhausted, GBFSExpanded, GBFSSkip, problem, InGBFS, InEHC, Nodes

\* The root that starts the best-first search is evaluated at once.
LEMMA StartFacts ==
    ASSUME TypeOK, GBFSStart
    PROVE  /\ Nodes' = {1} /\ pc' = "gbfs_open" /\ closed' = {}
           /\ UNCHANGED <<task, heuristic, config, exit>>
           /\ node'[1].parent = 0 /\ node'[1].state = task.init
           /\ node'[1].h = heuristic.h[task.init] /\ node'[1].evals = 1
           /\ AssessesNothing /\ config.evaluation = "delayed_for_unhelpful" => ~node'[1].helpful
           /\ open' = IF node'[1].h = -1 THEN {} ELSE {1}
<1> DEFINE r == NotifyCreation(Root)
<1>1. Root \in NodeType /\ Root.parent = 0 /\ Root.state = task.init /\ Root.evals = 0 /\ ~Root.helpful
  BY RootFacts DEF Root
<1>2. EarlyEvaluation(Root)
  BY <1>1 DEF EarlyEvaluation
<1>3. /\ r.parent = 0 /\ r.state = task.init /\ r.h = heuristic.h[task.init] /\ r.evals = 1
      /\ AssessesNothing /\ config.evaluation = "delayed_for_unhelpful" => ~r.helpful
  BY <1>1, <1>2, CreationFacts DEF SameNode
<1>4. /\ node' = <<r>> /\ open' = IF DeadEnd(r) THEN {} ELSE {1}
      /\ pc' = "gbfs_open" /\ closed' = {} /\ UNCHANGED <<task, heuristic, config, exit>>
  BY DEF GBFSStart, problem
<1> HIDE DEF r
<1>5. Nodes' = {1} /\ node'[1] = r
  BY <1>4 DEF Nodes
<1> QED BY <1>3, <1>4, <1>5 DEF DeadEnd

LEMMA PhasesStep ==
    ASSUME TypeOK, Links, PhasesOK, [Next]_vars
    PROVE  PhasesOK'
<1>1. CASE QuietStep
  BY <1>1, QuietFacts DEF PhasesOK, InGBFS
<1>2. CASE GBFSReachesGoal \/ GBFSExhausted \/ GBFSExpanded \/ \E a \in pending : GBFSSkip(a)
  <2>1. PhasesOK' \/ ~InGBFS'
    BY <1>2, WaitFacts DEF PhasesOK
  <2> QED BY <1>2, <2>1, WaitFacts DEF PhasesOK, InGBFS
<1>3. CASE StartEHC
  <2>1. Evaluate(Root).h = heuristic.h[Root.state] /\ SameNode(Evaluate(Root), Root)
    BY RootFacts, EvaluateFacts
  <2>2. Nodes' = {1} /\ node'[1] = Evaluate(Root) /\ pc' = "climb" /\ heuristic' = heuristic
    BY <1>3 DEF StartEHC, Nodes, problem
  <2> QED BY <2>1, <2>2 DEF PhasesOK, InGBFS, SameNode
<1>4. ASSUME NEW a \in pending, EHCGenerate(a) PROVE PhasesOK'
  <2> DEFINE n == Evaluate(Child(cur, a))
  <2>1. /\ pc = "ehc_expand" /\ pc' \in {"climb", "ehc_expand"} /\ heuristic' = heuristic
        /\ node' = Append(node, n)
    BY <1>4 DEF EHCGenerate, problem
  <2>2. n \in NodeType /\ n.h = heuristic.h[n.state]
    BY <2>1, PendingFacts, EvaluateFacts DEF SameNode
  <2> HIDE DEF n
  <2>3. /\ Nodes' = Nodes \cup {Len(node')} /\ node'[Len(node')] = n
        /\ \A m \in Nodes : node'[m] = node[m]
    BY <2>1, <2>2, AppendFacts
  <2>4. \A m \in Nodes : node[m].h = heuristic.h[node[m].state]
    BY <2>1 DEF PhasesOK, InEHC
  <2> QED BY <2>1, <2>2, <2>3, <2>4 DEF PhasesOK, InGBFS
<1>5. CASE GBFSStart
  BY <1>5, StartFacts DEF PhasesOK, InEHC, InGBFS
<1>6. CASE GBFSOpen
  <2>1. PICK n \in open : /\ n \in Nodes /\ cur' = n /\ open' = open \ {n} /\ Nodes' = Nodes
                          /\ closed' = closed \cup {node[n].state}
                          /\ pc = "gbfs_open" /\ pc' = "gbfs_expand"
                          /\ \A m \in Nodes : SameNode(node'[m], node[m])
    BY <1>6, OpenFacts
  <2>2. ASSUME NEW m \in Nodes, node[m].parent # 0
        PROVE  node[m].parent \in Nodes /\ node[m].parent \notin open /\ node[node[m].parent].state \in closed
    BY <2>1, <2>2 DEF PhasesOK, InGBFS, Links, Linked
  <2> QED BY <2>1, <2>2 DEF PhasesOK, InEHC, SameNode
<1>7. ASSUME NEW a \in pending, GBFSUpdate(a) PROVE PhasesOK'
  <2>1. /\ pc = "gbfs_expand" /\ cur \in Nodes /\ Nodes' = Nodes
        /\ UNCHANGED <<pc, open, closed, cur>>
    BY <1>7, UpdatedFacts
  <2>2. PICK o \in open : /\ o \in Nodes
                          /\ \A m \in Nodes \ {o} : node'[m] = node[m]
                          /\ node'[o].state = node[o].state
                          /\ node'[o].parent = node[o].parent \/ node'[o].parent = cur
    BY <1>7, UpdatedFacts
  <2>3. cur \notin open /\ node[cur].state \in closed
    BY <2>1 DEF PhasesOK
  <2>4. ASSUME NEW m \in Nodes, node[m].parent # 0
        PROVE  node[m].parent \in Nodes /\ node[m].parent \notin open /\ node[node[m].parent].state \in closed
    BY <2>1, <2>4 DEF PhasesOK, InGBFS, Links, Linked
  <2> QED BY <2>1, <2>2, <2>3, <2>4 DEF PhasesOK, InEHC
<1>8. ASSUME NEW a \in pending, GBFSGenerate(a) PROVE PhasesOK'
  <2>1. /\ pc = "gbfs_expand" /\ cur \in Nodes /\ UNCHANGED <<pc, closed, cur>>
    BY <1>8, GeneratedFacts
  <2>2. cur \notin open /\ node[cur].state \in closed
    BY <2>1 DEF PhasesOK
  <2>3. ASSUME NEW m \in Nodes, node[m].parent # 0
        PROVE  node[m].parent \in Nodes /\ node[m].parent \notin open /\ node[node[m].parent].state \in closed
    BY <2>1, <2>3 DEF PhasesOK, InGBFS, Links, Linked
  <2>4. CASE UNCHANGED <<node, open>>
    BY <2>1, <2>2, <2>3, <2>4 DEF PhasesOK, InEHC, Nodes
  <2>5. ASSUME NEW n, NEW k \in Nat \ Nodes, n.parent = cur,
               Nodes' = Nodes \cup {k}, open' = open \cup {k}, node'[k] = n,
               \A m \in Nodes : node'[m] = node[m]
        PROVE  PhasesOK'
    BY <2>1, <2>2, <2>3, <2>5 DEF PhasesOK, InEHC
  <2> QED BY <1>8, <2>4, <2>5, GeneratedFacts
<1>9. CASE UNCHANGED vars
  BY <1>9 DEF vars, problem, PhasesOK, InEHC, InGBFS, Nodes
<1> QED BY <1>1, <1>2, <1>3, <1>4, <1>5, <1>6, <1>7, <1>8, <1>9 DEF Next, QuietStep

-----------------------------------------------------------------------------
(* Dead ends *)

\* What a generated node was dropped for.
LEMMA DroppedIsUnsolvable ==
    ASSUME TypeOK, Links, DeadEndsOK, pc = "gbfs_expand", cur \in Nodes,
           NEW a \in ApplicableActions(task, node[cur].state),
           NEW n, n.state = NextState(node[cur].state, a),
           n.h = heuristic.h[n.state] \/ n.h = node[cur].h, n.h = -1
    PROVE  n.state \notin Solvable(task)
<1>1. node[cur].state \in State /\ n.state \in State
  BY NodeFacts, TaskOK
<1>2. CASE n.h = heuristic.h[n.state]
  BY <1>1, <1>2, HeuristicOK
<1>3. CASE n.h = node[cur].h
  <2>1. node[cur].state \notin Solvable(task)
    BY <1>3 DEF DeadEndsOK, DeadEnd, InGBFS
  <2>2. n.state \in Successors(task, node[cur].state)
    BY DEF Successors
  <2> QED BY <1>1, <2>1, <2>2, SolvableClosed
<1> QED BY <1>2, <1>3

LEMMA DeadEndsStep ==
    ASSUME TypeOK, Links, DeadEndsOK, [Next]_vars
    PROVE  DeadEndsOK'
<1>1. CASE QuietStep \/ StartEHC
  BY <1>1, QuietFacts DEF DeadEndsOK, InGBFS, StartEHC
<1>2. CASE GBFSReachesGoal \/ GBFSExhausted \/ GBFSExpanded \/ \E a \in pending : GBFSSkip(a)
  BY <1>2, WaitFacts DEF DeadEndsOK
<1>3. ASSUME NEW a \in pending, EHCGenerate(a) PROVE DeadEndsOK'
  BY <1>3 DEF EHCGenerate, DeadEndsOK, InGBFS
<1>4. CASE GBFSStart
  BY <1>4, StartFacts, TaskOK, HeuristicOK DEF DeadEndsOK, DeadEnd
<1>5. CASE GBFSOpen
  <2>1. PICK n \in open : /\ n \in Nodes /\ node[n] \in NodeType /\ Nodes' = Nodes /\ pc = "gbfs_open"
                          /\ node'[n] = OnExpansion(node[n])
                          /\ \A m \in Nodes \ {n} : node'[m] = node[m]
                          /\ UNCHANGED task
    BY <1>5, OpenFacts
  <2>2. /\ node'[n].state = node[n].state /\ node[n].state \in State
        /\ node'[n].h = node[n].h \/ node'[n].h = heuristic.h[node[n].state]
    BY <2>1, ExpansionFacts, NodeFacts DEF SameNode
  <2> QED BY <2>1, <2>2, HeuristicOK DEF DeadEndsOK, InGBFS, DeadEnd
<1>6. ASSUME NEW a \in pending, GBFSUpdate(a) PROVE DeadEndsOK'
  <2>1. pc = "gbfs_expand" /\ Nodes' = Nodes /\ UNCHANGED task
    BY <1>6, UpdatedFacts
  <2>2. \A m \in Nodes : node'[m].state = node[m].state /\ node'[m].h = node[m].h
    BY <1>6, UpdatedFacts
  <2> QED BY <2>1, <2>2 DEF DeadEndsOK, InGBFS, DeadEnd
<1>7. ASSUME NEW a \in pending, GBFSGenerate(a) PROVE DeadEndsOK'
  <2>1. /\ pc = "gbfs_expand" /\ cur \in Nodes /\ UNCHANGED task
        /\ a \in ApplicableActions(task, node[cur].state)
    BY <1>7, GeneratedFacts
  <2>2. \A m \in Nodes : node[m].h = -1 => node[m].state \notin Solvable(task)
    BY <2>1 DEF DeadEndsOK, InGBFS, DeadEnd
  <2>3. CASE UNCHANGED node
    BY <2>1, <2>2, <2>3 DEF DeadEndsOK, DeadEnd, Nodes
  <2>4. ASSUME NEW n, NEW k, n.state = NextState(node[cur].state, a),
               n.h = heuristic.h[n.state] \/ n.h = node[cur].h,
               Nodes' = Nodes \cup {k}, node'[k] = n, \A m \in Nodes : node'[m] = node[m]
        PROVE  DeadEndsOK'
    <3>1. n.h = -1 => n.state \notin Solvable(task)
      BY <2>1, <2>4, DroppedIsUnsolvable
    <3> QED BY <2>1, <2>2, <2>4, <3>1 DEF DeadEndsOK, DeadEnd
  <2> QED BY <1>7, <2>3, <2>4, GeneratedFacts
<1>8. CASE UNCHANGED vars
  BY <1>8 DEF vars, problem, DeadEndsOK, DeadEnd, InGBFS, Nodes
<1> QED BY <1>1, <1>2, <1>3, <1>4, <1>5, <1>6, <1>7, <1>8 DEF Next, QuietStep

-----------------------------------------------------------------------------
(* The explored states *)

\* A state stays ahead when the states of the open nodes stay so.
LEMMA AheadKept ==
    ASSUME task' = task, closed \subseteq closed',
           \A m \in open : \/ node[m].state \in closed'
                           \/ \E k \in open' : node'[k].state = node[m].state,
           NEW s, Ahead(s)
    PROVE  Ahead(s)'
BY DEF Ahead

LEMMA ExploredStep ==
    ASSUME TypeOK, Links, PhasesOK, DeadEndsOK, ExploredOK, [Next]_vars
    PROVE  ExploredOK'
<1>1. CASE QuietStep \/ StartEHC \/ GBFSReachesGoal \/ GBFSExhausted
  BY <1>1, QuietFacts DEF ExploredOK, InGBFS, StartEHC, GBFSReachesGoal, GBFSExhausted
<1>2. ASSUME NEW a \in pending, EHCGenerate(a) PROVE ExploredOK'
  BY <1>2 DEF EHCGenerate, ExploredOK, InGBFS
<1>3. CASE GBFSStart
  BY <1>3, StartFacts, TaskOK, HeuristicOK DEF ExploredOK, Ahead
<1>4. CASE GBFSExpanded
  BY <1>4 DEF GBFSExpanded, ExploredOK, Ahead, InGBFS, problem
<1>5. ASSUME NEW a \in pending, GBFSSkip(a) PROVE ExploredOK'
  <2>1. /\ pc = "gbfs_expand" /\ NextState(node[cur].state, a) \in closed /\ pending' = pending \ {a}
        /\ UNCHANGED <<task, node, open, closed, cur, pc>>
    BY <1>5 DEF GBFSSkip, problem
  <2>2. \A s : Ahead(s)' <=> Ahead(s)
    BY <2>1 DEF Ahead
  <2>3. Ahead(NextState(node[cur].state, a))
    BY <2>1 DEF Ahead
  <2> QED BY <2>1, <2>2, <2>3 DEF ExploredOK, InGBFS
<1>6. CASE GBFSOpen
  <2>1. PICK n \in open : /\ n \in Nodes /\ ~IsGoal(task, node[n].state)
                          /\ pc = "gbfs_open" /\ pc' = "gbfs_expand" /\ cur' = n /\ open' = open \ {n}
                          /\ closed' = closed \cup {node[n].state}
                          /\ pending' = ApplicableActions(task, node[n].state)
                          /\ \A m \in Nodes : SameNode(node'[m], node[m])
                          /\ task' = task
    BY <1>6, OpenFacts
  <2>2. open \subseteq Nodes /\ node'[n].state = node[n].state
    BY <2>1 DEF TypeOK, SameNode
  <2>3. ASSUME NEW s, Ahead(s) PROVE Ahead(s)'
    <3>1. \A m \in open : \/ node[m].state \in closed'
                          \/ \E k \in open' : node'[k].state = node[m].state
      BY <2>1, <2>2 DEF SameNode
    <3> QED BY <2>1, <2>3, <3>1, AheadKept
  <2>4. InGBFS /\ pc # "gbfs_expand"
    BY <2>1 DEF InGBFS
  <2> QED BY <2>1, <2>2, <2>3, <2>4 DEF ExploredOK
<1>7. ASSUME NEW a \in pending, GBFSUpdate(a) PROVE ExploredOK'
  <2>1. /\ pc = "gbfs_expand" /\ cur \in Nodes /\ pending' = pending \ {a}
        /\ UNCHANGED <<task, pc, open, closed, cur>>
    BY <1>7, UpdatedFacts
  <2>2. PICK o \in open : /\ o \in Nodes /\ node[o].state = NextState(node[cur].state, a)
                          /\ \A m \in Nodes \ {o} : node'[m] = node[m]
                          /\ node'[o].state = node[o].state
    BY <1>7, UpdatedFacts
  <2>3. \A m \in Nodes : node'[m].state = node[m].state
    BY <2>2
  <2>4. open \subseteq Nodes
    BY DEF TypeOK
  <2>5. ASSUME NEW s, Ahead(s) PROVE Ahead(s)'
    BY <2>1, <2>3, <2>4, <2>5, AheadKept
  <2>6. Ahead(NextState(node[cur].state, a))
    BY <2>2 DEF Ahead
  <2> QED BY <2>1, <2>3, <2>5, <2>6 DEF ExploredOK, InGBFS
<1>8. ASSUME NEW a \in pending, GBFSGenerate(a) PROVE ExploredOK'
  <2>1. /\ pc = "gbfs_expand" /\ cur \in Nodes /\ pending' = pending \ {a}
        /\ a \in ApplicableActions(task, node[cur].state)
        /\ UNCHANGED <<task, pc, closed, cur>>
    BY <1>8, GeneratedFacts
  <2>2. open \subseteq Nodes
    BY DEF TypeOK
  <2> DEFINE c == NextState(node[cur].state, a)
  <2>3. /\ \A m \in Nodes : node'[m] = node[m]
        /\ open \subseteq open'
        /\ c \notin Solvable(task) \/ \E k \in open' : node'[k].state = c
    <3>1. PICK n : /\ n.state = c
                   /\ n.h = heuristic.h[n.state] \/ n.h = node[cur].h
                   /\ \/ n.h = -1 /\ UNCHANGED <<node, open>>
                      \/ \E k \in Nat \ Nodes :
                            /\ open' = open \cup {k} /\ node'[k] = n
                            /\ \A m \in Nodes : node'[m] = node[m]
      BY <1>8, GeneratedFacts
    <3>2. CASE n.h = -1 /\ UNCHANGED <<node, open>>
      <4>1. n.state \notin Solvable(task)
        BY <2>1, <3>1, <3>2, DroppedIsUnsolvable
      <4> QED BY <3>1, <3>2, <4>1
    <3>3. CASE \E k \in Nat \ Nodes : /\ open' = open \cup {k} /\ node'[k] = n
                                       /\ \A m \in Nodes : node'[m] = node[m]
      BY <3>1, <3>3
    <3> QED BY <3>1, <3>2, <3>3
  <2>4. ASSUME NEW s, Ahead(s) PROVE Ahead(s)'
    BY <2>1, <2>2, <2>3, <2>4, AheadKept
  <2>5. Ahead(c)'
    BY <2>1, <2>3 DEF Ahead
  <2> QED BY <2>1, <2>3, <2>4, <2>5 DEF ExploredOK, InGBFS
<1>9. CASE UNCHANGED vars
  BY <1>9 DEF vars, problem, ExploredOK, Ahead, InGBFS
<1> QED BY <1>1, <1>2, <1>3, <1>4, <1>5, <1>6, <1>7, <1>8, <1>9 DEF Next, QuietStep

-----------------------------------------------------------------------------
(* Evaluations *)

LEMMA EvaluationsStep ==
    ASSUME TypeOK, Links, PhasesOK, EvaluationsOK, [Next]_vars
    PROVE  EvaluationsOK'
<1>1. CASE QuietStep \/ StartEHC \/ GBFSReachesGoal \/ GBFSExhausted
  BY <1>1, QuietFacts DEF EvaluationsOK, InGBFS, StartEHC, GBFSReachesGoal, GBFSExhausted
<1>2. ASSUME NEW a \in pending, EHCGenerate(a) PROVE EvaluationsOK'
  BY <1>2 DEF EHCGenerate, EvaluationsOK, InGBFS
<1>3. CASE GBFSExpanded \/ \E a \in pending : GBFSSkip(a)
  BY <1>3 DEF GBFSExpanded, GBFSSkip, problem, EvaluationsOK, InGBFS, AssessesNothing,
              EarlyEvaluation, Nodes
<1>4. CASE GBFSStart
  BY <1>4, StartFacts DEF EvaluationsOK, AssessesNothing, EarlyEvaluation
<1>5. CASE GBFSOpen
  <2>1. PICK n \in open : /\ n \in Nodes /\ node[n] \in NodeType /\ Nodes' = Nodes /\ pc = "gbfs_open"
                          /\ open' = open \ {n} /\ node'[n] = OnExpansion(node[n])
                          /\ \A m \in Nodes \ {n} : node'[m] = node[m]
                          /\ config' = config
    BY <1>5, OpenFacts
  <2>2. /\ node'[n].parent = node[n].parent /\ node'[n].helpful = node[n].helpful
        /\ node'[n].evals = IF EarlyEvaluation(node[n]) THEN node[n].evals ELSE node[n].evals + 1
    BY <2>1, ExpansionFacts DEF SameNode
  <2>3. AssessesNothing => \A m \in Nodes :
            /\ config.evaluation = "delayed_for_unhelpful" => ~node[m].helpful
            /\ node[m].evals = IF m \in open /\ ~EarlyEvaluation(node[m]) THEN 0 ELSE 1
    BY <2>1 DEF EvaluationsOK, InGBFS
  <2> QED BY <2>1, <2>2, <2>3 DEF EvaluationsOK, AssessesNothing, EarlyEvaluation
<1>6. ASSUME NEW a \in pending, GBFSUpdate(a) PROVE EvaluationsOK'
  <2>1. /\ pc = "gbfs_expand" /\ cur \in Nodes /\ cur # 0 /\ Nodes' = Nodes
        /\ UNCHANGED <<config, open>>
    BY <1>6, UpdatedFacts
  <2>2. PICK o \in open : /\ o \in Nodes /\ node[o] \in NodeType
                          /\ \A m \in Nodes \ {o} : node'[m] = node[m]
                          /\ node'[o].helpful = node[o].helpful /\ node'[o].evals = node[o].evals
                          /\ \/ node'[o].parent = node[o].parent
                             \/ node'[o].parent = cur /\ node[cur].g + 1 < node[o].g
    BY <1>6, UpdatedFacts
  <2>3. node'[o].parent = 0 <=> node[o].parent = 0
    <3>1. CASE node'[o].parent = cur /\ node[cur].g + 1 < node[o].g
      <4>1. node[cur].g \in Nat
        BY <2>1, NodeFacts DEF NodeType
      <4>2. Linked(o)
        BY <2>2 DEF Links
      <4>3. node[o].parent # 0
        BY <3>1, <4>1, <4>2, NodeFacts DEF Linked
      <4> QED BY <2>1, <3>1, <4>3
    <3> QED BY <2>2, <3>1
  <2>4. AssessesNothing => \A m \in Nodes :
            /\ config.evaluation = "delayed_for_unhelpful" => ~node[m].helpful
            /\ node[m].evals = IF m \in open /\ ~EarlyEvaluation(node[m]) THEN 0 ELSE 1
    BY <2>1 DEF EvaluationsOK, InGBFS
  <2> QED BY <2>1, <2>2, <2>3, <2>4 DEF EvaluationsOK, AssessesNothing, EarlyEvaluation
<1>7. ASSUME NEW a \in pending, GBFSGenerate(a) PROVE EvaluationsOK'
  <2>1. /\ pc = "gbfs_expand" /\ cur \in Nodes /\ cur # 0 /\ UNCHANGED config
        /\ a \in ApplicableActions(task, node[cur].state)
    BY <1>7, GeneratedFacts
  <2>2. Child(cur, a).parent = cur /\ Child(cur, a).helpful = FALSE /\ open \subseteq Nodes
    BY <2>1, ChildFacts DEF TypeOK
  <2>3. AssessesNothing => \A m \in Nodes :
            /\ config.evaluation = "delayed_for_unhelpful" => ~node[m].helpful
            /\ node[m].evals = IF m \in open /\ ~EarlyEvaluation(node[m]) THEN 0 ELSE 1
    BY <2>1 DEF EvaluationsOK, InGBFS
  <2>4. CASE UNCHANGED <<node, open>>
    BY <2>1, <2>3, <2>4 DEF EvaluationsOK, AssessesNothing, EarlyEvaluation, Nodes
  <2>5. ASSUME NEW n, NEW k \in Nat \ Nodes, n.parent = cur,
               n.evals = IF EarlyEvaluation(Child(cur, a)) THEN 1 ELSE 0,
               AssessesNothing /\ config.evaluation = "delayed_for_unhelpful" => ~n.helpful,
               Nodes' = Nodes \cup {k}, open' = open \cup {k}, node'[k] = n,
               \A m \in Nodes : node'[m] = node[m]
        PROVE  EvaluationsOK'
    <3>1. AssessesNothing => (EarlyEvaluation(n) <=> EarlyEvaluation(Child(cur, a)))
      BY <2>1, <2>2, <2>5 DEF EarlyEvaluation
    <3> QED BY <2>1, <2>2, <2>3, <2>5, <3>1 DEF EvaluationsOK, AssessesNothing, EarlyEvaluation
  <2> QED BY <1>7, <2>4, <2>5, GeneratedFacts
<1>8. CASE UNCHANGED vars
  BY <1>8 DEF vars, problem, EvaluationsOK, InGBFS, AssessesNothing, EarlyEvaluation, Nodes
<1> QED BY <1>1, <1>2, <1>3, <1>4, <1>5, <1>6, <1>7, <1>8 DEF Next, QuietStep

-----------------------------------------------------------------------------
(* The plan that the parent links describe *)

LEMMA LinkFacts ==
    ASSUME TypeOK, Links, NEW m \in Nodes
    PROVE  /\ node[m].g \in Nat /\ node[m].state \in State
           /\ \/ node[m].parent = 0 /\ node[m].state = task.init /\ node[m].g = 0
              \/ /\ node[m].parent \in Nodes /\ node[m].parent # 0
                 /\ node[node[m].parent].g \in Nat
                 /\ node[m].g = node[node[m].parent].g + 1
                 /\ node[m].via \in ApplicableActions(task, node[node[m].parent].state)
                 /\ node[m].via \in Action
                 /\ node[m].state = NextState(node[node[m].parent].state, node[m].via)
<1>1. Linked(m)
  BY DEF Links
<1>2. \A k \in Nodes : node[k].g \in Nat /\ node[k].state \in State /\ k # 0
  BY NodeFacts DEF NodeType
<1> QED BY <1>1, <1>2, TaskOK DEF Linked

\* The lengths of the paths are bounded.
LEMMA LengthsBounded ==
    ASSUME TypeOK
    PROVE  \E k \in Nat : \A m \in Nodes : node[m].g <= k
<1>1. Len(node) \in Nat /\ Nodes = 1..Len(node) /\ \A m \in Nodes : node[m].g \in Nat
  BY NodeFacts DEF NodeType
<1> DEFINE Bounded(i) == \E k \in Nat : \A m \in 1..i : node[m].g <= k
           N == {i \in Nat : i <= Len(node) => Bounded(i)}
<1>2. Bounded(0)
  OBVIOUS
<1>3. ASSUME NEW i \in Nat, Bounded(i), i + 1 <= Len(node) PROVE Bounded(i + 1)
  <2>1. PICK k \in Nat : \A m \in 1..i : node[m].g <= k
    BY <1>3
  <2>2. node[i+1].g \in Nat
    BY <1>1, <1>3
  <2> DEFINE l == k + node[i+1].g
  <2>3. l \in Nat /\ k <= l /\ node[i+1].g <= l
    BY <2>2
  <2>4. ASSUME NEW m \in 1..(i+1) PROVE node[m].g <= l
    <3>1. CASE m = i + 1
      BY <2>3, <3>1
    <3>2. CASE m # i + 1
      <4>1. m \in 1..i /\ m \in Nodes
        BY <1>1, <1>3, <3>2
      <4>2. node[m].g <= k /\ node[m].g \in Nat
        BY <1>1, <2>1, <4>1
      <4> QED BY <2>3, <4>2
    <3> QED BY <3>1, <3>2
  <2> HIDE DEF l
  <2> QED BY <2>3, <2>4
<1> HIDE DEF Bounded
<1>4. N = Nat
  <2>1. 0 \in N
    BY <1>2
  <2>2. ASSUME NEW i \in N PROVE i + 1 \in N
    BY <1>1, <1>3
  <2> HIDE DEF N
  <2>3. N \in SUBSET Nat
    BY DEF N
  <2> QED BY <2>1, <2>2, <2>3, Induction
<1>5. Bounded(Len(node))
  BY <1>1, <1>4
<1> QED BY <1>1, <1>5 DEF Bounded

\* One step of the recursion that collects the plan.
PlanAt(f, m) == IF node[m].parent = 0 THEN <<>> ELSE Append(f[node[m].parent], node[m].via)

LEMMA PlanAtType ==
    ASSUME TypeOK, Links, NEW f \in [Nodes -> Seq(Action)], NEW m \in Nodes
    PROVE  PlanAt(f, m) \in Seq(Action)
<1>1. CASE node[m].parent = 0
  BY <1>1 DEF PlanAt
<1>2. CASE node[m].parent # 0
  <2>1. node[m].parent \in Nodes /\ node[m].via \in Action
    BY <1>2, LinkFacts
  <2> QED BY <1>2, <2>1, AppendProperties DEF PlanAt
<1> QED BY <1>1, <1>2

LEMMA PlansExist ==
    ASSUME TypeOK, Links, NEW K \in Nat
    PROVE  \E f \in [Nodes -> Seq(Action)] :
               \A m \in Nodes : node[m].g <= K => f[m] = PlanAt(f, m)
<1> DEFINE Up(f, k) == \A m \in Nodes : node[m].g <= k => f[m] = PlanAt(f, m)
           N == {k \in Nat : \E f \in [Nodes -> Seq(Action)] : Up(f, k)}
<1>1. 0 \in N
  <2> DEFINE f == [m \in Nodes |-> <<>>]
  <2>1. f \in [Nodes -> Seq(Action)]
    OBVIOUS
  <2>2. ASSUME NEW m \in Nodes, node[m].g <= 0 PROVE f[m] = PlanAt(f, m)
    <3>1. node[m].parent = 0
      BY <2>2, LinkFacts
    <3> QED BY <3>1 DEF PlanAt
  <2> QED BY <2>1, <2>2
<1>2. ASSUME NEW k \in N PROVE k + 1 \in N
  <2>1. k \in Nat
    OBVIOUS
  <2>2. PICK f \in [Nodes -> Seq(Action)] : Up(f, k)
    OBVIOUS
  <2> DEFINE h == [m \in Nodes |-> PlanAt(f, m)]
  <2>3. h \in [Nodes -> Seq(Action)]
    BY PlanAtType
  <2>4. ASSUME NEW m \in Nodes, node[m].g <= k + 1 PROVE h[m] = PlanAt(h, m)
    <3>1. h[m] = PlanAt(f, m)
      OBVIOUS
    <3>2. CASE node[m].parent = 0
      BY <3>1, <3>2 DEF PlanAt
    <3>3. CASE node[m].parent # 0
      <4>1. node[m].parent \in Nodes /\ node[node[m].parent].g <= k
        BY <2>1, <2>4, <3>3, LinkFacts
      <4>2. f[node[m].parent] = h[node[m].parent]
        BY <2>2, <4>1
      <4> HIDE DEF h
      <4> QED BY <3>1, <3>3, <4>2 DEF PlanAt
    <3> QED BY <3>2, <3>3
  <2>5. Up(h, k + 1)
    BY <2>4
  <2> HIDE DEF h, Up
  <2> QED BY <2>1, <2>3, <2>5
<1>3. N = Nat
  <2> HIDE DEF N
  <2>1. N \in SUBSET Nat
    BY DEF N
  <2> QED BY <1>1, <1>2, <2>1, Induction
<1> QED BY <1>3

IsPlanFunction(f) == f = [m \in Nodes |-> PlanAt(f, m)]

\* A node's links describe a path of applicable actions from the initial state.
LEMMA PlanToFacts ==
    ASSUME TypeOK, Links, NEW n \in Nodes
    PROVE  /\ PlanTo(n) \in Seq(Action)
           /\ PathTo(task, task.init, PlanTo(n), node[n].state)
<1> DEFINE path == CHOOSE f : IsPlanFunction(f)
<1>1. PlanTo(n) = path[n]
  BY DEF PlanTo, IsPlanFunction, PlanAt
<1>2. IsPlanFunction(path)
  <2>1. PICK k \in Nat : \A m \in Nodes : node[m].g <= k
    BY LengthsBounded
  <2>2. PICK f \in [Nodes -> Seq(Action)] : \A m \in Nodes : f[m] = PlanAt(f, m)
    BY <2>1, PlansExist
  <2>3. IsPlanFunction(f)
    BY <2>2 DEF IsPlanFunction
  <2> QED BY <2>3
<1> HIDE DEF path
<1>3. \A m \in Nodes : path[m] = PlanAt(path, m)
  BY <1>2 DEF IsPlanFunction
<1> DEFINE Good(m) == path[m] \in Seq(Action) /\ PathTo(task, task.init, path[m], node[m].state)
           N == {k \in Nat : \A m \in Nodes : node[m].g <= k => Good(m)}
<1>4. task.init \in State
  BY TaskOK
<1>5. ASSUME NEW m \in Nodes, node[m].parent = 0 PROVE Good(m)
  <2>1. path[m] = <<>> /\ node[m].state = task.init
    BY <1>3, <1>5, NodeFacts, LinkFacts DEF PlanAt
  <2>2. PathTo(task, task.init, <<>>, task.init)
    BY <1>4, EmptyPath
  <2> QED BY <2>1, <2>2
<1>6. ASSUME NEW m \in Nodes, node[m].parent # 0, Good(node[m].parent) PROVE Good(m)
  <2> DEFINE p == node[m].parent
  <2>1. path[m] = Append(path[p], node[m].via)
    BY <1>3, <1>6 DEF PlanAt
  <2>2. /\ node[m].via \in ApplicableActions(task, node[p].state) /\ node[m].via \in Action
        /\ node[m].state = NextState(node[p].state, node[m].via)
    BY <1>6, LinkFacts
  <2>3. path[p] \in Seq(Action) /\ PathTo(task, task.init, path[p], node[p].state)
    BY <1>6
  <2> HIDE DEF p
  <2>4. Append(path[p], node[m].via) \in Seq(Action)
        /\ PathTo(task, task.init, Append(path[p], node[m].via), NextState(node[p].state, node[m].via))
    BY <1>4, <2>2, <2>3, AppendPath
  <2> QED BY <2>1, <2>2, <2>4
<1> HIDE DEF Good
<1>7. 0 \in N
  <2> SUFFICES ASSUME NEW m \in Nodes, node[m].g <= 0 PROVE Good(m)
    OBVIOUS
  <2>1. node[m].parent = 0
    BY LinkFacts
  <2> QED BY <1>5, <2>1
<1>8. ASSUME NEW k \in N PROVE k + 1 \in N
  <2> SUFFICES ASSUME NEW m \in Nodes, node[m].g <= k + 1 PROVE Good(m)
    OBVIOUS
  <2>1. CASE node[m].parent = 0
    BY <1>5, <2>1
  <2>2. CASE node[m].parent # 0
    <3>1. node[m].parent \in Nodes /\ node[node[m].parent].g <= k
      BY <2>2, LinkFacts
    <3>2. Good(node[m].parent)
      BY <3>1
    <3> QED BY <1>6, <2>2, <3>2
  <2> QED BY <2>1, <2>2
<1>9. N = Nat
  <2> HIDE DEF N
  <2>1. N \in SUBSET Nat
    BY DEF N
  <2> QED BY <1>7, <1>8, <2>1, Induction
<1>10. node[n].g \in Nat
  BY LinkFacts
<1>11. Good(n)
  BY <1>9, <1>10
<1> QED BY <1>1, <1>11 DEF Good

\* The plan of a solved search solves the task.
LEMMA PlanToSolves ==
    ASSUME TypeOK, Links, NEW n \in Nodes, IsGoal(task, node[n].state)
    PROVE  PlanTo(n) \in Seq(Action) /\ Solves(task, task.init, PlanTo(n))
BY PlanToFacts, PathSolves

-----------------------------------------------------------------------------
(* Answers *)

\* An exhausted search has closed a set of states that cannot be left
\* towards a goal.
LEMMA ExhaustedIsUnsolvable ==
    ASSUME TypeOK, ExploredOK, pc = "gbfs_open", open = {}
    PROVE  task.init \notin Solvable(task)
<1>1. closed \subseteq State /\ Ahead(task.init)
  BY DEF TypeOK, ExploredOK, InGBFS
<1>2. ASSUME NEW s \in closed
      PROVE  ~IsGoal(task, s) /\ Successors(task, s) \cap Solvable(task) \subseteq closed
  <2>1. ~IsGoal(task, s) /\ \A a \in ApplicableActions(task, s) : Ahead(NextState(s, a))
    BY <1>2 DEF ExploredOK, InGBFS
  <2>2. \A r \in Successors(task, s) : Ahead(r)
    BY <2>1 DEF Successors
  <2> QED BY <2>1, <2>2 DEF Ahead
<1>3. closed \cap Solvable(task) = {}
  BY <1>1, <1>2, UnsolvableSet
<1> QED BY <1>1, <1>3 DEF Ahead

LEMMA AnswerStep ==
    ASSUME TypeOK, Links, PhasesOK, ExploredOK, AnswerOK, [Next]_vars
    PROVE  AnswerOK'
<1>1. CASE \/ StartEHC \/ StartEpisode \/ EHCEndsInDeadEnd \/ EHCOpen \/ EHCExhausted \/ EHCExpanded
           \/ GBFSStart \/ GBFSExpanded \/ OutOfMemory
  BY <1>1 DEF StartEHC, StartEpisode, EHCEndsInDeadEnd, EHCOpen, EHCExhausted, EHCExpanded,
              GBFSStart, GBFSExpanded, OutOfMemory, problem, AnswerOK
<1>2. ASSUME NEW a \in pending, EHCSkip(a) \/ EHCGenerate(a) \/ GBFSSkip(a) PROVE AnswerOK'
  BY <1>2 DEF EHCSkip, EHCGenerate, GBFSSkip, problem, AnswerOK
<1>3. CASE EHCReachesGoal
  <2>1. /\ cur \in Nodes /\ node[cur].h = 0 /\ node[cur].h = heuristic.h[node[cur].state]
        /\ solution' = cur /\ UNCHANGED <<task, node, exit>> /\ pc' = "solved"
    BY <1>3 DEF EHCReachesGoal, TypeOK, PhasesOK, InEHC, problem
  <2>2. IsGoal(task, node[cur].state)
    BY <2>1, NodeFacts, HeuristicOK
  <2> QED BY <2>1, <2>2 DEF AnswerOK, Nodes
<1>4. CASE GBFSReachesGoal
  <2>1. PICK n \in open : IsGoal(task, node[n].state) /\ solution' = n
    BY <1>4 DEF GBFSReachesGoal, Best
  <2>2. n \in Nodes /\ UNCHANGED <<task, node, exit>> /\ pc' = "solved"
    BY <1>4, <2>1 DEF GBFSReachesGoal, TypeOK, problem
  <2> QED BY <2>1, <2>2 DEF AnswerOK, Nodes
<1>5. CASE GBFSExhausted
  <2>1. pc = "gbfs_open" /\ open = {} /\ UNCHANGED <<task, exit>> /\ pc' = "failed"
    BY <1>5 DEF GBFSExhausted, problem
  <2> QED BY <2>1, ExhaustedIsUnsolvable DEF AnswerOK
<1>6. CASE GBFSOpen
  <2>1. pc' = "gbfs_expand" /\ UNCHANGED <<task, exit>>
    BY <1>6, OpenFacts
  <2> QED BY <2>1 DEF AnswerOK
<1>7. ASSUME NEW a \in pending, GBFSUpdate(a) \/ GBFSGenerate(a) PROVE AnswerOK'
  <2>1. pc' = "gbfs_expand" /\ UNCHANGED <<task, exit>>
    BY <1>7, UpdatedFacts, GeneratedFacts
  <2> QED BY <2>1 DEF AnswerOK
<1>8. CASE Report
  <2>1. /\ pc \in {"solved", "failed", "oom"} /\ exit' = ExitCode /\ pc' = "done" /\ task' = task
    BY <1>8 DEF Report, problem
  <2>2. CASE pc = "solved"
    <3>1. solution \in Nodes /\ IsGoal(task, node[solution].state)
      BY <2>2 DEF AnswerOK
    <3>2. Solves(task, task.init, PlanTo(solution))
      BY <3>1, PlanToSolves
    <3>3. exit' = "PLAN_FOUND"
      BY <2>1, <2>2, <3>2 DEF ExitCode
    <3> QED BY <2>1, <3>3 DEF AnswerOK
  <2>3. CASE pc = "failed"
    <3>1. exit' = "UNSOLVABLE"
      BY <2>1, <2>3 DEF ExitCode
    <3> QED BY <2>1, <2>3, <3>1 DEF AnswerOK
  <2>4. CASE pc = "oom"
    <3>1. exit' = "OUT_OF_MEMORY"
      BY <2>1, <2>4 DEF ExitCode
    <3> QED BY <2>1, <3>1 DEF AnswerOK
  <2> QED BY <2>1, <2>2, <2>3, <2>4
<1>9. CASE UNCHANGED vars
  BY <1>9 DEF vars, problem, AnswerOK, Nodes
<1> QED BY <1>1, <1>2, <1>3, <1>4, <1>5, <1>6, <1>7, <1>8, <1>9 DEF Next

-----------------------------------------------------------------------------
(* The inductive invariant and what follows from it *)

IInv == TypeOK /\ Links /\ PhasesOK /\ DeadEndsOK /\ ExploredOK /\ AnswerOK /\ EvaluationsOK

LEMMA InitHolds ==
    ASSUME Init
    PROVE  IInv
<1>1. pc = "start" /\ node = <<>> /\ Nodes = {}
  BY DEF Init, Nodes
<1>2. TypeOK
  BY <1>1 DEF Init, TypeOK, PCs, ExitCodes
<1>3. /\ Links /\ PhasesOK /\ DeadEndsOK /\ ExploredOK /\ EvaluationsOK
  BY <1>1 DEF Links, PhasesOK, DeadEndsOK, ExploredOK, EvaluationsOK, InEHC, InGBFS
<1>4. AnswerOK
  BY <1>1 DEF Init, AnswerOK
<1> QED BY <1>2, <1>3, <1>4 DEF IInv

LEMMA InvariantHolds == Spec => []IInv
<1>1. Init => IInv
  BY InitHolds
<1>2. IInv /\ [Next]_vars => IInv'
  <2> SUFFICES ASSUME IInv, [Next]_vars PROVE IInv'
    OBVIOUS
  <2> USE DEF IInv
  <2>1. TypeOK' /\ Links'
    BY TypeStep, LinksStep
  <2>2. PhasesOK' /\ DeadEndsOK'
    BY PhasesStep, DeadEndsStep
  <2>3. ExploredOK' /\ AnswerOK' /\ EvaluationsOK'
    BY ExploredStep, AnswerStep, EvaluationsStep
  <2> QED BY <2>1, <2>2, <2>3
<1> QED BY <1>1, <1>2, PTL DEF Spec

(***************************************************************************)
(* The variables of the search have their types; open, queue and the       *)
(* current node always index existing nodes.                               *)
(***************************************************************************)
THEOREM TypeCorrect == Spec => []TypeOK
<1>1. IInv => TypeOK
  BY DEF IInv
<1> QED BY <1>1, InvariantHolds, PTL

(***************************************************************************)
(* Whatever mixture of episodes, updates in the open list and evaluation   *)
(* orders led to it, the plan of a solved search passes the check of       *)
(* do_search: RUNTIME_ERROR is unreachable.                                *)
(***************************************************************************)
THEOREM PlansAreCorrect == Spec => []PlanIsCorrect
<1>1. IInv => PlanIsCorrect
  BY DEF IInv, AnswerOK, PlanIsCorrect
<1> QED BY <1>1, InvariantHolds, PTL

(***************************************************************************)
(* The exit code UNSOLVABLE is given for tasks without a plan only, for    *)
(* every heuristic whose estimates of -1 are right.                        *)
(***************************************************************************)
THEOREM UnsolvableIsProof == Spec => []UnsolvableIsTrue
<1>1. IInv => UnsolvableIsTrue
  BY DEF IInv, AnswerOK, UnsolvableIsTrue
<1> QED BY <1>1, InvariantHolds, PTL

\* No sequence of actions solves a task that was called unsolvable.
NoPlanExists == exit = "UNSOLVABLE" => ~ \E p \in Seq(Action) : Solves(task, task.init, p)

(***************************************************************************)
(* The same in terms of plans: no sequence of actions, of any length,      *)
(* solves a task that do_search calls unsolvable.                          *)
(***************************************************************************)
THEOREM UnsolvableMeansNoPlan == Spec => []NoPlanExists
<1>1. IInv => NoPlanExists
  <2> SUFFICES ASSUME IInv, exit = "UNSOLVABLE"
               PROVE  ~ \E p \in Seq(Action) : Solves(task, task.init, p)
    BY DEF NoPlanExists
  <2>1. task \in TaskType /\ task.init \in State /\ task.init \notin Solvable(task)
    BY TaskOK DEF IInv, AnswerOK
  <2> QED BY <2>1, SolvableMeansPlan
<1> QED BY <1>1, InvariantHolds, PTL

(***************************************************************************)
(* Updates in the open list keep every path what its links and its length  *)
(* say, over closed states.                                                *)
(***************************************************************************)
THEOREM PathsAreConsistent == Spec => []PathsConsistent
<1>1. IInv => PathsConsistent
  <2> SUFFICES ASSUME IInv, InGBFS, NEW n \in Nodes, node[n].parent # 0
               PROVE  LET p == node[node[n].parent]
                      IN  /\ p.state \in closed
                          /\ node[n].g = p.g + 1
                          /\ node[n].via \in ApplicableActions(task, p.state)
                          /\ node[n].state = NextState(p.state, node[n].via)
    BY DEF PathsConsistent, InGBFS
  <2> QED BY LinkFacts DEF IInv, PhasesOK
<1> QED BY <1>1, InvariantHolds, PTL

(***************************************************************************)
(* Where no helpfulness is assessed, the best-first search evaluates each  *)
(* node it expands exactly once, whether early or late.                    *)
(***************************************************************************)
THEOREM ExpandedAreEvaluatedOnce == Spec => []EvaluatedOnce
<1>1. IInv => EvaluatedOnce
  BY DEF IInv, EvaluationsOK, EvaluatedOnce, Expanded, InGBFS, AssessesNothing
<1> QED BY <1>1, InvariantHolds, PTL
=============================================================================
