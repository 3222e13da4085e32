---------------------------- MODULE SBFWS_proofs ----------------------------
(***************************************************************************)
(* Proofs about SBFWS, for every set of tasks, variables and values and    *)
(* every configuration.  The invariant is proved in the layers in which    *)
(* SBFWSInvariants states it, each from the ones before; the last part is  *)
(* about the answers.                                                      *)
(***************************************************************************)
EXTENDS SBFWSInvariants, PlanningTask_proofs

-----------------------------------------------------------------------------
(***************************************************************************)
(* The operators of the model keep their types.                            *)
(***************************************************************************)
\* The atoms of a state are finitely many.
LEMMA AtomsOfState ==
    ASSUME NEW s \in State
    PROVE  AtomsOf(s) \subseteq Atom /\ IsFiniteSet(AtomsOf(s))
<1>1. AtomsOf(s) \subseteq Atom
  BY DEF AtomsOf, Atom, State
<1>2. IsFiniteSet(AtomsOf(s))
  <2> DEFINE f == [v \in Vars |-> <<v, s[v]>>]
  <2>1. f \in Surjection(Vars, AtomsOf(s))
    BY DEF Surjection, AtomsOf
  <2> QED BY <2>1, VarsAssumption, FS_Surjection
<1> QED BY <1>1, <1>2

\* #g is a number, and smaller than the one that stands for "not counted".
LEMMA UnachievedType ==
    ASSUME NEW t \in Tasks, NEW s \in State
    PROVE  /\ UnachievedSubgoals(t, s) \in Nat
           /\ MaxUnsigned \in Nat
           /\ UnachievedSubgoals(t, s) # MaxUnsigned
<1>1. Violated(t.goal, s) \subseteq Vars
  BY TasksAssumption DEF Violated, TaskType, PartialAssignment
<1> QED
  BY <1>1, VarsAssumption, FS_Subset, FS_CardinalityType DEF UnachievedSubgoals, MaxUnsigned

\* Actions lead from states to states.
LEMMA ActionType ==
    ASSUME NEW t \in Tasks, NEW s \in State, NEW a \in t.actions
    PROVE  a \in Action /\ NextState(s, a) \in State
<1>1. a \in Action
  BY TasksAssumption DEF TaskType
<1> QED
  BY <1>1 DEF Action, PartialAssignment, State, NextState

\* The relevant atom sets the search derives are well formed.
LEMMA UpdateType ==
    ASSUME NEW r \in RelevantAtomSet, NEW s \in State
    PROVE  UpdateAtomSet(r, s) \in RelevantAtomSet
<1> DEFINE new == (AtomsOf(s) \cap r.rel) \ r.reached
<1>1. new \subseteq Atom /\ IsFiniteSet(new)
  BY AtomsOfState, FS_Subset
<1>2. Cardinality(new) \in Nat
  BY <1>1, FS_CardinalityType
<1>3. r.reached \cup new \in SUBSET Atom /\ r.num + Cardinality(new) \in Nat
  BY <1>1, <1>2 DEF RelevantAtomSet
<1>4. UpdateAtomSet(r, s) = [r EXCEPT !.reached = r.reached \cup new, !.num = r.num + Cardinality(new)]
  BY DEF UpdateAtomSet
<1> HIDE DEF new
<1> QED
  BY <1>3, <1>4 DEF RelevantAtomSet

LEMMA InitType ==
    ASSUME NEW r \in RelevantAtomSet, NEW s \in State
    PROVE  InitAtomSet(r, s) \in RelevantAtomSet
<1>1. EmptyAtomSet(r.rel) \in RelevantAtomSet
  BY DEF EmptyAtomSet, RelevantAtomSet
<1>2. UpdateAtomSet(EmptyAtomSet(r.rel), s) \in RelevantAtomSet
  BY <1>1, UpdateType
<1> QED
  BY <1>2 DEF InitAtomSet, RelevantAtomSet

LEMMA SimulatedType ==
    ASSUME NEW R \in RelevantSets, NEW s \in State
    PROVE  InitAtomSet(EmptyAtomSet(R), s) \in RelevantAtomSet
<1>1. EmptyAtomSet(R) \in RelevantAtomSet
  BY RelevantSetsAssumption DEF EmptyAtomSet, RelevantAtomSet
<1> QED BY <1>1, InitType

\* One evaluation adds entries of the right size to its table.
LEMMA TuplesType ==
    ASSUME NEW k, NEW s, NEW ps, NEW inc, NEW ty \in Nat
    PROVE  {<<ty, x>> : x \in TuplesToCheck(k, s, ps, inc)} \subseteq TableEntries(k)
BY DEF TuplesToCheck, Tuples, TableEntries

\* Appending to, and overwriting in, a sequence.
LEMMA AppendType ==
    ASSUME NEW S, NEW s \in Seq(S), NEW x \in S
    PROVE  /\ Append(s, x) \in Seq(S)
           /\ Len(Append(s, x)) = Len(s) + 1
           /\ DOMAIN Append(s, x) = 1..Len(s)+1
           /\ \A i \in 1..Len(s)+1 : Append(s, x)[i] = IF i = Len(s)+1 THEN x ELSE s[i]
OBVIOUS

LEMMA ExceptType ==
    ASSUME NEW S, NEW s \in Seq(S), NEW i \in 1..Len(s), NEW x \in S
    PROVE  /\ [s EXCEPT ![i] = x] \in Seq(S)
           /\ Len([s EXCEPT ![i] = x]) = Len(s)
BY ExceptSeq

-----------------------------------------------------------------------------
(***************************************************************************)
(* Creating a node.                                                        *)
(***************************************************************************)
NewNode == Len(node) + 1

\* The sequences have one more element; the nodes there were are as they were.
Appended(s, a, p) ==
    /\ node' \in Seq(NodeType)
    /\ w_gr' \in Seq(Novelties) /\ Len(w_gr') = Len(node')
    /\ relevant' \in Seq(RelevantAtomSet \cup {None}) /\ Len(relevant') = Len(node')
    /\ Nodes = 1..Len(node) /\ Nodes' = Nodes \cup {NewNode} /\ NewNode \notin Nodes
    /\ \A n \in Nodes : node'[n] = node[n] /\ relevant'[n] = relevant[n] /\ w_gr'[n] = w_gr[n]
    /\ node'[NewNode].state = s /\ node'[NewNode].action = a /\ node'[NewNode].parent = p
    /\ w_gr'[NewNode] = "Unknown" /\ relevant'[NewNode] = None

\* The new node waits in the queues of the tests it has to go through.
Enqueued ==
    /\ q1' \in {q1, q1 \cup {NewNode}}
    /\ qwgr1' = qwgr1 \cup {NewNode}
    /\ qwgr2' = IF NoveltyLevels = 3 THEN qwgr2 \cup {NewNode} ELSE qwgr2
    /\ qrest' = qrest

\* What create_node is called with: the initial state, or a successor of a node.
ComesFrom(s, a, p) ==
    /\ s \in State /\ a \in Action \cup {None} /\ p \in Nodes \cup {0}
    /\ p = 0 => s = task.init
    /\ p # 0 => /\ a \in ApplicableActions(task, node[p].state)
                /\ s = NextState(node[p].state, a)

\* What AppendNode does: one new node, and its provenance.
LEMMA AppendNodeType ==
    ASSUME TypeOK, NodesOK, task' = task,
           NEW s, NEW a, NEW p, ComesFrom(s, a, p),
           NEW ng \in Nat, NEW w \in Novelties,
           AppendNode(s, a, p, ng, w)
    PROVE  /\ Appended(s, a, p)
           /\ node'[NewNode].unachieved = ng
           /\ NodesOK'
<1> USE DEF NewNode, ComesFrom
<1> DEFINE new == [state |-> s, action |-> a, parent |-> p,
                   g |-> IF p = 0 THEN 0 ELSE node[p].g + 1,
                   unachieved |-> ng, w_g |-> w]
<1>1. node \in Seq(NodeType) /\ Len(node) \in Nat /\ Nodes = 1..Len(node)
  BY LenProperties DEF TypeOK, Nodes
<1>2. new \in NodeType
  <2>1. p # 0 => node[p] \in NodeType
    BY <1>1, ElementOfSeq
  <2> QED BY <1>1, <2>1 DEF NodeType
<1>3. /\ node' = Append(node, new) /\ w_gr' = Append(w_gr, "Unknown")
      /\ relevant' = Append(relevant, None)
  BY DEF AppendNode
<1> HIDE DEF new
<1>4. /\ node' \in Seq(NodeType) /\ Len(node') = Len(node) + 1
      /\ Nodes' = 1..Len(node)+1
      /\ \A n \in 1..Len(node)+1 : node'[n] = IF n = Len(node)+1 THEN new ELSE node[n]
  BY <1>1, <1>2, <1>3, AppendType DEF Nodes
<1>5. /\ w_gr' \in Seq(Novelties) /\ Len(w_gr') = Len(node) + 1
      /\ \A n \in 1..Len(node)+1 : w_gr'[n] = IF n = Len(node)+1 THEN "Unknown" ELSE w_gr[n]
  <2>1. w_gr \in Seq(Novelties) /\ Len(w_gr) = Len(node) /\ "Unknown" \in Novelties
    BY DEF TypeOK, Novelties
  <2> QED BY <1>3, <2>1, AppendType
<1>6. /\ relevant' \in Seq(RelevantAtomSet \cup {None}) /\ Len(relevant') = Len(node) + 1
      /\ \A n \in 1..Len(node)+1 : relevant'[n] = IF n = Len(node)+1 THEN None ELSE relevant[n]
  <2>1. relevant \in Seq(RelevantAtomSet \cup {None}) /\ Len(relevant) = Len(node)
    BY DEF TypeOK
  <2> QED BY <1>3, <2>1, AppendType
<1>7. \A n \in Nodes : n # Len(node)+1 /\ n \in 1..Len(node)+1
  BY <1>1
<1>8. new.state = s /\ new.action = a /\ new.parent = p /\ new.unachieved = ng /\ new.w_g = w
  BY DEF new
<1>9. NodesOK'
  <2> SUFFICES ASSUME NEW n \in Nodes'
               PROVE  /\ Parent(n)' \in 0..(n-1)
                      /\ HasParent(n)' =>
                           /\ node'[n].action \in ApplicableActions(task, node'[Parent(n)'].state)
                           /\ node'[n].state = NextState(node'[Parent(n)'].state, node'[n].action)
                      /\ ~HasParent(n)' => node'[n].state = task.init
    BY DEF NodesOK
  <2>1. CASE n \in Nodes
    <3>1. node'[n] = node[n] /\ Parent(n) \in 0..(n-1)
      BY <1>4, <1>7, <2>1 DEF NodesOK
    <3>2. Parent(n)' = Parent(n) /\ HasParent(n)' = HasParent(n)
      BY <3>1 DEF Parent, HasParent
    <3>3. HasParent(n) => Parent(n) \in Nodes /\ node'[Parent(n)] = node[Parent(n)]
      BY <1>1, <1>4, <1>7, <2>1, <3>1 DEF Parent, HasParent
    <3> QED BY <2>1, <3>1, <3>2, <3>3 DEF NodesOK
  <2>2. CASE n = Len(node)+1
    <3>1. node'[n] = new /\ Parent(n)' = p /\ HasParent(n)' = (p # 0)
      BY <1>4, <1>8, <2>2 DEF Parent, HasParent
    <3>2. p # 0 => node'[p] = node[p]
      BY <1>4, <1>7
    <3>3. p \in 0..(n-1)
      BY <1>1, <2>2
    <3> QED BY <1>8, <3>1, <3>2, <3>3
  <2> QED BY <1>1, <1>4, <2>1, <2>2
<1> QED BY <1>1, <1>4, <1>5, <1>6, <1>7, <1>8, <1>9 DEF Appended

\* What CreateNode does: a goal is only recorded, any other node is queued.
LEMMA CreateNodeType ==
    ASSUME TypeOK, NodesOK, task' = task,
           NEW s, NEW a, NEW p, ComesFrom(s, a, p),
           CreateNode(s, a, p)
    PROVE  /\ Appended(s, a, p)
           /\ NodesOK'
           /\ wg1_table' \subseteq TableEntries(1)
           /\ IF IsGoal(task, s)
              THEN node'[NewNode].unachieved = MaxUnsigned /\ UNCHANGED queues
              ELSE node'[NewNode].unachieved = UnachievedSubgoals(task, s) /\ Enqueued
<1> DEFINE ng   == UnachievedSubgoals(task, s)
           same == p # 0 /\ node[p].unachieved = ng
           seen == TuplesToCheck(1, s, node[p].state, same)
           w    == IF \E x \in seen : <<ng, x>> \notin wg1_table THEN "One" ELSE "GTOne"
<1>1. ng \in Nat /\ MaxUnsigned \in Nat
  BY UnachievedType DEF TypeOK, ComesFrom
<1>2. "Unknown" \in Novelties /\ w \in Novelties
  BY DEF Novelties
<1>3. CASE IsGoal(task, s)
  <2>1. AppendNode(s, a, p, MaxUnsigned, "Unknown") /\ UNCHANGED <<queues, wg1_table>>
    BY <1>3 DEF CreateNode
  <2> QED BY <1>1, <1>2, <1>3, <2>1, AppendNodeType DEF TypeOK
<1>4. CASE ~IsGoal(task, s)
  <2>1. /\ AppendNode(s, a, p, ng, w)
        /\ wg1_table' = wg1_table \cup {<<ng, x>> : x \in seen}
        /\ Enqueued
    BY <1>4 DEF CreateNode, CreateOpenNode, Enqueued, NewNode
  <2>2. wg1_table' \subseteq TableEntries(1)
    <3>1. {<<ng, x>> : x \in seen} \subseteq TableEntries(1)
      BY <1>1, TuplesType
    <3> QED BY <2>1, <3>1 DEF TypeOK
  <2> QED BY <1>1, <1>2, <1>4, <2>1, <2>2, AppendNodeType
<1> QED BY <1>3, <1>4

-----------------------------------------------------------------------------
(***************************************************************************)
(* The bookkeeping invariant.                                              *)
(***************************************************************************)
\* The nodes, and the functions on them, under the bookkeeping invariant.
LEMMA NodeFacts ==
    ASSUME Bookkeeping
    PROVE  /\ Nodes = 1..Len(node) /\ Len(node) \in Nat
           /\ \A n \in Nodes : /\ node[n] \in NodeType
                               /\ node[n].state \in State
                               /\ node[n].unachieved \in Nat
                               /\ relevant[n] \in RelevantAtomSet \cup {None}
                               /\ w_gr[n] \in Novelties
                               /\ HasParent(n) => Parent(n) \in Nodes /\ Parent(n) < n
                               /\ ~HasParent(n) => Parent(n) = 0
<1>1. /\ node \in Seq(NodeType) /\ w_gr \in Seq(Novelties) /\ Len(w_gr) = Len(node)
      /\ relevant \in Seq(RelevantAtomSet \cup {None}) /\ Len(relevant) = Len(node)
  BY DEF Bookkeeping, TypeOK
<1>2. Nodes = 1..Len(node) /\ Len(node) \in Nat
  BY <1>1, LenProperties DEF Nodes
<1> SUFFICES ASSUME NEW n \in Nodes
             PROVE  /\ node[n] \in NodeType
                    /\ node[n].state \in State
                    /\ node[n].unachieved \in Nat
                    /\ relevant[n] \in RelevantAtomSet \cup {None}
                    /\ w_gr[n] \in Novelties
                    /\ HasParent(n) => Parent(n) \in Nodes /\ Parent(n) < n
                    /\ ~HasParent(n) => Parent(n) = 0
  BY <1>2
<1>3. node[n] \in NodeType /\ relevant[n] \in RelevantAtomSet \cup {None} /\ w_gr[n] \in Novelties
  BY <1>1, <1>2, ElementOfSeq
<1>4. node[n].state \in State /\ node[n].unachieved \in Nat
  BY <1>3 DEF NodeType
<1>5. Parent(n) \in 0..(n-1)
  BY DEF Bookkeeping, NodesOK
<1> QED BY <1>2, <1>3, <1>4, <1>5 DEF HasParent, Parent

\* Once the calls of compute_R have returned, the types are known.
LEMMA ComplexTypeType ==
    ASSUME Bookkeeping, pc \in {"wgr1", "wgr2"}, stack = <<>>
    PROVE  ComplexType(cur) \in Nat
<1>1. cur \in Nodes
  BY DEF Bookkeeping, CursorOK
<1>2. NumReached(cur) \in Nat
  <2>1. CASE ~UseR
    BY <2>1 DEF NumReached
  <2>2. CASE UseR
    <3>1. cur # 0 /\ relevant[cur] \in RelevantAtomSet \cup {None}
      BY <1>1, NodeFacts
    <3>2. relevant[cur] # None
      BY <2>2, <3>1 DEF Bookkeeping, CallsOK
    <3> QED BY <2>2, <3>1, <3>2 DEF NumReached, RelevantAtomSet
  <2> QED BY <2>1, <2>2
<1>3. node[cur].unachieved \in Nat
  BY <1>1, NodeFacts
<1> QED BY <1>2, <1>3 DEF ComplexType, TypeIndex, IndexBase

\* Steps that leave the nodes alone keep their provenance.
LEMMA NodesKept ==
    ASSUME NodesOK, UNCHANGED <<task, node>>
    PROVE  NodesOK'
BY DEF NodesOK, Nodes, Parent, HasParent

LEMMA CreateRootKeeps ==
    ASSUME Bookkeeping, CreateRoot
    PROVE  Bookkeeping'
<1>1. ComesFrom(task.init, None, 0)
  BY TasksAssumption DEF ComesFrom, Bookkeeping, TypeOK, TaskType
<1>2. /\ CreateNode(task.init, None, 0) /\ task' = task
      /\ pc' = "loop" /\ solution' = 0
      /\ UNCHANGED <<processed, closed, wgr1_table, wgr2_table, cur, stack,
                     pending, plan, result>>
  BY DEF CreateRoot
<1>3. /\ Appended(task.init, None, 0) /\ NodesOK' /\ wg1_table' \subseteq TableEntries(1)
      /\ UNCHANGED queues \/ Enqueued
  BY <1>1, <1>2, CreateNodeType DEF Bookkeeping
<1>4. TypeOK'
  <2>1. stack \in Seq(Nodes')
    BY <1>3, SeqMonotonic DEF Bookkeeping, TypeOK, Appended
  <2> QED BY <1>2, <1>3, <2>1 DEF Bookkeeping, TypeOK, Appended, Enqueued, queues
<1>5. CursorOK'
  BY <1>2, <1>3 DEF Bookkeeping, CursorOK, CreateRoot
<1>6. CallsOK'
  BY <1>2 DEF CallsOK
<1> QED BY <1>3, <1>4, <1>5, <1>6 DEF Bookkeeping

LEMMA GenerateKeeps ==
    ASSUME Bookkeeping, Generate
    PROVE  Bookkeeping'
<1>1. cur \in Nodes /\ pc = "loop" /\ solution = 0 /\ stack = <<>>
  BY DEF Bookkeeping, CursorOK, Generate
<1>2. PICK a \in pending :
         LET s == NextState(node[cur].state, a)
         IN  IF Known(s)
             THEN /\ pending' = pending \ {a}
                  /\ UNCHANGED <<node, queues, w_gr, relevant, wg1_table, solution>>
             ELSE /\ CreateNode(s, a, cur)
                  /\ IF IsGoal(task, s)
                     THEN pending' = {} /\ solution' = Len(node) + 1
                     ELSE pending' = pending \ {a} /\ UNCHANGED solution
  BY DEF Generate
<1>3. UNCHANGED <<task, pc, processed, closed, wgr1_table, wgr2_table, cur, stack, plan, result>>
  BY DEF Generate
<1> DEFINE s == NextState(node[cur].state, a)
<1>4. /\ cur # 0 /\ a \in ApplicableActions(task, node[cur].state)
      /\ a \in Action /\ node[cur].state \in State /\ s \in State /\ NodesOK /\ TypeOK
  <2>1. a \in ApplicableActions(task, node[cur].state) /\ task \in Tasks /\ a \in task.actions
    BY DEF Bookkeeping, CursorOK, TypeOK
  <2>2. node[cur].state \in State /\ cur # 0
    BY <1>1, NodeFacts
  <2> QED BY <2>1, <2>2, ActionType DEF Bookkeeping
<1>5. CASE Known(s)
  <2>1. pending' = pending \ {a} /\ UNCHANGED <<node, queues, w_gr, relevant, wg1_table, solution>>
    BY <1>2, <1>5
  <2>2. NodesOK'
    BY <1>3, <2>1, NodesKept DEF Bookkeeping
  <2> QED BY <1>1, <1>3, <2>1, <2>2 DEF Bookkeeping, TypeOK, CursorOK, CallsOK, Nodes, queues
<1>6. CASE ~Known(s)
  <2>1. CreateNode(s, a, cur) /\ pending' \subseteq pending /\ solution' \in {0, NewNode}
        /\ (pending' # {} => solution' = 0)
    BY <1>1, <1>2, <1>6 DEF NewNode
  <2>2. ComesFrom(s, a, cur)
    BY <1>1, <1>4 DEF ComesFrom
  <2>3. /\ Appended(s, a, cur) /\ NodesOK' /\ wg1_table' \subseteq TableEntries(1)
        /\ UNCHANGED queues \/ Enqueued
    BY <1>3, <1>4, <2>1, <2>2, CreateNodeType
  <2> HIDE DEF s
  <2>4. TypeOK'
    <3>1. stack \in Seq(Nodes')
      BY <2>3, SeqMonotonic DEF Bookkeeping, TypeOK, Appended
    <3> QED BY <1>3, <2>1, <2>3, <3>1 DEF Bookkeeping, TypeOK, Appended, Enqueued, queues
  <2>5. CursorOK'
    <3>1. Nodes' = Nodes \cup {NewNode} /\ node'[cur] = node[cur] /\ node' # <<>>
      BY <1>1, <2>3 DEF Appended, Nodes
    <3> QED BY <1>1, <1>3, <2>1, <3>1 DEF Bookkeeping, CursorOK
  <2> QED BY <1>1, <1>3, <2>3, <2>4, <2>5 DEF Bookkeeping, CallsOK
<1> QED BY <1>5, <1>6

\* process_node, seen by the bookkeeping invariant.
LEMMA ProcessNodeType ==
    ASSUME Bookkeeping, NEW n \in Nodes, ProcessNode(n)
    PROVE  /\ processed' \subseteq Nodes /\ closed' \subseteq State
           /\ pending' = ApplicableActions(task, node[n].state) /\ pending' \subseteq task.actions
BY NodeFacts DEF ProcessNode, ApplicableActions, Bookkeeping, TypeOK

LEMMA PopQ1Keeps ==
    ASSUME Bookkeeping, PopQ1
    PROVE  Bookkeeping'
<1>1. PICK n \in q1 : cur' = n /\ ProcessNode(n) /\ q1' \subseteq q1
  BY DEF PopQ1, Best, Dequeue
<1>2. UNCHANGED <<task, pc, node, qwgr1, qwgr2, qrest, w_gr, relevant, tables,
                  stack, solution, plan, result>> /\ pc = "loop" /\ solution = 0
  BY DEF PopQ1, TurnOfQ1, Idle
<1>3. n \in Nodes
  BY DEF Bookkeeping, TypeOK
<1>4. /\ processed' \subseteq Nodes /\ closed' \subseteq State
      /\ pending' = ApplicableActions(task, node[n].state) /\ pending' \subseteq task.actions
  BY <1>1, <1>3, ProcessNodeType
<1>5. NodesOK'
  BY <1>2, NodesKept DEF Bookkeeping
<1> QED BY <1>1, <1>2, <1>3, <1>4, <1>5 DEF Bookkeeping, TypeOK, CursorOK, CallsOK, Nodes, tables

LEMMA PopQrestKeeps ==
    ASSUME Bookkeeping, PopQrest
    PROVE  Bookkeeping'
<1>1. PICK n \in qrest : /\ cur' = n /\ qrest' \subseteq qrest
                         /\ IF n \in processed THEN UNCHANGED <<processed, closed, pending>>
                                               ELSE ProcessNode(n)
  BY DEF PopQrest, Best, Dequeue
<1>2. UNCHANGED <<task, pc, node, q1, qwgr1, qwgr2, w_gr, relevant, tables,
                  stack, solution, plan, result>>
      /\ pc = "loop" /\ solution = 0 /\ pending = {}
  BY DEF PopQrest, TurnOfQrest, Idle
<1>3. n \in Nodes
  BY DEF Bookkeeping, TypeOK
<1>4. /\ processed' \subseteq Nodes /\ closed' \subseteq State /\ pending' \subseteq task.actions
      /\ pending' \subseteq ApplicableActions(task, node[n].state)
  <2>1. CASE n \in processed
    BY <1>1, <1>2, <2>1 DEF Bookkeeping, TypeOK
  <2>2. CASE n \notin processed
    BY <1>1, <1>3, <2>2, ProcessNodeType
  <2> QED BY <2>1, <2>2
<1>5. NodesOK'
  BY <1>2, NodesKept DEF Bookkeeping
<1> QED BY <1>1, <1>2, <1>3, <1>4, <1>5 DEF Bookkeeping, TypeOK, CursorOK, CallsOK, Nodes, tables

\* The calls of compute_R an evaluation starts with.
LEMMA CallsType ==
    ASSUME Bookkeeping, NEW n \in Nodes
    PROVE  /\ CallsOfComputeR(n) \in Seq(Nodes)
           /\ ~UseR => CallsOfComputeR(n) = <<>>
           /\ UseR => \A m \in {n, Parent(n)} \ {0} :
                        \E i \in 1..Len(CallsOfComputeR(n)) : CallsOfComputeR(n)[i] = m
<1>1. CASE ~UseR
  BY <1>1 DEF CallsOfComputeR
<1>2. CASE UseR /\ HasParent(n)
  <2>1. CallsOfComputeR(n) = <<n, Parent(n)>> /\ Parent(n) \in Nodes
    BY <1>2, NodeFacts DEF CallsOfComputeR
  <2> QED BY <1>2, <2>1
<1>3. CASE UseR /\ ~HasParent(n)
  <2>1. CallsOfComputeR(n) = <<n>> /\ Parent(n) = 0
    BY <1>3, NodeFacts DEF CallsOfComputeR
  <2> QED BY <1>3, <2>1
<1> QED BY <1>1, <1>2, <1>3

\* An evaluation starts.
LEMMA StartEvaluationKeeps ==
    ASSUME Bookkeeping, NEW n \in Nodes, cur' = n, stack' = CallsOfComputeR(n),
           pc' \in {"wgr1", "wgr2"}, Idle,
           qwgr1' \subseteq qwgr1, qwgr2' \subseteq qwgr2,
           UNCHANGED <<task, node, processed, closed, q1, qrest, w_gr, relevant,
                       tables, pending, solution, plan, result>>
    PROVE  Bookkeeping'
<1>1. /\ CallsOfComputeR(n) \in Seq(Nodes)
      /\ ~UseR => CallsOfComputeR(n) = <<>>
      /\ UseR => \A m \in {n, Parent(n)} \ {0} :
                   \E i \in 1..Len(CallsOfComputeR(n)) : CallsOfComputeR(n)[i] = m
  BY CallsType
<1>2. TypeOK'
  BY <1>1 DEF Bookkeeping, TypeOK, Nodes, tables
<1>3. NodesOK'
  BY NodesKept DEF Bookkeeping
<1>4. CursorOK'
  BY <1>1 DEF Bookkeeping, CursorOK, Idle, Nodes
<1>5. CallsOK'
  BY <1>1 DEF CallsOK, Parent
<1> QED BY <1>2, <1>3, <1>4, <1>5 DEF Bookkeeping

LEMMA PopQwgr1Keeps ==
    ASSUME Bookkeeping, PopQwgr1
    PROVE  Bookkeeping'
<1>1. PICK n \in qwgr1 : cur' = n /\ stack' = CallsOfComputeR(n) /\ qwgr1' \subseteq qwgr1
  BY DEF PopQwgr1, Best, Dequeue
<1>2. n \in Nodes
  BY DEF Bookkeeping, TypeOK
<1> QED BY <1>1, <1>2, StartEvaluationKeeps DEF PopQwgr1, TurnOfQwgr1

LEMMA PopQwgr2Keeps ==
    ASSUME Bookkeeping, PopQwgr2
    PROVE  Bookkeeping'
<1>1. PICK n \in qwgr2 : cur' = n /\ stack' = CallsOfComputeR(n) /\ qwgr2' \subseteq qwgr2
  BY DEF PopQwgr2, Best, Dequeue
<1>2. n \in Nodes
  BY DEF Bookkeeping, TypeOK
<1> QED BY <1>1, <1>2, StartEvaluationKeeps DEF PopQwgr2, TurnOfQwgr2

\* The innermost call of compute_R returns a set.
LEMMA ReturnKeeps ==
    ASSUME Bookkeeping, stack # <<>>, NEW r \in RelevantAtomSet, Return(Head(stack), r),
           UNCHANGED <<task, pc, node, processed, closed, queues, w_gr, tables, cur,
                       pending, solution, plan, result>>
    PROVE  Bookkeeping'
<1> DEFINE n == Head(stack)
<1>1. stack \in Seq(Nodes) /\ relevant \in Seq(RelevantAtomSet \cup {None}) /\ Len(relevant) = Len(node)
  BY DEF Bookkeeping, TypeOK
<1>2. /\ n \in Nodes /\ Tail(stack) \in Seq(Nodes) /\ Len(Tail(stack)) = Len(stack) - 1
      /\ Len(stack) \in Nat /\ n = stack[1]
      /\ \A i \in 1..Len(Tail(stack)) : Tail(stack)[i] = stack[i+1]
  BY <1>1, HeadTailProperties, LenProperties
<1>3. Nodes = 1..Len(relevant)
  BY <1>1, NodeFacts
<1>4. relevant' = [relevant EXCEPT ![n] = r] /\ stack' = Tail(stack)
  BY DEF Return
<1>5. /\ relevant' \in Seq(RelevantAtomSet \cup {None}) /\ Len(relevant') = Len(relevant)
      /\ \A m \in Nodes : relevant'[m] = IF m = n THEN r ELSE relevant[m]
  BY <1>1, <1>2, <1>3, <1>4, ExceptSeq
<1>6. r # None
  BY NoneAssumption
<1> HIDE DEF n
<1>7. TypeOK'
  BY <1>1, <1>2, <1>4, <1>5 DEF Bookkeeping, TypeOK, Nodes, tables, queues
<1>8. NodesOK'
  BY NodesKept DEF Bookkeeping
<1>9. CursorOK'
  BY DEF Bookkeeping, CursorOK, Nodes
<1>10. CallsOK'
  <2> SUFFICES ASSUME pc \in {"wgr1", "wgr2"}, UseR,
                      NEW m \in {cur, Parent(cur)} \ {0}
               PROVE  relevant'[m] # None \/ \E i \in 1..Len(stack') : stack'[i] = m
    BY DEF CallsOK, Parent
  <2>1. m \in Nodes
    <3>1. cur \in Nodes
      BY DEF Bookkeeping, CursorOK
    <3> QED BY <3>1, NodeFacts
  <2>2. CASE relevant[m] # None
    BY <1>5, <1>6, <2>1, <2>2
  <2>3. CASE \E i \in 1..Len(stack) : stack[i] = m
    <3>1. PICK i \in 1..Len(stack) : stack[i] = m
      BY <2>3
    <3>2. CASE i = 1
      BY <1>2, <1>5, <1>6, <2>1, <3>1, <3>2
    <3>3. CASE i # 1
      <4>1. i - 1 \in 1..Len(Tail(stack)) /\ Tail(stack)[i-1] = m
        BY <1>2, <3>1, <3>3
      <4> QED BY <1>4, <4>1
    <3> QED BY <3>2, <3>3
  <2> QED BY <2>2, <2>3 DEF Bookkeeping, CallsOK
<1> QED BY <1>7, <1>8, <1>9, <1>10 DEF Bookkeeping

\* The innermost call of compute_R calls it for the parent.
LEMMA CallParentKeeps ==
    ASSUME Bookkeeping, stack # <<>>, NEW p \in Nodes, stack' = <<p>> \o stack,
           UNCHANGED <<task, pc, node, processed, closed, queues, w_gr, relevant, tables, cur,
                       pending, solution, plan, result>>
    PROVE  Bookkeeping'
<1>1. stack \in Seq(Nodes) /\ <<p>> \in Seq(Nodes)
  BY DEF Bookkeeping, TypeOK
<1>2. /\ stack' \in Seq(Nodes) /\ Len(stack') = 1 + Len(stack) /\ Len(stack) \in Nat
      /\ \A i \in 1..Len(stack) : stack'[i+1] = stack[i]
  BY <1>1, ConcatProperties, LenProperties
<1>3. TypeOK'
  BY <1>2 DEF Bookkeeping, TypeOK, Nodes, tables, queues
<1>4. NodesOK'
  BY NodesKept DEF Bookkeeping
<1>5. CursorOK'
  BY DEF Bookkeeping, CursorOK, Nodes
<1>6. CallsOK'
  <2> SUFFICES ASSUME pc \in {"wgr1", "wgr2"}, UseR,
                      NEW m \in {cur, Parent(cur)} \ {0}, relevant[m] = None
               PROVE  \E i \in 1..Len(stack') : stack'[i] = m
    BY DEF CallsOK, Parent
  <2>1. PICK i \in 1..Len(stack) : stack[i] = m
    BY DEF Bookkeeping, CallsOK
  <2>2. i+1 \in 1..Len(stack') /\ stack'[i+1] = m
    BY <1>2, <2>1
  <2> QED BY <2>2
<1> QED BY <1>3, <1>4, <1>5, <1>6 DEF Bookkeeping

LEMMA ComputeRKeeps ==
    ASSUME Bookkeeping, ComputeR
    PROVE  Bookkeeping'
<1> DEFINE n == Head(stack)
           p == Parent(n)
           s == node[n].state
<1>1. /\ stack # <<>>
      /\ UNCHANGED <<task, pc, node, processed, closed, queues, w_gr, tables, cur,
                     pending, solution, plan, result>>
  BY DEF ComputeR
<1>2. n \in Nodes
  BY <1>1, HeadTailProperties DEF Bookkeeping, TypeOK
<1>3. s \in State /\ (~NeedsSimulation(n) => p \in Nodes)
  BY <1>2, NodeFacts DEF NeedsSimulation, DecreasesUnachieved
<1>4. relevant[n] # None => relevant[n] \in RelevantAtomSet
  BY <1>2, NodeFacts
<1>5. ~NeedsSimulation(n) /\ relevant[p] # None => relevant[p] \in RelevantAtomSet
  BY <1>3, NodeFacts
<1>6. CASE relevant[n] # None /\ Return(n, relevant[n])
  BY <1>1, <1>4, <1>6, ReturnKeeps
<1>7. CASE \E R \in RelevantSets : Return(n, InitAtomSet(EmptyAtomSet(R), s))
  BY <1>1, <1>3, <1>7, SimulatedType, ReturnKeeps
<1>8. CASE /\ ~NeedsSimulation(n) /\ relevant[p] # None
           /\ Return(n, IF DecreasesUnachieved(n) THEN InitAtomSet(relevant[p], s)
                                                  ELSE UpdateAtomSet(relevant[p], s))
  <2>1. InitAtomSet(relevant[p], s) \in RelevantAtomSet /\ UpdateAtomSet(relevant[p], s) \in RelevantAtomSet
    BY <1>3, <1>5, <1>8, InitType, UpdateType
  <2> QED BY <1>1, <1>8, <2>1, ReturnKeeps
<1>9. CASE ~NeedsSimulation(n) /\ stack' = <<p>> \o stack /\ UNCHANGED relevant
  BY <1>1, <1>3, <1>9, CallParentKeeps
<1> QED BY <1>1, <1>6, <1>7, <1>8, <1>9 DEF ComputeR

\* What becomes of an evaluated node.
LEMMA DispatchType ==
    ASSUME Bookkeeping, NEW n \in Nodes, NEW novel, NEW last, Dispatch(n, novel, last), pending = {}
    PROVE  /\ processed' \subseteq Nodes /\ closed' \subseteq State
           /\ pending' \subseteq ApplicableActions(task, node[n].state) /\ pending' \subseteq task.actions
           /\ qrest' \subseteq Nodes
<1>1. CASE ProcessNode(n) /\ qrest' = qrest
  BY <1>1, ProcessNodeType DEF Bookkeeping, TypeOK
<1>2. CASE HandleUnprocessed(n, last)
  BY <1>2 DEF HandleUnprocessed, Bookkeeping, TypeOK
<1>3. CASE UNCHANGED <<processed, closed, pending, qrest>>
  BY <1>3 DEF Bookkeeping, TypeOK
<1> QED BY <1>1, <1>2, <1>3 DEF Dispatch

LEMMA EvaluateKeeps ==
    ASSUME Bookkeeping, pc \in {"wgr1", "wgr2"}, pc' = "loop", stack = <<>>,
           NEW novel, NEW last, Dispatch(cur, novel, last),
           NEW w \in Novelties, w_gr' = [w_gr EXCEPT ![cur] = w],
           wgr1_table' \subseteq TableEntries(1), wgr2_table' \subseteq TableEntries(2),
           UNCHANGED <<task, node, q1, qwgr1, qwgr2, relevant, wg1_table,
                       cur, stack, solution, plan, result>>,
           solution = 0
    PROVE  Bookkeeping'
<1>1. cur \in Nodes /\ pending = {}
  BY DEF Bookkeeping, CursorOK
<1>2. w_gr' \in Seq(Novelties) /\ Len(w_gr') = Len(w_gr)
  BY <1>1, NodeFacts, ExceptType DEF Bookkeeping, TypeOK
<1>3. /\ processed' \subseteq Nodes /\ closed' \subseteq State
      /\ pending' \subseteq ApplicableActions(task, node[cur].state) /\ pending' \subseteq task.actions
      /\ qrest' \subseteq Nodes
  BY <1>1, DispatchType
<1>4. TypeOK'
  BY <1>2, <1>3 DEF Bookkeeping, TypeOK, Nodes
<1>5. NodesOK'
  BY NodesKept DEF Bookkeeping
<1> QED BY <1>1, <1>3, <1>4, <1>5 DEF Bookkeeping, CursorOK, CallsOK, Nodes

LEMMA EvaluateWgr1Keeps ==
    ASSUME Bookkeeping, EvaluateWgr1
    PROVE  Bookkeeping'
<1> DEFINE seen == IF UseR THEN TuplesOfType(1, cur) ELSE {}
           ty   == ComplexType(cur)
           one  == \E x \in seen : <<ty, x>> \notin wgr1_table
           w    == IF one THEN "One" ELSE "GTOne"
<1>1. /\ pc = "wgr1" /\ stack = <<>> /\ pc' = "loop" /\ solution = 0
      /\ wgr1_table' = wgr1_table \cup {<<ty, x>> : x \in seen}
      /\ w_gr' = [w_gr EXCEPT ![cur] = w]
      /\ Dispatch(cur, one, NoveltyLevels = 2)
      /\ UNCHANGED <<task, node, q1, qwgr1, qwgr2, relevant, wg1_table, wgr2_table,
                     cur, stack, solution, plan, result>>
  BY DEF EvaluateWgr1, Bookkeeping, CursorOK
<1>2. w \in Novelties
  BY DEF Novelties
<1>3. {<<ty, x>> : x \in seen} \subseteq TableEntries(1)
  <2>1. ty \in Nat
    BY <1>1, ComplexTypeType
  <2>2. CASE UseR
    BY <2>1, <2>2, TuplesType DEF TuplesOfType
  <2>3. CASE ~UseR
    BY <2>3
  <2> QED BY <2>2, <2>3
<1>4. wgr1_table' \subseteq TableEntries(1) /\ wgr2_table' \subseteq TableEntries(2)
  BY <1>1, <1>3 DEF Bookkeeping, TypeOK
<1> HIDE DEF one, w
<1> QED BY <1>1, <1>2, <1>4, EvaluateKeeps

LEMMA EvaluateWgr2Keeps ==
    ASSUME Bookkeeping, EvaluateWgr2
    PROVE  Bookkeeping'
<1> DEFINE seen == TuplesOfType(2, cur)
           ty   == ComplexType(cur)
           two  == \E x \in seen : <<ty, x>> \notin wgr2_table
           w    == IF w_gr[cur] = "One" THEN "One" ELSE IF two THEN "Two" ELSE "GTTwo"
<1>1. /\ pc = "wgr2" /\ stack = <<>> /\ pc' = "loop" /\ solution = 0
      /\ wgr2_table' = wgr2_table \cup {<<ty, x>> : x \in seen}
      /\ w_gr' = [w_gr EXCEPT ![cur] = w]
      /\ Dispatch(cur, two, TRUE)
      /\ UNCHANGED <<task, node, q1, qwgr1, qwgr2, relevant, wg1_table, wgr1_table,
                     cur, stack, solution, plan, result>>
  BY DEF EvaluateWgr2, Bookkeeping, CursorOK
<1>2. w \in Novelties
  BY DEF Novelties
<1>3. {<<ty, x>> : x \in seen} \subseteq TableEntries(2)
  <2>1. ty \in Nat
    BY <1>1, ComplexTypeType
  <2> QED BY <2>1, TuplesType DEF TuplesOfType
<1>4. wgr1_table' \subseteq TableEntries(1) /\ wgr2_table' \subseteq TableEntries(2)
  BY <1>1, <1>3 DEF Bookkeeping, TypeOK
<1> HIDE DEF two, w
<1> QED BY <1>1, <1>2, <1>4, EvaluateKeeps

LEMMA NoPlanKeeps ==
    ASSUME Bookkeeping, NoPlan
    PROVE  Bookkeeping'
<1>1. NodesOK'
  BY NodesKept DEF NoPlan, Bookkeeping
<1> QED BY <1>1 DEF NoPlan, AllEmpty, Idle, Bookkeeping, TypeOK, CursorOK, CallsOK, Nodes, queues, tables

LEMMA StartExtractionKeeps ==
    ASSUME Bookkeeping, StartExtraction
    PROVE  Bookkeeping'
<1>1. NodesOK'
  BY NodesKept DEF StartExtraction, Bookkeeping
<1> QED BY <1>1 DEF StartExtraction, Bookkeeping, TypeOK, CursorOK, CallsOK, Nodes, queues, tables

LEMMA ExtractActionKeeps ==
    ASSUME Bookkeeping, ExtractAction
    PROVE  Bookkeeping'
<1>1. /\ pc = "extract" /\ HasParent(cur) /\ plan' = <<node[cur].action>> \o plan /\ cur' = Parent(cur)
      /\ UNCHANGED <<task, pc, node, processed, closed, queues, w_gr, relevant, tables,
                     stack, pending, solution, result>>
  BY DEF ExtractAction, ExtendPlan
<1>2. cur \in Nodes /\ Parent(cur) \in Nodes /\ pending = {}
  BY <1>1, NodeFacts DEF Bookkeeping, CursorOK
<1>3. node[cur].action \in Action
  <2>1. node[cur].action \in ApplicableActions(task, node[Parent(cur)].state)
    BY <1>1, <1>2 DEF Bookkeeping, NodesOK
  <2>2. node[Parent(cur)].state \in State /\ task \in Tasks
    BY <1>2, NodeFacts DEF Bookkeeping, TypeOK
  <2> QED BY <2>1, <2>2, ActionType DEF ApplicableActions
<1>4. plan' \in Seq(Action)
  BY <1>1, <1>3, ConcatProperties DEF Bookkeeping, TypeOK
<1>5. NodesOK'
  BY <1>1, NodesKept DEF Bookkeeping
<1> QED BY <1>1, <1>2, <1>4, <1>5 DEF Bookkeeping, TypeOK, CursorOK, CallsOK, Nodes, queues, tables

LEMMA PlanExtractedKeeps ==
    ASSUME Bookkeeping, PlanExtracted
    PROVE  Bookkeeping'
<1>1. NodesOK'
  BY NodesKept DEF PlanExtracted, Bookkeeping
<1> QED BY <1>1 DEF PlanExtracted, Bookkeeping, TypeOK, CursorOK, CallsOK, Nodes, queues, tables

LEMMA BookkeepingInit ==
    ASSUME Init
    PROVE  Bookkeeping
<1>1. Nodes = {} /\ Len(node) = 0
  BY DEF Init, Nodes
<1> QED BY <1>1 DEF Init, Bookkeeping, TypeOK, NodesOK, CursorOK, CallsOK

LEMMA BookkeepingStep ==
    ASSUME Bookkeeping, [Next]_vars
    PROVE  Bookkeeping'
<1>1. CASE CreateRoot      BY <1>1, CreateRootKeeps
<1>2. CASE PopQ1           BY <1>2, PopQ1Keeps
<1>3. CASE PopQwgr1        BY <1>3, PopQwgr1Keeps
<1>4. CASE PopQwgr2        BY <1>4, PopQwgr2Keeps
<1>5. CASE PopQrest        BY <1>5, PopQrestKeeps
<1>6. CASE Generate        BY <1>6, GenerateKeeps
<1>7. CASE ComputeR        BY <1>7, ComputeRKeeps
<1>8. CASE EvaluateWgr1    BY <1>8, EvaluateWgr1Keeps
<1>9. CASE EvaluateWgr2    BY <1>9, EvaluateWgr2Keeps
<1>10. CASE NoPlan          BY <1>10, NoPlanKeeps
<1>11. CASE StartExtraction BY <1>11, StartExtractionKeeps
<1>12. CASE ExtractAction   BY <1>12, ExtractActionKeeps
<1>13. CASE PlanExtracted   BY <1>13, PlanExtractedKeeps
<1>14. CASE UNCHANGED vars
  <2>1. NodesOK'
    BY <1>14, NodesKept DEF vars, Bookkeeping
  <2> QED BY <1>14, <2>1 DEF vars, Bookkeeping, TypeOK, CursorOK, CallsOK, Nodes, Parent, queues, tables
<1> QED
  BY <1>1, <1>2, <1>3, <1>4, <1>5, <1>6, <1>7, <1>8, <1>9, <1>10, <1>11, <1>12, <1>13, <1>14
  DEF Next, Terminating

(***************************************************************************)
(* The nodes always form a tree of applicable actions rooted in the        *)
(* initial state, the cursor of every phase is a node, and no evaluation   *)
(* reads a relevant set that was not computed.                             *)
(***************************************************************************)
THEOREM BookkeepingInvariant == Spec => []Bookkeeping
<1>1. Init => Bookkeeping
  BY BookkeepingInit
<1>2. Bookkeeping /\ [Next]_vars => Bookkeeping'
  BY BookkeepingStep
<1> QED BY <1>1, <1>2, PTL DEF Spec

\* Every variable of the search always has its type.
THEOREM TypeCorrect == Spec => []TypeOK
<1>1. Bookkeeping => TypeOK
  BY DEF Bookkeeping
<1> QED BY <1>1, BookkeepingInvariant, PTL

-----------------------------------------------------------------------------
(***************************************************************************)
(* The queues: no node is lost and no state is in play twice.              *)
(***************************************************************************)
QueueInv == QueuesOK /\ OneNodePerState /\ NothingLost

\* A step that moves nodes from queue to queue, and drops none unless it prunes.
LEMMA MovingKeeps ==
    ASSUME QueueInv, UNCHANGED node, Live' \subseteq Live,
           ~Pruning => Live \subseteq Live', QueuesOK'
    PROVE  QueueInv'
<1>1. Queued' = Queued
  BY DEF Queued, Nodes
<1>2. OneNodePerState'
  BY DEF QueueInv, OneNodePerState
<1>3. NothingLost'
  BY <1>1 DEF QueueInv, NothingLost
<1> QED BY <1>2, <1>3 DEF QueueInv

\* process_node on a node that was live.
LEMMA ClosedOfProcessed ==
    ASSUME QueuesOK, NEW n, ProcessNode(n), UNCHANGED node
    PROVE  closed' = {node'[m].state : m \in processed'} /\ processed' = processed \cup {n}
BY DEF QueuesOK, ProcessNode

LEMMA PopQ1KeepsQueues ==
    ASSUME Bookkeeping, QueueInv, PopQ1
    PROVE  QueueInv'
<1>1. PICK n \in q1 : q1' = q1 \ {n} /\ ProcessNode(n)
  BY DEF PopQ1, Best, Dequeue
<1>2. UNCHANGED <<pc, node, qwgr1, qwgr2, qrest>> /\ pc = "loop"
  BY DEF PopQ1, TurnOfQ1, Idle
<1>3. closed' = {node'[m].state : m \in processed'} /\ processed' = processed \cup {n}
  BY <1>1, <1>2, ClosedOfProcessed DEF QueueInv
<1>4. Live' = Live
  BY <1>1, <1>2, <1>3 DEF Live, OpenNodes, InEvaluation
<1>5. Queued' = Queued /\ n \in Queued
  BY <1>1, <1>2 DEF Queued, Nodes, QueueInv, QueuesOK, OpenNodes
<1>6. QueuesOK'
  BY <1>1, <1>2, <1>3, <1>5 DEF QueueInv, QueuesOK, OpenNodes, InEvaluation
<1> QED BY <1>2, <1>4, <1>6, MovingKeeps

LEMMA PopQrestKeepsQueues ==
    ASSUME Bookkeeping, QueueInv, PopQrest
    PROVE  QueueInv'
<1>1. PICK n \in qrest : qrest' = qrest \ {n}
                         /\ IF n \in processed THEN UNCHANGED <<processed, closed, pending>>
                                               ELSE ProcessNode(n)
  BY DEF PopQrest, Best, Dequeue
<1>2. UNCHANGED <<pc, node, q1, qwgr1, qwgr2>> /\ pc = "loop" /\ q1 = {}
  BY DEF PopQrest, TurnOfQrest, Idle
<1>3. closed' = {node'[m].state : m \in processed'} /\ processed' = processed \cup {n}
  <2>1. CASE n \in processed
    BY <1>1, <1>2, <2>1 DEF QueueInv, QueuesOK
  <2>2. CASE n \notin processed
    BY <1>1, <1>2, <2>2, ClosedOfProcessed DEF QueueInv
  <2> QED BY <2>1, <2>2
<1>4. Live' = Live
  BY <1>1, <1>2, <1>3 DEF Live, OpenNodes, InEvaluation
<1>5. Queued' = Queued /\ n \in Queued
  BY <1>1, <1>2 DEF Queued, Nodes, QueueInv, QueuesOK, OpenNodes
<1>6. QueuesOK'
  BY <1>1, <1>2, <1>3, <1>5 DEF QueueInv, QueuesOK, OpenNodes, InEvaluation
<1> QED BY <1>2, <1>4, <1>6, MovingKeeps

LEMMA PopQwgr1KeepsQueues ==
    ASSUME Bookkeeping, QueueInv, PopQwgr1
    PROVE  QueueInv'
<1>1. PICK n \in qwgr1 : qwgr1' = qwgr1 \ {n} /\ cur' = n
  BY DEF PopQwgr1, Best, Dequeue
<1>2. /\ UNCHANGED <<node, processed, closed, q1, qwgr2, qrest>> /\ q1 = {}
      /\ pc = "loop" /\ pc' = "wgr1"
  BY DEF PopQwgr1, TurnOfQwgr1, Idle
<1>3. Live' = Live
  BY <1>1, <1>2 DEF Live, OpenNodes, InEvaluation
<1>4. Queued' = Queued /\ n \in Queued
  BY <1>1, <1>2 DEF Queued, Nodes, QueueInv, QueuesOK, OpenNodes
<1>5. QueuesOK'
  BY <1>1, <1>2, <1>4 DEF QueueInv, QueuesOK, OpenNodes, InEvaluation
<1> QED BY <1>2, <1>3, <1>5, MovingKeeps

LEMMA PopQwgr2KeepsQueues ==
    ASSUME Bookkeeping, QueueInv, PopQwgr2
    PROVE  QueueInv'
<1>1. PICK n \in qwgr2 : qwgr2' = qwgr2 \ {n} /\ cur' = n
  BY DEF PopQwgr2, Best, Dequeue
<1>2. /\ UNCHANGED <<node, processed, closed, q1, qwgr1, qrest>> /\ q1 = {} /\ qwgr1 = {}
      /\ pc = "loop" /\ pc' = "wgr2" /\ NoveltyLevels = 3
  BY DEF PopQwgr2, TurnOfQwgr2, Idle
<1>3. Live' = Live
  BY <1>1, <1>2 DEF Live, OpenNodes, InEvaluation
<1>4. Queued' = Queued /\ n \in Queued
  BY <1>1, <1>2 DEF Queued, Nodes, QueueInv, QueuesOK, OpenNodes
<1>5. QueuesOK'
  BY <1>1, <1>2, <1>4 DEF QueueInv, QueuesOK, OpenNodes, InEvaluation
<1> QED BY <1>2, <1>3, <1>5, MovingKeeps

\* After an evaluation the node was expanded, waits in a later queue, or is pruned.
LEMMA EvaluateKeepsQueues ==
    ASSUME Bookkeeping, QueueInv, pc \in {"wgr1", "wgr2"}, pc' = "loop",
           NEW novel, NEW last \in BOOLEAN, Dispatch(cur, novel, last),
           last \/ (pc = "wgr1" /\ NoveltyLevels = 3),
           UNCHANGED <<node, q1, qwgr1, qwgr2>>
    PROVE  QueueInv'
<1>1. /\ cur \in Queued /\ InEvaluation = {cur} /\ InEvaluation' = {}
      /\ pc = "wgr1" /\ NoveltyLevels = 3 => cur \in qwgr2
  BY DEF QueueInv, QueuesOK, InEvaluation
<1>2. Queued' = Queued
  BY DEF Queued, Nodes
<1>3. CASE cur \in processed /\ UNCHANGED <<processed, closed, qrest>>
  <2>1. Live' = Live
    BY <1>1, <1>3 DEF Live, OpenNodes
  <2>2. QueuesOK'
    BY <1>1, <1>2, <1>3 DEF QueueInv, QueuesOK, OpenNodes
  <2> QED BY <2>1, <2>2, MovingKeeps
<1>4. CASE ProcessNode(cur) /\ UNCHANGED qrest
  <2>1. closed' = {node'[m].state : m \in processed'} /\ processed' = processed \cup {cur}
    BY <1>4, ClosedOfProcessed DEF QueueInv
  <2>2. Live' = Live
    BY <1>1, <1>4, <2>1 DEF Live, OpenNodes
  <2>3. QueuesOK'
    BY <1>1, <1>2, <1>4, <2>1 DEF QueueInv, QueuesOK, OpenNodes
  <2> QED BY <2>2, <2>3, MovingKeeps
<1>5. CASE HandleUnprocessed(cur, last)
  <2>1. Live' \subseteq Live /\ (~Pruning => Live \subseteq Live')
    BY <1>1, <1>5 DEF Live, OpenNodes, HandleUnprocessed
  <2>2. QueuesOK'
    BY <1>1, <1>2, <1>5 DEF QueueInv, QueuesOK, OpenNodes, HandleUnprocessed
  <2> QED BY <2>1, <2>2, MovingKeeps
<1> QED BY <1>3, <1>4, <1>5 DEF Dispatch

\* A new node has a state of its own and waits in a queue, unless it is a goal.
LEMMA CreateKeepsQueues ==
    ASSUME Bookkeeping, QueueInv, NEW s, NEW a, NEW p, ComesFrom(s, a, p),
           CreateNode(s, a, p), ~Known(s),
           pc \notin {"wgr1", "wgr2"}, pc' \notin {"wgr1", "wgr2"},
           UNCHANGED <<task, processed, closed>>
    PROVE  QueueInv'
<1> DEFINE new == IF IsGoal(task, s) THEN {} ELSE {NewNode}
<1>1. /\ Appended(s, a, p)
      /\ IF IsGoal(task, s)
         THEN node'[NewNode].unachieved = MaxUnsigned /\ UNCHANGED queues
         ELSE node'[NewNode].unachieved = UnachievedSubgoals(task, s) /\ Enqueued
  BY CreateNodeType DEF Bookkeeping
<1>2. UnachievedSubgoals(task, s) # MaxUnsigned
  BY UnachievedType DEF Bookkeeping, TypeOK, ComesFrom
<1>3. /\ Nodes' = Nodes \cup {NewNode} /\ NewNode \notin Nodes
      /\ \A n \in Nodes : node'[n] = node[n]
      /\ node'[NewNode].state = s
  BY <1>1 DEF Appended
<1>4. /\ InEvaluation = {} /\ InEvaluation' = {}
      /\ Live = OpenNodes \cup processed /\ Live \subseteq Queued /\ Queued \subseteq Nodes
      /\ closed = {node[n].state : n \in processed}
  BY DEF InEvaluation, QueueInv, QueuesOK, Live, Queued
<1>5. Queued' = Queued \cup new
  BY <1>1, <1>2, <1>3 DEF Queued
<1>6. OpenNodes' = OpenNodes \cup new
  BY <1>1 DEF OpenNodes, queues, Enqueued
<1>7. Live' = Live \cup new
  BY <1>4, <1>6 DEF Live
<1>8. \A n \in Live : node'[n] = node[n] /\ node[n].state # s
  BY <1>3, <1>4 DEF Known, IsOpen
<1>9. QueuesOK'
  <2>1. closed' = {node'[n].state : n \in processed'}
    BY <1>3, <1>4
  <2>2. (OpenNodes \cup processed \cup InEvaluation \subseteq Queued)'
    BY <1>4, <1>5, <1>6
  <2>3. /\ q1' \subseteq qwgr1' /\ q1' \cap processed' = {}
        /\ NoveltyLevels = 3 => qwgr1' \subseteq qwgr2'
        /\ NoveltyLevels = 2 => qwgr2' = {}
    BY <1>1, <1>3, <1>4 DEF QueueInv, QueuesOK, queues, Enqueued
  <2> QED BY <2>1, <2>2, <2>3 DEF QueuesOK
<1>10. OneNodePerState'
  <2> SUFFICES ASSUME NEW m \in Live', NEW n \in Live', node'[m].state = node'[n].state
               PROVE  m = n
    BY DEF OneNodePerState
  <2>1. CASE m \in Live /\ n \in Live
    BY <1>8, <2>1 DEF QueueInv, OneNodePerState
  <2> QED BY <1>3, <1>7, <1>8, <2>1
<1>11. NothingLost'
  BY <1>5, <1>7 DEF QueueInv, NothingLost
<1> QED BY <1>9, <1>10, <1>11 DEF QueueInv

\* The root is created when there is no node at all.
LEMMA CreateRootKeepsQueues ==
    ASSUME Bookkeeping, QueueInv, CreateRoot
    PROVE  QueueInv'
<1>1. /\ CreateNode(task.init, None, 0) /\ UNCHANGED <<task, processed, closed>>
      /\ pc = "start" /\ pc' = "loop"
  BY DEF CreateRoot
<1>2. Nodes = {}
  BY <1>1 DEF Bookkeeping, CursorOK, Nodes
<1>3. ~Known(task.init)
  BY <1>2 DEF Known, IsOpen, QueueInv, QueuesOK, Queued
<1>4. ComesFrom(task.init, None, 0)
  BY TasksAssumption DEF ComesFrom, Bookkeeping, TypeOK, TaskType
<1> QED BY <1>1, <1>3, <1>4, CreateKeepsQueues

\* What Generate creates, when it does.
LEMMA GeneratedFrom ==
    ASSUME Bookkeeping, NEW a \in pending
    PROVE  /\ cur \in Nodes /\ cur # 0 /\ pc = "loop" /\ solution = 0
           /\ a \in ApplicableActions(task, node[cur].state)
           /\ ComesFrom(NextState(node[cur].state, a), a, cur)
<1>1. cur \in Nodes /\ pc = "loop" /\ solution = 0 /\ a \in ApplicableActions(task, node[cur].state)
  BY DEF Bookkeeping, CursorOK
<1>2. cur # 0 /\ node[cur].state \in State
  BY <1>1, NodeFacts
<1>3. task \in Tasks /\ a \in task.actions
  BY DEF Bookkeeping, TypeOK
<1> QED BY <1>1, <1>2, <1>3, ActionType DEF ComesFrom

LEMMA GenerateKeepsQueues ==
    ASSUME Bookkeeping, QueueInv, Generate
    PROVE  QueueInv'
<1>1. PICK a \in pending :
        IF Known(NextState(node[cur].state, a))
        THEN UNCHANGED <<node, queues>>
        ELSE CreateNode(NextState(node[cur].state, a), a, cur)
  BY DEF Generate
<1>2. UNCHANGED <<task, pc, cur, processed, closed>>
  BY DEF Generate
<1>3. CASE Known(NextState(node[cur].state, a))
  <2>1. UNCHANGED <<node, queues>>
    BY <1>1, <1>3
  <2>2. Live' = Live /\ QueuesOK'
    BY <1>2, <2>1 DEF Live, OpenNodes, InEvaluation, QueueInv, QueuesOK, Queued, Nodes, queues
  <2> QED BY <2>1, <2>2, MovingKeeps
<1>4. CASE ~Known(NextState(node[cur].state, a))
  BY <1>1, <1>2, <1>4, GeneratedFrom, CreateKeepsQueues
<1> QED BY <1>3, <1>4

\* Steps that touch no queue and start or end no evaluation.
LEMMA StillKeepsQueues ==
    ASSUME Bookkeeping, QueueInv, UNCHANGED <<node, queues, processed, closed>>,
           \/ UNCHANGED <<pc, cur>>
           \/ pc \notin {"wgr1", "wgr2"} /\ pc' \notin {"wgr1", "wgr2"}
    PROVE  QueueInv'
<1>1. Live' = Live /\ QueuesOK'
  BY DEF Live, OpenNodes, InEvaluation, QueueInv, QueuesOK, Queued, Nodes, queues
<1> QED BY <1>1, MovingKeeps

LEMMA QueueInvInit ==
    ASSUME Init
    PROVE  QueueInv
<1>1. Nodes = {} /\ OpenNodes = {} /\ InEvaluation = {} /\ processed = {} /\ closed = {}
  BY DEF Init, Nodes, OpenNodes, InEvaluation
<1>2. Queued = {} /\ Live = {}
  BY <1>1 DEF Queued, Live
<1>3. QueuesOK
  BY <1>1, <1>2 DEF QueuesOK, Init
<1> QED BY <1>2, <1>3 DEF QueueInv, OneNodePerState, NothingLost

LEMMA QueueInvStep ==
    ASSUME Bookkeeping, QueueInv, [Next]_vars
    PROVE  QueueInv'
<1>1. CASE CreateRoot      BY <1>1, CreateRootKeepsQueues
<1>2. CASE PopQ1           BY <1>2, PopQ1KeepsQueues
<1>3. CASE PopQwgr1        BY <1>3, PopQwgr1KeepsQueues
<1>4. CASE PopQwgr2        BY <1>4, PopQwgr2KeepsQueues
<1>5. CASE PopQrest        BY <1>5, PopQrestKeepsQueues
<1>6. CASE Generate        BY <1>6, GenerateKeepsQueues
<1>7. CASE ComputeR        BY <1>7, StillKeepsQueues DEF ComputeR
<1>8. CASE EvaluateWgr1
  BY <1>8, EvaluateKeepsQueues, ConfigAssumption DEF EvaluateWgr1
<1>9. CASE EvaluateWgr2
  BY <1>9, EvaluateKeepsQueues DEF EvaluateWgr2
<1>10. CASE NoPlan          BY <1>10, StillKeepsQueues DEF NoPlan, AllEmpty, Idle
<1>11. CASE StartExtraction BY <1>11, StillKeepsQueues DEF StartExtraction
<1>12. CASE ExtractAction   BY <1>12, StillKeepsQueues DEF ExtractAction
<1>13. CASE PlanExtracted   BY <1>13, StillKeepsQueues DEF PlanExtracted
<1>14. CASE UNCHANGED vars  BY <1>14, StillKeepsQueues DEF vars
<1> QED
  BY <1>1, <1>2, <1>3, <1>4, <1>5, <1>6, <1>7, <1>8, <1>9, <1>10, <1>11, <1>12, <1>13, <1>14
  DEF Next, Terminating

\* The queues and the bookkeeping together are inductive.
THEOREM QueueInvariant == Spec => [](Bookkeeping /\ QueueInv)
<1>1. Init => Bookkeeping /\ QueueInv
  BY BookkeepingInit, QueueInvInit
<1>2. Bookkeeping /\ QueueInv /\ [Next]_vars => (Bookkeeping /\ QueueInv)'
  BY BookkeepingStep, QueueInvStep
<1> QED BY <1>1, <1>2, PTL DEF Spec

\* No state is in play twice: neither open in two nodes, nor open again after its expansion.
THEOREM OneNodePerStateAlways == Spec => []OneNodePerState
<1>1. QueueInv => OneNodePerState
  BY DEF QueueInv
<1> QED BY <1>1, QueueInvariant, PTL

\* Without pruning every created node waits in a queue until it is expanded.
THEOREM NothingIsLost == Spec => []NothingLost
<1>1. QueueInv => NothingLost
  BY DEF QueueInv
<1> QED BY <1>1, QueueInvariant, PTL
-----------------------------------------------------------------------------
(***************************************************************************)
(* The answers of SBFWS: what was explored when it gives up, where a       *)
(* solution comes from, and that it implements the plain forward search.   *)
(***************************************************************************)
Layers == Bookkeeping /\ QueueInv

ExplorationInv == ExploredOK /\ AnswerOK

Base == Layers /\ ExplorationInv

-----------------------------------------------------------------------------
\* Expanding a queued node: all its applicable actions are pending.
LEMMA ExpandingKeepsExplored ==
    ASSUME Layers, ExploredOK, solution = 0, pending = {}, pc # "start",
           NEW n \in Queued, cur' = n, ProcessNode(n), UNCHANGED <<task, node, solution>>
    PROVE  ExploredOK'
<1>1. /\ processed' = processed \cup {n} /\ pending' = ApplicableActions(task, node[n].state)
      /\ Queued' = Queued
  BY DEF ProcessNode, Queued, Nodes
<1>2. ASSUME NEW m \in processed', NEW a \in ApplicableActions(task, node[m].state)
      PROVE  \/ m = n /\ a \in pending'
             \/ \E l \in Queued : node[l].state = NextState(node[m].state, a)
  <2>1. CASE m = n
    BY <1>1, <1>2, <2>1
  <2>2. CASE m # n
    BY <1>1, <1>2, <2>2 DEF ExploredOK
  <2> QED BY <2>1, <2>2
<1> QED BY <1>1, <1>2 DEF ExploredOK

\* Steps between two expansions that expand nothing.
LEMMA IdleKeepsExplored ==
    ASSUME ExploredOK, pending = {}, pc # "start",
           UNCHANGED <<task, node, processed, pending, solution>>
    PROVE  ExploredOK'
<1>1. Queued' = Queued
  BY DEF Queued, Nodes
<1>2. ASSUME NEW m \in processed, NEW a \in ApplicableActions(task, node[m].state), solution = 0
      PROVE  \E l \in Queued : node[l].state = NextState(node[m].state, a)
  BY <1>2 DEF ExploredOK
<1> QED BY <1>1, <1>2 DEF ExploredOK, HasParent, Parent

\* A new node: what it adds to the nodes and to the queued ones.
LEMMA CreationFacts ==
    ASSUME Layers, task' = task, NEW s, NEW a, NEW p, ComesFrom(s, a, p), CreateNode(s, a, p)
    PROVE  /\ Nodes' = Nodes \cup {NewNode} /\ NewNode \notin Nodes
           /\ \A n \in Nodes : node'[n] = node[n]
           /\ node'[NewNode].state = s /\ node'[NewNode].parent = p
           /\ Queued' = Queued \cup (IF IsGoal(task, s) THEN {} ELSE {NewNode})
           /\ Queued \subseteq Nodes /\ NewNode # 0
           /\ OpenNodes' = OpenNodes \cup (IF IsGoal(task, s) THEN {} ELSE {NewNode})
<1>1. /\ Appended(s, a, p)
      /\ IF IsGoal(task, s)
         THEN node'[NewNode].unachieved = MaxUnsigned /\ UNCHANGED queues
         ELSE node'[NewNode].unachieved = UnachievedSubgoals(task, s) /\ Enqueued
  BY CreateNodeType DEF Layers, Bookkeeping
<1>2. UnachievedSubgoals(task, s) # MaxUnsigned
  BY UnachievedType DEF Layers, Bookkeeping, TypeOK, ComesFrom
<1>3. /\ Nodes' = Nodes \cup {NewNode} /\ NewNode \notin Nodes
      /\ \A n \in Nodes : node'[n] = node[n]
      /\ node'[NewNode].state = s /\ node'[NewNode].parent = p
  BY <1>1 DEF Appended
<1>4. NewNode # 0
  BY NodeFacts DEF Layers, NewNode
<1>5. OpenNodes' = OpenNodes \cup (IF IsGoal(task, s) THEN {} ELSE {NewNode})
  <2>1. NoveltyLevels = 3 => qwgr1 \subseteq qwgr2
    BY DEF Layers, QueueInv, QueuesOK
  <2> QED BY <1>1 DEF OpenNodes, queues, Enqueued
<1> QED BY <1>1, <1>2, <1>3, <1>4, <1>5 DEF Queued

LEMMA CreateRootKeepsExplored ==
    ASSUME Layers, ExploredOK, AnswerOK, CreateRoot
    PROVE  ExploredOK'
<1>1. /\ CreateNode(task.init, None, 0) /\ UNCHANGED <<task, processed, pending>>
      /\ pc = "start" /\ pc' = "loop" /\ solution' = 0 /\ pending = {} /\ processed = {} /\ Queued = {}
  BY DEF CreateRoot, AnswerOK, Layers, Bookkeeping, CursorOK
<1>2. ComesFrom(task.init, None, 0)
  BY TasksAssumption DEF ComesFrom, Layers, Bookkeeping, TypeOK, TaskType
<1>3. /\ Queued' = IF IsGoal(task, task.init) THEN {} ELSE {NewNode}
      /\ node'[NewNode].state = task.init
  BY <1>1, <1>2, CreationFacts
<1> QED BY <1>1, <1>3 DEF ExploredOK

LEMMA GenerateKeepsExplored ==
    ASSUME Layers, ExploredOK, Generate
    PROVE  ExploredOK'
<1>1. PICK a \in pending :
         LET s == NextState(node[cur].state, a)
         IN  IF Known(s)
             THEN /\ pending' = pending \ {a}
                  /\ UNCHANGED <<node, queues, w_gr, relevant, wg1_table, solution>>
             ELSE /\ CreateNode(s, a, cur)
                  /\ IF IsGoal(task, s)
                     THEN pending' = {} /\ solution' = Len(node) + 1
                     ELSE pending' = pending \ {a} /\ UNCHANGED solution
  BY DEF Generate
<1>2. UNCHANGED <<task, pc, processed, cur>>
  BY DEF Generate
<1> DEFINE s == NextState(node[cur].state, a)
<1>3. /\ cur \in Nodes /\ cur # 0 /\ pc = "loop" /\ solution = 0 /\ ComesFrom(s, a, cur)
      /\ cur \in processed
  BY GeneratedFrom DEF Layers, ExploredOK
<1>4. processed \subseteq Queued /\ OpenNodes \subseteq Queued /\ Queued \subseteq Nodes
      /\ closed = {node[n].state : n \in processed}
  BY DEF Layers, QueueInv, QueuesOK, Queued
<1>5. \A n \in processed : \A b \in ApplicableActions(task, node[n].state) :
            \/ n = cur /\ b \in pending
            \/ \E m \in Queued : node[m].state = NextState(node[n].state, b)
  BY <1>3 DEF ExploredOK
<1>6. \A n \in Queued : ~IsGoal(task, node[n].state)
  BY DEF ExploredOK
<1>7. ~IsGoal(task, task.init) => \E n \in Queued : node[n].state = task.init
  BY <1>3 DEF ExploredOK
<1>8. CASE Known(s)
  <2>1. pending' = pending \ {a} /\ UNCHANGED <<node, solution>> /\ Queued' = Queued
    BY <1>1, <1>8 DEF Queued, Nodes
  <2>2. \E m \in Queued : node[m].state = s
    BY <1>4, <1>8 DEF Known, IsOpen
  <2> QED BY <1>2, <1>3, <1>5, <1>6, <1>7, <2>1, <2>2 DEF ExploredOK
<1>9. CASE ~Known(s)
  <2>1. /\ CreateNode(s, a, cur)
        /\ IF IsGoal(task, s)
           THEN pending' = {} /\ solution' = NewNode
           ELSE pending' = pending \ {a} /\ UNCHANGED solution
    BY <1>1, <1>9 DEF NewNode
  <2> HIDE DEF s
  <2>2. /\ NewNode \notin Nodes /\ NewNode # 0
        /\ \A n \in Nodes : node'[n] = node[n]
        /\ node'[NewNode].state = s /\ node'[NewNode].parent = cur
        /\ Queued' = Queued \cup (IF IsGoal(task, s) THEN {} ELSE {NewNode})
    BY <1>2, <1>3, <2>1, CreationFacts
  <2>3. \A n \in Queued : node'[n] = node[n] /\ n \in Queued'
    BY <1>4, <2>2
  <2>4. CASE IsGoal(task, s)
    <3>1. /\ Queued' = Queued /\ pending' = {} /\ solution' = NewNode
          /\ node'[solution'].parent = cur /\ node'[solution'].state = s
      BY <1>3, <2>1, <2>2, <2>4
    <3> QED BY <1>2, <1>3, <1>6, <1>7, <2>2, <2>3, <2>4, <3>1 DEF ExploredOK, HasParent, Parent
  <2>5. CASE ~IsGoal(task, s)
    <3>1. Queued' = Queued \cup {NewNode} /\ pending' = pending \ {a} /\ solution' = 0
      BY <1>3, <2>1, <2>2, <2>5
    <3>2. ASSUME NEW n \in processed, NEW b \in ApplicableActions(task, node'[n].state)
          PROVE  \/ n = cur /\ b \in pending'
                 \/ \E m \in Queued' : node'[m].state = NextState(node'[n].state, b)
      <4>1. node'[n] = node[n]
        BY <1>4, <2>3
      <4>2. CASE n = cur /\ b = a
        BY <2>2, <3>1, <4>1, <4>2 DEF s
      <4>3. CASE n = cur /\ b \in pending /\ b # a
        BY <3>1, <4>3
      <4>4. CASE \E m \in Queued : node[m].state = NextState(node[n].state, b)
        BY <2>3, <4>1, <4>4
      <4> QED BY <1>5, <4>1, <4>2, <4>3, <4>4
    <3>3. \A n \in Queued' : ~IsGoal(task, node'[n].state)
      BY <1>6, <2>2, <2>3, <2>5, <3>1
    <3>4. ~IsGoal(task, task.init) => \E n \in Queued' : node'[n].state = task.init
      BY <1>7, <2>3
    <3> QED BY <1>2, <1>3, <3>1, <3>2, <3>3, <3>4 DEF ExploredOK
  <2> QED BY <2>4, <2>5
<1> QED BY <1>8, <1>9

LEMMA PopQrestKeepsExplored ==
    ASSUME Layers, ExploredOK, PopQrest
    PROVE  ExploredOK'
<1>1. PICK n \in qrest : /\ cur' = n
                         /\ IF n \in processed THEN UNCHANGED <<processed, closed, pending>>
                                               ELSE ProcessNode(n)
  BY DEF PopQrest, Best
<1>2. UNCHANGED <<task, pc, node, solution>> /\ pc = "loop" /\ solution = 0 /\ pending = {}
  BY DEF PopQrest, TurnOfQrest, Idle
<1>3. n \in Queued
  BY DEF Layers, QueueInv, QueuesOK, OpenNodes
<1>4. CASE n \in processed
  BY <1>1, <1>2, <1>4, IdleKeepsExplored
<1>5. CASE n \notin processed
  BY <1>1, <1>2, <1>3, <1>5, ExpandingKeepsExplored
<1> QED BY <1>4, <1>5

\* After an evaluation the node is expanded, or nothing is.
LEMMA EvaluateKeepsExplored ==
    ASSUME Layers, ExploredOK, pc \in {"wgr1", "wgr2"},
           NEW novel, NEW last, Dispatch(cur, novel, last),
           UNCHANGED <<task, node, cur, solution>>
    PROVE  ExploredOK'
<1>1. solution = 0 /\ pending = {} /\ cur \in Queued /\ pc # "start"
  BY DEF Layers, Bookkeeping, CursorOK, QueueInv, QueuesOK, InEvaluation
<1>2. CASE ProcessNode(cur)
  BY <1>1, <1>2, ExpandingKeepsExplored
<1>3. CASE UNCHANGED <<processed, closed, pending>>
  BY <1>1, <1>3, IdleKeepsExplored
<1> QED BY <1>2, <1>3 DEF Dispatch, HandleUnprocessed

LEMMA ExploredStep ==
    ASSUME Layers, ExploredOK, AnswerOK, [Next]_vars
    PROVE  ExploredOK'
<1>1. CASE CreateRoot      BY <1>1, CreateRootKeepsExplored
<1>2. CASE PopQ1
  <2>1. /\ \E n \in q1 : cur' = n /\ ProcessNode(n)
        /\ UNCHANGED <<task, pc, node, solution>> /\ pc = "loop" /\ solution = 0 /\ pending = {}
    BY <1>2 DEF PopQ1, TurnOfQ1, Idle, Best
  <2> QED BY <2>1, ExpandingKeepsExplored DEF Layers, QueueInv, QueuesOK, OpenNodes
<1>3. CASE PopQwgr1        BY <1>3, IdleKeepsExplored DEF PopQwgr1, TurnOfQwgr1, Idle
<1>4. CASE PopQwgr2        BY <1>4, IdleKeepsExplored DEF PopQwgr2, TurnOfQwgr2, Idle
<1>5. CASE PopQrest        BY <1>5, PopQrestKeepsExplored
<1>6. CASE Generate        BY <1>6, GenerateKeepsExplored
<1>7. CASE ComputeR
  <2>1. pc # "start" /\ pending = {}
    BY <1>7 DEF ComputeR, Layers, Bookkeeping, CursorOK
  <2> QED BY <1>7, <2>1, IdleKeepsExplored DEF ComputeR
<1>8. CASE EvaluateWgr1    BY <1>8, EvaluateKeepsExplored DEF EvaluateWgr1
<1>9. CASE EvaluateWgr2    BY <1>9, EvaluateKeepsExplored DEF EvaluateWgr2
<1>10. CASE NoPlan          BY <1>10, IdleKeepsExplored DEF NoPlan, AllEmpty, Idle
<1>11. CASE StartExtraction BY <1>11, IdleKeepsExplored DEF StartExtraction
<1>12. CASE ExtractAction
  <2>1. pending = {}
    BY <1>12 DEF ExtractAction, Layers, Bookkeeping, CursorOK
  <2> QED BY <1>12, <2>1, IdleKeepsExplored DEF ExtractAction
<1>13. CASE PlanExtracted
  <2>1. pending = {}
    BY <1>13 DEF PlanExtracted, Layers, Bookkeeping, CursorOK
  <2> QED BY <1>13, <2>1, IdleKeepsExplored DEF PlanExtracted
<1>14. CASE UNCHANGED vars
  BY <1>14 DEF vars, ExploredOK, Queued, Nodes, HasParent, Parent
<1> QED
  BY <1>1, <1>2, <1>3, <1>4, <1>5, <1>6, <1>7, <1>8, <1>9, <1>10, <1>11, <1>12, <1>13, <1>14
  DEF Next, Terminating

-----------------------------------------------------------------------------
(***************************************************************************)
(* The answer.                                                             *)
(***************************************************************************)
LEMMA AnswerStep ==
    ASSUME Layers, AnswerOK, [Next]_vars
    PROVE  AnswerOK'
<1> USE DEF AnswerOK
<1>1. CASE CreateRoot      BY <1>1 DEF CreateRoot
<1>2. CASE PopQ1           BY <1>2 DEF PopQ1, TurnOfQ1, Idle
<1>3. CASE PopQwgr1        BY <1>3 DEF PopQwgr1, TurnOfQwgr1, Idle
<1>4. CASE PopQwgr2        BY <1>4 DEF PopQwgr2, TurnOfQwgr2, Idle
<1>5. CASE PopQrest        BY <1>5 DEF PopQrest, TurnOfQrest, Idle
<1>6. CASE Generate
  <2>1. pc = "loop"
    BY <1>6 DEF Generate, Layers, Bookkeeping, CursorOK
  <2> QED BY <1>6, <2>1 DEF Generate
<1>7. CASE ComputeR
  <2>1. pc \in {"wgr1", "wgr2"}
    BY <1>7 DEF ComputeR, Layers, Bookkeeping, CursorOK
  <2> QED BY <1>7, <2>1 DEF ComputeR
<1>8. CASE EvaluateWgr1    BY <1>8 DEF EvaluateWgr1
<1>9. CASE EvaluateWgr2    BY <1>9 DEF EvaluateWgr2
<1>10. CASE NoPlan
  <2>1. /\ q1 = {} /\ qwgr1 = {} /\ qrest = {} /\ solution = 0 /\ pc = "loop"
        /\ ~(NoveltyLevels = 3 /\ qwgr2 # {})
        /\ pc' = "done" /\ result' = "no_plan" /\ UNCHANGED <<queues, solution>>
    BY <1>10 DEF NoPlan, AllEmpty, Idle
  <2>2. qwgr2 = {}
    BY <2>1, ConfigAssumption DEF Layers, QueueInv, QueuesOK
  <2> QED BY <2>1, <2>2 DEF OpenNodes, queues
<1>11. CASE StartExtraction BY <1>11 DEF StartExtraction
<1>12. CASE ExtractAction   BY <1>12 DEF ExtractAction
<1>13. CASE PlanExtracted   BY <1>13 DEF PlanExtracted
<1>14. CASE UNCHANGED vars  BY <1>14 DEF vars, queues, OpenNodes, Queued, Nodes
<1> QED
  BY <1>1, <1>2, <1>3, <1>4, <1>5, <1>6, <1>7, <1>8, <1>9, <1>10, <1>11, <1>12, <1>13, <1>14
  DEF Next, Terminating

LEMMA ExplorationInit ==
    ASSUME Init
    PROVE  ExplorationInv
<1>1. Queued = {} /\ processed = {} /\ pending = {} /\ solution = 0
  BY DEF Init, Queued, Nodes
<1> QED BY <1>1 DEF Init, ExplorationInv, ExploredOK, AnswerOK

THEOREM ExplorationInvariant == Spec => [](Layers /\ ExplorationInv)
<1>1. Init => Layers /\ ExplorationInv
  BY BookkeepingInit, QueueInvInit, ExplorationInit DEF Layers
<1>2. Layers /\ ExplorationInv /\ [Next]_vars => (Layers /\ ExplorationInv)'
  BY BookkeepingStep, QueueInvStep, ExploredStep, AnswerStep DEF Layers, ExplorationInv
<1> QED BY <1>1, <1>2, PTL DEF Spec

(***************************************************************************)
(* With every queue empty and nothing dropped, the closed states hold the  *)
(* initial state and all successors of their members, and no goal.         *)
(***************************************************************************)
LEMMA Certificate ==
    ASSUME Layers, ExplorationInv, pc \in {"loop", "done"}, solution = 0, pending = {},
           OpenNodes = {}, ~Pruning, ~IsGoal(task, task.init)
    PROVE  UnsolvabilityCertificate(task, closed)
<1>1. Queued = processed
  BY DEF Layers, QueueInv, QueuesOK, NothingLost, Live, InEvaluation
<1>2. closed = {node[n].state : n \in Queued}
  BY <1>1 DEF Layers, QueueInv, QueuesOK
<1>3. task.init \in closed
  BY <1>2 DEF ExplorationInv, ExploredOK
<1>4. ASSUME NEW s \in closed
      PROVE  ~IsGoal(task, s) /\ Successors(task, s) \subseteq closed
  <2>1. PICK n \in Queued : node[n].state = s
    BY <1>2
  <2>2. ~IsGoal(task, s)
    BY <2>1 DEF ExplorationInv, ExploredOK
  <2>3. \A a \in ApplicableActions(task, s) : NextState(s, a) \in closed
    BY <1>1, <1>2, <2>1 DEF ExplorationInv, ExploredOK
  <2> QED BY <2>2, <2>3 DEF Successors
<1> QED BY <1>3, <1>4 DEF UnsolvabilityCertificate

(***************************************************************************)
(* When the search gives up without pruning, the closed states prove that  *)
(* there is no plan.                                                       *)
(***************************************************************************)
THEOREM GivingUpIsCertified == Spec => []NoPlanIsCertified
<1>1. Layers /\ ExplorationInv => NoPlanIsCertified
  <2> SUFFICES ASSUME Layers, ExplorationInv,
                      result = "no_plan", ~Pruning, ~IsGoal(task, task.init)
               PROVE  UnsolvabilityCertificate(task, closed)
    BY DEF NoPlanIsCertified
  <2>1. pc = "done" /\ solution = 0 /\ OpenNodes = {} /\ pending = {}
    BY DEF ExplorationInv, AnswerOK, Layers, Bookkeeping, CursorOK
  <2> QED BY <2>1, Certificate
<1> QED BY <1>1, ExplorationInvariant, PTL

(***************************************************************************)
(* "no_plan" is the truth: without pruning, no sequence of actions of any  *)
(* length solves the task.                                                 *)
(***************************************************************************)
NoPlanIsTrue ==
    result = "no_plan" /\ ~Pruning /\ ~IsGoal(task, task.init)
        => ~ \E p \in Seq(Action) : Solves(task, task.init, p)

THEOREM GivingUpIsRight == Spec => []NoPlanIsTrue
<1>1. TypeOK /\ NoPlanIsCertified => NoPlanIsTrue
  <2> SUFFICES ASSUME TypeOK, UnsolvabilityCertificate(task, closed)
               PROVE  ~ \E p \in Seq(Action) : Solves(task, task.init, p)
    BY DEF NoPlanIsCertified, NoPlanIsTrue
  <2>1. task \in TaskType
    BY TasksAssumption DEF TypeOK
  <2> QED BY <2>1, CertificateRefutes
<1>2. Spec => []TypeOK
  BY ExplorationInvariant, PTL DEF Layers, Bookkeeping
<1> QED BY <1>1, <1>2, GivingUpIsCertified, PTL

-----------------------------------------------------------------------------
\* process_node is called on nodes that were not expanded.
LEMMA FreshlyExpanded ==
    ASSUME QueueInv, NEW n \in Live, n \notin processed
    PROVE  node[n].state \notin closed
BY DEF QueueInv, QueuesOK, OneNodePerState, Live

(***************************************************************************)
(* "Don't process a node twice!": no state is expanded twice, though a     *)
(* node stays in several queues at once.                                   *)
(***************************************************************************)
THEOREM NoStateExpandedTwice == Spec => NeverExpandedTwice
<1> DEFINE Once == pending = {} /\ pending' # {} => node[cur'].state \notin closed
<1>1. Layers /\ [Next]_vars => [Once]_vars
  <2> SUFFICES ASSUME Layers, Next, pending = {}, pending' # {}
               PROVE  node[cur'].state \notin closed
    OBVIOUS
  <2>1. CASE PopQ1
    <3>1. cur' \in q1 /\ cur' \in Live /\ cur' \notin processed
      BY <2>1 DEF PopQ1, Best, Live, OpenNodes, Layers, QueueInv, QueuesOK
    <3> QED BY <3>1, FreshlyExpanded DEF Layers
  <2>2. CASE PopQrest
    <3>1. cur' \in Live /\ cur' \notin processed
      BY <2>2 DEF PopQrest, Best, Live, OpenNodes
    <3> QED BY <3>1, FreshlyExpanded DEF Layers
  <2>3. CASE EvaluateWgr1 \/ EvaluateWgr2
    <3>1. cur' = cur /\ cur \in Live /\ cur \notin processed
      BY <2>3 DEF EvaluateWgr1, EvaluateWgr2, Dispatch, HandleUnprocessed, Live, InEvaluation
    <3> QED BY <3>1, FreshlyExpanded DEF Layers
  <2>4. CASE \/ CreateRoot \/ PopQwgr1 \/ PopQwgr2 \/ Generate \/ ComputeR \/ NoPlan
             \/ StartExtraction \/ ExtractAction \/ PlanExtracted \/ Terminating
    BY <2>4 DEF CreateRoot, PopQwgr1, PopQwgr2, Generate, ComputeR, NoPlan, StartExtraction,
                ExtractAction, PlanExtracted, Terminating, vars
  <2> QED BY <2>1, <2>2, <2>3, <2>4 DEF Next
<1>2. Spec => []Layers
  BY ExplorationInvariant, PTL
<1> QED BY <1>1, <1>2, PTL DEF Spec, NeverExpandedTwice

-----------------------------------------------------------------------------
(***************************************************************************)
(* The plan.  extract_plan puts one action in front at a time, so the part *)
(* of the plan it has always solves the task from the node it has reached. *)
(***************************************************************************)
PlanInv ==
    /\ pc \in {"start", "loop", "wgr1", "wgr2"} => plan = <<>>
    /\ pc = "extract" => Solves(task, node[cur].state, plan)
    /\ result = "plan" => Solves(task, task.init, plan)

LEMMA ExtractActionKeepsPlan ==
    ASSUME Layers, PlanInv, ExtractAction, AnswerOK
    PROVE  PlanInv'
<1>1. /\ pc = "extract" /\ HasParent(cur) /\ plan' = <<node[cur].action>> \o plan /\ cur' = Parent(cur)
      /\ UNCHANGED <<task, pc, node, result>> /\ result = "none"
  BY DEF ExtractAction, ExtendPlan, AnswerOK
<1>2. cur \in Nodes
  BY <1>1 DEF Layers, Bookkeeping, CursorOK
<1>3. /\ node[cur].action \in ApplicableActions(task, node[Parent(cur)].state)
      /\ node[cur].state = NextState(node[Parent(cur)].state, node[cur].action)
  BY <1>1, <1>2 DEF Layers, Bookkeeping, NodesOK
<1>4. /\ node[cur].action \in Action /\ plan \in Seq(Action)
      /\ node[Parent(cur)].state \in State
  <2>1. Parent(cur) \in Nodes /\ task \in Tasks /\ plan \in Seq(Action)
    BY <1>1, <1>2, NodeFacts DEF Layers, Bookkeeping, TypeOK
  <2>2. node[Parent(cur)].state \in State /\ node[cur].action \in task.actions
    BY <1>3, <2>1, NodeFacts DEF Layers, ApplicableActions
  <2> QED BY <2>1, <2>2, ActionType
<1>5. Solves(task, node[cur].state, plan)
  BY <1>1 DEF PlanInv
<1>6. Solves(task, node[Parent(cur)].state, plan')
  BY <1>1, <1>3, <1>4, <1>5, PrependSolves
<1> QED BY <1>1, <1>6 DEF PlanInv

LEMMA PlanStep ==
    ASSUME Layers, ExplorationInv, PlanInv, [Next]_vars
    PROVE  PlanInv'
<1> USE DEF PlanInv
<1>1. CASE StartExtraction
  <2>1. /\ pc = "loop" /\ pc' = "extract" /\ cur' = solution /\ plan = <<>>
        /\ UNCHANGED <<task, node, plan, result>> /\ result = "none"
        /\ IsGoal(task, node[solution].state)
    BY <1>1 DEF StartExtraction, ExplorationInv, ExploredOK, AnswerOK
  <2>2. node[solution].state \in State
    BY <1>1, NodeFacts DEF StartExtraction, Layers, Bookkeeping, ExplorationInv, AnswerOK, TypeOK
  <2> QED BY <2>1, <2>2, EmptySolves
<1>2. CASE ExtractAction
  BY <1>2, ExtractActionKeepsPlan DEF ExplorationInv
<1>3. CASE PlanExtracted
  <2>1. node[cur].state = task.init
    BY <1>3 DEF PlanExtracted, Layers, Bookkeeping, CursorOK, NodesOK
  <2> QED BY <1>3, <2>1 DEF PlanExtracted
<1>4. CASE \/ CreateRoot \/ PopQ1 \/ PopQwgr1 \/ PopQwgr2 \/ PopQrest \/ Generate
           \/ ComputeR \/ EvaluateWgr1 \/ EvaluateWgr2
  <2>1. /\ pc \in {"start", "loop", "wgr1", "wgr2"} /\ pc' \in {"loop", "wgr1", "wgr2"}
        /\ UNCHANGED <<plan, result, task>>
    BY <1>4 DEF CreateRoot, PopQ1, TurnOfQ1, PopQwgr1, TurnOfQwgr1, PopQwgr2, TurnOfQwgr2,
                PopQrest, TurnOfQrest, Idle, Generate, ComputeR, EvaluateWgr1, EvaluateWgr2,
                Layers, Bookkeeping, CursorOK
  <2> QED BY <2>1 DEF ExplorationInv, AnswerOK
<1>5. CASE NoPlan
  BY <1>5 DEF NoPlan, AllEmpty, Idle
<1>6. CASE UNCHANGED vars
  BY <1>6 DEF vars
<1> QED BY <1>1, <1>2, <1>3, <1>4, <1>5, <1>6 DEF Next, Terminating

(***************************************************************************)
(* The plan extract_plan returns leads from the initial state to a goal by *)
(* applicable actions.                                                     *)
(***************************************************************************)
THEOREM PlanIsSolution == Spec => []PlanSolvesTask
<1>1. Init => PlanInv
  BY DEF Init, PlanInv
<1>2. Layers /\ ExplorationInv /\ PlanInv /\ [Next]_vars => PlanInv'
  BY PlanStep
<1>3. PlanInv => PlanSolvesTask
  BY DEF PlanInv, PlanSolvesTask
<1> QED BY <1>1, <1>2, <1>3, ExplorationInvariant, PTL DEF Spec

-----------------------------------------------------------------------------
(***************************************************************************)
(* SBFWS implements the plain forward search of ForwardSearch: every step  *)
(* opens, closes or drops one state, gives an answer, or changes nothing   *)
(* that the plain search knows of.                                         *)
(***************************************************************************)

\* The operators of the planning task, seen through the instance.
LEMMA SameTask ==
    /\ \A t, s : FS!IsGoal(t, s) <=> IsGoal(t, s)
    /\ \A t, s : FS!Successors(t, s) = Successors(t, s)
    /\ \A t, C : FS!UnsolvabilityCertificate(t, C) <=> UnsolvabilityCertificate(t, C)
    /\ FS!State = State
<1>1. \A t, s : FS!IsGoal(t, s) <=> IsGoal(t, s)
  BY DEF FS!IsGoal, FS!Satisfies, FS!Violated, IsGoal, Satisfies, Violated
<1>2. \A t, s : FS!Successors(t, s) = Successors(t, s)
  BY DEF FS!Successors, FS!ApplicableActions, FS!NextState, FS!Satisfies, FS!Violated,
         Successors, ApplicableActions, NextState, Satisfies, Violated
<1>3. \A t, C : FS!UnsolvabilityCertificate(t, C) <=> UnsolvabilityCertificate(t, C)
  BY <1>1, <1>2 DEF FS!UnsolvabilityCertificate, UnsolvabilityCertificate
<1>4. FS!State = State
  BY DEF FS!State, State
<1> QED BY <1>1, <1>2, <1>3, <1>4

LEMMA StateOfNode ==
    ASSUME Bookkeeping, NEW n \in Nodes
    PROVE  node[n].state \in State
BY NodeFacts

LEMMA LiveNodes ==
    ASSUME QueueInv
    PROVE  Live \subseteq Nodes
BY DEF QueueInv, QueuesOK, Live, Queued

\* Expanding a node closes its state.
LEMMA ExpandingCloses ==
    ASSUME Base, result = "none", NEW n \in Live, n \notin processed,
           ProcessNode(n), Live' = Live, UNCHANGED <<task, node, result>>
    PROVE  FS!Next
<1> DEFINE s == node[n].state
<1>1. s \in State
  BY StateOfNode, LiveNodes DEF Base, Layers
<1>2. s \in OpenStates /\ processed' = processed \cup {n} /\ closed' = closed \cup {s}
  BY DEF OpenStates, ProcessNode
<1>3. OpenStates' = OpenStates \ {s}
  BY <1>2 DEF OpenStates, Base, Layers, QueueInv, OneNodePerState
<1>4. FS!Close(s)
  BY <1>2, <1>3 DEF FS!Close
<1> QED BY <1>1, <1>4, SameTask DEF FS!Next

\* Pruning a node drops its state.
LEMMA PruningDrops ==
    ASSUME Base, result = "none", NEW n \in Live, n \notin processed, Pruning,
           Live' = Live \ {n}, UNCHANGED <<task, node, processed, closed, result>>
    PROVE  FS!Next
<1> DEFINE s == node[n].state
<1>1. s \in State
  BY StateOfNode, LiveNodes DEF Base, Layers
<1>2. s \in OpenStates
  BY DEF OpenStates
<1>3. OpenStates' = OpenStates \ {s}
  BY DEF OpenStates, Base, Layers, QueueInv, OneNodePerState
<1>4. FS!Drop(s)
  BY <1>2, <1>3 DEF FS!Drop
<1> QED BY <1>1, <1>4, SameTask DEF FS!Next

\* Steps the plain search does not see.
LEMMA Stuttering ==
    ASSUME UNCHANGED <<task, node, processed, closed, result>>, Live' = Live
    PROVE  UNCHANGED FS!vars
BY DEF FS!vars, OpenStates

-----------------------------------------------------------------------------
LEMMA CreateRootRefines ==
    ASSUME Base, CreateRoot
    PROVE  [FS!Next]_FS!vars
<1>1. /\ CreateNode(task.init, None, 0) /\ UNCHANGED <<task, processed, closed, result>>
      /\ pc = "start" /\ pc' = "loop"
  BY DEF CreateRoot
<1>2. Queued = {} /\ processed = {} /\ result = "none"
  BY <1>1 DEF Base, ExplorationInv, AnswerOK, Layers, Bookkeeping, TypeOK
<1>3. Live = {} /\ OpenNodes = {} /\ closed = {}
  BY <1>1, <1>2 DEF Base, Layers, QueueInv, QueuesOK, Live, InEvaluation
<1>4. ComesFrom(task.init, None, 0)
  BY TasksAssumption DEF ComesFrom, Base, Layers, Bookkeeping, TypeOK, TaskType
<1>5. /\ OpenNodes' = IF IsGoal(task, task.init) THEN {} ELSE {NewNode}
      /\ node'[NewNode].state = task.init
  BY <1>1, <1>3, <1>4, CreationFacts DEF Base
<1>6. Live' = OpenNodes'
  BY <1>1, <1>2 DEF Live, InEvaluation
<1>7. OpenStates = {} /\ OpenStates' = IF IsGoal(task, task.init) THEN {} ELSE {task.init}
  BY <1>1, <1>2, <1>3, <1>5, <1>6 DEF OpenStates
<1>8. CASE IsGoal(task, task.init)
  BY <1>1, <1>7, <1>8 DEF FS!vars
<1>9. CASE ~IsGoal(task, task.init)
  <2>1. FS!Begin
    BY <1>1, <1>2, <1>3, <1>7, <1>9, SameTask DEF FS!Begin
  <2> QED BY <2>1 DEF FS!Next
<1> QED BY <1>8, <1>9

LEMMA GenerateRefines ==
    ASSUME Base, Generate
    PROVE  [FS!Next]_FS!vars
<1>1. PICK a \in pending :
         IF Known(NextState(node[cur].state, a))
         THEN UNCHANGED <<node, queues>>
         ELSE CreateNode(NextState(node[cur].state, a), a, cur)
  BY DEF Generate
<1>2. UNCHANGED <<task, pc, processed, closed, cur, result>>
  BY DEF Generate
<1> DEFINE s == NextState(node[cur].state, a)
<1>3. /\ cur \in Nodes /\ pc = "loop" /\ a \in ApplicableActions(task, node[cur].state)
      /\ ComesFrom(s, a, cur) /\ cur \in processed
  BY GeneratedFrom DEF Base, Layers, ExplorationInv, ExploredOK
<1>4. result = "none" /\ InEvaluation = {} /\ InEvaluation' = {}
  BY <1>2, <1>3 DEF Base, ExplorationInv, AnswerOK, InEvaluation
<1>5. CASE Known(s)
  <2>1. UNCHANGED <<node, queues>>
    BY <1>1, <1>5
  <2> QED BY <1>2, <1>4, <2>1, Stuttering DEF Live, OpenNodes, queues
<1>6. CASE ~Known(s)
  <2>1. CreateNode(s, a, cur) /\ s \in State
    BY <1>1, <1>3, <1>6 DEF ComesFrom
  <2>2. s \in FS!Reached /\ s \notin closed /\ s \notin OpenStates
    <3>1. s \in Successors(task, node[cur].state) /\ node[cur].state \in closed
      BY <1>3 DEF Successors, Base, Layers, QueueInv, QueuesOK
    <3>2. s \notin closed /\ s \notin OpenStates
      BY <1>4, <1>6 DEF Known, IsOpen, OpenStates, Live
    <3> QED BY <3>1, <3>2, SameTask DEF FS!Reached
  <2> HIDE DEF s
  <2>3. /\ NewNode \notin Nodes
        /\ \A n \in Nodes : node'[n] = node[n]
        /\ node'[NewNode].state = s
        /\ OpenNodes' = OpenNodes \cup (IF IsGoal(task, s) THEN {} ELSE {NewNode})
    BY <1>2, <1>3, <2>1, CreationFacts DEF Base
  <2>4. Live' = Live \cup (IF IsGoal(task, s) THEN {} ELSE {NewNode}) /\ Live \subseteq Nodes
    BY <1>2, <1>4, <2>3, LiveNodes DEF Live, Base, Layers
  <2>5. \A n \in Live : node'[n] = node[n] /\ n # NewNode
    BY <2>3, <2>4
  <2>6. NewNode \notin processed
    BY <2>3, LiveNodes DEF Live, Base, Layers
  <2>7. CASE IsGoal(task, s)
    <3>1. Live' \ processed' = Live \ processed
      BY <1>2, <2>4, <2>7
    <3>2. OpenStates' = OpenStates
      BY <2>5, <3>1 DEF OpenStates
    <3> QED BY <1>2, <3>2 DEF FS!vars
  <2>8. CASE ~IsGoal(task, s)
    <3>1. Live' \ processed' = (Live \ processed) \cup {NewNode}
      BY <1>2, <2>4, <2>6, <2>8
    <3>2. OpenStates' = OpenStates \cup {s}
      BY <2>3, <2>5, <3>1 DEF OpenStates
    <3>3. FS!Open(s)
      BY <1>2, <1>4, <2>2, <2>8, <3>2, SameTask DEF FS!Open
    <3> QED BY <2>1, <3>3, SameTask DEF FS!Next
  <2> QED BY <2>7, <2>8
<1> QED BY <1>5, <1>6

LEMMA PopQ1Refines ==
    ASSUME Base, PopQ1
    PROVE  [FS!Next]_FS!vars
<1>1. PICK n \in q1 : q1' = q1 \ {n} /\ ProcessNode(n)
  BY DEF PopQ1, Best, Dequeue
<1>2. UNCHANGED <<task, pc, node, qwgr1, qwgr2, qrest, result>> /\ pc = "loop"
  BY DEF PopQ1, TurnOfQ1, Idle
<1>3. n \in Live /\ n \notin processed /\ n \in qwgr1 /\ result = "none"
  BY <1>2 DEF Base, Layers, QueueInv, QueuesOK, Live, OpenNodes, ExplorationInv, AnswerOK
<1>4. Live' = Live
  BY <1>1, <1>2, <1>3 DEF Live, OpenNodes, InEvaluation, ProcessNode
<1> QED BY <1>1, <1>2, <1>3, <1>4, ExpandingCloses

LEMMA PopQrestRefines ==
    ASSUME Base, PopQrest
    PROVE  [FS!Next]_FS!vars
<1>1. PICK n \in qrest : qrest' = qrest \ {n}
                         /\ IF n \in processed THEN UNCHANGED <<processed, closed, pending>>
                                               ELSE ProcessNode(n)
  BY DEF PopQrest, Best, Dequeue
<1>2. UNCHANGED <<task, pc, node, q1, qwgr1, qwgr2, result>> /\ pc = "loop"
  BY DEF PopQrest, TurnOfQrest, Idle
<1>3. n \in Live /\ result = "none"
  BY <1>2 DEF Base, Live, OpenNodes, ExplorationInv, AnswerOK
<1>4. CASE n \in processed
  <2>1. Live' = Live
    BY <1>1, <1>2, <1>4 DEF Live, OpenNodes, InEvaluation
  <2> QED BY <1>1, <1>2, <1>4, <2>1, Stuttering
<1>5. CASE n \notin processed
  <2>1. ProcessNode(n)
    BY <1>1, <1>5
  <2>2. Live' = Live
    BY <1>1, <1>2, <2>1 DEF Live, OpenNodes, InEvaluation, ProcessNode
  <2> QED BY <1>2, <1>3, <1>5, <2>1, <2>2, ExpandingCloses
<1> QED BY <1>4, <1>5

LEMMA EvaluateRefines ==
    ASSUME Base, pc \in {"wgr1", "wgr2"}, pc' = "loop",
           NEW novel, NEW last \in BOOLEAN, Dispatch(cur, novel, last),
           last \/ (pc = "wgr1" /\ NoveltyLevels = 3),
           UNCHANGED <<task, node, q1, qwgr1, qwgr2, result>>
    PROVE  [FS!Next]_FS!vars
<1>1. InEvaluation = {cur} /\ InEvaluation' = {} /\ cur \in Live /\ result = "none"
  BY DEF InEvaluation, Live, Base, ExplorationInv, AnswerOK
<1>2. CASE cur \in processed /\ UNCHANGED <<processed, closed, pending, qrest>>
  <2>1. Live' = Live
    BY <1>1, <1>2 DEF Live, OpenNodes
  <2> QED BY <1>2, <2>1, Stuttering
<1>3. CASE cur \notin processed /\ ProcessNode(cur) /\ UNCHANGED qrest
  <2>1. Live' = Live
    BY <1>1, <1>3 DEF Live, OpenNodes, ProcessNode
  <2> QED BY <1>1, <1>3, <2>1, ExpandingCloses
<1>4. CASE cur \notin processed /\ HandleUnprocessed(cur, last)
  <2>1. UNCHANGED <<processed, closed>>
    BY <1>4 DEF HandleUnprocessed
  <2>2. CASE last /\ ~Pruning
    <3>1. Live' = Live
      BY <1>1, <1>4, <2>1, <2>2 DEF Live, OpenNodes, HandleUnprocessed
    <3> QED BY <2>1, <3>1, Stuttering
  <2>3. CASE ~(last /\ ~Pruning)
    <3>1. OpenNodes' = OpenNodes
      BY <1>4, <2>3 DEF OpenNodes, HandleUnprocessed
    <3>2. CASE cur \in OpenNodes
      <4>1. Live' = Live
        BY <1>1, <2>1, <3>1, <3>2 DEF Live
      <4> QED BY <2>1, <4>1, Stuttering
    <3>3. CASE cur \notin OpenNodes
      <4>1. Live' = Live \ {cur}
        BY <1>1, <1>4, <2>1, <3>1, <3>3 DEF Live
      <4>2. Pruning
        BY <1>1, <2>3, <3>3, ConfigAssumption
           DEF Base, Layers, QueueInv, QueuesOK, OpenNodes
      <4> QED BY <1>1, <1>4, <2>1, <4>1, <4>2, PruningDrops
    <3> QED BY <3>2, <3>3
  <2> QED BY <2>2, <2>3
<1> QED BY <1>2, <1>3, <1>4 DEF Dispatch

LEMMA NoPlanRefines ==
    ASSUME Base, NoPlan, Pruning \/ ~IsGoal(task, task.init)
    PROVE  [FS!Next]_FS!vars
<1>1. /\ pc = "loop" /\ pc' = "done" /\ result' = "no_plan" /\ solution = 0 /\ pending = {}
      /\ UNCHANGED <<task, node, processed, closed, queues>>
      /\ q1 = {} /\ qwgr1 = {} /\ qrest = {} /\ ~(NoveltyLevels = 3 /\ qwgr2 # {})
  BY DEF NoPlan, AllEmpty, Idle
<1>2. OpenNodes = {}
  BY <1>1, ConfigAssumption DEF Base, Layers, QueueInv, QueuesOK, OpenNodes
<1>3. Live = processed /\ Live' = processed /\ result = "none"
  BY <1>1, <1>2 DEF Live, OpenNodes, InEvaluation, queues, Base, ExplorationInv, AnswerOK
<1>4. OpenStates = {} /\ OpenStates' = {}
  BY <1>1, <1>3 DEF OpenStates
<1>5. Pruning \/ UnsolvabilityCertificate(task, closed)
  BY <1>1, <1>2, Certificate DEF Base
<1>6. FS!AnnounceNoPlan
  BY <1>1, <1>3, <1>4, <1>5, SameTask DEF FS!AnnounceNoPlan
<1> QED BY <1>6 DEF FS!Next

LEMMA PlanExtractedRefines ==
    ASSUME Base, PlanExtracted
    PROVE  [FS!Next]_FS!vars
<1>1. /\ pc = "extract" /\ pc' = "done" /\ result' = "plan"
      /\ UNCHANGED <<task, node, processed, closed, queues>>
  BY DEF PlanExtracted
<1>2. Live' = Live /\ OpenStates' = OpenStates
  BY <1>1 DEF Live, OpenNodes, InEvaluation, queues, OpenStates
<1>3. /\ solution # 0 /\ solution \in Nodes /\ result = "none"
      /\ HasParent(solution) /\ Parent(solution) \in processed
      /\ IsGoal(task, node[solution].state)
  BY <1>1 DEF Base, ExplorationInv, AnswerOK, ExploredOK, Layers, Bookkeeping, TypeOK
<1>4. node[solution].state \in Successors(task, node[Parent(solution)].state)
  BY <1>3 DEF Successors, Base, Layers, Bookkeeping, NodesOK
<1>5. node[Parent(solution)].state \in closed
  BY <1>3 DEF Base, Layers, QueueInv, QueuesOK
<1>6. node[solution].state \in FS!Reached
  BY <1>4, <1>5, SameTask DEF FS!Reached
<1>7. FS!AnnouncePlan
  BY <1>1, <1>2, <1>3, <1>6, SameTask DEF FS!AnnouncePlan
<1> QED BY <1>7 DEF FS!Next

\* Steps between the queues, and the walk back from the solution.
LEMMA StillRefines ==
    ASSUME Base, UNCHANGED <<task, node, queues, processed, closed, result>>,
           \/ UNCHANGED <<pc, cur>>
           \/ pc \notin {"wgr1", "wgr2"} /\ pc' \notin {"wgr1", "wgr2"}
    PROVE  [FS!Next]_FS!vars
<1>1. Live' = Live
  BY DEF Live, OpenNodes, InEvaluation, queues
<1> QED BY <1>1, Stuttering

LEMMA StepRefines ==
    ASSUME Base, [Next]_vars, Pruning \/ ~IsGoal(task, task.init)
    PROVE  [FS!Next]_FS!vars
<1>1. CASE CreateRoot      BY <1>1, CreateRootRefines
<1>2. CASE PopQ1           BY <1>2, PopQ1Refines
<1>3. CASE PopQwgr1
  <2>1. /\ \E n \in qwgr1 : qwgr1' = qwgr1 \ {n} /\ cur' = n
        /\ UNCHANGED <<task, node, processed, closed, q1, qwgr2, qrest, result>>
        /\ pc = "loop" /\ pc' = "wgr1"
    BY <1>3 DEF PopQwgr1, TurnOfQwgr1, Idle, Best, Dequeue
  <2>2. Live' = Live
    BY <2>1 DEF Live, OpenNodes, InEvaluation
  <2> QED BY <2>1, <2>2, Stuttering
<1>4. CASE PopQwgr2
  <2>1. /\ \E n \in qwgr2 : qwgr2' = qwgr2 \ {n} /\ cur' = n
        /\ UNCHANGED <<task, node, processed, closed, q1, qwgr1, qrest, result>>
        /\ pc = "loop" /\ pc' = "wgr2"
    BY <1>4 DEF PopQwgr2, TurnOfQwgr2, Idle, Best, Dequeue
  <2>2. Live' = Live
    BY <2>1 DEF Live, OpenNodes, InEvaluation
  <2> QED BY <2>1, <2>2, Stuttering
<1>5. CASE PopQrest        BY <1>5, PopQrestRefines
<1>6. CASE Generate        BY <1>6, GenerateRefines
<1>7. CASE ComputeR        BY <1>7, StillRefines DEF ComputeR
<1>8. CASE EvaluateWgr1    BY <1>8, EvaluateRefines, ConfigAssumption DEF EvaluateWgr1
<1>9. CASE EvaluateWgr2    BY <1>9, EvaluateRefines DEF EvaluateWgr2
<1>10. CASE NoPlan          BY <1>10, NoPlanRefines
<1>11. CASE StartExtraction BY <1>11, StillRefines DEF StartExtraction
<1>12. CASE ExtractAction   BY <1>12, StillRefines DEF ExtractAction
<1>13. CASE PlanExtracted   BY <1>13, PlanExtractedRefines
<1>14. CASE UNCHANGED vars  BY <1>14, StillRefines DEF vars
<1> QED
  BY <1>1, <1>2, <1>3, <1>4, <1>5, <1>6, <1>7, <1>8, <1>9, <1>10, <1>11, <1>12, <1>13, <1>14
  DEF Next, Terminating

LEMMA InitRefines ==
    ASSUME Init
    PROVE  FS!Init
<1>1. Live = {}
  BY DEF Init, Live, OpenNodes, InEvaluation
<1> QED BY <1>1 DEF Init, FS!Init, OpenStates

(***************************************************************************)
(* SBFWS with its four queues and its lazy evaluation is a forward search, *)
(* for tasks whose initial state is not a goal; the case it mishandles is  *)
(* the one of EmptyPlanFound, and with pruning it may only give up on it.  *)
(***************************************************************************)
THEOREM Refinement ==
    ASSUME Pruning \/ \A t \in Tasks : ~IsGoal(t, t.init)
    PROVE  Spec => ImplementsForwardSearch
<1>1. Init => FS!Init
  BY InitRefines
<1>2. Base /\ [Next]_vars => [FS!Next]_FS!vars
  <2>1. Base => Pruning \/ ~IsGoal(task, task.init)
    BY DEF Base, Layers, Bookkeeping, TypeOK
  <2> QED BY <2>1, StepRefines
<1>3. Spec => []Base
  BY ExplorationInvariant, PTL DEF Base
<1> QED BY <1>1, <1>2, <1>3, PTL DEF Spec, ImplementsForwardSearch, FS!Spec

-----------------------------------------------------------------------------
(***************************************************************************)
(* The novelty tests: the incremental evaluation leaves the tables         *)
(* complete, the cached counters #r are those of the path, and with        *)
(* pruning nothing is expanded that passed no test.                        *)
(***************************************************************************)

(* Relevant atom sets *)

LEMMA UpdateFacts ==
    ASSUME NEW r \in RelevantAtomSet, NEW s
    PROVE  LET new == (AtomsOf(s) \cap r.rel) \ r.reached
               u   == UpdateAtomSet(r, s)
           IN  /\ u.rel = r.rel
               /\ u.reached = r.reached \cup (AtomsOf(s) \cap r.rel)
               /\ u.num = r.num + Cardinality(new)
<1> DEFINE new == (AtomsOf(s) \cap r.rel) \ r.reached
           u1  == [r EXCEPT !.reached = r.reached \cup new]
<1>1. UpdateAtomSet(r, s) = [u1 EXCEPT !.num = r.num + Cardinality(new)]
  BY DEF UpdateAtomSet
<1>2. r.reached \cup new = r.reached \cup (AtomsOf(s) \cap r.rel)
  OBVIOUS
<1>3. r = [rel |-> r.rel, reached |-> r.reached, num |-> r.num]
  BY DEF RelevantAtomSet
<1> HIDE DEF new
<1>4. u1 = [rel |-> r.rel, reached |-> r.reached \cup new, num |-> r.num]
  BY <1>3
<1> HIDE DEF u1
<1>5. UpdateAtomSet(r, s) = [rel |-> r.rel, reached |-> r.reached \cup new,
                             num |-> r.num + Cardinality(new)]
  BY <1>1, <1>4
<1> QED BY <1>2, <1>5 DEF new

LEMMA InitFacts ==
    ASSUME NEW r, r.rel \in SUBSET Atom, NEW s \in State
    PROVE  /\ InitAtomSet(r, s).rel = r.rel
           /\ InitAtomSet(r, s).reached = AtomsOf(s) \cap r.rel
           /\ InitAtomSet(r, s).num = 0
<1> DEFINE e == EmptyAtomSet(r.rel)
           u == UpdateAtomSet(e, s)
<1>1. e \in RelevantAtomSet /\ e.rel = r.rel /\ e.reached = {}
  BY DEF EmptyAtomSet, RelevantAtomSet
<1> HIDE DEF e
<1>2. u.rel = r.rel /\ u.reached = AtomsOf(s) \cap r.rel /\ u \in RelevantAtomSet
  BY <1>1, UpdateFacts, UpdateType
<1>3. InitAtomSet(r, s) = [u EXCEPT !.num = 0]
  BY DEF InitAtomSet, e
<1> HIDE DEF u
<1> QED BY <1>2, <1>3 DEF RelevantAtomSet

\* What compute_R caches for a node, given what is cached for its parent.
Caches(n, r) ==
    /\ r \in RelevantAtomSet
    /\ IF DecreasesUnachieved(n)
       THEN r.reached = AtomsOf(node[n].state) \cap r.rel /\ r.num = 0
       ELSE /\ relevant[Parent(n)] # None
            /\ r = UpdateAtomSet(relevant[Parent(n)], node[n].state)

LEMMA ComputeRFacts ==
    ASSUME Bookkeeping, ComputeR
    PROVE  \/ \A m \in Nodes : relevant'[m] = relevant[m]
           \/ \E n \in Nodes : \E r \in RelevantAtomSet :
                 /\ relevant[n] = None /\ Caches(n, r)
                 /\ \A m \in Nodes : relevant'[m] = IF m = n THEN r ELSE relevant[m]
<1> DEFINE n == Head(stack)
           p == Parent(n)
           s == node[n].state
<1>1. stack # <<>> /\ stack \in Seq(Nodes)
  BY DEF ComputeR, Bookkeeping, TypeOK
<1>2. n \in Nodes
  BY <1>1, HeadTailProperties
<1>3. s \in State /\ (~NeedsSimulation(n) => HasParent(n) /\ p \in Nodes)
  BY <1>2, NodeFacts DEF NeedsSimulation, DecreasesUnachieved
<1>4. NeedsSimulation(n) => DecreasesUnachieved(n)
  BY DEF NeedsSimulation, DecreasesUnachieved
<1>5. ASSUME NEW r, Return(n, r)
      PROVE  \A m \in Nodes : relevant'[m] = IF m = n THEN r ELSE relevant[m]
  <2>1. DOMAIN relevant = Nodes
    BY NodeFacts DEF Bookkeeping, TypeOK
  <2> HIDE DEF n
  <2> QED BY <1>5, <2>1 DEF Return
<1>6. CASE relevant[n] # None /\ Return(n, relevant[n])
  BY <1>5, <1>6
<1>7. CASE /\ relevant[n] = None /\ NeedsSimulation(n)
           /\ \E R \in RelevantSets : Return(n, InitAtomSet(EmptyAtomSet(R), s))
  <2>1. PICK R \in RelevantSets : Return(n, InitAtomSet(EmptyAtomSet(R), s))
    BY <1>7
  <2> DEFINE r == InitAtomSet(EmptyAtomSet(R), s)
  <2>2. EmptyAtomSet(R).rel \in SUBSET Atom
    BY RelevantSetsAssumption DEF EmptyAtomSet
  <2>3. r.reached = AtomsOf(s) \cap r.rel /\ r.num = 0
    BY <1>3, <2>2, InitFacts
  <2>4. r \in RelevantAtomSet
    BY <1>3, SimulatedType
  <2>5. \A m \in Nodes : relevant'[m] = IF m = n THEN r ELSE relevant[m]
    BY <1>5, <2>1
  <2> HIDE DEF r
  <2>6. Caches(n, r)
    BY <1>4, <1>7, <2>3, <2>4 DEF Caches
  <2> QED BY <1>2, <1>7, <2>5, <2>6, <2>4
<1>8. CASE /\ relevant[n] = None /\ ~NeedsSimulation(n) /\ relevant[p] # None
           /\ Return(n, IF DecreasesUnachieved(n) THEN InitAtomSet(relevant[p], s)
                                                  ELSE UpdateAtomSet(relevant[p], s))
  <2>1. relevant[p] \in RelevantAtomSet
    BY <1>3, <1>8, NodeFacts
  <2> DEFINE r == IF DecreasesUnachieved(n) THEN InitAtomSet(relevant[p], s)
                                            ELSE UpdateAtomSet(relevant[p], s)
  <2>2. CASE DecreasesUnachieved(n)
    <3>1. relevant[p].rel \in SUBSET Atom
      BY <2>1 DEF RelevantAtomSet
    <3>2. r = InitAtomSet(relevant[p], s)
      BY <2>2
    <3> HIDE DEF r
    <3>3. r \in RelevantAtomSet
      BY <1>3, <2>1, <3>2, InitType
    <3>4. r.reached = AtomsOf(s) \cap r.rel /\ r.num = 0
      BY <1>3, <3>1, <3>2, InitFacts
    <3>5. Caches(n, r)
      BY <2>2, <3>4, <3>3 DEF Caches
    <3>6. \A m \in Nodes : relevant'[m] = IF m = n THEN r ELSE relevant[m]
      BY <1>5, <1>8 DEF r
    <3> QED BY <1>2, <1>8, <3>5, <3>6, <3>3
  <2>3. CASE ~DecreasesUnachieved(n)
    <3>1. r = UpdateAtomSet(relevant[p], s)
      BY <2>3
    <3>2. r \in RelevantAtomSet
      BY <1>3, <2>1, <3>1, UpdateType
    <3> HIDE DEF r
    <3>3. Caches(n, r)
      BY <1>8, <2>3, <3>1, <3>2 DEF Caches
    <3>4. \A m \in Nodes : relevant'[m] = IF m = n THEN r ELSE relevant[m]
      BY <1>5, <1>8 DEF r
    <3> QED BY <1>2, <1>8, <3>2, <3>3, <3>4
  <2> QED BY <2>2, <2>3
<1>9. CASE UNCHANGED relevant
  BY <1>9
<1> QED BY <1>6, <1>7, <1>8, <1>9 DEF ComputeR

-----------------------------------------------------------------------------
(* The counters #r *)

\* One step of the path back to where #g decreased.
PathAt(f, n) == IF DecreasesUnachieved(n) THEN <<n>> ELSE Append(f[Parent(n)], n)

IsPathFunction(f) == f = [n \in Nodes |-> PathAt(f, n)]

LEMMA PathEquation ==
    ASSUME Bookkeeping
    PROVE  \A n \in Nodes : PathSinceDecrease[n] = PathAt(PathSinceDecrease, n)
<1> DEFINE N    == Len(node)
           par  == [n \in 1..N |-> IF DecreasesUnachieved(n) THEN 0 ELSE Parent(n)]
           base == [n \in 1..N |-> <<n>>]
           step == [n \in 1..N |-> [p \in Seq(Nodes) |-> Append(p, n)]]
<1>1. N \in Nat /\ Nodes = 1..N
  BY NodeFacts
<1>2. \A n \in 1..N : ~DecreasesUnachieved(n) => Parent(n) \in Nodes /\ Parent(n) < n
  BY <1>1, NodeFacts DEF DecreasesUnachieved
<1>3. par \in [1..N -> Nat] /\ \A n \in 1..N : par[n] < n
  BY <1>1, <1>2
<1>4. base \in [1..N -> Seq(Nodes)]
  BY <1>1
<1>5. step \in [1..N -> [Seq(Nodes) -> Seq(Nodes)]]
  BY <1>1
<1>6. PICK f \in [1..N -> Seq(Nodes)] : PassedDown(f, N, par, base, step)
  <2> HIDE DEF N, par, base, step
  <2> QED BY <1>1, <1>3, <1>4, <1>5, ParentRecursion
<1>7. ASSUME NEW n \in 1..N PROVE f[n] = PathAt(f, n)
  <2>1. f[n] = IF par[n] = 0 THEN base[n] ELSE step[n][f[par[n]]]
    BY <1>6 DEF PassedDown
  <2>2. CASE DecreasesUnachieved(n)
    BY <2>1, <2>2 DEF PathAt
  <2>3. CASE ~DecreasesUnachieved(n)
    <3>1. Parent(n) \in 1..N /\ Parent(n) # 0 /\ f[Parent(n)] \in Seq(Nodes)
      BY <1>1, <1>2, <2>3
    <3> QED BY <2>1, <2>3, <3>1 DEF PathAt
  <2> QED BY <2>2, <2>3
<1>8. IsPathFunction(f)
  <2> HIDE DEF N
  <2> QED BY <1>1, <1>7 DEF IsPathFunction
<1>9. PathSinceDecrease = CHOOSE g : IsPathFunction(g)
  BY DEF PathSinceDecrease, IsPathFunction, PathAt
<1>10. IsPathFunction(PathSinceDecrease)
  BY <1>8, <1>9
<1> HIDE DEF N
<1> QED BY <1>10 DEF IsPathFunction

LEMMA ElementsOfAppend ==
    ASSUME NEW S, NEW q \in Seq(S), NEW x \in S
    PROVE  /\ {Append(q, x)[i] : i \in DOMAIN Append(q, x)} = {q[i] : i \in DOMAIN q} \cup {x}
           /\ q # <<>> => Head(Append(q, x)) = Head(q)
<1>1. Len(q) \in Nat /\ DOMAIN q = 1..Len(q)
  BY LenProperties
<1>2. /\ DOMAIN Append(q, x) = 1..(Len(q) + 1) /\ Append(q, x)[Len(q) + 1] = x
      /\ \A i \in 1..Len(q) : Append(q, x)[i] = q[i]
  BY AppendType
<1>3. {Append(q, x)[i] : i \in 1..(Len(q) + 1)} = {q[i] : i \in 1..Len(q)} \cup {x}
  <2>1. \A i \in 1..(Len(q) + 1) : i \in 1..Len(q) \/ i = Len(q) + 1
    BY <1>1
  <2>2. 1..Len(q) \subseteq 1..(Len(q) + 1) /\ Len(q) + 1 \in 1..(Len(q) + 1)
    BY <1>1
  <2> QED BY <1>2, <2>1, <2>2
<1>4. q # <<>> => Head(Append(q, x)) = Head(q)
  OBVIOUS
<1> QED BY <1>1, <1>2, <1>3, <1>4

\* The nodes on the path, the relevant atoms reached on it, and where it starts.
OnPath(n)    == {PathSinceDecrease[n][i] : i \in DOMAIN PathSinceDecrease[n]}
ReachedOn(n) == UNION {AtomsOf(node[m].state) \cap relevant[n].rel : m \in OnPath(n)}
StartOf(n)   == Head(PathSinceDecrease[n])

\* What the cached set of a node should say.
Exact(n) ==
    /\ PathSinceDecrease[n] \in Seq(Nodes) /\ PathSinceDecrease[n] # <<>>
    /\ StartOf(n) \in OnPath(n)
    /\ relevant[n] # None =>
         /\ relevant[n].reached = ReachedOn(n)
         /\ relevant[n].num = Cardinality(relevant[n].reached \ AtomsOf(node[StartOf(n)].state))

LEMMA ExactAtDecrease ==
    ASSUME Bookkeeping, AtomSetsOK, NEW n \in Nodes, DecreasesUnachieved(n)
    PROVE  Exact(n)
<1>1. PathSinceDecrease[n] = <<n>>
  BY PathEquation DEF PathAt
<1>2. OnPath(n) = {n} /\ StartOf(n) = n
  BY <1>1 DEF OnPath, StartOf
<1>3. ASSUME relevant[n] # None
      PROVE  /\ relevant[n].reached = AtomsOf(node[n].state) \cap relevant[n].rel
             /\ relevant[n].num = 0
  BY <1>3 DEF AtomSetsOK
<1>4. ASSUME relevant[n] # None
      PROVE  /\ relevant[n].reached = ReachedOn(n)
             /\ relevant[n].reached \ AtomsOf(node[n].state) = {}
  BY <1>2, <1>3, <1>4 DEF ReachedOn
<1> QED BY <1>1, <1>2, <1>3, <1>4, FS_EmptySet DEF Exact

LEMMA ExactOnward ==
    ASSUME Bookkeeping, AtomSetsOK, NEW n \in Nodes, ~DecreasesUnachieved(n), Exact(Parent(n))
    PROVE  Exact(n)
<1> DEFINE p == Parent(n)
           s == node[n].state
<1>1. PathSinceDecrease[n] = Append(PathSinceDecrease[p], n)
  BY PathEquation DEF PathAt
<1>2. PathSinceDecrease[p] \in Seq(Nodes) /\ PathSinceDecrease[p] # <<>> /\ StartOf(p) \in OnPath(p)
  BY DEF Exact
<1>3. p \in Nodes /\ s \in State
  BY NodeFacts DEF DecreasesUnachieved
<1> HIDE DEF p
<1>4. /\ PathSinceDecrease[n] \in Seq(Nodes) /\ PathSinceDecrease[n] # <<>>
      /\ OnPath(n) = OnPath(p) \cup {n} /\ StartOf(n) = StartOf(p)
  BY <1>1, <1>2, ElementsOfAppend, AppendProperties DEF OnPath, StartOf
<1>5. ASSUME relevant[n] # None
      PROVE  /\ relevant[n].reached = ReachedOn(n)
             /\ relevant[n].num = Cardinality(relevant[n].reached \ AtomsOf(node[StartOf(n)].state))
  <2>1. relevant[p] # None /\ relevant[n] = UpdateAtomSet(relevant[p], s)
    BY <1>5 DEF AtomSetsOK, p
  <2> DEFINE r   == relevant[p]
             new == (AtomsOf(s) \cap r.rel) \ r.reached
             A   == AtomsOf(node[StartOf(p)].state)
  <2>2. r \in RelevantAtomSet
    BY <1>3, <2>1, NodeFacts
  <2>3. r.reached = ReachedOn(p) /\ r.num = Cardinality(r.reached \ A)
    BY <2>1 DEF Exact, p
  <2>4. /\ relevant[n].rel = r.rel
        /\ relevant[n].reached = r.reached \cup (AtomsOf(s) \cap r.rel)
        /\ relevant[n].num = r.num + Cardinality(new)
    <3> DEFINE u == UpdateAtomSet(r, s)
    <3>1. u.rel = r.rel /\ u.reached = r.reached \cup (AtomsOf(s) \cap r.rel) /\ u.num = r.num + Cardinality(new)
      <4> HIDE DEF r, s
      <4> QED BY <2>2, UpdateFacts
    <3>2. relevant[n] = u
      BY <2>1
    <3> HIDE DEF u, new, r, s
    <3> QED BY <3>1, <3>2
  <2>5. relevant[n].reached = ReachedOn(n)
    <3>1. ReachedOn(n) = ReachedOn(p) \cup (AtomsOf(s) \cap r.rel)
      BY <1>4, <2>4 DEF ReachedOn
    <3> QED BY <2>3, <2>4, <3>1
  <2>6. A \cap r.rel \subseteq r.reached
    BY <1>2, <2>3 DEF ReachedOn
  <2>7. /\ relevant[n].reached \ A = (r.reached \ A) \cup new
        /\ (r.reached \ A) \cap new = {}
    BY <2>4, <2>6
  <2>8. IsFiniteSet(r.reached \ A) /\ IsFiniteSet(new)
    <3>1. IsFiniteSet(Atom)
      BY VarsAssumption, ValsAssumption, FS_Product DEF Atom
    <3>2. r.reached \ A \subseteq Atom /\ new \subseteq Atom
      BY <2>2 DEF RelevantAtomSet
    <3> QED BY <3>1, <3>2, FS_Subset
  <2> HIDE DEF new, r, A
  <2>9. Cardinality(relevant[n].reached \ A) = Cardinality(r.reached \ A) + Cardinality(new)
    <3> DEFINE B == r.reached \ A
    <3>1. Cardinality({}) = 0 /\ Cardinality(B) \in Nat /\ Cardinality(new) \in Nat
      BY <2>8, FS_EmptySet, FS_CardinalityType
    <3>2. relevant[n].reached \ A = B \cup new /\ B \cap new = {}
      BY <2>7
    <3> HIDE DEF B
    <3>3. Cardinality(B \cup new) = Cardinality(B) + Cardinality(new) - Cardinality(B \cap new)
      BY <2>8, FS_Union DEF B
    <3>4. Cardinality(B \cup new) = Cardinality(B) + Cardinality(new)
      <4>1. Cardinality(B \cap new) = 0
        BY <3>1, <3>2, Zenon
      <4> DEFINE b == Cardinality(B)
                 c == Cardinality(new)
      <4>2. Cardinality(B \cup new) = b + c - 0
        BY <3>3, <4>1, Zenon
      <4>3. b \in Nat /\ c \in Nat
        BY <3>1
      <4> HIDE DEF b, c
      <4>4. b + c - 0 = b + c
        BY <4>3
      <4> QED BY <4>2, <4>4 DEF b, c
    <3> QED BY <3>2, <3>4 DEF B
  <2> QED BY <1>4, <2>3, <2>4, <2>5, <2>9 DEF A
<1> QED BY <1>2, <1>4, <1>5 DEF Exact

LEMMA AllExact ==
    ASSUME Bookkeeping, AtomSetsOK
    PROVE  \A n \in Nodes : Exact(n)
<1> DEFINE N == {k \in Nat : \A n \in Nodes : n <= k => Exact(n)}
<1>1. Nodes = 1..Len(node) /\ Len(node) \in Nat
  BY NodeFacts
<1>2. 0 \in N
  BY <1>1
<1>3. ASSUME NEW k \in N PROVE k + 1 \in N
  <2> SUFFICES ASSUME NEW n \in Nodes, n <= k + 1 PROVE Exact(n)
    OBVIOUS
  <2>1. CASE DecreasesUnachieved(n)
    BY <2>1, ExactAtDecrease
  <2>2. CASE ~DecreasesUnachieved(n)
    <3>1. Parent(n) \in Nodes /\ Parent(n) <= k
      BY <1>1, <2>2, NodeFacts DEF DecreasesUnachieved
    <3>2. Exact(Parent(n))
      BY <3>1
    <3> QED BY <2>2, <3>2, ExactOnward
  <2> QED BY <2>1, <2>2
<1>4. N = Nat
  <2> HIDE DEF N
  <2>1. N \in SUBSET Nat
    BY DEF N
  <2> QED BY <1>2, <1>3, <2>1, Induction
<1> QED BY <1>1, <1>4

\* The cached counters are those of the path.
LEMMA CountExact ==
    ASSUME Bookkeeping, AtomSetsOK
    PROVE  RelevantCountExact
BY AllExact DEF RelevantCountExact, Exact, OnPath, ReachedOn, StartOf

\* #r fits in the low half of the type index.
LEMMA NumReachedFits ==
    ASSUME Bookkeeping, AtomSetsOK, NEW n \in Nodes, UseR => relevant[n] # None
    PROVE  NumReached(n) \in Nat /\ NumReached(n) < IndexBase
<1>1. CASE ~UseR
  BY <1>1 DEF NumReached, IndexBase
<1>2. CASE UseR
  <2> DEFINE X == relevant[n].reached \ AtomsOf(node[StartOf(n)].state)
  <2>1. relevant[n].num = Cardinality(X)
    BY <1>2, AllExact DEF Exact
  <2>2. X \subseteq Atom
    BY <1>2, NodeFacts DEF RelevantAtomSet
  <2>3. IsFiniteSet(Atom)
    BY VarsAssumption, ValsAssumption, FS_Product DEF Atom
  <2> HIDE DEF X
  <2>4. Cardinality(X) \in Nat /\ Cardinality(Atom) \in Nat /\ Cardinality(X) <= Cardinality(Atom)
    BY <2>2, <2>3, FS_Subset, FS_CardinalityType
  <2> QED BY <1>2, <2>1, <2>4, IndexAssumption DEF NumReached, IndexBase
<1> QED BY <1>1, <1>2

\* The type index determines both numbers when the second one fits.
LEMMA TypeIndexInjective ==
    ASSUME NEW a \in Nat, NEW b \in Nat, NEW x \in Nat, NEW y \in Nat,
           x < IndexBase, y < IndexBase, TypeIndex(a, x) = TypeIndex(b, y)
    PROVE  a = b /\ x = y
<1>1. a * 65536 + x = b * 65536 + y /\ x < 65536 /\ y < 65536
  BY DEF TypeIndex, IndexBase
<1>2. CASE a < b
  BY <1>1, <1>2
<1>3. CASE b < a
  BY <1>1, <1>3
<1>4. CASE a = b
  BY <1>1, <1>4
<1> QED BY <1>2, <1>3, <1>4

\* Nodes of the same type have the same #g.
LEMMA SameTypeSameGoals ==
    ASSUME Bookkeeping, AtomSetsOK, NEW m \in Nodes, NEW n \in Nodes,
           UseR => relevant[m] # None /\ relevant[n] # None,
           ComplexType(m) = ComplexType(n)
    PROVE  node[m].unachieved = node[n].unachieved
<1>1. /\ NumReached(m) \in Nat /\ NumReached(m) < IndexBase
      /\ NumReached(n) \in Nat /\ NumReached(n) < IndexBase
  BY NumReachedFits
<1>2. node[m].unachieved \in Nat /\ node[n].unachieved \in Nat
  BY NodeFacts
<1> QED BY <1>1, <1>2, TypeIndexInjective DEF ComplexType

-----------------------------------------------------------------------------
(* Tables *)

\* An incremental evaluation leaves all tuples of the state in the table.
LEMMA LeavesTuples ==
    ASSUME NEW k, NEW ty, NEW s, NEW ps, NEW same, NEW T, NEW U, T \subseteq U,
           \A x \in TuplesToCheck(k, s, ps, same) : <<ty, x>> \in U,
           same => Entries(k, ty, ps) \subseteq T
    PROVE  Entries(k, ty, s) \subseteq U
BY DEF Entries, TuplesToCheck

\* What a node left in the tables stays there as long as its type does.
LEMMA LeftKept ==
    ASSUME NEW n, LeftInTables(n), node'[n] = node[n], w_gr'[n] = w_gr[n],
           UseR /\ w_gr[n] # "Unknown" => relevant'[n] = relevant[n],
           NoveltyLevels = 3 /\ n \notin qwgr2' \cup InEvaluation'
               => n \notin qwgr2 \cup InEvaluation /\ (UseR => relevant'[n] = relevant[n]),
           wg1_table \subseteq wg1_table', wgr1_table \subseteq wgr1_table',
           wgr2_table \subseteq wgr2_table'
    PROVE  LeftInTables(n)'
<1>1. Entries(1, node'[n].unachieved, node'[n].state) \subseteq wg1_table'
  BY DEF LeftInTables
<1>2. UseR /\ w_gr'[n] # "Unknown" => Entries(1, ComplexType(n)', node'[n].state) \subseteq wgr1_table'
  BY DEF LeftInTables, ComplexType, NumReached
<1>3. NoveltyLevels = 3 /\ n \notin qwgr2' \cup InEvaluation'
        => Entries(2, ComplexType(n)', node'[n].state) \subseteq wgr2_table'
  BY DEF LeftInTables, ComplexType, NumReached
<1> QED BY <1>1, <1>2, <1>3 DEF LeftInTables

\* Old nodes keep their parent and its #g.
LEMMA SameDecrease ==
    ASSUME Bookkeeping, NEW n \in Nodes, \A m \in Nodes : node'[m] = node[m]
    PROVE  /\ DecreasesUnachieved(n)' <=> DecreasesUnachieved(n)
           /\ HasParent(n)' <=> HasParent(n)
           /\ Parent(n)' = Parent(n)
<1>1. HasParent(n) => Parent(n) \in Nodes
  BY NodeFacts
<1> QED BY <1>1 DEF DecreasesUnachieved, HasParent, Parent

\* The parts of the invariant about the nodes, when the sets are as they were.
LEMMA NodesKeepNovelty ==
    ASSUME Bookkeeping, AtomSetsOK, DepthsOK, Nodes' = Nodes,
           \A m \in Nodes : node'[m] = node[m], processed \subseteq processed'
    PROVE  /\ DepthsOK'
           /\ (\A m \in Nodes : relevant'[m] = relevant[m]) => AtomSetsOK'
<1>1. \A n \in Nodes : /\ DecreasesUnachieved(n)' <=> DecreasesUnachieved(n)
                       /\ HasParent(n)' <=> HasParent(n)
                       /\ Parent(n)' = Parent(n)
  BY SameDecrease
<1>2. \A n \in Nodes : HasParent(n) => Parent(n) \in Nodes
  BY NodeFacts
<1>3. DepthsOK'
  BY <1>1, <1>2 DEF DepthsOK
<1>4. (\A m \in Nodes : relevant'[m] = relevant[m]) => AtomSetsOK'
  BY <1>1, <1>2 DEF AtomSetsOK, DecreasesUnachieved
<1> QED BY <1>3, <1>4

(***************************************************************************)
(* Steps that evaluate nothing and start no evaluation: nodes only leave   *)
(* the queues of the novelty-1 nodes and of the rest, to be expanded.      *)
(***************************************************************************)
LEMMA StillKeepsNovelty ==
    ASSUME Base, NoveltyInv,
           UNCHANGED <<node, w_gr, relevant, tables, qwgr1, qwgr2>>,
           processed \subseteq processed', processed' \subseteq processed \cup q1 \cup qrest,
           q1' \subseteq q1, qrest' \subseteq qrest,
           \/ UNCHANGED <<pc, cur>>
           \/ pc \notin {"wgr1", "wgr2"} /\ pc' \notin {"wgr1", "wgr2"}
    PROVE  NoveltyInv'
<1>1. Nodes' = Nodes /\ Queued' = Queued /\ InEvaluation' = InEvaluation
  BY DEF Nodes, Queued, InEvaluation
<1>2. AtomSetsOK' /\ DepthsOK'
  BY <1>1, NodesKeepNovelty DEF Base, Layers, NoveltyInv
<1>3. TestsOK'
  BY <1>1 DEF NoveltyInv, TestsOK
<1>4. ParentsFirst'
  BY DEF NoveltyInv, ParentsFirst, HasParent, Parent
<1>5. TablesOK'
  <2> SUFFICES ASSUME NEW n \in Queued PROVE LeftInTables(n)'
    BY <1>1 DEF TablesOK
  <2>1. LeftInTables(n)
    BY DEF NoveltyInv, TablesOK
  <2> QED BY <1>1, <2>1, LeftKept DEF tables
<1>6. PruningOK'
  BY DEF NoveltyInv, PruningOK, PruningIsStrict
<1> QED BY <1>2, <1>3, <1>4, <1>5, <1>6 DEF NoveltyInv

-----------------------------------------------------------------------------
(* New nodes *)

LEMMA NewNodeFacts ==
    ASSUME Bookkeeping, task' = task, NEW s, NEW a, NEW p, ComesFrom(s, a, p), CreateNode(s, a, p)
    PROVE  /\ Appended(s, a, p)
           /\ node'[NewNode].g = IF p = 0 THEN 0 ELSE node[p].g + 1
           /\ LET ng == UnachievedSubgoals(task, s)
              IN  \/ /\ node'[NewNode].unachieved = MaxUnsigned
                     /\ UNCHANGED <<queues, wg1_table>>
                  \/ /\ node'[NewNode].unachieved = ng /\ ng # MaxUnsigned
                     /\ Enqueued
                     /\ q1' = q1 \/ node'[NewNode].w_g = "One"
                     /\ wg1_table \subseteq wg1_table'
                     /\ {<<ng, x>> : x \in TuplesToCheck(1, s, node[p].state,
                                          p # 0 /\ node[p].unachieved = ng)} \subseteq wg1_table'
<1> DEFINE ng   == UnachievedSubgoals(task, s)
           same == p # 0 /\ node[p].unachieved = ng
           seen == TuplesToCheck(1, s, node[p].state, same)
           w    == IF \E x \in seen : <<ng, x>> \notin wg1_table THEN "One" ELSE "GTOne"
           New(u, v) == [state |-> s, action |-> a, parent |-> p,
                         g |-> IF p = 0 THEN 0 ELSE node[p].g + 1, unachieved |-> u, w_g |-> v]
<1>1. Appended(s, a, p) /\ (~IsGoal(task, s) => Enqueued)
  BY CreateNodeType DEF Bookkeeping
<1>2. ng # MaxUnsigned
  BY UnachievedType DEF Bookkeeping, TypeOK, ComesFrom
<1>3. node \in Seq(NodeType)
  BY DEF Bookkeeping, TypeOK
<1>4. ASSUME NEW u, NEW v, AppendNode(s, a, p, u, v)
      PROVE  node'[NewNode] = New(u, v)
  <2>1. node' = Append(node, New(u, v))
    BY <1>4 DEF AppendNode
  <2> HIDE DEF New
  <2> QED BY <1>3, <2>1 DEF NewNode
<1>5. CASE IsGoal(task, s)
  <2>1. AppendNode(s, a, p, MaxUnsigned, "Unknown") /\ UNCHANGED <<queues, wg1_table>>
    BY <1>5 DEF CreateNode
  <2>2. node'[NewNode] = New(MaxUnsigned, "Unknown")
    BY <1>4, <2>1
  <2>3. /\ node'[NewNode].g = IF p = 0 THEN 0 ELSE node[p].g + 1
        /\ node'[NewNode].unachieved = MaxUnsigned
    BY <2>2
  <2> HIDE DEF New, w, ng
  <2> QED BY <1>1, <2>1, <2>3
<1>6. CASE ~IsGoal(task, s)
  <2>1. /\ AppendNode(s, a, p, ng, w)
        /\ wg1_table' = wg1_table \cup {<<ng, x>> : x \in seen}
        /\ q1' = IF w = "One" THEN q1 \cup {NewNode} ELSE q1
    BY <1>6 DEF CreateNode, CreateOpenNode, NewNode
  <2>2. node'[NewNode] = New(ng, w)
    BY <1>4, <2>1
  <2>3. /\ node'[NewNode].g = IF p = 0 THEN 0 ELSE node[p].g + 1
        /\ node'[NewNode].unachieved = ng /\ node'[NewNode].w_g = w
    <3> HIDE DEF ng, w
    <3> QED BY <2>2
  <2> HIDE DEF New, w, ng
  <2> QED BY <1>1, <1>2, <1>6, <2>1, <2>3 DEF ng
<1> QED BY <1>5, <1>6

LEMMA CreationKeepsNovelty ==
    ASSUME Base, NoveltyInv, NEW s, NEW a, NEW p, ComesFrom(s, a, p), CreateNode(s, a, p),
           p # 0 => p \in processed,
           pc \notin {"wgr1", "wgr2"}, pc' \notin {"wgr1", "wgr2"},
           UNCHANGED <<task, processed, wgr1_table, wgr2_table>>
    PROVE  NoveltyInv'
<1> DEFINE ng == UnachievedSubgoals(task, s)
<1>1. /\ Bookkeeping /\ processed \subseteq Queued /\ Queued \subseteq Nodes
      /\ q1 \subseteq Nodes /\ qwgr1 \subseteq Nodes /\ qwgr2 \subseteq Nodes
      /\ InEvaluation = {} /\ InEvaluation' = {}
  BY DEF Base, Layers, QueueInv, QueuesOK, Bookkeeping, TypeOK, Queued, InEvaluation
<1>2. /\ Appended(s, a, p)
      /\ node'[NewNode].g = IF p = 0 THEN 0 ELSE node[p].g + 1
      /\ \/ node'[NewNode].unachieved = MaxUnsigned /\ UNCHANGED <<queues, wg1_table>>
         \/ /\ node'[NewNode].unachieved = ng /\ ng # MaxUnsigned
            /\ Enqueued
            /\ q1' = q1 \/ node'[NewNode].w_g = "One"
            /\ wg1_table \subseteq wg1_table'
            /\ {<<ng, x>> : x \in TuplesToCheck(1, s, node[p].state,
                                 p # 0 /\ node[p].unachieved = ng)} \subseteq wg1_table'
  BY <1>1, NewNodeFacts
<1>3. PICK k : k = NewNode
  OBVIOUS
<1>4. /\ node'[k].g = IF p = 0 THEN 0 ELSE node[p].g + 1
      /\ \/ node'[k].unachieved = MaxUnsigned /\ UNCHANGED <<queues, wg1_table>>
         \/ /\ node'[k].unachieved = ng /\ ng # MaxUnsigned
            /\ Enqueued
            /\ q1' = q1 \/ node'[k].w_g = "One"
            /\ wg1_table \subseteq wg1_table'
            /\ {<<ng, x>> : x \in TuplesToCheck(1, s, node[p].state,
                                 p # 0 /\ node[p].unachieved = ng)} \subseteq wg1_table'
  BY <1>2, <1>3
<1>5. /\ Nodes' = Nodes \cup {k} /\ k \notin Nodes
      /\ \A n \in Nodes : node'[n] = node[n] /\ relevant'[n] = relevant[n] /\ w_gr'[n] = w_gr[n]
      /\ node'[k].state = s /\ node'[k].parent = p
      /\ w_gr'[k] = "Unknown" /\ relevant'[k] = None
  BY <1>2, <1>3 DEF Appended
<1>6. Enqueued => /\ q1' \in {q1, q1 \cup {k}} /\ qwgr1' = qwgr1 \cup {k} /\ qrest' = qrest
                   /\ qwgr2' = IF NoveltyLevels = 3 THEN qwgr2 \cup {k} ELSE qwgr2
  BY <1>3 DEF Enqueued
<1> HIDE DEF ng
<1>7. \A n \in Nodes : /\ DecreasesUnachieved(n)' <=> DecreasesUnachieved(n)
                       /\ HasParent(n)' <=> HasParent(n)
                       /\ Parent(n)' = Parent(n)
                       /\ HasParent(n) => Parent(n) \in Nodes
  BY <1>1, <1>5, SameDecrease, NodeFacts
<1>8. AtomSetsOK'
  <2>1. ASSUME NEW n \in Nodes, relevant[n] # None
        PROVE  IF DecreasesUnachieved(n)'
               THEN /\ relevant'[n].reached = AtomsOf(node'[n].state) \cap relevant'[n].rel
                    /\ relevant'[n].num = 0
               ELSE /\ relevant'[Parent(n)'] # None
                    /\ relevant'[n] = UpdateAtomSet(relevant'[Parent(n)'], node'[n].state)
    BY <1>5, <1>7, <2>1 DEF NoveltyInv, AtomSetsOK, DecreasesUnachieved
  <2> QED BY <1>5, <2>1 DEF AtomSetsOK
<1>9. DepthsOK'
  <2>1. ASSUME NEW n \in Nodes, HasParent(n)'
        PROVE  node'[n].g = node'[Parent(n)'].g + 1 /\ Parent(n)' \in processed'
    BY <1>5, <1>7, <2>1 DEF NoveltyInv, DepthsOK
  <2>2. HasParent(k)' => node'[k].g = node'[p].g + 1 /\ p \in processed'
    BY <1>1, <1>5, <1>4 DEF HasParent
  <2>3. Parent(k)' = p
    BY <1>5 DEF Parent
  <2> QED BY <1>5, <2>1, <2>2, <2>3 DEF DepthsOK
<1>10. CASE node'[k].unachieved = MaxUnsigned /\ UNCHANGED <<queues, wg1_table>>
  <2>1. Queued' = Queued /\ UNCHANGED <<q1, qwgr1, qwgr2, qrest, wg1_table>>
    BY <1>5, <1>10 DEF Queued, queues
  <2>2. TestsOK'
    BY <1>1, <1>5, <2>1 DEF NoveltyInv, TestsOK
  <2>3. TablesOK'
    <3> SUFFICES ASSUME NEW n \in Queued PROVE LeftInTables(n)'
      BY <2>1 DEF TablesOK
    <3>1. LeftInTables(n)
      BY DEF NoveltyInv, TablesOK
    <3> QED BY <1>1, <1>5, <2>1, <3>1, LeftKept
  <2>4. PruningOK'
    BY <1>1, <1>5, <2>1 DEF NoveltyInv, PruningOK, PruningIsStrict
  <2> QED BY <1>8, <1>9, <2>2, <2>3, <2>4 DEF NoveltyInv, ParentsFirst
<1>11. CASE /\ node'[k].unachieved = ng /\ ng # MaxUnsigned
            /\ Enqueued
            /\ q1' = q1 \/ node'[k].w_g = "One"
            /\ wg1_table \subseteq wg1_table'
            /\ {<<ng, x>> : x \in TuplesToCheck(1, s, node[p].state,
                                 p # 0 /\ node[p].unachieved = ng)} \subseteq wg1_table'
  <2>1. Queued' = Queued \cup {k}
    BY <1>5, <1>11 DEF Queued
  <2>2. /\ q1' \in {q1, q1 \cup {k}} /\ qwgr1' = qwgr1 \cup {k} /\ qrest' = qrest
        /\ qwgr2' = IF NoveltyLevels = 3 THEN qwgr2 \cup {k} ELSE qwgr2
    BY <1>11, <1>6
  <2>3. TestsOK'
    <3>1. \A n \in Queued' : w_gr'[n] = "Unknown" <=> n \in qwgr1'
      BY <1>1, <1>5, <2>1, <2>2 DEF NoveltyInv, TestsOK
    <3>2. \A n \in qwgr2' : w_gr'[n] \in {"Unknown", "One", "GTOne"}
      BY <1>1, <1>5, <2>2 DEF NoveltyInv, TestsOK
    <3>3. UseR => \A n \in Queued' : w_gr'[n] # "Unknown" => relevant'[n] # None
      BY <1>1, <1>5, <2>1 DEF NoveltyInv, TestsOK
    <3> QED BY <3>1, <3>2, <3>3 DEF TestsOK
  <2>4. ASSUME NEW n \in Queued PROVE LeftInTables(n)'
    <3>1. LeftInTables(n)
      BY DEF NoveltyInv, TablesOK
    <3> QED BY <1>1, <1>5, <1>11, <2>2, <3>1, LeftKept
  <2>5. LeftInTables(k)'
    <3>1. p # 0 /\ node[p].unachieved = ng => Entries(1, ng, node[p].state) \subseteq wg1_table
      BY <1>1 DEF NoveltyInv, TablesOK, LeftInTables
    <3>2. Entries(1, ng, s) \subseteq wg1_table'
      <4> DEFINE same == p # 0 /\ node[p].unachieved = ng
                 ps   == node[p].state
      <4>1. \A x \in TuplesToCheck(1, s, ps, same) : <<ng, x>> \in wg1_table'
        BY <1>11
      <4>2. same => Entries(1, ng, ps) \subseteq wg1_table
        BY <3>1
      <4> HIDE DEF same, ps
      <4> QED BY <1>11, <4>1, <4>2, LeavesTuples
    <3> QED BY <1>5, <1>11, <2>2, <3>2 DEF LeftInTables
  <2>6. PruningOK'
    BY <1>1, <1>5, <1>11, <2>2 DEF NoveltyInv, PruningOK, PruningIsStrict
  <2> QED BY <1>8, <1>9, <2>1, <2>3, <2>4, <2>5, <2>6 DEF NoveltyInv, ParentsFirst, TablesOK
<1> QED BY <1>10, <1>11, <1>4

-----------------------------------------------------------------------------
(* Evaluations *)

\* A queue gives a node only after its parent, if they have the same #g.
LEMMA BestAfterParent ==
    ASSUME Bookkeeping, DepthsOK, NEW q, NEW n \in Best(q), n \in Nodes, HasParent(n),
           node[n].unachieved = node[Parent(n)].unachieved
    PROVE  Parent(n) \notin q
<1>1. Parent(n) \in Nodes /\ node[n] \in NodeType /\ node[Parent(n)] \in NodeType
  BY NodeFacts
<1>2. node[n].unachieved \in Nat /\ node[n].g \in Nat /\ node[Parent(n)].g \in Nat
  BY <1>1 DEF NodeType
<1>3. node[n].g = node[Parent(n)].g + 1
  BY DEF DepthsOK
<1> QED BY <1>2, <1>3 DEF Best, NoWorse

LEMMA StartEvaluationKeepsNovelty ==
    ASSUME Base, NoveltyInv, NEW n \in Nodes, cur' = n,
           UNCHANGED <<node, processed, q1, qrest, w_gr, relevant, tables>>,
           pc \notin {"wgr1", "wgr2"},
           \/ /\ pc' = "wgr1"
              /\ n \in Best(qwgr1) /\ qwgr1' = qwgr1 \ {n} /\ qwgr2' = qwgr2
           \/ /\ pc' = "wgr2" /\ qwgr1 = {}
              /\ n \in Best(qwgr2) /\ qwgr2' = qwgr2 \ {n} /\ qwgr1' = qwgr1
    PROVE  NoveltyInv'
<1>1. /\ Bookkeeping /\ Nodes' = Nodes /\ Queued' = Queued
      /\ InEvaluation = {} /\ InEvaluation' = {n}
      /\ qwgr1 \subseteq Queued /\ qwgr2 \subseteq Queued
  BY DEF Base, Layers, QueueInv, QueuesOK, OpenNodes, Nodes, Queued, InEvaluation
<1>2. AtomSetsOK' /\ DepthsOK'
  BY <1>1, NodesKeepNovelty DEF NoveltyInv
<1>3. HasParent(n) /\ node[n].unachieved = node[Parent(n)].unachieved
        => Parent(n) \notin IF pc' = "wgr1" THEN qwgr1 ELSE qwgr2
  BY <1>1, BestAfterParent DEF NoveltyInv
<1>4. ParentsFirst'
  <2>1. HasParent(cur)' <=> HasParent(n)
    BY DEF HasParent
  <2>2. Parent(cur)' = Parent(n)
    BY DEF Parent
  <2> QED BY <1>3, <2>1, <2>2 DEF ParentsFirst
<1>5. TestsOK'
  <2>1. CASE pc' = "wgr1" /\ n \in Best(qwgr1) /\ qwgr1' = qwgr1 \ {n} /\ qwgr2' = qwgr2
    <3>1. n \in qwgr1
      BY <2>1 DEF Best
    <3> QED BY <1>1, <2>1, <3>1 DEF NoveltyInv, TestsOK
  <2>2. CASE pc' = "wgr2" /\ qwgr1 = {} /\ n \in Best(qwgr2) /\ qwgr2' = qwgr2 \ {n} /\ qwgr1' = qwgr1
    <3>1. n \in qwgr2 /\ n \in Queued
      BY <1>1, <2>2 DEF Best
    <3>2. w_gr[n] \in {"One", "GTOne"}
      BY <2>2, <3>1 DEF NoveltyInv, TestsOK
    <3> QED BY <1>1, <2>2, <3>2 DEF NoveltyInv, TestsOK
  <2> QED BY <2>1, <2>2
<1>6. TablesOK'
  <2> SUFFICES ASSUME NEW m \in Queued PROVE LeftInTables(m)'
    BY <1>1 DEF TablesOK
  <2>1. LeftInTables(m)
    BY DEF NoveltyInv, TablesOK
  <2>2. m \notin qwgr2' \cup InEvaluation' => m \notin qwgr2 \cup InEvaluation
    BY <1>1
  <2> QED BY <2>1, <2>2, LeftKept DEF tables
<1>7. PruningOK'
  BY DEF NoveltyInv, PruningOK, PruningIsStrict
<1> QED BY <1>2, <1>4, <1>5, <1>6, <1>7 DEF NoveltyInv

LEMMA PopQwgr1KeepsNovelty ==
    ASSUME Base, NoveltyInv, PopQwgr1
    PROVE  NoveltyInv'
<1>1. PICK n \in Best(qwgr1) : qwgr1' = qwgr1 \ {n} /\ cur' = n
  BY DEF PopQwgr1, Dequeue
<1>2. n \in Nodes
  BY <1>1 DEF Base, Layers, Bookkeeping, TypeOK, Best
<1> QED BY <1>1, <1>2, StartEvaluationKeepsNovelty DEF PopQwgr1, TurnOfQwgr1, Idle

LEMMA PopQwgr2KeepsNovelty ==
    ASSUME Base, NoveltyInv, PopQwgr2
    PROVE  NoveltyInv'
<1>1. PICK n \in Best(qwgr2) : qwgr2' = qwgr2 \ {n} /\ cur' = n
  BY DEF PopQwgr2, Dequeue
<1>2. n \in Nodes
  BY <1>1 DEF Base, Layers, Bookkeeping, TypeOK, Best
<1> QED BY <1>1, <1>2, StartEvaluationKeepsNovelty DEF PopQwgr2, TurnOfQwgr2, Idle

\* compute_R caches a set where there was none.
LEMMA ComputeRKeepsNovelty ==
    ASSUME Base, NoveltyInv, ComputeR
    PROVE  NoveltyInv'
<1>1. UNCHANGED <<pc, node, processed, queues, w_gr, tables, cur>>
  BY DEF ComputeR
<1>2. /\ Bookkeeping /\ Nodes' = Nodes /\ Queued' = Queued /\ InEvaluation' = InEvaluation
      /\ UNCHANGED <<q1, qwgr1, qwgr2, qrest, wg1_table, wgr1_table, wgr2_table>>
  BY <1>1 DEF Base, Layers, Nodes, Queued, InEvaluation, queues, tables
<1>3. PICK set : \A m \in Nodes : \/ relevant'[m] = relevant[m]
                                  \/ relevant[m] = None /\ relevant'[m] = set /\ set # None
  <2>1. None \notin RelevantAtomSet
    BY NoneAssumption
  <2> QED BY <1>2, <2>1, ComputeRFacts
<1>4. \A m \in Nodes : relevant[m] # None => relevant'[m] = relevant[m]
  BY <1>3
<1>5. AtomSetsOK'
  <2>1. CASE \A m \in Nodes : relevant'[m] = relevant[m]
    BY <1>1, <1>2, <2>1, NodesKeepNovelty DEF NoveltyInv
  <2>2. ASSUME NEW n \in Nodes, NEW r \in RelevantAtomSet,
               relevant[n] = None, Caches(n, r),
               \A m \in Nodes : relevant'[m] = IF m = n THEN r ELSE relevant[m]
        PROVE  AtomSetsOK'
    <3> SUFFICES ASSUME NEW m \in Nodes, relevant'[m] # None
                 PROVE  IF DecreasesUnachieved(m)
                        THEN /\ relevant'[m].reached = AtomsOf(node[m].state) \cap relevant'[m].rel
                             /\ relevant'[m].num = 0
                        ELSE /\ relevant'[Parent(m)] # None
                             /\ relevant'[m] = UpdateAtomSet(relevant'[Parent(m)], node[m].state)
      BY <1>1, <1>2 DEF AtomSetsOK, DecreasesUnachieved, HasParent, Parent
    <3>1. ~DecreasesUnachieved(m) => Parent(m) \in Nodes /\ Parent(m) # m
      BY <1>2, NodeFacts DEF DecreasesUnachieved
    <3>2. CASE m = n
      BY <2>2, <3>1, <3>2 DEF Caches
    <3>3. CASE m # n
      <4>1. relevant[m] # None /\ relevant'[m] = relevant[m]
        BY <2>2, <3>3
      <4>2. IF DecreasesUnachieved(m)
            THEN /\ relevant[m].reached = AtomsOf(node[m].state) \cap relevant[m].rel
                 /\ relevant[m].num = 0
            ELSE /\ relevant[Parent(m)] # None
                 /\ relevant[m] = UpdateAtomSet(relevant[Parent(m)], node[m].state)
        BY <4>1 DEF NoveltyInv, AtomSetsOK
      <4> QED BY <1>4, <3>1, <4>1, <4>2
    <3> QED BY <3>2, <3>3
  <2> QED BY <1>2, <2>1, <2>2, ComputeRFacts
<1>6. DepthsOK'
  BY <1>1, <1>2, NodesKeepNovelty DEF NoveltyInv
<1>7. TestsOK'
  BY <1>1, <1>2, <1>4 DEF NoveltyInv, TestsOK, Queued
<1>8. TablesOK'
  <2> SUFFICES ASSUME NEW m \in Queued PROVE LeftInTables(m)'
    BY <1>2 DEF TablesOK
  <2>1. LeftInTables(m) /\ m \in Nodes
    BY DEF NoveltyInv, TablesOK, Queued
  <2>2. UseR /\ w_gr[m] # "Unknown" => relevant'[m] = relevant[m]
    BY <1>4, <2>1 DEF NoveltyInv, TestsOK
  <2>3. NoveltyLevels = 3 /\ m \notin qwgr2 \cup InEvaluation => w_gr[m] # "Unknown"
    BY DEF NoveltyInv, TestsOK, Base, Layers, QueueInv, QueuesOK, InEvaluation
  <2> QED BY <1>1, <1>2, <2>1, <2>2, <2>3, LeftKept
<1>9. PruningOK' /\ ParentsFirst'
  BY <1>1, <1>2 DEF NoveltyInv, PruningOK, PruningIsStrict, ParentsFirst, HasParent, Parent
<1> QED BY <1>5, <1>6, <1>7, <1>8, <1>9 DEF NoveltyInv

\* A parent of the same type has gone through the tables of the test.
LEMMA ParentLeftItsTuples ==
    ASSUME Base, NoveltyInv, pc \in {"wgr1", "wgr2"}, stack = <<>>
    PROVE  /\ cur \in Queued /\ (UseR => relevant[cur] # None)
           /\ HasParent(cur) /\ ComplexType(cur) = ComplexType(Parent(cur)) =>
                /\ UseR /\ pc = "wgr1" =>
                     Entries(1, ComplexType(cur), node[Parent(cur)].state) \subseteq wgr1_table
                /\ pc = "wgr2" =>
                     Entries(2, ComplexType(cur), node[Parent(cur)].state) \subseteq wgr2_table
<1>1. /\ Bookkeeping /\ AtomSetsOK /\ cur \in Queued /\ cur \in Nodes /\ cur # 0
      /\ InEvaluation = {cur} /\ (pc = "wgr2" => NoveltyLevels = 3)
      /\ processed \subseteq Queued
  <2>1. /\ Bookkeeping /\ AtomSetsOK /\ cur \in Nodes /\ InEvaluation = {cur}
        /\ processed \subseteq Queued /\ InEvaluation \subseteq Queued
        /\ NoveltyLevels = 2 => pc # "wgr2"
    BY DEF Base, Layers, NoveltyInv, Bookkeeping, CursorOK, QueueInv, QueuesOK, InEvaluation
  <2> QED BY <2>1, NodeFacts, ConfigAssumption
<1>2. UseR => \A m \in {cur, Parent(cur)} \ {0} : relevant[m] # None
  <2>1. Len(stack) = 0
    OBVIOUS
  <2> QED BY <1>1, <2>1 DEF Bookkeeping, CallsOK
<1>3. ASSUME HasParent(cur), ComplexType(cur) = ComplexType(Parent(cur))
      PROVE  /\ Parent(cur) \in Queued /\ Parent(cur) # cur
             /\ Parent(cur) \notin IF pc = "wgr1" THEN qwgr1 ELSE qwgr2
  <2>1. Parent(cur) \in Nodes /\ Parent(cur) # 0 /\ Parent(cur) # cur
    BY <1>1, <1>3, NodeFacts
  <2>2. UseR => relevant[Parent(cur)] # None /\ relevant[cur] # None
    BY <1>1, <1>2, <2>1
  <2>3. node[cur].unachieved = node[Parent(cur)].unachieved
    BY <1>1, <1>3, <2>1, <2>2, SameTypeSameGoals
  <2>4. Parent(cur) \in processed
    BY <1>1, <1>3 DEF NoveltyInv, DepthsOK
  <2> QED BY <1>1, <1>3, <2>1, <2>3, <2>4 DEF NoveltyInv, ParentsFirst
<1>4. ASSUME HasParent(cur), ComplexType(cur) = ComplexType(Parent(cur))
      PROVE  /\ UseR /\ pc = "wgr1" =>
                  Entries(1, ComplexType(Parent(cur)), node[Parent(cur)].state) \subseteq wgr1_table
             /\ pc = "wgr2" =>
                  Entries(2, ComplexType(Parent(cur)), node[Parent(cur)].state) \subseteq wgr2_table
  <2>1. LeftInTables(Parent(cur))
    BY <1>3, <1>4 DEF NoveltyInv, TablesOK
  <2>2. pc = "wgr1" => w_gr[Parent(cur)] # "Unknown"
    BY <1>3, <1>4 DEF NoveltyInv, TestsOK
  <2> QED BY <1>1, <1>3, <1>4, <2>1, <2>2 DEF LeftInTables
<1> QED BY <1>1, <1>2, <1>4

\* Once evaluated, a node has left its tuples and is expanded only if it is novel.
LEMMA EvaluateKeepsNovelty ==
    ASSUME Base, NoveltyInv, pc \in {"wgr1", "wgr2"}, stack = <<>>, pc' = "loop",
           NEW w, w_gr' = [w_gr EXCEPT ![cur] = w], w # "Unknown",
           pc = "wgr1" => w \in {"One", "GTOne"},
           w_gr[cur] \in {"One", "Two"} => w \in {"One", "Two"},
           NEW novel, novel => w \in {"One", "Two"},
           NEW last \in BOOLEAN, Dispatch(cur, novel, last),
           UNCHANGED <<node, q1, qwgr1, qwgr2, relevant, wg1_table, cur>>,
           wgr1_table \subseteq wgr1_table', wgr2_table \subseteq wgr2_table',
           UseR => Entries(1, ComplexType(cur), node[cur].state) \subseteq wgr1_table',
           pc = "wgr2" => Entries(2, ComplexType(cur), node[cur].state) \subseteq wgr2_table'
    PROVE  NoveltyInv'
<1>1. /\ Bookkeeping /\ Nodes' = Nodes /\ Queued' = Queued
      /\ cur \in Queued /\ cur \in Nodes /\ InEvaluation = {cur} /\ InEvaluation' = {}
      /\ NoveltyLevels = 3 /\ pc = "wgr1" => cur \in qwgr2
      /\ UseR => relevant[cur] # None
  BY ParentLeftItsTuples DEF Base, Layers, QueueInv, QueuesOK, Nodes, Queued, InEvaluation
<1>2. /\ w_gr'[cur] = w
      /\ \A m \in Nodes : m # cur => w_gr'[m] = w_gr[m]
  <2>1. DOMAIN w_gr = Nodes
    BY <1>1, NodeFacts DEF Bookkeeping, TypeOK
  <2> QED BY <1>1, <2>1
<1>3. /\ processed' \in {processed, processed \cup {cur}}
      /\ cur \notin processed => (processed' # processed => novel)
      /\ Pruning => qrest' = qrest
  BY DEF Dispatch, ProcessNode, HandleUnprocessed
<1>4. AtomSetsOK' /\ DepthsOK'
  BY <1>1, <1>3, NodesKeepNovelty DEF NoveltyInv
<1>5. TestsOK'
  <2>1. Queued \subseteq Nodes /\ qwgr2 \subseteq Nodes
    BY DEF Queued, Base, Layers, Bookkeeping, TypeOK
  <2>2. \A n \in Queued : w_gr'[n] = "Unknown" <=> n \in qwgr1
    BY <1>1, <1>2, <2>1 DEF NoveltyInv, TestsOK
  <2>3. \A n \in qwgr2 : w_gr'[n] \in {"Unknown", "One", "GTOne"}
    BY <1>1, <1>2, <2>1 DEF NoveltyInv, TestsOK
  <2>4. UseR => \A n \in Queued : w_gr'[n] # "Unknown" => relevant[n] # None
    BY <1>1, <1>2, <2>1 DEF NoveltyInv, TestsOK
  <2> QED BY <1>1, <2>2, <2>3, <2>4 DEF TestsOK
<1>6. ASSUME NEW m \in Queued, m # cur PROVE LeftInTables(m)'
  <2>1. LeftInTables(m) /\ m \in Nodes
    BY DEF NoveltyInv, TablesOK, Queued
  <2> QED BY <1>1, <1>2, <1>6, <2>1, LeftKept
<1>7. LeftInTables(cur)'
  <2>1. LeftInTables(cur)
    BY <1>1 DEF NoveltyInv, TablesOK
  <2>2. ComplexType(cur)' = ComplexType(cur)
    BY DEF ComplexType, NumReached
  <2>3. Entries(1, node'[cur].unachieved, node'[cur].state) \subseteq wg1_table'
    BY <2>1 DEF LeftInTables
  <2>4. NoveltyLevels = 3 /\ cur \notin qwgr2' => pc = "wgr2"
    BY <1>1
  <2> QED BY <1>1, <2>2, <2>3, <2>4 DEF LeftInTables
<1>8. PruningOK'
  <2>1. processed \subseteq Nodes
    BY DEF Base, Layers, Bookkeeping, TypeOK
  <2>2. ASSUME Pruning, NEW n \in processed'
        PROVE  node[n].w_g = "One" \/ w_gr'[n] \in {"One", "Two"}
    <3>1. CASE n # cur
      BY <1>2, <1>3, <2>1, <2>2, <3>1 DEF NoveltyInv, PruningOK, PruningIsStrict
    <3>2. CASE n = cur /\ cur \in processed
      BY <1>2, <2>2, <3>2 DEF NoveltyInv, PruningOK, PruningIsStrict
    <3>3. CASE n = cur /\ cur \notin processed
      BY <1>2, <1>3, <2>2, <3>3
    <3> QED BY <3>1, <3>2, <3>3
  <2>3. /\ \A n \in q1' : node'[n].w_g = "One"
        /\ Pruning => qrest' = {}
    BY <1>3 DEF NoveltyInv, PruningOK
  <2> QED BY <2>2, <2>3 DEF PruningOK, PruningIsStrict
<1>9. TablesOK'
  BY <1>1, <1>6, <1>7 DEF TablesOK
<1> QED BY <1>4, <1>5, <1>8, <1>9 DEF NoveltyInv, ParentsFirst

LEMMA EvaluateWgr1KeepsNovelty ==
    ASSUME Base, NoveltyInv, EvaluateWgr1
    PROVE  NoveltyInv'
<1> DEFINE ty   == ComplexType(cur)
           s    == node[cur].state
           ps   == node[Parent(cur)].state
           same == HasParent(cur) /\ ty = ComplexType(Parent(cur))
           seen == IF UseR THEN TuplesToCheck(1, s, ps, same) ELSE {}
           one  == \E x \in seen : <<ty, x>> \notin wgr1_table
           w    == IF one THEN "One" ELSE "GTOne"
           last == NoveltyLevels = 2
<1>1. /\ pc = "wgr1" /\ stack = <<>> /\ pc' = "loop"
      /\ wgr1_table' = wgr1_table \cup {<<ty, x>> : x \in seen}
      /\ w_gr' = [w_gr EXCEPT ![cur] = w]
      /\ Dispatch(cur, one, last)
      /\ UNCHANGED <<node, q1, qwgr1, qwgr2, relevant, wg1_table, wgr2_table, cur>>
  BY DEF EvaluateWgr1, TuplesOfType
<1>2. same /\ UseR => Entries(1, ty, ps) \subseteq wgr1_table
  BY <1>1, ParentLeftItsTuples
<1>3. wgr1_table \subseteq wgr1_table' /\ (UseR => Entries(1, ty, s) \subseteq wgr1_table')
  <2>1. wgr1_table \subseteq wgr1_table'
    BY <1>1
  <2>2. UseR => \A x \in TuplesToCheck(1, s, ps, same) : <<ty, x>> \in wgr1_table'
    <3>1. UseR => seen = TuplesToCheck(1, s, ps, same)
      OBVIOUS
    <3> HIDE DEF seen, ty
    <3>2. \A x \in seen : <<ty, x>> \in wgr1_table'
      BY <1>1
    <3> QED BY <3>1, <3>2
  <2> HIDE DEF ty, s, ps, same, seen
  <2> QED BY <1>2, <2>1, <2>2, LeavesTuples
<1>4. w_gr[cur] = "Unknown"
  BY <1>1, ParentLeftItsTuples DEF NoveltyInv, TestsOK
<1>5. w \in {"One", "GTOne"} /\ (one => w = "One") /\ last \in BOOLEAN
  OBVIOUS
<1> HIDE DEF one, w, last, seen, same
<1> QED BY <1>1, <1>3, <1>4, <1>5, EvaluateKeepsNovelty

LEMMA EvaluateWgr2KeepsNovelty ==
    ASSUME Base, NoveltyInv, EvaluateWgr2
    PROVE  NoveltyInv'
<1> DEFINE ty   == ComplexType(cur)
           s    == node[cur].state
           ps   == node[Parent(cur)].state
           same == HasParent(cur) /\ ty = ComplexType(Parent(cur))
           seen == TuplesToCheck(2, s, ps, same)
           two  == \E x \in seen : <<ty, x>> \notin wgr2_table
           w    == IF w_gr[cur] = "One" THEN w_gr[cur] ELSE IF two THEN "Two" ELSE "GTTwo"
<1>1. /\ pc = "wgr2" /\ stack = <<>> /\ pc' = "loop"
      /\ wgr2_table' = wgr2_table \cup {<<ty, x>> : x \in seen}
      /\ w_gr' = [w_gr EXCEPT ![cur] = w]
      /\ Dispatch(cur, two, TRUE)
      /\ UNCHANGED <<node, q1, qwgr1, qwgr2, relevant, wg1_table, wgr1_table, cur>>
  BY DEF EvaluateWgr2, TuplesOfType
<1>2. same => Entries(2, ty, ps) \subseteq wgr2_table
  BY <1>1, ParentLeftItsTuples
<1>3. wgr2_table \subseteq wgr2_table' /\ Entries(2, ty, s) \subseteq wgr2_table'
  <2>1. wgr2_table \subseteq wgr2_table'
    BY <1>1
  <2>2. \A x \in TuplesToCheck(2, s, ps, same) : <<ty, x>> \in wgr2_table'
    BY <1>1
  <2> HIDE DEF ty, s, ps, same, seen
  <2> QED BY <1>2, <2>1, <2>2, LeavesTuples
<1>4. cur \in Queued /\ w_gr[cur] \in {"One", "GTOne"}
  BY <1>1, ParentLeftItsTuples DEF NoveltyInv, TestsOK
<1>5. UseR => Entries(1, ty, s) \subseteq wgr1_table'
  <2>1. LeftInTables(cur)
    BY <1>4 DEF NoveltyInv, TablesOK
  <2> QED BY <1>1, <1>4, <2>1 DEF LeftInTables
<1>6. /\ w # "Unknown" /\ (two => w \in {"One", "Two"})
      /\ w_gr[cur] \in {"One", "Two"} => w \in {"One", "Two"}
  BY <1>4
<1> HIDE DEF two, w, seen, same
<1> QED BY <1>1, <1>3, <1>5, <1>6, EvaluateKeepsNovelty

-----------------------------------------------------------------------------
(* The other steps, and the invariant *)

LEMMA CreateRootKeepsNovelty ==
    ASSUME Base, NoveltyInv, CreateRoot
    PROVE  NoveltyInv'
<1>1. ComesFrom(task.init, None, 0)
  BY TasksAssumption DEF ComesFrom, Base, Layers, Bookkeeping, TypeOK, TaskType
<1> QED BY <1>1, CreationKeepsNovelty DEF CreateRoot

LEMMA GenerateKeepsNovelty ==
    ASSUME Base, NoveltyInv, Generate
    PROVE  NoveltyInv'
<1>1. PICK a \in pending :
        IF Known(NextState(node[cur].state, a))
        THEN UNCHANGED <<node, queues, w_gr, relevant, wg1_table>>
        ELSE CreateNode(NextState(node[cur].state, a), a, cur)
  BY DEF Generate
<1>2. UNCHANGED <<task, pc, cur, processed, wgr1_table, wgr2_table>>
  BY DEF Generate
<1>3. /\ cur \in Nodes /\ cur # 0 /\ pc = "loop"
      /\ ComesFrom(NextState(node[cur].state, a), a, cur)
  BY GeneratedFrom DEF Base, Layers
<1>4. cur \in processed
  BY <1>1 DEF Base, ExplorationInv, ExploredOK
<1>5. CASE Known(NextState(node[cur].state, a))
  <2>1. UNCHANGED <<node, w_gr, relevant, tables, q1, qwgr1, qwgr2, qrest>>
    BY <1>1, <1>2, <1>5 DEF queues, tables
  <2> QED BY <1>2, <2>1, StillKeepsNovelty
<1>6. CASE ~Known(NextState(node[cur].state, a))
  BY <1>1, <1>2, <1>3, <1>4, <1>6, CreationKeepsNovelty
<1> QED BY <1>5, <1>6

LEMMA PopKeepsNovelty ==
    ASSUME Base, NoveltyInv, PopQ1 \/ PopQrest
    PROVE  NoveltyInv'
<1>1. CASE PopQ1
  <2>1. PICK n \in q1 : q1' = q1 \ {n} /\ ProcessNode(n)
    BY <1>1 DEF PopQ1, Best, Dequeue
  <2> QED BY <1>1, <2>1, StillKeepsNovelty DEF PopQ1, TurnOfQ1, Idle, ProcessNode
<1>2. CASE PopQrest
  <2>1. PICK n \in qrest : qrest' = qrest \ {n} /\ processed' \in {processed, processed \cup {n}}
    BY <1>2 DEF PopQrest, Best, Dequeue, ProcessNode
  <2> QED BY <1>2, <2>1, StillKeepsNovelty DEF PopQrest, TurnOfQrest, Idle
<1> QED BY <1>1, <1>2

LEMMA AnsweringKeepsNovelty ==
    ASSUME Base, NoveltyInv, NoPlan \/ StartExtraction \/ ExtractAction \/ PlanExtracted
    PROVE  NoveltyInv'
<1>1. /\ UNCHANGED <<node, processed, queues, w_gr, relevant, tables>>
      /\ pc \notin {"wgr1", "wgr2"} /\ pc' \notin {"wgr1", "wgr2"}
  BY DEF NoPlan, AllEmpty, Idle, StartExtraction, ExtractAction, PlanExtracted
<1>2. UNCHANGED <<q1, qwgr1, qwgr2, qrest>>
  BY <1>1 DEF queues
<1> QED BY <1>1, <1>2, StillKeepsNovelty

LEMMA NoveltyInit ==
    ASSUME Init
    PROVE  NoveltyInv
<1>1. Nodes = {} /\ Queued = {} /\ q1 = {} /\ qwgr1 = {} /\ qwgr2 = {} /\ qrest = {} /\ pc = "start"
  BY DEF Init, Nodes, Queued
<1> QED BY <1>1 DEF Init, NoveltyInv, AtomSetsOK, DepthsOK, TestsOK, ParentsFirst, TablesOK,
                    PruningOK, PruningIsStrict

LEMMA NoveltyStep ==
    ASSUME Base, NoveltyInv, [Next]_vars
    PROVE  NoveltyInv'
<1>1. CASE UNCHANGED vars
  BY <1>1, StillKeepsNovelty DEF vars, queues
<1>2. CASE Terminating
  BY <1>1, <1>2 DEF Terminating
<1> QED BY <1>1, <1>2, CreateRootKeepsNovelty, PopKeepsNovelty, PopQwgr1KeepsNovelty,
           PopQwgr2KeepsNovelty, GenerateKeepsNovelty, ComputeRKeepsNovelty,
           EvaluateWgr1KeepsNovelty, EvaluateWgr2KeepsNovelty, AnsweringKeepsNovelty DEF Next

LEMMA NoveltyInvariant == Spec => [](Base /\ NoveltyInv)
<1>1. Base /\ NoveltyInv /\ [Next]_vars => NoveltyInv'
  BY NoveltyStep
<1>2. Base <=> Layers /\ ExplorationInv
  BY DEF Base
<1> QED BY <1>1, <1>2, NoveltyInit, ExplorationInvariant, PTL DEF Spec

-----------------------------------------------------------------------------
(***************************************************************************)
(* Looking only at the tuples that are new since the parent loses nothing: *)
(* whatever a node should have left in the tables of its types is there,   *)
(* and each test is done once and in its turn.                             *)
(***************************************************************************)
THEOREM TablesAreComplete == Spec => []NoveltyTablesComplete
<1>1. Base /\ NoveltyInv => NoveltyTablesComplete
  <2> SUFFICES ASSUME Base, NoveltyInv PROVE NoveltyTablesComplete
    OBVIOUS
  <2>1. pc = "wgr1" => w_gr[cur] = "Unknown"
    <3>1. pc = "wgr1" => cur \in Queued
      BY DEF Base, Layers, QueueInv, QueuesOK, InEvaluation
    <3> QED BY <3>1 DEF NoveltyInv, TestsOK
  <2>2. pc = "wgr2" => w_gr[cur] \in {"One", "GTOne"}
    BY DEF NoveltyInv, TestsOK
  <2>3. \A n \in Queued : LeftInTables(n)
    BY DEF NoveltyInv, TablesOK
  <2> QED BY <2>1, <2>2, <2>3 DEF NoveltyTablesComplete, LeftInTables
<1> QED BY <1>1, NoveltyInvariant, PTL

(***************************************************************************)
(* The cached sets, derived from each other in the order of the queues,    *)
(* count what was reached on the path since #g last decreased.             *)
(***************************************************************************)
THEOREM CountersAreExact == Spec => []RelevantCountExact
<1>1. Base /\ NoveltyInv => RelevantCountExact
  BY CountExact DEF Base, Layers, NoveltyInv
<1> QED BY <1>1, NoveltyInvariant, PTL

\* With pruning only nodes that passed a novelty test are expanded.
THEOREM PruningAlwaysStrict == Spec => []PruningIsStrict
<1>1. NoveltyInv => PruningIsStrict
  BY DEF NoveltyInv, PruningOK
<1> QED BY <1>1, NoveltyInvariant, PTL
=============================================================================
