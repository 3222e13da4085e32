---------------------------- MODULE IWRun_proofs -----------------------------
(***************************************************************************)
(* Proofs about IWRun: the bookkeeping of a run, the guarantee of IW(k) -  *)
(* every subgoal of width at most k is reached on a shortest path - and    *)
(* the atoms that the simulation reports as relevant.                      *)
(***************************************************************************)
EXTENDS IWRun, PlanningTask_proofs

-----------------------------------------------------------------------------
(* The inductive invariant *)

\* What holds before the first run, and whose actions are pending.
CursorOK ==
    /\ pc = "compute_R" => width = 0
    /\ width = 0 => /\ pc \in {"compute_R", "done"} /\ node = <<>> /\ table = {}
                    /\ open_w1 = <<>> /\ open_w2 = <<>>
                    /\ open_w1_next = <<>> /\ open_w2_next = <<>>
    /\ width # 0 => width <= config.max_width /\ node # <<>> /\ config.method # "r_all"
    /\ pending # {} => /\ pc = "run" /\ current \in Nodes
                       /\ pending \subseteq ApplicableActions(task, node[current].state)

\* The nodes are a tree of successors with the seed at its root.
NodesOK ==
    \A n \in Nodes :
        /\ node[n].parent \in 0..(n-1)
        /\ HasParent(n) <=> n # 1
        /\ HasParent(n) => /\ node[n].g = node[node[n].parent].g + 1
                           /\ node[n].state \in Successors(task, node[node[n].parent].state)
        /\ ~HasParent(n) => node[n].g = 0 /\ node[n].state = task.init

\* The nodes that were not pruned have different states.
Kept == Explored \cup OpenNodes \cup (IF pending = {} THEN {} ELSE {current})
KeptOnce == \A m, n \in Kept : node[m].state = node[n].state => m = n

Reaching(g) == {n \in Nodes : HoldsIn(g, node[n].state)}

\* A subgoal is reached by the first node in which it holds.
GoalsOK ==
    width # 0 =>
        /\ in_seed = {g \in Subgoals : HoldsIn(g, task.init)}
        /\ \A g \in Subgoals \ in_seed :
             /\ g \in unreached <=> Reaching(g) = {}
             /\ optimal[g] = 0 <=> Reaching(g) = {}
             /\ optimal[g] # 0 => optimal[g] \in Reaching(g)
             /\ \A n \in Reaching(g) : optimal[g] <= n

DepthsGrow == \A m, n \in Nodes : m <= n => node[m].g <= node[n].g

\* x was first reached by node n; the novelty of n was at most the width.
FirstWith(n, x) ==
    /\ n \in Nodes /\ x \subseteq AtomsOf(node[n].state)
    /\ \A m \in Nodes : m < n => ~(x \subseteq AtomsOf(node[m].state))

Novel(n) == \E k \in 1..width : \E x \in Tuples(k, node[n].state) : FirstWith(n, x)

Child(n, a) ==
    \E m \in Nodes : node[m].parent = n /\ node[m].state = NextState(node[n].state, a)

Expanded(n) ==
    \A a \in ApplicableActions(task, node[n].state) : (n = current /\ a \in pending) \/ Child(n, a)

(***************************************************************************)
(* The run is expanding the nodes of depth L: a novel node waits in a      *)
(* queue or was expanded, unless the run stopped first at the last subgoal.*)
(***************************************************************************)
AtLevel(L) ==
    /\ \A n \in ToSet(open_w1) \cup ToSet(open_w2) : node[n].g = L
    /\ \A n \in ToSet(open_w1_next) \cup ToSet(open_w2_next) : node[n].g = L + 1
    /\ pending # {} => node[current].g = L
    /\ \A n \in Nodes : node[n].g <= L + 1
    /\ \A n \in Nodes : Novel(n) =>
          \/ n \in OpenNodes
          \/ Expanded(n)
          \/ pc = "extract" /\ unreached = {} /\ node[n].g >= L

LevelsOK == pc \in {"run", "extract"} => \E L \in Nat : AtLevel(L)

StopOK == pc = "extract" => pending = {} /\ (unreached = {} \/ OpenNodes = {})

Base == TypeOK /\ CursorOK /\ NodesOK
IInv == /\ Base /\ TableIsHistory /\ KeptOnce /\ GoalsOK /\ DepthsGrow
        /\ LevelsOK /\ StopOK /\ RelevantPaths

-----------------------------------------------------------------------------
(* Facts about states, nodes and queues *)

LEMMA TaskTypes ==
    ASSUME TypeOK
    PROVE  /\ task \in TaskType /\ task.init \in State /\ task.actions \subseteq Action
           /\ Subgoals \subseteq Vars
           /\ config \in ConfigType /\ config.max_width \in {1, 2}
           /\ config.method = "adaptive" => config.max_width = 2
<1>1. task \in TaskType /\ config \in Configs
  BY TasksAssumption DEF TypeOK
<1>2. config \in ConfigType /\ (config.method = "adaptive" => config.max_width = 2)
  BY <1>1, ConfigsAssumption
<1>3. config.max_width \in {1, 2}
  BY <1>2 DEF ConfigType
<1>4. Subgoals \subseteq Vars
  BY <1>1 DEF Subgoals, TaskType, PartialAssignment
<1> QED BY <1>1, <1>2, <1>3, <1>4, TaskFacts

LEMMA NodeTypes ==
    ASSUME TypeOK
    PROVE  /\ Nodes = 1..Len(node) /\ Len(node) \in Nat
           /\ \A n \in Nodes : /\ node[n] \in NodeType /\ node[n].state \in State
                               /\ node[n].parent \in Nat /\ node[n].g \in Nat
<1>1. Nodes = 1..Len(node) /\ Len(node) \in Nat /\ \A n \in Nodes : node[n] \in NodeType
  BY LenProperties, ElementOfSeq DEF TypeOK, Nodes
<1> QED BY <1>1 DEF NodeType

LEMMA AtomsOfState ==
    ASSUME NEW s \in State
    PROVE  AtomsOf(s) \subseteq Atom
BY DEF AtomsOf, Atom, State

\* Node n is a new one, the k-th, and what it is.
Appended(k, s) ==
    /\ k \in Nat /\ Nodes = 1..(k-1) /\ Nodes' = 1..k
    /\ node' \in Seq(NodeType)
    /\ \A n \in Nodes : node'[n] = node[n]
    /\ node'[k].state = s /\ node'[k].parent = current /\ node'[k].g = node[current].g + 1

Generated(a, s, k) ==
    /\ current \in Nodes /\ a \in pending /\ a \in Action
    /\ a \in ApplicableActions(task, node[current].state)
    /\ s = NextState(node[current].state, a) /\ s \in State
    /\ Appended(k, s)
    /\ table' = table \cup Checked(s, current)
    /\ ProcessNode(k, s)
    /\ \/ unreached' = {} /\ pending' = {} /\ pc' = "extract" /\ UNCHANGED open
       \/ /\ unreached' # {} /\ pending' = pending \ {a} /\ pc' = "run"
          /\ Enqueue(k, NoveltyOf(Checked(s, current)))
    /\ pc = "run"
    /\ UNCHANGED <<task, config, width, current, R>>

LEMMA GenerateFacts ==
    ASSUME Base, Generate
    PROVE  \E a, s, k : Generated(a, s, k)
<1>1. PICK a \in pending :
         LET s == NextState(node[current].state, a)
             n == Len(node) + 1
             X == Checked(s, current)
         IN  /\ node' = Append(node, [state |-> s, parent |-> current,
                                      g |-> node[current].g + 1, nov2 |-> {}])
             /\ table' = table \cup X
             /\ ProcessNode(n, s)
             /\ IF unreached' = {}
                THEN pending' = {} /\ pc' = "extract" /\ UNCHANGED open
                ELSE pending' = pending \ {a} /\ Enqueue(n, NoveltyOf(X)) /\ UNCHANGED pc
  BY DEF Generate
<1> DEFINE s   == NextState(node[current].state, a)
           k   == Len(node) + 1
           new == [state |-> s, parent |-> current, g |-> node[current].g + 1, nov2 |-> {}]
<1>2. /\ current \in Nodes /\ a \in ApplicableActions(task, node[current].state)
      /\ UNCHANGED <<task, config, width, current, R>> /\ pc = "run"
  BY DEF Generate, Base, CursorOK
<1>3. a \in Action /\ s \in State
  BY <1>2, TaskTypes, NodeTypes, TaskFacts DEF Base
<1>4. Appended(k, s)
  <2>1. new \in NodeType
    BY <1>2, <1>3, NodeTypes DEF Base, NodeType
  <2>2. node \in Seq(NodeType) /\ node' = Append(node, new)
    BY <1>1 DEF Base, TypeOK
  <2>3. new.state = s /\ new.parent = current /\ new.g = node[current].g + 1
    OBVIOUS
  <2> HIDE DEF new, s
  <2>4. /\ node' \in Seq(NodeType) /\ Len(node') = k /\ Len(node) \in Nat
        /\ \A n \in 1..Len(node) : node'[n] = node[n]
        /\ node'[k] = new
    BY <2>1, <2>2, AppendProperties, LenProperties
  <2> QED BY <2>2, <2>3, <2>4, LenProperties DEF Appended, Nodes
<1>5. /\ table' = table \cup Checked(s, current)
      /\ ProcessNode(k, s)
      /\ \/ unreached' = {} /\ pending' = {} /\ pc' = "extract" /\ UNCHANGED open
         \/ /\ unreached' # {} /\ pending' = pending \ {a} /\ pc' = "run"
            /\ Enqueue(k, NoveltyOf(Checked(s, current)))
  <2> HIDE DEF s, k
  <2> QED BY <1>1, <1>2 DEF s, k
<1> HIDE DEF s, k
<1>6. s = NextState(node[current].state, a)
  BY DEF s
<1> QED BY <1>2, <1>3, <1>4, <1>5, <1>6 DEF Generated

LEMMA QueueFacts ==
    ASSUME NEW S, NEW q \in Seq(S)
    PROVE  /\ ToSet(q) \subseteq S
           /\ q # <<>> => /\ Head(q) \in ToSet(q) /\ Tail(q) \in Seq(S)
                          /\ ToSet(q) = {Head(q)} \cup ToSet(Tail(q))
           /\ q = <<>> <=> ToSet(q) = {}
<1>1. Len(q) \in Nat /\ DOMAIN q = 1..Len(q) /\ \A i \in 1..Len(q) : q[i] \in S
  BY LenProperties, ElementOfSeq
<1>2. ToSet(q) \subseteq S
  BY <1>1 DEF ToSet
<1>3. ASSUME q # <<>>
      PROVE  /\ Head(q) \in ToSet(q) /\ Tail(q) \in Seq(S)
             /\ ToSet(q) = {Head(q)} \cup ToSet(Tail(q))
  <2>1. /\ Tail(q) \in Seq(S) /\ Len(Tail(q)) = Len(q) - 1 /\ Len(q) >= 1
        /\ \A i \in 1..Len(Tail(q)) : Tail(q)[i] = q[i+1]
        /\ Head(q) = q[1] /\ DOMAIN Tail(q) = 1..(Len(q) - 1)
    BY <1>1, <1>3, HeadTailProperties, EmptySeq, LenProperties
  <2>2. \A i \in 1..Len(q) : i = 1 \/ (i - 1 \in 1..(Len(q) - 1) /\ q[i] = Tail(q)[i-1])
    BY <1>1, <2>1
  <2>3. \A i \in 1..(Len(q) - 1) : i + 1 \in 1..Len(q) /\ Tail(q)[i] = q[i+1]
    BY <1>1, <2>1
  <2>4. 1 \in 1..Len(q)
    BY <1>1, <2>1
  <2>5. ToSet(q) \subseteq {Head(q)} \cup ToSet(Tail(q))
    <3> SUFFICES ASSUME NEW i \in 1..Len(q) PROVE q[i] \in {Head(q)} \cup ToSet(Tail(q))
      BY <1>1 DEF ToSet
    <3>1. CASE i = 1
      BY <2>1, <3>1
    <3>2. CASE i # 1
      <4>1. i - 1 \in DOMAIN Tail(q) /\ q[i] = Tail(q)[i-1]
        BY <2>1, <2>2, <3>2
      <4> QED BY <4>1 DEF ToSet
    <3> QED BY <3>1, <3>2
  <2>6. Head(q) \in ToSet(q)
    BY <1>1, <2>1, <2>4 DEF ToSet
  <2>7. ToSet(Tail(q)) \subseteq ToSet(q)
    BY <1>1, <2>1, <2>3 DEF ToSet
  <2> QED BY <2>1, <2>5, <2>6, <2>7
<1>4. q = <<>> => ToSet(q) = {}
  BY DEF ToSet
<1> QED BY <1>2, <1>3, <1>4

LEMMA AppendFacts ==
    ASSUME NEW S, NEW q \in Seq(S), NEW x \in S
    PROVE  Append(q, x) \in Seq(S) /\ ToSet(Append(q, x)) = ToSet(q) \cup {x}
<1>1. /\ Append(q, x) \in Seq(S) /\ Len(Append(q, x)) = Len(q) + 1 /\ Len(q) \in Nat
      /\ DOMAIN q = 1..Len(q) /\ DOMAIN Append(q, x) = 1..(Len(q) + 1)
      /\ \A i \in 1..Len(q) : Append(q, x)[i] = q[i]
      /\ Append(q, x)[Len(q) + 1] = x
  BY AppendProperties, LenProperties
<1>2. \A i \in 1..(Len(q) + 1) : i \in 1..Len(q) \/ i = Len(q) + 1
  BY <1>1
<1>3. Len(q) + 1 \in 1..(Len(q) + 1) /\ 1..Len(q) \subseteq 1..(Len(q) + 1)
  BY <1>1
<1> QED BY <1>1, <1>2, <1>3 DEF ToSet

LEMMA OpenFacts ==
    OpenNodes = ToSet(open_w1) \cup ToSet(open_w2) \cup ToSet(open_w1_next) \cup ToSet(open_w2_next)
BY DEF OpenNodes

-----------------------------------------------------------------------------
(* Types, cursor and nodes *)

LEMMA InitBase ==
    ASSUME Init
    PROVE  Base
<1>1. node \in Seq(NodeType) /\ Nodes = {} /\ open_w1 \in Seq(Nodes) /\ optimal \in [Subgoals -> Nodes \cup {0}]
  BY EmptySeq DEF Init, Nodes
<1> QED BY <1>1 DEF Init, Base, TypeOK, CursorOK, NodesOK

\* A node that waits for the next level, if its novelty is within the width.
LEMMA EnqueueFacts ==
    ASSUME TypeOK, NEW k, NEW w, NEW S, Nodes \subseteq S, k \in S, Enqueue(k, w)
    PROVE  /\ open_w1_next' \in Seq(S) /\ open_w2_next' \in Seq(S)
           /\ open_w1' = open_w1 /\ open_w2' = open_w2
           /\ LET queued == w = 1 \/ (w = 2 /\ w <= width)
                  new    == IF queued THEN {k} ELSE {}
              IN  /\ ToSet(open_w1_next') \cup ToSet(open_w2_next')
                       = ToSet(open_w1_next) \cup ToSet(open_w2_next) \cup new
                  /\ OpenNodes' = OpenNodes \cup new
<1>1. open_w1_next \in Seq(S) /\ open_w2_next \in Seq(S)
  BY SeqMonotonic DEF TypeOK
<1>2. /\ open_w1_next' = IF w = 1 THEN Append(open_w1_next, k) ELSE open_w1_next
      /\ open_w2_next' = IF w = 2 /\ w <= width THEN Append(open_w2_next, k) ELSE open_w2_next
      /\ open_w1' = open_w1 /\ open_w2' = open_w2
  BY DEF Enqueue
<1>3. /\ open_w1_next' \in Seq(S)
      /\ ToSet(open_w1_next') = ToSet(open_w1_next) \cup (IF w = 1 THEN {k} ELSE {})
  BY <1>1, <1>2, AppendFacts
<1>4. /\ open_w2_next' \in Seq(S)
      /\ ToSet(open_w2_next') = ToSet(open_w2_next) \cup (IF w = 2 /\ w <= width THEN {k} ELSE {})
  BY <1>1, <1>2, AppendFacts
<1>5. OpenNodes' = ToSet(open_w1') \cup ToSet(open_w2') \cup ToSet(open_w1_next') \cup ToSet(open_w2_next')
  BY DEF OpenNodes
<1> QED BY <1>2, <1>3, <1>4, <1>5, OpenFacts

LEMMA GenerateKeepsBase ==
    ASSUME Base, NEW a, NEW s, NEW k, Generated(a, s, k)
    PROVE  Base'
<1>1. /\ current \in Nodes /\ s \in State /\ Appended(k, s) /\ task' = task
      /\ a \in ApplicableActions(task, node[current].state)
      /\ s = NextState(node[current].state, a)
  BY DEF Generated
<1>2. /\ k \in Nat /\ Nodes = 1..(k-1) /\ Nodes' = 1..k /\ node' \in Seq(NodeType)
      /\ \A n \in Nodes : node'[n] = node[n]
      /\ node'[k].state = s /\ node'[k].parent = current /\ node'[k].g = node[current].g + 1
  BY <1>1 DEF Appended
<1>3. Nodes' = Nodes \cup {k} /\ k \notin Nodes /\ Nodes \subseteq Nodes' /\ k # 0 /\ k \in Nodes'
  BY <1>1, <1>2
<1>4. TypeOK'
  <2>1. /\ open_w1 \in Seq(Nodes') /\ open_w2 \in Seq(Nodes')
        /\ open_w1_next \in Seq(Nodes') /\ open_w2_next \in Seq(Nodes')
    BY <1>3, SeqMonotonic DEF Base, TypeOK
  <2>2. /\ open_w1' \in Seq(Nodes') /\ open_w2' \in Seq(Nodes')
        /\ open_w1_next' \in Seq(Nodes') /\ open_w2_next' \in Seq(Nodes')
    <3>1. CASE UNCHANGED open
      BY <2>1, <3>1 DEF open
    <3>2. CASE Enqueue(k, NoveltyOf(Checked(s, current)))
      BY <1>3, <2>1, <3>2, EnqueueFacts DEF Base
    <3> QED BY <3>1, <3>2 DEF Generated
  <2>3. /\ unreached' \subseteq Subgoals \ in_seed /\ in_seed' = in_seed
        /\ optimal' \in [Subgoals -> Nodes' \cup {0}]
    BY <1>3 DEF Generated, ProcessNode, Base, TypeOK
  <2>4. pending' \subseteq pending /\ pc' \in {"run", "extract"}
    BY DEF Generated
  <2>5. UNCHANGED <<task, config, width, current, R>>
    BY DEF Generated
  <2> QED BY <1>2, <1>3, <2>2, <2>3, <2>4, <2>5 DEF Base, TypeOK, Subgoals
<1>5. CursorOK'
  <2>1. node' # <<>>
    BY <1>3 DEF Nodes
  <2>2. /\ width # 0 /\ pc' \in {"run", "extract"} /\ width' = width /\ config' = config
        /\ pending' \subseteq pending /\ current' = current /\ (pending' # {} => pc' = "run")
    BY DEF Generated, Base, CursorOK
  <2>3. node'[current].state = node[current].state
    BY <1>1, <1>2
  <2> QED BY <1>1, <1>3, <2>1, <2>2, <2>3 DEF Base, CursorOK
<1>6. NodesOK'
  <2>1. ASSUME NEW n \in Nodes
        PROVE  /\ node'[n].parent \in 0..(n-1)
               /\ HasParent(n)' <=> n # 1
               /\ HasParent(n)' => /\ node'[n].g = node'[node'[n].parent].g + 1
                                   /\ node'[n].state \in Successors(task, node'[node'[n].parent].state)
               /\ ~HasParent(n)' => node'[n].g = 0 /\ node'[n].state = task.init
    <3>1. HasParent(n) => node[n].parent \in Nodes
      BY <1>2 DEF Base, NodesOK, HasParent
    <3>2. node'[n] = node[n] /\ (HasParent(n)' <=> HasParent(n))
      BY <1>2 DEF HasParent
    <3>3. HasParent(n) => node'[node[n].parent] = node[node[n].parent]
      BY <1>2, <3>1
    <3>4. /\ node[n].parent \in 0..(n-1)
          /\ HasParent(n) <=> n # 1
          /\ HasParent(n) => /\ node[n].g = node[node[n].parent].g + 1
                             /\ node[n].state \in Successors(task, node[node[n].parent].state)
          /\ ~HasParent(n) => node[n].g = 0 /\ node[n].state = task.init
      BY DEF Base, NodesOK
    <3> QED BY <3>2, <3>3, <3>4
  <2>2. /\ node'[k].parent \in 0..(k-1) /\ HasParent(k)' /\ k # 1
        /\ node'[k].g = node'[node'[k].parent].g + 1
        /\ node'[k].state \in Successors(task, node'[node'[k].parent].state)
    BY <1>1, <1>2 DEF HasParent, Successors
  <2> QED BY <1>1, <1>3, <2>1, <2>2 DEF NodesOK
<1> QED BY <1>4, <1>5, <1>6 DEF Base

LEMMA ExpandFacts ==
    ASSUME Base, Expand
    PROVE  /\ current' \in Nodes /\ current' \in ToSet(open_w1) \cup ToSet(open_w2)
           /\ pending' = ApplicableActions(task, node[current'].state)
           /\ ToSet(open_w1') \cup ToSet(open_w2') \cup {current'} = ToSet(open_w1) \cup ToSet(open_w2)
           /\ OpenNodes = OpenNodes' \cup {current'}
           /\ open_w1' \in Seq(Nodes) /\ open_w2' \in Seq(Nodes)
           /\ pc = "run" /\ pending = {}
           /\ UNCHANGED <<task, config, pc, width, node, table, open_w1_next, open_w2_next, goals, R>>
<1>1. /\ pending' = ApplicableActions(task, node[current'].state) /\ pc = "run" /\ pending = {}
      /\ UNCHANGED <<task, config, pc, width, node, table, open_w1_next, open_w2_next, goals, R>>
  BY DEF Expand
<1>2. open_w1 \in Seq(Nodes) /\ open_w2 \in Seq(Nodes)
  BY DEF Base, TypeOK
<1>3. /\ current' \in ToSet(open_w1) \cup ToSet(open_w2)
      /\ ToSet(open_w1') \cup ToSet(open_w2') \cup {current'} = ToSet(open_w1) \cup ToSet(open_w2)
      /\ open_w1' \in Seq(Nodes) /\ open_w2' \in Seq(Nodes)
  <2>1. CASE open_w1 # <<>>
    <3>1. current' = Head(open_w1) /\ open_w1' = Tail(open_w1) /\ open_w2' = open_w2
      BY <2>1 DEF Expand
    <3> QED BY <1>2, <2>1, <3>1, QueueFacts
  <2>2. CASE open_w1 = <<>> /\ open_w2 # <<>>
    <3>1. current' = Head(open_w2) /\ open_w2' = Tail(open_w2) /\ open_w1' = open_w1
      BY <2>2 DEF Expand
    <3> QED BY <1>2, <2>2, <3>1, QueueFacts
  <2> QED BY <2>1, <2>2 DEF Expand
<1>4. current' \in Nodes
  BY <1>2, <1>3, QueueFacts
<1>5. OpenNodes' = ToSet(open_w1') \cup ToSet(open_w2') \cup ToSet(open_w1_next) \cup ToSet(open_w2_next)
  BY <1>1 DEF OpenNodes
<1> QED BY <1>1, <1>3, <1>4, <1>5, OpenFacts

LEMMA NextLevelFacts ==
    ASSUME NextLevel
    PROVE  /\ ToSet(open_w1') \cup ToSet(open_w2') = ToSet(open_w1_next) \cup ToSet(open_w2_next)
           /\ ToSet(open_w1_next') \cup ToSet(open_w2_next') = {}
           /\ OpenNodes' = OpenNodes
           /\ pc' = "extract" => OpenNodes' = {}
           /\ pc = "run" /\ pc' \in {"run", "extract"} /\ pending = {} /\ pending' = {}
           /\ UNCHANGED <<task, config, width, node, table, current, pending, goals, R>>
<1>1. /\ open_w1 = <<>> /\ open_w2 = <<>> /\ open_w1' = open_w1_next /\ open_w2' = open_w2_next
      /\ open_w1_next' = <<>> /\ open_w2_next' = <<>>
      /\ pc = "run" /\ pc' \in {"run", "extract"} /\ pending = {} /\ pending' = {}
      /\ pc' = "extract" => open_w1_next = <<>> /\ open_w2_next = <<>>
      /\ UNCHANGED <<task, config, width, node, table, current, pending, goals, R>>
  BY DEF NextLevel
<1>2. ToSet(<<>>) = {}
  BY DEF ToSet
<1>3. OpenNodes' = ToSet(open_w1') \cup ToSet(open_w2') \cup ToSet(open_w1_next') \cup ToSet(open_w2_next')
  BY DEF OpenNodes
<1> QED BY <1>1, <1>2, <1>3, OpenFacts

\* A step that leaves the nodes alone.
LEMMA SameNodes ==
    ASSUME NodesOK, UNCHANGED <<task, node>>
    PROVE  NodesOK'
BY DEF NodesOK, Nodes, HasParent

\* What the seed of a run of width w is.
Started(w) ==
    /\ node' = <<[state |-> task.init, parent |-> 0, g |-> 0, nov2 |-> {}]>>
    /\ table' = Checked(task.init, 0)
    /\ width' = w /\ pc' = "run" /\ current' = 0 /\ pending' = {}
    /\ open_w1' = <<1>> /\ open_w2' = <<>> /\ open_w1_next' = <<>> /\ open_w2_next' = <<>>
    /\ in_seed' = {g \in Subgoals : HoldsIn(g, task.init)}
    /\ unreached' = Subgoals \ in_seed'
    /\ optimal' = [g \in Subgoals |-> 0]
    /\ UNCHANGED <<task, config, R>>

\* The set that Extract returns, or the width of the run that it starts.
ExtractedSet ==
    CASE config.method = "plain" /\ width = 1 ->
              (IF config.goal_directed /\ unreached = {} THEN AtomsOnPaths ELSE ReachedAtoms)
      [] config.method = "r_g_prime" -> (IF unreached = {} THEN AtomsOnPaths ELSE R_all)
      [] config.method = "adaptive" /\ width = 1 -> {}
      [] OTHER -> (IF unreached = {} THEN AtomsOfPairs ELSE R_all)

LEMMA StartFacts ==
    ASSUME NEW w, StartRun(w)
    PROVE  Started(w)
<1>1. {g \in Subgoals : ~HoldsIn(g, task.init)} = Subgoals \ {g \in Subgoals : HoldsIn(g, task.init)}
  OBVIOUS
<1> QED BY <1>1 DEF StartRun, Started, ToReach, TableAtStart

LEMMA ComputeRFacts ==
    ASSUME Base, ComputeR
    PROVE  \/ pc' = "done" /\ config.method = "r_all" /\ Return(R_all)
           \/ config.method # "r_all" /\ \E w \in 1..2 : w <= config.max_width /\ Started(w)
<1>1. config.max_width \in {1, 2}
  BY TaskTypes DEF Base
<1>2. CASE config.method = "r_all"
  BY <1>2 DEF ComputeR, Return
<1>3. CASE config.method = "plain"
  <2>1. StartRun(config.max_width)
    BY <1>3 DEF ComputeR
  <2> QED BY <1>1, <1>3, <2>1, StartFacts
<1>4. CASE config.method # "r_all" /\ config.method # "plain"
  <2>1. StartRun(1)
    BY <1>4 DEF ComputeR
  <2> QED BY <1>1, <1>4, <2>1, StartFacts
<1> QED BY <1>2, <1>3, <1>4

LEMMA ExtractFacts ==
    ASSUME Base, Extract
    PROVE  \/ pc' = "done" /\ Return(ExtractedSet)
           \/ config.method # "r_all" /\ \E w \in 1..2 : w <= config.max_width /\ Started(w)
<1>1. /\ config.max_width \in {1, 2}
      /\ config.method = "adaptive" => config.max_width = 2
  BY TaskTypes DEF Base
<1>2. CASE config.method = "plain" /\ width = 1
  BY <1>2 DEF Extract, ExtractedSet, Return
<1>3. CASE config.method = "r_g_prime" /\ unreached = {}
  BY <1>3 DEF Extract, ExtractedSet, Return
<1>4. CASE config.method = "r_g_prime" /\ unreached # {}
  <2>1. IF NoFurtherRun THEN Return(R_all) ELSE StartRun(2)
    BY <1>4 DEF Extract
  <2>2. CASE NoFurtherRun
    BY <1>4, <2>1, <2>2 DEF ExtractedSet, Return
  <2>3. CASE ~NoFurtherRun
    <3>1. StartRun(2) /\ config.max_width = 2
      BY <1>1, <2>1, <2>3 DEF NoFurtherRun
    <3> QED BY <1>4, <3>1, StartFacts
  <2> QED BY <2>2, <2>3
<1>5. CASE config.method = "adaptive" /\ width = 1
  <2>1. IF unreached = {} THEN Return({}) ELSE StartRun(2)
    BY <1>5 DEF Extract
  <2>2. CASE unreached = {}
    BY <1>5, <2>1, <2>2 DEF ExtractedSet, Return
  <2>3. CASE unreached # {}
    BY <1>1, <1>5, <2>1, <2>3, StartFacts
  <2> QED BY <2>2, <2>3
<1>6. CASE /\ ~(config.method = "plain" /\ width = 1) /\ config.method # "r_g_prime"
           /\ ~(config.method = "adaptive" /\ width = 1)
  <2>1. Return(IF unreached = {} THEN AtomsOfPairs ELSE R_all)
    BY <1>6 DEF Extract
  <2> QED BY <1>6, <2>1 DEF ExtractedSet, Return
<1> QED BY <1>2, <1>3, <1>4, <1>5, <1>6

-----------------------------------------------------------------------------
(* The start of a run *)

LEMMA StartedFacts ==
    ASSUME Base, NEW w \in 1..2, Started(w)
    PROVE  /\ Nodes' = {1} /\ node' \in Seq(NodeType) /\ node' # <<>>
           /\ node'[1].state = task.init /\ node'[1].parent = 0 /\ node'[1].g = 0
           /\ OpenNodes' = {1} /\ ToSet(open_w1') = {1} /\ ToSet(open_w2') = {}
           /\ ToSet(open_w1_next') = {} /\ ToSet(open_w2_next') = {}
<1> DEFINE seed == [state |-> task.init, parent |-> 0, g |-> 0, nov2 |-> {}]
<1>1. seed \in NodeType /\ seed.state = task.init /\ seed.parent = 0 /\ seed.g = 0
  BY TaskTypes DEF Base, NodeType
<1>2. node' = <<seed>>
  BY DEF Started
<1> HIDE DEF seed
<1>3. Nodes' = {1} /\ node' \in Seq(NodeType) /\ node' # <<>> /\ node'[1] = seed
  BY <1>1, <1>2 DEF Nodes
<1>4. ToSet(<<1>>) = {1} /\ ToSet(<<>>) = {}
  BY DEF ToSet
<1>5. /\ open_w1' = <<1>> /\ open_w2' = <<>> /\ open_w1_next' = <<>> /\ open_w2_next' = <<>>
  BY DEF Started
<1>6. OpenNodes' = ToSet(open_w1') \cup ToSet(open_w2') \cup ToSet(open_w1_next') \cup ToSet(open_w2_next')
  BY DEF OpenNodes
<1> QED BY <1>1, <1>3, <1>4, <1>5, <1>6

LEMMA StartKeepsBase ==
    ASSUME Base, NEW w \in 1..2, w <= config.max_width, config.method # "r_all", Started(w)
    PROVE  Base'
<1>1. /\ Nodes' = {1} /\ node' \in Seq(NodeType) /\ node' # <<>>
      /\ node'[1].state = task.init /\ node'[1].parent = 0 /\ node'[1].g = 0
  BY StartedFacts
<1>2. TypeOK'
  <2>1. <<1>> \in Seq(Nodes') /\ <<>> \in Seq(Nodes')
    BY <1>1
  <2>2. [g \in Subgoals |-> 0] \in [Subgoals -> Nodes' \cup {0}]
    OBVIOUS
  <2> QED BY <1>1, <2>1, <2>2 DEF Started, Base, TypeOK, Subgoals
<1>3. CursorOK'
  BY <1>1 DEF Started, CursorOK
<1>4. NodesOK'
  BY <1>1 DEF Started, NodesOK, HasParent
<1> QED BY <1>2, <1>3, <1>4 DEF Base

LEMMA StartKeepsRest ==
    ASSUME Base, NEW w \in 1..2, w <= config.max_width, Started(w)
    PROVE  (TableIsHistory /\ KeptOnce /\ GoalsOK /\ DepthsGrow /\ LevelsOK /\ StopOK /\ RelevantPaths)'
<1>1. /\ Nodes' = {1}
      /\ node'[1].state = task.init /\ node'[1].parent = 0 /\ node'[1].g = 0
      /\ OpenNodes' = {1} /\ ToSet(open_w1') = {1} /\ ToSet(open_w2') = {}
      /\ ToSet(open_w1_next') = {} /\ ToSet(open_w2_next') = {}
  BY StartedFacts
<1>2. TableIsHistory'
  <2>1. table' = UNION {Tuples(k, task.init) : k \in 1..config.max_width}
    BY DEF Started, Checked
  <2>2. UNION {Tuples(k, node'[n].state) : k \in 1..config.max_width, n \in {1}}
          = UNION {Tuples(k, task.init) : k \in 1..config.max_width}
    BY <1>1
  <2> QED BY <1>1, <2>1, <2>2 DEF TableIsHistory, Started
<1>3. KeptOnce'
  <2>1. Explored' = {} /\ pending' = {}
    BY <1>1 DEF Explored, HasParent, Started
  <2>2. Kept' = {1}
    BY <1>1, <2>1 DEF Kept
  <2> QED BY <2>2 DEF KeptOnce
<1>4. GoalsOK'
  <2>1. \A g \in Subgoals : Reaching(g)' = IF HoldsIn(g, task.init) THEN {1} ELSE {}
    BY <1>1 DEF Reaching, HoldsIn, Started
  <2>2. /\ in_seed' = {g \in Subgoals : HoldsIn(g, task.init)} /\ unreached' = Subgoals \ in_seed'
        /\ \A g \in Subgoals : optimal'[g] = 0
        /\ Subgoals' = Subgoals /\ task' = task
    BY DEF Started, Subgoals
  <2>3. \A g \in Subgoals : HoldsIn(g, task.init)' <=> HoldsIn(g, task.init)
    BY <2>2 DEF HoldsIn
  <2> QED BY <2>1, <2>2, <2>3 DEF GoalsOK
<1>5. DepthsGrow'
  BY <1>1 DEF DepthsGrow
<1>6. AtLevel(0)'
  BY <1>1 DEF AtLevel, Started
<1>7. LevelsOK'
  BY <1>6 DEF LevelsOK
<1>8. StopOK' /\ RelevantPaths'
  BY DEF StopOK, RelevantPaths, Started
<1> QED BY <1>2, <1>3, <1>4, <1>5, <1>7, <1>8

-----------------------------------------------------------------------------
(* Taking a node off a queue, and going on with the next level *)

LEMMA SameTree ==
    ASSUME UNCHANGED <<task, config, width, node, table, goals>>
    PROVE  /\ Nodes' = Nodes /\ Explored' = Explored
           /\ TableIsHistory => TableIsHistory'
           /\ GoalsOK => GoalsOK'
           /\ DepthsGrow => DepthsGrow'
           /\ \A n \in Nodes : (Novel(n)' <=> Novel(n)) /\ \A a : Child(n, a)' <=> Child(n, a)
<1>1. Nodes' = Nodes /\ Explored' = Explored /\ Subgoals' = Subgoals
  BY DEF Nodes, Explored, HasParent, Subgoals
<1>2. TableIsHistory => TableIsHistory'
  BY <1>1 DEF TableIsHistory
<1>3. GoalsOK => GoalsOK'
  BY <1>1 DEF GoalsOK, goals, Reaching, HoldsIn
<1>4. DepthsGrow => DepthsGrow'
  BY <1>1 DEF DepthsGrow
<1>5. \A n \in Nodes : (Novel(n)' <=> Novel(n)) /\ \A a : Child(n, a)' <=> Child(n, a)
  BY <1>1 DEF Novel, FirstWith, Child
<1> QED BY <1>1, <1>2, <1>3, <1>4, <1>5

LEMMA ExpandKeeps ==
    ASSUME IInv, Expand
    PROVE  IInv'
<1>1. /\ current' \in Nodes /\ current' \in ToSet(open_w1) \cup ToSet(open_w2)
      /\ pending' = ApplicableActions(task, node[current'].state)
      /\ ToSet(open_w1') \cup ToSet(open_w2') \cup {current'} = ToSet(open_w1) \cup ToSet(open_w2)
      /\ OpenNodes = OpenNodes' \cup {current'}
      /\ open_w1' \in Seq(Nodes) /\ open_w2' \in Seq(Nodes)
      /\ pc = "run" /\ pending = {}
      /\ UNCHANGED <<task, config, pc, width, node, table, open_w1_next, open_w2_next, goals, R>>
  BY ExpandFacts DEF IInv
<1>2. /\ Nodes' = Nodes /\ Explored' = Explored
      /\ TableIsHistory' /\ GoalsOK' /\ DepthsGrow'
      /\ \A n \in Nodes : (Novel(n)' <=> Novel(n)) /\ \A a : Child(n, a)' <=> Child(n, a)
  BY <1>1, SameTree DEF IInv
<1>3. Base'
  <2>1. TypeOK'
    <3>1. pending' \subseteq task.actions /\ Subgoals' = Subgoals
      BY <1>1 DEF ApplicableActions, Subgoals
    <3> QED BY <1>1, <1>2, <3>1 DEF IInv, Base, TypeOK, goals
  <2>2. CursorOK'
    BY <1>1, <1>2 DEF IInv, Base, CursorOK
  <2> QED BY <1>1, <2>1, <2>2, SameNodes DEF IInv, Base
<1>4. KeptOnce'
  <2>1. Kept' \subseteq Kept
    BY <1>1, <1>2 DEF Kept
  <2> QED BY <1>1, <2>1 DEF IInv, KeptOnce
<1>5. LevelsOK'
  <2>1. PICK L \in Nat : AtLevel(L)
    BY <1>1 DEF IInv, LevelsOK
  <2>2. ASSUME NEW n \in Nodes, Novel(n) PROVE n \in OpenNodes' \/ Expanded(n)'
    <3>1. n \in OpenNodes \/ Expanded(n)
      BY <1>1, <2>1, <2>2 DEF AtLevel
    <3>2. n \in OpenNodes' \/ n = current' \/ \A a \in ApplicableActions(task, node[n].state) : Child(n, a)
      BY <1>1, <3>1 DEF Expanded
    <3> QED BY <1>1, <1>2, <3>2 DEF Expanded
  <2>3. AtLevel(L)'
    BY <1>1, <1>2, <2>1, <2>2 DEF AtLevel
  <2> QED BY <2>1, <2>3 DEF LevelsOK
<1>6. StopOK' /\ RelevantPaths'
  BY <1>1 DEF StopOK, RelevantPaths
<1> QED BY <1>2, <1>3, <1>4, <1>5, <1>6 DEF IInv

LEMMA NextLevelKeeps ==
    ASSUME IInv, NextLevel
    PROVE  IInv'
<1>1. /\ ToSet(open_w1') \cup ToSet(open_w2') = ToSet(open_w1_next) \cup ToSet(open_w2_next)
      /\ ToSet(open_w1_next') \cup ToSet(open_w2_next') = {}
      /\ OpenNodes' = OpenNodes
      /\ pc' = "extract" => OpenNodes' = {}
      /\ pc = "run" /\ pc' \in {"run", "extract"} /\ pending = {} /\ pending' = {}
      /\ UNCHANGED <<task, config, width, node, table, current, pending, goals, R>>
  BY NextLevelFacts
<1>2. /\ Nodes' = Nodes /\ Explored' = Explored
      /\ TableIsHistory' /\ GoalsOK' /\ DepthsGrow'
      /\ \A n \in Nodes : (Novel(n)' <=> Novel(n)) /\ \A a : Child(n, a)' <=> Child(n, a)
  BY <1>1, SameTree DEF IInv
<1>3. Base'
  <2>1. TypeOK'
    <3>1. /\ open_w1' \in Seq(Nodes) /\ open_w2' \in Seq(Nodes)
          /\ open_w1_next' \in Seq(Nodes) /\ open_w2_next' \in Seq(Nodes)
      BY EmptySeq DEF NextLevel, IInv, Base, TypeOK
    <3> QED BY <1>1, <1>2, <3>1 DEF IInv, Base, TypeOK, goals, Subgoals
  <2>2. CursorOK'
    BY <1>1, <1>2 DEF IInv, Base, CursorOK
  <2> QED BY <1>1, <2>1, <2>2, SameNodes DEF IInv, Base
<1>4. KeptOnce'
  <2>1. Kept' = Kept
    BY <1>1, <1>2 DEF Kept
  <2> QED BY <1>1, <2>1 DEF IInv, KeptOnce
<1>5. LevelsOK'
  <2>1. PICK L \in Nat : AtLevel(L)
    BY <1>1 DEF IInv, LevelsOK
  <2>2. ASSUME NEW n \in Nodes, Novel(n) PROVE n \in OpenNodes' \/ Expanded(n)'
    BY <1>1, <1>2, <2>1, <2>2 DEF AtLevel, Expanded
  <2>3. \A n \in Nodes : node[n].g \in Nat /\ node[n].g <= L + 1
    BY <2>1, NodeTypes DEF AtLevel, IInv, Base
  <2>4. AtLevel(L + 1)'
    BY <1>1, <1>2, <2>1, <2>2, <2>3 DEF AtLevel
  <2> QED BY <2>1, <2>4 DEF LevelsOK
<1>6. StopOK' /\ RelevantPaths'
  BY <1>1 DEF StopOK, RelevantPaths
<1> QED BY <1>2, <1>3, <1>4, <1>5, <1>6 DEF IInv

-----------------------------------------------------------------------------
(* Generating a successor *)

\* The tuples a successor is checked for: those its parent does not have.
LEMMA CheckedFacts ==
    ASSUME NEW s, current # 0
    PROVE  \A x : x \in Checked(s, current) <=>
                    \E k \in 1..config.max_width :
                        x \in Tuples(k, s) /\ x \notin Tuples(k, node[current].state)
BY DEF Checked, TuplesToCheck

LEMMA SmallestOfTwo ==
    ASSUME NEW S \in SUBSET {1, 2}, S # {}
    PROVE  Min(S) \in S /\ \A y \in S : Min(S) <= y
<1>1. CASE 1 \in S
  <2>1. \A y \in S : 1 <= y
    OBVIOUS
  <2> QED BY <1>1, <2>1 DEF Min
<1>2. CASE 1 \notin S
  <2>1. S = {2}
    BY <1>2
  <2>2. \A y \in S : 2 <= y
    BY <2>1
  <2> QED BY <2>1, <2>2 DEF Min
<1> QED BY <1>1, <1>2

\* A successor is queued only for a new tuple, and always for one within the width.
LEMMA NoveltyFacts ==
    ASSUME TypeOK, NEW s, current # 0
    PROVE  LET X == Checked(s, current)
               w == NoveltyOf(X)
           IN  /\ w \in {1, 2} => \E x \in X : x \notin table
               /\ \A x \in X : x \notin table /\ Cardinality(x) <= width => w = 1 \/ (w = 2 /\ w <= width)
<1> DEFINE X   == Checked(s, current)
           new == {Cardinality(x) : x \in X \ table}
<1>1. config.max_width \in {1, 2}
  BY TaskTypes
<1>2. \A x \in X : Cardinality(x) \in {1, 2}
  <2>1. \A x \in X : \E k \in 1..config.max_width : x \in Tuples(k, s)
    BY CheckedFacts
  <2> QED BY <1>1, <2>1 DEF Tuples
<1>3. new \in SUBSET {1, 2}
  BY <1>2
<1>4. NoveltyOf(X) = IF new = {} THEN 3 ELSE Min(new)
  BY DEF NoveltyOf
<1>5. new # {} => \E x \in X : x \notin table
  OBVIOUS
<1>6. \A x \in X : x \notin table => Cardinality(x) \in new
  OBVIOUS
<1>7. width \in 0..2
  BY DEF TypeOK
<1> HIDE DEF X, new
<1>8. new # {} => Min(new) \in {1, 2} /\ \A y \in new : Min(new) <= y
  BY <1>3, SmallestOfTwo
<1>9. NoveltyOf(X) \in {1, 2} => \E x \in X : x \notin table
  BY <1>4, <1>5
<1>10. ASSUME NEW x \in X, x \notin table, Cardinality(x) <= width
       PROVE  NoveltyOf(X) = 1 \/ (NoveltyOf(X) = 2 /\ NoveltyOf(X) <= width)
  <2>1. Cardinality(x) \in new /\ Cardinality(x) \in {1, 2}
    BY <1>2, <1>6, <1>10
  <2>2. NoveltyOf(X) = Min(new) /\ Min(new) \in {1, 2} /\ Min(new) <= Cardinality(x)
    BY <1>4, <1>8, <2>1
  <2> QED BY <1>7, <1>10, <2>1, <2>2
<1> QED BY <1>9, <1>10 DEF X

\* What a state has in the table, once a node has it.
LEMMA InTable ==
    ASSUME TableIsHistory, NEW n \in Nodes, NEW k \in 1..config.max_width
    PROVE  Tuples(k, node[n].state) \subseteq table
BY DEF TableIsHistory

LEMMA GenerateKeepsTable ==
    ASSUME IInv, NEW a, NEW s, NEW k, Generated(a, s, k)
    PROVE  TableIsHistory'
<1>1. /\ current \in Nodes /\ table' = table \cup Checked(s, current) /\ config' = config
      /\ k \in Nat /\ Nodes = 1..(k-1) /\ Nodes' = 1..k
      /\ \A n \in Nodes : node'[n] = node[n]
      /\ node'[k].state = s
  BY DEF Generated, Appended
<1>2. Nodes' = Nodes \cup {k} /\ current # 0
  BY <1>1
<1> DEFINE K == 1..config.max_width
           H == UNION {Tuples(j, node'[n].state) : j \in K, n \in Nodes'}
<1>3. ASSUME NEW x \in H PROVE x \in table'
  <2>1. PICK j \in K, n \in Nodes' : x \in Tuples(j, node'[n].state)
    OBVIOUS
  <2>2. CASE n \in Nodes
    BY <1>1, <2>1, <2>2, InTable DEF IInv
  <2>3. CASE n = k
    <3>1. x \in Tuples(j, s)
      BY <1>1, <2>1, <2>3
    <3>2. CASE x \in Tuples(j, node[current].state)
      BY <1>1, <3>2, InTable DEF IInv
    <3>3. CASE x \notin Tuples(j, node[current].state)
      BY <1>1, <1>2, <3>1, <3>3, CheckedFacts
    <3> QED BY <3>2, <3>3
  <2> QED BY <1>2, <2>2, <2>3
<1>4. ASSUME NEW x \in table PROVE x \in H
  <2>1. PICK j \in K, n \in Nodes : x \in Tuples(j, node[n].state)
    BY DEF IInv, TableIsHistory
  <2>2. n \in Nodes' /\ node'[n] = node[n]
    BY <1>1, <1>2
  <2> QED BY <2>1, <2>2
<1>5. ASSUME NEW x \in Checked(s, current) PROVE x \in H
  <2>1. PICK j \in K : x \in Tuples(j, s)
    BY <1>2, CheckedFacts
  <2> QED BY <1>1, <1>2, <2>1
<1>6. table' = H
  <2> HIDE DEF H
  <2> QED BY <1>1, <1>3, <1>4, <1>5
<1> QED BY <1>1, <1>6 DEF TableIsHistory

LEMMA GenerateKeepsOnce ==
    ASSUME IInv, NEW a, NEW s, NEW k, Generated(a, s, k)
    PROVE  KeptOnce'
<1>1. /\ current \in Nodes /\ pending # {} /\ current' = current /\ a \in pending
      /\ k \in Nat /\ Nodes = 1..(k-1) /\ Nodes' = 1..k
      /\ \A n \in Nodes : node'[n] = node[n]
      /\ node'[k].state = s /\ node'[k].parent = current
  BY DEF Generated, Appended
<1>2. Nodes' = Nodes \cup {k} /\ current # 0 /\ k \notin Nodes
  BY <1>1
<1>3. current \in Kept /\ Kept \subseteq Nodes
  <2>1. OpenNodes \subseteq Nodes
    BY OpenFacts, QueueFacts DEF IInv, Base, TypeOK
  <2>2. Explored \subseteq Nodes
    <3>1. \A n \in Nodes : HasParent(n) => node[n].parent \in Nodes
      BY <1>1 DEF IInv, Base, NodesOK, HasParent
    <3> QED BY <3>1 DEF Explored
  <2> QED BY <1>1, <2>1, <2>2 DEF Kept
<1>4. Explored' \subseteq Explored \cup {current}
  <2> SUFFICES ASSUME NEW n \in Nodes', HasParent(n)' PROVE node'[n].parent \in Explored \cup {current}
    BY DEF Explored
  <2>1. CASE n \in Nodes
    <3>1. HasParent(n) /\ node'[n].parent = node[n].parent
      BY <1>1, <2>1 DEF HasParent
    <3> QED BY <2>1, <3>1 DEF Explored
  <2>2. CASE n = k
    BY <1>1, <2>2
  <2> QED BY <1>2, <2>1, <2>2
<1> DEFINE w == NoveltyOf(Checked(s, current))
<1>5. \/ OpenNodes' = OpenNodes
      \/ OpenNodes' = OpenNodes \cup {k} /\ w \in {1, 2}
  <2>1. CASE UNCHANGED open
    BY <2>1 DEF open, OpenNodes
  <2>2. CASE Enqueue(k, w)
    <3>1. Nodes \subseteq Nodes' /\ k \in Nodes'
      BY <1>2
    <3> HIDE DEF w
    <3> QED BY <2>2, <3>1, EnqueueFacts DEF IInv, Base
  <2> QED BY <2>1, <2>2 DEF Generated
<1>6. Kept' \subseteq Kept \cup OpenNodes' \cup {current}
  BY <1>1, <1>4 DEF Kept
<1>7. \A m, n \in Kept : node'[m].state = node'[n].state => m = n
  BY <1>1, <1>3 DEF IInv, KeptOnce
<1>8. CASE OpenNodes' = OpenNodes
  <2>1. Kept' \subseteq Kept
    BY <1>3, <1>6, <1>8 DEF Kept
  <2> QED BY <1>7, <2>1 DEF KeptOnce
<1>9. CASE OpenNodes' = OpenNodes \cup {k} /\ w \in {1, 2}
  <2>1. Kept' \subseteq Kept \cup {k}
    BY <1>3, <1>6, <1>9 DEF Kept
  <2>2. \A n \in Nodes : node[n].state # s
    <3>1. PICK x \in Checked(s, current) : x \notin table
      BY <1>2, <1>9, NoveltyFacts DEF IInv, Base
    <3>2. PICK j \in 1..config.max_width : x \in Tuples(j, s)
      BY <1>2, CheckedFacts
    <3> QED BY <3>1, <3>2, InTable DEF IInv
  <2>3. \A n \in Kept : node'[n].state # node'[k].state
    BY <1>1, <1>3, <2>2
  <2> QED BY <1>7, <2>1, <2>3 DEF KeptOnce
<1> QED BY <1>5, <1>8, <1>9

LEMMA GenerateKeepsGoals ==
    ASSUME IInv, NEW a, NEW s, NEW k, Generated(a, s, k)
    PROVE  GoalsOK'
<1>1. /\ k \in Nat /\ Nodes = 1..(k-1) /\ Nodes' = 1..k
      /\ \A n \in Nodes : node'[n] = node[n]
      /\ node'[k].state = s
      /\ UNCHANGED <<task, width, in_seed>>
      /\ unreached' = unreached \ Reaches(s)
      /\ optimal' = [g \in Subgoals |->
                        IF g \in Reaches(s) /\ optimal[g] = 0 THEN k ELSE optimal[g]]
  BY DEF Generated, Appended, ProcessNode
<1>2. Nodes' = Nodes \cup {k} /\ k # 0 /\ Subgoals' = Subgoals /\ \A n \in Nodes : n <= k
  <2>1. k # 0
    BY <1>1 DEF Generated
  <2> QED BY <1>1, <2>1 DEF Subgoals
<1>3. width # 0
  BY DEF Generated, IInv, Base, CursorOK
<1>4. \A g \in Subgoals : Reaching(g)' = Reaching(g) \cup (IF HoldsIn(g, s) THEN {k} ELSE {})
  <2> SUFFICES ASSUME NEW g \in Subgoals
               PROVE  {n \in Nodes' : node'[n].state[g] = task.goal[g]}
                        = {n \in Nodes : node[n].state[g] = task.goal[g]}
                            \cup (IF s[g] = task.goal[g] THEN {k} ELSE {})
    BY <1>1 DEF Reaching, HoldsIn
  <2> QED BY <1>1, <1>2
<1>5. /\ in_seed' = {g \in Subgoals : HoldsIn(g, task.init)} /\ task' = task
      /\ \A g \in Subgoals : HoldsIn(g, task.init)' <=> HoldsIn(g, task.init)
  <2>1. in_seed' = {g \in Subgoals : HoldsIn(g, task.init)} /\ task' = task
    BY <1>1, <1>3 DEF IInv, GoalsOK
  <2> QED BY <2>1 DEF HoldsIn
<1>6. ASSUME NEW g \in Subgoals \ in_seed
      PROVE  /\ g \in unreached' <=> Reaching(g)' = {}
             /\ optimal'[g] = 0 <=> Reaching(g)' = {}
             /\ optimal'[g] # 0 => optimal'[g] \in Reaching(g)'
             /\ \A n \in Reaching(g)' : optimal'[g] <= n
  <2>1. /\ g \in unreached <=> Reaching(g) = {}
        /\ optimal[g] = 0 <=> Reaching(g) = {}
        /\ optimal[g] # 0 => optimal[g] \in Reaching(g)
        /\ \A n \in Reaching(g) : optimal[g] <= n
    BY <1>3 DEF IInv, GoalsOK
  <2>2. Reaching(g)' = Reaching(g) \cup (IF HoldsIn(g, s) THEN {k} ELSE {}) /\ Reaching(g) \subseteq Nodes
    BY <1>4 DEF Reaching
  <2>3. g \in Reaches(s) <=> g \in unreached /\ HoldsIn(g, s)
    BY DEF Reaches
  <2>4. g \in unreached' <=> g \in unreached /\ ~HoldsIn(g, s)
    BY <1>1, <2>3
  <2>5. optimal'[g] = IF HoldsIn(g, s) /\ Reaching(g) = {} THEN k ELSE optimal[g]
    BY <1>1, <2>1, <2>3
  <2>6. CASE HoldsIn(g, s) /\ Reaching(g) = {}
    <3>1. Reaching(g)' = {k} /\ optimal'[g] = k
      BY <2>2, <2>5, <2>6
    <3> QED BY <1>1, <1>2, <2>4, <2>6, <3>1
  <2>7. CASE HoldsIn(g, s) /\ Reaching(g) # {}
    <3>1. Reaching(g)' = Reaching(g) \cup {k} /\ optimal'[g] = optimal[g] /\ optimal[g] \in Nodes
      BY <2>1, <2>2, <2>5, <2>7
    <3> QED BY <1>2, <2>1, <2>4, <2>7, <3>1
  <2>8. CASE ~HoldsIn(g, s)
    BY <2>1, <2>2, <2>4, <2>5, <2>8
  <2> QED BY <2>6, <2>7, <2>8
<1> QED BY <1>1, <1>2, <1>5, <1>6 DEF GoalsOK

\* The nodes there were are as novel and have the children they had.
LEMMA AppendedFacts ==
    ASSUME NEW k, NEW s, Appended(k, s), UNCHANGED <<task, width>>, NEW n \in Nodes
    PROVE  /\ Novel(n)' => Novel(n)
           /\ \A b : Child(n, b) => Child(n, b)'
           /\ node'[n] = node[n]
<1>1. /\ k \in Nat /\ Nodes = 1..(k-1) /\ Nodes' = 1..k /\ Nodes \subseteq Nodes'
      /\ \A m \in Nodes : node'[m] = node[m]
  BY DEF Appended
<1>2. \A x : FirstWith(n, x)' => FirstWith(n, x)
  BY <1>1 DEF FirstWith
<1>3. Novel(n)' => Novel(n)
  BY <1>1, <1>2 DEF Novel
<1>4. \A b : Child(n, b) => Child(n, b)'
  BY <1>1 DEF Child
<1> QED BY <1>1, <1>3, <1>4

LEMMA GenerateKeepsLevels ==
    ASSUME IInv, NEW a, NEW s, NEW k, Generated(a, s, k)
    PROVE  DepthsGrow' /\ LevelsOK'
<1>1. /\ current \in Nodes /\ pending # {} /\ current' = current /\ a \in pending /\ pc = "run"
      /\ s = NextState(node[current].state, a)
      /\ k \in Nat /\ Nodes = 1..(k-1) /\ Nodes' = 1..k
      /\ \A n \in Nodes : node'[n] = node[n]
      /\ node'[k].state = s /\ node'[k].parent = current /\ node'[k].g = node[current].g + 1
      /\ UNCHANGED <<task, width>> /\ Appended(k, s)
  BY DEF Generated, Appended
<1>2. Nodes' = Nodes \cup {k} /\ current # 0 /\ k \notin Nodes /\ k \in Nodes'
  BY <1>1
<1>3. PICK L \in Nat : AtLevel(L)
  BY <1>1 DEF IInv, LevelsOK
<1>4. /\ node[current].g = L /\ node'[k].g = L + 1
      /\ \A n \in Nodes : node[n].g \in Nat /\ node[n].g <= L + 1
  BY <1>1, <1>3, NodeTypes DEF AtLevel, IInv, Base
<1>5. DepthsGrow'
  BY <1>1, <1>2, <1>4 DEF IInv, DepthsGrow
<1> DEFINE w == NoveltyOf(Checked(s, current))
<1>6. \/ unreached' = {} /\ pc' = "extract" /\ pending' = {} /\ UNCHANGED open
      \/ pending' = pending \ {a} /\ pc' = "run" /\ Enqueue(k, w)
  BY DEF Generated
<1>7. /\ ToSet(open_w1) \cup ToSet(open_w2) \subseteq Nodes
      /\ ToSet(open_w1_next) \cup ToSet(open_w2_next) \subseteq Nodes
  BY QueueFacts DEF IInv, Base, TypeOK
<1>8. /\ open_w1' = open_w1 /\ open_w2' = open_w2
      /\ ToSet(open_w1_next') \cup ToSet(open_w2_next')
            \subseteq ToSet(open_w1_next) \cup ToSet(open_w2_next) \cup {k}
      /\ OpenNodes \subseteq OpenNodes'
      /\ pc' = "run" /\ (w = 1 \/ (w = 2 /\ w <= width)) => k \in OpenNodes'
  <2>1. CASE unreached' = {} /\ pc' = "extract" /\ UNCHANGED open
    BY <2>1 DEF open, OpenNodes
  <2>2. CASE Enqueue(k, w)
    <3>1. Nodes \subseteq Nodes'
      BY <1>2
    <3> HIDE DEF w
    <3> QED BY <1>2, <2>2, <3>1, EnqueueFacts DEF IInv, Base
  <2> QED BY <1>6, <2>1, <2>2
<1> HIDE DEF w
<1>9. ASSUME NEW n \in Nodes, Novel(n)'
      PROVE  \/ n \in OpenNodes'
             \/ Expanded(n)'
             \/ pc' = "extract" /\ unreached' = {} /\ node'[n].g >= L
  <2>1. Novel(n) /\ node'[n] = node[n] /\ \A b : Child(n, b) => Child(n, b)'
    BY <1>1, <1>9, AppendedFacts
  <2>2. n \in OpenNodes \/ Expanded(n)
    BY <1>1, <1>3, <2>1 DEF AtLevel
  <2>3. CASE n \in OpenNodes
    BY <1>8, <2>3
  <2>4. CASE Expanded(n) /\ n # current
    BY <1>1, <2>1, <2>4 DEF Expanded
  <2>5. CASE Expanded(n) /\ n = current /\ pc' = "extract"
    BY <1>1, <1>4, <1>6, <2>1, <2>5
  <2>6. CASE Expanded(n) /\ n = current /\ pc' = "run"
    <3>1. pending' = pending \ {a}
      BY <1>6, <2>6
    <3>2. Child(n, a)'
      BY <1>1, <1>2, <2>6 DEF Child
    <3>3. \A b \in ApplicableActions(task, node[n].state) : b \in pending' \/ Child(n, b)'
      BY <2>1, <2>6, <3>1, <3>2 DEF Expanded
    <3> QED BY <1>1, <2>1, <2>6, <3>3 DEF Expanded
  <2> QED BY <1>6, <2>2, <2>3, <2>4, <2>5, <2>6
<1>10. ASSUME Novel(k)', pc' = "run" PROVE k \in OpenNodes'
  <2>1. PICK j \in 1..width : \E x \in Tuples(j, s) : FirstWith(k, x)'
    BY <1>1, <1>10 DEF Novel
  <2>2. PICK x \in Tuples(j, s) : FirstWith(k, x)'
    BY <2>1
  <2>3. \A m \in Nodes : ~(x \subseteq AtomsOf(node[m].state))
    BY <1>1, <2>2 DEF FirstWith
  <2>4. x \notin table
    BY <2>3 DEF IInv, TableIsHistory, Tuples
  <2>5. j \in 1..config.max_width /\ Cardinality(x) <= width
    <3>1. width \in 0..2 /\ config.max_width \in {1, 2} /\ (width # 0 => width <= config.max_width)
      BY TaskTypes DEF IInv, Base, TypeOK, CursorOK
    <3>2. Cardinality(x) = j
      BY DEF Tuples
    <3> QED BY <3>1, <3>2
  <2>6. x \in Checked(s, current)
    <3>1. x \notin Tuples(j, node[current].state)
      BY <1>1, <2>3 DEF Tuples
    <3> QED BY <1>2, <2>5, <3>1, CheckedFacts
  <2>7. w = 1 \/ (w = 2 /\ w <= width)
    BY <1>2, <2>4, <2>5, <2>6, NoveltyFacts DEF w, IInv, Base
  <2> QED BY <1>8, <1>10, <2>7
<1>11. \A n \in Nodes' : Novel(n)' =>
          \/ n \in OpenNodes'
          \/ Expanded(n)'
          \/ pc' = "extract" /\ unreached' = {} /\ node'[n].g >= L
  <2>1. Novel(k)' => k \in OpenNodes' \/ (pc' = "extract" /\ unreached' = {} /\ node'[k].g >= L)
    BY <1>4, <1>6, <1>10
  <2> QED BY <1>2, <1>9, <2>1
<1>12. AtLevel(L)'
  <2>1. \A n \in ToSet(open_w1') \cup ToSet(open_w2') : node'[n].g = L
    BY <1>1, <1>3, <1>7, <1>8 DEF AtLevel
  <2>2. \A n \in ToSet(open_w1_next') \cup ToSet(open_w2_next') : node'[n].g = L + 1
    BY <1>1, <1>3, <1>4, <1>7, <1>8 DEF AtLevel
  <2>3. node'[current].g = L /\ \A n \in Nodes' : node'[n].g <= L + 1
    BY <1>1, <1>2, <1>4
  <2> QED BY <1>1, <1>11, <2>1, <2>2, <2>3 DEF AtLevel
<1> QED BY <1>3, <1>5, <1>12 DEF LevelsOK

LEMMA GenerateKeeps ==
    ASSUME IInv, Generate
    PROVE  IInv'
<1>1. PICK a, s, k : Generated(a, s, k)
  BY GenerateFacts DEF IInv
<1>2. Base'
  BY <1>1, GenerateKeepsBase DEF IInv
<1>3. StopOK' /\ RelevantPaths'
  <2>1. pc' = "extract" => unreached' = {} /\ pending' = {}
    BY <1>1 DEF Generated
  <2>2. pc' # "done"
    BY <1>1 DEF Generated
  <2> QED BY <2>1, <2>2 DEF StopOK, RelevantPaths
<1> QED BY <1>1, <1>2, <1>3, GenerateKeepsTable, GenerateKeepsOnce, GenerateKeepsGoals,
           GenerateKeepsLevels DEF IInv

-----------------------------------------------------------------------------
(* Paths to the subgoals *)

IsPath(f) ==
    f = [m \in Nodes |-> IF HasParent(m) THEN {m} \cup f[node[m].parent] ELSE {}]

LEMMA PathEquation ==
    ASSUME Base
    PROVE  \A n \in Nodes :
             /\ PathFromSeed(n) \in SUBSET Nodes
             /\ PathFromSeed(n) = IF HasParent(n) THEN {n} \cup PathFromSeed(node[n].parent) ELSE {}
<1> DEFINE N    == Len(node)
           X    == SUBSET Nodes
           par  == [m \in 1..N |-> node[m].parent]
           base == [m \in 1..N |-> {}]
           step == [m \in 1..N |-> [S \in X |-> {m} \cup S]]
<1>1. N \in Nat /\ Nodes = 1..N
  BY NodeTypes DEF Base
<1>2. \A m \in 1..N : node[m].parent \in Nat /\ node[m].parent < m
  BY <1>1 DEF Base, NodesOK
<1>3. par \in [1..N -> Nat] /\ \A m \in 1..N : par[m] < m
  BY <1>1, <1>2
<1>4. base \in [1..N -> X] /\ step \in [1..N -> [X -> X]]
  BY <1>1
<1>5. PICK f \in [1..N -> X] : PassedDown(f, N, par, base, step)
  <2> HIDE DEF N, X, par, base, step
  <2> QED BY <1>1, <1>3, <1>4, ParentRecursion
<1>6. \A m \in 1..N : f[m] = IF HasParent(m) THEN {m} \cup f[node[m].parent] ELSE {}
  <2> SUFFICES ASSUME NEW m \in 1..N PROVE f[m] = IF HasParent(m) THEN {m} \cup f[node[m].parent] ELSE {}
    OBVIOUS
  <2>1. f[m] = IF par[m] = 0 THEN base[m] ELSE step[m][f[par[m]]]
    BY <1>5 DEF PassedDown
  <2>2. HasParent(m) => f[node[m].parent] \in X
    BY <1>1, <1>2 DEF HasParent
  <2> QED BY <2>1, <2>2 DEF HasParent
<1>7. IsPath(f)
  <2> HIDE DEF N
  <2> QED BY <1>1, <1>6 DEF IsPath
<1> DEFINE P == CHOOSE h : IsPath(h)
<1>8. IsPath(P)
  BY <1>7
<1>9. \A n : PathFromSeed(n) = P[n]
  BY DEF PathFromSeed, IsPath
<1> HIDE DEF P, N
<1>10. \A n \in Nodes : P[n] = IF HasParent(n) THEN {n} \cup P[node[n].parent] ELSE {}
  BY <1>8 DEF IsPath
<1> DEFINE M == {k \in Nat : \A n \in Nodes : n <= k => P[n] \in SUBSET Nodes}
<1>11. M = Nat
  <2>1. 0 \in M
    BY <1>1
  <2>2. ASSUME NEW k \in M PROVE k + 1 \in M
    <3> SUFFICES ASSUME NEW n \in Nodes, n <= k + 1 PROVE P[n] \in SUBSET Nodes
      OBVIOUS
    <3>1. HasParent(n) => node[n].parent \in Nodes /\ node[n].parent <= k
      BY <1>1, <1>2 DEF HasParent
    <3> QED BY <1>10, <3>1
  <2>3. M \in SUBSET Nat
    OBVIOUS
  <2> HIDE DEF M
  <2> QED BY <2>1, <2>2, <2>3, Induction
<1>12. \A n \in Nodes : P[n] \in SUBSET Nodes
  BY <1>1, <1>11
<1> QED BY <1>9, <1>10, <1>12

IsWalk(f, visited) ==
    f = [m \in Nodes |-> IF ~HasParent(m) \/ m \in visited THEN {} ELSE {m} \cup f[node[m].parent]]

LEMMA WalkEquation ==
    ASSUME Base, NEW visited
    PROVE  \A n \in Nodes :
             UpFrom(n, visited) = IF ~HasParent(n) \/ n \in visited THEN {}
                                  ELSE {n} \cup UpFrom(node[n].parent, visited)
<1> DEFINE N    == Len(node)
           X    == SUBSET Nodes
           par  == [m \in 1..N |-> IF m \in visited THEN 0 ELSE node[m].parent]
           base == [m \in 1..N |-> {}]
           step == [m \in 1..N |-> [S \in X |-> {m} \cup S]]
<1>1. N \in Nat /\ Nodes = 1..N
  BY NodeTypes DEF Base
<1>2. \A m \in 1..N : node[m].parent \in Nat /\ node[m].parent < m
  BY <1>1 DEF Base, NodesOK
<1>3. par \in [1..N -> Nat] /\ \A m \in 1..N : par[m] < m
  BY <1>1, <1>2
<1>4. base \in [1..N -> X] /\ step \in [1..N -> [X -> X]]
  BY <1>1
<1>5. PICK f \in [1..N -> X] : PassedDown(f, N, par, base, step)
  <2> HIDE DEF N, X, par, base, step
  <2> QED BY <1>1, <1>3, <1>4, ParentRecursion
<1>6. \A m \in 1..N : f[m] = IF ~HasParent(m) \/ m \in visited THEN {} ELSE {m} \cup f[node[m].parent]
  <2> SUFFICES ASSUME NEW m \in 1..N
               PROVE  f[m] = IF ~HasParent(m) \/ m \in visited THEN {} ELSE {m} \cup f[node[m].parent]
    OBVIOUS
  <2>1. f[m] = IF par[m] = 0 THEN base[m] ELSE step[m][f[par[m]]]
    BY <1>5 DEF PassedDown
  <2>2. HasParent(m) => f[node[m].parent] \in X
    BY <1>1, <1>2 DEF HasParent
  <2> QED BY <2>1, <2>2 DEF HasParent
<1>7. IsWalk(f, visited)
  <2> HIDE DEF N
  <2> QED BY <1>1, <1>6 DEF IsWalk
<1> DEFINE W == CHOOSE h : IsWalk(h, visited)
<1>8. IsWalk(W, visited)
  BY <1>7
<1>9. \A n : UpFrom(n, visited) = W[n]
  BY DEF UpFrom, IsWalk
<1> HIDE DEF W, N
<1>10. \A n \in Nodes : W[n] = IF ~HasParent(n) \/ n \in visited THEN {} ELSE {n} \cup W[node[n].parent]
  BY <1>8 DEF IsWalk
<1> QED BY <1>9, <1>10

\* A path contains the paths to its nodes.
LEMMA PathsNest ==
    ASSUME Base
    PROVE  \A n \in Nodes : \A m \in PathFromSeed(n) : PathFromSeed(m) \subseteq PathFromSeed(n)
<1> DEFINE Nested(n) == \A m \in PathFromSeed(n) : PathFromSeed(m) \subseteq PathFromSeed(n)
           M == {k \in Nat : \A n \in Nodes : n <= k => Nested(n)}
<1>1. /\ Nodes = 1..Len(node) /\ Len(node) \in Nat
      /\ \A n \in Nodes : HasParent(n) => node[n].parent \in Nodes /\ node[n].parent < n
  BY NodeTypes DEF Base, NodesOK, HasParent
<1>2. 0 \in M
  BY <1>1
<1>3. ASSUME NEW k \in M PROVE k + 1 \in M
  <2> SUFFICES ASSUME NEW n \in Nodes, n <= k + 1 PROVE Nested(n)
    OBVIOUS
  <2>1. CASE HasParent(n)
    <3>1. node[n].parent \in Nodes /\ node[n].parent <= k
      BY <1>1, <2>1
    <3>2. Nested(node[n].parent)
      BY <3>1
    <3>3. PathFromSeed(n) = {n} \cup PathFromSeed(node[n].parent)
      BY <2>1, PathEquation
    <3> QED BY <3>2, <3>3
  <2>2. CASE ~HasParent(n)
    <3>1. PathFromSeed(n) = {}
      BY <2>2, PathEquation
    <3> QED BY <3>1
  <2> QED BY <2>1, <2>2
<1>4. M = Nat
  <2>1. M \in SUBSET Nat
    OBVIOUS
  <2> HIDE DEF M
  <2> QED BY <1>2, <1>3, <2>1, Induction
<1> QED BY <1>1, <1>4

\* Stopping at a visited node loses nothing, if what is above it was visited.
LEMMA WalkCompletes ==
    ASSUME Base, NEW V, \A m \in V : PathFromSeed(m) \subseteq V
    PROVE  \A n \in Nodes : V \cup UpFrom(n, V) = V \cup PathFromSeed(n)
<1> DEFINE Same(n) == V \cup UpFrom(n, V) = V \cup PathFromSeed(n)
           M == {k \in Nat : \A n \in Nodes : n <= k => Same(n)}
<1>1. /\ Nodes = 1..Len(node) /\ Len(node) \in Nat
      /\ \A n \in Nodes : HasParent(n) => node[n].parent \in Nodes /\ node[n].parent < n
  BY NodeTypes DEF Base, NodesOK, HasParent
<1>2. 0 \in M
  BY <1>1
<1>3. ASSUME NEW k \in M PROVE k + 1 \in M
  <2> SUFFICES ASSUME NEW n \in Nodes, n <= k + 1 PROVE Same(n)
    OBVIOUS
  <2>1. CASE ~HasParent(n)
    <3>1. UpFrom(n, V) = {} /\ PathFromSeed(n) = {}
      BY <2>1, WalkEquation, PathEquation
    <3> QED BY <3>1
  <2>2. CASE HasParent(n) /\ n \in V
    <3>1. UpFrom(n, V) = {}
      BY <2>2, WalkEquation
    <3> QED BY <2>2, <3>1
  <2>3. CASE HasParent(n) /\ n \notin V
    <3>1. node[n].parent \in Nodes /\ node[n].parent <= k
      BY <1>1, <2>3
    <3>2. Same(node[n].parent)
      BY <3>1
    <3>3. /\ UpFrom(n, V) = {n} \cup UpFrom(node[n].parent, V)
          /\ PathFromSeed(n) = {n} \cup PathFromSeed(node[n].parent)
      BY <2>3, WalkEquation, PathEquation
    <3> QED BY <3>2, <3>3
  <2> QED BY <2>1, <2>2, <2>3
<1>4. M = Nat
  <2>1. M \in SUBSET Nat
    OBVIOUS
  <2> HIDE DEF M
  <2> QED BY <1>2, <1>3, <2>1, Induction
<1> QED BY <1>1, <1>4

IsVisited(v, S) ==
    v = [T \in SUBSET S |->
            IF T = {} THEN {}
            ELSE v[T \ {CHOOSE n \in T : TRUE}]
                   \cup UpFrom(CHOOSE n \in T : TRUE, v[T \ {CHOOSE n \in T : TRUE}])]

\* The nodes the walks visit are exactly the nodes on the paths.
LEMMA VisitedFacts ==
    ASSUME Base
    PROVE  Visited = UNION {PathFromSeed(n) : n \in SeedNodes} /\ Visited \subseteq Nodes
<1> DEFINE On(T) == UNION {PathFromSeed(n) : n \in T}
           F     == [T \in SUBSET SeedNodes |-> On(T)]
           v     == CHOOSE f : IsVisited(f, SeedNodes)
           pick(T) == CHOOSE n \in T : TRUE
<1>1. Visited = v[SeedNodes]
  BY DEF Visited, FoldSet, MapThenFoldSet, IsVisited
<1>2. SeedNodes \subseteq Nodes
  BY DEF SeedNodes, Base, TypeOK
<1>3. \A T \in SUBSET SeedNodes : T # {} =>
        /\ pick(T) \in T /\ T \ {pick(T)} \in SUBSET SeedNodes
        /\ On(T \ {pick(T)}) \cup UpFrom(pick(T), On(T \ {pick(T)})) = On(T)
  <2> SUFFICES ASSUME NEW T \in SUBSET SeedNodes, T # {}
               PROVE  /\ pick(T) \in T
                      /\ On(T \ {pick(T)}) \cup UpFrom(pick(T), On(T \ {pick(T)})) = On(T)
    OBVIOUS
  <2>1. pick(T) \in T
    OBVIOUS
  <2> DEFINE x == pick(T)
             V == On(T \ {x})
  <2> HIDE DEF pick
  <2>2. \A m \in V : PathFromSeed(m) \subseteq V
    <3> SUFFICES ASSUME NEW n \in T \ {x}, NEW m \in PathFromSeed(n) PROVE PathFromSeed(m) \subseteq V
      OBVIOUS
    <3>1. PathFromSeed(m) \subseteq PathFromSeed(n)
      BY <1>2, PathsNest
    <3> QED BY <3>1
  <2>3. V \cup PathFromSeed(x) = On(T)
    BY <2>1
  <2> HIDE DEF V
  <2>4. x \in Nodes
    BY <1>2, <2>1
  <2>5. V \cup UpFrom(x, V) = V \cup PathFromSeed(x)
    BY <2>2, <2>4, WalkCompletes
  <2> HIDE DEF x, On
  <2> QED BY <2>1, <2>3, <2>5 DEF x, V
<1>4. IsVisited(F, SeedNodes)
  <2>1. \A T \in SUBSET SeedNodes :
          On(T) = IF T = {} THEN {} ELSE On(T \ {pick(T)}) \cup UpFrom(pick(T), On(T \ {pick(T)}))
    <3>1. On({}) = {}
      OBVIOUS
    <3> HIDE DEF On, pick
    <3> QED BY <1>3, <3>1
  <2>2. F = [T \in SUBSET SeedNodes |->
               IF T = {} THEN {} ELSE F[T \ {pick(T)}] \cup UpFrom(pick(T), F[T \ {pick(T)}])]
    <3> HIDE DEF On, pick
    <3> QED BY <1>3, <2>1
  <2> HIDE DEF F
  <2> QED BY <2>2 DEF IsVisited
<1>5. IsVisited(v, SeedNodes)
  <2> HIDE DEF F
  <2> QED BY <1>4
<1> HIDE DEF v, F
<1>6. \A T \in SUBSET SeedNodes :
        v[T] = IF T = {} THEN {} ELSE v[T \ {pick(T)}] \cup UpFrom(pick(T), v[T \ {pick(T)}])
  BY <1>5 DEF IsVisited
<1>7. IsFiniteSet(SeedNodes)
  <2>1. IsFiniteSet(Nodes)
    BY NodeTypes, FS_Interval DEF Base
  <2> QED BY <1>2, <2>1, FS_Subset
<1> DEFINE M == {k \in Nat : \A T \in SUBSET SeedNodes : Cardinality(T) <= k => v[T] = On(T)}
<1>8. 0 \in M
  <2> SUFFICES ASSUME NEW T \in SUBSET SeedNodes, Cardinality(T) <= 0 PROVE v[T] = On(T)
    OBVIOUS
  <2>1. T = {}
    BY <1>7, FS_Subset, FS_CardinalityType, FS_EmptySet
  <2>2. On({}) = {}
    OBVIOUS
  <2> HIDE DEF pick, On
  <2> QED BY <1>6, <2>1, <2>2
<1>9. ASSUME NEW k \in M PROVE k + 1 \in M
  <2> SUFFICES ASSUME NEW T \in SUBSET SeedNodes, Cardinality(T) <= k + 1 PROVE v[T] = On(T)
    OBVIOUS
  <2>1. CASE T = {}
    <3> HIDE DEF pick
    <3> QED BY <1>6, <2>1
  <2>2. CASE T # {}
    <3> HIDE DEF pick, On
    <3>1. pick(T) \in T /\ T \ {pick(T)} \in SUBSET SeedNodes
      BY <1>3, <2>2
    <3>2. IsFiniteSet(T) /\ Cardinality(T \ {pick(T)}) = Cardinality(T) - 1 /\ Cardinality(T) \in Nat
      BY <1>7, <3>1, FS_Subset, FS_RemoveElement, FS_CardinalityType
    <3>3. v[T \ {pick(T)}] = On(T \ {pick(T)})
      BY <3>1, <3>2
    <3> QED BY <1>3, <1>6, <2>2, <3>3
  <2> QED BY <2>1, <2>2
<1>10. M = Nat
  <2>1. M \in SUBSET Nat
    OBVIOUS
  <2> HIDE DEF M
  <2> QED BY <1>8, <1>9, <2>1, Induction
<1>11. v[SeedNodes] = On(SeedNodes)
  <2>1. Cardinality(SeedNodes) \in M
    BY <1>7, <1>10, FS_CardinalityType
  <2>2. Cardinality(SeedNodes) <= Cardinality(SeedNodes)
    BY <1>7, FS_CardinalityType
  <2> QED BY <2>1, <2>2
<1>12. On(SeedNodes) \subseteq Nodes
  <2>1. \A n \in SeedNodes : PathFromSeed(n) \in SUBSET Nodes
    BY <1>2, PathEquation
  <2> QED BY <2>1
<1> QED BY <1>1, <1>11, <1>12

-----------------------------------------------------------------------------
(* Returning a set, and the steps together *)

LEMMA OnPathsFacts ==
    ASSUME Base
    PROVE  AtomsOnPaths = OnPaths /\ OnPaths \subseteq R_all
<1>1. AtomsOnPaths = OnPaths
  <2>1. Visited = UNION {PathFromSeed(n) : n \in SeedNodes}
    BY VisitedFacts
  <2> QED BY <2>1 DEF AtomsOnPaths, OnPaths
<1>2. AtomsOnPaths \subseteq R_all
  <2>1. \A n \in Visited : AtomsOf(node[n].state) \subseteq Atom
    BY VisitedFacts, NodeTypes, AtomsOfState DEF Base
  <2> QED BY <2>1 DEF AtomsOnPaths, R_all, Nonzero
<1> QED BY <1>1, <1>2

\* The table for single atoms has all atoms of the paths.
LEMMA ReachedOnPaths ==
    ASSUME Base, TableIsHistory
    PROVE  OnPaths \cap NoveltyAtoms \subseteq ReachedAtoms
<1> SUFFICES ASSUME NEW x \in OnPaths, x \in NoveltyAtoms PROVE x \in ReachedAtoms
  OBVIOUS
<1>1. PICK n \in Visited : x \in AtomsOf(node[n].state)
  BY OnPathsFacts DEF AtomsOnPaths, Nonzero
<1>2. n \in Nodes
  BY VisitedFacts
<1>3. {x} \in Tuples(1, node[n].state)
  <2>1. Cardinality({x}) = 1
    BY FS_Singleton
  <2> QED BY <1>1, <2>1 DEF Tuples
<1>4. 1 \in 1..config.max_width
  BY TaskTypes DEF Base
<1>5. {x} \in table
  BY <1>2, <1>3, <1>4 DEF TableIsHistory
<1> QED BY <1>5, NoveltyAtomsAssumption DEF ReachedAtoms

LEMMA PairsFacts ==
    ASSUME Base
    PROVE  AtomsOfPairs \subseteq Atom
<1>1. \A n \in Visited : \A x \in node[n].nov2 : x \subseteq Atom
  BY VisitedFacts, NodeTypes, NoveltyAtomsAssumption DEF Base, NodeType
<1>2. \A n \in Visited : \A x \in node[n].nov2 : Marked(n, x) \subseteq Atom
  BY <1>1 DEF Marked
<1> QED BY <1>2 DEF AtomsOfPairs, Nonzero

LEMMA ExtractedFacts ==
    ASSUME Base
    PROVE  ExtractedSet \subseteq Atom
<1>1. AtomsOnPaths \subseteq Atom /\ R_all \subseteq Atom
  BY OnPathsFacts DEF R_all, Nonzero
<1>2. ReachedAtoms \subseteq Atom /\ AtomsOfPairs \subseteq Atom
  BY PairsFacts DEF ReachedAtoms
<1> QED BY <1>1, <1>2 DEF ExtractedSet

LEMMA SamePaths ==
    ASSUME UNCHANGED <<task, node, goals>>
    PROVE  OnPaths' = OnPaths
<1>1. SeedNodes' = SeedNodes
  BY DEF SeedNodes, goals, Subgoals
<1>2. \A n : PathFromSeed(n)' = PathFromSeed(n)
  BY DEF PathFromSeed, Nodes, HasParent
<1> QED BY <1>1, <1>2 DEF OnPaths, Nonzero

LEMMA ReturnKeeps ==
    ASSUME IInv, NEW r \in SUBSET Atom, Return(r), pending = {},
           config.method \in {"r_all", "r_g_prime"} \/ (config.method = "plain" /\ width = 1)
             => OnPaths \cap NoveltyAtoms \subseteq r,
           config.method = "r_g_prime" => r = IF unreached = {} THEN OnPaths ELSE R_all
    PROVE  IInv'
<1>1. /\ R' = r /\ pc' = "done"
      /\ UNCHANGED <<task, config, width, node, table, open, current, pending, goals>>
  BY DEF Return
<1>2. /\ open_w1' = open_w1 /\ open_w2' = open_w2
      /\ open_w1_next' = open_w1_next /\ open_w2_next' = open_w2_next
      /\ in_seed' = in_seed /\ unreached' = unreached /\ optimal' = optimal
  BY <1>1 DEF open, goals
<1>3. /\ Nodes' = Nodes /\ Explored' = Explored /\ OpenNodes' = OpenNodes
      /\ TableIsHistory' /\ GoalsOK' /\ DepthsGrow'
  BY <1>1, <1>2, SameTree DEF IInv, OpenNodes
<1>4. Base'
  <2>1. TypeOK'
    BY <1>1, <1>2, <1>3 DEF IInv, Base, TypeOK, Subgoals
  <2>2. CursorOK'
    BY <1>1, <1>2, <1>3 DEF IInv, Base, CursorOK
  <2> QED BY <1>1, <2>1, <2>2, SameNodes DEF IInv, Base
<1>5. KeptOnce'
  <2>1. Kept' = Kept
    BY <1>1, <1>3 DEF Kept
  <2> QED BY <1>1, <2>1 DEF IInv, KeptOnce
<1>6. LevelsOK' /\ StopOK'
  BY <1>1 DEF LevelsOK, StopOK
<1>7. RelevantPaths'
  <2>1. OnPaths' = OnPaths
    BY <1>1, SamePaths
  <2> QED BY <1>1, <1>2, <2>1 DEF RelevantPaths, R_all, Nonzero
<1> QED BY <1>3, <1>4, <1>5, <1>6, <1>7 DEF IInv

LEMMA ComputeRKeeps ==
    ASSUME IInv, ComputeR
    PROVE  IInv'
<1>1. CASE config.method = "r_all" /\ Return(R_all)
  <2>1. R_all \in SUBSET Atom
    BY DEF R_all, Nonzero
  <2>2. pending = {}
    BY DEF ComputeR, IInv, Base, CursorOK
  <2>3. OnPaths \subseteq R_all
    BY OnPathsFacts DEF IInv
  <2> QED BY <1>1, <2>1, <2>2, <2>3, ReturnKeeps
<1>2. CASE config.method # "r_all" /\ \E w \in 1..2 : w <= config.max_width /\ Started(w)
  BY <1>2, StartKeepsBase, StartKeepsRest DEF IInv
<1> QED BY <1>1, <1>2, ComputeRFacts DEF IInv

LEMMA ExtractKeeps ==
    ASSUME IInv, Extract
    PROVE  IInv'
<1>1. CASE Return(ExtractedSet)
  <2>1. ExtractedSet \in SUBSET Atom
    BY ExtractedFacts DEF IInv
  <2>2. pending = {}
    BY DEF Extract, IInv, StopOK
  <2>3. AtomsOnPaths = OnPaths /\ OnPaths \subseteq R_all
    BY OnPathsFacts DEF IInv
  <2>4. config.method = "r_g_prime" => ExtractedSet = IF unreached = {} THEN OnPaths ELSE R_all
    BY <2>3 DEF ExtractedSet
  <2>5. config.method = "plain" /\ width = 1 => OnPaths \cap NoveltyAtoms \subseteq ExtractedSet
    BY <2>3, ReachedOnPaths DEF ExtractedSet, IInv
  <2>6. config.method # "r_all"
    BY DEF Extract, IInv, Base, CursorOK
  <2> HIDE DEF ExtractedSet
  <2> QED BY <1>1, <2>1, <2>2, <2>3, <2>4, <2>5, <2>6, ReturnKeeps
<1>2. CASE config.method # "r_all" /\ \E w \in 1..2 : w <= config.max_width /\ Started(w)
  BY <1>2, StartKeepsBase, StartKeepsRest DEF IInv
<1> QED BY <1>1, <1>2, ExtractFacts DEF IInv

LEMMA InitIInv ==
    ASSUME Init
    PROVE  IInv
<1>1. Base
  BY InitBase
<1>2. Nodes = {} /\ pc = "compute_R" /\ width = 0 /\ pending = {} /\ table = {}
  BY DEF Init, Nodes
<1>3. KeptOnce
  <2>1. OpenNodes = {} /\ Explored = {}
    BY <1>2 DEF Init, OpenNodes, ToSet, Explored
  <2> QED BY <1>2, <2>1 DEF KeptOnce, Kept
<1>4. TableIsHistory
  BY <1>2 DEF TableIsHistory
<1> QED BY <1>1, <1>2, <1>3, <1>4 DEF IInv, GoalsOK, DepthsGrow, LevelsOK, StopOK, RelevantPaths

LEMMA StutterKeeps ==
    ASSUME IInv, UNCHANGED vars
    PROVE  IInv'
<1>1. /\ UNCHANGED <<task, config, pc, width, node, table, current, pending, goals, R>>
      /\ open_w1' = open_w1 /\ open_w2' = open_w2
      /\ open_w1_next' = open_w1_next /\ open_w2_next' = open_w2_next
      /\ in_seed' = in_seed /\ unreached' = unreached /\ optimal' = optimal
  BY DEF vars, open, goals
<1>2. /\ Nodes' = Nodes /\ Explored' = Explored /\ OpenNodes' = OpenNodes
      /\ TableIsHistory' /\ GoalsOK' /\ DepthsGrow'
      /\ \A n \in Nodes : (Novel(n)' <=> Novel(n)) /\ \A a : Child(n, a)' <=> Child(n, a)
  BY <1>1, SameTree DEF IInv, OpenNodes
<1>3. Base'
  <2>1. TypeOK'
    BY <1>1, <1>2 DEF IInv, Base, TypeOK, Subgoals
  <2>2. CursorOK'
    BY <1>1, <1>2 DEF IInv, Base, CursorOK
  <2> QED BY <1>1, <2>1, <2>2, SameNodes DEF IInv, Base
<1>4. KeptOnce'
  <2>1. Kept' = Kept
    BY <1>1, <1>2 DEF Kept
  <2> QED BY <1>1, <2>1 DEF IInv, KeptOnce
<1>5. LevelsOK'
  <2> SUFFICES ASSUME pc \in {"run", "extract"} PROVE \E L \in Nat : AtLevel(L)'
    BY <1>1 DEF LevelsOK
  <2>1. PICK L \in Nat : AtLevel(L)
    BY DEF IInv, LevelsOK
  <2>2. AtLevel(L)'
    BY <1>1, <1>2, <2>1 DEF AtLevel, Expanded
  <2> QED BY <2>2
<1>6. StopOK' /\ RelevantPaths'
  <2>1. OnPaths' = OnPaths
    BY <1>1, SamePaths
  <2> QED BY <1>1, <1>2, <2>1 DEF IInv, StopOK, RelevantPaths, R_all, Nonzero
<1> QED BY <1>2, <1>3, <1>4, <1>5, <1>6 DEF IInv

LEMMA NextKeeps ==
    ASSUME IInv, [Next]_vars
    PROVE  IInv'
<1>1. CASE ComputeR
  BY <1>1, ComputeRKeeps
<1>2. CASE Expand
  BY <1>2, ExpandKeeps
<1>3. CASE Generate
  BY <1>3, GenerateKeeps
<1>4. CASE NextLevel
  BY <1>4, NextLevelKeeps
<1>5. CASE Extract
  BY <1>5, ExtractKeeps
<1>6. CASE UNCHANGED vars
  BY <1>6, StutterKeeps
<1> QED BY <1>1, <1>2, <1>3, <1>4, <1>5, <1>6 DEF Next, Terminating

LEMMA Invariant == Spec => []IInv
<1>1. IInv /\ [Next]_vars => IInv'
  BY NextKeeps
<1> QED BY <1>1, InitIInv, PTL DEF Spec

-----------------------------------------------------------------------------
(* The theorems *)

(***************************************************************************)
(* The bookkeeping of a run, for every task and option setting: the table  *)
(* holds exactly the tuples of the states generated in this run, although  *)
(* every successor is compared with its parent only, and no state is       *)
(* expanded or queued twice, although there is no closed list.             *)
(***************************************************************************)
THEOREM BookkeepingIsRight == Spec => []RunOK
<1>1. IInv => RunOK
  <2> SUFFICES ASSUME IInv PROVE RunOK
    OBVIOUS
  <2>1. NoStateTwice
    BY DEF IInv, KeptOnce, Kept, NoStateTwice
  <2> QED BY <2>1 DEF IInv, Base, RunOK
<1> QED BY <1>1, Invariant, PTL

LEMMA MinIsUnique ==
    ASSUME NEW S \in SUBSET Nat, NEW x \in S, \A y \in S : x <= y
    PROVE  Min(S) = x
<1>1. \E y \in S : \A z \in S : y <= z
  OBVIOUS
<1>2. Min(S) \in S /\ \A z \in S : Min(S) <= z
  BY <1>1 DEF Min
<1> DEFINE m == Min(S)
<1>3. m \in Nat /\ x \in Nat /\ m <= x /\ x <= m
  BY <1>2
<1> HIDE DEF m
<1>4. m = x
  BY <1>3
<1> QED BY <1>4 DEF m

(***************************************************************************)
(* process_node with one array of nodes per subgoal finds, for each of     *)
(* them, the first node in which it holds, and no node is nearer to the    *)
(* seed: the order of the queues makes the first one the nearest.          *)
(***************************************************************************)
THEOREM OptimalNodesAreFirst == Spec => []OptimalIsFirst
<1>1. IInv => OptimalIsFirst
  <2> SUFFICES ASSUME IInv, width # 0, NEW g \in Subgoals \ in_seed
               PROVE  /\ optimal[g] = (IF Reaching(g) = {} THEN 0 ELSE Min(Reaching(g)))
                      /\ \A n \in Reaching(g) : node[optimal[g]].g <= node[n].g
                      /\ g \in unreached <=> Reaching(g) = {}
    BY DEF OptimalIsFirst, Reaching
  <2>1. /\ g \in unreached <=> Reaching(g) = {}
        /\ optimal[g] = 0 <=> Reaching(g) = {}
        /\ optimal[g] # 0 => optimal[g] \in Reaching(g)
        /\ \A n \in Reaching(g) : optimal[g] <= n
    BY DEF IInv, GoalsOK
  <2>2. Reaching(g) \subseteq Nodes /\ Nodes \subseteq Nat
    BY NodeTypes DEF Reaching, IInv, Base
  <2>3. Reaching(g) # {} => optimal[g] = Min(Reaching(g))
    BY <2>1, <2>2, MinIsUnique
  <2>4. \A n \in Reaching(g) : node[optimal[g]].g <= node[n].g
    BY <2>1, <2>2 DEF IInv, DepthsGrow
  <2> QED BY <2>1, <2>3, <2>4
<1> QED BY <1>1, Invariant, PTL

(***************************************************************************)
(* R holds every nonzero atom of a state on the path from the seed to the  *)
(* first node of a reached subgoal - what the comment above class IWRun    *)
(* calls relevant - and R'_G is exactly these atoms, or all atoms if some  *)
(* subgoal was not reached.                                                *)
(***************************************************************************)
THEOREM PathsAreRelevant == Spec => []RelevantPaths
<1>1. IInv => RelevantPaths
  BY DEF IInv
<1> QED BY <1>1, Invariant, PTL

-----------------------------------------------------------------------------
(* What IW(k) guarantees *)

Depths == 0..Cardinality(State)

TuplesIn(k, S) == UNION {Tuples(i, s) : i \in 1..k, s \in S}

\* S and the states one action away.
Widened(S) == S \cup UNION {Successors(task, s) : s \in S}

\* The tuples that some tuple of T guarantees: reached in W and not yet in S.
NextTuples(k, T, S, W) ==
    {y \in TuplesIn(k, W) \ TuplesIn(k, S) :
        \E x \in T : \A s \in S :
            x \subseteq AtomsOf(s) => \E z \in Successors(task, s) : y \subseteq AtomsOf(z)}

IsWithin(f) == f = [d \in Depths |-> IF d = 0 THEN {task.init} ELSE Widened(f[d-1])]

Within == CHOOSE f : IsWithin(f)

IsGuaranteed(f, k, W) ==
    f = [d \in Depths |-> IF d = 0 THEN TuplesIn(k, {task.init})
                          ELSE NextTuples(k, f[d-1], W[d-1], W[d])]

LEMMA GuaranteedIs ==
    ASSUME NEW k
    PROVE  Guaranteed(k) = CHOOSE f : IsGuaranteed(f, k, Within)
BY DEF Guaranteed, IsGuaranteed, IsWithin, Within, Depths, TuplesIn, NextTuples, Widened

LEMMA WithinEquation ==
    ASSUME TypeOK
    PROVE  /\ Within[0] = {task.init}
           /\ \A d \in Depths : d # 0 => Within[d] = Widened(Within[d-1])
<1> DEFINE D    == Cardinality(State)
           X    == SUBSET State
           step == [i \in Nat |-> [S \in X |-> Widened(S)]]
<1>1. D \in Nat /\ task.init \in State /\ task \in TaskType
  BY StatesFinite, TaskTypes
<1>2. \A S \in X : Widened(S) \in X
  <2>1. \A s \in State : Successors(task, s) \subseteq State
    BY <1>1, TaskFacts DEF Successors, ApplicableActions
  <2> QED BY <2>1 DEF Widened
<1>3. step \in [Nat -> [X -> X]] /\ {task.init} \in X
  BY <1>1, <1>2
<1>4. PICK f \in [0..D -> X] : Iterates(f, {task.init}, step, D)
  <2> HIDE DEF D, X, step
  <2> QED BY <1>1, <1>3, Recursion
<1>5. f[0] = {task.init} /\ \A d \in 1..D : f[d] = Widened(f[d-1])
  <2>1. ASSUME NEW d \in 1..D PROVE f[d] = Widened(f[d-1])
    <3>1. d - 1 \in 0..D /\ d \in Nat
      BY <1>1
    <3>2. f[d-1] \in X /\ f[d] = step[d][f[d-1]]
      <4> HIDE DEF step, D, X
      <4> QED BY <1>4, <3>1 DEF Iterates
    <3> QED BY <3>1, <3>2
  <2> QED BY <1>4, <2>1 DEF Iterates
<1>6. IsWithin(f)
  <2>1. \A d \in 0..D : f[d] = IF d = 0 THEN {task.init} ELSE Widened(f[d-1])
    BY <1>1, <1>5
  <2> QED BY <1>4, <2>1 DEF IsWithin, Depths
<1>7. IsWithin(Within)
  BY <1>6 DEF Within
<1>8. \A d \in Depths : Within[d] = IF d = 0 THEN {task.init} ELSE Widened(Within[d-1])
  BY <1>7 DEF IsWithin
<1>9. 0 \in Depths
  BY <1>1 DEF Depths
<1> QED BY <1>8, <1>9

LEMMA GuaranteedEquation ==
    ASSUME TypeOK, NEW k
    PROVE  LET G == Guaranteed(k)
           IN  /\ G[0] = TuplesIn(k, {task.init})
               /\ \A d \in Depths :
                    d # 0 => G[d] = NextTuples(k, G[d-1], Within[d-1], Within[d])
<1> DEFINE D    == Cardinality(State)
           X    == SUBSET (SUBSET NoveltyAtoms)
           W    == Within
           step == [i \in Nat |-> [T \in X |-> NextTuples(k, T, W[i-1], W[i])]]
           zero == TuplesIn(k, {task.init})
<1>1. D \in Nat
  BY StatesFinite
<1>2. \A S : TuplesIn(k, S) \in X
  BY DEF TuplesIn, Tuples
<1>3. \A T, S, V : NextTuples(k, T, S, V) \in X
  BY <1>2 DEF NextTuples
<1>4. step \in [Nat -> [X -> X]] /\ zero \in X
  BY <1>2, <1>3
<1>5. PICK f \in [0..D -> X] : Iterates(f, zero, step, D)
  <2> HIDE DEF D, X, step, zero
  <2> QED BY <1>1, <1>4, Recursion
<1>6. f[0] = zero /\ \A d \in 1..D : f[d] = NextTuples(k, f[d-1], W[d-1], W[d])
  <2> HIDE DEF W, zero
  <2>1. ASSUME NEW d \in 1..D PROVE f[d] = NextTuples(k, f[d-1], W[d-1], W[d])
    <3>1. d - 1 \in 0..D /\ d \in Nat
      BY <1>1
    <3>2. f[d-1] \in X /\ f[d] = step[d][f[d-1]]
      <4> HIDE DEF step, D, X
      <4> QED BY <1>5, <3>1 DEF Iterates
    <3> HIDE DEF X
    <3> QED BY <3>1, <3>2
  <2> QED BY <1>5, <2>1 DEF Iterates
<1>7. IsGuaranteed(f, k, W)
  <2> HIDE DEF W
  <2>1. \A d \in 0..D : f[d] = IF d = 0 THEN zero ELSE NextTuples(k, f[d-1], W[d-1], W[d])
    BY <1>1, <1>6
  <2> QED BY <1>5, <2>1 DEF IsGuaranteed, Depths
<1> DEFINE G == CHOOSE h : IsGuaranteed(h, k, W)
<1>8. IsGuaranteed(G, k, W)
  BY <1>7
<1>9. Guaranteed(k) = G
  BY GuaranteedIs
<1> HIDE DEF G, W
<1>10. \A d \in Depths : G[d] = IF d = 0 THEN zero ELSE NextTuples(k, G[d-1], W[d-1], W[d])
  BY <1>8 DEF IsGuaranteed
<1>11. 0 \in Depths
  BY <1>1 DEF Depths
<1> QED BY <1>9, <1>10, <1>11 DEF W

-----------------------------------------------------------------------------
(* What a run reaches *)

\* A set of nodes has a first one.
LEMMA FirstNode ==
    ASSUME Base, NEW x, NEW m \in Nodes, x \subseteq AtomsOf(node[m].state)
    PROVE  \E n \in Nodes : n <= m /\ FirstWith(n, x)
<1> DEFINE Has(n) == x \subseteq AtomsOf(node[n].state)
           M == {k \in Nat : \A n \in Nodes : n <= k /\ Has(n) =>
                                \E j \in Nodes : j <= n /\ FirstWith(j, x)}
<1>1. Nodes \subseteq Nat /\ \A n \in Nodes : n # 0
  BY NodeTypes DEF Base
<1>2. 0 \in M
  BY <1>1
<1>3. ASSUME NEW k \in M PROVE k + 1 \in M
  <2> SUFFICES ASSUME NEW n \in Nodes, n <= k + 1, Has(n)
               PROVE  \E j \in Nodes : j <= n /\ FirstWith(j, x)
    OBVIOUS
  <2>1. CASE FirstWith(n, x)
    BY <1>1, <2>1
  <2>2. CASE ~FirstWith(n, x)
    <3>1. PICK i \in Nodes : i < n /\ Has(i)
      BY <2>2 DEF FirstWith
    <3>2. i <= k
      BY <1>1, <3>1
    <3>3. PICK j \in Nodes : j <= i /\ FirstWith(j, x)
      BY <3>1, <3>2
    <3> QED BY <1>1, <3>1, <3>3
  <2> QED BY <2>1, <2>2
<1>4. M = Nat
  <2>1. M \in SUBSET Nat
    OBVIOUS
  <2> HIDE DEF M
  <2> QED BY <1>2, <1>3, <2>1, Induction
<1> QED BY <1>1, <1>4

\* The states within a distance are within any larger one.
LEMMA NodesWithin ==
    ASSUME Base, NEW d \in Depths, NEW n \in Nodes, node[n].g <= d
    PROVE  node[n].state \in Within[d]
<1> DEFINE D == Cardinality(State)
           In(k) == \A m \in Nodes : node[m].g <= k => node[m].state \in Within[k]
           M == {k \in Nat : k <= D => In(k)}
<1>1. D \in Nat
  BY StatesFinite
<1>2. \A m \in Nodes : /\ node[m].g \in Nat
                       /\ HasParent(m) => /\ node[m].parent \in Nodes
                                          /\ node[m].g = node[node[m].parent].g + 1
                                          /\ node[m].state \in Successors(task, node[node[m].parent].state)
                       /\ ~HasParent(m) => node[m].g = 0 /\ node[m].state = task.init
  <2>1. Nodes = 1..Len(node) /\ Len(node) \in Nat
    BY NodeTypes DEF Base
  <2>2. \A m \in Nodes : node[m].parent \in 0..(m-1)
    BY DEF Base, NodesOK
  <2>3. \A m \in Nodes : HasParent(m) => node[m].parent \in Nodes
    BY <2>1, <2>2 DEF HasParent
  <2> QED BY <2>3, NodeTypes DEF Base, NodesOK
<1>3. Within[0] = {task.init} /\ \A k \in Depths : k # 0 => Within[k] = Widened(Within[k-1])
  BY WithinEquation DEF Base
<1>4. 0 \in M
  <2> SUFFICES ASSUME NEW m \in Nodes, node[m].g <= 0 PROVE node[m].state \in Within[0]
    OBVIOUS
  <2>1. ~HasParent(m)
    <3>1. ASSUME HasParent(m) PROVE FALSE
      <4>1. node[m].g = node[node[m].parent].g + 1 /\ node[node[m].parent].g \in Nat
        BY <1>2, <3>1
      <4> QED BY <2>1, <4>1
    <3> QED BY <3>1
  <2> QED BY <1>2, <1>3, <2>1
<1>5. ASSUME NEW k \in M PROVE k + 1 \in M
  <2> SUFFICES ASSUME k + 1 <= D, NEW m \in Nodes, node[m].g <= k + 1
               PROVE  node[m].state \in Within[k+1]
    OBVIOUS
  <2>1. k + 1 \in Depths /\ k + 1 # 0 /\ (k + 1) - 1 = k /\ In(k)
    BY <1>1 DEF Depths
  <2>2. Within[k+1] = Widened(Within[k])
    <3> DEFINE e == k + 1
    <3>1. Within[e] = Widened(Within[e-1])
      <4> HIDE DEF e
      <4>1. e \in Depths /\ e # 0
        BY <2>1 DEF e
      <4> QED BY <1>3, <4>1
    <3> QED BY <2>1, <3>1
  <2>3. CASE HasParent(m)
    <3>1. /\ node[m].parent \in Nodes /\ node[node[m].parent].g <= k
          /\ node[m].state \in Successors(task, node[node[m].parent].state)
      BY <1>2, <2>3
    <3>2. node[node[m].parent].state \in Within[k]
      BY <2>1, <3>1
    <3> QED BY <2>2, <3>1, <3>2 DEF Widened
  <2>4. CASE ~HasParent(m)
    <3>1. node[m].g <= k
      BY <1>2, <2>4
    <3> QED BY <2>1, <2>2, <3>1 DEF Widened
  <2> QED BY <2>3, <2>4
<1>6. M = Nat
  <2>1. M \in SUBSET Nat
    OBVIOUS
  <2> HIDE DEF M
  <2> QED BY <1>4, <1>5, <2>1, Induction
<1>7. d \in Nat /\ d <= D
  BY <1>1 DEF Depths
<1> QED BY <1>6, <1>7

\* A tuple that is guaranteed at depth d holds in no node nearer to the seed.
LEMMA NotNearer ==
    ASSUME Base, NEW k, NEW d \in Depths, d # 0, NEW y \in Guaranteed(k)[d],
           NEW n \in Nodes, y \subseteq AtomsOf(node[n].state)
    PROVE  node[n].g >= d
<1> SUFFICES ASSUME node[n].g < d PROVE FALSE
  BY NodeTypes, StatesFinite DEF Base, Depths
<1>1. Guaranteed(k)[d] = NextTuples(k, Guaranteed(k)[d-1], Within[d-1], Within[d])
  BY GuaranteedEquation DEF Base
<1>2. y \in TuplesIn(k, Within[d]) /\ y \notin TuplesIn(k, Within[d-1])
  BY <1>1 DEF NextTuples
<1>3. d - 1 \in Depths /\ node[n].g <= d - 1
  BY StatesFinite, NodeTypes DEF Base, Depths
<1>4. node[n].state \in Within[d-1]
  BY <1>3, NodesWithin
<1>5. PICK i \in 1..k : y \subseteq NoveltyAtoms /\ Cardinality(y) = i
  BY <1>2 DEF TuplesIn, Tuples
<1>6. y \in Tuples(i, node[n].state)
  BY <1>5 DEF Tuples
<1> QED BY <1>2, <1>4, <1>6 DEF TuplesIn

\* A tuple guaranteed at depth d is reached at depth d.
ReachedAt(d) ==
    \A y \in Guaranteed(width)[d] :
        \E n \in Nodes : FirstWith(n, y) /\ node[n].g = d

\* The run expanded every novel node of depth d.
AllExpanded(d) == \A n \in Nodes : node[n].g = d /\ Novel(n) => Expanded(n)

LEMMA SeedReached ==
    ASSUME Base, width # 0
    PROVE  ReachedAt(0)
<1>1. 1 \in Nodes /\ Nodes \subseteq Nat /\ 0 \notin Nodes
  <2>1. node \in Seq(NodeType) /\ node # <<>>
    BY DEF Base, TypeOK, CursorOK
  <2>2. Len(node) # 0
    BY <2>1, EmptySeq
  <2> QED BY <2>2, NodeTypes DEF Base
<1>2. node[1].g = 0 /\ node[1].state = task.init
  BY <1>1 DEF Base, NodesOK
<1> SUFFICES ASSUME NEW y \in Guaranteed(width)[0] PROVE FirstWith(1, y)
  BY <1>1, <1>2 DEF ReachedAt
<1>3. y \in TuplesIn(width, {task.init})
  BY GuaranteedEquation DEF Base
<1>4. y \subseteq AtomsOf(node[1].state)
  BY <1>2, <1>3 DEF TuplesIn, Tuples
<1> QED BY <1>1, <1>4 DEF FirstWith

\* One more level: the successor that reaches the tuple was generated.
LEMMA NextReached ==
    ASSUME Base, DepthsGrow, pending = {}, width # 0,
           NEW d \in Depths, d # 0, ReachedAt(d-1), AllExpanded(d-1)
    PROVE  ReachedAt(d)
<1> DEFINE G == Guaranteed(width)
<1> SUFFICES ASSUME NEW y \in G[d]
             PROVE  \E n \in Nodes : FirstWith(n, y) /\ node[n].g = d
  BY DEF ReachedAt
<1>1. d \in Nat /\ d - 1 \in Depths
  BY StatesFinite DEF Depths
<1>2. G[d] = NextTuples(width, G[d-1], Within[d-1], Within[d])
  BY GuaranteedEquation DEF Base
<1>3. PICK x \in G[d-1] : \A s \in Within[d-1] :
         x \subseteq AtomsOf(s) => \E z \in Successors(task, s) : y \subseteq AtomsOf(z)
  BY <1>2 DEF NextTuples
<1>4. PICK n \in Nodes : FirstWith(n, x) /\ node[n].g = d - 1
  BY <1>3 DEF ReachedAt
<1>5. \E i \in 1..width : x \subseteq NoveltyAtoms /\ Cardinality(x) = i
  <2>1. CASE d - 1 = 0
    <3>1. x \in TuplesIn(width, {task.init})
      BY <1>3, <2>1, GuaranteedEquation DEF Base
    <3> QED BY <3>1 DEF TuplesIn, Tuples
  <2>2. CASE d - 1 # 0
    <3> DEFINE e == d - 1
    <3>1. G[e] = NextTuples(width, G[e-1], Within[e-1], Within[e])
      <4> HIDE DEF e
      <4>1. e \in Depths /\ e # 0
        BY <1>1, <2>2 DEF e
      <4> QED BY <4>1, GuaranteedEquation DEF Base
    <3>2. x \in TuplesIn(width, Within[e])
      BY <1>3, <3>1 DEF NextTuples
    <3> QED BY <3>2 DEF TuplesIn, Tuples
  <2> QED BY <2>1, <2>2
<1>6. Novel(n)
  <2>1. x \subseteq AtomsOf(node[n].state)
    BY <1>4 DEF FirstWith
  <2>2. \E i \in 1..width : x \in Tuples(i, node[n].state)
    BY <1>5, <2>1 DEF Tuples
  <2> QED BY <1>4, <2>2 DEF Novel
<1>7. PICK a \in ApplicableActions(task, node[n].state) :
         y \subseteq AtomsOf(NextState(node[n].state, a))
  <2>1. node[n].state \in Within[d-1]
    BY <1>1, <1>4, NodesWithin
  <2>2. x \subseteq AtomsOf(node[n].state)
    BY <1>4 DEF FirstWith
  <2> QED BY <1>3, <2>1, <2>2 DEF Successors
<1>8. PICK m \in Nodes : node[m].parent = n /\ node[m].state = NextState(node[n].state, a)
  BY <1>4, <1>6, <1>7 DEF AllExpanded, Expanded, Child
<1>9. node[m].g = d
  <2>1. n # 0
    BY NodeTypes DEF Base
  <2>2. node[m].g = node[n].g + 1
    BY <1>8, <2>1 DEF Base, NodesOK, HasParent
  <2> QED BY <1>1, <1>4, <2>2
<1>10. PICK j \in Nodes : j <= m /\ FirstWith(j, y)
  BY <1>7, <1>8, FirstNode
<1>11. node[j].g <= d
  BY <1>9, <1>10 DEF DepthsGrow
<1>12. node[j].g >= d
  BY <1>10, NotNearer DEF FirstWith
<1>13. node[j].g = d
  BY <1>1, <1>11, <1>12, NodeTypes DEF Base
<1> QED BY <1>10, <1>13

LEMMA AllReached ==
    ASSUME Base, DepthsGrow, pending = {}, width # 0,
           NEW d \in Depths, \A e \in Depths : e < d => AllExpanded(e)
    PROVE  ReachedAt(d)
<1> DEFINE M == {k \in Nat : k <= d => ReachedAt(k)}
<1>1. Cardinality(State) \in Nat /\ d \in Nat
  BY StatesFinite DEF Depths
<1>2. 0 \in M
  BY SeedReached
<1>3. ASSUME NEW k \in M PROVE k + 1 \in M
  <2> SUFFICES ASSUME k + 1 <= d PROVE ReachedAt(k+1)
    OBVIOUS
  <2> DEFINE e == k + 1
  <2>1. e \in Depths /\ e # 0 /\ k \in Depths /\ k < d /\ e - 1 = k
    BY <1>1 DEF Depths
  <2>2. ReachedAt(k) /\ AllExpanded(k)
    BY <2>1
  <2> HIDE DEF e, M
  <2>3. ReachedAt(e)
    BY <2>1, <2>2, NextReached
  <2> QED BY <2>3 DEF e
<1>4. M = Nat
  <2>1. M \in SUBSET Nat
    OBVIOUS
  <2> HIDE DEF M
  <2> QED BY <1>2, <1>3, <2>1, Induction
<1> QED BY <1>1, <1>4

(***************************************************************************)
(* The guarantee of IW(k), for every task: although a run throws away each *)
(* state without a new tuple, it reaches every subgoal that a chain of     *)
(* tuples of size at most k leads to, and reaches it on a shortest path -  *)
(* also when it stops at the last subgoal, with nodes still in its queues. *)
(***************************************************************************)
THEOREM IWGuarantee == Spec => []WidthGuarantee
<1>1. IInv => WidthGuarantee
  <2> SUFFICES ASSUME IInv, pc = "extract",
                      NEW g \in Subgoals \ in_seed, NEW d \in 1..Cardinality(State),
                      {<<g, task.goal[g]>>} \in Guaranteed(width)[d]
               PROVE  optimal[g] # 0 /\ node[optimal[g]].g = d
    BY DEF WidthGuarantee
  <2> DEFINE y == {<<g, task.goal[g]>>}
             o == optimal[g]
  <2>1. d \in Depths /\ d # 0 /\ d \in Nat
    BY StatesFinite DEF Depths
  <2>2. /\ Base /\ DepthsGrow /\ pending = {} /\ width # 0
        /\ unreached = {} \/ OpenNodes = {}
    BY DEF IInv, StopOK, Base, CursorOK
  <2>3. PICK L \in Nat : AtLevel(L)
    BY DEF IInv, LevelsOK
  <2>4. \A n \in Nodes : y \subseteq AtomsOf(node[n].state) <=> n \in Reaching(g)
    <3>1. g \in Vars
      BY TaskTypes DEF IInv, Base
    <3> QED BY <3>1 DEF AtomsOf, Reaching, HoldsIn
  <2>5. Reaching(g) \subseteq Nodes
    BY DEF Reaching
  <2>6. /\ g \in unreached <=> Reaching(g) = {}
        /\ o = 0 <=> Reaching(g) = {}
        /\ o # 0 => o \in Reaching(g)
        /\ \A n \in Reaching(g) : o <= n
    BY <2>2 DEF IInv, GoalsOK
  <2>7. y \in Guaranteed(width)[d]
    OBVIOUS
  <2> HIDE DEF y, o
  <2>8. \A n \in Reaching(g) : node[n].g >= d
    BY <2>1, <2>2, <2>4, <2>5, <2>7, NotNearer
  <2>9. \A n \in Nodes : node[n].g \in Nat
    BY <2>2, NodeTypes DEF Base
  <2>10. ASSUME ReachedAt(d) PROVE o # 0 /\ node[o].g = d
    <3>1. PICK n \in Nodes : FirstWith(n, y) /\ node[n].g = d
      BY <2>7, <2>10 DEF ReachedAt
    <3>2. n \in Reaching(g)
      BY <2>4, <3>1 DEF FirstWith
    <3>3. o # 0 /\ o \in Nodes /\ o <= n /\ o \in Reaching(g)
      BY <2>5, <2>6, <3>2
    <3>4. node[o].g <= node[n].g
      BY <2>2, <3>3 DEF DepthsGrow
    <3> QED BY <2>1, <2>8, <2>9, <3>1, <3>3, <3>4
  <2>11. ASSUME unreached # {} PROVE ReachedAt(d)
    <3>1. \A e \in Depths : AllExpanded(e)
      BY <2>2, <2>3, <2>11 DEF AllExpanded, AtLevel
    <3> QED BY <2>1, <2>2, <3>1, AllReached
  <2>12. ASSUME d <= L PROVE ReachedAt(d)
    <3>1. \A n \in OpenNodes : node[n].g >= L
      BY <2>3, OpenFacts DEF AtLevel
    <3>2. ASSUME NEW e \in Depths, e < d PROVE AllExpanded(e)
      <4> SUFFICES ASSUME NEW n \in Nodes, node[n].g = e, Novel(n) PROVE Expanded(n)
        BY DEF AllExpanded
      <4>1. e < L /\ ~(node[n].g >= L)
        BY <2>1, <2>12, <3>2, StatesFinite DEF Depths
      <4> QED BY <2>3, <3>1, <4>1 DEF AtLevel
    <3> QED BY <2>1, <2>2, <3>2, AllReached
  <2>13. ASSUME unreached = {}, ~(d <= L) PROVE o # 0 /\ node[o].g = d
    <3>1. o # 0 /\ o \in Reaching(g) /\ o \in Nodes
      BY <2>5, <2>6, <2>13
    <3>2. node[o].g <= L + 1 /\ node[o].g >= d
      BY <2>3, <2>8, <3>1 DEF AtLevel
    <3> QED BY <2>1, <2>9, <2>13, <3>1, <3>2
  <2>14. o # 0 /\ node[o].g = d
    BY <2>10, <2>11, <2>12, <2>13
  <2> QED BY <2>14 DEF o
<1> QED BY <1>1, Invariant, PTL
=============================================================================
