-------------------------- MODULE SBFWSInvariants ---------------------------
(***************************************************************************)
(* The inductive invariants behind the properties of SBFWS, in layers: the *)
(* bookkeeping of nodes and cursor, the queues, and what was explored.     *)
(***************************************************************************)
EXTENDS SBFWS

\* A node other than the root comes from its parent by an applicable action.
NodesOK ==
    \A n \in Nodes :
        /\ Parent(n) \in 0..(n-1)
        /\ HasParent(n) =>
             /\ node[n].action \in ApplicableActions(task, node[Parent(n)].state)
             /\ node[n].state = NextState(node[Parent(n)].state, node[n].action)
        /\ ~HasParent(n) => node[n].state = task.init

\* cur is a node whenever it is used, and the loops do not overlap.
CursorOK ==
    /\ pc = "start" => node = <<>>
    /\ pc \in {"wgr1", "wgr2", "extract"} \/ pending # {} => cur \in Nodes
    /\ pending # {} => /\ pc = "loop" /\ solution = 0
                       /\ pending \subseteq ApplicableActions(task, node[cur].state)
    /\ pc \in {"wgr1", "wgr2"} => solution = 0
    /\ stack # <<>> => pc \in {"wgr1", "wgr2"} /\ UseR

\* The sets an evaluation needs are cached, or a call for them is pending.
CallsOK ==
    pc \in {"wgr1", "wgr2"} /\ UseR =>
        \A m \in {cur, Parent(cur)} \ {0} :
            relevant[m] # None \/ \E i \in 1..Len(stack) : stack[i] = m

Bookkeeping == TypeOK /\ NodesOK /\ CursorOK /\ CallsOK

(***************************************************************************)
(* A queue of an earlier novelty test is contained in the queues of the    *)
(* later tests, so a node that fails one test still waits for the next.    *)
(***************************************************************************)
QueuesOK ==
    /\ closed = {node[n].state : n \in processed}
    /\ OpenNodes \cup processed \cup InEvaluation \subseteq Queued
    /\ q1 \subseteq qwgr1 /\ q1 \cap processed = {}
    /\ pc \in {"wgr1", "wgr2"} => q1 = {}
    /\ NoveltyLevels = 3 => qwgr1 \subseteq qwgr2 /\ (pc = "wgr1" => cur \in qwgr2)
    /\ NoveltyLevels = 2 => qwgr2 = {} /\ pc # "wgr2"

(***************************************************************************)
(* Until a solution is found, every successor of an expanded node is a     *)
(* known node or still pending, and no queued node is a goal.  A solution  *)
(* is a goal whose parent was expanded.                                    *)
(***************************************************************************)
ExploredOK ==
    /\ pending # {} => cur \in processed
    /\ solution = 0 => \A n \in processed : \A a \in ApplicableActions(task, node[n].state) :
            \/ n = cur /\ a \in pending
            \/ \E m \in Queued : node[m].state = NextState(node[n].state, a)
    /\ solution # 0 => /\ HasParent(solution) /\ Parent(solution) \in processed
                       /\ IsGoal(task, node[solution].state)
    /\ \A n \in Queued : ~IsGoal(task, node[n].state)
    /\ pc # "start" /\ ~IsGoal(task, task.init) => \E n \in Queued : node[n].state = task.init

\* The answer is given at the end; a plan comes from a solution.
AnswerOK ==
    /\ pc = "start" => Queued = {} /\ processed = {}
    /\ pc = "extract" => solution # 0
    /\ pc = "done" <=> result # "none"
    /\ result = "plan" => solution # 0
    /\ result = "no_plan" => solution = 0 /\ OpenNodes = {}

\* All layers together: an inductive invariant of the search.
SearchInv ==
    /\ Bookkeeping /\ QueuesOK /\ OneNodePerState /\ NothingLost
    /\ ExploredOK /\ AnswerOK

-----------------------------------------------------------------------------
(***************************************************************************)
(* Relevant atom sets: a set is cached only when the one it is derived     *)
(* from is, and says what one step of the path adds to it.                 *)
(***************************************************************************)
AtomSetsOK ==
    \A n \in Nodes : relevant[n] # None =>
        IF DecreasesUnachieved(n)
        THEN /\ relevant[n].reached = AtomsOf(node[n].state) \cap relevant[n].rel
             /\ relevant[n].num = 0
        ELSE /\ relevant[Parent(n)] # None
             /\ relevant[n] = UpdateAtomSet(relevant[Parent(n)], node[n].state)

\* Paths grow by one action, and only expanded nodes have children.
DepthsOK ==
    \A n \in Nodes : HasParent(n) => /\ node[n].g = node[Parent(n)].g + 1
                                     /\ Parent(n) \in processed

(***************************************************************************)
(* Where a node stands in its novelty tests: it waits in the queue of a    *)
(* test until it is taken off for it, and is never put back.               *)
(***************************************************************************)
TestsOK ==
    /\ pc = "wgr1" => cur \notin qwgr1
    /\ pc = "wgr2" => cur \notin qwgr2 /\ w_gr[cur] \in {"One", "GTOne"}
    /\ \A n \in Queued : w_gr[n] = "Unknown" <=> n \in qwgr1 \/ (pc = "wgr1" /\ n = cur)
    /\ \A n \in qwgr2 : w_gr[n] \in {"Unknown", "One", "GTOne"}
    /\ UseR => \A n \in Queued : w_gr[n] # "Unknown" => relevant[n] # None

\* A node is tested after its parent, if they have the same #g.
ParentsFirst ==
    pc \in {"wgr1", "wgr2"} =>
        (HasParent(cur) /\ node[cur].unachieved = node[Parent(cur)].unachieved =>
            Parent(cur) \notin IF pc = "wgr1" THEN qwgr1 ELSE qwgr2)

\* What a node has to leave in the three table families.
LeftInTables(n) ==
    /\ Entries(1, node[n].unachieved, node[n].state) \subseteq wg1_table
    /\ UseR /\ w_gr[n] # "Unknown" => Entries(1, ComplexType(n), node[n].state) \subseteq wgr1_table
    /\ NoveltyLevels = 3 /\ n \notin qwgr2 \cup InEvaluation
          => Entries(2, ComplexType(n), node[n].state) \subseteq wgr2_table

TablesOK == \A n \in Queued : LeftInTables(n)

\* What pruning relies on: q1 has nodes of novelty 1, and the last queue none.
PruningOK ==
    /\ \A n \in q1 : node[n].w_g = "One"
    /\ Pruning => qrest = {}
    /\ PruningIsStrict

NoveltyInv == AtomSetsOK /\ DepthsOK /\ TestsOK /\ ParentsFirst /\ TablesOK /\ PruningOK
=============================================================================
