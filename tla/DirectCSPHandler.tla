-------------------------- MODULE DirectCSPHandler --------------------------
(***************************************************************************)
(* DirectCSPHandler::filter as a state machine over the domains it was     *)
(* given: node consistency, then AC3, then one round of global filtering,  *)
(* then the loop that is meant to reach a fixpoint.  The arcs are taken in *)
(* the order of the constraints' addresses, that is, in any order.         *)
(*                                                                         *)
(* When filter returns Failure no caller looks at the domains again; the   *)
(* model leaves them as they were before the constraint that failed.       *)
(***************************************************************************)
EXTENDS DirectConstraints

CONSTANT Vars   \* the state variables, a set of numbers

ASSUME VarsAssumption == IsFiniteSet(Vars) /\ Vars \subseteq Nat

\* The states within domains D, and those among them that satisfy formulas F.
Within(D) == {s \in [Vars -> UNION {D[v] : v \in Vars}] : \A v \in Vars : s[v] \in D[v]}
Solutions(F, D) == {s \in Within(D) : \A i \in DOMAIN F : Satisfied(F[i], s)}

VARIABLES
    constraints,   \* _constraints, a sequence
    dom,           \* the domains, [Vars -> SUBSET Int]
    csp,           \* where filter stands: "idle", "unary", "arcs", "globals",
                   \* "loop", "done" or "aborted"
    todo,          \* the constraints still to filter in a unary or global pass
    worklist,      \* the arcs <<constraint, 1 or 2>> still to reduce
    round,         \* "first", or "loop" inside the fixpoint loop
    b_result, g_result, result

handler == <<constraints, dom, csp, todo, worklist, round, b_result, g_result, result>>

OfType(C, t) == {i \in DOMAIN C : C[i].type = t}
Arcs(C) == OfType(C, "arc") \X {1, 2}   \* initializeAC3Worklist

CheckConsistency == \A v \in Vars : dom[v] # {}

-----------------------------------------------------------------------------
\* filter(domains) is called.
StartFilter(C, D) ==
    /\ constraints' = C /\ dom' = D
    /\ csp' = IF C = << >> THEN "done" ELSE "unary"
    /\ todo' = OfType(C, "unary")
    /\ worklist' = {} /\ round' = "first"
    /\ b_result' = "Unpruned" /\ g_result' = "Unpruned" /\ result' = "Unpruned"

Return(o) == csp' = "done" /\ result' = o

\* The passes over the unary and over the global constraints follow the order
\* of _constraints.
UnaryFilter ==
    /\ csp = "unary" /\ todo # {}
    /\ LET i == Min(todo)
           c == constraints[i]
           v == c.scope[1]
           kept == UnaryKept(c, dom[v])
           o == Outcome(dom[v], kept)
       IN  /\ todo' = todo \ {i}
           /\ IF o = "Failure" THEN Return(o) /\ UNCHANGED dom
              ELSE /\ dom' = [dom EXCEPT ![v] = kept]
                   /\ result' = IF o = "Pruned" THEN o ELSE result
                   /\ UNCHANGED csp
    /\ UNCHANGED <<constraints, worklist, round, b_result, g_result>>

UnaryDone ==
    /\ csp = "unary" /\ todo = {}
    /\ IF OfType(constraints, "unary") = DOMAIN constraints
       THEN csp' = "done" /\ UNCHANGED worklist
       ELSE csp' = "arcs" /\ worklist' = Arcs(constraints)
    /\ UNCHANGED <<constraints, dom, todo, round, b_result, g_result, result>>

-----------------------------------------------------------------------------
(***************************************************************************)
(* binaryFiltering.  The arcs of the other constraints on the variable v   *)
(* that was pruned by constraint c come back: the arc of their other       *)
(* variable.                                                               *)
(***************************************************************************)
SameVariable(c, v) ==   \* slip: the arc of the variable that was pruned
    {<<k, IF constraints[k].scope[1] = v THEN 1 ELSE 2>> :
        k \in {d \in OfType(constraints, "arc") \ {c} :
                  v \in {constraints[d].scope[1], constraints[d].scope[2]}}}

Reinserted(c, v) ==
    {<<k, IF constraints[k].scope[1] = v THEN 2 ELSE 1>> :
        k \in {d \in OfType(constraints, "arc") \ {c} :
                  v \in {constraints[d].scope[1], constraints[d].scope[2]}}}

Reconsidered(o, c, v) == IF o = "Pruned" THEN Reinserted(c, v) ELSE {}

ArcReduce ==
    /\ csp = "arcs"
    /\ \E a \in worklist :
        LET c == constraints[a[1]]
            v == c.scope[a[2]]
            kept == ArcKept(c, a[2], dom[v], dom[c.scope[3 - a[2]]])
            o == Outcome(dom[v], kept)
        IN  IF MissingEntry(c, a[2], dom[v])
            THEN csp' = "aborted" /\ UNCHANGED <<dom, worklist, b_result, result>>
            ELSE IF o = "Failure"
            THEN Return(o) /\ UNCHANGED <<dom, worklist, b_result>>
            ELSE /\ dom' = [dom EXCEPT ![v] = kept]
                 /\ worklist' = (worklist \ {a}) \cup Reconsidered(o, a[1], v)
                 /\ b_result' = IF o = "Pruned" THEN o ELSE b_result
                 /\ UNCHANGED <<csp, result>>
    /\ UNCHANGED <<constraints, todo, round, g_result>>

\* In the loop global filtering is done only after a pruning.
GlobalsFollow == round = "first" \/ b_result = "Pruned"

ArcsDone ==
    /\ csp = "arcs" /\ worklist = {}
    /\ IF GlobalsFollow
       THEN csp' = "globals" /\ todo' = OfType(constraints, "custom") /\ g_result' = "Unpruned"
       ELSE csp' = "loop" /\ UNCHANGED <<todo, g_result>>
    /\ UNCHANGED <<constraints, dom, worklist, round, b_result, result>>

-----------------------------------------------------------------------------
Project(c) == [i \in DOMAIN c.scope |-> dom[c.scope[i]]]

\* The domains once those of the scope of c are replaced by E.
Updated(c, E) ==
    [v \in Vars |->
        IF \E i \in DOMAIN c.scope : c.scope[i] = v
        THEN E[CHOOSE i \in DOMAIN c.scope : c.scope[i] = v] ELSE dom[v]]

\* globalFiltering.  A failure inside the loop only ends the loop.
GlobalFilter ==
    /\ csp = "globals" /\ todo # {}
    /\ LET i == Min(todo)
           c == constraints[i]
       IN  /\ todo' = todo \ {i}
           /\ \E E \in FilterCustom(c, Project(c)) :
                IF E.failed
                THEN /\ g_result' = "Failure"
                     /\ IF round = "first" THEN Return("Failure")
                        ELSE csp' = "loop" /\ UNCHANGED result
                     /\ UNCHANGED dom
                ELSE /\ dom' = Updated(c, E.dom)
                     /\ g_result' = IF E.dom # Project(c) THEN "Pruned" ELSE g_result
                     /\ UNCHANGED <<csp, result>>
    /\ UNCHANGED <<constraints, worklist, round, b_result>>

\* Before the loop the partial results are merged into the final one.
Merged == IF round = "first" /\ "Pruned" \in {b_result, g_result} THEN "Pruned" ELSE result

GlobalsDone ==
    /\ csp = "globals" /\ todo = {}
    /\ csp' = "loop"
    /\ result' = Merged
    /\ UNCHANGED <<constraints, dom, todo, worklist, round, b_result, g_result>>

-----------------------------------------------------------------------------
\* The loop condition.  binaryFiltering gets the worklist of the first call,
\* which is empty by now.
Refilter ==
    /\ csp = "loop" /\ b_result = "Pruned" /\ g_result = "Pruned"
    /\ csp' = "arcs" /\ round' = "loop" /\ b_result' = "Unpruned"
    /\ UNCHANGED <<constraints, dom, todo, worklist, g_result, result>>

LeaveLoop ==
    /\ csp = "loop" /\ (b_result # "Pruned" \/ g_result # "Pruned")
    /\ csp' = "done"
    /\ UNCHANGED <<constraints, dom, todo, worklist, round, b_result, g_result, result>>

FilterStep ==
    \/ UnaryFilter \/ UnaryDone
    \/ ArcReduce \/ ArcsDone
    \/ GlobalFilter \/ GlobalsDone
    \/ Refilter \/ LeaveLoop
=============================================================================
