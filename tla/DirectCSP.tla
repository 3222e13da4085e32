------------------------------ MODULE DirectCSP ------------------------------
(***************************************************************************)
(* One call of DirectCSPHandler::filter on a set of formulas, and what the *)
(* call promises: no solution of the formulas is lost, a failure means     *)
(* that there is none, and what is left is locally consistent.             *)
(***************************************************************************)
EXTENDS DirectCSPHandler

CONSTANT Problems   \* records [formulas, dom]: what filter may be called with

ASSUME ProblemsAssumption ==
    \A p \in Problems :
        /\ p.dom \in [Vars -> SUBSET Int]
        /\ \A v \in Vars : p.dom[v] # {} /\ IsFiniteSet(p.dom[v])
        /\ p.formulas \in Seq(FormulaType)
        /\ \A i \in DOMAIN p.formulas :
              Supported(p.formulas[i]) /\ VarsOf(p.formulas[i]) \subseteq Vars

VARIABLE problem

callVars == <<problem, handler>>

CallInit ==
    /\ problem \in Problems
    /\ constraints = << >> /\ dom = problem.dom
    /\ csp = "idle" /\ todo = {} /\ worklist = {} /\ round = "first"
    /\ b_result = "Unpruned" /\ g_result = "Unpruned" /\ result = "Unpruned"

Formulas == problem.formulas

Call ==
    /\ csp = "idle"
    /\ StartFilter([i \in DOMAIN Formulas |-> Translate(Formulas[i])], dom)
    /\ UNCHANGED problem

CallNext == Call \/ (FilterStep /\ UNCHANGED problem)

\* filter is plain sequential code: it runs until it returns.
CallSpec == CallInit /\ [][CallNext]_callVars /\ WF_callVars(CallNext)

-----------------------------------------------------------------------------
\* Filtering never loses a solution: every state within the original domains
\* that satisfies all formulas is still within the domains, at every moment
\* (all filter functions together; a lost solution makes a heuristic claim
\* dead ends that are none).  Filter returns Failure only if there is no
\* solution: the relaxed state is not a goal, the action not applicable.  And
\* between two filter steps that report no failure no domain is empty or has
\* a value it did not start with, as the assertions of builtin.cxx and the
\* reads of cbegin() and crbegin() require.
FilteringSound ==
    /\ \A v \in Vars : dom[v] \subseteq problem.dom[v]
    /\ CheckConsistency
    /\ Solutions(Formulas, problem.dom) \subseteq Within(dom)
    /\ csp = "done" /\ result = "Failure" => Solutions(Formulas, problem.dom) = {}

\* E is locally consistent: each value has a support in each formula.
LocallyConsistent(F, E) ==
    \A i \in DOMAIN F : \A v \in VarsOf(F[i]) : \A x \in E[v] :
        \E s \in Within(E) : s[v] = x /\ Satisfied(F[i], s)

IsBinary(f) == f.op \notin {"alldiff", "sum"}
Subdomains(D) == {E \in [Vars -> SUBSET UNION {D[v] : v \in Vars}] : \A v \in Vars : E[v] \subseteq D[v]}
Join(S) == [v \in Vars |-> UNION {E[v] : E \in S}]

\* Without global constraints a call that succeeds leaves exactly the largest
\* locally consistent domains, in whatever order the arcs were taken: nothing
\* that could be pruned stays and nothing else goes.  AC3 does not put back
\* the arcs of the constraint it has just used, nor those of the variable it
\* has just pruned.
ArcConsistencyReached ==
    csp = "done" /\ result # "Failure" /\ (\A i \in DOMAIN Formulas : IsBinary(Formulas[i]))
        => dom = Join({E \in Subdomains(problem.dom) : LocallyConsistent(Formulas, E)})

\* On a complete assignment (each domain a single value, as in the last steps
\* of extractGoalCauses) filtering decides the formulas.
AssignmentsDecided ==
    csp = "done" /\ (\A v \in Vars : Cardinality(problem.dom[v]) = 1)
        => (result # "Failure" <=> Solutions(Formulas, problem.dom) # {})

\* An alldiff constraint filtered alone leaves bounds-consistent domains
\* ("Computing bound consistent domains is done in two passes"): the least and
\* the greatest value of each variable belong to an assignment of different
\* values that takes each variable between its bounds.
Hull(D) == [v \in Vars |-> Min(D[v])..Max(D[v])]
BoundsConsistent ==
    csp = "done" /\ result # "Failure" /\ Len(Formulas) = 1 /\ Formulas[1].op = "alldiff"
        => \A v \in VarsOf(Formulas[1]) : \A x \in {Min(dom[v]), Max(dom[v])} :
              \E s \in Within(Hull(dom)) : s[v] = x /\ Satisfied(Formulas[1], s)

\* What is left when filter succeeds is what its filters can decide.
FilteringComplete == ArcConsistencyReached /\ AssignmentsDecided /\ BoundsConsistent
=============================================================================
