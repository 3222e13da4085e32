---------------------------- MODULE PlanningTask ----------------------------
(***************************************************************************)
(* The planning problem that every search of the planner runs on, as       *)
(* SimpleStateModel presents it: a state gives each state variable a value *)
(* an action has a precondition and an effect, and the goal is a           *)
(* conjunction of atoms (its subgoals).                                    *)
(*                                                                         *)
(* Preconditions, effects and goals are partial assignments: functions     *)
(* from some of the variables to values.  Conditional effects, nested      *)
(* terms, bounds and state constraints are the matter of the applicability *)
(* component and are left out here.                                        *)
(***************************************************************************)
EXTENDS Integers, FiniteSets, Sequences

CONSTANTS
    Vars,   \* the state variables
    Vals,   \* the values a variable can take (ObjectIdx)
    Tasks   \* the problems to consider

State == [Vars -> Vals]

\* A partial assignment binds some of the variables.
PartialAssignment == UNION {[D -> Vals] : D \in SUBSET Vars}

Action == [pre : PartialAssignment, eff : PartialAssignment]

TaskType == [init : State, goal : PartialAssignment, actions : SUBSET Action]

ASSUME VarsAssumption == IsFiniteSet(Vars)
ASSUME ValsAssumption == IsFiniteSet(Vals)
ASSUME TasksAssumption == Tasks \subseteq TaskType

Atom == Vars \X Vals

\* An atom is a variable together with the value it has in the state.
AtomsOf(s) == {<<v, s[v]>> : v \in Vars}

\* The variables on which state s disagrees with a partial assignment.
Violated(p, s) == {v \in DOMAIN p : s[v] # p[v]}

Satisfies(s, p) == Violated(p, s) = {}

ApplicableActions(t, s) == {a \in t.actions : Satisfies(s, a.pre)}

\* Copy the state and overwrite the variables the effect mentions.
NextState(s, a) == [v \in Vars |-> IF v \in DOMAIN a.eff THEN a.eff[v] ELSE s[v]]

IsGoal(t, s) == Satisfies(s, t.goal)

\* #g(s): how many conjuncts of the goal do not hold in s.
UnachievedSubgoals(t, s) == Cardinality(Violated(t.goal, s))

Successors(t, s) == {NextState(s, a) : a \in ApplicableActions(t, s)}

(***************************************************************************)
(* A set of states that holds the initial state, no goal state, and every  *)
(* successor of its members: exhibiting one proves the task unsolvable.    *)
(***************************************************************************)
UnsolvabilityCertificate(t, C) ==
    /\ t.init \in C
    /\ \A s \in C : ~IsGoal(t, s) /\ Successors(t, s) \subseteq C

(***************************************************************************)
(* The states plan p goes through from s, and what it means for p to solve *)
(* the task from there (the check of Checker::check_correctness).          *)
(***************************************************************************)
Trajectory(s, p) ==
    LET at[i \in 0..Len(p)] == IF i = 0 THEN s ELSE NextState(at[i-1], p[i])
    IN  at

Solves(t, s, p) ==
    LET at == Trajectory(s, p)
    IN  /\ \A i \in 1..Len(p) : p[i] \in ApplicableActions(t, at[i-1])
        /\ IsGoal(t, at[Len(p)])

\* The states from which t's goal can be reached within k actions, and at all.
SolvableIn(t) ==
    LET in[k \in 0..Cardinality(State)] ==
            IF k = 0 THEN {s \in State : IsGoal(t, s)}
            ELSE in[k-1] \cup {s \in State : Successors(t, s) \cap in[k-1] # {}}
    IN  in
Solvable(t) == SolvableIn(t)[Cardinality(State)]
=============================================================================
