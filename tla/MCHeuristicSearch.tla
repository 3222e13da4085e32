------------------------- MODULE MCHeuristicSearch --------------------------
(***************************************************************************)
(* Instances of HeuristicSearch for TLC: tasks over three Boolean          *)
(* variables, five estimates of four kinds with two choices of relevant    *)
(* atoms, and every combination of driver and options.                     *)
(***************************************************************************)
EXTENDS HeuristicSearch, FiniteSetsExt, TLC

MCVars == {"x", "y", "z"}
MCVals == {0, 1}

Sets(v)   == v :> 1
Clears(v) == v :> 0
Op(p, e)  == [pre |-> p, eff |-> e]
Anytime   == << >>
Start     == [v \in MCVars |-> IF v = "x" THEN 1 ELSE 0]

Pool == {
    Op(Anytime,                  Sets("y") @@ Clears("x")),
    Op(Sets("y"),                Sets("x")),
    Op(Sets("x"),                Sets("y")),
    Op(Sets("x") @@ Sets("y"),   Sets("z") @@ Clears("y")),
    Op(Sets("z"),                Clears("x")),
    Op(Clears("z"),              Clears("y")) }

\* x y z is reached along a path of three steps and along one of two.
Detour == [init |-> Start, goal |-> Clears("x") @@ Sets("y") @@ Sets("z"), actions |-> {
    Op(Anytime,                               Sets("y") @@ Clears("x")),
    Op(Sets("y") @@ Clears("z"),              Sets("x")),
    Op(Sets("x") @@ Sets("y"),                Sets("z")),
    Op(Clears("y") @@ Sets("x"),              Sets("z")),
    Op(Sets("z") @@ Clears("y"),              Sets("y")),
    Op(Sets("x") @@ Sets("y") @@ Sets("z"),   Clears("x"))}]

MCTasks == [init : {Start}, goal : {Sets("z"), Sets("y") @@ Sets("z")},
            actions : kSubset(3, Pool)] \cup {Detour}

\* The length of the shortest plan, for a solvable state.
Distance(t, s) ==
    LET in == SolvableIn(t)
    IN  Min({k \in 0..Cardinality(State) : s \in in[k]})

\* An estimate of its own for every quality; dead ends are detected or not.
Estimates(t) ==
    LET solvable == Solvable(t)
        Graded(E(_), dead) ==
            [s \in State |-> IF IsGoal(t, s) THEN 0
                             ELSE IF s \in solvable THEN E(s) ELSE dead]
        Exact(s)      == Distance(t, s)
        Misleading(s) == 9 - Distance(t, s)
        Blind(s)      == 1
        Subgoals(s)   == UnachievedSubgoals(t, s)
    IN  {Graded(Exact, -1), Graded(Misleading, -1), Graded(Misleading, 1),
         Graded(Blind, 1), Graded(Subgoals, 1)}

MCHeuristics(t) ==
    {[h |-> e, relevant |-> [s \in State |-> IF e[s] > 0 THEN R ELSE {}]] :
        e \in Estimates(t), R \in {{<<"y", 1>>}, {<<"x", 1>>, <<"z", 1>>}}}

Options(driver, ehc, helpful) ==
    [driver : {driver}, ehc : {ehc}, helpful_actions : {helpful}, evaluation : Evaluations]

MCConfigs == Options("plain", FALSE, FALSE) \cup Options("smart", FALSE, FALSE)
             \cup Options("smart", TRUE, FALSE) \cup Options("smart", TRUE, TRUE)
=============================================================================
