------------------------------ MODULE MCSBFWS -------------------------------
(***************************************************************************)
(* Instances of SBFWS for TLC: every task over three Boolean variables     *)
(* with three actions out of a small pool and a goal of one or two atoms.  *)
(***************************************************************************)
EXTENDS SBFWSInvariants, FiniteSetsExt, TLC

MCVars == {"x", "y", "z"}
MCVals == {0, 1}

Sets(v)          == v :> 1
Clears(v)        == v :> 0
Op(p, e)         == [pre |-> p, eff |-> e]
Anytime          == << >>
Start            == [v \in MCVars |-> IF v = "x" THEN 1 ELSE 0]

\* Chains, side effects that destroy a subgoal, detours and shortcuts.
Pool == {
    Op(Anytime,                  Sets("x")),
    Op(Anytime,                  Sets("y") @@ Clears("x")),
    Op(Sets("x"),                Sets("y")),
    Op(Sets("y"),                Sets("z") @@ Clears("x")),
    Op(Sets("x"),                Clears("x") @@ Sets("z")),
    Op(Sets("x") @@ Sets("y"),   Sets("z")),
    Op(Sets("z"),                Sets("x") @@ Clears("y")),
    Op(Clears("z"),              Sets("x") @@ Sets("y")),
    Op(Sets("z"),                Clears("z") @@ Sets("y")),
    Op(Anytime,                  Clears("x")) }

Goals == {Sets("z"), Sets("x") @@ Sets("z"), Sets("x") @@ Sets("y") @@ Sets("z")}

MCTasks == [init : {Start}, goal : Goals, actions : kSubset(4, Pool)]

\* Tasks whose initial state may already satisfy the goal.
TrivialTasks == [init : {Start, [Start EXCEPT !["z"] = 1]}, goal : {Sets("z")},
                 actions : kSubset(2, Pool)]

AllAtoms      == MCVars \X MCVals
PositiveAtoms == MCVars \X {1}
MCRelevantSets == {PositiveAtoms, {<<"x", 1>>, <<"y", 0>>}}
=============================================================================
