------------------------------ MODULE MCIWRun -------------------------------
(***************************************************************************)
(* Instances of IWRun for TLC: tasks over three Boolean variables, small   *)
(* enough that every order of the applicable actions is explored.          *)
(***************************************************************************)
EXTENDS IWRun

MCVars == {"x", "y", "z"}
MCVals == {0, 1, 2}

Sets(v)   == v :> 1
Clears(v) == v :> 0
Op(p, e)  == [pre |-> p, eff |-> e]
Anytime   == << >>
AllZero   == [v \in MCVars |-> 0]
Start     == [AllZero EXCEPT !["x"] = 1]

Turns(v)  == v :> 2

Pool == {
    Op(Anytime,                  Sets("x")),
    Op(Sets("x"),                Sets("y") @@ Clears("x")),
    Op(Sets("x"),                Sets("y")),
    Op(Sets("y") @@ Clears("x"), Turns("y")),
    Op(Turns("y"),               Sets("z")),
    Op(Sets("x") @@ Sets("y"),   Sets("z")),
    Op(Sets("y"),                Sets("z") @@ Clears("x")),
    Op(Sets("z"),                Sets("x") @@ Clears("y")) }

Goals == {Sets("z"), Sets("x") @@ Sets("z"), Sets("y") @@ Sets("z"), Turns("y") @@ Sets("z")}

\* The nodes of novelty 1 lead to the goal on a longer way than one of novelty 2.
Detour == {Op(Sets("x"),                Sets("y") @@ Clears("x")),
           Op(Sets("x"),                Sets("y")),
           Op(Sets("y") @@ Clears("x"), Turns("y")),
           Op(Turns("y"),               Sets("z")),
           Op(Sets("x") @@ Sets("y"),   Sets("z"))}

MCTasks == [init : {Start, AllZero}, goal : Goals, actions : kSubset(3, Pool)]
           \cup [init : {Start}, goal : Goals, actions : {Detour}]

PositiveAtoms == MCVars \X {1, 2}

Setting(m, w, g, c) == [method |-> m, max_width |-> w, goal_directed |-> g, too_many_actions |-> c]

\* One setting for each way through compute_R.
AllConfigs == {
    Setting("r_all", 1, FALSE, FALSE),
    Setting("plain", 1, FALSE, FALSE), Setting("plain", 1, TRUE, FALSE),
    Setting("plain", 2, FALSE, FALSE),
    Setting("r_g_prime", 1, FALSE, FALSE), Setting("r_g_prime", 2, FALSE, FALSE),
    Setting("r_g_prime", 2, FALSE, TRUE),
    Setting("adaptive", 2, FALSE, FALSE) }
=============================================================================
