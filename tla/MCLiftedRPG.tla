----------------------------- MODULE MCLiftedRPG ------------------------------
(***************************************************************************)
(* Instances of LiftedRPG for TLC: a robot that carries balls between two  *)
(* rooms, with functions, nested fluents, predicates with and without an   *)
(* argument, conditional effects, existential goals and state constraints. *)
(***************************************************************************)
EXTENDS LiftedRPG

Rooms == {1, 2}
MCObjects == Rooms
MCArity == [at |-> 0, in |-> 1, door |-> 1, next |-> 1, power |-> 0, done |-> 0]
MCValues == [at |-> Rooms, in |-> Rooms, door |-> {0, 1}, next |-> Rooms, power |-> {0, 1}, done |-> {0, 1}]
MCPredicates == {"door", "power", "done"}

At == Fluent("at", << >>)
In(t) == Fluent("in", <<t>>)
Door(t) == Fluent("door", <<t>>)
NextOf(t) == Fluent("next", <<t>>)
Power == Fluent("power", << >>)
Done == Fluent("done", << >>)
X == Param("x")
Y == Param("y")
Eq(a, b) == Cond("=", a, b)
Neq(a, b) == Cond("#", a, b)

Eff(cond, l, r) == [cond |-> cond, lhs |-> l, rhs |-> r]
Action(name, params, pre, effs) == [name |-> name, params |-> params, pre |-> pre, effs |-> effs]
One == "x" :> Rooms
Two == "x" :> Rooms @@ "y" :> Rooms

\* The robot moves through a door; x is a room.
Move == Action("move", One, {Neq(At, X), Atom(Door(X))}, <<Eff({}, At, X), Eff({}, Door(X), Const(0))>>)
\* Ball x is taken where the robot goes next, if the power is on.
Carry == Action("carry", One, {Eq(In(X), At), Atom(Power)}, <<Eff({}, In(X), NextOf(At))>>)
\* A switch in room 1, and a door that it opens.
Switch == Action("switch", << >>, {Eq(At, Const(1))}, <<Eff({}, Power, Const(1))>>)
Open == Action("open", One, {Atom(Power), Neq(X, At)}, <<Eff({}, Door(X), Const(1)), Eff({}, Power, Const(0))>>)
\* The next of the room where ball x is becomes y, and its door opens if x and y differ.
Turn == Action("turn", Two, {Eq(In(X), In(Y))}, <<Eff({}, NextOf(In(X)), Y), Eff({Neq(X, Y)}, Door(In(X)), Const(1))>>)
\* Two effects at once.
Reset == Action("reset", One, {Eq(At, In(X))}, <<Eff({}, NextOf(X), X), Eff({}, In(X), X)>>)
Finish == Action("finish", << >>, {Eq(NextOf(In(Const(1))), Const(2))}, <<Eff({}, Done, Const(1))>>)

\* Balls x and y, which may be the same, are in rooms 1 and 2.
Meet == Action("meet", Two, {Eq(In(X), Const(1)), Eq(In(Y), Const(2))}, <<Eff({}, Done, Const(1))>>)
\* The same with ball 1 for x; and two open doors.
MeetFirst == Action("meet_first", One, {Eq(In(Const(1)), Const(1)), Eq(In(X), Const(2))}, <<Eff({}, Done, Const(1))>>)
Air == Action("air", Two, {Atom(Door(X)), Atom(Door(Y)), Neq(X, At)}, <<Eff({}, Done, Const(1))>>)
Push == Action("push", One, {Neq(In(X), Const(2))}, <<Eff({}, In(X), Const(2))>>)

Formula(params, conds) == [params |-> params, conds |-> conds]
Delivered == Formula(<< >>, {Eq(At, Const(2)), Eq(In(Const(1)), Const(2))})
Finished == Formula(<< >>, {Atom(Done)})
SomeOpen == Formula(One, {Atom(Door(X)), Eq(NextOf(X), X), Neq(In(X), X)})
HereOpen == Formula(<< >>, {Atom(Door(At)), Eq(NextOf(At), Const(2))})

StateOf(at, in1, in2, door1, door2, next1, next2, power) ==
    [v \in Vars |->
        CASE v[1] = "at" -> at
          [] v[1] = "in" -> IF v[2] = <<1>> THEN in1 ELSE in2
          [] v[1] = "door" -> IF v[2] = <<1>> THEN door1 ELSE door2
          [] v[1] = "next" -> IF v[2] = <<1>> THEN next1 ELSE next2
          [] v[1] = "power" -> power
          [] v[1] = "done" -> 0]

Start == StateOf(1, 1, 1, 0, 0, 2, 1, 0)
Inits == {Start, StateOf(2, 1, 2, 1, 0, 1, 1, 1)}

Task(init, actions, goal, constraints) ==
    [init |-> init, actions |-> actions, goal |-> goal, constraints |-> constraints]

Tasks(actions, goals) == {Task(i, actions, g, {}) : i \in Inits, g \in goals}

AllTasks ==
    Tasks(<<Move, Switch, Open>>, {HereOpen})
    \cup Tasks(<<Move, Carry, Turn>>, {SomeOpen})
    \cup Tasks(<<Turn, Finish>>, {Finished})
    \cup Tasks(<<Reset, Move, Carry>>, {Delivered})
    \cup Tasks(<<Switch, Carry, Reset>>, {Delivered, HereOpen})
    \cup Tasks(<<Reset, Finish>>, {Finished})
    \cup Tasks(<<Carry, Turn, Finish, Switch>>, {Finished})
    \cup Tasks(<<Push, MeetFirst>>, {Finished})
    \cup Tasks(<<Push, Meet>>, {Finished})
    \cup Tasks(<<Open, Switch, Air>>, {Finished})
    \cup {Task(Start, actions, Delivered, {Neq(In(Const(1)), NextOf(In(Const(2))))})
              : actions \in {<<Move, Carry, Turn>>, <<Move, Switch, Carry, Reset>>}}

MCConfigs ==
    {[mode |-> "smart", novelty |-> n, reachability |-> r, hmax |-> FALSE] : n \in BOOLEAN, r \in BOOLEAN}
    \cup {[mode |-> "unreached", novelty |-> n, reachability |-> FALSE, hmax |-> FALSE] : n \in BOOLEAN}
    \cup {[mode |-> "ground", novelty |-> n, reachability |-> FALSE, hmax |-> m] : n \in BOOLEAN, m \in BOOLEAN}
    \cup {[mode |-> "lifted", novelty |-> n, reachability |-> FALSE, hmax |-> FALSE] : n \in BOOLEAN}

\* The symbols of nested fluents outside effects and goal, as the drivers
\* have them.
Looked(t, mode) ==
    LET conds == t.constraints \cup UNION {t.actions[i].pre \cup UNION {e.cond : e \in ToSet(t.actions[i].effs)} : i \in DOMAIN t.actions}
    IN  NestedSymbols(CondTerms(conds), ConstantKinds(mode))

\* No effect depends on two nested fluents of one function.
NestedOnce(t, mode) ==
    \A a \in ToSet(t.actions) : \A e \in ToSet(a.effs) :
        LET terms == {u \in CondTerms(a.pre) \cup EffectTerms(e) : IsFluent(u) /\ ~IsPredicate(u)}
            nested == {u \in terms : \E i \in DOMAIN u.sub : u.sub[i].kind \notin ConstantKinds(mode)}
        IN  \A u, v \in nested : u.name = v.name => u = v

AllInstances == {[task |-> t, config |-> g] : t \in AllTasks, g \in MCConfigs}

\* The driver takes the task, and what its handlers look up has an extension.
Fit(n) ==
    /\ n.config.mode # "smart" => Unconditional(n.task)
    /\ Looked(n.task, n.config.mode) \subseteq ManagedSymbols(n.task, n.config.mode)

\* Those whose supports are recorded whole, and one whose are not.
MCInstances ==
    {n \in AllInstances : Fit(n) /\ (n.config.mode \in {"lifted", "ground"} => NestedOnce(n.task, n.config.mode))}
RepeatedInstances ==
    {[task |-> Task(Start, <<Push, Meet>>, Finished, {}),
      config |-> [mode |-> "lifted", novelty |-> FALSE, reachability |-> FALSE, hmax |-> FALSE]]}
=============================================================================
