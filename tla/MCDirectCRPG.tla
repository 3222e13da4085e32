---------------------------- MODULE MCDirectCRPG -----------------------------
(***************************************************************************)
(* Instances of DirectCRPG for TLC: three variables with values 0..2 and   *)
(* sequences of up to three actions from a pool.                           *)
(***************************************************************************)
EXTENDS DirectCRPG

MCVars == {0, 1, 2}

x == VarT(0)
y == VarT(1)
z == VarT(2)

Rel(op, a, b) == [op |-> op, args |-> <<a, b>>, ext |-> {}]
AllDiff == [op |-> "alldiff", args |-> <<x, y, z>>, ext |-> {}]
Circle == [op |-> "table", args |-> <<x, y>>, ext |-> {<<0, 1>>, <<1, 2>>, <<2, 0>>}]

Effect(v, op, a, b) == [var |-> v.idx, rhs |-> [op |-> op, args |-> <<a, b>>]]
Copy(v, a) == Effect(v, "=", a, ConstT(0))
Action(pre, eff) == [pre |-> pre, eff |-> eff]

Pool == {
    Action(<< >>, <<Effect(x, "+", x, ConstT(1))>>),
    Action(<<Rel("<", ConstT(0), x)>>, <<Effect(y, "-", x, ConstT(1))>>),
    Action(<<Rel("!=", x, ConstT(0))>>, <<Copy(y, x), Copy(z, ConstT(1))>>),
    Action(<<Rel("=", y, ConstT(1))>>, <<Effect(z, "*", ConstT(2), y), Copy(x, ConstT(0))>>),
    Action(<<Rel("<=", ConstT(1), z), Rel("!=", y, ConstT(2))>>, <<Effect(y, "+", ConstT(1), y)>>),
    Action(<<Rel(">", ConstT(2), x)>>, <<Effect(z, "-", z, ConstT(1))>>) }

Goals == {
    <<Rel("=", y, ConstT(2))>>,
    <<Rel("<", x, y), Rel("<", y, z)>>,
    <<Rel("!=", x, y), Rel("=", z, ConstT(2))>>,
    <<AllDiff>>, <<Circle, Rel("<=", y, z), Rel("<", ConstT(0), x)>>,
    <<Rel("!=", x, y), Rel("!=", y, z), Rel("!=", z, x)>> }

Values == [v \in MCVars |-> 0..2]
State(a, b, c) == [v \in MCVars |-> CASE v = 0 -> a [] v = 1 -> b [] v = 2 -> c]
Seeds == {State(0, 0, 0), State(1, 0, 1), State(2, 1, 0)}

Task(seed, actions, goal) == [seed |-> seed, values |-> Values, actions |-> actions, goal |-> goal]
Sequences(P) == {<<a, b>> : a \in P, b \in P} \cup {<<a, b, c>> : a \in P, b \in P, c \in P}
Distinct(q) == IsInjective(q)

MCTasks ==
    {Task(s, q, g) : s \in Seeds, q \in {r \in Sequences(Pool) : Distinct(r)}, g \in Goals}

\* x := 2 - x from x = 0.
FromConstant == Action(<< >>, <<Effect(x, "-", ConstT(2), x)>>)
MinusTasks == {Task(State(0, 0, 0), <<FromConstant>>, <<Rel("=", x, ConstT(2))>>)}
=============================================================================
