---------------------------- MODULE MCGroundModel ----------------------------
(* Instances of GroundModel: two small languages and some tasks of each. *)
EXTENDS GroundModel

Ints == 0..2
Eq(a, b) == AtomicF("=", <<a, b>>)
Is(t) == Eq(t, Const(1))
Not(t) == Eq(t, Const(0))
Eff(lhs, rhs) == [cond |-> True, lhs |-> lhs, rhs |-> rhs]
When(cond, lhs, rhs) == [cond |-> cond, lhs |-> lhs, rhs |-> rhs]
Schema(params, pre, effs) == [params |-> params, pre |-> pre, effs |-> effs]
X(type) == Param(0, type)
Y(type) == Param(1, type)

MCObjects == [obj |-> <<1, 2>>, big |-> <<1, 2, 3>>, bool |-> <<0, 1>>, num |-> <<0, 1, 2>>, none |-> << >>]
MCPlaces == DOMAIN StateVars
MCDomain == [v \in DOMAIN StateVars |-> ToSet(TypeObjects[Fluents[StateVars[v][1]]])]
MCStatics == [road |-> [a \in {<<1, 1>>, <<1, 2>>, <<2, 1>>, <<2, 2>>} |-> IF a = <<1, 2>> THEN 1 ELSE 0],
              home |-> [a \in {<< >>} |-> 2]]

-----------------------------------------------------------------------------
(* A language with functions: two predicates p(x), a place and two gauges. *)

MCVars == << <<"p", <<1>> >>, <<"p", <<2>> >>, <<"at", << >> >>, <<"g", <<1>> >>, <<"g", <<2>> >> >>
MCFluents == [p |-> "bool", at |-> "obj", g |-> "num"]
MCPredicates == {"p"}

P(t) == Fluent("p", <<t>>)
At == Fluent("at", << >>)
G(t) == Fluent("g", <<t>>)
Plus(t, n) == Arith("+", <<t, Const(n)>>)

Start == <<1, 0, 1, 0, 1>>
Base == [axioms |-> << >>, constraints |-> True, init |-> Start, goal |-> Exists(<<X("obj")>>, And(<<Is(P(X("obj"))), Eq(At, X("obj"))>>))]
Task(list) == [schemas |-> list, axioms |-> Base.axioms, constraints |-> Base.constraints, init |-> Base.init, goal |-> Base.goal]

Move == Schema(<<X("obj"), Y("obj")>>,
               And(<<Eq(At, X("obj")), AtomicF("!=", <<X("obj"), Y("obj")>>), Not(P(Y("obj")))>>),
               <<Eff(At, Y("obj")), When(Is(P(X("obj"))), P(Y("obj")), Const(1)), Eff(P(X("obj")), Const(0))>>)
Fill == Schema(<< >>, True, <<Eff(G(At), Plus(G(At), 1))>>)
Pour == Schema(<<X("obj")>>, And(<<AtomicF("!=", <<At, X("obj")>>), AtomicF(">", <<G(X("obj")), Const(0)>>)>>),
               <<Eff(G(X("obj")), Arith("-", <<G(X("obj")), Const(1)>>)), When(Is(P(X("obj"))), P(At), Const(1))>>)

\* Gauges that are filled and emptied under two state constraints.
Gauges == [Task(<<Move, Fill, Pour>>) EXCEPT
             !.constraints = And(<<AtomicF("<=", <<G(Const(1)), G(Const(2))>>), AtomicF("<=", <<G(At), Const(1)>>)>>)]

\* An axiom that uses another, and a quantifier.
Safe == [params |-> <<X("obj")>>, def |-> And(<<Is(P(X("obj"))), AtomicF("<=", <<G(X("obj")), Const(1)>>)>>)]
AllSafe == [params |-> << >>, def |-> Forall(<<Param(7, "obj")>>, Is(Static("safe", <<Param(7, "obj")>>)))]
Derived == [Task(<<Schema(<<X("obj")>>, Or(<<Is(Static("allsafe", << >>)), Not(Static("safe", <<X("obj")>>))>>), <<Eff(P(X("obj")), Const(1))>>), Fill>>)
              EXCEPT !.axioms = [safe |-> Safe, allsafe |-> AllSafe]]

\* Parameters beyond the state variables, in an empty type, and never true.
Drive == Schema(<<X("big"), Y("obj")>>,
                And(<<Is(Static("road", <<Const(1), Y("obj")>>)), Not(P(Y("obj")))>>),
                <<Eff(P(X("big")), Const(1)), When(Eq(X("big"), Const(3)), At, Y("obj")), Eff(P(Const(3)), Const(0))>>)
Nobody == Schema(<<X("none")>>, True, <<Eff(At, Const(1))>>)
Nothing == Schema(<<X("obj")>>, Is(P(X("obj"))), <<When(AtomicF("<", <<Const(2), Const(1)>>), At, X("obj"))>>)
Roads == [Task(<<Nobody, Drive, Nothing>>) EXCEPT
            !.goal = Exists(<<Param(8, "none")>>, Is(P(Const(1))))]

\* What the index refuses or cannot read, and a schema that stops the loader.
Twice == Task(<<Schema(<<X("obj")>>, And(<<Eq(At, X("obj")), AtomicF("!=", <<At, Const(2)>>), Not(P(Const(1)))>>), <<Eff(At, Const(2))>>)>>)
Homing == Task(<<Schema(<< >>, And(<<Eq(At, Static("home", << >>)), Not(P(Const(1)))>>), <<Eff(At, Const(1))>>)>>)
Impossible == Task(<<Move, Schema(<< >>, And(<<AtomicF("<", <<Const(2), Const(1)>>)>>), <<Eff(At, Const(1))>>)>>)
Unnegated == Task(<<Schema(<<X("obj")>>, And(<<Is(P(X("obj")))>>), <<Eff(At, X("obj"))>>)>>)

\* Nested predicates in the head of an effect and in a state constraint.
Go == Schema(<<X("obj")>>, And(<<AtomicF("!=", <<At, X("obj")>>), Not(P(Const(2)))>>), <<Eff(At, X("obj"))>>)
Mark == Schema(<< >>, True, <<Eff(P(At), Const(1))>>)
NestedTasks == {[Task(<<Go, Mark>>) EXCEPT !.constraints = And(<<Not(P(Const(2)))>>)],
                [Task(<<Go, Schema(<< >>, True, <<Eff(P(Const(1)), Const(0))>>)>>) EXCEPT !.constraints = And(<<Is(P(At))>>)]}

MCTasks == {Gauges, Derived, Roads, Twice, Homing, Impossible, Unnegated}

-----------------------------------------------------------------------------
(* A propositional language, which the match tree can handle. *)

TreeVars == << <<"q", <<1>> >>, <<"q", <<2>> >>, <<"r", << >> >>, <<"s", << >> >> >>
TreeFluents == [q |-> "bool", r |-> "bool", s |-> "bool"]
TreePredicates == {"q", "r", "s"}

Q(t) == Fluent("q", <<t>>)
R == Fluent("r", << >>)
S == Fluent("s", << >>)

TreeBase == [Base EXCEPT !.goal = Is(S), !.init = <<1, 0, 0, 0>>]
TreeTask(list) == [schemas |-> list, axioms |-> << >>, constraints |-> True, init |-> TreeBase.init, goal |-> TreeBase.goal]

Swap == Schema(<<X("obj"), Y("obj")>>,
               And(<<AtomicF("!=", <<X("obj"), Y("obj")>>), Is(Q(X("obj"))), Not(Q(Y("obj")))>>),
               <<Eff(Q(X("obj")), Const(0)), Eff(Q(Y("obj")), Const(1))>>)
Raise == Schema(<< >>, And(<<AtomicF("!=", <<R, Const(1)>>)>>), <<Eff(R, Const(1))>>)
Finish == Schema(<< >>, And(<<Is(R), Is(Q(Const(2)))>>), <<Eff(S, Const(1)), Eff(R, Const(0))>>)
Reset == Schema(<< >>, True, <<Eff(S, Const(0)), When(Is(S), Q(Const(1)), Const(1))>>)

Circuit == TreeTask(<<Swap, Raise, Finish, Reset>>)
Positive == TreeTask(<<Schema(<<X("obj")>>, And(<<Is(Q(X("obj")))>>), <<Eff(R, Const(1))>>), Schema(<< >>, And(<<Is(R), Is(Q(Const(1)))>>), <<Eff(S, Const(1)), Eff(Q(Const(1)), Const(0))>>)>>)
Free == TreeTask(<<Reset>>)
TreeTasks == {Circuit, Positive, Free}
=============================================================================
