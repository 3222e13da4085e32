--------------------------- MODULE MCPreprocessor ---------------------------
(* Instances of Preprocessor: small tasks, one for each construct of the language. *)
EXTENDS Preprocessor

X == "?x"
Y == "?y"
Over(x, type) == <<Typed(x, type)>>
Action(n, params, pre, eff) == [name |-> n, params |-> params, pre |-> pre, eff |-> eff]
On(p, x) == Lit(p, <<x>>)
Off(p, x) == Del(p, <<x>>)

Base ==
    [parent |-> [t \in {"thing", "car", "ghost"} |-> IF t = "car" THEN "thing" ELSE "object"],
     objects |-> [o \in {"a", "b", "c"} |-> IF o = "c" THEN "car" ELSE "thing"],
     preds |-> [p |-> <<"thing">>, q |-> <<"thing">>, r |-> <<"thing", "car">>, s |-> <<"thing", "thing">>],
     derived |-> << >>,
     init |-> {<<"p", <<"a">>>>, <<"s", <<"a", "b">>>>, <<"s", <<"b", "c">>>>},
     actions |-> << >>, goal |-> And(<< >>), constraints |-> And(<< >>)]

WithOk(t) == [t EXCEPT !.preds = @ @@ [ok |-> << >>]]

\* Quantifiers that use a parameter's name, in preconditions and effects.
Shadow ==
    [WithOk(Base) EXCEPT
        !.actions = <<
            Action("spread", Over(X, "thing"),
                   And(<<On("p", X), Not(Forall(Over(X, "thing"), Imply(On("q", X), Exists(Over(X, "car"), On("q", X)))))>>),
                   And(<<Off("p", X), Forall(Over(X, "car"), When(On("p", X), On("q", X)))>>)),
            Action("mark", <<Typed(X, "thing"), Typed(Y, "car")>>,
                   Or(<<Eq(X, Y), Exists(Over(X, "thing"), And(<<Lit("s", <<X, Y>>), Not(On("p", X))>>))>>),
                   And(<<Forall(Over(Y, "thing"), When(Not(Eq(X, Y)), Off("p", Y))),
                         Forall(Over(Y, "thing"), When(And(<<Lit("s", <<X, Y>>), Not(On("q", Y))>>), On("q", Y))),
                         When(On("q", Y), And(<<On("p", Y), Lit("ok", << >>)>>))>>)),
            Action("haunt", Over(X, "ghost"), And(<< >>), On("q", "a")) >>,
        !.goal = And(<<Exists(Over(X, "thing"), On("q", X)), Forall(Over(Y, "car"), Or(<<On("p", Y), On("q", Y)>>))>>)]

\* Effects that contradict each other, nested conditions, constant parts.
Clash ==
    [WithOk(Base) EXCEPT
        !.actions = <<
            Action("swap", Over(X, "thing"), Or(<<And(<<On("p", X), Or(<< >>)>>), Not(On("p", X)), Forall(Over(Y, "ghost"), And(<< >>))>>),
                   And(<<Off("p", X), On("p", X), On("q", X), Off("q", X), When(On("p", X), When(And(<<Not(On("q", X))>>), Lit("ok", << >>)))>>)),
            Action("flip", Over(X, "car"), Not(Or(<<On("q", X), Exists(Over(Y, "thing"), Lit("r", <<Y, X>>))>>)),
                   And(<<When(On("p", X), Off("p", X)), When(Not(On("p", X)), And(<<On("p", X), On("q", X)>>)),
                         When(Lit("ok", << >>), Forall(Over(Y, "thing"), Lit("r", <<Y, X>>)))>>)),
            Action("drop", <<Typed(X, "thing"), Typed(Y, "car")>>, And(<<Lit("r", <<X, Y>>), And(<<Not(Eq(X, Y))>>)>>),
                   And(<<Del("r", <<X, Y>>), When(Forall(Over("?z", "thing"), Or(<<On("p", "?z"), Eq("?z", X)>>)), Off("q", Y))>>)) >>,
        !.goal = Imply(On("q", "c"), And(<<Lit("ok", << >>), Not(Exists(Over(X, "thing"), On("p", X)))>>))]

\* Axioms, one used by the other, and state constraints.
Axioms ==
    [Base EXCEPT
        !.init = @ \cup {<<"p", <<"b">>>>, <<"q", <<"b">>>>, <<"q", <<"c">>>>},
        !.preds = @ @@ [linked |-> <<"thing", "thing">>, safe |-> << >>],
        !.derived =
            [linked |-> [params |-> <<Typed(X, "thing"), Typed(Y, "thing")>>,
                         body |-> Or(<<Lit("s", <<X, Y>>), Exists(Over("?z", "thing"), And(<<Lit("s", <<X, "?z">>), Lit("s", <<"?z", Y>>)>>))>>)],
             safe |-> [params |-> << >>, body |-> Not(Exists(Over(X, "thing"), And(<<On("p", X), Lit("linked", <<X, "c">>)>>)))]],
        !.actions = <<
            Action("move", <<Typed(X, "thing"), Typed(Y, "thing")>>, And(<<On("p", X), Lit("linked", <<X, Y>>)>>),
                   And(<<Off("p", X), On("p", Y), When(Lit("safe", << >>), On("q", X))>>)),
            Action("new", Over(X, "thing"), Exists(Over(Y, "thing"), And(<<On("q", Y), Not(Lit("linked", <<Y, X>>))>>)),
                   And(<<Off("q", "c"), When(Not(Lit("safe", << >>)), On("p", X))>>)) >>,
        !.goal = Lit("safe", << >>),
        !.constraints = And(<<Forall(Over(X, "car"), Or(<<Not(On("p", X)), Lit("safe", << >>)>>))>>)]

\* A type hierarchy of three levels, a predicate that is only deleted, one
\* that is static, and an action with a disjunctive precondition.
Errands ==
    [WithOk(Base) EXCEPT
        !.parent = [t \in {"thing", "car", "van", "ghost"} |->
                        CASE t = "car" -> "thing" [] t = "van" -> "car" [] OTHER -> "object"],
        !.objects = [o \in {"a", "b", "c"} |-> CASE o = "a" -> "thing" [] o = "b" -> "car" [] o = "c" -> "van"],
        !.init = {<<"p", <<"a">>>>, <<"p", <<"b">>>>, <<"q", <<"a">>>>, <<"s", <<"a", "b">>>>, <<"s", <<"b", "c">>>>},
        !.actions = <<
            Action("use", <<Typed(X, "thing"), Typed(Y, "car")>>, And(<<On("p", X), Lit("s", <<X, Y>>)>>),
                   And(<<Off("p", X), On("q", Y), When(On("q", X), Lit("r", <<X, Y>>))>>)),
            Action("toggle", Over(X, "van"), Imply(On("q", X), Not(Lit("ok", << >>))),
                   And(<<When(Lit("ok", << >>), Del("ok", << >>)), When(Not(Lit("ok", << >>)), Lit("ok", << >>)),
                         Forall(Over(Y, "car"), When(And(<<On("q", Y), Not(Lit("ok", << >>))>>), Off("q", Y)))>>)),
            Action("link", <<Typed(X, "thing"), Typed(Y, "car")>>, Or(<<On("q", X), And(<<On("p", Y), On("q", Y)>>)>>),
                   And(<<Lit("r", <<X, Y>>), When(Not(On("q", Y)), On("q", Y))>>)) >>,
        !.goal = And(<<Forall(Over(X, "car"), On("q", X)), Exists(Over(Y, "car"), Lit("r", <<"a", Y>>))>>)]

\* Tasks the preprocessor or the planner stops at.
With(eff, goal) == [Base EXCEPT !.actions = <<Action("act", Over(X, "thing"), And(<< >>), eff)>>, !.goal = goal]
TwoVars == With(Forall(<<Typed("?y", "thing"), Typed("?z", "car")>>, Lit("r", <<"?y", "?z">>)), And(<< >>))
UnderWhen == With(When(On("p", X), And(<<Off("q", X), Forall(Over(Y, "car"), On("q", Y))>>)), And(<< >>))
Disjunctive == With(Forall(Over(Y, "thing"), When(Or(<<On("p", Y), On("p", X)>>), On("q", Y))), And(<< >>))
Twice == With(Forall(Over(Y, "thing"), Del("s", <<Y, Y>>)), And(<< >>))
SameName == With(On("q", X), And(<<Exists(Over(X, "car"), On("p", X)), Exists(Over(X, "car"), On("q", X))>>))
NeverTrue == With(When(Or(<< >>), On("q", X)), And(<< >>))
NullaryTrue == [WithOk(With(On("q", X), Lit("ok", << >>))) EXCEPT !.init = @ \cup {<<"ok", << >>>>}]
NullaryFalse == WithOk(With(On("q", X), Lit("ok", << >>)))
Plain == WithOk(With(And(<<On("q", X), Lit("ok", << >>)>>), And(<<On("q", "a"), Not(On("p", "b"))>>)))

\* Tasks for the second route.  Static conditions of every form, actions that
\* are never reached, conditions on what changes and on what does not.
Relay ==
    [Base EXCEPT
        !.actions = <<
            Action("move", <<Typed(X, "thing"), Typed(Y, "thing")>>,
                   And(<<And(<<On("p", X), Lit("s", <<X, Y>>)>>), Not(Eq(X, Y)), Not(On("p", Y))>>),
                   And(<<Off("p", X), And(<<On("p", Y), When(Lit("s", <<"a", Y>>), On("q", X))>>)>>)),
            Action("load", <<Typed(X, "thing"), Typed(Y, "car")>>,
                   And(<<On("p", X), Exists(Over("?z", "thing"), Lit("s", <<"?z", X>>)), Not(Forall(Over("?w", "thing"), Eq("?w", Y)))>>),
                   And(<<On("q", X), Forall(Over("?z", "thing"), When(On("q", "?z"), Lit("r", <<"?z", Y>>)))>>)),
            Action("drop", Over(X, "thing"), And(<<Or(<<Lit("s", <<X, "b">>), Imply(Lit("s", <<"a", X>>), Eq(X, "c"))>>), On("q", X)>>),
                   And(<<Off("q", X), When(And(<<On("p", X), Not(On("q", "b"))>>), Lit("s", <<"a", "b">>))>>)),
            Action("never", Over(X, "thing"), And(<<Lit("s", <<X, X>>), On("p", X)>>), And(<<Off("p", X)>>)) >>,
        !.goal = And(<<Forall(Over(X, "thing"), Not(Lit("r", <<X, "c">>))), Not(On("p", "a")), Lit("s", <<"a", "b">>)>>)]

\* Conditional effects on nullary atoms, a disjunctive static goal part.
Switch ==
    [WithOk(Base) EXCEPT
        !.init = @ \cup {<<"p", <<"b">>>>, <<"p", <<"c">>>>},
        !.actions = <<
            Action("flip", Over(X, "thing"), And(<<On("p", X)>>),
                   And(<<When(Lit("ok", << >>), And(<<Del("ok", << >>), On("q", X)>>)),
                         When(And(<<Not(Lit("ok", << >>)), Not(On("q", X))>>), Lit("ok", << >>)), Off("p", X)>>)),
            Action("restore", <<Typed(X, "thing"), Typed(Y, "thing")>>, Not(Or(<<On("p", X), Not(Lit("ok", << >>))>>)),
                   And(<<When(Lit("s", <<X, Y>>), Off("q", Y)), Forall(Over("?z", "car"), When(Lit("s", <<Y, "?z">>), Off("p", Y))), On("p", X)>>)) >>,
        !.goal = And(<<Lit("ok", << >>), Or(<<Lit("s", <<"a", "c">>), Lit("s", <<"a", "b">>)>>), Forall(Over(X, "thing"), On("q", X))>>)]

\* A goal out of reach, although its parts look within it one by one, and one
\* that takes deletes to be reached.
Hopeless == [Relay EXCEPT !.goal = And(<<On("q", "c"), On("q", "b"), Lit("s", <<"c", "a">>)>>)]
Emptied == [Relay EXCEPT !.goal = And(<<Not(On("p", "a")), Not(On("q", "b")), Not(On("p", "c"))>>)]

MCTasks ==
    [shadow |-> Shadow, errands |-> Errands, clash |-> Clash, axioms |-> Axioms, twoVars |-> TwoVars, underWhen |-> UnderWhen,
     disjunctive |-> Disjunctive, twice |-> Twice, sameName |-> SameName, neverTrue |-> NeverTrue,
     nullaryTrue |-> NullaryTrue, nullaryFalse |-> NullaryFalse, plain |-> Plain, relay |-> Relay, switch |-> Switch,
     hopeless |-> Hopeless, emptied |-> Emptied]

-----------------------------------------------------------------------------
(* Tasks that are translated otherwise than the comments of the code say:  *)
(* those of the first route, and those of the second                       *)

\* The effects of a move from a place to itself, the one that adds listed first.
Move == Action("move", <<Typed(X, "thing"), Typed(Y, "thing")>>, On("p", X), And(<<On("p", Y), Off("p", X)>>))
AddFirst == [Base EXCEPT !.actions = <<Move>>]

\* An existential formula over a type without objects in a disjunction.
NoGhost == Or(<<On("p", X), Exists(Over(Y, "ghost"), Lit("s", <<X, Y>>))>>)
EmptyType == [Base EXCEPT !.actions = <<Action("act", Over(X, "thing"), NoGhost, On("q", X))>>]

\* A quantified effect that has the name of the parameter, under a condition
\* on the parameter.
Capture == With(When(On("p", X), Forall(Over(X, "car"), On("q", X))), And(<< >>))

\* A static part of the condition of an effect, next to one that changes.
StaticPart ==
    [WithOk(Base) EXCEPT
        !.init = @ \cup {<<"p", <<"b">>>>, <<"q", <<"a">>>>, <<"q", <<"b">>>>},
        !.actions = <<Action("act", Over(X, "thing"), And(<<On("p", X), On("q", "b")>>),
                             And(<<Off("p", X), Off("q", X), When(And(<<Lit("s", <<X, "b">>), On("q", "b")>>), Lit("ok", << >>))>>))>>,
        !.goal = Lit("ok", << >>)]

\* An effect on an object of the domain, and an action that needs it absent.
ConstantCase ==
    [Base EXCEPT
        !.actions = <<Action("arrive", Over(X, "thing"), On("p", X), And(<<Lit("s", <<X, "c">>), On("q", X)>>)),
                      Action("leave", Over(X, "thing"), And(<<On("p", X), Not(Lit("s", <<X, "c">>))>>), And(<<Off("p", X)>>))>>,
        !.goal = On("q", "a")]

\* A static existential condition, true of an object of another type only.
OtherType ==
    [Base EXCEPT
        !.init = @ \ {<<"s", <<"b", "c">>>>},
        !.actions = <<Action("act", Over(X, "thing"), And(<<On("p", X), Exists(Over(Y, "car"), Lit("s", <<X, Y>>))>>),
                             And(<<Off("p", X)>>))>>,
        !.goal = Not(On("p", "a"))]

\* A goal for all objects of a type, of an atom that others reach as well.
TypedGoal ==
    [Base EXCEPT
        !.init = @ \cup {<<"p", <<"c">>>>},
        !.actions = <<Action("act", Over(X, "thing"), On("p", X), And(<<Off("p", X), On("q", X)>>))>>,
        !.goal = And(<<Forall(Over(Y, "car"), On("q", Y))>>)]

\* An action that needs nothing but a static fact.
StaticOnly ==
    [Base EXCEPT
        !.actions = <<Action("act", <<Typed(X, "thing"), Typed(Y, "thing")>>, Lit("s", <<X, Y>>), And(<<On("q", X)>>))>>,
        !.goal = On("q", "a")]

FirstRouteDivergences == [addFirst |-> AddFirst, emptyType |-> EmptyType, capture |-> Capture]
SecondRouteDivergences ==
    [staticPart |-> StaticPart, constant |-> ConstantCase, otherType |-> OtherType,
     typedGoal |-> TypedGoal, staticOnly |-> StaticOnly]
=============================================================================
