----------------------------- MODULE MCDirectCSP -----------------------------
(***************************************************************************)
(* Instances of DirectCSP for TLC: three variables with domains of up to   *)
(* three values and up to three formulas.                                  *)
(***************************************************************************)
EXTENDS DirectCSP

MCVars == {0, 1, 2}

x == VarT(0)
y == VarT(1)
z == VarT(2)

Formula(op, args, ext) == [op |-> op, args |-> args, ext |-> ext]
Rel(op, a, b) == Formula(op, <<a, b>>, {})

\* y is the successor of x, around a circle of three.
Circle == Formula("table", <<x, y>>, {<<0, 1>>, <<1, 2>>, <<2, 0>>})
NoZero == Formula("table", <<z>>, {<<1>>, <<2>>})
AllDiff == Formula("alldiff", <<x, y, z>>, {})
Total == Formula("sum", <<x, y, z>>, {})

UnaryFormulas == {Rel(op, x, ConstT(1)) : op \in Relations} \cup
                 {Rel(op, ConstT(1), z) : op \in Relations} \cup {NoZero}
BinaryFormulas == {Rel("=", x, y), Rel("!=", y, z), Rel("<", y, x), Rel("<=", x, z),
                   Rel("<", y, z), Rel("!=", z, x), Circle}

Dom(a, b, c) == [v \in MCVars |-> CASE v = 0 -> a [] v = 1 -> b [] v = 2 -> c]
Full == Dom(0..2, 0..2, 0..2)
Some == {Full, Dom({0, 2}, 0..1, 1..2), Dom(0..1, {0, 2}, 0..1), Dom(1..2, 1..2, {2})}
Assignments == {Dom({a}, {b}, {c}) : a \in 0..2, b \in 0..2, c \in 0..2}

Problem(F, D) == [formulas |-> F, dom |-> D]
Calls(F, D) == {Problem(f, d) : f \in F, d \in D}

Pairs == {<<f, g>> : f \in UnaryFormulas \cup BinaryFormulas, g \in BinaryFormulas}
Triples == {<<f, g, h>> : f \in BinaryFormulas, g \in BinaryFormulas, h \in BinaryFormulas}
WithAllDiff == {<<AllDiff, f>> : f \in UnaryFormulas \cup BinaryFormulas}

LocalProblems ==
    Calls(Pairs, Some) \cup Calls(Triples, {Full}) \cup
    Calls(WithAllDiff \cup {<< >>, <<NoZero>>}, Some) \cup
    Calls(WithAllDiff \cup {<<Total>>, <<AllDiff, AllDiff>>}, {Full})

AssignmentProblems == Calls(Pairs \cup WithAllDiff, Assignments)

\* An alldiff over all intervals.
Intervals == {a..b : a, b \in 0..3} \ {{}}
AllDiffProblems == Calls({<<AllDiff>>}, {Dom(a, b, c) : a, b, c \in Intervals})

FilterProblems == LocalProblems \cup AssignmentProblems \cup AllDiffProblems
=============================================================================
