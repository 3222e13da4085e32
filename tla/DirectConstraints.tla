------------------------- MODULE DirectConstraints --------------------------
(***************************************************************************)
(* The direct constraints: how DirectTranslator turns a formula into a     *)
(* constraint, and how each class of constraint filters domains.           *)
(*                                                                         *)
(* A term is a state variable or a constant, [var |-> BOOLEAN, idx |-> n]. *)
(* A formula is [op, args, ext]: a relation between two terms, "alldiff"   *)
(* or "sum" over terms, or "table" for any other formula over one or two   *)
(* variables, which the translator replaces by its extension ext.          *)
(***************************************************************************)
EXTENDS Integers, Sequences, FiniteSets, FiniteSetsExt, Functions

Term == [var : BOOLEAN, idx : Int]

VarT(x) == [var |-> TRUE, idx |-> x]
ConstT(k) == [var |-> FALSE, idx |-> k]

ValueOf(t, s) == IF t.var THEN s[t.idx] ELSE t.idx

Relations == {"=", "!=", "<", "<=", ">", ">="}
Holds(op, a, b) ==
    CASE op = "="  -> a = b
      [] op = "!=" -> a # b
      [] op = "<"  -> a < b
      [] op = "<=" -> a <= b
      [] op = ">"  -> a > b
      [] op = ">=" -> a >= b

\* The truth of formula f in state s (interpret).
Satisfied(f, s) ==
    LET v == [i \in DOMAIN f.args |-> ValueOf(f.args[i], s)]
        n == Len(f.args)
    IN  CASE f.op \in Relations -> Holds(f.op, v[1], v[2])
          [] f.op = "alldiff"   -> IsInjective(v)
          [] f.op = "sum"       -> v[n] = SumFunctionOnSet(v, 1..(n - 1))
          [] f.op = "table"     -> v \in f.ext

-----------------------------------------------------------------------------
(***************************************************************************)
(* Translation.  A scope is computed as an ordered set of variables: terms *)
(* that are constants, the order of the arguments and repeated arguments   *)
(* are lost.  Only a relation keeps the order of its two arguments.        *)
(***************************************************************************)
VarsOf(f) == {f.args[i].idx : i \in {j \in DOMAIN f.args : f.args[j].var}}

ComputeDirectScope(f) ==
    CHOOSE q \in [1..Cardinality(VarsOf(f)) -> VarsOf(f)] :
        \A i, j \in DOMAIN q : i < j => q[i] < q[j]

\* The arguments of f are its scope: different variables, in their order.
InScopeOrder(f) ==
    LET scope == ComputeDirectScope(f)
    IN  f.args = [i \in DOMAIN scope |-> VarT(scope[i])]

\* c < X is posted as X > c.
NotMirrored(op) == op   \* slip: invert is not looked at

Mirrored(op) ==
    CASE op = "<"  -> ">"
      [] op = "<=" -> ">="
      [] op = ">"  -> "<"
      [] op = ">=" -> "<="
      [] OTHER -> op

Constraint(type, op, scope, par, ext) ==
    [type |-> type, op |-> op, scope |-> scope, par |-> par, ext |-> ext]

TranslateRelation(f) ==
    LET l == f.args[1]
        r == f.args[2]
    IN  IF l.var /\ r.var THEN Constraint("arc", f.op, <<l.idx, r.idx>>, 0, {})
        ELSE IF l.var THEN Constraint("unary", f.op, <<l.idx>>, r.idx, {})
        ELSE Constraint("unary", Mirrored(f.op), <<r.idx>>, l.idx, {})

TranslateTable(f) ==
    LET scope == ComputeDirectScope(f)
    IN  Constraint(IF Len(scope) = 1 THEN "unary" ELSE "arc", "table", scope, 0, f.ext)

Translate(f) ==
    CASE f.op \in Relations -> TranslateRelation(f)
      [] f.op \in {"alldiff", "sum"} -> Constraint("custom", f.op, ComputeDirectScope(f), 0, {})
      [] f.op = "table" -> TranslateTable(f)

\* The formulas for which the translator does not throw.
Supported(f) ==
    CASE f.op \in Relations ->
            /\ \E i \in {1, 2} : f.args[i].var
            /\ f.args[1].var /\ f.args[2].var => f.op \in {"=", "!=", "<", "<="}
      [] f.op = "sum"   -> Cardinality(VarsOf(f)) > 1
      [] f.op = "table" -> Cardinality(VarsOf(f)) \in {1, 2}
      [] OTHER -> TRUE

\* A relation has two arguments; a table is over the variables of its formula.
FormulaType ==
    {f \in [op : Relations \cup {"alldiff", "sum", "table"}, args : Seq(Term), ext : SUBSET Seq(Int)] :
        /\ f.op \in Relations => Len(f.args) = 2
        /\ f.op = "table" => InScopeOrder(f)}

-----------------------------------------------------------------------------
\* What a filter reports when kept is what it left of domain D.
Outcome(D, kept) ==
    IF kept = {} THEN "Failure" ELSE IF kept = D THEN "Unpruned" ELSE "Pruned"

\* The values that unary constraint c accepts.
UnaryKept(c, D) ==
    IF c.op = "table" THEN {x \in D : <<x>> \in c.ext} ELSE {x \in D : Holds(c.op, x, c.par)}

\* The values of D, the domain of the i-th variable of c, that have a partner
\* in E, the domain of the other variable; the relations look at bounds only.
ArcKept(c, i, D, E) ==
    CASE c.op = "<"  -> IF i = 1 THEN {x \in D : x < Max(E)} ELSE {x \in D : x > Min(E)}
      [] c.op = "<=" -> IF i = 1 THEN {x \in D : x <= Max(E)} ELSE {x \in D : x >= Min(E)}
      [] c.op = "="  -> D \cap E
      [] c.op = "!=" -> IF Cardinality(E) >= 2 THEN D ELSE D \ E
      [] c.op = "table" ->
            {x \in D : \E y \in E : (IF i = 1 THEN <<x, y>> ELSE <<y, x>>) \in c.ext}

\* A value that occurs in no pair of the extension has no entry in the index;
\* the filter reads the missing entry (an assertion in debug builds only).
MissingEntry(c, i, D) ==
    c.op = "table" /\ \E x \in D : \A p \in c.ext : p[i] # x

-----------------------------------------------------------------------------
(***************************************************************************)
(* AlldiffConstraint: one pass raises the minima of the domains D, the     *)
(* same pass over the negated domains lowers the maxima.  sorted is the    *)
(* order _sorted_vars, by increasing maximum, ties in any order; u(j, i)   *)
(* is u[j] once variable i is inserted.                                    *)
(***************************************************************************)
Unsorted(D) == Bijection(DOMAIN D, DOMAIN D)   \* slip: the variables in any order

SortVariables(D) ==
    {o \in Bijection(DOMAIN D, DOMAIN D) :
        \A i, j \in DOMAIN D : i < j => Max(D[o[i]]) <= Max(D[o[j]])}

BoundsConsistency(D, sorted) ==
    LET pos == DOMAIN D
        min == [i \in pos |-> Min(D[sorted[i]])]
        max == [i \in pos |-> Max(D[sorted[i]])]
        u(j, i) == min[j] + Cardinality({k \in pos : k < j /\ min[k] >= min[j]})
                          + Cardinality({k \in pos : j < k /\ k <= i /\ min[j] < min[k]})
        candidates(i) == {j \in pos : j < i /\ min[j] < min[i]} \cup {i}
        hall(i) == {min[j] : j \in {c \in candidates(i) : u(c, i) = max[i]}}
        \* incrMin: [Min(hall(i)), max[i]] is a Hall interval
        raised(i, j) == i < j /\ hall(i) # {} /\ min[j] >= Min(hall(i))
    IN  [failed |-> \E i \in pos : \E j \in candidates(i) : u(j, i) > max[i],
         dom    |-> [v \in pos |->
                        LET j == CHOOSE p \in pos : sorted[p] = v
                        IN  {x \in D[v] : \A i \in pos : raised(i, j) => x > max[i]}]]

InvertDomains(D) == [v \in DOMAIN D |-> {-x : x \in D[v]}]

\* What filtering domains D may give.
FilterAlldiff(D) ==
    LET passes(E) == {BoundsConsistency(E, o) : o \in SortVariables(E)}
        second(p) == IF p.failed THEN {p}
                     ELSE {[q EXCEPT !.dom = InvertDomains(@)] : q \in passes(InvertDomains(p.dom))}
    IN  UNION {second(p) : p \in passes(D)}

\* SumConstraint: the last variable of the scope is the total of the others.
\* Only lower bounds of sums are looked at.  The code assigns each domain while
\* it iterates over it, but only prefixes of it, so it still reads all values.
FilterSum(D) ==
    LET total == Len(D)
        mins == SumFunctionOnSet([i \in DOMAIN D |-> Min(D[i])], 1..(total - 1))
        most == Max(D[total])
    IN  {[failed |-> most < mins,
          dom    |-> [i \in DOMAIN D |->
                         IF i = total THEN {x \in D[i] : x >= mins}
                         ELSE {x \in D[i] : x <= most - (mins - Min(D[i]))}]]}

\* The outcomes [failed, dom] of filtering.
FilterCustom(c, D) == IF c.op = "alldiff" THEN FilterAlldiff(D) ELSE FilterSum(D)
=============================================================================
