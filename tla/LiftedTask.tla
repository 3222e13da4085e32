----------------------------- MODULE LiftedTask ------------------------------
(***************************************************************************)
(* Tasks as the Gecode handlers read them, and the constraint satisfaction *)
(* problems (CSPs) they make of them: the solutions of an action, an       *)
(* effect or a goal over a layer of the relaxed planning graph.            *)
(*                                                                         *)
(* A Gecode space is the set of its solutions.  A CSP has one variable for *)
(* each parameter, each state variable with a function and each nested     *)
(* fluent with a function; nested fluents that turn out to be the same, or *)
(* the same as a state variable, are variables of their own.  Fluents have *)
(* at most one argument; arithmetic, static symbols and element            *)
(* constraints (off by default) are left out.                              *)
(***************************************************************************)
EXTENDS Integers, FiniteSets, SequencesExt

CONSTANTS
    Objects,      \* what arguments range over
    Arity,        \* the number of arguments of each fluent symbol, 0 or 1
    Values,       \* the values of each symbol; {0, 1} for a predicate
    Predicates    \* the symbols that are predicates

Symbols == DOMAIN Arity

ASSUME LanguageAssumption ==
    /\ DOMAIN Values = Symbols /\ Predicates \subseteq Symbols
    /\ IsFiniteSet(Symbols) /\ IsFiniteSet(Objects)
    /\ \A f \in Symbols : Arity[f] \in {0, 1} /\ Values[f] \subseteq Int /\ IsFiniteSet(Values[f])
    /\ \A p \in Predicates : Values[p] = {0, 1}

Vars == UNION {{<<f, args>> : args \in [1..Arity[f] -> Objects]} : f \in Symbols}

\* The atom index: false predicates have no atom.
AllAtoms ==
    UNION {{<<v, n>> : n \in Values[v[1]] \ (IF v[1] \in Predicates THEN {0} ELSE {})} : v \in Vars}

AtomsOf(s) == {a \in AllAtoms : s[a[1]] = a[2]}

-----------------------------------------------------------------------------
(* Terms, conditions and effects *)

Const(n) == [kind |-> "const", name |-> "", val |-> n, sub |-> << >>]
Param(p) == [kind |-> "param", name |-> p, val |-> 0, sub |-> << >>]
Fluent(f, sub) == [kind |-> "fluent", name |-> f, val |-> 0, sub |-> sub]

IsFluent(t) == t.kind = "fluent"
IsPredicate(t) == IsFluent(t) /\ t.name \in Predicates

\* all_terms of a term that nests at most two deep.
SubTerms(t) ==
    LET inner == ToSet(t.sub)
    IN  {t} \cup inner \cup UNION {ToSet(u.sub) : u \in inner}

Cond(op, l, r) == [op |-> op, lhs |-> l, rhs |-> r]
Atom(t) == Cond("=", t, Const(1))
IsAtom(c) == IsPredicate(c.lhs)

CondTerms(conds) == UNION {SubTerms(c.lhs) \cup SubTerms(c.rhs) : c \in conds}

\* The terms of an effect without the head itself.
EffectTerms(e) == SubTerms(e.rhs) \cup (SubTerms(e.lhs) \ {e.lhs})

IsDel(e) == IsPredicate(e.lhs) /\ e.rhs = Const(0)

\* The values that the type of a term allows.
ValuesOf(params, t) ==
    CASE t.kind = "const" -> {t.val} [] t.kind = "param" -> params[t.name] [] OTHER -> Values[t.name]

\* Arguments are objects, and predicates are no arguments.
Typed(params, t) ==
    CASE t.kind = "const" -> t = Const(t.val) /\ t.val \in Int
      [] t.kind = "param" -> t = Param(t.name) /\ t.name \in DOMAIN params
      [] OTHER ->
            /\ t = Fluent(t.name, t.sub) /\ t.name \in Symbols /\ DOMAIN t.sub = 1..Arity[t.name]
            /\ \A i \in DOMAIN t.sub : ~IsPredicate(t.sub[i]) /\ ValuesOf(params, t.sub[i]) \subseteq Objects

TypedTerm(params, t) ==
    /\ \A u \in SubTerms(t) : Typed(params, u)
    /\ \A u \in ToSet(t.sub) : \A w \in ToSet(u.sub) : w.sub = << >>

\* A predicate is a condition, or what an effect writes, but no other term.
TypedConds(params, conds) ==
    \A c \in conds : TypedTerm(params, c.lhs) /\ TypedTerm(params, c.rhs) /\ ~IsPredicate(c.rhs)

TypedEffect(params, e) ==
    IsFluent(e.lhs) /\ TypedTerm(params, e.lhs) /\ TypedTerm(params, e.rhs) /\ ~IsPredicate(e.rhs)

\* The handlers refuse negated atoms.
SupportedConds(conds) == \A c \in conds : IsAtom(c) => c.op = "=" /\ c.rhs = Const(1)

-----------------------------------------------------------------------------
(***************************************************************************)
(* A CSP: the action it is for, the parameters that are bound and those    *)
(* that are free, conditions, effects, and the atoms within which it was   *)
(* confined by update_csp.  The terms are indexed once: the fluents, those *)
(* of them that are state variables once the bound parameters are          *)
(* constants, and the CSP variables, for free parameters and functions.    *)
(***************************************************************************)
Constant(bound, t) == t.kind = "const" \/ (t.kind = "param" /\ t.name \in DOMAIN bound)
IsStateVar(bound, t) == IsFluent(t) /\ \A i \in DOMAIN t.sub : Constant(bound, t.sub[i])

TermsOf(conds, effs) == CondTerms(conds) \cup UNION {EffectTerms(effs[i]) : i \in DOMAIN effs}

CSP(a, bound, conds, effs) ==
    LET fluents == {t \in TermsOf(conds, effs) : IsFluent(t)}
        free == {Param(p) : p \in DOMAIN a.params \ DOMAIN bound}
    IN  [action |-> a.name, bound |-> bound, conds |-> conds, effs |-> effs, within |-> AllAtoms,
         nullary |-> {t \in fluents : IsPredicate(t) /\ t.sub = << >>},
         looked |-> {t \in fluents : IsPredicate(t) => t.sub # << >>},
         direct |-> {t \in fluents : IsStateVar(bound, t)},
         range |-> [t \in free \cup {u \in fluents : ~IsPredicate(u)} |-> ValuesOf(a.params, t)]]

Bindings(params) ==
    {b \in [DOMAIN params -> UNION {params[p] : p \in DOMAIN params}] : \A p \in DOMAIN params : b[p] \in params[p]}

\* What the variables may take before anything is posted.
Candidates(c) == Bindings(c.range)

ValueIn(c, x, t) ==
    IF t.kind = "const" THEN t.val ELSE IF Constant(c.bound, t) THEN c.bound[t.name] ELSE x[t]

VarIn(c, x, t) == <<t.name, [i \in DOMAIN t.sub |-> ValueIn(c, x, t.sub[i])]>>

\* The atom a fluent stands for in a solution: its support.
AtomIn(c, x, t) == <<VarIn(c, x, t), IF IsPredicate(t) THEN 1 ELSE x[t]>>

Compare(op, a, b) ==
    CASE op = "=" -> a = b [] op = "#" -> a # b [] op = "<" -> a < b

\* A view of a layer: the domain of each state variable, the extensions of
\* the symbols and the atoms that is_true looks at.
View(domains, extension, now) == [dom |-> domains, ext |-> extension, now |-> now]
ViewOf(A) == View([v \in Vars |-> {a[2] : a \in {b \in A : b[1] = v}}], A, A)

\* Predicates without arguments are looked up when the CSP is instantiated.
NullaryTrue(c, view) == \A t \in c.nullary : <<<<t.name, << >>>>, 1>> \in view.now

\* State variables have their domain, everything else its extension.
Posted(c, x, t, view) ==
    LET atom == AtomIn(c, x, t)
    IN  /\ atom \in c.within
        /\ IF t \in c.direct /\ ~IsPredicate(t) THEN atom[2] \in view.dom[atom[1]] ELSE atom \in view.ext

Holds(c, x, cond) == IsAtom(cond) \/ Compare(cond.op, ValueIn(c, x, cond.lhs), ValueIn(c, x, cond.rhs))

\* A state variable has one CSP variable, whichever terms name it.
SharedVariables(c, x) ==
    \A t, u \in c.direct : VarIn(c, x, t) = VarIn(c, x, u) => AtomIn(c, x, t) = AtomIn(c, x, u)

Consistent(c, x, view) ==
    /\ SharedVariables(c, x)
    /\ \A t \in c.looked : Posted(c, x, t, view)
    /\ \A cond \in c.conds : Holds(c, x, cond)

\* The value of an effect has to be one of its head.
InBounds(c, x) ==
    \A i \in DOMAIN c.effs : ValueIn(c, x, c.effs[i].rhs) \in Values[c.effs[i].lhs.name]

Solutions(c, view) ==
    IF NullaryTrue(c, view) THEN {x \in Candidates(c) : Consistent(c, x, view) /\ InBounds(c, x)} ELSE {}

Produced(c, x, i) == <<VarIn(c, x, c.effs[i].lhs), ValueIn(c, x, c.effs[i].rhs)>>

Support(c, x, terms) == {AtomIn(c, x, t) : t \in {u \in terms : IsFluent(u)}}
EffectSupport(c, x, i) == Support(c, x, CondTerms(c.conds) \cup EffectTerms(c.effs[i]))

\* One of the atoms of S for each variable that has some.
OneOfEach(S) ==
    LET variables == {a[1] : a \in S}
    IN  {{first[v] : v \in variables} : first \in {f \in [variables -> S] : \A v \in variables : f[v][1] = v}}

\* BaseActionCSP keeps the first nested fluent that resolves to a variable,
\* whatever the values of the others, in the order of their addresses: that
\* may be any of them.
RecordedSupports(c, x, i) ==
    LET terms == {t \in CondTerms(c.conds) \cup EffectTerms(c.effs[i]) : IsFluent(t)}
    IN  {Support(c, x, terms \cap c.direct) \cup nested : nested \in OneOfEach(Support(c, x, terms \ c.direct))}

\* The action and the values of its parameters.
ActionOf(c, x) ==
    <<c.action, [p \in DOMAIN c.bound \cup {t.name : t \in {u \in DOMAIN c.range : u.kind = "param"}} |->
         IF p \in DOMAIN c.bound THEN c.bound[p] ELSE x[Param(p)]]>>

-----------------------------------------------------------------------------
(***************************************************************************)
(* The transitions the heuristics relax: the effects of the action whose   *)
(* conditions hold, all in bounds, towards a state that satisfies the      *)
(* state constraints.                                                      *)
(***************************************************************************)
Steps(t) ==   \* each grounded action: its precondition and its effects
    UNION {LET a == t.actions[i]
           IN  {[pre |-> CSP(a, b, a.pre, << >>),
                 effs |-> {CSP(a, b, a.pre \cup a.effs[j].cond, <<a.effs[j]>>) : j \in DOMAIN a.effs}] : b \in Bindings(a.params)}
              : i \in DOMAIN t.actions}

\* <<variable, value>> of the effects that fire.
Fired(effs, view) ==
    UNION {{Produced(c, x, 1) : x \in {y \in Candidates(c) : NullaryTrue(c, view) /\ Consistent(c, y, view)}} : c \in effs}

FormulaCSP(formula) == CSP([name |-> "formula", params |-> formula.params], << >>, formula.conds, << >>)

Satisfied(formula, s) == Solutions(FormulaCSP(formula), ViewOf(AtomsOf(s))) # {}

\* Effects that write one variable write one value here; deletes before adds.
Update(s, fired) ==
    [v \in Vars |-> IF \E o \in fired : o[1] = v THEN Max({o[2] : o \in {u \in fired : u[1] = v}}) ELSE s[v]]

After(p, s, view) ==
    UNION {IF \A o \in fired : o[2] \in Values[o[1][1]] THEN {Update(s, fired)} ELSE {} : fired \in {Fired(p.effs, view)}}

Successors(steps, s) ==
    UNION {UNION {After(p, s, view) : p \in {q \in steps : Solutions(q.pre, view) # {}}} : view \in {ViewOf(AtomsOf(s))}}

\* The states reached from s, breadth first.
ReachedFrom(t, s) ==
    LET steps == Steps(t)
        constraints == FormulaCSP([params |-> << >>, conds |-> t.constraints])
        Legal(S) == {u \in S : Solutions(constraints, ViewOf(AtomsOf(u))) # {}}
        grow[q \in (SUBSET [Vars -> Int]) \X (SUBSET [Vars -> Int])] ==
            IF q[2] = {} THEN q[1]
            ELSE LET found == q[1] \cup q[2]
                 IN  grow[<<found, Legal((UNION {Successors(steps, v) : v \in q[2]}) \ found)>>]
    IN  grow[<<{}, {s}>>]
=============================================================================
