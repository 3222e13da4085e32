---------------------------- MODULE FdTranslation ----------------------------
(***************************************************************************)
(* The default route of the preprocessor: the parser inherited from Fast   *)
(* Downward, which brings conditions into negation normal form, simplifies *)
(* them, renames variables apart and splits effects; and the task index    *)
(* built from what it returns, with the formulas in prenex form.           *)
(*                                                                         *)
(* A normalised effect is a record [vars, cond, lit].  An operation that   *)
(* raises an exception for some inputs comes with a predicate that says    *)
(* for which ones it does not.                                             *)
(***************************************************************************)
EXTENDS Pddl

-----------------------------------------------------------------------------
(* Conditions *)

Dual(kind) == CASE kind = "and" -> "or" [] kind = "or" -> "and" [] kind = "forall" -> "exists" [] kind = "exists" -> "forall"

\* Negation normal form, built while parsing.
RECURSIVE ParseCondition(_, _)
ParseCondition(f, negated) ==
    CASE f.kind = "lit" -> [f EXCEPT !.neg = negated]
      [] f.kind = "not" -> ParseCondition(f.parts[1], ~ negated)
      [] f.kind = "imply" ->
            Junction(IF negated THEN "and" ELSE "or",
                     <<ParseCondition(f.parts[1], ~ negated), ParseCondition(f.parts[2], negated)>>)
      [] OTHER ->
            [f EXCEPT !.kind = IF negated THEN Dual(@) ELSE @,
                      !.parts = MapSeq(LAMBDA g : ParseCondition(g, negated), @)]

\* A junction of simplified parts: nested ones are merged, neutral parts
\* dropped, and an absorbing part decides.
SimplifiedJunction(kind, neutral, absorbing, parts) ==
    LET kept == FlattenSeq(MapSeq(LAMBDA g : IF g.kind = kind THEN g.parts
                                             ELSE IF g = neutral THEN << >> ELSE <<g>>, parts))
    IN  IF absorbing \in ToSet(parts) THEN absorbing
        ELSE IF kept = << >> THEN neutral
        ELSE IF Len(kept) = 1 THEN kept[1]
        ELSE Junction(kind, kept)

RECURSIVE Simplified(_)
Simplified(f) ==
    CASE f.kind = "and" -> SimplifiedJunction("and", True, False, MapSeq(Simplified, f.parts))
      [] f.kind = "or" -> SimplifiedJunction("or", False, True, MapSeq(Simplified, f.parts))
      [] f.kind \in Quantifiers ->
            LET g == Simplified(f.parts[1]) IN IF g \in {True, False} THEN g ELSE [f EXCEPT !.parts = <<g>>]
      [] OTHER -> f

-----------------------------------------------------------------------------
(* Renaming apart: used is the set of the names taken so far, ren maps a   *)
(* name of the source to the one that stands for it in the current scope   *)

FreshName(used, name) ==
    IF name \notin used THEN name
    ELSE name \o ToString(CHOOSE k \in 1 .. Cardinality(used) :
                             /\ name \o ToString(k) \notin used
                             /\ \A j \in 1 .. k - 1 : name \o ToString(j) \in used)

\* Slip: the new name is taken, but not recorded for the scope.
RenamedVarsOnly(used, ren, vars) ==
    LET Rename(acc, v) == LET new == FreshName(acc.used, v.name)
                          IN  [acc EXCEPT !.used = @ \cup {new}, !.vars = Append(@, Typed(new, v.type))]
    IN  FoldLeft(Rename, [used |-> used, ren |-> ren, vars |-> << >>], vars)

RenamedVars(used, ren, vars) ==
    LET Rename(acc, v) ==
            LET new == FreshName(acc.used, v.name)
            IN  [used |-> acc.used \cup {new},
                 ren |-> IF new = v.name THEN acc.ren ELSE (v.name :> new) @@ acc.ren,
                 vars |-> Append(acc.vars, Typed(new, v.type))]
    IN  FoldLeft(Rename, [used |-> used, ren |-> ren, vars |-> << >>], vars)

RECURSIVE Uniquified(_, _, _)
Uniquified(used, ren, f) ==
    CASE f.kind = "lit" -> [used |-> used, f |-> [f EXCEPT !.args = Values(ren, @)]]
      [] f.kind \in Junctors ->
            LET Add(acc, g) == LET u == Uniquified(acc.used, ren, g) IN [used |-> u.used, parts |-> Append(acc.parts, u.f)]
                all == FoldLeft(Add, [used |-> used, parts |-> << >>], f.parts)
            IN  [used |-> all.used, f |-> [f EXCEPT !.parts = all.parts]]
      [] f.kind \in Quantifiers ->
            LET q == RenamedVars(used, ren, f.vars)
                u == Uniquified(q.used, q.ren, f.parts[1])
            IN  [used |-> u.used, f |-> Quantified(f.kind, q.vars, u.f)]
      [] OTHER -> [used |-> used, f |-> f]

UniquifiedEffect(used, e) ==
    LET q == RenamedVars(used, << >>, e.vars)
        u == Uniquified(q.used, q.ren, e.cond)
    IN  [used |-> u.used, e |-> [vars |-> q.vars, cond |-> u.f, lit |-> [e.lit EXCEPT !.args = Values(q.ren, @)]]]

-----------------------------------------------------------------------------
(* Effects *)

Conditional(cond, e) == [e EXCEPT !.cond = IF @ = True THEN cond ELSE And(<<cond, @>>)]

\* An effect as a sequence of simple ones; the variables of a quantifier
\* under a condition move out of it as they are.
RECURSIVE Normalized(_)
Normalized(e) ==
    CASE e.kind = "lit" -> << [vars |-> << >>, cond |-> True, lit |-> e] >>
      [] e.kind = "and" -> FlattenSeq(MapSeq(Normalized, e.parts))
      [] e.kind = "when" ->
            MapSeq(LAMBDA n : Conditional(ParseCondition(e.cond, FALSE), n), Normalized(e.parts[1]))
      [] e.kind = "forall" -> MapSeq(LAMBDA n : [n EXCEPT !.vars = e.vars \o @], Normalized(e.parts[1]))

RECURSIVE IsConjunctive(_)
IsConjunctive(e) == e.kind = "and" \/ (e.kind \in {"when", "forall"} /\ IsConjunctive(e.parts[1]))

\* A conjunction under a condition has no quantified part.
RECURSIVE Normalizable(_)
Normalizable(e) ==
    /\ e.kind # "lit" => AllOf(Normalizable, e.parts)
    /\ e.kind = "when" /\ IsConjunctive(e.parts[1]) => AllOf(LAMBDA n : n.vars = << >>, Normalized(e.parts[1]))

\* Slip: contradictory effects are kept side by side.
AppendEffect(result, e) == Append(result, [e EXCEPT !.cond = Simplified(@)])

\* An effect that contradicts an earlier one under the same condition: the
\* one that adds stays.
AddEffect(result, e) ==
    LET new == [e EXCEPT !.cond = Simplified(@)]
        contradiction == [new EXCEPT !.lit.neg = ~ @]
    IN  IF contradiction \notin ToSet(result) THEN Append(result, new)
        ELSE IF contradiction.lit.neg THEN Append(RemoveFirst(result, contradiction), new)
        ELSE result

ParseEffects(e) == FoldLeft(AddEffect, << >>, Normalized(e))

ParseAction(a) ==
    LET pre == Uniquified(ToSet(VarNames(a.params)), << >>, Simplified(ParseCondition(a.pre, FALSE)))
        Add(acc, e) == LET u == UniquifiedEffect(acc.used, e) IN [used |-> u.used, effs |-> Append(acc.effs, u.e)]
    IN  [name |-> a.name, params |-> a.params, pre |-> pre.f,
         effs |-> FoldLeft(Add, [used |-> pre.used, effs |-> << >>], ParseEffects(a.eff)).effs]

ParseAxiom(d) == [d EXCEPT !.body = Uniquified(ToSet(VarNames(d.params)), << >>, ParseCondition(@, FALSE)).f]

ParseTask(t) ==
    [actions |-> MapSeq(ParseAction, t.actions),
     goal |-> ParseCondition(t.goal, FALSE),
     constraints |-> ParseCondition(t.constraints, FALSE),
     derived |-> [p \in DOMAIN t.derived |-> ParseAxiom(t.derived[p])]]
Parsable(t) == AllOf(LAMBDA a : Normalizable(a.eff), t.actions)

-----------------------------------------------------------------------------
(* The types *)

RECURSIVE Supertypes(_, _)
Supertypes(t, type) == IF type = "object" THEN {} ELSE {t.parent[type]} \cup Supertypes(t, t.parent[type])

TypeMap(t) ==
    [type \in TypeNames(t) |-> {o \in DOMAIN t.objects : type \in {t.objects[o]} \cup Supertypes(t, t.objects[o])}]

-----------------------------------------------------------------------------
(* Formulas and effects of the index *)

\* The quantifiers of the parts move in front, those of the first quantified
\* part first.
RECURSIVE PullQuantifiers(_)
PullQuantifiers(f) ==
    LET i == SelectInSeq(f.parts, LAMBDA g : g.kind \in Quantifiers)
    IN  IF i = 0 THEN f
        ELSE [f.parts[i] EXCEPT !.parts = <<PullQuantifiers([f EXCEPT !.parts[i] = f.parts[i].parts[1]])>>]

RECURSIVE Prenex(_)
Prenex(f) ==
    CASE f.kind \in Junctors -> PullQuantifiers([f EXCEPT !.parts = MapSeq(Prenex, @)])
      [] f.kind \in Quantifiers -> [f EXCEPT !.parts = MapSeq(Prenex, @)]
      [] OTHER -> f

EnsureConjunction(f) == IF f.kind = "lit" THEN And(<<f>>) ELSE f
ProcessedFormula(f) == Prenex(EnsureConjunction(f))

RECURSIVE QuantifiedNames(_)
QuantifiedNames(f) ==
    (IF f.kind \in Quantifiers THEN VarNames(f.vars) ELSE << >>)
    \o (IF f.kind \in Junctors \cup Quantifiers THEN FlattenSeq(MapSeq(QuantifiedNames, f.parts)) ELSE << >>)

RECURSIVE HasFalsity(_)
HasFalsity(f) == f.kind = "false" \/ (f.kind \in Junctors \cup Quantifiers /\ ~ AllOf(LAMBDA g : ~ HasFalsity(g), f.parts))

\* No impossible part, and no name twice in the binding unit.
Processable(f, unit) == ~ HasFalsity(f) /\ IsInjective(unit \o QuantifiedNames(f))

\* The value of the variable in a literal or a conjunction; another condition
\* raises an exception, and so does a literal that has the variable twice,
\* where only one occurrence is replaced.
RECURSIVE GroundAtom(_, _)
GroundAtom(f, b) ==
    CASE f.kind = "lit" -> [f EXCEPT !.args = Values(b, @)]
      [] f.kind = "and" -> [f EXCEPT !.parts = MapSeq(LAMBDA g : GroundAtom(g, b), @)]
      [] OTHER -> f

RECURSIVE Groundable(_, _)
Groundable(f, x) ==
    CASE f.kind = "lit" -> Cardinality({i \in DOMAIN f.args : f.args[i] = x}) <= 1
      [] f.kind = "and" -> AllOf(LAMBDA g : Groundable(g, x), f.parts)
      [] OTHER -> f.kind \in {"true", "false"}

\* A quantified effect becomes one effect per object.
GroundedEffects(types, e) ==
    IF e.vars = << >> THEN <<e>>
    ELSE LET Ground(o) == LET b == e.vars[1].name :> o
                          IN  [vars |-> << >>, cond |-> GroundAtom(e.cond, b), lit |-> GroundAtom(e.lit, b)]
         IN  MapSeq(Ground, SetToSeq(types[e.vars[1].type]))

ProcessedEffects(types, effs) ==
    MapSeq(LAMBDA e : [cond |-> ProcessedFormula(e.cond), lit |-> e.lit],
           FlattenSeq(MapSeq(LAMBDA e : GroundedEffects(types, e), effs)))

ProcessedAction(types, a) ==
    [name |-> a.name, params |-> a.params, pre |-> ProcessedFormula(a.pre), effs |-> ProcessedEffects(types, a.effs)]

EffectProcessable(e, unit) ==
    /\ Len(e.vars) <= 1
    /\ e.vars # << >> => Groundable(e.cond, e.vars[1].name) /\ Groundable(e.lit, e.vars[1].name)
    /\ Processable(e.cond, unit)

ActionProcessable(a) ==
    LET unit == VarNames(a.params) \o QuantifiedNames(a.pre)
    IN  Processable(a.pre, VarNames(a.params)) /\ AllOf(LAMBDA e : EffectProcessable(e, unit), a.effs)

-----------------------------------------------------------------------------
(* The task index *)

HasGroundings(types, a) == \A i \in DOMAIN a.params : types[a.params[i].type] # {}
EffectSymbols(actions) == UNION {{e.lit.pred : e \in ToSet(a.effs)} : a \in ToSet(actions)}
InitialFluents(t, fluents) == {at \in t.init : at[1] \in fluents}
AtomsOver(types, preds, syms) == UNION {{<<p, args>> : args \in Tuples(types, preds[p])} : p \in syms}

FdIndex(t, parsed) ==
    LET types == TypeMap(t)
        fluents == EffectSymbols(parsed.actions)
    IN  [types |-> types,
         fluents |-> fluents,
         variables |-> AtomsOver(types, t.preds, fluents),
         init |-> InitialFluents(t, fluents),
         static |-> t.init \ InitialFluents(t, fluents),
         actions |-> MapSeq(LAMBDA a : ProcessedAction(types, a),
                            SelectSeq(parsed.actions, LAMBDA a : HasGroundings(types, a))),
         groundings |-> Bind(MapSeq(LAMBDA a : a.name, t.actions),
                             MapSeq(LAMBDA a : Tuples(types, VarTypes(a.params)), t.actions)),
         goal |-> ProcessedFormula(parsed.goal),
         constraints |-> ProcessedFormula(parsed.constraints),
         derived |-> [p \in DOMAIN parsed.derived |-> [parsed.derived[p] EXCEPT !.body = ProcessedFormula(@)]]]

FdIndexable(t, parsed) ==
    /\ AllOf(LAMBDA a : HasGroundings(TypeMap(t), a) => ActionProcessable(a), parsed.actions)
    /\ Processable(parsed.goal, << >>)
    /\ Processable(parsed.constraints, << >>)
    /\ \A p \in DOMAIN parsed.derived : Processable(parsed.derived[p].body, VarNames(parsed.derived[p].params))

\* A static predicate without arguments that is true has no table to be
\* written to; one that is false is read from a table nobody wrote.
NullaryStatics(t, index) == {p \in DOMAIN t.preds \ DOMAIN t.derived : t.preds[p] = << >>} \ index.fluents
Writable(t, index) == \A at \in index.static : at[1] \notin NullaryStatics(t, index)
Readable(t, index) == NullaryStatics(t, index) \subseteq {at[1] : at \in index.static}
=============================================================================
