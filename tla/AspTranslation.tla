--------------------------- MODULE AspTranslation ---------------------------
(***************************************************************************)
(* The other route of the preprocessor: a parser of its own, a logic       *)
(* program whose least model is what a relaxed task can reach, and the     *)
(* removal of everything that is not reachable or never changes.           *)
(*                                                                         *)
(* A condition or an effect carries in rel the types of the variables it   *)
(* is about, and once it is linked to its groundings, in g the bindings    *)
(* (functions over the domain of rel) for which something is left of it.   *)
(* What the code does not survive is the result Crash.                     *)
(***************************************************************************)
EXTENDS FdTranslation

Nothing == [kind |-> "nothing"]
Crash == [kind |-> "crash"]
Agree(b, c) == \A x \in DOMAIN b \cap DOMAIN c : b[x] = c[x]
BindingsOf(types, f) == IF f.kind = "forall" THEN Bindings(types, f.vars) ELSE {<< >>}

-----------------------------------------------------------------------------
(* Parsing: negation normal form, flat junctions, the variables of a node *)

\* Junctions take over the parts of parts of their own kind, behind the others.
RECURSIVE Flattened(_)
Flattened(f) ==
    CASE f.kind = "lit" -> f
      [] f.kind \in Junctors ->
            LET Same(g) == g.kind = f.kind
                Other(g) == ~ Same(g)
            IN  [f EXCEPT !.parts = MapSeq(Flattened, SelectSeq(@, Other)
                                                      \o FlattenSeq(MapSeq(LAMBDA g : g.parts, SelectSeq(@, Same))))]
      [] OTHER -> [f EXCEPT !.parts = MapSeq(Flattened, @)]

RECURSIVE NnfEffect(_)
NnfEffect(e) ==
    CASE e.kind = "lit" -> e
      [] e.kind = "when" -> [e EXCEPT !.cond = Flattened(ParseCondition(@, FALSE)), !.parts = MapSeq(NnfEffect, @)]
      [] OTHER -> [e EXCEPT !.parts = MapSeq(NnfEffect, @)]

\* scope has the types of the variables that may occur.
RECURSIVE RelevantVars(_, _)
RelevantVars(f, scope) ==
    CASE f.kind = "lit" -> f @@ [rel |-> Restrict(scope, ToSet(f.args) \cap DOMAIN scope)]
      [] f.kind \in Quantifiers ->
            LET x == f.vars[1]
                g == RelevantVars(f.parts[1], (x.name :> x.type) @@ scope)
            IN  [f EXCEPT !.parts = <<g>>] @@ [rel |-> Restrict(g.rel, DOMAIN g.rel \ {x.name})]
      [] OTHER ->
            LET conds == IF f.kind = "when" THEN << RelevantVars(f.cond, scope) >> ELSE << >>
                parts == MapSeq(LAMBDA g : RelevantVars(g, scope), f.parts)
                rel == Restrict(scope, UNION {DOMAIN g.rel : g \in ToSet(conds \o parts)})
            IN  IF f.kind = "when" THEN [f EXCEPT !.cond = conds[1], !.parts = parts] @@ [rel |-> rel]
                ELSE [f EXCEPT !.parts = parts] @@ [rel |-> rel]

EnsureAnd(f) == IF f.kind = "and" THEN f ELSE And(<<f>>)

AspAction(a) ==
    LET scope == Bind(VarNames(a.params), VarTypes(a.params))
    IN  [a EXCEPT !.pre = RelevantVars(Flattened(ParseCondition(EnsureAnd(@), FALSE)), scope),
                  !.eff = RelevantVars(Flattened(NnfEffect(@)), scope)]

AspParse(t) ==
    [actions |-> MapSeq(AspAction, t.actions), goal |-> RelevantVars(Flattened(ParseCondition(t.goal, FALSE)), << >>)]

\* The grammar: what may occur in a condition ("pre"), in an effect ("eff")
\* and under a condition in an effect ("sim").
RECURSIVE WellFormed(_, _, _)
WellFormed(f, scope, context) ==
    CASE f.kind = "lit" -> f.pred = "=" => context = "pre" /\ (f.neg => ToSet(f.args) \subseteq scope)
      [] f.kind \in Junctors ->
            /\ f.parts # << >>
            /\ f.kind = "or" => context = "pre"
            /\ AllOf(LAMBDA g : WellFormed(g, scope, context), f.parts)
      [] f.kind \in Quantifiers ->
            /\ Len(f.vars) = 1 /\ f.vars[1].name \notin scope
            /\ f.kind = "exists" => context = "pre"
            /\ WellFormed(f.parts[1], scope \cup {f.vars[1].name}, context)
      [] f.kind = "when" ->
            /\ context = "eff"
            /\ WellFormed(ParseCondition(f.cond, FALSE), scope, "pre")
            /\ WellFormed(f.parts[1], scope, "sim")

AspParsable(t) ==
    /\ WellFormed(ParseCondition(t.goal, FALSE), {}, "pre")
    /\ AllOf(LAMBDA a : /\ a.eff.kind = "and"
                        /\ WellFormed(ParseCondition(a.pre, FALSE), ToSet(VarNames(a.params)), "pre")
                        /\ WellFormed(a.eff, ToSet(VarNames(a.params)), "eff"), t.actions)

-----------------------------------------------------------------------------
(* The logic program: ground has the facts pos and neg reached so far,     *)
(* where neg is about predicates that some condition negates, and the      *)
(* pairs that are known to be distinct                                     *)

RECURSIVE NegativeConditions(_, _)
NegativeConditions(f, collect) ==
    CASE f.kind = "lit" -> IF f.neg /\ collect THEN {f} ELSE {}
      [] f.kind = "when" -> NegativeConditions(f.cond, TRUE)
      [] OTHER -> UNION {NegativeConditions(g, collect) : g \in ToSet(f.parts)}

Negated(parsed) ==
    NegativeConditions(parsed.goal, TRUE)
    \cup UNION {NegativeConditions(a.pre, TRUE) \cup NegativeConditions(a.eff, FALSE) : a \in ToSet(parsed.actions)}

Distinct(types, negated) ==
    UNION {{p \in types[f.rel[f.args[1]]] \X types[f.rel[f.args[2]]] : p[1] # p[2]} : f \in {g \in negated : g.pred = "="}}

NegPredicates(negated) == {f.pred : f \in negated} \ {"="}
Unmentioned(t, types, preds) == AtomsOver(types, t.preds, preds) \ t.init

\* Quantifiers: a universal one is about the objects of its type, an
\* existential one about whatever its part was derived for.
RECURSIVE Reached(_, _, _)
Reached(ground, f, b) ==
    CASE f.kind = "lit" ->
            LET args == Values(b, f.args)
            IN  IF f.pred = "=" THEN IF f.neg THEN args \in ground.distinct ELSE args[1] = args[2]
                ELSE <<f.pred, args>> \in IF f.neg THEN ground.neg ELSE ground.pos
      [] f.kind = "and" -> AllOf(LAMBDA g : Reached(ground, g, b), f.parts)
      [] f.kind = "or" ->
            \E g \in ToSet(f.parts) :
                /\ Reached(ground, g, b)
                /\ \A x \in DOMAIN f.rel \ DOMAIN g.rel : b[x] \in ground.types[f.rel[x]]
      [] f.kind = "forall" ->
            IF DOMAIN f.parts[1].rel = {} THEN Reached(ground, f.parts[1], b)
            ELSE \A c \in Bindings(ground.types, f.vars) : Reached(ground, f.parts[1], c @@ b)
      [] f.kind = "exists" ->
            \E o \in ground.objects : Reached(ground, f.parts[1], (f.vars[1].name :> o) @@ b)

\* A universal condition over a type without objects leaves the variable in
\* the head of its rule unbound, which the grounder refuses.
RECURSIVE SafeCondition(_, _)
SafeCondition(types, f) ==
    /\ f.kind # "lit" => AllOf(LAMBDA g : SafeCondition(types, g), f.parts)
    /\ f.kind = "forall" /\ types[f.vars[1].type] = {} => DOMAIN f.rel = {} \/ DOMAIN f.parts[1].rel = {}

RECURSIVE SafeEffect(_, _)
SafeEffect(types, e) ==
    /\ e.kind # "lit" => AllOf(LAMBDA g : SafeEffect(types, g), e.parts)
    /\ e.kind = "when" => SafeCondition(types, e.cond)

AspGroundable(t, parsed) ==
    LET types == TypeMap(t)
    IN  /\ SafeCondition(types, parsed.goal)
        /\ AllOf(LAMBDA a : SafeCondition(types, a.pre) /\ SafeEffect(types, a.eff), parsed.actions)

RECURSIVE ReachedLits(_, _, _)
ReachedLits(ground, e, b) ==
    CASE e.kind = "lit" -> {[lit |-> e, args |-> Values(b, e.args)]}
      [] e.kind = "when" -> IF Reached(ground, e.cond, b) THEN ReachedLits(ground, e.parts[1], b) ELSE {}
      [] OTHER -> UNION {ReachedLits(ground, g, c @@ b) : g \in ToSet(e.parts), c \in BindingsOf(ground.types, e)}

ReachedBindings(ground, a) == {b \in Bindings(ground.types, a.params) : Reached(ground, a.pre, b)}
ActionLits(ground, parsed) ==
    UNION {UNION {ReachedLits(ground, a.eff, b) : b \in ReachedBindings(ground, a)} : a \in ToSet(parsed.actions)}
AtomsOf(lits) == {<<l.lit.pred, l.args>> : l \in lits}
Negative(lits) == {l \in lits : l.lit.neg}

\* Slip: a delete does not make its atom false.
GrowPositive(ground, parsed) == [ground EXCEPT !.pos = @ \cup AtomsOf(ActionLits(ground, parsed) \ Negative(ActionLits(ground, parsed)))]

Grow(ground, parsed) ==
    LET lits == ActionLits(ground, parsed)
    IN  [ground EXCEPT !.pos = @ \cup AtomsOf(lits \ Negative(lits)),
                       !.neg = @ \cup AtomsOf({l \in Negative(lits) : l.lit.pred \in NegPredicates(ground.negated)})]

RECURSIVE LeastModel(_, _)
LeastModel(ground, parsed) ==
    LET next == Grow(ground, parsed) IN IF next = ground THEN ground ELSE LeastModel(next, parsed)

AspGround(t, parsed) ==
    LET types == TypeMap(t)
        negated == Negated(parsed)
    IN  LeastModel([types |-> types, objects |-> DOMAIN t.objects, negated |-> negated,
                    distinct |-> Distinct(types, negated), pos |-> t.init,
                    neg |-> Unmentioned(t, types, NegPredicates(negated))], parsed)

\* The initial facts that no literal of an action takes back.  A literal is
\* known by the values of its variables, so that one about an object of the
\* domain description is not recognised.
Recognised(lits) == {l \in lits : ToSet(l.lit.args) \subseteq DOMAIN l.lit.rel}
WithStatics(t, parsed, ground) ==
    LET lits == Recognised(ActionLits(ground, parsed))
    IN  ground @@ [static |-> t.init \ AtomsOf(Negative(lits)),
                   negStatic |-> Unmentioned(t, ground.types, NegPredicates(ground.negated)) \ AtomsOf(lits \ Negative(lits))]

-----------------------------------------------------------------------------
(* Linking: what is left of a condition or an effect, and for which        *)
(* bindings                                                                *)

Groundings(ground, f) == {b \in [DOMAIN f.rel -> ground.objects] : Reached(ground, f, b)}
Kept(node, b) == \E c \in node.g : Agree(b, c)
KeptFor(g, node) == {b \in g : Kept(node, b)}
Linked(node, g) == IF g = {} THEN Nothing ELSE node @@ [g |-> g]

LinkedLit(ground, f, g) ==
    IF f.pred = "=" THEN Nothing
    ELSE Linked(f, {b \in g : <<f.pred, Values(b, f.args)>> \notin IF f.neg THEN ground.negStatic ELSE ground.static})

\* A part that no longer mentions a variable it had before: the quantified one
\* is not found, another one is left open, which matches no binding.
LinkedQuantifier(f, g, part) ==
    IF part \in {Nothing, Crash} THEN part
    ELSE IF f.vars[1].name \notin DOMAIN part.rel THEN Crash
    ELSE IF ~ (DOMAIN f.rel \subseteq DOMAIN part.rel) THEN Nothing
    ELSE Linked([f EXCEPT !.parts = <<part>>], KeptFor(g, part))

\* A conjunction of one part gives way to it; a disjunction of which anything
\* is left is not supported.
LinkedJunction(f, g, parts) ==
    LET flat == SelectSeq(parts, LAMBDA p : p.kind # f.kind)
                \o FlattenSeq(MapSeq(LAMBDA p : p.parts, SelectSeq(parts, LAMBDA p : p.kind = f.kind)))
        left == SelectSeq(flat, LAMBDA p : p # Nothing /\ KeptFor(g, p) # {})
    IN  IF Crash \in ToSet(parts) THEN Crash
        ELSE IF left = << >> THEN Nothing
        ELSE IF f.kind = "or" THEN Crash
        ELSE IF Len(left) = 1 THEN left[1]
        ELSE Linked([f EXCEPT !.parts = left], UNION {KeptFor(g, left[i]) : i \in DOMAIN left})

RECURSIVE LinkCondition(_, _)
LinkCondition(ground, f) ==
    LET g == Groundings(ground, f)
    IN  CASE f.kind = "lit" -> LinkedLit(ground, f, g)
          [] f.kind \in Junctors -> LinkedJunction(f, g, MapSeq(LAMBDA p : LinkCondition(ground, p), f.parts))
          [] f.kind \in Quantifiers -> LinkedQuantifier(f, g, LinkCondition(ground, f.parts[1]))

\* The condition of an effect keeps its static part only if it is a literal.
LinkWhenCondition(ground, f) ==
    IF f.kind = "lit" /\ f.pred # "=" THEN Linked(f, Groundings(ground, f)) ELSE LinkCondition(ground, f)

LinkedWhen(ground, e, g, part) ==
    IF part \in {Nothing, Crash} THEN part
    ELSE LET cond == LinkWhenCondition(ground, e.cond)
         IN  IF cond \in {Nothing, Crash} THEN Crash
             ELSE Linked([e EXCEPT !.cond = cond, !.parts = <<part>>], KeptFor(g, part))

\* g: the bindings for which the effect is reached.
RECURSIVE LinkEffect(_, _, _)
LinkEffect(ground, e, g) ==
    LET Below(p) == {Restrict(c @@ b, DOMAIN p.rel) : c \in BindingsOf(ground.types, e), b \in g}
        parts == MapSeq(LAMBDA p : LinkEffect(ground, p, Below(p)), e.parts)
    IN  CASE e.kind = "lit" -> LinkedLit(ground, e, g)
          [] e.kind = "and" -> LinkedJunction(e, g, parts)
          [] e.kind = "forall" -> LinkedQuantifier(e, g, parts[1])
          [] e.kind = "when" ->
                LET h == {b \in g : Reached(ground, e.cond, b)}
                IN  LinkedWhen(ground, e, g, LinkEffect(ground, e.parts[1], {Restrict(b, DOMAIN e.parts[1].rel) : b \in h}))

Parts(node) == IF node.kind = "and" THEN node.parts ELSE <<node>>
AllLits(node) == AllOf(LAMBDA p : p.kind = "lit", Parts(node))
Fluents(ground) == ground.pos \ ground.static

\* An unconditional literal that needs an atom to be false, or makes it so,
\* is entered at the atom, which has to be one that changes.
Entered(ground, node, b) ==
    AllOf(LAMBDA p : p.kind = "lit" /\ p.neg /\ Kept(p, b) => <<p.pred, Values(b, p.args)>> \in Fluents(ground), Parts(node))

LinkAction(ground, a) ==
    LET reached == ReachedBindings(ground, a)
        eff == LinkEffect(ground, a.eff, {Restrict(b, DOMAIN a.eff.rel) : b \in reached})
        pre == LinkCondition(ground, a.pre)
        left == KeptFor(reached, eff)
    IN  IF eff \in {Nothing, Crash} THEN eff
        ELSE IF pre \in {Nothing, Crash} THEN Crash
        ELSE IF \E b \in left : ~ (Kept(pre, b) /\ Entered(ground, pre, b) /\ Entered(ground, eff, b)) THEN Crash
        ELSE [name |-> a.name, params |-> a.params, pre |-> pre, eff |-> eff, bindings |-> left]

AspLink(ground, parsed) ==
    [actions |-> SelectSeq(MapSeq(LAMBDA a : LinkAction(ground, a), parsed.actions), LAMBDA a : a # Nothing),
     goal |-> LinkCondition(ground, parsed.goal)]

RECURSIVE HasExists(_)
HasExists(f) == f.kind # "lit" /\ (f.kind = "exists" \/ ~ AllOf(LAMBDA g : ~ HasExists(g), f.parts))

AspLinkable(linked) ==
    /\ Crash \notin ToSet(linked.actions)
    /\ linked.goal \notin {Nothing, Crash} /\ ~ HasExists(linked.goal)

-----------------------------------------------------------------------------
(* The task index *)

PlainLit(f, b) == [kind |-> "lit", neg |-> f.neg, pred |-> f.pred, args |-> Values(b, f.args)]
Converted(node) == And(MapSeq(LAMBDA p : PlainLit(p, << >>), Parts(node)))

RECURSIVE ConvertedEffect(_)
ConvertedEffect(e) ==
    CASE e.kind = "lit" -> << [vars |-> << >>, cond |-> True, lit |-> PlainLit(e, << >>)] >>
      [] e.kind = "when" -> MapSeq(LAMBDA l : [vars |-> << >>, cond |-> Converted(e.cond), lit |-> l], Converted(e.parts[1]).parts)
      [] e.kind = "forall" -> MapSeq(LAMBDA n : [vars |-> e.vars, cond |-> n.cond.parts[1], lit |-> n.lit], ConvertedEffect(e.parts[1]))

Convertible(e) ==
    CASE e.kind = "lit" -> TRUE
      [] e.kind = "when" -> AllLits(e.cond) /\ AllLits(e.parts[1])
      [] e.kind = "forall" ->
            LET part == e.parts[1]
            IN  part.kind = "when" /\ AllLits(part.cond) /\ AllLits(part.parts[1]) /\ Len(Parts(part.cond)) = 1

ConvertedAction(a) ==
    [name |-> a.name, params |-> a.params, pre |-> Converted(a.pre),
     effs |-> FlattenSeq(MapSeq(ConvertedEffect, Parts(a.eff)))]

\* A universal goal stands for every object its part is linked for.
RECURSIVE GoalLits(_, _, _)
GoalLits(ground, f, b) ==
    CASE f.kind = "lit" -> << PlainLit(f, b) >>
      [] f.kind = "and" -> FlattenSeq(MapSeq(LAMBDA p : GoalLits(ground, p, b), SelectSeq(f.parts, LAMBDA p : Kept(p, b))))
      [] f.kind = "forall" ->
            LET With(o) == (f.vars[1].name :> o) @@ b
            IN  FlattenSeq(MapSeq(LAMBDA o : GoalLits(ground, f.parts[1], With(o)),
                                  SetToSeq({o \in ground.objects : Kept(f.parts[1], With(o))})))

AspIndex(t, ground, linked) ==
    LET actions == MapSeq(ConvertedAction, linked.actions)
        fluents == EffectSymbols(actions)
        variables == {at \in Fluents(ground) : at[1] \in fluents}
        Tuple(a) == {Values(b, VarNames(a.params)) : b \in a.bindings}
    IN  [types |-> ground.types, fluents |-> fluents, variables |-> variables,
         init |-> variables \cap t.init, static |-> ground.static,
         actions |-> MapSeq(LAMBDA a : ProcessedAction(ground.types, a), actions),
         groundings |-> Bind(MapSeq(LAMBDA a : a.name, actions), MapSeq(Tuple, linked.actions)),
         goal |-> ProcessedFormula(And(GoalLits(ground, linked.goal, << >>))),
         constraints |-> And(<< >>), derived |-> << >>]

AspIndexable(t, ground, linked) ==
    /\ AllOf(LAMBDA a : AllLits(a.pre) /\ AllOf(Convertible, Parts(a.eff)) /\ ActionProcessable(ConvertedAction(a)), linked.actions)
    /\ \A at \in Fluents(ground) \cap t.init : at[1] \in EffectSymbols(MapSeq(ConvertedAction, linked.actions))

\* The planner stops at a literal over a symbol that changes, but not in this
\* atom, unless a static part before it is already false.
Resolvable(index) ==
    LET Stops(l, b) == l.pred \in index.fluents /\ <<l.pred, Values(b, l.args)>> \notin index.variables
        IsFalse(l, b) == l.pred \notin index.fluents /\ (<<l.pred, Values(b, l.args)>> \in index.static) = l.neg
        Resolves(f, b) == LET i == SelectInSeq(f.parts, LAMBDA l : Stops(l, b) \/ IsFalse(l, b))
                          IN  i # 0 => ~ Stops(f.parts[i], b)
    IN  /\ Resolves(index.goal, << >>)
        /\ \A a \in ToSet(index.actions) : \A args \in index.groundings[a.name] :
                LET b == Bind(VarNames(a.params), args)
                IN  Resolves(a.pre, b) /\ AllOf(LAMBDA e : e.cond = True \/ Resolves(e.cond, b), a.effs)
=============================================================================
