-------------------------------- MODULE Pddl --------------------------------
(***************************************************************************)
(* The planning tasks the preprocessor reads, and what they mean: the      *)
(* abstract syntax of PDDL and its usual semantics, against which the      *)
(* translations are checked.                                               *)
(*                                                                         *)
(* A term is a string: the name of an object, or of a variable when the    *)
(* binding at hand has it in its domain.  A formula or an effect is a      *)
(* record with a field kind.  A state is the set of the atoms <<predicate, *)
(* arguments>> that hold.                                                  *)
(***************************************************************************)
EXTENDS Naturals, Sequences, FiniteSets, SequencesExt, TLC

Lit(pred, args) == [kind |-> "lit", neg |-> FALSE, pred |-> pred, args |-> args]
Del(pred, args) == [Lit(pred, args) EXCEPT !.neg = TRUE]
Eq(x, y) == Lit("=", <<x, y>>)
True == [kind |-> "true"]
False == [kind |-> "false"]
Junction(kind, parts) == [kind |-> kind, parts |-> parts]
And(parts) == Junction("and", parts)
Or(parts) == Junction("or", parts)
Not(f) == Junction("not", <<f>>)
Imply(f, g) == Junction("imply", <<f, g>>)
Quantified(kind, vars, f) == [kind |-> kind, vars |-> vars, parts |-> <<f>>]
Forall(vars, f) == Quantified("forall", vars, f)
Exists(vars, f) == Quantified("exists", vars, f)
When(cond, e) == [kind |-> "when", cond |-> cond, parts |-> <<e>>]
Typed(name, type) == [name |-> name, type |-> type]

Quantifiers == {"forall", "exists"}
Junctors == {"and", "or"}
VarNames(vars) == [i \in DOMAIN vars |-> vars[i].name]
VarTypes(vars) == [i \in DOMAIN vars |-> vars[i].type]
MapSeq(Op(_), seq) == [i \in DOMAIN seq |-> Op(seq[i])]
AllOf(Test(_), seq) == \A i \in DOMAIN seq : Test(seq[i])

-----------------------------------------------------------------------------
(* What the variables of a formula range over *)

TypeNames(t) == {"object"} \cup DOMAIN t.parent
\* An object is of every type in all the sets that have its own type and,
\* with a type, the one it extends.
Closed(t, S) == \A type \in S : type # "object" => t.parent[type] \in S
ObjectsOf(t) ==
    LET closed == {S \in SUBSET TypeNames(t) : Closed(t, S)}
    IN  [type \in TypeNames(t) |-> {o \in DOMAIN t.objects : \A S \in closed : t.objects[o] \in S => type \in S}]
Language(t) == [types |-> ObjectsOf(t), derived |-> t.derived]

Value(b, x) == IF x \in DOMAIN b THEN b[x] ELSE x
Values(b, args) == MapSeq(LAMBDA x : Value(b, x), args)
Bind(names, values) == [x \in ToSet(names) |-> values[CHOOSE i \in DOMAIN names : names[i] = x]]
Tuples(types, typenames) ==
    {a \in [DOMAIN typenames -> UNION Range(types)] : \A i \in DOMAIN typenames : a[i] \in types[typenames[i]]}
Bindings(types, vars) == {Bind(VarNames(vars), a) : a \in Tuples(types, VarTypes(vars))}

-----------------------------------------------------------------------------
(* Truth in a state, and the successor: the effects that delete come first *)

RECURSIVE Sat(_, _, _, _)
Sat(lang, s, f, b) ==
    CASE f.kind = "true" -> TRUE
      [] f.kind = "false" -> FALSE
      [] f.kind = "and" -> AllOf(LAMBDA g : Sat(lang, s, g, b), f.parts)
      [] f.kind = "or" -> ~ AllOf(LAMBDA g : ~ Sat(lang, s, g, b), f.parts)
      [] f.kind = "not" -> ~ Sat(lang, s, f.parts[1], b)
      [] f.kind = "imply" -> Sat(lang, s, f.parts[1], b) => Sat(lang, s, f.parts[2], b)
      [] f.kind = "forall" -> \A c \in Bindings(lang.types, f.vars) : Sat(lang, s, f.parts[1], c @@ b)
      [] f.kind = "exists" -> \E c \in Bindings(lang.types, f.vars) : Sat(lang, s, f.parts[1], c @@ b)
      [] f.kind = "lit" ->
            LET args == Values(b, f.args)
                holds == IF f.pred = "=" THEN args[1] = args[2]
                         ELSE IF f.pred \in DOMAIN lang.derived
                         THEN Sat(lang, s, lang.derived[f.pred].body, Bind(VarNames(lang.derived[f.pred].params), args))
                         ELSE <<f.pred, args>> \in s
            IN  holds # f.neg

\* The atoms an effect adds (neg is FALSE) or deletes.
RECURSIVE Changes(_, _, _, _, _)
Changes(lang, s, e, b, neg) ==
    CASE e.kind = "lit" -> IF e.neg = neg THEN {<<e.pred, Values(b, e.args)>>} ELSE {}
      [] e.kind = "and" -> UNION {Changes(lang, s, e.parts[i], b, neg) : i \in DOMAIN e.parts}
      [] e.kind = "when" -> IF Sat(lang, s, e.cond, b) THEN Changes(lang, s, e.parts[1], b, neg) ELSE {}
      [] e.kind = "forall" -> UNION {Changes(lang, s, e.parts[1], c @@ b, neg) : c \in Bindings(lang.types, e.vars)}

Applicable(lang, s, a, b) == Sat(lang, s, a.pre, b)
Successor(lang, s, a, b) == (s \ Changes(lang, s, a.eff, b, TRUE)) \cup Changes(lang, s, a.eff, b, FALSE)
=============================================================================
