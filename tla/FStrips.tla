------------------------------- MODULE FStrips -------------------------------
(***************************************************************************)
(* The Functional STRIPS language: terms, formulas and effects, what they  *)
(* mean in a state, how a binding is applied to them, how the static terms *)
(* that turn out to be axioms are replaced, and the scopes the applicability *)
(* indexes are built from.                                                 *)
(*                                                                         *)
(* A term or formula is a record with a field kind, one kind per class of  *)
(* the source.  State variables are numbered by their place in StateVars.  *)
(* An axiom is referred to by a pointer <<name, version>> into a heap; the *)
(* version changes when the axiom is replaced by a processed copy.         *)
(***************************************************************************)
EXTENDS Integers, Sequences, FiniteSets, SequencesExt

CONSTANTS
    TypeObjects,  \* the objects of each type, in the order of the code
    StateVars,    \* the state variables: a sequence of <<symbol, arguments>>
    Fluents,      \* the codomain type of each fluent symbol
    Predicates,   \* the fluent symbols that are predicates
    Statics       \* the extension of each static symbol

Vars == DOMAIN StateVars
Objects(type) == ToSet(TypeObjects[type])
VarType(v) == Fluents[StateVars[v][1]]
Dom == [v \in Vars |-> Objects(VarType(v))]
State == {s \in [Vars -> UNION {Dom[v] : v \in Vars}] : \A v \in Vars : s[v] \in Dom[v]}
Predicative(v) == StateVars[v][1] \in Predicates

\* The state variable of a symbol applied to constants; 0 stands for the
\* exception out_of_range.
VarOf(sym, args) ==
    IF \E v \in Vars : StateVars[v] = <<sym, args>>
    THEN CHOOSE v \in Vars : StateVars[v] = <<sym, args>>
    ELSE 0

-----------------------------------------------------------------------------
(* Terms and formulas *)

Const(n) == [kind |-> "const", value |-> n]
Param(i, type) == [kind |-> "bound", id |-> i, type |-> type]
Var(v) == [kind |-> "var", var |-> v]
Fluent(sym, args) == [kind |-> "fluent", sym |-> sym, args |-> args]
Static(sym, args) == [kind |-> "static", sym |-> sym, args |-> args]
AxiomTerm(ptr, args) == [kind |-> "axiom", ptr |-> ptr, args |-> args]
Arith(op, args) == [kind |-> "arith", op |-> op, args |-> args]

True == [kind |-> "true"]
False == [kind |-> "false"]
Error == [kind |-> "error"]   \* an exception was thrown
AtomicF(op, args) == [kind |-> "atom", op |-> op, args |-> args]
And(parts) == [kind |-> "and", parts |-> parts]
Or(parts) == [kind |-> "or", parts |-> parts]
Exists(vars, sub) == [kind |-> "exists", vars |-> vars, sub |-> sub]
Forall(vars, sub) == [kind |-> "forall", vars |-> vars, sub |-> sub]

Nested == {"fluent", "static", "axiom", "arith"}
Quantified == {"exists", "forall"}
Open == {"and", "or"}

Compute(op, a, b) == CASE op = "+" -> a + b [] op = "-" -> a - b [] op = "*" -> a * b
Related(op, a, b) ==
    CASE op = "=" -> a = b [] op = "!=" -> a # b [] op = "<" -> a < b
      [] op = "<=" -> a <= b [] op = ">" -> a > b [] op = ">=" -> a >= b

\* All bindings of a sequence of parameters to objects of their types.
BindingsOf(params) ==
    LET ids == {params[i].id : i \in DOMAIN params}
        type == [id \in ids |-> params[CHOOSE i \in DOMAIN params : params[i].id = id].type]
    IN  {b \in [ids -> UNION {Objects(type[id]) : id \in ids}] : \A id \in ids : b[id] \in Objects(type[id])}

Extended(b, c) == [i \in DOMAIN b \cup DOMAIN c |-> IF i \in DOMAIN c THEN c[i] ELSE b[i]]

-----------------------------------------------------------------------------
(* Interpretation, under a binding b and a heap ax of axioms.  An axiom is *)
(* a sentence: its definition sees its own parameters only.                *)

RECURSIVE Value(_, _, _, _), Holds(_, _, _, _)

Invoke(ptr, args, s, ax) ==
    LET own == [id \in {ax[ptr].params[i].id : i \in DOMAIN ax[ptr].params} |->
                   args[CHOOSE i \in DOMAIN ax[ptr].params : ax[ptr].params[i].id = id]]
    IN  IF Holds(ax[ptr].def, s, own, ax) THEN 1 ELSE 0

Value(t, s, b, ax) ==
    LET args == [i \in DOMAIN t.args |-> Value(t.args[i], s, b, ax)]
    IN  CASE t.kind = "const"  -> t.value
          [] t.kind = "bound"  -> b[t.id]
          [] t.kind = "var"    -> s[t.var]
          [] t.kind = "fluent" -> s[VarOf(t.sym, args)]
          [] t.kind = "static" -> IF <<t.sym, 0>> \in DOMAIN ax THEN Invoke(<<t.sym, 0>>, args, s, ax)
                                  ELSE Statics[t.sym][args]
          [] t.kind = "axiom"  -> Invoke(t.ptr, args, s, ax)
          [] t.kind = "arith"  -> Compute(t.op, args[1], args[2])

Holds(f, s, b, ax) ==
    CASE f.kind = "true"   -> TRUE
      [] f.kind = "false"  -> FALSE
      [] f.kind = "atom"   -> Related(f.op, Value(f.args[1], s, b, ax), Value(f.args[2], s, b, ax))
      [] f.kind = "and"    -> \A i \in DOMAIN f.parts : Holds(f.parts[i], s, b, ax)
      [] f.kind = "or"     -> \E i \in DOMAIN f.parts : Holds(f.parts[i], s, b, ax)
      [] f.kind = "exists" -> \E c \in BindingsOf(f.vars) : Holds(f.sub, s, Extended(b, c), ax)
      [] f.kind = "forall" -> \A c \in BindingsOf(f.vars) : Holds(f.sub, s, Extended(b, c), ax)

NoBinding == << >>
EmptyHeap == << >>

-----------------------------------------------------------------------------
(* Binding: parameters are replaced by constants, and what has become      *)
(* constant is evaluated.  Terms with a static head stay as they are.      *)

RECURSIVE BindTerm(_, _), Bind(_, _)

BoundTerms(args, b) == [i \in DOMAIN args |-> BindTerm(args[i], b)]
Constant(args) == \A i \in DOMAIN args : args[i].kind = "const"
Constants(args) == [i \in DOMAIN args |-> args[i].value]

BindTerm(t, b) ==
    LET args == BoundTerms(t.args, b)
        failed == \E i \in DOMAIN args : args[i] = Error
    IN  CASE t.kind \in {"const", "var"} -> t
          [] t.kind = "bound" -> IF t.id \in DOMAIN b THEN Const(b[t.id]) ELSE t
          [] t.kind \in Nested /\ failed -> Error
          [] t.kind = "fluent" /\ ~failed ->
               IF ~Constant(args) THEN Fluent(t.sym, args)
               ELSE IF VarOf(t.sym, Constants(args)) = 0 THEN Error
               ELSE Var(VarOf(t.sym, Constants(args)))
          [] t.kind = "arith" /\ ~failed ->
               IF Constant(args) THEN Const(Compute(t.op, args[1].value, args[2].value))
               ELSE Arith(t.op, args)
          [] OTHER -> [t EXCEPT !.args = args]

\* The parts up to the first one that decides the formula.  A part that
\* resolves to `neutral` is left out.
BoundParts(f, b, decisive, neutral) ==
    LET bound == [i \in DOMAIN f.parts |-> Bind(f.parts[i], b)]
        stops == {i \in DOMAIN bound : bound[i] \in {decisive, Error}}
        rest == SelectSeq(bound, LAMBDA p : p # neutral)
    IN  IF stops # {} THEN bound[CHOOSE i \in stops : \A j \in stops : i <= j]
        ELSE IF rest = << >> THEN neutral
        ELSE [f EXCEPT !.parts = rest]

Bind(f, b) ==
    LET args == BoundTerms(f.args, b)
        sub == Bind(f.sub, b)
        rebound == \E i \in DOMAIN f.vars : f.vars[i].id \in DOMAIN b
    IN  CASE f.kind = "atom" ->
               IF \E i \in DOMAIN args : args[i] = Error THEN Error
               ELSE IF ~Constant(args) THEN [f EXCEPT !.args = args]
               ELSE IF Related(f.op, args[1].value, args[2].value) THEN True ELSE False
          [] f.kind = "and" -> BoundParts(f, b, False, True)
          [] f.kind = "or" -> BoundParts(f, b, True, False)
          [] f.kind \in Quantified ->
               IF rebound THEN Error
               ELSE IF sub \in {True, False, Error} THEN sub
               ELSE [f EXCEPT !.sub = sub]
          [] OTHER -> f

-----------------------------------------------------------------------------
(* Replacing terms headed by the name of an axiom by axiom terms.  Only    *)
(* the direct arguments of atoms, and arguments of axioms, are looked at.  *)

RECURSIVE ProcessTerm(_, _), ProcessAxioms(_, _)

ProcessTerm(t, table) ==
    IF t.kind = "static" /\ t.sym \in DOMAIN table
    THEN AxiomTerm(table[t.sym], [i \in DOMAIN t.args |-> ProcessTerm(t.args[i], table)])
    ELSE t

ProcessAxioms(f, table) ==
    CASE f.kind = "atom" -> [f EXCEPT !.args = [i \in DOMAIN f.args |-> ProcessTerm(f.args[i], table)]]
      [] f.kind \in Open -> [f EXCEPT !.parts = [i \in DOMAIN f.parts |-> ProcessAxioms(f.parts[i], table)]]
      [] f.kind \in Quantified -> [f EXCEPT !.sub = ProcessAxioms(f.sub, table)]
      [] OTHER -> f

-----------------------------------------------------------------------------
(* Terms of a formula, nesting, and scopes *)

RECURSIVE SubTerms(_), AllTerms(_), Nestedness(_)

SubTerms(t) ==
    {t} \cup IF t.kind \in Nested THEN UNION {SubTerms(t.args[i]) : i \in DOMAIN t.args} ELSE {}

AllTerms(f) ==
    CASE f.kind = "atom" -> UNION {SubTerms(f.args[i]) : i \in DOMAIN f.args}
      [] f.kind \in Open -> UNION {AllTerms(f.parts[i]) : i \in DOMAIN f.parts}
      [] f.kind \in Quantified -> AllTerms(f.sub) \cup ToSet(f.vars)
      [] OTHER -> {}

\* The deepest nesting of fluents in a term, itself included.
Nestedness(t) ==
    LET below == {Nestedness(t.args[i]) : i \in DOMAIN t.args} \cup {0}
        deepest == CHOOSE n \in below : \A m \in below : m <= n
    IN  CASE t.kind = "fluent" -> deepest + 1
          [] t.kind \in Nested \ {"fluent"} -> deepest
          [] OTHER -> 0

DirectScope(f) == {t.var : t \in {u \in AllTerms(f) : u.kind = "var"}}

\* The state variables a nested fluent may stand for.  A nested predicate
\* contributes its symbol only, which is no state variable.
DerivedVars(t) ==
    {v \in Vars : /\ t.sym \notin Predicates
                  /\ StateVars[v][1] = t.sym
                  /\ \A i \in DOMAIN t.args :
                       t.args[i].kind = "const" => StateVars[v][2][i] = t.args[i].value}

\* slip: only the variables that are written out.
WrittenVars(terms) == {t.var : t \in {u \in terms : u.kind = "var"}}

ScopeOf(terms) ==
    {t.var : t \in {u \in terms : u.kind = "var"}}
      \cup UNION {DerivedVars(t) : t \in {u \in terms : u.kind = "fluent"}}

FullScope(f) == ScopeOf(AllTerms(f))

=============================================================================
