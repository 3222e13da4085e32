--------------------------- MODULE LiftedRPG_proofs ---------------------------
(***************************************************************************)
(* The relaxed planning graphs of the Gecode heuristics, for every language, *)
(* every typed task and all four ways to handle the actions: dead ends are *)
(* real, the layers are exact, helpful atoms exist and the relaxed plan    *)
(* reaches the goal, under the premises that each theorem names.           *)
(*                                                                         *)
(* The handlers of a task are typed CSPs that derive what the states derive *)
(* (RelaxationSound), so that a graph that is closed under them holds every *)
(* atom that can be reached.  BuildInv says how far the graph is at each   *)
(* step: which atoms it has and why, which layers are complete, and which  *)
(* handlers and atoms of the current layer are done.  ExtractInv says the  *)
(* same of the relaxed plan that is read off it.                           *)
(***************************************************************************)
EXTENDS LiftedModel_proofs

-----------------------------------------------------------------------------
(***************************************************************************)
(* The handlers of an action.                                              *)
(***************************************************************************)
EffectOK(a, e) ==
    /\ e = [cond |-> e.cond, lhs |-> e.lhs, rhs |-> e.rhs]
    /\ SupportedConds(e.cond) /\ TypedConds(a.params, e.cond) /\ TypedEffect(a.params, e)
    /\ IsPredicate(e.lhs) => e.rhs = Const(1)

ActionGood(a) ==
    /\ ActionOK(a)
    /\ IsFiniteSet(DOMAIN a.params) /\ \A p \in DOMAIN a.params : IsFiniteSet(a.params[p])
    /\ \A e \in ToSet(AddEffects(a)) : EffectOK(a, e)

\* What their order leaves open.
HandlerSet(a) ==
    CASE Mode = "smart"     -> UNION {SmartCSPs(a, e) : e \in ToSet(AddEffects(a))}
      [] Mode = "unreached" -> {EffectCSP(a, << >>, e) : e \in ToSet(AddEffects(a))}
      [] Mode = "lifted"    -> {LiftedCSP(a)}
      [] Mode = "ground"    -> {CSP(a, b, a.pre, AddEffects(a)) : b \in Bindings(a.params)}

LEMMA BindingsFinite ==
    ASSUME NEW params, IsFiniteSet(DOMAIN params), \A p \in DOMAIN params : IsFiniteSet(params[p])
    PROVE  IsFiniteSet(Bindings(params))
<1> DEFINE U == {params[p] : p \in DOMAIN params}
<1>1. IsFiniteSet(U)
  BY FiniteImage
<1>2. \A T \in U : IsFiniteSet(T)
  OBVIOUS
<1> HIDE DEF U
<1>3. IsFiniteSet(UNION U)
  BY <1>1, <1>2, FS_UNION
<1>4. IsFiniteSet([DOMAIN params -> UNION U])
  BY <1>3, FiniteFunctions
<1>5. Bindings(params) \in SUBSET [DOMAIN params -> UNION U]
  BY DEF Bindings, U
<1> QED BY <1>4, <1>5, FS_Subset

\* Values for the parameters of the head.
LEMMA HeadFacts ==
    ASSUME NEW a, ActionGood(a), NEW e, EffectOK(a, e)
    PROVE  /\ IsFiniteSet(HeadBindings(a, e))
           /\ \A b \in HeadBindings(a, e) :
                /\ DOMAIN b \subseteq DOMAIN a.params /\ \A p \in DOMAIN b : b[p] \in a.params[p]
                /\ \A t \in SubTerms(e.lhs) : t.kind = "param" => t.name \in DOMAIN b
           /\ \A d \in Bindings(a.params) : \E b \in HeadBindings(a, e) : \A p \in DOMAIN b : b[p] = d[p]
<1> DEFINE heads == {t.name : t \in {u \in SubTerms(e.lhs) : u.kind = "param"}}
           P == [p \in heads |-> a.params[p]]
<1>1. heads \subseteq DOMAIN a.params
  <2>1. \A u \in SubTerms(e.lhs) : Typed(a.params, u)
    BY DEF EffectOK, TypedEffect, TypedTerm
  <2>2. \A u \in SubTerms(e.lhs) : u.kind = "param" => u.name \in DOMAIN a.params
    BY <2>1, LeafFacts
  <2> QED BY <2>2
<1>2. HeadBindings(a, e) = Bindings(P)
  BY DEF HeadBindings
<1>3. \A t \in SubTerms(e.lhs) : t.kind = "param" => t.name \in heads
  OBVIOUS
<1> HIDE DEF heads
<1>4. DOMAIN P = heads /\ \A p \in heads : P[p] = a.params[p]
  OBVIOUS
<1>5. IsFiniteSet(heads) /\ \A p \in heads : IsFiniteSet(P[p])
  BY <1>1, <1>4, FS_Subset DEF ActionGood
<1> HIDE DEF P
<1>6. IsFiniteSet(Bindings(P))
  BY <1>4, <1>5, BindingsFinite
<1>7. ASSUME NEW b \in Bindings(P)
      PROVE  DOMAIN b = heads /\ \A p \in heads : b[p] \in a.params[p]
  BY <1>4, BindingFacts
<1>8. ASSUME NEW d \in Bindings(a.params) PROVE \E b \in Bindings(P) : \A p \in DOMAIN b : b[p] = d[p]
  <2> DEFINE b == [p \in heads |-> d[p]]
  <2>1. \A p \in heads : d[p] \in P[p]
    BY <1>1, <1>4, BindingFacts
  <2>2. b = [p \in DOMAIN P |-> b[p]] /\ \A p \in DOMAIN P : b[p] \in P[p]
    BY <1>4, <2>1
  <2>3. \A p \in DOMAIN b : b[p] = d[p]
    OBVIOUS
  <2> HIDE DEF b
  <2>4. b \in Bindings(P)
    BY <2>2, BindingFacts
  <2> QED BY <2>3, <2>4
<1> QED BY <1>1, <1>2, <1>3, <1>6, <1>7, <1>8

LEMMA EffectExcept ==
    ASSUME NEW e, NEW Q, NEW K
    PROVE  [e EXCEPT !.lhs.sub = Q, !.cond = @ \cup {K}] = [[e EXCEPT !.lhs.sub = Q] EXCEPT !.cond = @ \cup {K}]
  OBVIOUS

LEMMA HeadExcept ==
    ASSUME NEW e, NEW C, NEW L, NEW R, NEW Q, NEW K, e = [cond |-> C, lhs |-> L, rhs |-> R]
    PROVE  [e EXCEPT !.lhs.sub = Q] = [cond |-> C, lhs |-> [L EXCEPT !.sub = Q], rhs |-> R]
  OBVIOUS

LEMMA CondExcept ==
    ASSUME NEW g, NEW C, NEW L, NEW R, NEW K, g = [cond |-> C, lhs |-> L, rhs |-> R]
    PROVE  [g EXCEPT !.cond = @ \cup {K}] = [cond |-> C \cup {K}, lhs |-> L, rhs |-> R]
  OBVIOUS

\* compile_nested_fluents_away.
Compiled(e, n) ==
    [cond |-> e.cond \cup {Cond("=", e.lhs.sub[1], Const(n))}, lhs |-> Fluent(e.lhs.name, <<Const(n)>>), rhs |-> e.rhs]

LEMMA CompiledIs ==
    ASSUME NEW a, NEW e, EffectOK(a, e), NEW b
    PROVE  CompiledEffects(b, e) = IF IsStateVar(b, e.lhs) THEN {e} ELSE {Compiled(e, n) : n \in Values[e.lhs.sub[1].name]}
<1> DEFINE C == e.cond
           L == e.lhs
           R == e.rhs
           N == L.name
           S == L.sub
<1>1. e = [cond |-> C, lhs |-> L, rhs |-> R]
  BY DEF EffectOK
<1>2. L = Fluent(N, S)
  <2>1. IsFluent(L) /\ Typed(a.params, L)
    BY DEF EffectOK, TypedEffect, TypedTerm, SubTerms
  <2>2. L.kind \notin {"const", "param"}
    BY <2>1 DEF IsFluent
  <2> QED BY <2>1, <2>2 DEF Typed
<1>3. L = [kind |-> "fluent", name |-> N, val |-> 0, sub |-> S]
  BY <1>2 DEF Fluent
<1>4. ASSUME NEW n
      PROVE  [e EXCEPT !.lhs.sub = <<Const(n)>>, !.cond = @ \cup {Cond("=", e.lhs.sub[1], Const(n))}] = Compiled(e, n)
  <2> DEFINE K == Cond("=", e.lhs.sub[1], Const(n))
             Q == <<Const(n)>>
  <2>1. Compiled(e, n) = [cond |-> C \cup {K}, lhs |-> [kind |-> "fluent", name |-> N, val |-> 0, sub |-> Q], rhs |-> R]
    BY DEF Compiled, Fluent
  <2> HIDE DEF C, R, N, S, K, Q, L
  <2>2. [L EXCEPT !.sub = Q] = [kind |-> "fluent", name |-> N, val |-> 0, sub |-> Q]
    BY <1>3
  <2>3. [e EXCEPT !.lhs.sub = Q, !.cond = @ \cup {K}] = [cond |-> C \cup {K}, lhs |-> [L EXCEPT !.sub = Q], rhs |-> R]
    <3>1. [e EXCEPT !.lhs.sub = Q, !.cond = @ \cup {K}] = [[e EXCEPT !.lhs.sub = Q] EXCEPT !.cond = @ \cup {K}]
      BY EffectExcept
    <3>2. [e EXCEPT !.lhs.sub = Q] = [cond |-> C, lhs |-> [L EXCEPT !.sub = Q], rhs |-> R]
      BY <1>1, HeadExcept
    <3> DEFINE G == [e EXCEPT !.lhs.sub = Q]
               M == [L EXCEPT !.sub = Q]
    <3>3. G = [cond |-> C, lhs |-> M, rhs |-> R]
      BY <3>2
    <3> HIDE DEF G, M
    <3>4. [G EXCEPT !.cond = @ \cup {K}] = [cond |-> C \cup {K}, lhs |-> M, rhs |-> R]
      BY <3>3, CondExcept
    <3> QED BY <3>1, <3>4 DEF G, M
  <2>4. [e EXCEPT !.lhs.sub = Q, !.cond = @ \cup {K}] = Compiled(e, n)
    BY <2>1, <2>2, <2>3
  <2> QED BY <2>4 DEF K, Q
<1>5. {[e EXCEPT !.lhs.sub = <<Const(n)>>, !.cond = @ \cup {Cond("=", e.lhs.sub[1], Const(n))}] : n \in Values[e.lhs.sub[1].name]}
        = {Compiled(e, n) : n \in Values[e.lhs.sub[1].name]}
  BY <1>4
<1> QED BY <1>5 DEF CompiledEffects

LEMMA ConstFacts ==
    ASSUME NEW params, NEW n \in Int
    PROVE  /\ Const(n).kind = "const" /\ Const(n).val = n /\ Const(n).sub = << >> /\ Typed(params, Const(n))
           /\ ~IsFluent(Const(n)) /\ ValuesOf(params, Const(n)) = {n}
           /\ SubTerms(Const(n)) = {Const(n)} /\ TypedTerm(params, Const(n))
<1>1. Const(n).kind = "const" /\ Const(n).val = n /\ Const(n).sub = << >>
  BY DEF Const
<1>2. ToSet(<< >>) = {}
  BY DEF ToSet
<1>3. SubTerms(Const(n)) = {Const(n)}
  BY <1>1, <1>2 DEF SubTerms
<1>4. Typed(params, Const(n))
  BY <1>1 DEF Typed
<1>5. ~IsFluent(Const(n)) /\ ValuesOf(params, Const(n)) = {n}
  BY <1>1 DEF IsFluent, ValuesOf
<1>6. TypedTerm(params, Const(n))
  BY <1>1, <1>2, <1>3, <1>4 DEF TypedTerm
<1> QED BY <1>1, <1>3, <1>4, <1>5, <1>6

\* A fluent whose argument is a constant.
LEMMA FlatFluent ==
    ASSUME NEW params, NEW N \in Symbols, Arity[N] = 1, NEW n \in Objects, n \in Int
    PROVE  LET t == Fluent(N, <<Const(n)>>)
           IN  /\ t.name = N /\ t.sub = <<Const(n)>> /\ IsFluent(t) /\ TypedTerm(params, t)
               /\ \A bound : IsStateVar(bound, t)
<1>0. Const(n).sub = << >> /\ ~IsFluent(Const(n)) /\ ValuesOf(params, Const(n)) = {n}
  BY ConstFacts
<1> DEFINE t == Fluent(N, <<Const(n)>>)
<1>1. t.kind = "fluent" /\ t.name = N /\ t.sub = <<Const(n)>>
  BY DEF Fluent
<1>2. DOMAIN t.sub = 1..1 /\ t.sub[1] = Const(n) /\ ToSet(t.sub) = {Const(n)}
  BY <1>1 DEF ToSet
<1>3. IsFluent(t) /\ t = Fluent(t.name, t.sub)
  BY <1>1 DEF IsFluent
<1>4. ~IsPredicate(Const(n)) /\ ValuesOf(params, Const(n)) \subseteq Objects
  BY <1>0 DEF IsPredicate
<1> HIDE DEF t
<1>5. Typed(params, t)
  <2>1. t.kind # "const" /\ t.kind # "param"
    BY <1>1
  <2>2. \A i \in DOMAIN t.sub : t.sub[i] = Const(n)
    BY <1>2
  <2> QED BY <1>1, <1>2, <1>3, <1>4, <2>1, <2>2 DEF Typed
<1>6. ToSet(Const(n).sub) = {}
  BY <1>0 DEF ToSet
<1>7. SubTerms(t) = {t, Const(n)}
  BY <1>2, <1>6 DEF SubTerms
<1>8. TypedTerm(params, t)
  BY <1>2, <1>5, <1>6, <1>7, ConstFacts DEF TypedTerm
<1>9. \A bound : IsStateVar(bound, t)
  <2>1. \A bound : Constant(bound, Const(n))
    BY ConstFacts DEF Constant
  <2>2. \A i \in DOMAIN t.sub : t.sub[i] = Const(n)
    BY <1>2
  <2> QED BY <1>3, <2>1, <2>2 DEF IsStateVar
<1> QED BY <1>1, <1>3, <1>8, <1>9 DEF t

\* The argument of a typed term.
LEMMA InnerTyped ==
    ASSUME NEW params, NEW t, TypedTerm(params, t), NEW u \in ToSet(t.sub)
    PROVE  TypedTerm(params, u)
<1>1. \A w \in ToSet(u.sub) : w.sub = << >>
  BY DEF TypedTerm
<1>2. \A w \in ToSet(u.sub) : ToSet(w.sub) = {}
  BY <1>1 DEF ToSet
<1>3. SubTerms(u) \subseteq SubTerms(t)
  BY <1>2 DEF SubTerms
<1>4. \A w \in SubTerms(u) : Typed(params, w)
  BY <1>3 DEF TypedTerm
<1> QED BY <1>2, <1>4 DEF TypedTerm

\* A head that is no state variable has a fluent for its argument.
LEMMA NestedHead ==
    ASSUME NEW a, ActionGood(a), NEW e, EffectOK(a, e), NEW b,
           \A t \in SubTerms(e.lhs) : t.kind = "param" => t.name \in DOMAIN b, ~IsStateVar(b, e.lhs)
    PROVE  LET u == e.lhs.sub[1]
           IN  /\ e.lhs.name \in Symbols /\ Arity[e.lhs.name] = 1 /\ DOMAIN e.lhs.sub = {1} /\ u \in ToSet(e.lhs.sub)
               /\ TypedTerm(a.params, u) /\ IsFluent(u) /\ ~IsPredicate(u)
               /\ u.name \in Symbols /\ Values[u.name] \subseteq Objects \cap Int
<1>1. IsFluent(e.lhs) /\ TypedTerm(a.params, e.lhs)
  BY DEF EffectOK, TypedEffect
<1>2. Typed(a.params, e.lhs)
  BY <1>1 DEF TypedTerm, SubTerms
<1>3. /\ e.lhs.name \in Symbols /\ DOMAIN e.lhs.sub = 1..Arity[e.lhs.name]
      /\ \A i \in DOMAIN e.lhs.sub : ~IsPredicate(e.lhs.sub[i]) /\ ValuesOf(a.params, e.lhs.sub[i]) \subseteq Objects
  BY <1>1, <1>2, KindFacts
<1>4. PICK i \in DOMAIN e.lhs.sub : ~Constant(b, e.lhs.sub[i])
  BY <1>1 DEF IsStateVar
<1>5. Arity[e.lhs.name] \in {0, 1}
  BY <1>3, LanguageAssumption
<1>6. i = 1 /\ Arity[e.lhs.name] = 1 /\ DOMAIN e.lhs.sub = {1}
  BY <1>3, <1>4, <1>5
<1> DEFINE u == e.lhs.sub[1]
<1>7. u \in ToSet(e.lhs.sub)
  BY <1>6 DEF ToSet
<1>8. u \in SubTerms(e.lhs)
  BY <1>7 DEF SubTerms
<1>9. ~Constant(b, u) /\ ~IsPredicate(u) /\ ValuesOf(a.params, u) \subseteq Objects
  BY <1>3, <1>4, <1>6
<1> HIDE DEF u
<1>10. TypedTerm(a.params, u)
  BY <1>1, <1>7, InnerTyped
<1>11. Typed(a.params, u)
  BY <1>10 DEF TypedTerm, SubTerms
<1>12. u.kind # "const" /\ u.kind # "param"
  BY <1>8, <1>9 DEF Constant
<1>13. IsFluent(u) /\ u.name \in Symbols /\ ValuesOf(a.params, u) = Values[u.name]
  BY <1>11, <1>12, KindFacts
<1>14. Values[u.name] \subseteq Int
  BY <1>13, LanguageAssumption
<1> QED BY <1>3, <1>6, <1>7, <1>9, <1>10, <1>13, <1>14 DEF u

\* The effects that create_smart makes CSPs for.
LEMMA SmartEffects ==
    ASSUME NEW a, ActionGood(a), NEW e, EffectOK(a, e), NEW b \in HeadBindings(a, e), NEW f \in CompiledEffects(b, e)
    PROVE  /\ CSPOK(a, b, a.pre \cup f.cond, <<f>>) /\ IsStateVar(b, f.lhs)
           /\ IsPredicate(f.lhs) => f.rhs = Const(1)
           /\ f.rhs = e.rhs /\ f.lhs.name = e.lhs.name
<1>1. /\ DOMAIN b \subseteq DOMAIN a.params /\ \A p \in DOMAIN b : b[p] \in a.params[p]
      /\ \A t \in SubTerms(e.lhs) : t.kind = "param" => t.name \in DOMAIN b
  BY HeadFacts
<1>2. SupportedConds(a.pre) /\ TypedConds(a.params, a.pre)
  BY DEF ActionGood, ActionOK
<1>3. SupportedConds(e.cond) /\ TypedConds(a.params, e.cond) /\ TypedEffect(a.params, e) /\ (IsPredicate(e.lhs) => e.rhs = Const(1))
  BY DEF EffectOK
<1>4. ASSUME SupportedConds(f.cond), TypedConds(a.params, f.cond), TypedEffect(a.params, f)
      PROVE  CSPOK(a, b, a.pre \cup f.cond, <<f>>)
  <2>1. SupportedConds(a.pre \cup f.cond)
    BY <1>2, <1>4 DEF SupportedConds
  <2>2. TypedConds(a.params, a.pre \cup f.cond)
    BY <1>2, <1>4 DEF TypedConds
  <2>3. \A i \in DOMAIN <<f>> : <<f>>[i] = f
    OBVIOUS
  <2> QED BY <1>1, <1>4, <2>1, <2>2, <2>3 DEF CSPOK
<1>5. CASE IsStateVar(b, e.lhs)
  <2>1. f = e
    BY <1>5, CompiledIs
  <2> QED BY <1>3, <1>4, <1>5, <2>1
<1>6. CASE ~IsStateVar(b, e.lhs)
  <2> DEFINE u == e.lhs.sub[1]
             N == e.lhs.name
  <2>1. /\ N \in Symbols /\ Arity[N] = 1
        /\ TypedTerm(a.params, u) /\ IsFluent(u) /\ ~IsPredicate(u)
        /\ u.name \in Symbols /\ Values[u.name] \subseteq Objects \cap Int
    BY <1>1, <1>6, NestedHead
  <2>2. PICK n \in Values[u.name] : f = Compiled(e, n)
    BY <1>6, CompiledIs
  <2>3. n \in Objects /\ n \in Int
    BY <2>1, <2>2
  <2> DEFINE K == Cond("=", u, Const(n))
             L == Fluent(N, <<Const(n)>>)
  <2>4. f.cond = e.cond \cup {K} /\ f.lhs = L /\ f.rhs = e.rhs
    BY <2>2 DEF Compiled
  <2>5. K.op = "=" /\ K.lhs = u /\ K.rhs = Const(n)
    BY DEF Cond
  <2>6. L.name = N /\ IsFluent(L) /\ TypedTerm(a.params, L) /\ IsStateVar(b, L)
    BY <2>1, <2>3, FlatFluent
  <2> HIDE DEF u, N, K, L
  <2>7. SupportedConds(f.cond)
    BY <1>3, <2>1, <2>4, <2>5 DEF SupportedConds, IsAtom
  <2>8. TypedTerm(a.params, Const(n)) /\ ~IsPredicate(Const(n))
    BY <2>3, ConstFacts DEF IsPredicate
  <2>9. TypedConds(a.params, f.cond)
    BY <1>3, <2>1, <2>4, <2>5, <2>8 DEF TypedConds
  <2>10. TypedEffect(a.params, f)
    BY <1>3, <2>4, <2>6 DEF TypedEffect
  <2>11. IsPredicate(L) = IsPredicate(e.lhs)
    BY <1>3, <2>6 DEF IsPredicate, N, TypedEffect
  <2> QED BY <1>3, <1>4, <2>4, <2>6, <2>7, <2>9, <2>10, <2>11 DEF N
<1> QED BY <1>5, <1>6

Modes == {"smart", "unreached", "ground", "lifted"}

LEMMA AddsFacts ==
    ASSUME NEW a, ActionGood(a)
    PROVE  /\ Len(AddEffects(a)) \in Nat /\ DOMAIN AddEffects(a) = 1..Len(AddEffects(a))
           /\ ToSet(AddEffects(a)) = {AddEffects(a)[i] : i \in DOMAIN AddEffects(a)}
           /\ \A i \in DOMAIN AddEffects(a) : AddEffects(a)[i] \in ToSet(AddEffects(a)) /\ EffectOK(a, AddEffects(a)[i])
<1>1. AddEffects(a) \in Seq(ToSet(a.effs))
  BY AddEffectsFacts DEF ActionGood
<1>2. ToSet(AddEffects(a)) = {AddEffects(a)[i] : i \in DOMAIN AddEffects(a)}
  BY DEF ToSet
<1>3. \A i \in DOMAIN AddEffects(a) : AddEffects(a)[i] \in ToSet(AddEffects(a))
  BY <1>2
<1> QED BY <1>1, <1>2, <1>3 DEF ActionGood

LEMMA SmartFinite ==
    ASSUME NEW a, ActionGood(a), NEW e, EffectOK(a, e)
    PROVE  IsFiniteSet(SmartCSPs(a, e))
<1>1. ASSUME NEW b \in HeadBindings(a, e) PROVE IsFiniteSet({EffectCSP(a, b, f) : f \in CompiledEffects(b, e)})
  <2>1. IsFiniteSet(CompiledEffects(b, e))
    <3>1. CASE IsStateVar(b, e.lhs)
      BY <3>1, CompiledIs, FS_Singleton
    <3>2. CASE ~IsStateVar(b, e.lhs)
      <4> DEFINE V == Values[e.lhs.sub[1].name]
                 g == [n \in V |-> Compiled(e, n)]
      <4>1. e.lhs.sub[1].name \in Symbols
        BY <1>1, <3>2, HeadFacts, NestedHead
      <4>2. IsFiniteSet(V)
        BY <4>1, LanguageAssumption
      <4>3. IsFiniteSet({g[n] : n \in V})
        BY <4>2, FiniteImage
      <4>4. {g[n] : n \in V} = {Compiled(e, n) : n \in V}
        OBVIOUS
      <4> QED BY <3>2, <4>3, <4>4, CompiledIs
    <3> QED BY <3>1, <3>2
  <2> DEFINE C == CompiledEffects(b, e)
             g == [f \in C |-> EffectCSP(a, b, f)]
  <2>2. IsFiniteSet({g[f] : f \in C})
    <3> HIDE DEF g
    <3> QED BY <2>1, FiniteImage
  <2>3. {g[f] : f \in C} = {EffectCSP(a, b, f) : f \in C}
    OBVIOUS
  <2> QED BY <2>2, <2>3
<1> DEFINE B == HeadBindings(a, e)
           row(b) == {EffectCSP(a, b, f) : f \in CompiledEffects(b, e)}
           g == [b \in B |-> row(b)]
<1>2. IsFiniteSet(B)
  BY HeadFacts
<1>3. \A b \in B : IsFiniteSet(row(b))
  BY <1>1
<1> HIDE DEF row, B
<1>4. IsFiniteSet({g[b] : b \in B})
  <2> HIDE DEF g
  <2> QED BY <1>2, FiniteImage
<1>5. {g[b] : b \in B} = {row(b) : b \in B}
  OBVIOUS
<1>6. \A R \in {row(b) : b \in B} : IsFiniteSet(R)
  BY <1>3
<1>7. IsFiniteSet(UNION {row(b) : b \in B})
  BY <1>4, <1>5, <1>6, FS_UNION
<1> QED BY <1>7 DEF SmartCSPs, row, B

\* The order of the handlers of an action does not matter.
LEMMA HandlersOfSet ==
    ASSUME NEW a, ActionGood(a), Mode \in Modes
    PROVE  HandlersOf(a) \in Seq(HandlerSet(a)) /\ ToSet(HandlersOf(a)) = HandlerSet(a)
<1> DEFINE A == AddEffects(a)
           X == HandlerSet(a)
<1>1. Len(A) \in Nat /\ DOMAIN A = 1..Len(A) /\ ToSet(A) = {A[i] : i \in DOMAIN A}
      /\ \A i \in DOMAIN A : A[i] \in ToSet(A) /\ EffectOK(a, A[i])
  BY AddsFacts
<1> HIDE DEF A
<1>2. CASE Mode = "smart"
  <2> DEFINE seqs == [i \in DOMAIN A |-> Ordered(SmartCSPs(a, A[i]))]
  <2>1. X = UNION {SmartCSPs(a, e) : e \in ToSet(A)} /\ HandlersOf(a) = FlattenSeq(seqs)
    BY <1>2 DEF HandlerSet, HandlersOf, A
  <2>2. \A i \in DOMAIN A : Ordered(SmartCSPs(a, A[i])) \in Seq(SmartCSPs(a, A[i])) /\ ToSet(Ordered(SmartCSPs(a, A[i]))) = SmartCSPs(a, A[i])
    BY <1>1, SmartFinite, OrderedFacts
  <2>3. \A i \in DOMAIN A : SmartCSPs(a, A[i]) \subseteq X
    BY <1>1, <2>1
  <2> HIDE DEF X
  <2>4. \A i \in DOMAIN A : seqs[i] \in Seq(X)
    <3> SUFFICES ASSUME NEW i \in DOMAIN A PROVE Ordered(SmartCSPs(a, A[i])) \in Seq(X)
      OBVIOUS
    <3> DEFINE S == SmartCSPs(a, A[i])
    <3>1. Ordered(S) \in Seq(S) /\ S \subseteq X
      BY <2>2, <2>3
    <3> HIDE DEF S
    <3>2. Ordered(S) \in Seq(X)
      BY <3>1
    <3> QED BY <3>2 DEF S
  <2>5. seqs \in Seq(Seq(X)) /\ DOMAIN seqs = DOMAIN A
    BY <1>1, <2>4
  <2>6. \A i \in DOMAIN A : ToSet(seqs[i]) = SmartCSPs(a, A[i])
    BY <2>2
  <2> HIDE DEF seqs
  <2>7. FlattenSeq(seqs) \in Seq(X) /\ ToSet(FlattenSeq(seqs)) = UNION {ToSet(seqs[i]) : i \in DOMAIN seqs}
    BY <2>5, FlattenFacts
  <2>8. UNION {ToSet(seqs[i]) : i \in DOMAIN seqs} = X
    <3>1. ASSUME NEW c PROVE c \in UNION {ToSet(seqs[i]) : i \in DOMAIN seqs} <=> \E i \in DOMAIN A : c \in SmartCSPs(a, A[i])
      BY <2>5, <2>6
    <3>2. ASSUME NEW c PROVE c \in X <=> \E i \in DOMAIN A : c \in SmartCSPs(a, A[i])
      BY <1>1, <2>1
    <3> QED BY <3>1, <3>2
  <2> QED BY <2>1, <2>7, <2>8 DEF X
<1>3. CASE Mode = "unreached"
  <2> DEFINE q == [i \in DOMAIN A |-> EffectCSP(a, << >>, A[i])]
  <2>1. X = {EffectCSP(a, << >>, e) : e \in ToSet(A)} /\ HandlersOf(a) = q
    BY <1>3 DEF HandlerSet, HandlersOf, A
  <2>2. \A i \in DOMAIN A : q[i] \in X
    BY <1>1, <2>1
  <2>3. q \in Seq(X)
    BY <1>1, <2>2
  <2>4. ToSet(q) = X
    BY <1>1, <2>1 DEF ToSet
  <2> QED BY <2>1, <2>3, <2>4 DEF X
<1>4. CASE Mode = "lifted"
  <2>1. X = {LiftedCSP(a)} /\ HandlersOf(a) = <<LiftedCSP(a)>>
    BY <1>4 DEF HandlerSet, HandlersOf
  <2>2. ToSet(<<LiftedCSP(a)>>) = {LiftedCSP(a)}
    BY DEF ToSet
  <2> QED BY <2>1, <2>2 DEF X
<1>5. CASE Mode = "ground"
  <2> DEFINE B == Bindings(a.params)
             g == [b \in B |-> CSP(a, b, a.pre, A)]
  <2>1. X = {CSP(a, b, a.pre, A) : b \in B} /\ HandlersOf(a) = Ordered(X)
    BY <1>5 DEF HandlerSet, HandlersOf, A
  <2>2. IsFiniteSet(B)
    BY BindingsFinite DEF ActionGood
  <2>3. X = {g[b] : b \in B}
    BY <2>1
  <2> HIDE DEF B, g, X
  <2>4. IsFiniteSet(X)
    BY <2>2, <2>3, FiniteImage
  <2> QED BY <2>1, <2>4, OrderedFacts DEF X
<1> QED BY <1>2, <1>3, <1>4, <1>5 DEF Modes

LEMMA EffectsTyped ==
    ASSUME NEW a, ActionGood(a), NEW bound, DOMAIN bound \subseteq DOMAIN a.params, \A p \in DOMAIN bound : bound[p] \in a.params[p]
    PROVE  /\ CSPOK(a, bound, a.pre, AddEffects(a))
           /\ IsHandler(CSP(a, bound, a.pre, AddEffects(a)))
           /\ \A e \in ToSet(AddEffects(a)) : CSPOK(a, bound, a.pre \cup e.cond, <<e>>)
<1>1. SupportedConds(a.pre) /\ TypedConds(a.params, a.pre)
  BY DEF ActionGood, ActionOK
<1>2. \A i \in DOMAIN AddEffects(a) : EffectOK(a, AddEffects(a)[i])
  BY AddsFacts
<1>3. CSPOK(a, bound, a.pre, AddEffects(a))
  BY <1>1, <1>2 DEF CSPOK, EffectOK
<1> DEFINE c == CSP(a, bound, a.pre, AddEffects(a))
<1>4. c.effs = AddEffects(a)
  BY CSPIs
<1> HIDE DEF c
<1>5. AddsOnly(c)
  BY <1>2, <1>4 DEF AddsOnly, EffectOK
<1>6. IsCSP(c)
  BY <1>3 DEF IsCSP, c
<1>7. ASSUME NEW e \in ToSet(AddEffects(a)) PROVE CSPOK(a, bound, a.pre \cup e.cond, <<e>>)
  <2>1. EffectOK(a, e)
    BY DEF ActionGood
  <2>2. SupportedConds(a.pre \cup e.cond) /\ TypedConds(a.params, a.pre \cup e.cond)
    BY <1>1, <2>1 DEF SupportedConds, TypedConds, EffectOK
  <2>3. \A i \in DOMAIN <<e>> : <<e>>[i] = e
    OBVIOUS
  <2> QED BY <2>1, <2>2, <2>3 DEF CSPOK, EffectOK
<1> QED BY <1>3, <1>5, <1>6, <1>7 DEF IsHandler, c

LEMMA HandlerSetTyped ==
    ASSUME NEW a, ActionGood(a), Mode \in Modes, NEW c \in HandlerSet(a)
    PROVE  /\ IsHandler(c)
           /\ Mode \in {"smart", "unreached"} => DOMAIN c.effs = {1}
           /\ Mode = "smart" => IsStateVar(c.bound, c.effs[1].lhs)
<1>0. DOMAIN << >> = {}
  OBVIOUS
<1>1. ASSUME NEW b, NEW f, c = EffectCSP(a, b, f), CSPOK(a, b, a.pre \cup f.cond, <<f>>), IsPredicate(f.lhs) => f.rhs = Const(1)
      PROVE  IsHandler(c) /\ DOMAIN c.effs = {1} /\ c.effs[1] = f /\ c.bound = b
  <2>1. c.effs = <<f>> /\ c.bound = b
    BY <1>1, CSPIs DEF EffectCSP
  <2>2. DOMAIN c.effs = {1} /\ c.effs[1] = f
    BY <2>1
  <2>3. AddsOnly(c)
    BY <1>1, <2>2 DEF AddsOnly
  <2>4. IsCSP(c)
    BY <1>1 DEF IsCSP, EffectCSP
  <2> QED BY <2>1, <2>2, <2>3, <2>4 DEF IsHandler
<1>2. CASE Mode = "smart"
  <2>1. PICK e \in ToSet(AddEffects(a)) : c \in SmartCSPs(a, e)
    BY <1>2 DEF HandlerSet
  <2>2. PICK b \in HeadBindings(a, e) : c \in {EffectCSP(a, b, f) : f \in CompiledEffects(b, e)}
    BY <2>1 DEF SmartCSPs
  <2>3. PICK f \in CompiledEffects(b, e) : c = EffectCSP(a, b, f)
    BY <2>2
  <2>4. EffectOK(a, e)
    BY DEF ActionGood
  <2>5. CSPOK(a, b, a.pre \cup f.cond, <<f>>) /\ IsStateVar(b, f.lhs) /\ (IsPredicate(f.lhs) => f.rhs = Const(1))
    BY <2>4, SmartEffects
  <2> QED BY <1>1, <1>2, <2>3, <2>5
<1>3. CASE Mode = "unreached"
  <2>1. PICK e \in ToSet(AddEffects(a)) : c = EffectCSP(a, << >>, e)
    BY <1>3 DEF HandlerSet
  <2>2. CSPOK(a, << >>, a.pre \cup e.cond, <<e>>)
    BY <1>0, EffectsTyped
  <2>3. IsPredicate(e.lhs) => e.rhs = Const(1)
    BY DEF ActionGood, EffectOK
  <2> QED BY <1>1, <1>3, <2>1, <2>2, <2>3
<1>4. CASE Mode = "lifted"
  <2>1. c = CSP(a, << >>, a.pre, AddEffects(a))
    BY <1>4 DEF HandlerSet, LiftedCSP
  <2> QED BY <1>0, <1>4, <2>1, EffectsTyped
<1>5. CASE Mode = "ground"
  <2>1. PICK b \in Bindings(a.params) : c = CSP(a, b, a.pre, AddEffects(a))
    BY <1>5 DEF HandlerSet
  <2>2. DOMAIN b = DOMAIN a.params /\ \A p \in DOMAIN b : b[p] \in a.params[p]
    BY BindingFacts
  <2> QED BY <1>5, <2>1, <2>2, EffectsTyped
<1> QED BY <1>2, <1>3, <1>4, <1>5 DEF Modes

\* A constant variable is the same in every solution.
LEMMA ConstantVar ==
    ASSUME NEW c, NEW t, IsStateVar(c.bound, t), NEW x, NEW y
    PROVE  VarIn(c, x, t) = VarIn(c, y, t)
<1>1. \A i \in DOMAIN t.sub : Constant(c.bound, t.sub[i])
  BY DEF IsStateVar
<1>2. \A u : Constant(c.bound, u) => ValueIn(c, x, u) = ValueIn(c, y, u)
  BY DEF ValueIn
<1>3. [i \in DOMAIN t.sub |-> ValueIn(c, x, t.sub[i])] = [i \in DOMAIN t.sub |-> ValueIn(c, y, t.sub[i])]
  BY <1>1, <1>2
<1> QED BY <1>3 DEF VarIn

\* detect_achievable_tuple finds the only atom that the effect can produce.
LEMMA FixedIs ==
    ASSUME NEW c, IsHandler(c), DOMAIN c.effs = {1}, IsStateVar(c.bound, c.effs[1].lhs), HasFixedAtom(c), NEW x
    PROVE  Produced(c, x, 1) = FixedAtom(c)
<1>1. c.effs[1].rhs.kind = "const"
  <2>1. 1 \in DOMAIN c.effs
    OBVIOUS
  <2>2. IsPredicate(c.effs[1].lhs) => c.effs[1].rhs = Const(1)
    BY <2>1 DEF IsHandler, AddsOnly
  <2>3. Const(1).kind = "const"
    BY DEF Const
  <2> QED BY <2>2, <2>3 DEF HasFixedAtom
<1>2. ValueIn(c, x, c.effs[1].rhs) = c.effs[1].rhs.val
  BY <1>1 DEF ValueIn
<1>3. VarIn(c, x, c.effs[1].lhs) = VarIn(c, << >>, c.effs[1].lhs)
  BY ConstantVar
<1> QED BY <1>2, <1>3 DEF Produced, FixedAtom

LEMMA AffectedIs ==
    ASSUME NEW c, NEW x
    PROVE  Affects(c, Produced(c, x, 1))
<1> DEFINE e == c.effs[1]
           p == Produced(c, x, 1)
<1>1. p[1] = VarIn(c, x, e.lhs) /\ p[2] = ValueIn(c, x, e.rhs)
  BY DEF Produced
<1>2. p[1][1] = e.lhs.name
  BY <1>1 DEF VarIn
<1>3. IsStateVar(c.bound, e.lhs) => VarIn(c, << >>, e.lhs) = VarIn(c, x, e.lhs)
  BY ConstantVar
<1>4. e.rhs.kind = "const" => e.rhs.val = ValueIn(c, x, e.rhs)
  BY DEF ValueIn
<1> HIDE DEF p
<1>5. Affects(c, p)
  BY <1>1, <1>2, <1>3, <1>4 DEF Affects
<1> QED BY <1>5 DEF p

-----------------------------------------------------------------------------
\* What an effect writes in a state is what a handler produces over its atoms.
LEMMA HandlerCovers ==
    ASSUME NEW a, ActionGood(a), Mode \in Modes, NEW s, StateOK(s), NEW b \in Bindings(a.params),
           Interpreted(a.pre, s, b), NEW e \in ToSet(AddEffects(a)), Interpreted(e.cond, s, b),
           Interpret(e.rhs, s, b) \in Values[e.lhs.name],
           Mode \in {"lifted", "ground"} =>
              \A i \in DOMAIN AddEffects(a) : Interpret(AddEffects(a)[i].rhs, s, b) \in Values[AddEffects(a)[i].lhs.name]
    PROVE  \E c \in HandlerSet(a) : \E x \in Solutions(c, ViewOf(AtomsOf(s))) : \E i \in DOMAIN c.effs :
             Produced(c, x, i) = <<VarOf(e.lhs, s, b), Interpret(e.rhs, s, b)>>
<1> DEFINE view == ViewOf(AtomsOf(s))
           o == <<VarOf(e.lhs, s, b), Interpret(e.rhs, s, b)>>
           A == AddEffects(a)
<1>0. DOMAIN << >> = {}
  OBVIOUS
<1>1. EffectOK(a, e)
  BY DEF ActionGood
<1>2. ASSUME NEW bound, NEW f, CSPOK(a, bound, a.pre \cup f.cond, <<f>>), \A p \in DOMAIN bound : bound[p] = b[p],
             Interpreted(f.cond, s, b), f.rhs = e.rhs, f.lhs.name = e.lhs.name, VarOf(f.lhs, s, b) = VarOf(e.lhs, s, b)
      PROVE  \E x \in Solutions(EffectCSP(a, bound, f), view) : \E i \in DOMAIN EffectCSP(a, bound, f).effs :
               Produced(EffectCSP(a, bound, f), x, i) = o
  <2> DEFINE conds == a.pre \cup f.cond
             effs == <<f>>
             c == CSP(a, bound, conds, effs)
  <2>1. Interpreted(conds, s, b)
    BY <1>2 DEF Interpreted
  <2>2. DOMAIN effs = {1} /\ effs[1] = f
    OBVIOUS
  <2>3. CSPOK(a, bound, conds, effs)
    BY <1>2
  <2> HIDE DEF conds, effs
  <2>4. \E x \in Candidates(c) :
           /\ NullaryTrue(c, view) /\ Consistent(c, x, view)
           /\ (\A i \in DOMAIN effs : Interpret(effs[i].rhs, s, b) \in Values[effs[i].lhs.name]) => x \in Solutions(c, view)
           /\ \A i \in DOMAIN effs : Produced(c, x, i) = <<VarOf(effs[i].lhs, s, b), Interpret(effs[i].rhs, s, b)>>
    BY <1>2, <2>1, <2>3, StateSolves
  <2>5. PICK x : x \in Solutions(c, view) /\ Produced(c, x, 1) = o
    BY <1>2, <2>2, <2>4
  <2>6. c.effs = effs /\ c = EffectCSP(a, bound, f)
    BY CSPIs DEF EffectCSP, conds, effs
  <2> QED BY <2>2, <2>5, <2>6
<1>3. ASSUME NEW bound, DOMAIN bound \subseteq DOMAIN a.params, \A p \in DOMAIN bound : bound[p] = b[p],
             Mode \in {"lifted", "ground"}
      PROVE  \E x \in Solutions(CSP(a, bound, a.pre, A), view) : \E i \in DOMAIN CSP(a, bound, a.pre, A).effs :
               Produced(CSP(a, bound, a.pre, A), x, i) = o
  <2> DEFINE c == CSP(a, bound, a.pre, A)
  <2>1. \A p \in DOMAIN bound : bound[p] \in a.params[p]
    BY <1>3, BindingFacts
  <2>2. CSPOK(a, bound, a.pre, A)
    BY <1>3, <2>1, EffectsTyped
  <2>3. PICK j \in DOMAIN A : e = A[j]
    BY AddsFacts
  <2>4. \A i \in DOMAIN A : Interpret(A[i].rhs, s, b) \in Values[A[i].lhs.name]
    BY <1>3
  <2> HIDE DEF A
  <2>5. \E x \in Candidates(c) :
           /\ NullaryTrue(c, view) /\ Consistent(c, x, view)
           /\ (\A i \in DOMAIN A : Interpret(A[i].rhs, s, b) \in Values[A[i].lhs.name]) => x \in Solutions(c, view)
           /\ \A i \in DOMAIN A : Produced(c, x, i) = <<VarOf(A[i].lhs, s, b), Interpret(A[i].rhs, s, b)>>
    BY <1>3, <2>2, StateSolves
  <2>6. PICK x : x \in Solutions(c, view) /\ Produced(c, x, j) = o
    BY <2>3, <2>4, <2>5
  <2>7. c.effs = A
    BY CSPIs
  <2> QED BY <2>3, <2>6, <2>7
<1>4. CASE Mode = "smart"
  <2>1. PICK b0 \in HeadBindings(a, e) : \A p \in DOMAIN b0 : b0[p] = b[p]
    BY <1>1, HeadFacts
  <2>2. ASSUME NEW f \in CompiledEffects(b0, e), Interpreted(f.cond, s, b), VarOf(f.lhs, s, b) = VarOf(e.lhs, s, b)
        PROVE  \E c \in HandlerSet(a) : \E x \in Solutions(c, view) : \E i \in DOMAIN c.effs : Produced(c, x, i) = o
    <3>1. CSPOK(a, b0, a.pre \cup f.cond, <<f>>) /\ f.rhs = e.rhs /\ f.lhs.name = e.lhs.name
      BY <1>1, SmartEffects
    <3>2. EffectCSP(a, b0, f) \in HandlerSet(a)
      BY <1>4 DEF HandlerSet, SmartCSPs
    <3> QED BY <1>2, <2>1, <2>2, <3>1, <3>2
  <2>3. CASE IsStateVar(b0, e.lhs)
    <3>1. e \in CompiledEffects(b0, e)
      BY <1>1, <2>3, CompiledIs
    <3> QED BY <2>2, <3>1
  <2>4. CASE ~IsStateVar(b0, e.lhs)
    <3> DEFINE u == e.lhs.sub[1]
               n == Interpret(u, s, b)
               f == Compiled(e, n)
    <3>1. \A t \in SubTerms(e.lhs) : t.kind = "param" => t.name \in DOMAIN b0
      BY <1>1, HeadFacts
    <3>2. /\ DOMAIN e.lhs.sub = {1} /\ TypedTerm(a.params, u) /\ IsFluent(u)
          /\ u.name \in Symbols /\ Values[u.name] \subseteq Objects \cap Int
      BY <1>1, <2>4, <3>1, NestedHead
    <3>3. Closed(a.params, SubTerms(u)) /\ u \in SubTerms(u)
      BY <3>2, TypedTermFacts
    <3>4. n \in ValuesOf(a.params, u)
      BY <3>3, ValuesTyped
    <3>5. n \in Values[u.name] /\ n \in Int
      BY <3>2, <3>4 DEF ValuesOf, IsFluent
    <3>6. f \in CompiledEffects(b0, e)
      BY <1>1, <2>4, <3>5, CompiledIs
    <3>7. Interpret(Const(n), s, b) = n
      BY DEF Interpret, Const, IsFluent
    <3>8. f.cond = e.cond \cup {Cond("=", u, Const(n))} /\ f.lhs = Fluent(e.lhs.name, <<Const(n)>>)
      BY DEF Compiled
    <3>9. Interpreted(f.cond, s, b)
      <4>1. Cond("=", u, Const(n)).op = "=" /\ Cond("=", u, Const(n)).lhs = u /\ Cond("=", u, Const(n)).rhs = Const(n)
        BY DEF Cond
      <4> HIDE DEF f, u, n
      <4>2. Interpret(u, s, b) = n
        BY DEF n
      <4> QED BY <3>7, <3>8, <4>1, <4>2 DEF Interpreted, Compare
    <3>10. VarOf(f.lhs, s, b) = VarOf(e.lhs, s, b)
      <4>1. f.lhs.name = e.lhs.name /\ f.lhs.sub = <<Const(n)>>
        BY <3>8 DEF Fluent
      <4>2. DOMAIN f.lhs.sub = {1} /\ f.lhs.sub[1] = Const(n)
        BY <4>1
      <4>3. \A i \in {1} : Interpret(f.lhs.sub[i], s, b) = Interpret(e.lhs.sub[i], s, b)
        BY <3>7, <4>2
      <4> HIDE DEF f, u, n
      <4>4. [i \in DOMAIN f.lhs.sub |-> Interpret(f.lhs.sub[i], s, b)] = [i \in DOMAIN e.lhs.sub |-> Interpret(e.lhs.sub[i], s, b)]
        BY <3>2, <4>2, <4>3
      <4> QED BY <4>1, <4>4 DEF VarOf
    <3> HIDE DEF f
    <3> QED BY <2>2, <3>6, <3>9, <3>10
  <2> QED BY <2>3, <2>4
<1>5. CASE Mode = "unreached"
  <2>1. EffectCSP(a, << >>, e) \in HandlerSet(a)
    BY <1>5 DEF HandlerSet
  <2>2. CSPOK(a, << >>, a.pre \cup e.cond, <<e>>)
    BY <1>0, EffectsTyped
  <2> QED BY <1>0, <1>2, <2>1, <2>2
<1>6. CASE Mode = "lifted"
  <2>1. CSP(a, << >>, a.pre, A) \in HandlerSet(a)
    BY <1>6 DEF HandlerSet, LiftedCSP
  <2> QED BY <1>0, <1>3, <1>6, <2>1
<1>7. CASE Mode = "ground"
  <2>1. CSP(a, b, a.pre, A) \in HandlerSet(a)
    BY <1>7 DEF HandlerSet
  <2>2. DOMAIN b \subseteq DOMAIN a.params
    BY BindingFacts
  <2> QED BY <1>3, <1>7, <2>1, <2>2
<1> QED BY <1>4, <1>5, <1>6, <1>7 DEF Modes

-----------------------------------------------------------------------------
(***************************************************************************)
(* The handlers of a task.                                                 *)
(***************************************************************************)
\* All effects of an action, the deletes too.
StepsOK(a) ==
    \A e \in ToSet(a.effs) :
        /\ SupportedConds(e.cond) /\ TypedConds(a.params, e.cond) /\ TypedEffect(a.params, e)
        /\ IsPredicate(e.lhs) => e.rhs \in {Const(0), Const(1)}

TaskGood(t) ==
    /\ TaskOK(t) /\ FormulasOK(t)
    /\ \A i \in DOMAIN t.actions : ActionGood(t.actions[i]) /\ StepsOK(t.actions[i])

LEMMA TasksGood ==
    ASSUME NEW t \in Tasks
    PROVE  TaskGood(t)
<1>1. TaskOK(t)
  BY TaskFacts
<1>2. FormulasOK(t)
  <2>1. ConstraintFormula(t).params = << >> /\ ConstraintFormula(t).conds = t.constraints
    BY DEF ConstraintFormula
  <2> QED BY <2>1, TasksAssumption DEF Tasks, FormulasOK, FormulaOK
<1>3. ASSUME NEW i \in DOMAIN t.actions PROVE ActionGood(t.actions[i]) /\ StepsOK(t.actions[i])
  <2> DEFINE a == t.actions[i]
  <2>1. ActionOK(a)
    BY <1>1, <1>3 DEF TaskOK
  <2>2. /\ IsFiniteSet(DOMAIN a.params) /\ \A p \in DOMAIN a.params : IsFiniteSet(a.params[p])
        /\ \A e \in ToSet(a.effs) :
                    /\ e = [cond |-> e.cond, lhs |-> e.lhs, rhs |-> e.rhs]
                    /\ SupportedConds(e.cond) /\ TypedConds(a.params, e.cond) /\ TypedEffect(a.params, e)
                    /\ IsPredicate(e.lhs) => e.rhs \in {Const(0), Const(1)}
    BY <1>3, TasksAssumption DEF Tasks
  <2> HIDE DEF a
  <2>3. StepsOK(a)
    BY <2>2 DEF StepsOK
  <2>4. \A e \in ToSet(AddEffects(a)) : e \in ToSet(a.effs) /\ ~IsDel(e)
    BY <2>1, AddEffectsFacts
  <2>5. \A e \in ToSet(AddEffects(a)) : EffectOK(a, e)
    BY <2>2, <2>4 DEF EffectOK, IsDel
  <2> QED BY <2>1, <2>2, <2>3, <2>5 DEF ActionGood, a
<1> QED BY <1>1, <1>2, <1>3 DEF TaskGood

HS == UNION {HandlerSet(task.actions[i]) : i \in DOMAIN task.actions}

LEMMA HandlersAll ==
    ASSUME TaskGood(task), Mode \in Modes
    PROVE  Handlers \in Seq(HS) /\ ToSet(Handlers) = HS
<1> DEFINE D == DOMAIN task.actions
           seqs == [i \in D |-> HandlersOf(task.actions[i])]
<1>1. Len(task.actions) \in Nat /\ D = 1..Len(task.actions)
  BY TaskDomain DEF TaskGood
<1>2. \A i \in D : HandlersOf(task.actions[i]) \in Seq(HandlerSet(task.actions[i]))
                    /\ ToSet(HandlersOf(task.actions[i])) = HandlerSet(task.actions[i])
  BY HandlersOfSet DEF TaskGood
<1>3. Handlers = FlattenSeq(seqs)
  BY DEF Handlers
<1>4. \A i \in D : HandlerSet(task.actions[i]) \subseteq HS
  BY DEF HS
<1>5. HS = UNION {HandlerSet(task.actions[i]) : i \in D}
  BY DEF HS
<1> HIDE DEF D
<1>6. \A i \in D : seqs[i] \in Seq(HS)
  <2> SUFFICES ASSUME NEW i \in D PROVE HandlersOf(task.actions[i]) \in Seq(HS)
    OBVIOUS
  <2> DEFINE q == HandlersOf(task.actions[i])
             S == HandlerSet(task.actions[i])
  <2>1. q \in Seq(S) /\ S \subseteq HS
    BY <1>2, <1>4
  <2> HIDE DEF q, S
  <2>2. q \in Seq(HS)
    BY <2>1
  <2> QED BY <2>2 DEF q
<1>7. seqs \in Seq(Seq(HS)) /\ DOMAIN seqs = D
  <2>1. seqs = [i \in D |-> seqs[i]] /\ DOMAIN seqs = D
    OBVIOUS
  <2> DEFINE n == Len(task.actions)
             X == Seq(HS)
  <2>2. n \in Nat /\ D = 1..n /\ \A i \in D : seqs[i] \in X
    BY <1>1, <1>6
  <2> HIDE DEF seqs, n, X
  <2>3. seqs \in Seq(X)
    BY <2>1, <2>2
  <2> QED BY <2>1, <2>3 DEF X
<1>8. \A i \in D : ToSet(seqs[i]) = HandlerSet(task.actions[i])
  BY <1>2
<1> HIDE DEF seqs
<1>9. FlattenSeq(seqs) \in Seq(HS) /\ ToSet(FlattenSeq(seqs)) = UNION {ToSet(seqs[i]) : i \in DOMAIN seqs}
  BY <1>7, FlattenFacts
<1>10. UNION {ToSet(seqs[i]) : i \in DOMAIN seqs} = HS
  <2>1. ASSUME NEW c PROVE c \in UNION {ToSet(seqs[i]) : i \in DOMAIN seqs} <=> \E i \in D : c \in HandlerSet(task.actions[i])
    BY <1>7, <1>8
  <2>2. ASSUME NEW c PROVE c \in HS <=> \E i \in D : c \in HandlerSet(task.actions[i])
    BY <1>5
  <2> QED BY <2>1, <2>2
<1> QED BY <1>3, <1>9, <1>10

LEMMA HandlersTyped ==
    ASSUME TaskGood(task), Mode \in Modes, NEW c \in HS
    PROVE  /\ IsHandler(c)
           /\ Mode \in {"smart", "unreached"} => DOMAIN c.effs = {1}
           /\ Mode = "smart" => IsStateVar(c.bound, c.effs[1].lhs)
<1>1. PICK i \in DOMAIN task.actions : c \in HandlerSet(task.actions[i])
  BY DEF HS
<1>2. ActionGood(task.actions[i])
  BY DEF TaskGood
<1> QED BY <1>1, <1>2, HandlerSetTyped

-----------------------------------------------------------------------------
(***************************************************************************)
(* Handlers relax transitions.                                             *)
(***************************************************************************)
EffectStep(a, b, e) == CSP(a, b, a.pre \cup e.cond, <<e>>)

LEMMA StepOK ==
    ASSUME NEW a, ActionGood(a), StepsOK(a), NEW b \in Bindings(a.params), NEW e \in ToSet(a.effs)
    PROVE  CSPOK(a, b, a.pre \cup e.cond, <<e>>)
<1>1. SupportedConds(a.pre) /\ TypedConds(a.params, a.pre)
  BY DEF ActionGood, ActionOK
<1>2. SupportedConds(e.cond) /\ TypedConds(a.params, e.cond) /\ TypedEffect(a.params, e)
  BY DEF StepsOK
<1>3. SupportedConds(a.pre \cup e.cond) /\ TypedConds(a.params, a.pre \cup e.cond)
  BY <1>1, <1>2 DEF SupportedConds, TypedConds
<1>4. \A i \in DOMAIN <<e>> : <<e>>[i] = e
  OBVIOUS
<1>5. DOMAIN b \subseteq DOMAIN a.params /\ \A p \in DOMAIN b : b[p] \in a.params[p]
  BY BindingFacts
<1> QED BY <1>2, <1>3, <1>4, <1>5 DEF CSPOK

\* The effects that fire in a state.
LEMMA FiredFacts ==
    ASSUME NEW a, ActionGood(a), StepsOK(a), NEW s, StateOK(s), NEW b \in Bindings(a.params), NEW o,
           o \in Fired({EffectStep(a, b, e) : e \in ToSet(a.effs)}, ViewOf(AtomsOf(s)))
    PROVE  \E e \in ToSet(a.effs) :
             /\ Interpreted(a.pre, s, b) /\ Interpreted(e.cond, s, b)
             /\ o = <<VarOf(e.lhs, s, b), Interpret(e.rhs, s, b)>>
<1> DEFINE view == ViewOf(AtomsOf(s))
<1>1. PICK e \in ToSet(a.effs) : \E x \in Candidates(EffectStep(a, b, e)) :
          /\ NullaryTrue(EffectStep(a, b, e), view) /\ Consistent(EffectStep(a, b, e), x, view)
          /\ o = Produced(EffectStep(a, b, e), x, 1)
  BY DEF Fired
<1> DEFINE conds == a.pre \cup e.cond
           effs == <<e>>
           c == CSP(a, b, conds, effs)
<1>2. PICK x \in Candidates(c) : NullaryTrue(c, view) /\ Consistent(c, x, view) /\ o = Produced(c, x, 1)
  BY <1>1 DEF EffectStep
<1>3. CSPOK(a, b, conds, effs)
  BY StepOK
<1>4. DOMAIN effs = {1} /\ effs[1] = e
  OBVIOUS
<1>5. AtomsOf(s) \in SUBSET AllAtoms
  BY AtomsTyped
<1> HIDE DEF effs, conds
<1>6. (\A cond \in conds : Holds(c, x, cond)) /\ Reading(c, x) \subseteq AtomsOf(s)
  BY <1>2, <1>3, <1>5, ConsistentIn
<1> DEFINE d == BindingIn(a, b, x)
<1>7. Interpreted(conds, s, d) /\ \A i \in DOMAIN effs : Produced(c, x, i) = <<VarOf(effs[i].lhs, s, d), Interpret(effs[i].rhs, s, d)>>
  BY <1>3, <1>6, StateReads
<1>8. d = b
  <2>1. d \in Bindings(a.params) /\ \A p \in DOMAIN b : d[p] = b[p]
    BY <1>3, BindingTyped
  <2> HIDE DEF d
  <2>2. d = [p \in DOMAIN a.params |-> d[p]] /\ b = [p \in DOMAIN a.params |-> b[p]]
    BY <2>1, BindingFacts
  <2>3. DOMAIN b = DOMAIN a.params
    BY <2>2
  <2>4. [p \in DOMAIN a.params |-> d[p]] = [p \in DOMAIN a.params |-> b[p]]
    BY <2>1, <2>3
  <2> QED BY <2>2, <2>4
<1>9. Interpreted(a.pre, s, b) /\ Interpreted(e.cond, s, b)
  BY <1>7, <1>8 DEF Interpreted, conds
<1>10. o = <<VarOf(e.lhs, s, b), Interpret(e.rhs, s, b)>>
  BY <1>2, <1>4, <1>7, <1>8
<1> QED BY <1>9, <1>10

\* All of them do whose conditions hold.
LEMMA FiresAll ==
    ASSUME NEW a, ActionGood(a), StepsOK(a), NEW s, StateOK(s), NEW b \in Bindings(a.params),
           NEW e \in ToSet(a.effs), Interpreted(a.pre, s, b), Interpreted(e.cond, s, b)
    PROVE  <<VarOf(e.lhs, s, b), Interpret(e.rhs, s, b)>> \in Fired({EffectStep(a, b, f) : f \in ToSet(a.effs)}, ViewOf(AtomsOf(s)))
<1> DEFINE view == ViewOf(AtomsOf(s))
           conds == a.pre \cup e.cond
           effs == <<e>>
           c == CSP(a, b, conds, effs)
<1>1. CSPOK(a, b, conds, effs)
  BY StepOK
<1>2. Interpreted(conds, s, b)
  BY DEF Interpreted
<1>3. DOMAIN effs = {1} /\ effs[1] = e
  OBVIOUS
<1>4. c = EffectStep(a, b, e)
  BY DEF EffectStep
<1> HIDE DEF effs, conds
<1>5. \E x \in Candidates(c) :
           /\ NullaryTrue(c, view) /\ Consistent(c, x, view)
           /\ (\A i \in DOMAIN effs : Interpret(effs[i].rhs, s, b) \in Values[effs[i].lhs.name]) => x \in Solutions(c, view)
           /\ \A i \in DOMAIN effs : Produced(c, x, i) = <<VarOf(effs[i].lhs, s, b), Interpret(effs[i].rhs, s, b)>>
  BY <1>1, <1>2, StateSolves
<1>6. PICK x \in Candidates(c) : NullaryTrue(c, view) /\ Consistent(c, x, view)
                                  /\ Produced(c, x, 1) = <<VarOf(e.lhs, s, b), Interpret(e.rhs, s, b)>>
  BY <1>3, <1>5
<1> QED BY <1>4, <1>6 DEF Fired

\* The values after the effects that fired.
LEMMA UpdateFacts ==
    ASSUME NEW s, NEW fired, \A o \in fired : o[2] \in Values[o[1][1]], NEW v \in Vars
    PROVE  Update(s, fired)[v] = s[v] \/ \E o \in fired : o[1] = v /\ Update(s, fired)[v] = o[2]
<1> DEFINE S == {o[2] : o \in {w \in fired : w[1] = v}}
<1>1. Update(s, fired)[v] = IF \E o \in fired : o[1] = v THEN Max(S) ELSE s[v]
  BY DEF Update
<1>2. ASSUME \E o \in fired : o[1] = v PROVE Max(S) \in S
  <2>1. S \subseteq Values[v[1]]
    OBVIOUS
  <2>2. v[1] \in Symbols
    BY VarFacts
  <2>3. IsFiniteSet(Values[v[1]]) /\ Values[v[1]] \subseteq Int
    BY <2>2, LanguageAssumption
  <2>4. S # {}
    BY <1>2
  <2> HIDE DEF S
  <2>5. IsFiniteSet(S) /\ S \subseteq Int
    BY <2>1, <2>3, FS_Subset
  <2> QED BY <2>4, <2>5, GreatestOf
<1> QED BY <1>1, <1>2

-----------------------------------------------------------------------------
(***************************************************************************)
(* The successors of a state, and what is derived from its atoms.          *)
(***************************************************************************)
\* What a transition leads to is typed.
LEMMA SuccessorFacts ==
    ASSUME NEW steps, NEW s \in [Vars -> Int], NEW u \in Successors(steps, s)
    PROVE  \E p \in steps : LET fired == Fired(p.effs, ViewOf(AtomsOf(s)))
                            IN  /\ u = Update(s, fired) /\ u \in [Vars -> Int]
                                /\ \A o \in fired : o[2] \in Values[o[1][1]]
<1> DEFINE view == ViewOf(AtomsOf(s))
<1>1. PICK p \in steps : u \in After(p, s, view)
  BY DEF Successors
<1> DEFINE fired == Fired(p.effs, view)
<1>2. u = Update(s, fired) /\ \A o \in fired : o[2] \in Values[o[1][1]]
  BY <1>1 DEF After
<1> HIDE DEF fired
<1>3. u = [v \in Vars |-> u[v]]
  BY <1>2 DEF Update
<1>4. \A v \in Vars : u[v] \in Int
  <2> SUFFICES ASSUME NEW v \in Vars PROVE u[v] \in Int
    OBVIOUS
  <2>1. u[v] = s[v] \/ \E o \in fired : o[1] = v /\ u[v] = o[2]
    BY <1>2, UpdateFacts
  <2>2. Values[v[1]] \subseteq Int
    BY VarFacts, LanguageAssumption
  <2> QED BY <1>2, <2>1, <2>2
<1> QED BY <1>2, <1>3, <1>4 DEF fired

\* The grounded actions of a schema.
StepsOf(a) ==
    {[pre |-> CSP(a, b, a.pre, << >>),
      effs |-> {CSP(a, b, a.pre \cup a.effs[j].cond, <<a.effs[j]>>) : j \in DOMAIN a.effs}] : b \in Bindings(a.params)}

LEMMA StepsAre == \A t : Steps(t) = UNION {StepsOf(t.actions[i]) : i \in DOMAIN t.actions}
BY DEF Steps, StepsOf

LEMMA RelaxationStep ==
    ASSUME TaskGood(task), Mode \in Modes, Mode # "smart" => Unconditional(task),
           NEW R \in SUBSET AllAtoms, Derived(HS, R) \subseteq R,
           NEW s, StateOK(s), AtomsOf(s) \subseteq R, NEW u \in Successors(Steps(task), s)
    PROVE  StateOK(u) /\ AtomsOf(u) \subseteq R
<1> DEFINE view == ViewOf(AtomsOf(s))
<1>0. s \in [Vars -> Int]
  BY DEF StateOK
<1>1. PICK p \in Steps(task) : LET fired == Fired(p.effs, view)
                               IN  /\ u = Update(s, fired) /\ u \in [Vars -> Int]
                                   /\ \A o \in fired : o[2] \in Values[o[1][1]]
  BY <1>0, SuccessorFacts
<1>2. PICK i \in DOMAIN task.actions : p \in StepsOf(task.actions[i])
  BY StepsAre
<1> DEFINE a == task.actions[i]
<1>3. PICK b \in Bindings(a.params) : p.effs = {CSP(a, b, a.pre \cup a.effs[j].cond, <<a.effs[j]>>) : j \in DOMAIN a.effs}
  <2> DEFINE P(b) == CSP(a, b, a.pre, << >>)
             Q(b) == {CSP(a, b, a.pre \cup a.effs[j].cond, <<a.effs[j]>>) : j \in DOMAIN a.effs}
  <2>1. p \in {[pre |-> P(b), effs |-> Q(b)] : b \in Bindings(a.params)}
    BY <1>2 DEF StepsOf
  <2> HIDE DEF P, Q
  <2>2. \E b \in Bindings(a.params) : p.effs = Q(b)
    BY <2>1
  <2> QED BY <2>2 DEF Q
<1>4. ActionGood(a) /\ StepsOK(a) /\ HandlerSet(a) \subseteq HS /\ (Mode # "smart" => \A j \in DOMAIN a.effs : a.effs[j].cond = {})
  BY DEF TaskGood, HS, Unconditional
<1> HIDE DEF a
<1>5. p.effs = {EffectStep(a, b, e) : e \in ToSet(a.effs)}
  BY <1>3 DEF ToSet, EffectStep
<1> DEFINE fired == Fired({EffectStep(a, b, e) : e \in ToSet(a.effs)}, view)
<1>6. u = Update(s, fired) /\ u \in [Vars -> Int] /\ \A o \in fired : o[2] \in Values[o[1][1]]
  BY <1>1, <1>5
<1>7. \A o \in fired : \E e \in ToSet(a.effs) :
             /\ Interpreted(a.pre, s, b) /\ Interpreted(e.cond, s, b)
             /\ o = <<VarOf(e.lhs, s, b), Interpret(e.rhs, s, b)>>
  BY <1>4, FiredFacts
<1>8. ASSUME NEW e \in ToSet(a.effs), Interpreted(a.pre, s, b), Interpreted(e.cond, s, b)
      PROVE  Interpret(e.rhs, s, b) \in Values[e.lhs.name]
  <2> DEFINE o == <<VarOf(e.lhs, s, b), Interpret(e.rhs, s, b)>>
  <2>1. o \in fired
    BY <1>4, <1>8, FiresAll
  <2>2. o[1][1] = e.lhs.name /\ o[2] = Interpret(e.rhs, s, b)
    BY DEF VarOf
  <2> QED BY <1>6, <2>1, <2>2
<1>9. \A o \in fired : o[1] \in Vars /\ o \in AllAtoms => o \in R
  <2> SUFFICES ASSUME NEW o \in fired, o \in AllAtoms PROVE o \in R
    OBVIOUS
  <2>1. PICK e \in ToSet(a.effs) : /\ Interpreted(a.pre, s, b) /\ Interpreted(e.cond, s, b)
                                   /\ o = <<VarOf(e.lhs, s, b), Interpret(e.rhs, s, b)>>
    BY <1>7
  <2>2. ~IsDel(e)
    <3> SUFFICES ASSUME IsPredicate(e.lhs), e.rhs = Const(0) PROVE FALSE
      BY DEF IsDel
    <3>1. Interpret(Const(0), s, b) = 0
      BY DEF Interpret, Const, IsFluent
    <3>2. o[2] = 0 /\ o[1] = VarOf(e.lhs, s, b)
      BY <2>1, <3>1
    <3>3. o[1][1] \in Predicates
      BY <3>2 DEF IsPredicate, VarOf
    <3>4. PICK v \in Vars : \E n \in Values[v[1]] \ (IF v[1] \in Predicates THEN {0} ELSE {}) : o = <<v, n>>
      BY DEF AllAtoms
    <3> QED BY <3>2, <3>3, <3>4
  <2>3. e \in ToSet(AddEffects(a))
    BY <1>4, <2>2, AddEffectsFacts DEF ActionGood
  <2>4. Mode \in {"lifted", "ground"} =>
              \A k \in DOMAIN AddEffects(a) : Interpret(AddEffects(a)[k].rhs, s, b) \in Values[AddEffects(a)[k].lhs.name]
    <3> SUFFICES ASSUME Mode # "smart", NEW k \in DOMAIN AddEffects(a)
                 PROVE  Interpret(AddEffects(a)[k].rhs, s, b) \in Values[AddEffects(a)[k].lhs.name]
      OBVIOUS
    <3> DEFINE f == AddEffects(a)[k]
    <3>1. f \in ToSet(AddEffects(a))
      BY <1>4, AddsFacts
    <3>2. f \in ToSet(a.effs)
      BY <1>4, <3>1, AddEffectsFacts DEF ActionGood
    <3> HIDE DEF f
    <3>3. f.cond = {}
      BY <1>4, <3>2 DEF ToSet
    <3>4. Interpreted(f.cond, s, b)
      BY <3>3 DEF Interpreted
    <3>5. Interpret(f.rhs, s, b) \in Values[f.lhs.name]
      BY <1>8, <2>1, <3>2, <3>4
    <3> QED BY <3>5 DEF f
  <2>5. \E c \in HandlerSet(a) : \E x \in Solutions(c, view) : \E k \in DOMAIN c.effs :
             Produced(c, x, k) = <<VarOf(e.lhs, s, b), Interpret(e.rhs, s, b)>>
    BY <1>4, <1>8, <2>1, <2>3, <2>4, HandlerCovers
  <2>6. PICK c \in HandlerSet(a) : \E x \in Solutions(c, view) : \E k \in DOMAIN c.effs : Produced(c, x, k) = o
    BY <2>1, <2>5
  <2>7. PICK x \in Solutions(c, view) : \E k \in DOMAIN c.effs : Produced(c, x, k) = o
    BY <2>6
  <2>8. c \in HS /\ IsHandler(c)
    BY <1>4, <2>6, HandlersTyped
  <2>9. AtomsOf(s) \in SUBSET AllAtoms
    BY AtomsTyped
  <2>10. Meets(c, x) /\ Reading(c, x) \subseteq AtomsOf(s)
    BY <2>7, <2>8, <2>9, CSPFacts DEF IsHandler
  <2>11. \A d \in HS : IsHandler(d)
    BY HandlersTyped
  <2>12. Reading(c, x) \subseteq R
    BY <2>10
  <2>13. \A k \in DOMAIN c.effs : Produced(c, x, k) \in Derived(HS, R)
    BY <2>8, <2>10, <2>11, <2>12, DerivedFacts
  <2> QED BY <2>7, <2>13
<1> HIDE DEF fired
<1>10. ASSUME NEW v \in Vars PROVE u[v] \in Values[v[1]] /\ (<<v, u[v]>> \in AllAtoms => <<v, u[v]>> \in R)
  <2>1. CASE u[v] = s[v]
    <3>1. s[v] \in Values[v[1]]
      BY DEF StateOK
    <3>2. <<v, s[v]>> \in AllAtoms => <<v, s[v]>> \in AtomsOf(s)
      BY DEF AtomsOf
    <3> QED BY <2>1, <3>1, <3>2
  <2>2. CASE \E o \in fired : o[1] = v /\ u[v] = o[2]
    <3>1. PICK o \in fired : o[1] = v /\ u[v] = o[2]
      BY <2>2
    <3>2. o = <<o[1], o[2]>>
      BY <1>7
    <3> QED BY <1>6, <1>9, <3>1, <3>2
  <2> QED BY <1>6, <2>1, <2>2, UpdateFacts
<1>11. StateOK(u)
  BY <1>6, <1>10 DEF StateOK
<1>12. AtomsOf(u) \subseteq R
  <2> SUFFICES ASSUME NEW atom \in AllAtoms, u[atom[1]] = atom[2] PROVE atom \in R
    BY DEF AtomsOf
  <2>1. atom = <<atom[1], atom[2]>> /\ atom[1] \in Vars
    BY DEF AllAtoms
  <2> QED BY <1>10, <2>1
<1> QED BY <1>11, <1>12

-----------------------------------------------------------------------------
(***************************************************************************)
(* The states that are reached, breadth first.                             *)
(***************************************************************************)
LegalStates(t, S) == {u \in S : Solutions(FormulaCSP(ConstraintFormula(t)), ViewOf(AtomsOf(u))) # {}}

Pairs == (SUBSET [Vars -> Int]) \X (SUBSET [Vars -> Int])

Advanced(t, q) ==
    <<q[1] \cup q[2], LegalStates(t, (UNION {Successors(Steps(t), v) : v \in q[2]}) \ (q[1] \cup q[2]))>>

IsGrow(g, t) == g = [q \in Pairs |-> IF q[2] = {} THEN q[1] ELSE g[Advanced(t, q)]]

LEMMA ReachedIs == \A t, s : ReachedFrom(t, s) = (CHOOSE g : IsGrow(g, t))[<<{}, {s}>>]
BY DEF ReachedFrom, IsGrow, Advanced, LegalStates, ConstraintFormula, Pairs

LEMMA AdvancedTyped ==
    ASSUME NEW t, NEW q \in Pairs
    PROVE  /\ Advanced(t, q) \in Pairs
           /\ q[1] \subseteq Advanced(t, q)[1]
           /\ q[2] = {} => Advanced(t, q) = q
<1> DEFINE S == (UNION {Successors(Steps(t), v) : v \in q[2]}) \ (q[1] \cup q[2])
           F == q[1] \cup q[2]
<1>1. q[1] \in SUBSET [Vars -> Int] /\ q[2] \in SUBSET [Vars -> Int] /\ q = <<q[1], q[2]>>
  BY DEF Pairs
<1>2. S \in SUBSET [Vars -> Int]
  BY <1>1, SuccessorFacts
<1>3. Advanced(t, q) = <<F, LegalStates(t, S)>>
  BY DEF Advanced
<1>4. q[2] = {} => F = q[1] /\ S = {}
  OBVIOUS
<1>5. F \in SUBSET [Vars -> Int] /\ q[1] \subseteq F
  BY <1>1
<1> HIDE DEF S, F
<1>6. LegalStates(t, S) \subseteq S
  BY DEF LegalStates
<1>7. LegalStates(t, S) \in SUBSET [Vars -> Int]
  BY <1>2, <1>6
<1>8. Advanced(t, q) \in Pairs
  BY <1>3, <1>5, <1>7 DEF Pairs
<1>9. q[2] = {} => LegalStates(t, S) = {}
  BY <1>4, <1>6
<1>10. q[2] = {} => Advanced(t, q) = q
  BY <1>1, <1>3, <1>4, <1>9
<1> QED BY <1>3, <1>5, <1>8, <1>10

IsOrbit(o, t, q) == o \in [Nat -> Pairs] /\ o[0] = q /\ \A n \in Nat : o[n + 1] = Advanced(t, o[n])

LEMMA OrbitExists ==
    ASSUME NEW t, NEW q \in Pairs
    PROVE  \E o : IsOrbit(o, t, q)
<1> DEFINE step == [p \in Pairs |-> Advanced(t, p)]
<1>1. step \in [Pairs -> Pairs]
  BY AdvancedTyped
<1>2. \A p \in Pairs : step[p] = Advanced(t, p)
  OBVIOUS
<1> HIDE DEF step
<1>3. PICK o \in [Nat -> Pairs] : o[0] = q /\ \A n \in Nat : o[n + 1] = step[o[n]]
  BY <1>1, Iterates
<1>4. \A n \in Nat : o[n] \in Pairs
  OBVIOUS
<1>5. \A n \in Nat : o[n + 1] = Advanced(t, o[n])
  BY <1>2, <1>3, <1>4
<1> QED BY <1>3, <1>5 DEF IsOrbit

\* An orbit without its beginning is an orbit.
LEMMA OrbitTail ==
    ASSUME NEW t, NEW q, NEW o, IsOrbit(o, t, q), NEW p, IsOrbit(p, t, Advanced(t, q))
    PROVE  \A n \in Nat : p[n] = o[n + 1]
<1> DEFINE N == {n \in Nat : p[n] = o[n + 1]}
<1>1. 0 \in N
  BY DEF IsOrbit
<1>2. ASSUME NEW n \in N PROVE n + 1 \in N
  <2>1. p[n + 1] = Advanced(t, p[n]) /\ o[(n + 1) + 1] = Advanced(t, o[n + 1])
    BY DEF IsOrbit
  <2> QED BY <2>1
<1> HIDE DEF N
<1>3. N = Nat
  <2>1. N \in SUBSET Nat
    BY DEF N
  <2> QED BY <1>1, <1>2, <2>1, Induction
<1> QED BY <1>3 DEF N

LEMMA GrowExists ==
    ASSUME NEW t
    PROVE  \E g : IsGrow(g, t)
<1> DEFINE orbit(q) == CHOOSE o : IsOrbit(o, t, q)
           limit(q) == UNION {orbit(q)[n][1] : n \in Nat}
           g == [q \in Pairs |-> limit(q)]
<1>1. \A q \in Pairs : IsOrbit(orbit(q), t, q)
  BY OrbitExists
<1>2. ASSUME NEW q \in Pairs PROVE g[q] = IF q[2] = {} THEN q[1] ELSE g[Advanced(t, q)]
  <2> DEFINE o == orbit(q)
             r == Advanced(t, q)
             p == orbit(r)
  <2>1. r \in Pairs /\ q[1] \subseteq r[1] /\ (q[2] = {} => r = q)
    BY AdvancedTyped
  <2>2. IsOrbit(o, t, q) /\ IsOrbit(p, t, r)
    BY <1>1, <2>1
  <2>3. g[q] = limit(q) /\ g[r] = limit(r)
    BY <2>1
  <2>4. \A x : x \in limit(q) <=> \E n \in Nat : x \in o[n][1]
    OBVIOUS
  <2>5. \A x : x \in limit(r) <=> \E n \in Nat : x \in p[n][1]
    OBVIOUS
  <2> HIDE DEF orbit, limit, g, o, p
  <2>6. \A n \in Nat : p[n] = o[n + 1]
    BY <2>2, OrbitTail
  <2>7. CASE q[2] = {}
    <3> DEFINE N == {n \in Nat : o[n] = q}
    <3>1. 0 \in N
      BY <2>2 DEF IsOrbit
    <3>2. ASSUME NEW n \in N PROVE n + 1 \in N
      <4>1. o[n + 1] = Advanced(t, o[n])
        BY <2>2 DEF IsOrbit
      <4> QED BY <2>1, <2>7, <4>1
    <3> HIDE DEF N
    <3>3. N = Nat
      <4>1. N \in SUBSET Nat
        BY DEF N
      <4> QED BY <3>1, <3>2, <4>1, Induction
    <3>4. \A n \in Nat : o[n] = q
      BY <3>3 DEF N
    <3>5. limit(q) = q[1]
      <4>1. 0 \in Nat
        OBVIOUS
      <4>2. \A x : x \in limit(q) <=> x \in q[1]
        BY <2>4, <3>4, <4>1
      <4> QED BY <4>2
    <3> QED BY <2>3, <2>7, <3>5
  <2>8. CASE q[2] # {}
    <3>1. \A n \in Nat : n = 0 \/ (n - 1 \in Nat /\ (n - 1) + 1 = n)
      OBVIOUS
    <3>2. o[0] = q /\ p[0] = r
      BY <2>2 DEF IsOrbit
    <3>3. ASSUME NEW x \in limit(q) PROVE x \in limit(r)
      <4>1. PICK n \in Nat : x \in o[n][1]
        BY <2>4, <3>3
      <4>2. CASE n = 0
        BY <2>1, <2>5, <3>2, <4>1, <4>2
      <4>3. CASE n # 0
        <5>1. n - 1 \in Nat /\ p[n - 1] = o[n]
          BY <2>6, <3>1, <4>3
        <5> QED BY <2>5, <4>1, <5>1
      <4> QED BY <4>2, <4>3
    <3>4. ASSUME NEW x \in limit(r) PROVE x \in limit(q)
      <4>1. PICK n \in Nat : x \in p[n][1]
        BY <2>5, <3>4
      <4>2. n + 1 \in Nat /\ x \in o[n + 1][1]
        BY <2>6, <4>1
      <4> QED BY <2>4, <4>2
    <3>5. limit(q) = limit(r)
      BY <3>3, <3>4
    <3> QED BY <2>3, <2>8, <3>5
  <2> QED BY <2>7, <2>8
<1>3. DOMAIN g = Pairs /\ g = [q \in Pairs |-> g[q]]
  OBVIOUS
<1> HIDE DEF g
<1>4. [q \in Pairs |-> g[q]] = [q \in Pairs |-> IF q[2] = {} THEN q[1] ELSE g[Advanced(t, q)]]
  BY <1>2
<1> QED BY <1>3, <1>4 DEF IsGrow

LEMMA StatesFinite == IsFiniteSet({u \in [Vars -> Int] : StateOK(u)})
<1> DEFINE W == [f \in Symbols |-> [1..Arity[f] -> Objects]]
           G == [f \in Symbols |-> {<<f, args>> : args \in W[f]}]
           V == [f \in Symbols |-> Values[f]]
<1>0. IsFiniteSet(Symbols) /\ IsFiniteSet(Objects)
      /\ \A f \in Symbols : Arity[f] \in {0, 1} /\ Values[f] \subseteq Int /\ IsFiniteSet(Values[f])
  BY LanguageAssumption
<1>1. \A f \in Symbols : IsFiniteSet(G[f])
  <2> SUFFICES ASSUME NEW f \in Symbols PROVE IsFiniteSet(G[f])
    OBVIOUS
  <2> DEFINE A == [1..Arity[f] -> Objects]
             g == [args \in A |-> <<f, args>>]
  <2>1. IsFiniteSet(1..Arity[f])
    BY <1>0, FS_Interval
  <2>2. IsFiniteSet(A)
    BY <1>0, <2>1, FiniteFunctions
  <2>3. {g[args] : args \in A} = G[f]
    OBVIOUS
  <2> HIDE DEF A, g
  <2> QED BY <2>2, <2>3, FiniteImage
<1>2. Vars = UNION {G[f] : f \in Symbols}
  BY DEF Vars
<1> HIDE DEF G
<1>3. IsFiniteSet({G[f] : f \in Symbols})
  BY <1>0, FiniteImage
<1>4. IsFiniteSet(Vars)
  <2>1. \A S \in {G[f] : f \in Symbols} : IsFiniteSet(S)
    BY <1>1
  <2> QED BY <1>2, <1>3, <2>1, FS_UNION
<1>5. IsFiniteSet({V[f] : f \in Symbols})
  <2> HIDE DEF V
  <2> QED BY <1>0, FiniteImage
<1> DEFINE T == UNION {V[f] : f \in Symbols}
<1>6. IsFiniteSet(T)
  <2>1. \A S \in {V[f] : f \in Symbols} : IsFiniteSet(S)
    BY <1>0
  <2> QED BY <1>5, <2>1, FS_UNION
<1>7. IsFiniteSet([Vars -> T])
  BY <1>4, <1>6, FiniteFunctions
<1>8. {u \in [Vars -> Int] : StateOK(u)} \subseteq [Vars -> T]
  <2> SUFFICES ASSUME NEW u \in [Vars -> Int], StateOK(u) PROVE u \in [Vars -> T]
    OBVIOUS
  <2>1. \A v \in Vars : u[v] \in Values[v[1]] /\ v[1] \in Symbols
    BY VarFacts DEF StateOK
  <2>2. \A v \in Vars : u[v] \in T
    BY <2>1
  <2> QED BY <2>2
<1> QED BY <1>7, <1>8, FS_Subset

LegalState(t, u) == Solutions(FormulaCSP(ConstraintFormula(t)), ViewOf(AtomsOf(u))) # {}

LEMMA ReachedWithin ==
    ASSUME NEW t, NEW C \in SUBSET {u \in [Vars -> Int] : StateOK(u)}, NEW s \in C,
           \A v \in C : \A u \in Successors(Steps(t), v) : LegalState(t, u) => u \in C
    PROVE  ReachedFrom(t, s) \subseteq C
<1> DEFINE g == CHOOSE g : IsGrow(g, t)
           q0 == <<{}, {s}>>
<1>1. IsGrow(g, t)
  BY GrowExists
<1>2. ReachedFrom(t, s) = g[q0]
  BY ReachedIs
<1>3. q0 \in Pairs /\ q0[1] = {} /\ q0[2] = {s}
  BY DEF Pairs
<1> HIDE DEF g, q0
<1>4. PICK o : IsOrbit(o, t, q0)
  BY <1>3, OrbitExists
<1>5. o \in [Nat -> Pairs] /\ o[0] = q0 /\ \A n \in Nat : o[n + 1] = Advanced(t, o[n])
  BY <1>4 DEF IsOrbit
<1> DEFINE Good(q) == q[1] \subseteq C /\ q[2] \subseteq C /\ \A v \in q[1] : v \notin q[2]
<1>6. ASSUME NEW q \in Pairs, Good(q)
      PROVE  Good(Advanced(t, q)) /\ Advanced(t, q)[1] = q[1] \cup q[2]
  <2> DEFINE F == q[1] \cup q[2]
             S == (UNION {Successors(Steps(t), v) : v \in q[2]}) \ F
  <2>1. Advanced(t, q)[1] = F /\ Advanced(t, q)[2] = LegalStates(t, S)
    BY DEF Advanced
  <2>2. \A u \in LegalStates(t, S) : u \in S /\ LegalState(t, u)
    BY DEF LegalStates, LegalState
  <2>3. \A u \in S : u \notin F /\ \E v \in q[2] : u \in Successors(Steps(t), v)
    <3> DEFINE T == {Successors(Steps(t), v) : v \in q[2]}
    <3>1. \A X \in T : \E v \in q[2] : X = Successors(Steps(t), v)
      OBVIOUS
    <3>2. S = (UNION T) \ F
      OBVIOUS
    <3> HIDE DEF F, Good, T, S
    <3>3. \A u \in S : u \notin F /\ \E X \in T : u \in X
      BY <3>2
    <3> QED BY <3>1, <3>3
  <2>4. \A u \in LegalStates(t, S) : u \in C /\ u \notin F
    BY <1>6, <2>2, <2>3
  <2>5. F \subseteq C
    BY <1>6
  <2> HIDE DEF S, F
  <2> QED BY <2>1, <2>4, <2>5 DEF F
<1> DEFINE N == {n \in Nat : Good(o[n]) /\ g[o[n]] = g[q0]}
<1>7. 0 \in N
  BY <1>3, <1>5
<1>8. ASSUME NEW n \in N PROVE n + 1 \in N
  <2> DEFINE q == o[n]
             r == Advanced(t, q)
  <2>1. n \in Nat /\ q \in Pairs /\ Good(q) /\ g[q] = g[q0] /\ o[n + 1] = r
    BY <1>5
  <2>2. Good(r)
    BY <1>6, <2>1
  <2>3. g[q] = IF q[2] = {} THEN q[1] ELSE g[r]
    BY <1>1, <2>1 DEF IsGrow
  <2>4. q[2] = {} => r = q
    BY <2>1, AdvancedTyped
  <2> HIDE DEF q, r, Good
  <2>5. g[r] = g[q]
    BY <2>3, <2>4
  <2> QED BY <2>1, <2>2, <2>5
<1> HIDE DEF N
<1>9. N = Nat
  <2>1. N \in SUBSET Nat
    BY DEF N
  <2> QED BY <1>7, <1>8, <2>1, Induction
<1>10. \A n \in Nat : Good(o[n]) /\ g[o[n]] = g[q0]
  BY <1>9 DEF N
<1> DEFINE L == [n \in Nat |-> o[n][1]]
<1>11. \A n \in Nat : L[n] \in SUBSET C /\ o[n] \in Pairs /\ o[n + 1] = Advanced(t, o[n])
  BY <1>5, <1>10
<1>12. \A n \in Nat : o[n + 1][1] = o[n][1] \cup o[n][2]
  BY <1>6, <1>10, <1>11
<1>13. IsFiniteSet(C)
  BY StatesFinite, FS_Subset
<1>14. L \in [Nat -> SUBSET C] /\ \A n \in Nat : L[n] \subseteq L[n + 1]
  BY <1>11, <1>12
<1>15. PICK k \in 0..Cardinality(C) : L[k + 1] = L[k]
  <2> HIDE DEF L
  <2> QED BY <1>13, <1>14, Saturation
<1>16. k \in Nat
  BY <1>13, FS_CardinalityType
<1>17. o[k][2] = {}
  <2>1. o[k + 1][1] = o[k][1]
    BY <1>15, <1>16
  <2>2. o[k][2] \subseteq o[k][1]
    BY <1>12, <1>16, <2>1
  <2>3. \A v \in o[k][1] : v \notin o[k][2]
    BY <1>10, <1>16
  <2> QED BY <2>2, <2>3
<1>18. g[o[k]] = o[k][1]
  BY <1>1, <1>11, <1>16, <1>17 DEF IsGrow
<1>19. o[k][1] \subseteq C
  BY <1>10, <1>16
<1> QED BY <1>2, <1>10, <1>16, <1>18, <1>19

\* A set of atoms that is closed under the handlers, whichever driver made
\* them, has the atoms of every state that is reached (smart_rpg.cxx:89).
THEOREM RelaxationSound ==
    ASSUME TaskGood(task), Mode \in Modes, Mode # "smart" => Unconditional(task),
           NEW R \in SUBSET AllAtoms, Derived(HS, R) \subseteq R,
           NEW s, StateOK(s), AtomsOf(s) \subseteq R
    PROVE  \A u \in ReachedFrom(task, s) : StateOK(u) /\ AtomsOf(u) \subseteq R /\ (u = s \/ LegalState(task, u))
<1> DEFINE C == {u \in [Vars -> Int] : StateOK(u) /\ AtomsOf(u) \subseteq R /\ (u = s \/ LegalState(task, u))}
<1>1. C \in SUBSET {u \in [Vars -> Int] : StateOK(u)}
  OBVIOUS
<1>2. s \in C
  BY DEF StateOK
<1>3. ASSUME NEW v \in C, NEW u \in Successors(Steps(task), v), LegalState(task, u) PROVE u \in C
  <2>1. StateOK(u) /\ AtomsOf(u) \subseteq R
    BY <1>3, RelaxationStep
  <2>2. u \in [Vars -> Int]
    BY <2>1 DEF StateOK
  <2> QED BY <1>3, <2>1, <2>2
<1>4. \A v \in C : \A u \in Successors(Steps(task), v) : LegalState(task, u) => u \in C
  BY <1>3
<1>5. \A u \in C : StateOK(u) /\ AtomsOf(u) \subseteq R /\ (u = s \/ LegalState(task, u))
  OBVIOUS
<1> HIDE DEF C
<1>6. ReachedFrom(task, s) \subseteq C
  BY <1>1, <1>2, <1>4, ReachedWithin
<1> QED BY <1>5, <1>6

-----------------------------------------------------------------------------
(***************************************************************************)
(* The invariant.                                                          *)
(***************************************************************************)
Context == \E n \in Instances : task = n.task /\ config = n.config

\* What the CSPs look up has an extension: the symbols of the fluents that
\* are neither state variables nor predicates without arguments.
SymbolsManaged ==
    \A c \in HS \cup {GoalCSP} : \A t \in c.looked :
        (t \in c.direct /\ ~IsPredicate(t)) \/ t.name \in ManagedSymbols(task, Mode)

Reached == DOMAIN reached
UpToLayer(k) == {a \in Reached : reached[a].layer <= k}
\* The atoms of the layers before the current one.
Shown == {a \in Reached : reached[a].layer < layer}

\* The handlers that can ever apply are there, confined to F.
Pool(F) ==
    /\ AtomsOf(task.init) \subseteq F /\ Derived(HS, F) \subseteq F
    /\ ~config.reachability => F = AllAtoms
    /\ managers \in Seq({Within(c, F) : c \in HS})
    /\ \A c \in HS : Solutions(c, ViewOf(F)) # {} => \E i \in DOMAIN managers : managers[i] = Within(c, F)

\* Solution x of c gives atom a the support that it has.
Why(c, x, i, a) ==
    /\ Meets(c, x) /\ a = Produced(c, x, i)
    /\ reached[a].action = ActionOf(c, x) /\ reached[a].support \in SupportsOf(c, x, i)
    /\ \A t \in c.nullary : AtomIn(c, x, t) \in Reached
    /\ \A t \in c.looked : AtomIn(c, x, t) \in Reached /\ reached[AtomIn(c, x, t)].layer < reached[a].layer

Explained == \A a \in Reached \ AtomsOf(seed) : \E c \in HS : \E x : \E i \in DOMAIN c.effs : Why(c, x, i, a)

\* The reached atoms are derived from the seed, and so are their supports.
Grounded ==
    /\ \A D \in SUBSET AllAtoms : AtomsOf(seed) \subseteq D /\ Derived(HS, D) \subseteq D => Reached \subseteq D
    /\ \A D \in SUBSET AllAtoms : (\A a \in Reached : reached[a].support \subseteq D => a \in D) => Reached \subseteq D

Layers ==
    /\ layer \in Nat \ {0}
    /\ \A a \in Reached : reached[a].layer \in 0..layer
    /\ AtomsOf(seed) \subseteq Reached
    /\ \A a \in Reached : reached[a].layer = 0 <=> a \in AtomsOf(seed)
    /\ \A a \in AtomsOf(seed) : reached[a].support = {}
    /\ novel = {a \in Reached : reached[a].layer = layer}
    /\ domains = DomainsOf(Shown) /\ extension = Managed(Shown)

\* Every layer before the current one is complete.
Complete == \A k \in Nat : k + 1 < layer => Derived(HS, UpToLayer(k)) \subseteq UpToLayer(k + 1)

Graph(F) ==
    /\ Reached \subseteq F /\ Layers /\ Explained /\ Grounded /\ Complete

\* What the layer has derived so far.
HandlerDone(F, j) ==
    \A c \in HS : managers[j] = Within(c, F) =>
        \A x : Meets(c, x) /\ Reading(c, x) \subseteq Shown => \A i \in DOMAIN c.effs : Produced(c, x, i) \in Reached
AtomDone(a) == a \in Derived(HS, Shown) => a \in Reached

Progressing(F) ==
    /\ idx \in Nat \ {0}
    /\ IF Mode = "unreached"
       THEN /\ \A j \in DOMAIN AtomSequence : j < idx => AtomDone(AtomSequence[j])
            /\ cache = [i \in DOMAIN managers |-> cache[i]]
            /\ \A i \in DOMAIN managers : cache[i] \in {"none", "ok", "failed"}
            /\ \A i \in DOMAIN managers : \A c \in HS : managers[i] = c /\ cache[i] = "failed" =>
                  ~\E x : Meets(c, x) /\ Reading(c, x) \subseteq Shown
       ELSE \A j \in DOMAIN managers : j < idx => HandlerDone(F, j)

NoGoalIn(A) == Solutions(GoalCSP, ViewOf(A)) = {}

\* There is a graph for the seed.
HasGraph == pc \in {"full", "layer", "goal", "extract"} \/ (pc = "done" /\ h # 0)

Building(F) ==
    /\ pc # "start" => Pool(F) /\ AtomsOf(seed) \subseteq F
    /\ pc = "full" => F = AllAtoms
    /\ HasGraph => Graph(F)
    /\ pc \in {"full", "layer", "goal"} => Progressing(F)
    /\ HasGraph /\ pc # "full" => ~Satisfied(task.goal, seed)
    /\ pc \in {"goal", "extract"} \/ (pc = "done" /\ h # 0) => novel = {}
    /\ pc = "layer" /\ layer > 1 => NoGoalIn(Shown)
    /\ pc = "done" /\ h = -1 => Derived(HS, Reached) \subseteq Reached /\ (layer > 1 => NoGoalIn(Reached))

Bookkeeping ==
    /\ Context /\ StateOK(seed)
    /\ pc \in {"start", "full", "evaluate", "layer", "goal", "extract", "done"}
    /\ pc # "done" => h = 0
    /\ pc \in {"start", "full"} => seed = task.init
    /\ pc = "full" => config.reachability
    /\ IsFiniteSet(processed)

BuildInv == Bookkeeping /\ (SymbolsManaged => \E F \in SUBSET AllAtoms : Building(F))

-----------------------------------------------------------------------------
(***************************************************************************)
(* What the invariant is stated with.                                      *)
(***************************************************************************)
LEMMA ContextFacts ==
    ASSUME Context
    PROVE  /\ TaskGood(task) /\ Mode \in Modes /\ (Mode # "smart" => Unconditional(task))
           /\ config.reachability => Mode = "smart"
           /\ config.hmax => Mode = "ground"
           /\ config.novelty \in BOOLEAN /\ config.hmax \in BOOLEAN /\ config.reachability \in BOOLEAN
           /\ \A c \in HS : IsHandler(c)
<1>1. PICK n \in Instances : task = n.task /\ config = n.config
  BY DEF Context
<1>2. /\ n.config \in ConfigType
      /\ n.config.hmax => n.config.mode = "ground"
      /\ n.config.mode # "smart" => Unconditional(n.task)
      /\ n.config.reachability => n.config.mode = "smart"
  BY ConfigsAssumption
<1>3. TaskGood(task)
  BY <1>1, TasksGood DEF Tasks
<1>4. Mode \in Modes /\ config.novelty \in BOOLEAN /\ config.hmax \in BOOLEAN /\ config.reachability \in BOOLEAN
  BY <1>1, <1>2 DEF Mode, Modes, ConfigType
<1>5. \A c \in HS : IsHandler(c)
  BY <1>3, <1>4, HandlersTyped
<1> QED BY <1>1, <1>2, <1>3, <1>4, <1>5 DEF Mode

LEMMA GoalFacts ==
    ASSUME Context
    PROVE  GoalCSP = FormulaCSP(GoalFormula(task)) /\ IsCSP(GoalCSP) /\ FormulaOK(GoalFormula(task))
<1>1. FormulasOK(task)
  BY ContextFacts DEF TaskGood
<1>2. FormulaOK(GoalFormula(task)) /\ GoalCSP = FormulaCSP(GoalFormula(task))
  BY <1>1, GoalFormulaOK DEF GoalCSP
<1>3. CSPOK(FormulaAction(GoalFormula(task)), << >>, GoalFormula(task).conds, << >>)
      /\ FormulaCSP(GoalFormula(task)) = CSP(FormulaAction(GoalFormula(task)), << >>, GoalFormula(task).conds, << >>)
  BY <1>2, FormulaCSPOK
<1>4. IsCSP(GoalCSP)
  BY <1>2, <1>3 DEF IsCSP
<1> QED BY <1>2, <1>4

LEMMA AllAtomsFinite == IsFiniteSet(AllAtoms)
<1> DEFINE W == [f \in Symbols |-> [1..Arity[f] -> Objects]]
           G == [f \in Symbols |-> {<<<<f, args>>, n>> : args \in W[f], n \in Values[f]}]
<1>0. IsFiniteSet(Symbols) /\ IsFiniteSet(Objects)
      /\ \A f \in Symbols : Arity[f] \in {0, 1} /\ Values[f] \subseteq Int /\ IsFiniteSet(Values[f])
  BY LanguageAssumption
<1>1. \A f \in Symbols : IsFiniteSet(G[f])
  <2> SUFFICES ASSUME NEW f \in Symbols PROVE IsFiniteSet(G[f])
    OBVIOUS
  <2> DEFINE A == [1..Arity[f] -> Objects]
             g == [q \in A \X Values[f] |-> <<<<f, q[1]>>, q[2]>>]
  <2>1. IsFiniteSet(1..Arity[f])
    BY <1>0, FS_Interval
  <2>2. IsFiniteSet(A)
    BY <1>0, <2>1, FiniteFunctions
  <2>3. IsFiniteSet(A \X Values[f])
    BY <1>0, <2>2, FS_Product
  <2>4. G[f] = {<<<<f, args>>, n>> : args \in A, n \in Values[f]}
    OBVIOUS
  <2> HIDE DEF G
  <2>5. ASSUME NEW p \in G[f] PROVE p \in {g[q] : q \in A \X Values[f]}
    <3> HIDE DEF A, g
    <3>1. PICK args \in A, n \in Values[f] : p = <<<<f, args>>, n>>
      BY <2>4
    <3>2. <<args, n>> \in A \X Values[f]
      OBVIOUS
    <3>3. g[<<args, n>>] = <<<<f, args>>, n>>
      BY <3>2 DEF g
    <3> QED BY <3>1, <3>2, <3>3
  <2> HIDE DEF A, g
  <2>6. IsFiniteSet({g[q] : q \in A \X Values[f]})
    BY <2>3, FiniteImage
  <2> QED BY <2>5, <2>6, FS_Subset
<1>2. AllAtoms \subseteq UNION {G[f] : f \in Symbols}
  <2> SUFFICES ASSUME NEW p \in AllAtoms PROVE \E f \in Symbols : p \in G[f]
    OBVIOUS
  <2>1. PICK v \in Vars : \E n \in Values[v[1]] : p = <<v, n>>
    BY DEF AllAtoms
  <2>2. PICK f \in Symbols : \E args \in W[f] : v = <<f, args>>
    BY DEF Vars
  <2>3. PICK args \in W[f] : v = <<f, args>>
    BY <2>2
  <2>4. PICK n \in Values[f] : p = <<v, n>>
    BY <2>1, <2>3
  <2> HIDE DEF W
  <2>5. p \in G[f]
    BY <2>3, <2>4
  <2> QED BY <2>5
<1> HIDE DEF G
<1>3. IsFiniteSet({G[f] : f \in Symbols})
  BY <1>0, FiniteImage
<1>4. IsFiniteSet(UNION {G[f] : f \in Symbols})
  <2>1. \A S \in {G[f] : f \in Symbols} : IsFiniteSet(S)
    BY <1>1
  <2> QED BY <1>3, <2>1, FS_UNION
<1> QED BY <1>2, <1>4, FS_Subset

\* Atoms are pairs.
LEMMA PairFacts == \A p \in AllAtoms : p = <<p[1], p[2]>> /\ p[1] \in Vars
BY DEF AllAtoms

LEMMA DomainsAre ==
    ASSUME NEW S \in SUBSET AllAtoms, NEW p \in AllAtoms
    PROVE  p[2] \in DomainsOf(S)[p[1]] <=> p \in S
<1>1. p[1] \in Vars /\ p = <<p[1], p[2]>>
  BY PairFacts
<1>2. \A b \in S : b = <<b[1], b[2]>>
  BY PairFacts
<1>3. DomainsOf(S)[p[1]] = {b[2] : b \in {d \in S : d[1] = p[1]}}
  BY <1>1 DEF DomainsOf
<1>4. p[2] \in DomainsOf(S)[p[1]] <=> \E b \in S : b[1] = p[1] /\ b[2] = p[2]
  BY <1>3
<1>5. (\E b \in S : b[1] = p[1] /\ b[2] = p[2]) <=> p \in S
  BY <1>1, <1>2
<1> QED BY <1>4, <1>5

LEMMA ShownSees ==
    ASSUME SymbolsManaged, NEW c \in HS \cup {GoalCSP}, NEW S \in SUBSET AllAtoms, domains = DomainsOf(S), extension = Managed(S)
    PROVE  Sees(c, CurrentView, S, Reached)
<1>1. CurrentView.dom = DomainsOf(S) /\ CurrentView.ext = Managed(S) /\ CurrentView.now = Reached
  BY DEF CurrentView, View, Reached
<1>2. ASSUME NEW t \in c.looked, NEW atom \in AllAtoms, atom[1][1] = t.name
      PROVE  (IF t \in c.direct /\ ~IsPredicate(t) THEN atom[2] \in DomainsOf(S)[atom[1]] ELSE atom \in Managed(S)) = (atom \in S)
  <2>1. atom[2] \in DomainsOf(S)[atom[1]] <=> atom \in S
    BY DomainsAre
  <2>2. CASE t \in c.direct /\ ~IsPredicate(t)
    BY <2>1, <2>2
  <2>3. CASE ~(t \in c.direct /\ ~IsPredicate(t))
    <3>1. t.name \in ManagedSymbols(task, Mode)
      BY <2>3 DEF SymbolsManaged
    <3>2. atom \in Managed(S) <=> atom \in S
      BY <1>2, <3>1 DEF Managed
    <3> QED BY <2>3, <3>2
  <2> QED BY <2>2, <2>3
<1> QED BY <1>1, <1>2 DEF Sees

\* What the heuristic finds in a layer.
LEMMA NowSolutions ==
    ASSUME Context, SymbolsManaged, NEW c \in HS \cup {GoalCSP}, NEW S \in SUBSET AllAtoms,
           domains = DomainsOf(S), extension = Managed(S), NEW F
    PROVE  \A x : x \in Solutions(Within(c, F), CurrentView) <=>
                    /\ Meets(c, x)
                    /\ \A t \in c.nullary : AtomIn(c, x, t) \in Reached
                    /\ \A t \in c.looked : AtomIn(c, x, t) \in S \cap F
<1>1. IsCSP(c)
  BY ContextFacts, GoalFacts DEF IsHandler
<1>2. Sees(c, CurrentView, S, Reached)
  BY ShownSees
<1> QED BY <1>1, <1>2, CSPFacts

-----------------------------------------------------------------------------
(***************************************************************************)
(* The graph as it grows.                                                  *)
(***************************************************************************)
LEMMA HandlersStay ==
    ASSUME UNCHANGED <<task, config>>
    PROVE  HS' = HS /\ (\A A : Managed(A)' = Managed(A)) /\ Context' = Context /\ GoalCSP' = GoalCSP
<1>1. HS' = HS
  BY DEF HS, HandlerSet, Mode
<1>2. \A A : Managed(A)' = Managed(A)
  BY DEF Managed, Mode
<1>3. Context' = Context
  BY DEF Context
<1>4. GoalCSP' = GoalCSP
  BY DEF GoalCSP
<1> QED BY <1>1, <1>2, <1>3, <1>4

LEMMA ReachingIs ==
    ASSUME NEW l, NEW act, NEW sup
    PROVE  Reaching(l, act, sup).layer = l /\ Reaching(l, act, sup).action = act /\ Reaching(l, act, sup).support = sup
BY DEF Reaching

\* The constructor of the graph.
LEMMA SeedGraph ==
    ASSUME NEW s, NewGraph(s), seed' = s, NEW F \in SUBSET AllAtoms, AtomsOf(s) \subseteq F, UNCHANGED <<task, config>>
    PROVE  Graph(F)' /\ novel' = {} /\ layer' = 1 /\ Shown' = AtomsOf(s) /\ Reached' = AtomsOf(s)
<1> DEFINE A == AtomsOf(s)
<1>1. /\ reached' = [a \in A |-> SeedSupport] /\ novel' = {} /\ layer' = 1
      /\ domains' = DomainsOf(A) /\ extension' = Managed(A)
  BY DEF NewGraph, ResetExtensions
<1>2. SeedSupport.layer = 0 /\ SeedSupport.support = {}
  BY ReachingIs DEF SeedSupport
<1>3. AtomsOf(seed)' = A
  OBVIOUS
<1> HIDE DEF A
<1>4. Reached' = A /\ \A a \in A : reached'[a].layer = 0 /\ reached'[a].support = {}
  BY <1>1, <1>2 DEF Reached
<1>5. Shown' = A
  BY <1>1, <1>4 DEF Shown
<1>6. A \subseteq F
  BY DEF A
<1>7. Layers'
  <2>1. (domains = DomainsOf(Shown))' /\ (extension = Managed(Shown))'
    BY <1>1, <1>5, HandlersStay
  <2>2. (layer \in Nat \ {0})' /\ (\A a \in Reached : reached[a].layer \in 0..layer)'
    BY <1>1, <1>4
  <2>3. (novel = {a \in Reached : reached[a].layer = layer})'
    BY <1>1, <1>4
  <2> QED BY <1>3, <1>4, <2>1, <2>2, <2>3 DEF Layers
<1>8. Explained'
  BY <1>3, <1>4 DEF Explained
<1>9. Grounded'
  BY <1>3, <1>4 DEF Grounded
<1>10. Complete'
  BY <1>1 DEF Complete
<1>11. Graph(F)'
  BY <1>4, <1>6, <1>7, <1>8, <1>9, <1>10 DEF Graph
<1> QED BY <1>1, <1>4, <1>5, <1>11 DEF A

\* What a solution needs to give an atom of the current layer its support.
Supports(c, x, i, a, w) ==
    /\ i \in DOMAIN c.effs /\ Meets(c, x) /\ a = Produced(c, x, i)
    /\ \E R \in SupportsOf(c, x, i) : w = Reaching(layer, ActionOf(c, x), R)
    /\ \A t \in c.nullary : AtomIn(c, x, t) \in Reached
    /\ \A t \in c.looked : AtomIn(c, x, t) \in Shown

\* What a handler records reaches no further than its conditions and effects,
\* and the handlers of one effect record all of it.
LEMMA SupportsOfFacts ==
    ASSUME NEW c, NEW x, NEW i, NEW R \in SupportsOf(c, x, i)
    PROVE  R \subseteq EffectSupport(c, x, i) /\ (Mode \notin {"lifted", "ground"} => R = EffectSupport(c, x, i))
<1>1. CASE Mode \in {"lifted", "ground"}
  <2>1. R \in RecordedSupports(c, x, i)
    BY <1>1 DEF SupportsOf
  <2> QED BY <1>1, <2>1, RecordedFacts
<1>2. CASE Mode \notin {"lifted", "ground"}
  BY <1>2 DEF SupportsOf
<1> QED BY <1>1, <1>2

LEMMA GrowGraph ==
    ASSUME Context, NEW F \in SUBSET AllAtoms, Derived(HS, F) \subseteq F, Graph(F), UNCHANGED <<task, config, seed>>,
           NEW news, AddAll(news), \A a \in DOMAIN news : a \notin Reached,
           \A a \in DOMAIN news : \E c \in HS : \E x : \E i : Supports(c, x, i, a, news[a])
    PROVE  Graph(F)' /\ Shown' = Shown /\ Reached' = Reached \cup DOMAIN news /\ layer' = layer
<1> DEFINE N == DOMAIN news
<1>0. Reached \subseteq F /\ Layers /\ Explained /\ Grounded /\ Complete
  BY DEF Graph
<1>1. /\ Reached' = Reached \cup N
      /\ \A a \in Reached : reached'[a] = reached[a]
      /\ \A a \in N : reached'[a] = news[a]
      /\ novel' = novel \cup N
      /\ UNCHANGED <<layer, domains, extension>>
  BY DEF AddAll, Reached
<1>2. HS' = HS /\ (\A A : Managed(A)' = Managed(A)) /\ AtomsOf(seed)' = AtomsOf(seed)
  BY HandlersStay
<1>3. \A c \in HS : IsHandler(c)
  BY ContextFacts
<1>4. ASSUME NEW a \in N
      PROVE  a \in F /\ reached'[a].layer = layer /\ a \notin Reached /\ reached'[a].support \subseteq Reached
             /\ \E c \in HS : \E x : Reading(c, x) \subseteq Reached /\ Meets(c, x) /\ \E i \in DOMAIN c.effs : a = Produced(c, x, i)
  <2>1. PICK c \in HS : \E x : \E i : Supports(c, x, i, a, news[a])
    OBVIOUS
  <2>2. PICK x, i : Supports(c, x, i, a, news[a])
    BY <2>1
  <2>3. i \in DOMAIN c.effs /\ Meets(c, x) /\ a = Produced(c, x, i)
        /\ reached'[a].layer = layer /\ reached'[a].support \in SupportsOf(c, x, i)
    BY <1>1, <2>2, ReachingIs DEF Supports
  <2>4. Reading(c, x) \subseteq Reached
    BY <2>2 DEF Supports, Reading, Shown
  <2>5. reached'[a].support \subseteq Reading(c, x)
    <3>1. EffectSupport(c, x, i) \subseteq Reading(c, x)
      BY <1>3, <2>3, HandlerFacts
    <3> QED BY <2>3, <3>1, SupportsOfFacts
  <2>6. Reading(c, x) \subseteq F
    BY <1>0, <2>4
  <2>7. a \in Derived(HS, F)
    BY <1>3, <2>3, <2>6, DerivedFacts
  <2>8. a \notin Reached
    OBVIOUS
  <2> QED BY <2>3, <2>4, <2>5, <2>7, <2>8
<1>5. layer \in Nat \ {0} /\ AtomsOf(seed) \subseteq Reached /\ (\A a \in Reached : reached[a].layer \in 0..layer)
      /\ (\A a \in Reached : reached[a].layer = 0 <=> a \in AtomsOf(seed))
      /\ (\A a \in AtomsOf(seed) : reached[a].support = {})
      /\ novel = {a \in Reached : reached[a].layer = layer} /\ domains = DomainsOf(Shown) /\ extension = Managed(Shown)
  BY <1>0 DEF Layers
<1> HIDE DEF N
<1>6. Shown' = Shown
  BY <1>1, <1>4, <1>5 DEF Shown
<1>7. Layers'
  <2>1. (domains = DomainsOf(Shown))' /\ (extension = Managed(Shown))'
    BY <1>1, <1>2, <1>5, <1>6
  <2>2. (layer \in Nat \ {0})' /\ (\A a \in Reached : reached[a].layer \in 0..layer)'
    BY <1>1, <1>4, <1>5
  <2>3. (novel = {a \in Reached : reached[a].layer = layer})'
    BY <1>1, <1>4, <1>5
  <2>4. (AtomsOf(seed) \subseteq Reached)' /\ (\A a \in AtomsOf(seed) : reached[a].support = {})'
    BY <1>1, <1>2, <1>5
  <2>5. (\A a \in Reached : reached[a].layer = 0 <=> a \in AtomsOf(seed))'
    BY <1>1, <1>2, <1>4, <1>5
  <2> QED BY <2>1, <2>2, <2>3, <2>4, <2>5 DEF Layers
<1>8. Explained'
  <2> SUFFICES ASSUME NEW a \in Reached', a \notin AtomsOf(seed)'
               PROVE  (\E c \in HS : \E x : \E i \in DOMAIN c.effs : Why(c, x, i, a))'
    BY DEF Explained
  <2>1. CASE a \in Reached
    <3>1. PICK c \in HS : \E x : \E i \in DOMAIN c.effs : Why(c, x, i, a)
      BY <1>0, <1>2, <2>1 DEF Explained
    <3>2. PICK x : \E i \in DOMAIN c.effs : Why(c, x, i, a)
      BY <3>1
    <3>3. PICK i \in DOMAIN c.effs : Why(c, x, i, a)
      BY <3>2
    <3>4. Why(c, x, i, a)'
      BY <1>1, <2>1, <3>3 DEF Why, SupportsOf, Mode
    <3> QED BY <1>2, <3>4
  <2>2. CASE a \in N
    <3>1. PICK c \in HS : \E x : \E i : Supports(c, x, i, a, news[a])
      BY <2>2 DEF N
    <3>2. PICK x, i : Supports(c, x, i, a, news[a])
      BY <3>1
    <3>3. /\ reached'[a].layer = layer /\ reached'[a].action = ActionOf(c, x) /\ reached'[a].support \in SupportsOf(c, x, i)
      BY <1>1, <2>2, <3>2, ReachingIs DEF Supports
    <3>4. Why(c, x, i, a)'
      BY <1>1, <3>2, <3>3 DEF Why, Supports, Shown, SupportsOf, Mode
    <3>5. i \in DOMAIN c.effs
      BY <3>2 DEF Supports
    <3> QED BY <1>2, <3>4, <3>5
  <2> QED BY <1>1, <2>1, <2>2
<1>9. Grounded'
  <2>1. ASSUME NEW D \in SUBSET AllAtoms, AtomsOf(seed) \subseteq D, Derived(HS, D) \subseteq D
        PROVE  Reached' \subseteq D
    <3>1. Reached \subseteq D
      BY <1>0, <2>1 DEF Grounded
    <3>2. ASSUME NEW a \in N PROVE a \in D
      <4>1. PICK c \in HS : \E x : Reading(c, x) \subseteq Reached /\ Meets(c, x) /\ \E i \in DOMAIN c.effs : a = Produced(c, x, i)
        BY <1>4
      <4>2. PICK x : Reading(c, x) \subseteq Reached /\ Meets(c, x) /\ \E i \in DOMAIN c.effs : a = Produced(c, x, i)
        BY <4>1
      <4>3. Reading(c, x) \subseteq D
        BY <3>1, <4>2
      <4>4. a \in Derived(HS, D)
        BY <1>3, <4>2, <4>3, DerivedFacts
      <4> QED BY <2>1, <4>4
    <3> QED BY <1>1, <3>1, <3>2
  <2>2. ASSUME NEW D \in SUBSET AllAtoms, \A a \in Reached' : reached'[a].support \subseteq D => a \in D
        PROVE  Reached' \subseteq D
    <3>1. \A a \in Reached : reached[a].support \subseteq D => a \in D
      BY <1>1, <2>2
    <3>2. Reached \subseteq D
      BY <1>0, <3>1 DEF Grounded
    <3>3. \A a \in N : a \in D
      BY <1>1, <1>4, <2>2, <3>2
    <3> QED BY <1>1, <3>2, <3>3
  <2> QED BY <1>2, <2>1, <2>2 DEF Grounded
<1>10. Complete'
  <2> SUFFICES ASSUME NEW k \in Nat, k + 1 < layer' PROVE (Derived(HS, UpToLayer(k)) \subseteq UpToLayer(k + 1))'
    BY DEF Complete
  <2>1. k + 1 < layer /\ k < layer
    BY <1>1, <1>5
  <2>2. \A m \in Nat : m < layer => UpToLayer(m)' = UpToLayer(m)
    BY <1>1, <1>4, <1>5 DEF UpToLayer
  <2>3. UpToLayer(k)' = UpToLayer(k) /\ UpToLayer(k + 1)' = UpToLayer(k + 1)
    BY <2>1, <2>2
  <2>4. Derived(HS, UpToLayer(k)) \subseteq UpToLayer(k + 1)
    BY <1>0, <2>1 DEF Complete
  <2> QED BY <1>2, <2>3, <2>4
<1>11. Reached' \subseteq F
  BY <1>0, <1>1, <1>4
<1>12. Graph(F)'
  BY <1>7, <1>8, <1>9, <1>10, <1>11 DEF Graph
<1> QED BY <1>1, <1>6, <1>12 DEF N

LEMMA AdvanceFacts ==
    ASSUME NEW F \in SUBSET AllAtoms, Graph(F), UNCHANGED <<task, config, seed>>,
           Derived(HS, Shown) \subseteq Reached, AdvanceGraph
    PROVE  Graph(F)' /\ novel' = {} /\ Shown' = Reached /\ Reached' = Reached /\ layer' = layer + 1
<1>0. Reached \subseteq F /\ Layers /\ Explained /\ Grounded /\ Complete
  BY DEF Graph
<1>1. /\ UNCHANGED reached /\ Reached' = Reached /\ novel' = {} /\ layer' = layer + 1
      /\ extension' = extension \cup Managed(novel) /\ domains' = DomainsOf(Reached)
  BY DEF AdvanceGraph, AllDomains, Reached
<1>2. HS' = HS /\ (\A A : Managed(A)' = Managed(A)) /\ AtomsOf(seed)' = AtomsOf(seed)
  BY HandlersStay
<1>3. layer \in Nat \ {0} /\ AtomsOf(seed) \subseteq Reached /\ (\A a \in Reached : reached[a].layer \in 0..layer)
      /\ (\A a \in Reached : reached[a].layer = 0 <=> a \in AtomsOf(seed))
      /\ (\A a \in AtomsOf(seed) : reached[a].support = {})
      /\ novel = {a \in Reached : reached[a].layer = layer} /\ domains = DomainsOf(Shown) /\ extension = Managed(Shown)
  BY <1>0 DEF Layers
<1>4. Shown' = Reached
  BY <1>1, <1>3 DEF Shown
<1>5. Shown \cup novel = Reached
  BY <1>3 DEF Shown
<1>6. Layers'
  <2>1. extension' = Managed(Reached)
    BY <1>1, <1>3, <1>5 DEF Managed
  <2>2. (domains = DomainsOf(Shown))' /\ (extension = Managed(Shown))'
    BY <1>1, <1>2, <1>4, <2>1
  <2>3. (layer \in Nat \ {0})' /\ (\A a \in Reached : reached[a].layer \in 0..layer)'
    BY <1>1, <1>3
  <2>4. (novel = {a \in Reached : reached[a].layer = layer})'
    BY <1>1, <1>3
  <2>5. (AtomsOf(seed) \subseteq Reached)' /\ (\A a \in AtomsOf(seed) : reached[a].support = {})'
        /\ (\A a \in Reached : reached[a].layer = 0 <=> a \in AtomsOf(seed))'
    BY <1>1, <1>2, <1>3
  <2> QED BY <2>2, <2>3, <2>4, <2>5 DEF Layers
<1>7. Explained'
  <2>1. \A c, x, i, a : Why(c, x, i, a)' = Why(c, x, i, a)
    BY <1>1 DEF Why, SupportsOf, Mode
  <2> QED BY <1>0, <1>1, <1>2, <2>1 DEF Explained
<1>8. Grounded'
  BY <1>0, <1>1, <1>2 DEF Grounded
<1>9. Complete'
  <2> SUFFICES ASSUME NEW k \in Nat, k + 1 < layer' PROVE (Derived(HS, UpToLayer(k)) \subseteq UpToLayer(k + 1))'
    BY DEF Complete
  <2>1. \A m : UpToLayer(m)' = UpToLayer(m)
    BY <1>1 DEF UpToLayer
  <2>2. CASE k + 1 < layer
    BY <1>0, <1>2, <2>1, <2>2 DEF Complete
  <2>3. CASE ~(k + 1 < layer)
    <3>1. k + 1 = layer
      BY <1>1, <1>3, <2>3
    <3>2. UpToLayer(k) = Shown /\ UpToLayer(k + 1) = Reached
      BY <1>3, <3>1 DEF UpToLayer, Shown
    <3> QED BY <1>2, <2>1, <3>2
  <2> QED BY <2>2, <2>3
<1> QED BY <1>0, <1>1, <1>4, <1>6, <1>7, <1>8, <1>9 DEF Graph

-----------------------------------------------------------------------------
(***************************************************************************)
(* What a step leaves alone, and one handler.                              *)
(***************************************************************************)
LEMMA TaskFrame ==
    ASSUME UNCHANGED <<task, config>>
    PROVE  /\ SymbolsManaged' = SymbolsManaged
           /\ \A A : NoGoalIn(A)' = NoGoalIn(A)
           /\ Mode' = Mode
           /\ \A s : Satisfied(task.goal, s)' = Satisfied(task.goal, s)
<1>1. HS' = HS /\ GoalCSP' = GoalCSP
  BY HandlersStay
<1>2. Mode' = Mode
  BY DEF Mode
<1>3. SymbolsManaged' = SymbolsManaged
  BY <1>1, <1>2 DEF SymbolsManaged
<1>4. \A A : NoGoalIn(A)' = NoGoalIn(A)
  BY <1>1 DEF NoGoalIn
<1> QED BY <1>2, <1>3, <1>4

LEMMA GraphFrame ==
    ASSUME UNCHANGED <<task, config, seed, graph>>
    PROVE  (\A F : Graph(F)' = Graph(F)) /\ Shown' = Shown /\ Reached' = Reached
<1>1. HS' = HS /\ (\A A : Managed(A)' = Managed(A))
  BY HandlersStay
<1>2. UNCHANGED <<reached, novel, layer, domains, extension, seed>>
  BY DEF graph
<1>3. Shown' = Shown /\ Reached' = Reached /\ \A k : UpToLayer(k)' = UpToLayer(k)
  BY <1>2 DEF Shown, Reached, UpToLayer
<1>4. Layers' = Layers
  BY <1>1, <1>2, <1>3 DEF Layers
<1>5. \A c, x, i, a : Why(c, x, i, a)' = Why(c, x, i, a)
  BY <1>2, <1>3 DEF Why, SupportsOf, Mode
<1>6. Explained' = Explained
  BY <1>1, <1>2, <1>3, <1>5 DEF Explained
<1>7. Grounded' = Grounded
  BY <1>1, <1>2, <1>3 DEF Grounded
<1>8. Complete' = Complete
  BY <1>1, <1>2, <1>3 DEF Complete
<1> QED BY <1>3, <1>4, <1>6, <1>7, <1>8 DEF Graph

LEMMA PoolFrame ==
    ASSUME UNCHANGED <<task, config, managers>>
    PROVE  \A F : Pool(F)' = Pool(F)
<1>1. HS' = HS
  BY HandlersStay
<1> QED BY <1>1 DEF Pool

LEMMA ProgressFrame ==
    ASSUME UNCHANGED <<task, config, seed, graph, managers, idx, cache>>
    PROVE  \A F : Progressing(F)' = Progressing(F)
<1>1. HS' = HS /\ Mode' = Mode /\ Shown' = Shown /\ Reached' = Reached
  BY HandlersStay, GraphFrame, TaskFrame
<1>2. \A F, j : HandlerDone(F, j)' = HandlerDone(F, j)
  BY <1>1 DEF HandlerDone
<1>3. \A a : AtomDone(a)' = AtomDone(a)
  BY <1>1 DEF AtomDone
<1>4. AtomSequence' = AtomSequence
  BY DEF AtomSequence
<1> QED BY <1>1, <1>2, <1>3, <1>4 DEF Progressing

LEMMA PoolFacts ==
    ASSUME NEW F, Pool(F)
    PROVE  /\ Len(managers) \in Nat /\ DOMAIN managers = 1..Len(managers)
           /\ \A i \in DOMAIN managers : \E c \in HS : managers[i] = Within(c, F)
<1> DEFINE X == {Within(c, F) : c \in HS}
<1>1. managers \in Seq(X)
  BY DEF Pool
<1>2. \A e \in X : \E c \in HS : e = Within(c, F)
  OBVIOUS
<1> HIDE DEF X
<1>3. Len(managers) \in Nat /\ DOMAIN managers = 1..Len(managers)
  BY <1>1, LenProperties
<1>4. \A i \in 1..Len(managers) : managers[i] \in X
  BY <1>1, ElementOfSeq
<1> QED BY <1>2, <1>3, <1>4

\* The solutions that the heuristic looks at are those over the atoms shown,
\* but for those that produce nothing new.
LEMMA LayerSolutionFacts ==
    ASSUME Context, SymbolsManaged, NEW F \in SUBSET AllAtoms, Graph(F), NEW d \in HS, NEW c, c = Within(d, F)
    PROVE  /\ \A x \in LayerSolutions(c) :
                /\ Meets(d, x)
                /\ \A t \in d.nullary : AtomIn(d, x, t) \in Reached
                /\ \A t \in d.looked : AtomIn(d, x, t) \in Shown
           /\ \A x : Meets(d, x) /\ Reading(d, x) \subseteq Shown =>
                /\ x \in Solutions(c, CurrentView)
                /\ x \in LayerSolutions(c) \/ \A i \in DOMAIN d.effs : Produced(d, x, i) \in Shown
<1>1. domains = DomainsOf(Shown) /\ extension = Managed(Shown) /\ Reached \subseteq F
  BY DEF Graph, Layers
<1>2. Shown \subseteq Reached /\ Shown \in SUBSET AllAtoms
  BY <1>1 DEF Shown
<1>3. IsHandler(d) /\ IsCSP(d)
  BY ContextFacts DEF IsHandler
<1>4. \A x : x \in Solutions(c, CurrentView) <=>
         /\ Meets(d, x)
         /\ \A t \in d.nullary : AtomIn(d, x, t) \in Reached
         /\ \A t \in d.looked : AtomIn(d, x, t) \in Shown \cap F
  BY <1>1, <1>2, NowSolutions
<1>5. LayerSolutions(c) \subseteq Solutions(c, CurrentView)
  BY DEF LayerSolutions
<1>6. c.effs = d.effs /\ \A x, i : Produced(c, x, i) = Produced(d, x, i)
  BY <1>3, ConfinedFacts
<1>7. ASSUME NEW x, Meets(d, x), Reading(d, x) \subseteq Shown
      PROVE  /\ x \in Solutions(c, CurrentView)
             /\ x \in LayerSolutions(c) \/ \A i \in DOMAIN d.effs : Produced(d, x, i) \in Shown
  <2>1. x \in Solutions(c, CurrentView)
    BY <1>1, <1>2, <1>4, <1>7 DEF Reading
  <2>2. ASSUME x \notin LayerSolutions(c), NEW i \in DOMAIN d.effs PROVE Produced(d, x, i) \in Shown
    <3>1. ~IsNovel(c, x)
      BY <2>1, <2>2 DEF LayerSolutions
    <3>2. Produced(d, x, i)[2] \in domains[Produced(d, x, i)[1]]
      BY <1>6, <3>1 DEF IsNovel
    <3>3. Produced(d, x, i) \in AllAtoms
      BY <1>3, <1>7, HandlerFacts
    <3> QED BY <1>1, <1>2, <3>2, <3>3, DomainsAre
  <2> QED BY <2>1, <2>2
<1> QED BY <1>4, <1>5, <1>7

LEMMA HandlerStep ==
    ASSUME Context, SymbolsManaged, NEW F \in SUBSET AllAtoms, Pool(F), Graph(F), Progressing(F), ProcessHandler
    PROVE  Graph(F)' /\ Progressing(F)' /\ Shown' = Shown /\ layer' = layer /\ Reached \subseteq Reached'
<1>1. /\ Mode # "unreached" /\ idx <= Len(managers) /\ idx' = idx + 1
      /\ UNCHANGED <<task, config, pc, seed, managers, cache, extraction, h>>
  BY DEF ProcessHandler
<1>2. idx \in Nat \ {0} /\ \A j \in DOMAIN managers : j < idx => HandlerDone(F, j)
  BY <1>1 DEF Progressing
<1>3. Len(managers) \in Nat /\ DOMAIN managers = 1..Len(managers) /\ idx \in DOMAIN managers
  BY <1>1, <1>2, PoolFacts
<1> DEFINE c == managers[idx]
<1>4. PICK d \in HS : c = Within(d, F)
  BY <1>3, PoolFacts
<1>5. \A g \in HS : IsHandler(g) /\ IsCSP(g)
  BY ContextFacts DEF IsHandler
<1>6. HS' = HS /\ Mode' = Mode
  BY <1>1, HandlersStay, TaskFrame
<1>7. Derived(HS, F) \subseteq F
  BY DEF Pool
<1>8. (Skips(c) /\ UNCHANGED graph) \/ \E news \in Supporting(c, LayerSolutions(c)) : AddAll(news)
  BY DEF ProcessHandler
<1> HIDE DEF c
<1>9. ASSUME Graph(F)', Shown' = Shown, Reached \subseteq Reached', layer' = layer,
             \A e \in HS : c = Within(e, F) => \A x : Meets(e, x) /\ Reading(e, x) \subseteq Shown =>
                \A i \in DOMAIN e.effs : Produced(e, x, i) \in Reached'
      PROVE  Graph(F)' /\ Progressing(F)' /\ Shown' = Shown /\ layer' = layer /\ Reached \subseteq Reached'
  <2>1. \A j \in DOMAIN managers : j < idx => HandlerDone(F, j)'
    BY <1>1, <1>2, <1>6, <1>9 DEF HandlerDone
  <2>2. \A j : j = idx => HandlerDone(F, j)'
    BY <1>1, <1>6, <1>9 DEF HandlerDone, c
  <2>3. \A j \in DOMAIN managers : j < idx + 1 => HandlerDone(F, j)'
    BY <1>2, <1>3, <2>1, <2>2
  <2>4. (\A j \in DOMAIN managers : j < idx => HandlerDone(F, j))'
    BY <1>1, <2>3
  <2>5. (idx \in Nat \ {0})' /\ (Mode # "unreached")'
    BY <1>1, <1>2, <1>6
  <2> QED BY <1>9, <2>4, <2>5 DEF Progressing
<1>10. CASE Skips(c) /\ UNCHANGED graph
  <2>1. Graph(F)' /\ Shown' = Shown /\ Reached' = Reached /\ layer' = layer
    BY <1>1, <1>10, GraphFrame DEF graph
  <2>2. ASSUME NEW e \in HS, c = Within(e, F), NEW x, NEW i \in DOMAIN e.effs PROVE Produced(e, x, i) \in Reached'
    <3>1. Mode = "smart" /\ HasFixedAtom(c) /\ FixedAtom(c) \in Reached
      BY <1>10 DEF Skips, Reached
    <3>2. DOMAIN e.effs = {1} /\ IsStateVar(e.bound, e.effs[1].lhs)
      BY <3>1, ContextFacts, HandlersTyped
    <3>3. c.effs = e.effs /\ \A y, t : VarIn(c, y, t) = VarIn(e, y, t)
      BY <1>5, <2>2, ConfinedFacts
    <3>4. HasFixedAtom(e) /\ FixedAtom(c) = FixedAtom(e)
      BY <3>1, <3>3 DEF HasFixedAtom, FixedAtom
    <3>5. Produced(e, x, 1) = FixedAtom(e)
      BY <1>5, <3>2, <3>4, FixedIs
    <3> QED BY <2>1, <3>1, <3>2, <3>4, <3>5
  <2> QED BY <1>9, <2>1, <2>2
<1>11. ASSUME NEW news \in Supporting(c, LayerSolutions(c)), AddAll(news)
       PROVE  Graph(F)' /\ Progressing(F)' /\ Shown' = Shown /\ layer' = layer /\ Reached \subseteq Reached'
  <2> DEFINE X == LayerSolutions(c)
             atoms == (UNION {{Produced(c, x, i) : i \in DOMAIN c.effs} : x \in X}) \ Reached
  <2>1. /\ DOMAIN news = atoms
        /\ \A a \in atoms : \E p \in {q \in X \X DOMAIN c.effs : Produced(c, q[1], q[2]) = a} :
               \E R \in SupportsOf(c, p[1], p[2]) : news[a] = Reaching(layer, ActionOf(c, p[1]), R)
    <3> DEFINE from(a) == {q \in X \X DOMAIN c.effs : Produced(c, q[1], q[2]) = a}
               by(p) == {Reaching(layer, ActionOf(c, p[1]), R) : R \in SupportsOf(c, p[1], p[2])}
               ways(a) == UNION {by(p) : p \in from(a)}
    <3>1. news \in [atoms -> UNION {ways(a) : a \in atoms}] /\ \A a \in atoms : news[a] \in ways(a)
      BY <1>11 DEF Supporting, Reached
    <3> HIDE DEF atoms, X
    <3>2. DOMAIN news = atoms
      <4> HIDE DEF ways
      <4> QED BY <3>1
    <3>3. ASSUME NEW a \in atoms PROVE \E p \in from(a) : \E R \in SupportsOf(c, p[1], p[2]) : news[a] = Reaching(layer, ActionOf(c, p[1]), R)
      <4> HIDE DEF from, by
      <4>1. PICK p \in from(a) : news[a] \in by(p)
        BY <3>1
      <4> QED BY <4>1 DEF by
    <3> QED BY <3>2, <3>3
  <2>2. \A x \in X : \A i \in DOMAIN c.effs : Produced(c, x, i) \in atoms \cup Reached
    OBVIOUS
  <2>3. \A a \in atoms : a \notin Reached
    OBVIOUS
  <2> HIDE DEF atoms, X
  <2>4. /\ c.effs = d.effs
        /\ \A x : ActionOf(c, x) = ActionOf(d, x)
        /\ \A x, i : Produced(c, x, i) = Produced(d, x, i) /\ SupportsOf(c, x, i) = SupportsOf(d, x, i)
    BY <1>4, <1>5, ConfinedFacts DEF SupportsOf
  <2>5. ASSUME NEW a \in DOMAIN news PROVE \E e \in HS : \E x : \E i : Supports(e, x, i, a, news[a])
    <3>1. PICK p \in {q \in X \X DOMAIN c.effs : Produced(c, q[1], q[2]) = a} :
               \E R \in SupportsOf(c, p[1], p[2]) : news[a] = Reaching(layer, ActionOf(c, p[1]), R)
      BY <2>1
    <3>2. p[1] \in X /\ p[2] \in DOMAIN c.effs /\ Produced(c, p[1], p[2]) = a
      BY <3>1
    <3>3. Meets(d, p[1]) /\ (\A t \in d.nullary : AtomIn(d, p[1], t) \in Reached)
          /\ (\A t \in d.looked : AtomIn(d, p[1], t) \in Shown)
      BY <1>4, <3>2, LayerSolutionFacts DEF X
    <3>4. Supports(d, p[1], p[2], a, news[a])
      BY <2>4, <3>1, <3>2, <3>3 DEF Supports
    <3> QED BY <3>4
  <2>6. Graph(F)' /\ Shown' = Shown /\ Reached' = Reached \cup DOMAIN news /\ layer' = layer
    BY <1>1, <1>7, <1>11, <2>1, <2>3, <2>5, GrowGraph
  <2>7. ASSUME NEW e \in HS, c = Within(e, F), NEW x, Meets(e, x), Reading(e, x) \subseteq Shown, NEW i \in DOMAIN e.effs
        PROVE  Produced(e, x, i) \in Reached'
    <3>1. x \in X \/ Produced(e, x, i) \in Shown
      BY <2>7, LayerSolutionFacts DEF X
    <3>2. c.effs = e.effs /\ Produced(c, x, i) = Produced(e, x, i)
      BY <1>5, <2>7, ConfinedFacts
    <3>3. CASE x \in X
      BY <2>1, <2>2, <2>6, <3>2, <3>3
    <3>4. CASE Produced(e, x, i) \in Shown
      BY <2>6, <3>4 DEF Shown
    <3> QED BY <3>1, <3>3, <3>4
  <2>8. Reached \subseteq Reached'
    BY <2>6
  <2> QED BY <1>9, <2>6, <2>7, <2>8
<1> QED BY <1>8, <1>10, <1>11

-----------------------------------------------------------------------------
(***************************************************************************)
(* One atom, in the heuristic that looks for unreached atoms.              *)
(***************************************************************************)
\* A set of indices has a least one.
LEMMA LeastIndex ==
    ASSUME NEW T \in SUBSET Nat, T # {}
    PROVE  \E m \in T : \A k \in T : m <= k
<1> SUFFICES ASSUME \A m \in T : \E k \in T : ~(m <= k) PROVE FALSE
  OBVIOUS
<1> DEFINE N == {n \in Nat : \A k \in T : n <= k}
<1>1. 0 \in N
  OBVIOUS
<1>2. ASSUME NEW n \in N PROVE n + 1 \in N
  <2>1. n \notin T
    BY <1>2
  <2>2. \A k \in T : n <= k /\ k # n
    BY <1>2, <2>1
  <2>3. \A k \in T : n + 1 <= k
    BY <1>2, <2>2
  <2> QED BY <1>2, <2>3
<1>3. N \in SUBSET Nat
  OBVIOUS
<1> HIDE DEF N
<1>4. N = Nat
  BY <1>1, <1>2, <1>3, Induction
<1>5. PICK k \in T : TRUE
  OBVIOUS
<1>6. k + 1 \in N /\ k \in Nat
  BY <1>4
<1> QED BY <1>5, <1>6 DEF N

LEMMA AtomSequenceFacts ==
    /\ Len(AtomSequence) \in Nat /\ DOMAIN AtomSequence = 1..Len(AtomSequence)
    /\ \A j \in DOMAIN AtomSequence : AtomSequence[j] \in AllAtoms
    /\ \A a \in AllAtoms : \E j \in DOMAIN AtomSequence : AtomSequence[j] = a
<1>1. AtomSequence \in Seq(AllAtoms) /\ ToSet(AtomSequence) = AllAtoms
  BY AllAtomsFinite, OrderedFacts DEF AtomSequence
<1>2. Len(AtomSequence) \in Nat /\ DOMAIN AtomSequence = 1..Len(AtomSequence)
  BY <1>1, LenProperties
<1> QED BY <1>1, <1>2 DEF ToSet

\* Without reachability analysis nothing is confined.
LEMMA FreeManagers ==
    ASSUME Context, NEW F \in SUBSET AllAtoms, Pool(F), F = AllAtoms
    PROVE  /\ \A i \in DOMAIN managers : managers[i] \in HS
           /\ \A c \in HS : Within(c, F) = c
           /\ \A c \in HS : \A x : Meets(c, x) /\ Reading(c, x) \subseteq F => \E i \in DOMAIN managers : managers[i] = c
<1>1. \A c \in HS : IsCSP(c)
  BY ContextFacts DEF IsHandler
<1>2. \A c \in HS : Within(c, F) = c
  BY <1>1, CSPFacts
<1>3. \A i \in DOMAIN managers : \E c \in HS : managers[i] = Within(c, F)
  BY PoolFacts
<1>4. ASSUME NEW c \in HS, NEW x, Meets(c, x), Reading(c, x) \subseteq F
      PROVE  \E i \in DOMAIN managers : managers[i] = c
  <2>1. x \in Solutions(c, ViewOf(F))
    BY <1>1, <1>4, CSPFacts
  <2> QED BY <1>2, <2>1 DEF Pool
<1> QED BY <1>2, <1>3, <1>4

LEMMA AtomStep ==
    ASSUME Context, SymbolsManaged, NEW F \in SUBSET AllAtoms, Pool(F), Graph(F), Progressing(F), ProcessAtom
    PROVE  Graph(F)' /\ Progressing(F)' /\ Shown' = Shown /\ layer' = layer /\ Reached \subseteq Reached'
<1> DEFINE a == AtomSequence[idx]
<1>1. /\ Mode = "unreached" /\ idx <= Len(AtomSequence) /\ idx' = idx + 1
      /\ UNCHANGED <<task, config, pc, seed, managers, extraction, h>>
      /\ IF a \in Reached THEN UNCHANGED <<graph, cache>>
         ELSE /\ cache' = [i \in DOMAIN cache |-> IF i \in Tried(a) THEN Instantiated(i) ELSE cache[i]]
              /\ IF FirstAchiever(a) = {} THEN UNCHANGED graph
                 ELSE \E i \in FirstAchiever(a) : \E x \in LayerSolutions(managers[i]) :
                        /\ Produced(managers[i], x, 1) = a
                        /\ AddAll([b \in {a} |-> Reaching(layer, ActionOf(managers[i], x), EffectSupport(managers[i], x, 1))])
  BY DEF ProcessAtom, Reached
<1>2. /\ idx \in Nat \ {0} /\ \A j \in DOMAIN AtomSequence : j < idx => AtomDone(AtomSequence[j])
      /\ cache = [i \in DOMAIN managers |-> cache[i]]
      /\ \A i \in DOMAIN managers : cache[i] \in {"none", "ok", "failed"}
      /\ \A i \in DOMAIN managers : \A c \in HS : managers[i] = c /\ cache[i] = "failed" =>
                  ~\E x : Meets(c, x) /\ Reading(c, x) \subseteq Shown
  BY <1>1 DEF Progressing
<1>3. idx \in DOMAIN AtomSequence /\ a \in AllAtoms
  BY <1>1, <1>2, AtomSequenceFacts
<1>4. (\A c \in HS : IsHandler(c) /\ IsCSP(c) /\ DOMAIN c.effs = {1}) /\ ~config.reachability
  BY <1>1, ContextFacts, HandlersTyped DEF IsHandler
<1>5. F = AllAtoms /\ Derived(HS, F) \subseteq F
  BY <1>4 DEF Pool
<1>6. HS' = HS /\ Mode' = Mode /\ AtomSequence' = AtomSequence
  BY <1>1, HandlersStay, TaskFrame DEF AtomSequence
<1>7. Reached \subseteq F /\ Shown \subseteq Reached
  BY DEF Graph, Shown
<1>8. /\ \A i \in DOMAIN managers : managers[i] \in HS /\ Within(managers[i], F) = managers[i]
      /\ \A c \in HS : \A x : Meets(c, x) /\ Reading(c, x) \subseteq F => \E i \in DOMAIN managers : managers[i] = c
  BY <1>5, FreeManagers
<1>9. \A i \in DOMAIN managers : \A x : Meets(managers[i], x) /\ Reading(managers[i], x) \subseteq Shown =>
         /\ NullaryTrue(managers[i], CurrentView)
         /\ x \in LayerSolutions(managers[i]) \/ Produced(managers[i], x, 1) \in Shown
  <2> SUFFICES ASSUME NEW i \in DOMAIN managers, NEW x, Meets(managers[i], x), Reading(managers[i], x) \subseteq Shown
               PROVE  /\ NullaryTrue(managers[i], CurrentView)
                      /\ x \in LayerSolutions(managers[i]) \/ Produced(managers[i], x, 1) \in Shown
    OBVIOUS
  <2> DEFINE c == managers[i]
  <2>1. c \in HS /\ c = Within(c, F) /\ 1 \in DOMAIN c.effs
    BY <1>4, <1>8
  <2> HIDE DEF c
  <2>2. Meets(c, x) /\ Reading(c, x) \subseteq Shown
    BY DEF c
  <2>3. x \in Solutions(c, CurrentView) /\ (x \in LayerSolutions(c) \/ \A k \in DOMAIN c.effs : Produced(c, x, k) \in Shown)
    BY <2>1, <2>2, LayerSolutionFacts
  <2>4. NullaryTrue(c, CurrentView)
    BY <2>3 DEF Solutions
  <2> QED BY <2>1, <2>3, <2>4 DEF c
<1>10. \A i \in DOMAIN managers : Instantiated(i) \in {"ok", "failed"}
        /\ (Instantiated(i) = "failed" => ~\E x : Meets(managers[i], x) /\ Reading(managers[i], x) \subseteq Shown)
  BY <1>2, <1>8, <1>9 DEF Instantiated
<1> HIDE DEF a
<1>11. /\ cache' = [i \in DOMAIN managers |-> cache'[i]]
       /\ \A i \in DOMAIN managers : cache'[i] \in {"none", "ok", "failed"}
       /\ \A i \in DOMAIN managers : cache'[i] = "failed" =>
             ~\E x : Meets(managers[i], x) /\ Reading(managers[i], x) \subseteq Shown
  <2>1. CASE a \in Reached
    <3>1. cache' = cache
      BY <1>1, <2>1
    <3> QED BY <1>2, <1>8, <3>1
  <2>2. CASE a \notin Reached
    <3> DEFINE new == [i \in DOMAIN managers |-> IF i \in Tried(a) THEN Instantiated(i) ELSE cache[i]]
    <3>1. cache' = [i \in DOMAIN cache |-> IF i \in Tried(a) THEN Instantiated(i) ELSE cache[i]]
      BY <1>1, <2>2
    <3>2. DOMAIN cache = DOMAIN managers
      BY <1>2
    <3>3. cache' = [i \in DOMAIN managers |-> IF i \in Tried(a) THEN Instantiated(i) ELSE cache[i]]
      BY <3>1, <3>2
    <3>4. cache' = [i \in DOMAIN managers |-> cache'[i]]
      BY <3>3
    <3>5. \A i \in DOMAIN managers : cache'[i] = Instantiated(i) \/ cache'[i] = cache[i]
      BY <3>3
    <3> QED BY <1>2, <1>8, <1>10, <3>4, <3>5
  <2> QED BY <2>1, <2>2
<1>12. ASSUME Graph(F)', Shown' = Shown, Reached \subseteq Reached', layer' = layer,
              a \in Derived(HS, Shown) => a \in Reached'
       PROVE  Graph(F)' /\ Progressing(F)' /\ Shown' = Shown /\ layer' = layer /\ Reached \subseteq Reached'
  <2>1. \A j \in DOMAIN AtomSequence : j < idx + 1 /\ AtomSequence[j] \in Derived(HS, Shown) => AtomSequence[j] \in Reached'
    <3> SUFFICES ASSUME NEW j \in DOMAIN AtomSequence, j < idx + 1, AtomSequence[j] \in Derived(HS, Shown)
                 PROVE  AtomSequence[j] \in Reached'
      OBVIOUS
    <3>1. j \in Nat
      BY AtomSequenceFacts
    <3>2. j = idx \/ j < idx
      BY <1>2, <3>1
    <3>3. CASE j = idx
      BY <1>12, <3>3 DEF a
    <3>4. CASE j < idx
      BY <1>2, <1>12, <3>4 DEF AtomDone
    <3> QED BY <3>2, <3>3, <3>4
  <2>2. (\A j \in DOMAIN AtomSequence : j < idx => AtomDone(AtomSequence[j]))'
    BY <1>1, <1>6, <1>12, <2>1 DEF AtomDone
  <2>3. (cache = [i \in DOMAIN managers |-> cache[i]])' /\ (\A i \in DOMAIN managers : cache[i] \in {"none", "ok", "failed"})'
    BY <1>1, <1>11
  <2>4. (\A i \in DOMAIN managers : \A c \in HS : managers[i] = c /\ cache[i] = "failed" =>
            ~\E x : Meets(c, x) /\ Reading(c, x) \subseteq Shown)'
    BY <1>1, <1>6, <1>11, <1>12
  <2>5. (idx \in Nat \ {0})' /\ (Mode = "unreached")'
    BY <1>1, <1>2, <1>6
  <2> QED BY <1>12, <2>2, <2>3, <2>4, <2>5 DEF Progressing
<1>13. CASE UNCHANGED graph
  <2>1. Graph(F)' /\ Shown' = Shown /\ Reached' = Reached /\ layer' = layer
    BY <1>1, <1>13, GraphFrame DEF graph
  <2>2. ASSUME a \in Derived(HS, Shown), a \notin Reached PROVE FALSE
    <3>1. FirstAchiever(a) = {} \/ \E i \in FirstAchiever(a) : \E news : AddAll(news) /\ a \in DOMAIN news
      <4>1. \A w : a \in DOMAIN [b \in {a} |-> w]
        OBVIOUS
      <4> QED BY <1>1, <2>2, <4>1
    <3>2. \A news : AddAll(news) /\ a \in DOMAIN news => a \in Reached'
      BY DEF AddAll, Reached
    <3>3. FirstAchiever(a) = {}
      BY <2>1, <2>2, <3>1, <3>2
    <3> DEFINE T == {i \in Achievers(a) : Achieves(i, a)}
    <3>4. T = {}
      <4> SUFFICES ASSUME T # {} PROVE FALSE
        OBVIOUS
      <4>1. T \in SUBSET Nat /\ Achievers(a) \subseteq Nat
        BY PoolFacts DEF Achievers
      <4>2. PICK m \in T : \A k \in T : m <= k
        <5> HIDE DEF T
        <5> QED BY <4>1, LeastIndex
      <4>3. \A j \in Achievers(a) : j < m => ~Achieves(j, a)
        BY <4>1, <4>2
      <4>4. m \in FirstAchiever(a)
        BY <4>2, <4>3 DEF FirstAchiever
      <4> QED BY <3>3, <4>4
    <3>5. Shown \in SUBSET AllAtoms /\ \A c \in HS : IsHandler(c)
      BY <1>4, <1>7
    <3> HIDE DEF T
    <3>14. \A p \in Derived(HS, Shown) : p \in Shown \/ \E c \in HS : \E x : \E i \in DOMAIN c.effs :
             Meets(c, x) /\ Reading(c, x) \subseteq Shown /\ p = Produced(c, x, i)
      BY <3>5, DerivedFacts
    <3>6. a \in Shown \/ \E c \in HS : \E x : \E i \in DOMAIN c.effs :
             Meets(c, x) /\ Reading(c, x) \subseteq Shown /\ a = Produced(c, x, i)
      BY <2>2, <3>14
    <3>7. PICK c \in HS : \E x : \E i \in DOMAIN c.effs : Meets(c, x) /\ Reading(c, x) \subseteq Shown /\ a = Produced(c, x, i)
      BY <1>7, <2>2, <3>6
    <3>8. PICK x : Meets(c, x) /\ Reading(c, x) \subseteq Shown /\ a = Produced(c, x, 1)
      BY <1>4, <3>7
    <3>9. PICK i \in DOMAIN managers : managers[i] = c
      BY <1>7, <1>8, <3>8
    <3>10. i \in Achievers(a)
      BY <3>8, <3>9, AffectedIs DEF Achievers
    <3>11. Instantiated(i) = "ok"
      BY <1>10, <3>8, <3>9
    <3>12. x \in LayerSolutions(managers[i])
      BY <1>7, <1>9, <2>2, <3>8, <3>9
    <3>13. i \in T
      BY <3>8, <3>9, <3>10, <3>11, <3>12 DEF Achieves, T
    <3> QED BY <3>4, <3>13
  <2>3. a \in Derived(HS, Shown) => a \in Reached'
    BY <2>1, <2>2
  <2> QED BY <1>12, <2>1, <2>3
<1>14. ASSUME ~UNCHANGED graph PROVE Graph(F)' /\ Progressing(F)' /\ Shown' = Shown /\ layer' = layer /\ Reached \subseteq Reached'
  <2>1. a \notin Reached /\ \E i \in FirstAchiever(a) : \E x \in LayerSolutions(managers[i]) :
             /\ Produced(managers[i], x, 1) = a
             /\ AddAll([b \in {a} |-> Reaching(layer, ActionOf(managers[i], x), EffectSupport(managers[i], x, 1))])
    BY <1>1, <1>14
  <2>11. PICK i \in FirstAchiever(a) : \E x \in LayerSolutions(managers[i]) :
             /\ Produced(managers[i], x, 1) = a
             /\ AddAll([b \in {a} |-> Reaching(layer, ActionOf(managers[i], x), EffectSupport(managers[i], x, 1))])
    BY <2>1
  <2>2. PICK x \in LayerSolutions(managers[i]) :
             /\ Produced(managers[i], x, 1) = a
             /\ AddAll([b \in {a} |-> Reaching(layer, ActionOf(managers[i], x), EffectSupport(managers[i], x, 1))])
    BY <2>11
  <2> DEFINE c == managers[i]
             w == Reaching(layer, ActionOf(c, x), EffectSupport(c, x, 1))
             news == [b \in {a} |-> w]
  <2>3. i \in DOMAIN managers
    BY <2>2 DEF FirstAchiever, Achievers
  <2>4. c \in HS /\ c = Within(c, F) /\ 1 \in DOMAIN c.effs
    BY <1>4, <1>8, <2>3
  <2>5. DOMAIN news = {a} /\ news[a] = w
    OBVIOUS
  <2>6. AddAll(news) /\ x \in LayerSolutions(c) /\ Produced(c, x, 1) = a
    BY <2>2
  <2> HIDE DEF news, c
  <2>7. Supports(c, x, 1, a, news[a])
    <3>1. Meets(c, x) /\ (\A t \in c.nullary : AtomIn(c, x, t) \in Reached) /\ (\A t \in c.looked : AtomIn(c, x, t) \in Shown)
      BY <2>4, <2>6, LayerSolutionFacts
    <3>2. EffectSupport(c, x, 1) \in SupportsOf(c, x, 1)
      BY <1>1 DEF SupportsOf
    <3> QED BY <2>4, <2>5, <2>6, <3>1, <3>2 DEF Supports
  <2>8. \A b \in DOMAIN news : \E d \in HS : \E y : \E k : Supports(d, y, k, b, news[b])
    BY <2>4, <2>5, <2>7
  <2>9. Graph(F)' /\ Shown' = Shown /\ Reached' = Reached \cup DOMAIN news /\ layer' = layer
    BY <1>1, <1>5, <2>1, <2>5, <2>6, <2>8, GrowGraph
  <2>10. Reached \subseteq Reached' /\ a \in Reached'
    BY <2>5, <2>9
  <2> QED BY <1>12, <2>9, <2>10
<1> QED BY <1>13, <1>14

-----------------------------------------------------------------------------
(***************************************************************************)
(* The end of a layer.                                                     *)
(***************************************************************************)
\* A processed layer is complete.
LEMMA LayerDone ==
    ASSUME Context, NEW F \in SUBSET AllAtoms, Pool(F), Graph(F), Progressing(F), LayerProcessed
    PROVE  Derived(HS, Shown) \subseteq Reached
<1>1. \A c \in HS : IsHandler(c) /\ IsCSP(c)
  BY ContextFacts DEF IsHandler
<1>2. Shown \subseteq Reached /\ Reached \subseteq F /\ Shown \in SUBSET AllAtoms
  BY DEF Graph, Shown
<1>3. \A p \in Derived(HS, Shown) : p \in Shown \/ \E c \in HS : \E x : \E i \in DOMAIN c.effs :
             Meets(c, x) /\ Reading(c, x) \subseteq Shown /\ p = Produced(c, x, i)
  <2>1. \A c \in HS : IsHandler(c)
    BY <1>1
  <2> QED BY <1>2, <2>1, DerivedFacts
<1>4. Derived(HS, Shown) \in SUBSET AllAtoms
  <2>1. \A c \in HS : IsHandler(c)
    BY <1>1
  <2> QED BY <1>2, <2>1, DerivedFacts
<1> SUFFICES ASSUME NEW p \in Derived(HS, Shown), p \notin Shown PROVE p \in Reached
  BY <1>2
<1>5. CASE Mode = "unreached"
  <2>1. PICK j \in DOMAIN AtomSequence : AtomSequence[j] = p
    BY <1>4, AtomSequenceFacts
  <2>2. j < idx
    BY <1>5, AtomSequenceFacts DEF LayerProcessed, Progressing
  <2>3. AtomDone(AtomSequence[j])
    BY <1>5, <2>2 DEF Progressing
  <2> QED BY <2>1, <2>3 DEF AtomDone
<1>6. CASE Mode # "unreached"
  <2>1. PICK c \in HS : \E x : \E i \in DOMAIN c.effs : Meets(c, x) /\ Reading(c, x) \subseteq Shown /\ p = Produced(c, x, i)
    BY <1>3
  <2>2. PICK x : \E i \in DOMAIN c.effs : Meets(c, x) /\ Reading(c, x) \subseteq Shown /\ p = Produced(c, x, i)
    BY <2>1
  <2>3. Reading(c, x) \subseteq F
    BY <1>2, <2>2
  <2>4. x \in Solutions(c, ViewOf(F))
    BY <1>1, <2>2, <2>3, CSPFacts
  <2>5. PICK j \in DOMAIN managers : managers[j] = Within(c, F)
    BY <2>4 DEF Pool
  <2>6. j < idx
    BY <1>6, PoolFacts DEF LayerProcessed, Progressing
  <2>7. HandlerDone(F, j)
    BY <1>6, <2>6 DEF Progressing
  <2> QED BY <2>2, <2>5, <2>7 DEF HandlerDone
<1> QED BY <1>5, <1>6

LEMMA NothingNovel ==
    ASSUME NEW F, Graph(F), novel = {}
    PROVE  Shown = Reached
BY DEF Graph, Layers, Shown

\* At the beginning of a layer nothing is derived yet.
LEMMA FreshProgress ==
    ASSUME NEW F, Pool(F)', idx' = 1, cache' = [i \in DOMAIN managers' |-> "none"]
    PROVE  Progressing(F)'
<1>1. DOMAIN managers' \subseteq Nat \ {0}
  <2>1. PICK ms, X : ms = managers' /\ X = {Within(c, F) : c \in HS'} /\ ms \in Seq(X)
    BY DEF Pool
  <2>2. DOMAIN ms = 1..Len(ms) /\ Len(ms) \in Nat
    BY <2>1, LenProperties
  <2> QED BY <2>1, <2>2
<1>2. DOMAIN AtomSequence \subseteq Nat \ {0} /\ AtomSequence' = AtomSequence
  BY AtomSequenceFacts DEF AtomSequence
<1>3. (idx \in Nat \ {0})' /\ \A j \in Nat \ {0} : ~(j < idx')
  OBVIOUS
<1>4. (\A j \in DOMAIN AtomSequence : j < idx => AtomDone(AtomSequence[j]))'
  <2>1. \A j \in (DOMAIN AtomSequence)' : ~(j < idx')
    BY <1>2, <1>3
  <2> QED BY <2>1
<1>5. (\A j \in DOMAIN managers : j < idx => HandlerDone(F, j))'
  <2>1. \A j \in DOMAIN managers' : ~(j < idx')
    BY <1>1, <1>3
  <2> QED BY <2>1
<1>6. \A i \in DOMAIN managers' : cache'[i] = "none"
  OBVIOUS
<1>7. (cache = [i \in DOMAIN managers |-> cache[i]])'
  OBVIOUS
<1>8. (\A i \in DOMAIN managers : cache[i] \in {"none", "ok", "failed"})'
      /\ (\A i \in DOMAIN managers : \A c \in HS : managers[i] = c /\ cache[i] = "failed" =>
            ~\E x : Meets(c, x) /\ Reading(c, x) \subseteq Shown)'
  BY <1>6
<1> QED BY <1>3, <1>4, <1>5, <1>7, <1>8 DEF Progressing

LEMMA NextLayerStep ==
    ASSUME Context, SymbolsManaged, NEW F \in SUBSET AllAtoms, Building(F), NextLayer, pc # "done" => h = 0
    PROVE  Building(F)'
<1>1. pc = "layer" /\ LayerProcessed /\ h = 0 /\ UNCHANGED <<task, config, seed, managers, extraction>>
  BY DEF NextLayer
<1>2. Pool(F) /\ AtomsOf(seed) \subseteq F /\ Graph(F) /\ Progressing(F) /\ ~Satisfied(task.goal, seed)
      /\ (layer > 1 => NoGoalIn(Shown))
  BY <1>1 DEF Building, HasGraph
<1>3. Derived(HS, Shown) \subseteq Reached
  BY <1>1, <1>2, LayerDone
<1>4. Pool(F)' /\ (AtomsOf(seed) \subseteq F)' /\ ~Satisfied(task.goal, seed)'
  BY <1>1, <1>2, PoolFrame, TaskFrame
<1>5. HS' = HS /\ \A A : NoGoalIn(A)' = NoGoalIn(A)
  BY <1>1, HandlersStay, TaskFrame
<1>6. CASE novel = {}
  <2>1. pc' = "done" /\ h' = -1 /\ UNCHANGED <<graph, idx, cache>>
    BY <1>6 DEF NextLayer
  <2>2. Graph(F)' /\ Reached' = Reached /\ UNCHANGED <<novel, layer>>
    BY <1>1, <1>2, <2>1, GraphFrame DEF graph
  <2>3. Shown = Reached
    BY <1>2, <1>6, NothingNovel
  <2>4. (Derived(HS, Reached) \subseteq Reached)' /\ (layer > 1 => NoGoalIn(Reached))'
    BY <1>2, <1>3, <1>5, <2>2, <2>3
  <2> QED BY <1>4, <1>6, <2>1, <2>2, <2>4 DEF Building
<1>7. CASE novel # {}
  <2>1. pc' = "goal" /\ AdvanceGraph /\ idx' = 1 /\ cache' = FreshCache /\ h' = 0
    BY <1>1, <1>7 DEF NextLayer
  <2>2. Graph(F)' /\ novel' = {}
    BY <1>1, <1>2, <1>3, <2>1, AdvanceFacts
  <2>3. cache' = [i \in DOMAIN managers' |-> "none"]
    BY <1>1, <2>1 DEF FreshCache
  <2>4. Progressing(F)'
    BY <1>4, <2>1, <2>3, FreshProgress
  <2> QED BY <1>4, <2>1, <2>2, <2>4 DEF Building
<1> QED BY <1>6, <1>7

\* The handlers are confined to the full graph, which is closed under them.
LEMMA FullLayerStep ==
    ASSUME Context, SymbolsManaged, NEW F \in SUBSET AllAtoms, Building(F), FullLayer, seed = task.init, config.reachability
    PROVE  \E G \in SUBSET AllAtoms : Building(G)'
<1>1. pc = "full" /\ LayerProcessed /\ idx' = 1 /\ cache' = [i \in DOMAIN managers' |-> "none"]
      /\ UNCHANGED <<task, config, seed, extraction, h>>
  BY DEF FullLayer, NewLayer
<1>2. Pool(F) /\ AtomsOf(seed) \subseteq F /\ Graph(F) /\ Progressing(F) /\ F = AllAtoms
  BY <1>1 DEF Building, HasGraph
<1>3. Derived(HS, Shown) \subseteq Reached
  BY <1>1, <1>2, LayerDone
<1>4. HS' = HS
  BY <1>1, HandlersStay
<1>5. CASE novel # {}
  <2>1. pc' = "full" /\ AdvanceGraph /\ UNCHANGED managers
    BY <1>5 DEF FullLayer
  <2>2. Graph(F)'
    BY <1>1, <1>2, <1>3, <2>1, AdvanceFacts
  <2>3. Pool(F)' /\ (AtomsOf(seed) \subseteq F)'
    BY <1>1, <1>2, <2>1, PoolFrame
  <2>4. Progressing(F)'
    BY <1>1, <2>3, FreshProgress
  <2>5. Building(F)'
    BY <1>2, <2>1, <2>2, <2>3, <2>4 DEF Building
  <2> QED BY <2>5
<1>6. CASE novel = {}
  <2>1. pc' = "evaluate" /\ UNCHANGED graph /\ managers' = PruneUnreachable(managers)
    BY <1>6 DEF FullLayer
  <2>2. Shown = Reached /\ Reached \in SUBSET AllAtoms /\ AtomsOf(task.init) \subseteq Reached
        /\ domains = DomainsOf(Reached) /\ extension = Managed(Reached)
    BY <1>2, <1>6, NothingNovel DEF Graph, Layers
  <2>3. \A c \in HS : IsCSP(c)
    BY ContextFacts DEF IsHandler
  <2>4. \A c \in HS : Within(c, F) = c
    BY <1>2, <2>3, CSPFacts
  <2>5. {Within(c, F) : c \in HS} = HS
    BY <2>4
  <2>6. managers \in Seq(HS)
    BY <1>2, <2>5 DEF Pool
  <2>7. /\ managers' \in Seq({Confined(c) : c \in HS})
        /\ ToSet(managers') = {Confined(c) : c \in {d \in ToSet(managers) : ~Dead(d)}}
    BY <2>1, <2>6, PruneFacts
  <2>8. \A c : Confined(c) = Within(c, Reached)
    BY DEF Confined, Within, Reached
  <2>9. managers' \in Seq({Within(c, Reached) : c \in HS})
    <3>1. {Confined(c) : c \in HS} = {Within(c, Reached) : c \in HS}
      BY <2>8
    <3> QED BY <2>7, <3>1
  <2>10. ASSUME NEW c \in HS, Solutions(c, ViewOf(Reached)) # {}
         PROVE  \E i \in DOMAIN managers' : managers'[i] = Within(c, Reached)
    <3>1. PICK x : x \in Solutions(c, ViewOf(Reached))
      BY <2>10
    <3>2. Meets(c, x) /\ Reading(c, x) \subseteq Reached
      BY <2>2, <2>3, <3>1, CSPFacts
    <3>3. \E i \in DOMAIN managers : managers[i] = c
      BY <1>2, <2>2, <3>2, FreeManagers
    <3>4. c \in ToSet(managers)
      BY <3>3 DEF ToSet
    <3>5. /\ Meets(c, x) /\ (\A t \in c.nullary : AtomIn(c, x, t) \in Reached)
          /\ (\A t \in c.looked : AtomIn(c, x, t) \in Reached \cap F)
      BY <1>2, <2>2, <3>2 DEF Reading
    <3>6. x \in Solutions(Within(c, F), CurrentView)
      BY <2>2, <3>5, NowSolutions
    <3>7. ~Dead(c)
      BY <2>4, <3>6 DEF Dead
    <3>8. Confined(c) \in ToSet(managers')
      BY <2>7, <3>4, <3>7
    <3>9. \E i \in DOMAIN managers' : managers'[i] = Confined(c)
      BY <3>8 DEF ToSet
    <3> QED BY <2>8, <3>9
  <2>12. PICK G : G = Reached
    OBVIOUS
  <2>11. AtomsOf(task.init) \subseteq G /\ Derived(HS, G) \subseteq G /\ config.reachability
    BY <1>3, <2>2, <2>12
  <2>13. Pool(G)'
    BY <1>1, <1>4, <2>9, <2>10, <2>11, <2>12 DEF Pool
  <2>14. (AtomsOf(seed) \subseteq G)'
    BY <1>1, <2>11
  <2>15. Building(G)'
    BY <2>1, <2>13, <2>14 DEF Building, HasGraph
  <2>16. G \in SUBSET AllAtoms
    BY <2>2, <2>12
  <2> QED BY <2>15, <2>16
<1> QED BY <1>5, <1>6

-----------------------------------------------------------------------------
(***************************************************************************)
(* The invariant holds.                                                    *)
(***************************************************************************)
LEMMA InitBuild == Init => BuildInv
<1> SUFFICES ASSUME Init PROVE BuildInv
  OBVIOUS
<1>1. pc = "start" /\ h = 0 /\ processed = {} /\ seed = task.init /\ \E n \in Instances : task = n.task /\ config = n.config
  BY DEF Init
<1>2. StateOK(seed)
  BY <1>1, TaskFacts DEF Tasks, TaskOK
<1>3. IsFiniteSet(processed)
  BY <1>1, FS_EmptySet
<1>4. Bookkeeping
  BY <1>1, <1>2, <1>3 DEF Bookkeeping, Context
<1>5. Building(AllAtoms)
  BY <1>1 DEF Building, HasGraph
<1> QED BY <1>4, <1>5 DEF BuildInv

\* What the handlers are before any is confined.
LEMMA StartBuild ==
    ASSUME BuildInv, CreateHandlers
    PROVE  BuildInv'
<1>1. pc = "start" /\ managers' = Handlers /\ idx' = 1 /\ cache' = [i \in DOMAIN managers' |-> "none"]
      /\ UNCHANGED <<task, config, seed, extraction, h>>
      /\ IF config.reachability THEN pc' = "full" /\ NewGraph(task.init) ELSE pc' = "evaluate" /\ UNCHANGED graph
  BY DEF CreateHandlers, NewLayer
<1>2. Context /\ StateOK(seed) /\ h = 0 /\ seed = task.init /\ IsFiniteSet(processed)
  BY <1>1 DEF BuildInv, Bookkeeping
<1>3. HS' = HS /\ Context' = Context
  BY <1>1, HandlersStay
<1>4. Bookkeeping'
  <2>1. IsFiniteSet(processed)'
    BY <1>1, <1>2 DEF extraction
  <2>2. (Context /\ StateOK(seed) /\ h = 0 /\ seed = task.init)'
    BY <1>1, <1>2, <1>3
  <2>3. pc' = IF config.reachability THEN "full" ELSE "evaluate"
    BY <1>1
  <2>4. config' = config
    BY <1>1
  <2> QED BY <2>1, <2>2, <2>3, <2>4 DEF Bookkeeping
<1> DEFINE F == AllAtoms
<1>5. /\ TaskGood(task) /\ Mode \in Modes /\ (config.reachability => Mode = "smart")
      /\ \A c \in HS : IsHandler(c) /\ IsCSP(c)
  BY <1>2, ContextFacts DEF IsHandler
<1>6. \A c \in HS : Within(c, F) = c
  BY <1>5, CSPFacts
<1>7. Handlers \in Seq(HS) /\ ToSet(Handlers) = HS
  BY <1>5, HandlersAll
<1>8. AtomsOf(task.init) \subseteq F /\ Derived(HS, F) \subseteq F
  <2>1. \A c \in HS : IsHandler(c)
    BY <1>5
  <2> QED BY <2>1, AtomsTyped, DerivedFacts
<1> HIDE DEF F
<1>9. Pool(F)'
  <2>1. {Within(c, F) : c \in HS} = HS
    BY <1>6
  <2>2. managers' \in Seq({Within(c, F) : c \in HS})
    BY <1>1, <1>7, <2>1
  <2>3. \A c \in HS : \E i \in DOMAIN managers' : managers'[i] = Within(c, F)
    <3> SUFFICES ASSUME NEW c \in HS PROVE \E i \in DOMAIN Handlers : Handlers[i] = c
      BY <1>1, <1>6
    <3> QED BY <1>7 DEF ToSet
  <2> QED BY <1>1, <1>3, <1>8, <2>2, <2>3 DEF Pool, F
<1>10. Building(F)'
  <2>1. (AtomsOf(seed) \subseteq F)'
    BY <1>1, <1>2, <1>8
  <2>2. CASE config.reachability
    <3>1. pc' = "full" /\ NewGraph(task.init) /\ seed' = task.init
      BY <1>1, <1>2, <2>2
    <3>2. Graph(F)'
      BY <1>1, <1>8, <3>1, SeedGraph DEF F
    <3>3. Progressing(F)'
      BY <1>1, <1>9, FreshProgress
    <3> QED BY <1>9, <2>1, <3>1, <3>2, <3>3 DEF Building, HasGraph, F
  <2>3. CASE ~config.reachability
    BY <1>1, <1>9, <2>1, <2>3 DEF Building, HasGraph
  <2> QED BY <2>2, <2>3
<1> QED BY <1>4, <1>10 DEF BuildInv, F

LEMMA SearchBuild ==
    ASSUME BuildInv, UNCHANGED <<task, evaluation>>
    PROVE  BuildInv'
<1>1. UNCHANGED <<task, config, pc, seed, managers, graph, idx, cache, extraction, h>> /\ UNCHANGED processed
  BY DEF evaluation, extraction
<1>2. HS' = HS /\ Context' = Context /\ SymbolsManaged' = SymbolsManaged /\ (\A A : NoGoalIn(A)' = NoGoalIn(A))
      /\ (\A F : Graph(F)' = Graph(F)) /\ Shown' = Shown /\ Reached' = Reached
      /\ (\A F : Pool(F)' = Pool(F)) /\ (\A F : Progressing(F)' = Progressing(F))
  <2>1. UNCHANGED <<task, config>> /\ UNCHANGED <<task, config, seed, graph>> /\ UNCHANGED <<task, config, managers>>
        /\ UNCHANGED <<task, config, seed, graph, managers, idx, cache>>
    BY <1>1
  <2> QED BY <2>1, HandlersStay, TaskFrame, GraphFrame, PoolFrame, ProgressFrame
<1>3. Bookkeeping' = Bookkeeping
  BY <1>1, <1>2 DEF Bookkeeping
<1>4. HasGraph' = HasGraph
  BY <1>1 DEF HasGraph
<1>5. UNCHANGED <<novel, layer>>
  BY <1>1 DEF graph
<1>6. \A F : Building(F) => Building(F)'
  BY <1>1, <1>2, <1>4, <1>5 DEF Building
<1> QED BY <1>2, <1>3, <1>6 DEF BuildInv

LEMMA EvaluateBuild ==
    ASSUME BuildInv, IterationInv, Evaluate
    PROVE  BuildInv'
<1>1. pc = "evaluate" /\ seed' \in Evaluable /\ idx' = 1 /\ cache' = [i \in DOMAIN managers' |-> "none"]
      /\ UNCHANGED <<task, config, managers, extraction, h>>
      /\ IF Satisfied(task.goal, seed') THEN pc' = "done" /\ UNCHANGED graph ELSE pc' = "layer" /\ NewGraph(seed')
  BY DEF Evaluate, NewLayer
<1>2. Context /\ h = 0 /\ IsFiniteSet(processed) /\ StateOK(state)
  BY <1>1 DEF BuildInv, Bookkeeping, IterationInv
<1>3. HS' = HS /\ Context' = Context /\ SymbolsManaged' = SymbolsManaged
      /\ \A s : Satisfied(task.goal, s)' = Satisfied(task.goal, s)
  BY <1>1, HandlersStay, TaskFrame
<1>4. TaskGood(task) /\ Mode \in Modes /\ (Mode # "smart" => Unconditional(task)) /\ (config.reachability => Mode = "smart")
      /\ StateOK(task.init) /\ \A c \in HS : IsHandler(c)
  BY <1>2, ContextFacts DEF TaskGood, TaskOK
\* The states that are evaluated are typed, and their atoms are in a set that
\* is closed under the handlers.
<1>5. ASSUME NEW F \in SUBSET AllAtoms, AtomsOf(task.init) \subseteq F, Derived(HS, F) \subseteq F,
             ~config.reachability => F = AllAtoms
      PROVE  StateOK(seed') /\ AtomsOf(seed') \subseteq F
  <2>1. CASE LiftedSearch
    <3>1. seed' = state /\ F = AllAtoms
      BY <1>1, <1>4, <1>5, <2>1 DEF Evaluable, LiftedSearch
    <3> QED BY <1>2, <3>1, AtomsTyped
  <2>2. CASE ~LiftedSearch
    <3>1. seed' \in ReachedFrom(task, task.init)
      BY <1>1, <2>2 DEF Evaluable
    <3> QED BY <1>4, <1>5, <3>1, RelaxationSound
  <2> QED BY <2>1, <2>2
<1>6. Bookkeeping'
  <2>1. AllAtoms \in SUBSET AllAtoms /\ AtomsOf(task.init) \subseteq AllAtoms /\ Derived(HS, AllAtoms) \subseteq AllAtoms
    BY <1>4, AtomsTyped, DerivedFacts
  <2>2. StateOK(seed')
    BY <1>5, <2>1
  <2>3. StateOK(seed)'
    BY <2>2
  <2>4. processed' = processed /\ h' = 0
    BY <1>1, <1>2 DEF extraction
  <2>5. pc' \in {"done", "layer"}
    BY <1>1
  <2> QED BY <1>2, <1>3, <2>3, <2>4, <2>5 DEF Bookkeeping
<1>7. ASSUME NEW F \in SUBSET AllAtoms, Building(F) PROVE Building(F)'
  <2>1. Pool(F)
    BY <1>1, <1>7 DEF Building
  <2>2. Pool(F)'
    BY <1>1, <2>1, PoolFrame
  <2>3. AtomsOf(seed') \subseteq F
    BY <1>5, <2>1 DEF Pool
  <2>4. (AtomsOf(seed) \subseteq F)'
    BY <2>3
  <2>5. CASE Satisfied(task.goal, seed')
    BY <1>1, <1>2, <2>2, <2>4, <2>5 DEF Building, HasGraph
  <2>6. CASE ~Satisfied(task.goal, seed')
    <3>1. pc' = "layer" /\ NewGraph(seed')
      BY <1>1, <2>6
    <3>2. PICK s : s = seed'
      OBVIOUS
    <3>3. Graph(F)' /\ layer' = 1
      BY <1>1, <2>3, <3>1, <3>2, SeedGraph
    <3>4. Progressing(F)'
      BY <1>1, <2>2, FreshProgress
    <3>5. ~Satisfied(task.goal, seed)'
      BY <1>1, <2>6
    <3> QED BY <2>2, <2>4, <3>1, <3>3, <3>4, <3>5 DEF Building
  <2> QED BY <2>5, <2>6
<1> QED BY <1>3, <1>6, <1>7 DEF BuildInv

LEMMA ProcessBuild ==
    ASSUME BuildInv, ProcessHandler \/ ProcessAtom
    PROVE  BuildInv'
<1>1. pc \in {"full", "layer"} /\ UNCHANGED <<task, config, pc, seed, managers, extraction, h>> /\ UNCHANGED processed
  BY DEF ProcessHandler, ProcessAtom, extraction
<1>2. Context' = Context /\ SymbolsManaged' = SymbolsManaged /\ (\A A : NoGoalIn(A)' = NoGoalIn(A))
      /\ (\A s : Satisfied(task.goal, s)' = Satisfied(task.goal, s)) /\ \A F : Pool(F)' = Pool(F)
  BY <1>1, HandlersStay, TaskFrame, PoolFrame
<1>3. Bookkeeping'
  BY <1>1, <1>2 DEF BuildInv, Bookkeeping
<1>4. ASSUME SymbolsManaged, NEW F \in SUBSET AllAtoms, Building(F) PROVE Building(F)'
  <2>1. Context /\ Pool(F) /\ Graph(F) /\ Progressing(F)
    BY <1>1, <1>4 DEF BuildInv, Bookkeeping, Building, HasGraph
  <2>2. Graph(F)' /\ Progressing(F)' /\ Shown' = Shown /\ layer' = layer
    BY <1>4, <2>1, HandlerStep, AtomStep
  <2>3. ~Satisfied(task.goal, seed)' = ~Satisfied(task.goal, seed)
    BY <1>1
  <2> QED BY <1>1, <1>2, <1>4, <2>2, <2>3 DEF Building, HasGraph
<1> QED BY <1>2, <1>3, <1>4 DEF BuildInv

LEMMA LayerBuild ==
    ASSUME BuildInv, NextLayer \/ FullLayer
    PROVE  BuildInv'
<1>1. UNCHANGED <<task, config, seed, extraction>> /\ UNCHANGED processed
  BY DEF NextLayer, FullLayer, extraction
<1>2. Context' = Context /\ SymbolsManaged' = SymbolsManaged
  BY <1>1, HandlersStay, TaskFrame
<1>3. Context /\ (pc # "done" => h = 0) /\ (pc = "full" => seed = task.init /\ config.reachability)
  BY DEF BuildInv, Bookkeeping
<1>4. Bookkeeping'
  <2>1. CASE NextLayer
    <3>1. pc' \in {"done", "goal"} /\ (pc' # "done" => h' = h) /\ pc = "layer"
      BY <2>1 DEF NextLayer
    <3> QED BY <1>1, <1>2, <3>1 DEF BuildInv, Bookkeeping
  <2>2. CASE FullLayer
    <3>1. pc' \in {"full", "evaluate"} /\ h' = h /\ pc = "full"
      BY <2>2 DEF FullLayer
    <3> QED BY <1>1, <1>2, <3>1 DEF BuildInv, Bookkeeping
  <2> QED BY <2>1, <2>2
<1>5. ASSUME SymbolsManaged, NEW F \in SUBSET AllAtoms, Building(F) PROVE \E G \in SUBSET AllAtoms : Building(G)'
  <2>1. CASE NextLayer
    BY <1>3, <1>5, <2>1, NextLayerStep
  <2>2. CASE FullLayer
    <3>1. pc = "full"
      BY <2>2 DEF FullLayer
    <3> QED BY <1>3, <1>5, <2>2, <3>1, FullLayerStep
  <2> QED BY <2>1, <2>2
<1> QED BY <1>2, <1>4, <1>5 DEF BuildInv

\* The goal CSP has no solution in the layer, or the plan is extracted.
LEMMA GoalBuild ==
    ASSUME BuildInv, GoalUnreached \/ GoalReached \/ ProcessTuple \/ BuildRelaxedPlan
    PROVE  BuildInv'
<1>1. UNCHANGED <<task, config, seed, managers, graph, idx, cache>>
  BY DEF GoalUnreached, GoalReached, ProcessTuple, BuildRelaxedPlan
<1>2. HS' = HS /\ Context' = Context /\ SymbolsManaged' = SymbolsManaged /\ (\A A : NoGoalIn(A)' = NoGoalIn(A))
      /\ (\A F : Graph(F)' = Graph(F)) /\ Shown' = Shown /\ Reached' = Reached
      /\ (\A F : Pool(F)' = Pool(F)) /\ (\A F : Progressing(F)' = Progressing(F))
  <2>1. UNCHANGED <<task, config>> /\ UNCHANGED <<task, config, seed, graph>> /\ UNCHANGED <<task, config, managers>>
        /\ UNCHANGED <<task, config, seed, graph, managers, idx, cache>>
    BY <1>1
  <2> QED BY <2>1, HandlersStay, TaskFrame, GraphFrame, PoolFrame, ProgressFrame
<1>3. Context /\ StateOK(seed) /\ (pc # "done" => h = 0) /\ IsFiniteSet(processed) /\ pc \in {"goal", "extract"}
  BY DEF BuildInv, Bookkeeping, GoalUnreached, GoalReached, ProcessTuple, BuildRelaxedPlan
<1>4. Cardinality(processed) \in Nat
  BY <1>3, FS_CardinalityType
<1>5. /\ pc' \in {"layer", "done", "extract"}
      /\ pc' # "done" => h' = h
      /\ pc' = "layer" => Solutions(GoalCSP, CurrentView) = {}
      /\ pc' = "done" => h' = layer \/ h' = Cardinality(processed)
      /\ processed' = processed \/ \E a : processed' = processed \cup {a}
  BY DEF GoalUnreached, GoalReached, ProcessTuple, BuildRelaxedPlan, extraction
<1>6. IsFiniteSet(processed')
  BY <1>3, <1>5, FS_AddElement
<1>7. Bookkeeping'
  <2>1. (Context /\ StateOK(seed))'
    BY <1>1, <1>2, <1>3
  <2> QED BY <1>3, <1>5, <1>6, <2>1 DEF Bookkeeping
<1>8. ASSUME SymbolsManaged, NEW F \in SUBSET AllAtoms, Building(F) PROVE Building(F)'
  <2>1. Pool(F) /\ AtomsOf(seed) \subseteq F /\ Graph(F) /\ novel = {} /\ (pc = "goal" => Progressing(F))
        /\ ~Satisfied(task.goal, seed)
    BY <1>3, <1>8 DEF Building, HasGraph
  <2>2. UNCHANGED <<novel, layer>>
    BY <1>1 DEF graph
  <2>3. layer \in Nat \ {0}
    BY <2>1 DEF Graph, Layers
  <2>4. pc' = "done" => h' # -1
    BY <1>4, <1>5, <2>3
  <2>5. pc' = "layer" => pc = "goal"
    BY <1>3, <1>5 DEF GoalUnreached, GoalReached, ProcessTuple, BuildRelaxedPlan
  <2>6. ASSUME pc' = "layer" PROVE NoGoalIn(Shown)
    <3>1. domains = DomainsOf(Shown) /\ extension = Managed(Shown) /\ Reached \subseteq F
      BY <2>1 DEF Graph, Layers
    <3>2. Shown \subseteq Reached /\ Shown \in SUBSET AllAtoms
      BY <3>1 DEF Shown
    <3>3. IsCSP(GoalCSP)
      BY <1>3, GoalFacts
    <3>4. Within(GoalCSP, AllAtoms) = GoalCSP
      BY <3>3, CSPFacts
    <3>5. ASSUME NEW x \in Solutions(GoalCSP, ViewOf(Shown)) PROVE FALSE
      <4>1. Meets(GoalCSP, x) /\ Reading(GoalCSP, x) \subseteq Shown
        BY <3>2, <3>3, CSPFacts
      <4>2. /\ Meets(GoalCSP, x) /\ (\A t \in GoalCSP.nullary : AtomIn(GoalCSP, x, t) \in Reached)
            /\ (\A t \in GoalCSP.looked : AtomIn(GoalCSP, x, t) \in Shown \cap AllAtoms)
        BY <3>2, <4>1 DEF Reading
      <4>3. x \in Solutions(Within(GoalCSP, AllAtoms), CurrentView)
        BY <1>3, <1>8, <3>1, <3>2, <4>2, NowSolutions
      <4> QED BY <1>5, <2>6, <3>4, <4>3
    <3> QED BY <3>5 DEF NoGoalIn
  <2>7. (Pool(F) /\ Graph(F) /\ novel = {} /\ AtomsOf(seed) \subseteq F /\ ~Satisfied(task.goal, seed))'
    BY <1>1, <1>2, <2>1, <2>2
  <2>8. pc' = "layer" => Progressing(F)' /\ NoGoalIn(Shown)'
    BY <1>2, <2>1, <2>5, <2>6
  <2> QED BY <1>5, <2>4, <2>7, <2>8 DEF Building
<1> QED BY <1>2, <1>7, <1>8 DEF BuildInv

LEMMA BuildStepAll == BuildInv /\ IterationInv /\ [Next \/ Terminating]_vars => BuildInv'
<1> SUFFICES ASSUME BuildInv, IterationInv, [Next \/ Terminating]_vars PROVE BuildInv'
  OBVIOUS
<1>1. CASE SearchStep \/ Terminating \/ UNCHANGED vars
  <2>1. UNCHANGED <<task, evaluation>>
    BY <1>1 DEF SearchStep, Terminating, vars
  <2> QED BY <2>1, SearchBuild
<1>2. CASE Heuristic
  BY <1>2, StartBuild, EvaluateBuild, ProcessBuild, LayerBuild, GoalBuild DEF Heuristic
<1> QED BY <1>1, <1>2 DEF Next

\* At every step of an evaluation the graph is explained, grounded and
\* complete below its layer, and the handlers that are left out are useless
\* (smart_rpg.cxx:37, gecode_crpg.cxx:30, unreached_atom_rpg.cxx:32).
THEOREM GraphInvariant == Spec => []BuildInv
BY InitBuild, BuildStepAll, IterationAlways, PTL DEF Spec

-----------------------------------------------------------------------------
(***************************************************************************)
(* Dead ends.                                                              *)
(***************************************************************************)
\* The goal CSP over the atoms of a state.
LEMMA GoalInState ==
    ASSUME Context, NEW s, StateOK(s), Solutions(GoalCSP, ViewOf(AtomsOf(s))) # {}
    PROVE  Satisfied(task.goal, s)
<1>1. GoalCSP = FormulaCSP(GoalFormula(task)) /\ FormulaOK(GoalFormula(task))
  BY GoalFacts
<1>2. FormulaOK(task.goal)
  BY ContextFacts DEF TaskGood, FormulasOK
<1>3. GoalFormula(task).params = task.goal.params /\ GoalFormula(task).conds = task.goal.conds \cup task.constraints
  BY DEF GoalFormula
<1>4. \E b \in Bindings(GoalFormula(task).params) : Interpreted(GoalFormula(task).conds, s, b)
  BY <1>1, SatisfiedIs
<1>5. PICK b \in Bindings(task.goal.params) : Interpreted(GoalFormula(task).conds, s, b)
  BY <1>3, <1>4
<1>6. Interpreted(task.goal.conds, s, b)
  BY <1>3, <1>5 DEF Interpreted
<1> QED BY <1>2, <1>6, SatisfiedIs DEF Satisfied

LEMMA DeadEndIsSafe == BuildInv => (SymbolsManaged => SafeDeadEnds)
<1> SUFFICES ASSUME BuildInv, SymbolsManaged, pc = "done", h = -1, NEW u \in ReachedFrom(task, seed), Satisfied(task.goal, u)
             PROVE  FALSE
  BY DEF SafeDeadEnds
<1>1. PICK F \in SUBSET AllAtoms : Building(F)
  BY DEF BuildInv
<1>2. Context /\ StateOK(seed)
  BY DEF BuildInv, Bookkeeping
<1>3. Graph(F) /\ Derived(HS, Reached) \subseteq Reached /\ (layer > 1 => NoGoalIn(Reached))
      /\ ~Satisfied(task.goal, seed) /\ novel = {}
  BY <1>1 DEF Building, HasGraph
<1>4. AtomsOf(seed) \subseteq Reached /\ Reached \in SUBSET AllAtoms
  BY <1>3 DEF Graph, Layers
<1>5. TaskGood(task) /\ Mode \in Modes /\ (Mode # "smart" => Unconditional(task))
  BY <1>2, ContextFacts
<1>6. StateOK(u) /\ AtomsOf(u) \subseteq Reached /\ (u = seed \/ LegalState(task, u))
  BY <1>2, <1>3, <1>4, <1>5, RelaxationSound
<1>7. LegalState(task, u) /\ FormulasOK(task)
  BY <1>3, <1>5, <1>6 DEF TaskGood
<1>8. IsCSP(GoalCSP) /\ GoalCSP = FormulaCSP(GoalFormula(task))
  BY <1>2, GoalFacts
<1>9. Solutions(GoalCSP, ViewOf(AtomsOf(u))) # {}
  BY <1>6, <1>7, <1>8, GoalStates DEF LegalState
<1>10. PICK x : x \in Solutions(GoalCSP, ViewOf(AtomsOf(u)))
  BY <1>9
<1>11. Meets(GoalCSP, x) /\ Reading(GoalCSP, x) \subseteq AtomsOf(u)
  BY <1>8, <1>10, AtomsTyped, CSPFacts
<1>12. Reading(GoalCSP, x) \subseteq Reached
  BY <1>6, <1>11
<1>13. x \in Solutions(GoalCSP, ViewOf(Reached))
  BY <1>4, <1>8, <1>11, <1>12, CSPFacts
<1>14. layer = 1
  <2>1. layer \in Nat \ {0}
    BY <1>3 DEF Graph, Layers
  <2> QED BY <1>3, <1>13, <2>1 DEF NoGoalIn
<1>15. Reached = AtomsOf(seed)
  <2>1. /\ \A a \in Reached : reached[a].layer \in 0..layer
        /\ \A a \in Reached : reached[a].layer = 0 <=> a \in AtomsOf(seed)
        /\ novel = {a \in Reached : reached[a].layer = layer}
    BY <1>3 DEF Graph, Layers
  <2>2. \A a \in Reached : reached[a].layer = 0
    BY <1>3, <1>14, <2>1
  <2> QED BY <1>4, <2>1, <2>2
<1>16. Satisfied(task.goal, seed)
  BY <1>2, <1>13, <1>15, GoalInState
<1> QED BY <1>3, <1>16

\* A seed is called a dead end only if no goal state that satisfies the state
\* constraints is reached from it (relaxed_plan.hxx:11).
THEOREM DeadEndsAreSafe == Spec => [](SymbolsManaged => SafeDeadEnds)
BY DeadEndIsSafe, GraphInvariant, PTL

-----------------------------------------------------------------------------
(***************************************************************************)
(* The layers.                                                             *)
(***************************************************************************)
LEMMA Growing ==
    ASSUME NEW L, \A n \in Nat : L[n] \subseteq L[n + 1], NEW m \in Nat, NEW n \in Nat, m <= n
    PROVE  L[m] \subseteq L[n]
<1> DEFINE N == {d \in Nat : L[m] \subseteq L[m + d]}
<1>1. 0 \in N
  OBVIOUS
<1>2. ASSUME NEW d \in N PROVE d + 1 \in N
  <2>1. m + (d + 1) = (m + d) + 1 /\ m + d \in Nat
    OBVIOUS
  <2> QED BY <2>1
<1>3. N \in SUBSET Nat
  OBVIOUS
<1> HIDE DEF N
<1>4. N = Nat
  BY <1>1, <1>2, <1>3, Induction
<1>5. n - m \in N /\ m + (n - m) = n
  BY <1>4
<1> QED BY <1>5 DEF N

IsLayers(g, H) == g = [n \in Nat |-> IF n = 0 THEN AtomsOf(seed) ELSE Derived(H, g[n - 1])]

LEMMA LayerIs == \A H, k : Layer(H, k) = (CHOOSE g : IsLayers(g, H))[k]
BY DEF Layer, IsLayers

LEMMA LayerFacts ==
    ASSUME NEW H, \A c \in H : IsHandler(c)
    PROVE  /\ Layer(H, 0) = AtomsOf(seed)
           /\ \A n \in Nat : Layer(H, n) \in SUBSET AllAtoms /\ Layer(H, n + 1) = Derived(H, Layer(H, n))
<1> DEFINE D == SUBSET AllAtoms
           step == [A \in D |-> Derived(H, A)]
           base == AtomsOf(seed)
<1>1. base \in D
  BY AtomsTyped
<1>2. step \in [D -> D]
  <2>1. \A A \in D : Derived(H, A) \in D
    BY DerivedFacts
  <2> QED BY <2>1
<1>3. \A A \in D : step[A] = Derived(H, A)
  OBVIOUS
<1> HIDE DEF D, step
<1>4. PICK f \in [Nat -> D] : f[0] = base /\ \A n \in Nat : f[n + 1] = step[f[n]]
  BY <1>1, <1>2, Iterates
<1>5. f = [n \in Nat |-> IF n = 0 THEN base ELSE Derived(H, f[n - 1])]
  <2>1. ASSUME NEW n \in Nat, n # 0 PROVE f[n] = Derived(H, f[n - 1])
    <3>1. n - 1 \in Nat /\ (n - 1) + 1 = n
      BY <2>1
    <3>2. f[n] = step[f[n - 1]]
      BY <1>4, <3>1
    <3> QED BY <1>3, <1>4, <3>1, <3>2
  <2>2. f = [n \in Nat |-> f[n]]
    OBVIOUS
  <2>3. \A n \in Nat : f[n] = IF n = 0 THEN base ELSE Derived(H, f[n - 1])
    BY <1>4, <2>1
  <2> QED BY <2>2, <2>3
<1>6. IsLayers(f, H)
  BY <1>5 DEF IsLayers
<1> DEFINE g == CHOOSE q : IsLayers(q, H)
<1>7. IsLayers(g, H)
  BY <1>6
<1>8. \A k : Layer(H, k) = g[k]
  BY LayerIs
<1> HIDE DEF g
<1>9. g[0] = base /\ \A n \in Nat : g[n + 1] = Derived(H, g[n])
  <2>1. g = [n \in Nat |-> IF n = 0 THEN base ELSE Derived(H, g[n - 1])]
    BY <1>7 DEF IsLayers
  <2>2. g[0] = base
    BY <2>1
  <2>3. ASSUME NEW n \in Nat PROVE g[n + 1] = Derived(H, g[n])
    <3>1. n + 1 \in Nat /\ n + 1 # 0 /\ (n + 1) - 1 = n
      OBVIOUS
    <3>2. g[n + 1] = Derived(H, g[(n + 1) - 1])
      BY <2>1, <3>1
    <3> QED BY <3>1, <3>2
  <2> QED BY <2>2, <2>3
<1> DEFINE N == {n \in Nat : g[n] \in D}
<1>10. 0 \in N
  BY <1>1, <1>9
<1>11. ASSUME NEW n \in N PROVE n + 1 \in N
  <2>1. g[n] \in D /\ n \in Nat /\ g[n + 1] = step[g[n]]
    BY <1>3, <1>9
  <2> QED BY <1>2, <2>1
<1>12. N \in SUBSET Nat
  OBVIOUS
<1> HIDE DEF N
<1>13. N = Nat
  BY <1>10, <1>11, <1>12, Induction
<1>14. \A n \in Nat : g[n] \in D
  BY <1>13 DEF N
<1> QED BY <1>8, <1>9, <1>14 DEF D

LEMMA LayersGrow ==
    ASSUME NEW H, \A c \in H : IsHandler(c)
    PROVE  /\ \A m, n \in Nat : m <= n => Layer(H, m) \subseteq Layer(H, n)
           /\ \E m \in 0..Cardinality(AllAtoms) : Derived(H, Layer(H, m)) = Layer(H, m)
<1> DEFINE L == [n \in Nat |-> Layer(H, n)]
<1>1. \A n \in Nat : L[n] \in SUBSET AllAtoms /\ L[n] = Layer(H, n) /\ L[n + 1] = Derived(H, L[n])
  BY LayerFacts
<1>2. L \in [Nat -> SUBSET AllAtoms]
  BY <1>1
<1> HIDE DEF L
<1>3. \A n \in Nat : L[n] \subseteq L[n + 1]
  <2>1. \A A \in SUBSET AllAtoms : A \subseteq Derived(H, A)
    BY DerivedFacts
  <2> QED BY <1>1, <2>1
<1>4. \A m, n \in Nat : m <= n => L[m] \subseteq L[n]
  BY <1>3, Growing
<1>5. PICK k \in 0..Cardinality(AllAtoms) : L[k + 1] = L[k]
  BY <1>2, <1>3, AllAtomsFinite, Saturation
<1>6. k \in Nat
  BY AllAtomsFinite, FS_CardinalityType
<1>7. Derived(H, Layer(H, k)) = Layer(H, k)
  BY <1>1, <1>5, <1>6
<1> QED BY <1>1, <1>4, <1>5, <1>7

LEMMA GraphIsExact ==
    ASSUME Context, NEW F \in SUBSET AllAtoms, Graph(F), NEW k \in 0..(layer - 1)
    PROVE  /\ Layer(HS, k) \subseteq UpToLayer(k)
           /\ UpToLayer(k) \subseteq Layer(HS, IF \A c \in HS : c.nullary = {} THEN k ELSE Cardinality(AllAtoms))
<1>1. \A c \in HS : IsHandler(c)
  BY ContextFacts
<1>2. /\ layer \in Nat \ {0} /\ \A a \in Reached : reached[a].layer \in 0..layer
      /\ AtomsOf(seed) \subseteq Reached /\ Reached \in SUBSET AllAtoms
      /\ \A a \in Reached : reached[a].layer = 0 <=> a \in AtomsOf(seed)
      /\ Explained /\ Grounded /\ Complete
  BY DEF Graph, Layers
<1>3. Layer(HS, 0) = AtomsOf(seed)
      /\ \A n \in Nat : Layer(HS, n) \in SUBSET AllAtoms /\ Layer(HS, n + 1) = Derived(HS, Layer(HS, n))
  BY <1>1, LayerFacts
<1>4. \A m, n \in Nat : m <= n => Layer(HS, m) \subseteq Layer(HS, n)
  BY <1>1, LayersGrow
<1>5. k \in Nat /\ k < layer
  BY <1>2
<1>6. \A n \in Nat : UpToLayer(n) \in SUBSET AllAtoms
  BY <1>2 DEF UpToLayer
<1>7. Layer(HS, k) \subseteq UpToLayer(k)
  <2> DEFINE N == {n \in Nat : n < layer => Layer(HS, n) \subseteq UpToLayer(n)}
  <2>1. 0 \in N
    BY <1>2, <1>3 DEF UpToLayer
  <2>2. ASSUME NEW n \in N PROVE n + 1 \in N
    <3> SUFFICES ASSUME n + 1 < layer PROVE Layer(HS, n + 1) \subseteq UpToLayer(n + 1)
      OBVIOUS
    <3>1. n \in Nat /\ Layer(HS, n) \subseteq UpToLayer(n)
      BY <1>2, <2>2
    <3>2. Derived(HS, Layer(HS, n)) \subseteq Derived(HS, UpToLayer(n))
      BY <1>1, <1>3, <1>6, <3>1, DerivedFacts
    <3>3. Derived(HS, UpToLayer(n)) \subseteq UpToLayer(n + 1)
      BY <1>2, <3>1 DEF Complete
    <3> QED BY <1>3, <3>1, <3>2, <3>3
  <2>3. N \in SUBSET Nat
    OBVIOUS
  <2> HIDE DEF N
  <2>4. N = Nat
    BY <2>1, <2>2, <2>3, Induction
  <2> QED BY <1>5, <2>4 DEF N
<1>8. CASE \A c \in HS : c.nullary = {}
  <2> DEFINE N == {n \in Nat : UpToLayer(n) \subseteq Layer(HS, n)}
  <2>1. 0 \in N
    <3>1. \A a \in UpToLayer(0) : a \in AtomsOf(seed)
      BY <1>2 DEF UpToLayer
    <3> QED BY <1>3, <3>1
  <2>2. ASSUME NEW n \in N PROVE n + 1 \in N
    <3>0. n \in Nat /\ UpToLayer(n) \subseteq Layer(HS, n) /\ Layer(HS, n) \in SUBSET AllAtoms
      BY <1>3
    <3> SUFFICES ASSUME NEW a \in UpToLayer(n + 1), a \notin AtomsOf(seed) PROVE a \in Layer(HS, n + 1)
      <4>1. AtomsOf(seed) \subseteq Layer(HS, n + 1)
        BY <1>3, <1>4, <3>0
      <4> QED BY <3>0, <4>1
    <3>1. a \in Reached /\ reached[a].layer <= n + 1
      BY DEF UpToLayer
    <3>2. PICK c \in HS : \E x : \E i \in DOMAIN c.effs : Why(c, x, i, a)
      BY <1>2, <3>1 DEF Explained
    <3>3. PICK x : \E i \in DOMAIN c.effs : Why(c, x, i, a)
      BY <3>2
    <3>4. PICK i \in DOMAIN c.effs : Why(c, x, i, a)
      BY <3>3
    <3>5. ASSUME NEW t \in c.nullary \cup c.looked PROVE AtomIn(c, x, t) \in UpToLayer(n)
      <4>1. t \in c.looked
        BY <1>8
      <4>2. AtomIn(c, x, t) \in Reached /\ reached[AtomIn(c, x, t)].layer < reached[a].layer
        BY <3>4, <4>1 DEF Why
      <4>3. reached[AtomIn(c, x, t)].layer \in Nat /\ reached[a].layer \in Nat
        BY <1>2, <3>1, <4>2
      <4> QED BY <3>0, <3>1, <4>2, <4>3 DEF UpToLayer
    <3>6. Reading(c, x) \subseteq Layer(HS, n)
      BY <3>0, <3>5 DEF Reading
    <3>7. Meets(c, x) /\ a = Produced(c, x, i)
      BY <3>4 DEF Why
    <3>8. a \in Derived(HS, Layer(HS, n))
      BY <1>1, <3>0, <3>6, <3>7, DerivedFacts
    <3> QED BY <1>3, <3>0, <3>8
  <2>3. N \in SUBSET Nat
    OBVIOUS
  <2> HIDE DEF N
  <2>4. N = Nat
    BY <2>1, <2>2, <2>3, Induction
  <2>5. UpToLayer(k) \subseteq Layer(HS, k)
    BY <1>5, <2>4 DEF N
  <2> QED BY <1>7, <1>8, <2>5
<1>9. CASE ~\A c \in HS : c.nullary = {}
  <2>1. PICK m \in 0..Cardinality(AllAtoms) : Derived(HS, Layer(HS, m)) = Layer(HS, m)
    BY <1>1, LayersGrow
  <2>2. Cardinality(AllAtoms) \in Nat /\ m \in Nat
    BY AllAtomsFinite, FS_CardinalityType
  <2>3. AtomsOf(seed) \subseteq Layer(HS, m) /\ Layer(HS, m) \in SUBSET AllAtoms
    BY <1>3, <1>4, <2>2
  <2>4. Reached \subseteq Layer(HS, m)
    BY <1>2, <2>1, <2>3 DEF Grounded
  <2>5. Layer(HS, m) \subseteq Layer(HS, Cardinality(AllAtoms))
    BY <1>4, <2>2
  <2>6. UpToLayer(k) \subseteq Layer(HS, Cardinality(AllAtoms))
    BY <2>4, <2>5 DEF UpToLayer
  <2> QED BY <1>7, <1>9, <2>6
<1> QED BY <1>8, <1>9

LEMMA LayersAreExact == BuildInv => (SymbolsManaged => LayersExact)
<1> SUFFICES ASSUME BuildInv, SymbolsManaged, pc = "goal" \/ (pc = "done" /\ h # 0) PROVE LayersExact
  BY DEF LayersExact
<1>1. PICK F \in SUBSET AllAtoms : Building(F)
  BY DEF BuildInv
<1>2. Context /\ Graph(F)
  BY <1>1 DEF BuildInv, Bookkeeping, Building, HasGraph
<1>3. ToSet(Handlers) = HS
  BY <1>2, ContextFacts, HandlersAll
<1>4. \A k : {a \in DOMAIN reached : reached[a].layer <= k} = UpToLayer(k)
  BY DEF UpToLayer, Reached
<1>5. \A k \in 0..(layer - 1) :
        /\ Layer(HS, k) \subseteq UpToLayer(k)
        /\ UpToLayer(k) \subseteq Layer(HS, IF \A c \in HS : c.nullary = {} THEN k ELSE Cardinality(AllAtoms))
  BY <1>2, GraphIsExact
<1> QED BY <1>3, <1>4, <1>5 DEF LayersExact

\* The layers of the graph are those of the relaxed planning graph, whatever
\* the heuristics skip; an atom that a predicate without arguments supports
\* may come too early, but is derived.
THEOREM GraphLayersExact == Spec => [](SymbolsManaged => LayersExact)
BY LayersAreExact, GraphInvariant, PTL

-----------------------------------------------------------------------------
(***************************************************************************)
(* Another solution with the same effect: what the effect does not read is *)
(* read in a state instead.                                                *)
(***************************************************************************)
LEMMA SameVar ==
    ASSUME NEW t, NEW v, NEW w, \A u \in ToSet(t.sub) : v[u] = w[u]
    PROVE  VarUnder(v, t) = VarUnder(w, t)
<1>1. \A i \in DOMAIN t.sub : v[t.sub[i]] = w[t.sub[i]]
  BY DEF ToSet
<1>2. [i \in DOMAIN t.sub |-> v[t.sub[i]]] = [i \in DOMAIN t.sub |-> w[t.sub[i]]]
  BY <1>1
<1> QED BY <1>2 DEF VarUnder

\* Values of terms, read in s for the terms of N, and given by G for others.
IsMixed(v, U, N, s, G) == \A t \in U : v[t] = IF t \in N THEN s[VarUnder(v, t)] ELSE G[t]

LEMMA MixedExists ==
    ASSUME NEW params, NEW T, Closed(params, T), NEW U, T \subseteq U, NEW N \in SUBSET T, NEW s, NEW G
    PROVE  \E v : IsMixed(v, U, N, s, G)
<1> DEFINE M(v) == [t \in U |-> IF t \in N THEN s[VarUnder(v, t)] ELSE G[t]]
<1>1. \A v : \A t \in U : M(v)[t] = IF t \in N THEN s[VarUnder(v, t)] ELSE G[t]
  OBVIOUS
<1> HIDE DEF M
<1>2. PICK v1 : v1 = M(G)
  OBVIOUS
<1>3. PICK v2 : v2 = M(v1)
  OBVIOUS
<1>4. PICK v3 : v3 = M(v2)
  OBVIOUS
<1>5. \A t \in T : ToSet(t.sub) \subseteq T /\ Depth2(t)
  BY DEF Closed
<1>6. \A t \in T : Depth0(t) => v1[t] = v2[t]
  <2> SUFFICES ASSUME NEW t \in T, Depth0(t) PROVE v1[t] = v2[t]
    OBVIOUS
  <2>1. ToSet(t.sub) = {}
    BY DEF Depth0, ToSet
  <2>2. VarUnder(G, t) = VarUnder(v1, t)
    BY <2>1, SameVar
  <2> QED BY <1>1, <1>2, <1>3, <2>2
<1>7. \A t \in T : Depth1(t) => v2[t] = v3[t]
  <2> SUFFICES ASSUME NEW t \in T, Depth1(t) PROVE v2[t] = v3[t]
    OBVIOUS
  <2>1. \A u \in ToSet(t.sub) : v1[u] = v2[u]
    BY <1>5, <1>6 DEF Depth1
  <2>2. VarUnder(v1, t) = VarUnder(v2, t)
    BY <2>1, SameVar
  <2> QED BY <1>1, <1>3, <1>4, <2>2
<1>8. \A t \in T : VarUnder(v2, t) = VarUnder(v3, t)
  <2> SUFFICES ASSUME NEW t \in T PROVE VarUnder(v2, t) = VarUnder(v3, t)
    OBVIOUS
  <2>1. \A u \in ToSet(t.sub) : v2[u] = v3[u]
    BY <1>5, <1>7 DEF Depth2
  <2> QED BY <2>1, SameVar
<1>9. \A t \in U : v3[t] = IF t \in N THEN s[VarUnder(v3, t)] ELSE G[t]
  BY <1>1, <1>4, <1>8
<1> QED BY <1>9 DEF IsMixed

\* The value of the right hand side is one of the head's, whatever it is.
StaysInBounds(params, e) == ValuesOf(params, e.rhs) \subseteq Values[e.lhs.name]

LEMMA Resupport ==
    ASSUME NEW a, NEW bound, NEW conds, NEW effs, CSPOK(a, bound, conds, effs), NEW c, c = CSP(a, bound, conds, effs),
           \A j \in DOMAIN effs : StaysInBounds(a.params, effs[j]),
           NEW x, Meets(c, x), NEW i \in DOMAIN effs,
           NEW D \in SUBSET AllAtoms, NEW s, StateOK(s), AtomsOf(s) \subseteq D, EffectSupport(c, x, i) \subseteq D
    PROVE  \E y : /\ Meets(c, y) /\ Reading(c, y) \subseteq D
                  /\ Produced(c, y, i) = Produced(c, x, i) /\ ActionOf(c, y) = ActionOf(c, x)
<1> DEFINE T == TermsOf(conds, effs)
           K == CondTerms(conds) \cup EffectTerms(effs[i])
           P == ParamTerms(a)
           Direct(t) == IsFluent(t) /\ IsStateVar(bound, t)
           Tied(t) == Direct(t) /\ \E u \in K : Direct(u) /\ VarIn(c, x, u) = VarIn(c, x, t)
           N == {t \in T : IsFluent(t) /\ t \notin K /\ ~Tied(t)}
           G == [t \in T \cup P |-> ValueIn(c, x, t)]
<1>1. /\ TypedConds(a.params, conds) /\ (\A j \in DOMAIN effs : TypedEffect(a.params, effs[j]))
      /\ DOMAIN bound \subseteq DOMAIN a.params /\ \A p \in DOMAIN bound : bound[p] \in a.params[p]
  BY DEF CSPOK
<1>2. /\ Closed(a.params, T)
      /\ \A d \in conds : d.lhs \in T /\ d.rhs \in T /\ ~IsPredicate(d.rhs)
      /\ \A j \in DOMAIN effs : effs[j].rhs \in T /\ ~IsPredicate(effs[j].rhs)
      /\ \A j \in DOMAIN effs : ToSet(effs[j].lhs.sub) \subseteq T
      /\ \A t \in T : IsPredicate(t) => \E d \in conds : d.lhs = t
  BY <1>1, TermsFacts
<1>3. /\ Closed(a.params, K) /\ K \subseteq T
      /\ \A d \in conds : d.lhs \in K /\ d.rhs \in K
      /\ effs[i].rhs \in K /\ ToSet(effs[i].lhs.sub) \subseteq K
  <2> DEFINE one == <<effs[i]>>
  <2>1. DOMAIN one = {1} /\ one[1] = effs[i]
    OBVIOUS
  <2> HIDE DEF one
  <2>2. TermsOf(conds, one) = K
    BY <2>1 DEF TermsOf
  <2>3. \A j \in DOMAIN one : TypedEffect(a.params, one[j])
    BY <1>1, <2>1
  <2>4. /\ Closed(a.params, TermsOf(conds, one))
        /\ \A d \in conds : d.lhs \in TermsOf(conds, one) /\ d.rhs \in TermsOf(conds, one)
        /\ \A j \in DOMAIN one : one[j].rhs \in TermsOf(conds, one)
        /\ \A j \in DOMAIN one : ToSet(one[j].lhs.sub) \subseteq TermsOf(conds, one)
    BY <1>1, <2>3, TermsFacts
  <2>5. K \subseteq T
    BY DEF TermsOf
  <2> HIDE DEF K
  <2> QED BY <2>1, <2>2, <2>4, <2>5
<1>4. \A t \in N : ~IsPredicate(t)
  BY <1>2, <1>3
<1>5. c.bound = bound /\ c.conds = conds /\ c.effs = effs /\ c.action = a.name /\ c.direct = {t \in T : Direct(t)}
      /\ DOMAIN c.range = {Param(p) : p \in DOMAIN a.params \ DOMAIN bound} \cup {u \in T : IsFluent(u) /\ ~IsPredicate(u)}
  BY CSPIs
<1>6. /\ x \in Candidates(c) /\ (\A d \in conds : Holds(c, x, d)) /\ InBounds(c, x)
      /\ \A t, u \in T : Direct(t) /\ Direct(u) /\ VarIn(c, x, t) = VarIn(c, x, u) => AtomIn(c, x, t) = AtomIn(c, x, u)
  BY <1>5 DEF Meets, SharedVariables
<1>7. /\ \A t \in T : ~IsPredicate(t) => ValueIn(c, x, t) \in ValuesOf(a.params, t)
      /\ \A t \in T : IsFluent(t) => VarIn(c, x, t) \in Vars /\ VarIn(c, x, t)[1] = t.name
  BY <1>6, CandidateTyped
<1>8. \A t \in K : IsFluent(t) => AtomIn(c, x, t) \in D
  <2>1. EffectSupport(c, x, i) = {AtomIn(c, x, t) : t \in {u \in K : IsFluent(u)}}
    BY <1>5 DEF EffectSupport, Support
  <2> QED BY <2>1
<1>9. \A p \in DOMAIN a.params :
         /\ Param(p) \in P /\ ValueIn(c, x, Param(p)) \in a.params[p] /\ Param(p).kind = "param" /\ Param(p).name = p
         /\ p \in DOMAIN bound => ValueIn(c, x, Param(p)) = bound[p]
         /\ p \notin DOMAIN bound => ValueIn(c, x, Param(p)) = x[Param(p)]
  <2> SUFFICES ASSUME NEW p \in DOMAIN a.params
               PROVE  /\ Param(p) \in P /\ ValueIn(c, x, Param(p)) \in a.params[p] /\ Param(p).kind = "param" /\ Param(p).name = p
                      /\ p \in DOMAIN bound => ValueIn(c, x, Param(p)) = bound[p]
                      /\ p \notin DOMAIN bound => ValueIn(c, x, Param(p)) = x[Param(p)]
    OBVIOUS
  <2>1. Param(p).kind = "param" /\ Param(p).name = p /\ Param(p) \in P
    BY DEF Param, ParamTerms
  <2>2. /\ p \in DOMAIN bound => ValueIn(c, x, Param(p)) = bound[p]
        /\ p \notin DOMAIN bound => ValueIn(c, x, Param(p)) = x[Param(p)]
    BY <1>5, <2>1 DEF ValueIn, Constant
  <2>3. BindingIn(a, bound, x) \in Bindings(a.params)
    BY <1>6, BindingTyped
  <2>4. BindingIn(a, bound, x)[p] = IF p \in DOMAIN bound THEN bound[p] ELSE x[Param(p)]
    BY DEF BindingIn
  <2>5. BindingIn(a, bound, x)[p] \in a.params[p]
    BY <2>3, BindingFacts
  <2> QED BY <2>1, <2>2, <2>4, <2>5
<1>10. \A t \in T \cup P : G[t] = ValueIn(c, x, t)
  OBVIOUS
<1>11. N \in SUBSET T /\ \A t \in P : ~IsFluent(t)
  BY DEF ParamTerms, Param, IsFluent
<1> HIDE DEF G, N
<1>12. PICK val : \A t \in T \cup P : val[t] = IF t \in N THEN s[VarUnder(val, t)] ELSE G[t]
  <2> DEFINE U == T \cup P
  <2>1. T \subseteq U /\ Closed(a.params, T)
    BY <1>2
  <2>2. N \in SUBSET T
    BY <1>11
  <2> HIDE DEF U, T, P
  <2>3. \E v : IsMixed(v, U, N, s, G)
    BY <2>1, <2>2, MixedExists
  <2> QED BY <2>3 DEF U, IsMixed
<1>13. \A t \in T \cup P : t \notin N => val[t] = ValueIn(c, x, t)
  BY <1>10, <1>12
<1>14. \A t \in K : t \in T /\ t \notin N /\ val[t] = ValueIn(c, x, t)
  BY <1>3, <1>13 DEF N
<1> HIDE DEF T, K, P
<1>15. /\ \A t \in T : ~IsPredicate(t) => val[t] \in ValuesOf(a.params, t)
       /\ \A t \in T : IsFluent(t) => VarUnder(val, t) \in Vars /\ VarUnder(val, t)[1] = t.name
  <2> DEFINE Q == {t \in T : /\ ~IsPredicate(t) => val[t] \in ValuesOf(a.params, t)
                             /\ IsFluent(t) => VarUnder(val, t) \in Vars /\ VarUnder(val, t)[1] = t.name}
  <2>1. ASSUME NEW t \in T, ToSet(t.sub) \subseteq Q PROVE t \in Q
    <3>1. Typed(a.params, t)
      BY <1>2 DEF Closed
    <3>2. ASSUME IsFluent(t) PROVE VarUnder(val, t) \in Vars /\ VarUnder(val, t)[1] = t.name /\ t.name \in Symbols
                                   /\ ValuesOf(a.params, t) = Values[t.name]
      <4>1. /\ t.name \in Symbols /\ DOMAIN t.sub = 1..Arity[t.name] /\ ValuesOf(a.params, t) = Values[t.name]
            /\ \A j \in DOMAIN t.sub : ~IsPredicate(t.sub[j]) /\ ValuesOf(a.params, t.sub[j]) \subseteq Objects
        <5>1. t.kind # "const" /\ t.kind # "param"
          BY <3>2 DEF IsFluent
        <5> QED BY <3>1, <5>1, KindFacts
      <4>2. \A j \in DOMAIN t.sub : t.sub[j] \in Q
        BY <2>1 DEF ToSet
      <4>3. \A j \in DOMAIN t.sub : val[t.sub[j]] \in Objects
        BY <4>1, <4>2
      <4>4. [j \in DOMAIN t.sub |-> val[t.sub[j]]] \in [1..Arity[t.name] -> Objects]
        BY <4>1, <4>3
      <4>5. VarUnder(val, t) \in Vars
        BY <4>1, <4>4, VarFacts DEF VarUnder
      <4> QED BY <4>1, <4>5 DEF VarUnder
    <3>3. ~IsPredicate(t) => val[t] \in ValuesOf(a.params, t)
      <4>1. CASE t \in N
        <5>1. IsFluent(t) /\ val[t] = s[VarUnder(val, t)]
          BY <1>12, <4>1 DEF N
        <5>2. s[VarUnder(val, t)] \in Values[t.name]
          BY <3>2, <5>1 DEF StateOK
        <5> QED BY <3>2, <5>1, <5>2
      <4>2. CASE t \notin N
        BY <1>7, <1>13, <4>2
      <4> QED BY <4>1, <4>2
    <3> QED BY <3>2, <3>3
  <2> HIDE DEF Q
  <2>2. T \subseteq Q
    BY <1>2, <2>1, TermInduction
  <2> QED BY <2>2 DEF Q
<1>16. Valuation(a, bound, conds, effs, val)
  <2>1. \A p \in DOMAIN a.params : val[Param(p)] = ValueIn(c, x, Param(p))
    BY <1>9, <1>11, <1>13 DEF N
  <2>2. \A t \in T : t.kind = "const" => val[t] = t.val
    <3> SUFFICES ASSUME NEW t \in T, t.kind = "const" PROVE val[t] = t.val
      OBVIOUS
    <3>1. t \notin N
      BY DEF N, IsFluent
    <3> QED BY <1>13, <3>1 DEF ValueIn
  <2>3. \A t \in T : IsFluent(t) /\ ~IsPredicate(t) => val[t] \in Values[t.name]
    <3> SUFFICES ASSUME NEW t \in T, IsFluent(t), ~IsPredicate(t) PROVE val[t] \in Values[t.name]
      OBVIOUS
    <3>1. ValuesOf(a.params, t) = Values[t.name]
      BY DEF ValuesOf, IsFluent
    <3> QED BY <1>15, <3>1
  <2>4. /\ \A p \in DOMAIN a.params : val[Param(p)] \in a.params[p]
        /\ \A p \in DOMAIN bound : val[Param(p)] = bound[p]
    BY <1>1, <1>9, <2>1
  <2> QED BY <2>2, <2>3, <2>4 DEF Valuation, T
<1>17. \A t \in K : IsFluent(t) => VarUnder(val, t) = VarIn(c, x, t)
  <2> SUFFICES ASSUME NEW t \in K, IsFluent(t) PROVE VarUnder(val, t) = VarIn(c, x, t)
    OBVIOUS
  <2>1. \A j \in DOMAIN t.sub : t.sub[j] \in K
    BY <1>3 DEF Closed, ToSet
  <2>2. \A j \in DOMAIN t.sub : val[t.sub[j]] = ValueIn(c, x, t.sub[j])
    BY <1>14, <2>1
  <2>3. [j \in DOMAIN t.sub |-> val[t.sub[j]]] = [j \in DOMAIN t.sub |-> ValueIn(c, x, t.sub[j])]
    BY <2>2
  <2> QED BY <2>3 DEF VarUnder, VarIn
\* State variables are the same ones, whatever the values.
<1>18. \A t \in T : Direct(t) => VarUnder(val, t) = VarIn(c, x, t)
  <2> SUFFICES ASSUME NEW t \in T, Direct(t) PROVE VarUnder(val, t) = VarIn(c, x, t)
    OBVIOUS
  <2>1. \A j \in DOMAIN t.sub : t.sub[j] \in T /\ ~IsFluent(t.sub[j])
    BY <1>2 DEF Closed, ToSet, IsStateVar, Constant, IsFluent
  <2>2. \A j \in DOMAIN t.sub : val[t.sub[j]] = ValueIn(c, x, t.sub[j])
    BY <1>13, <2>1 DEF N
  <2>3. [j \in DOMAIN t.sub |-> val[t.sub[j]]] = [j \in DOMAIN t.sub |-> ValueIn(c, x, t.sub[j])]
    BY <2>2
  <2> QED BY <2>3 DEF VarUnder, VarIn
<1>19. \A t \in T : IsFluent(t) /\ t \notin N => AtomUnder(val, t) = AtomIn(c, x, t) /\ (t \in K \/ Tied(t))
  <2> SUFFICES ASSUME NEW t \in T, IsFluent(t), t \notin N
               PROVE  AtomUnder(val, t) = AtomIn(c, x, t) /\ (t \in K \/ Tied(t))
    OBVIOUS
  <2>1. t \in K \/ Tied(t)
    BY DEF N
  <2>2. VarUnder(val, t) = VarIn(c, x, t) /\ val[t] = ValueIn(c, x, t)
    BY <1>13, <1>17, <1>18, <2>1
  <2>3. ~IsPredicate(t) => ValueIn(c, x, t) = x[t]
    BY DEF ValueIn, Constant, IsFluent
  <2> QED BY <2>1, <2>2, <2>3 DEF AtomUnder, AtomIn
<1>20. \A t \in N : /\ t \in T /\ IsFluent(t) /\ ~IsPredicate(t) /\ ~Tied(t) /\ t.name \notin Predicates
                     /\ val[t] = s[VarUnder(val, t)] /\ VarUnder(val, t) \in Vars /\ VarUnder(val, t)[1] = t.name
  <2> SUFFICES ASSUME NEW t \in N
               PROVE  /\ t \in T /\ IsFluent(t) /\ ~IsPredicate(t) /\ ~Tied(t) /\ t.name \notin Predicates
                      /\ val[t] = s[VarUnder(val, t)] /\ VarUnder(val, t) \in Vars /\ VarUnder(val, t)[1] = t.name
    OBVIOUS
  <2>1. t \in T /\ IsFluent(t) /\ ~Tied(t)
    BY DEF N
  <2>2. ~IsPredicate(t) /\ val[t] = s[VarUnder(val, t)] /\ VarUnder(val, t) \in Vars /\ VarUnder(val, t)[1] = t.name
    BY <1>4, <1>12, <1>15, <2>1
  <2> QED BY <2>1, <2>2 DEF IsPredicate
<1>21. \A t \in T : IsFluent(t) => AtomUnder(val, t) \in D
  <2> SUFFICES ASSUME NEW t \in T, IsFluent(t) PROVE AtomUnder(val, t) \in D
    OBVIOUS
  <2>1. CASE t \in K
    BY <1>8, <1>14, <1>19, <2>1
  <2>2. CASE t \in N
    <3>1. <<VarUnder(val, t), val[t]>> \in AtomsOf(s)
      BY <1>20, <2>2, StateAtoms
    <3> QED BY <1>20, <2>2, <3>1 DEF AtomUnder
  <2>3. CASE t \notin K /\ t \notin N
    <3>1. PICK u \in K : Direct(u) /\ Direct(t) /\ VarIn(c, x, u) = VarIn(c, x, t)
      BY <1>19, <2>3
    <3>2. AtomIn(c, x, t) = AtomIn(c, x, u) /\ AtomIn(c, x, u) \in D
      BY <1>6, <1>8, <1>14, <3>1
    <3> QED BY <1>19, <2>3, <3>2
  <2> QED BY <2>1, <2>2, <2>3
<1>22. SharedUnder(bound, T, val)
  <2> SUFFICES ASSUME NEW t \in T, Direct(t), NEW u \in T, Direct(u), VarUnder(val, t) = VarUnder(val, u)
               PROVE  AtomUnder(val, t) = AtomUnder(val, u)
    BY DEF SharedUnder
  <2>1. VarIn(c, x, t) = VarIn(c, x, u)
    BY <1>18
  <2>2. CASE t \in N /\ u \in N
    BY <1>20, <2>2 DEF AtomUnder
  <2>3. CASE t \notin N /\ u \notin N
    BY <1>6, <1>19, <2>1, <2>3
  <2>4. ASSUME NEW v \in N, Direct(v), NEW w \in T, Direct(w), w \notin N, VarIn(c, x, v) = VarIn(c, x, w) PROVE FALSE
    <3>1. w \in K \/ Tied(w)
      BY <1>19, <2>4
    <3>2. \E k \in K : Direct(k) /\ VarIn(c, x, k) = VarIn(c, x, v)
      BY <2>4, <3>1
    <3> QED BY <1>20, <2>4, <3>2
  <2> QED BY <2>1, <2>2, <2>3, <2>4
<1>23. \A d \in conds : IsAtom(d) \/ Compare(d.op, val[d.lhs], val[d.rhs])
  <2> SUFFICES ASSUME NEW d \in conds, ~IsAtom(d) PROVE Compare(d.op, val[d.lhs], val[d.rhs])
    OBVIOUS
  <2>1. Compare(d.op, ValueIn(c, x, d.lhs), ValueIn(c, x, d.rhs))
    BY <1>6 DEF Holds
  <2>2. val[d.lhs] = ValueIn(c, x, d.lhs) /\ val[d.rhs] = ValueIn(c, x, d.rhs)
    BY <1>3, <1>14
  <2> QED BY <2>1, <2>2
<1>24. \A j \in DOMAIN effs : val[effs[j].rhs] \in Values[effs[j].lhs.name]
  BY <1>2, <1>15 DEF StaysInBounds
<1> DEFINE y == SolutionUnder(c, val)
<1>25. y \in Solutions(c, ViewOf(D))
  BY <1>16, <1>21, <1>23, <1>24, <1>22, UnderSolves DEF T
<1>26. y \in Candidates(c) /\ \A j \in DOMAIN effs : Produced(c, y, j) = <<VarUnder(val, effs[j].lhs), val[effs[j].rhs]>>
  BY <1>16, UnderReads
<1>27. Meets(c, y) /\ Reading(c, y) \subseteq D
  BY <1>25, SolutionsIn
<1>28. Produced(c, y, i) = Produced(c, x, i)
  <2>1. \A j \in DOMAIN effs[i].lhs.sub : effs[i].lhs.sub[j] \in K
    BY <1>3 DEF ToSet
  <2>2. \A j \in DOMAIN effs[i].lhs.sub : val[effs[i].lhs.sub[j]] = ValueIn(c, x, effs[i].lhs.sub[j])
    BY <1>14, <2>1
  <2>3. [j \in DOMAIN effs[i].lhs.sub |-> val[effs[i].lhs.sub[j]]] = [j \in DOMAIN effs[i].lhs.sub |-> ValueIn(c, x, effs[i].lhs.sub[j])]
    BY <2>2
  <2>4. VarUnder(val, effs[i].lhs) = VarIn(c, x, effs[i].lhs)
    BY <2>3 DEF VarUnder, VarIn
  <2>5. val[effs[i].rhs] = ValueIn(c, x, effs[i].rhs)
    BY <1>3, <1>14
  <2> QED BY <1>5, <1>26, <2>4, <2>5 DEF Produced
<1>29. ActionOf(c, y) = ActionOf(c, x)
  <2> DEFINE names == DOMAIN c.bound \cup {t.name : t \in {u \in DOMAIN c.range : u.kind = "param"}}
  <2>1. \A p \in names : p \in DOMAIN bound \/ (p \in DOMAIN a.params /\ p \notin DOMAIN bound /\ Param(p) \in DOMAIN c.range)
    <3> SUFFICES ASSUME NEW t \in DOMAIN c.range, t.kind = "param"
                 PROVE  t.name \in DOMAIN a.params /\ t.name \notin DOMAIN bound /\ Param(t.name) \in DOMAIN c.range
      BY <1>5
    <3>1. ~IsFluent(t)
      BY DEF IsFluent
    <3>2. PICK p \in DOMAIN a.params \ DOMAIN bound : t = Param(p)
      BY <1>5, <3>1
    <3>3. t.name = p
      BY <3>2 DEF Param
    <3> QED BY <3>2, <3>3
  <2>2. \A p \in names : (IF p \in DOMAIN c.bound THEN c.bound[p] ELSE y[Param(p)])
                           = (IF p \in DOMAIN c.bound THEN c.bound[p] ELSE x[Param(p)])
    <3> SUFFICES ASSUME NEW p \in names, p \notin DOMAIN bound PROVE y[Param(p)] = x[Param(p)]
      BY <1>5
    <3>1. p \in DOMAIN a.params /\ Param(p) \in DOMAIN c.range
      BY <2>1
    <3>2. y[Param(p)] = val[Param(p)]
      BY <3>1 DEF SolutionUnder
    <3>3. val[Param(p)] = ValueIn(c, x, Param(p))
      BY <1>9, <1>11, <1>13, <3>1 DEF N
    <3> QED BY <1>9, <3>1, <3>2, <3>3
  <2> HIDE DEF y
  <2>3. [p \in names |-> IF p \in DOMAIN c.bound THEN c.bound[p] ELSE y[Param(p)]]
          = [p \in names |-> IF p \in DOMAIN c.bound THEN c.bound[p] ELSE x[Param(p)]]
    BY <2>2
  <2> QED BY <2>3 DEF ActionOf
<1> QED BY <1>27, <1>28, <1>29

\* The effects that are processed together with others never leave their
\* bounds: otherwise one that is read off another solution could.
EffectsStayInBounds ==
    \A k \in DOMAIN task.actions :
        LET a == task.actions[k]
        IN  Mode \in {"ground", "lifted"} /\ Len(AddEffects(a)) > 1 =>
              \A j \in DOMAIN AddEffects(a) : StaysInBounds(a.params, AddEffects(a)[j])

\* No two functional terms of a handler's conditions and of one of its effects
\* are nested fluents of one symbol: then what BaseActionCSP records of a
\* solution is all of its support.
SupportsWhole ==
    Mode \in {"ground", "lifted"} =>
        \A c \in HS : \A i \in DOMAIN c.effs :
            \A t, u \in {w \in CondTerms(c.conds) \cup EffectTerms(c.effs[i]) : IsFluent(w)} \ c.direct :
                ~IsPredicate(t) /\ ~IsPredicate(u) /\ t.name = u.name => t = u

\* The support of an atom is enough to produce it, with the same action.
LEMMA SupportSuffices ==
    ASSUME Context, EffectsStayInBounds, SupportsWhole, NEW c \in HS, NEW x, Meets(c, x), NEW i \in DOMAIN c.effs,
           NEW D \in SUBSET AllAtoms, StateOK(seed), AtomsOf(seed) \subseteq D,
           NEW R \in SupportsOf(c, x, i), R \subseteq D
    PROVE  \E y : /\ Meets(c, y) /\ Reading(c, y) \subseteq D
                  /\ Produced(c, y, i) = Produced(c, x, i) /\ ActionOf(c, y) = ActionOf(c, x)
<1>1. /\ TaskGood(task) /\ Mode \in Modes /\ IsHandler(c)
      /\ Mode \in {"smart", "unreached"} => DOMAIN c.effs = {1}
  BY ContextFacts, HandlersTyped
<1>2. EffectSupport(c, x, i) \subseteq D
  <2>1. CASE Mode \in {"ground", "lifted"}
    <3>1. R \in RecordedSupports(c, x, i)
      BY <2>1 DEF SupportsOf
    <3>2. \A t, u \in {w \in CondTerms(c.conds) \cup EffectTerms(c.effs[i]) : IsFluent(w)} \ c.direct :
              ~IsPredicate(t) /\ ~IsPredicate(u) /\ t.name = u.name => t = u
      BY <2>1 DEF SupportsWhole
    <3> QED BY <3>1, <3>2, RecordedFacts
  <2>2. CASE Mode \notin {"ground", "lifted"}
    BY <2>2, SupportsOfFacts
  <2> QED BY <2>1, <2>2
<1>3. CASE DOMAIN c.effs = {i}
  <2>1. Reading(c, x) \subseteq D
    BY <1>1, <1>3, <1>2, HandlerFacts
  <2> QED BY <2>1
<1>4. CASE DOMAIN c.effs # {i}
  <2>1. Mode \in {"ground", "lifted"}
    BY <1>1, <1>4 DEF Modes
  <2>2. PICK k \in DOMAIN task.actions : c \in HandlerSet(task.actions[k])
    BY DEF HS
  <2> DEFINE a == task.actions[k]
             effs == AddEffects(a)
  <2>3. ActionGood(a)
    BY <1>1 DEF TaskGood
  <2>4. PICK b : c = CSP(a, b, a.pre, effs) /\ DOMAIN b \subseteq DOMAIN a.params /\ \A p \in DOMAIN b : b[p] \in a.params[p]
    <3>1. CASE Mode = "lifted"
      <4>1. c = CSP(a, << >>, a.pre, effs)
        BY <2>2, <3>1 DEF HandlerSet, LiftedCSP
      <4>2. DOMAIN << >> = {}
        OBVIOUS
      <4> QED BY <4>1, <4>2
    <3>2. CASE Mode = "ground"
      <4>1. PICK b \in Bindings(a.params) : c = CSP(a, b, a.pre, effs)
        BY <2>2, <3>2 DEF HandlerSet
      <4>2. DOMAIN b \subseteq DOMAIN a.params /\ \A p \in DOMAIN b : b[p] \in a.params[p]
        BY BindingFacts
      <4> QED BY <4>1, <4>2
    <3> QED BY <2>1, <3>1, <3>2
  <2>5. CSPOK(a, b, a.pre, effs)
    BY <2>3, <2>4, EffectsTyped
  <2>6. c.effs = effs
    BY <2>4, CSPIs
  <2>7. Len(effs) > 1
    <3>1. Len(effs) \in Nat /\ DOMAIN effs = 1..Len(effs)
      BY <2>3, AddsFacts
    <3>2. i \in 1..Len(effs) /\ 1..Len(effs) # {i}
      BY <1>4, <2>6, <3>1
    <3> HIDE DEF effs
    <3>3. ASSUME Len(effs) <= 1 PROVE FALSE
      <4>1. \A j \in 1..Len(effs) : j = 1
        BY <3>1, <3>3
      <4>2. 1..Len(effs) = {i}
        BY <3>2, <4>1
      <4> QED BY <3>2, <4>2
    <3> QED BY <3>1, <3>3
  <2>8. \A j \in DOMAIN effs : StaysInBounds(a.params, effs[j])
    BY <2>1, <2>7 DEF EffectsStayInBounds
  <2>9. i \in DOMAIN effs
    BY <2>6
  <2> HIDE DEF a, effs
  <2>10. PICK act, bnd, cnd, ef : act = a /\ bnd = b /\ cnd = a.pre /\ ef = effs
    OBVIOUS
  <2>11. CSPOK(act, bnd, cnd, ef) /\ c = CSP(act, bnd, cnd, ef) /\ (\A j \in DOMAIN ef : StaysInBounds(act.params, ef[j]))
         /\ i \in DOMAIN ef
    BY <2>4, <2>5, <2>8, <2>9, <2>10
  <2>12. PICK s : s = seed
    OBVIOUS
  <2>13. StateOK(s) /\ AtomsOf(s) \subseteq D
    BY <2>12
  <2> QED BY <1>2, <2>11, <2>13, Resupport
<1> QED BY <1>3, <1>4

LEMMA SupportsReached ==
    ASSUME Context, NEW F, Graph(F)
    PROVE  \A a \in Reached : reached[a].support \in SUBSET Reached
<1>1. Layers /\ Explained /\ \A c \in HS : IsHandler(c)
  BY ContextFacts DEF Graph
<1> SUFFICES ASSUME NEW a \in Reached PROVE reached[a].support \subseteq Reached
  OBVIOUS
<1>2. CASE a \in AtomsOf(seed)
  BY <1>1, <1>2 DEF Layers
<1>3. CASE a \notin AtomsOf(seed)
  <2>1. PICK c \in HS : \E x : \E i \in DOMAIN c.effs : Why(c, x, i, a)
    BY <1>1, <1>3 DEF Explained
  <2>2. PICK x : \E i \in DOMAIN c.effs : Why(c, x, i, a)
    BY <2>1
  <2>3. PICK i \in DOMAIN c.effs : Why(c, x, i, a)
    BY <2>2
  <2>4. Meets(c, x) /\ reached[a].support \in SupportsOf(c, x, i) /\ Reading(c, x) \subseteq Reached
    BY <2>3 DEF Why, Reading
  <2>5. EffectSupport(c, x, i) \subseteq Reading(c, x)
    BY <1>1, <2>4, HandlerFacts
  <2> QED BY <2>4, <2>5, SupportsOfFacts
<1> QED BY <1>2, <1>3

-----------------------------------------------------------------------------
(***************************************************************************)
(* The extraction of the relaxed plan.                                     *)
(***************************************************************************)
HasPlan == pc = "extract" \/ (pc = "done" /\ h > 0 /\ ~config.hmax)

Extracting ==
    LET known == AtomsOf(seed) \cup processed \cup ToSet(pending)
    IN  /\ \E x : Meets(GoalCSP, x) /\ causes = Reading(GoalCSP, x)
        /\ processed \subseteq Reached \ AtomsOf(seed)
        /\ pending \in Seq(Reached)
        /\ causes \subseteq known
        /\ \A a \in processed : reached[a].support \subseteq known
        /\ relevant = {a \in processed : ReportsRelevant /\ reached[a].layer = 1}

ExtractInv ==
    /\ pc \notin {"extract", "done"} => processed = {} /\ relevant = {}
    /\ SymbolsManaged /\ HasPlan => Extracting
    /\ pc = "done" /\ h > 0 /\ ~config.hmax => pending = << >> /\ processed # {}

LEMMA ExtractInit == Init => ExtractInv
BY DEF Init, ExtractInv, HasPlan

LEMMA ExtractFrame ==
    ASSUME ExtractInv, UNCHANGED extraction, pc \notin {"extract", "done"},
           pc' # "extract", pc' = "done" => ~(h' > 0) \/ config'.hmax
    PROVE  ExtractInv'
<1>1. processed' = {} /\ relevant' = {}
  BY DEF ExtractInv, extraction
<1>2. ~HasPlan' /\ ~(pc' = "done" /\ h' > 0 /\ ~config'.hmax)
  BY DEF HasPlan
<1> QED BY <1>1, <1>2 DEF ExtractInv

LEMMA SequenceFacts ==
    ASSUME NEW X, NEW q \in Seq(X), q # << >>
    PROVE  /\ Head(q) \in X /\ Tail(q) \in Seq(X)
           /\ ToSet(q) = {Head(q)} \cup ToSet(Tail(q))
<1>1. Len(q) \in Nat /\ DOMAIN q = 1..Len(q) /\ Len(q) # 0
  BY LenProperties, EmptySeq
<1>2. Head(q) \in X /\ Head(q) = q[1] /\ Tail(q) \in Seq(X)
  BY HeadTailProperties
<1>3. Len(Tail(q)) = Len(q) - 1 /\ \A i \in 1..Len(Tail(q)) : Tail(q)[i] = q[i + 1]
  BY HeadTailProperties
<1>4. DOMAIN Tail(q) = 1..(Len(q) - 1)
  BY <1>2, <1>3, LenProperties
<1> DEFINE t == Tail(q)
           n == Len(q)
<1>5. n \in Nat /\ n # 0 /\ DOMAIN q = 1..n /\ DOMAIN t = 1..(n - 1) /\ \A i \in 1..(n - 1) : t[i] = q[i + 1]
  BY <1>1, <1>3, <1>4
<1> HIDE DEF t, n
<1>6. ASSUME NEW e \in ToSet(q) PROVE e = q[1] \/ e \in ToSet(t)
  <2>1. PICK i \in 1..n : e = q[i]
    BY <1>5, <1>6 DEF ToSet
  <2>2. CASE i # 1
    <3>1. i - 1 \in 1..(n - 1) /\ (i - 1) + 1 = i
      BY <1>5, <2>2
    <3>2. t[i - 1] = e
      BY <1>5, <2>1, <3>1
    <3> QED BY <1>5, <3>1, <3>2 DEF ToSet
  <2> QED BY <2>1, <2>2
<1>7. ASSUME NEW e \in ToSet(t) PROVE e \in ToSet(q)
  <2>1. PICK i \in 1..(n - 1) : e = t[i]
    BY <1>5, <1>7 DEF ToSet
  <2>2. i + 1 \in 1..n /\ e = q[i + 1]
    BY <1>5, <2>1
  <2> QED BY <1>5, <2>2 DEF ToSet
<1>8. q[1] \in ToSet(q)
  BY <1>5 DEF ToSet
<1>9. ToSet(q) = {q[1]} \cup ToSet(t)
  BY <1>6, <1>7, <1>8
<1> QED BY <1>2, <1>9 DEF t

LEMMA GoalReads ==
    ASSUME Context, NEW x
    PROVE  Support(GoalCSP, x, GoalCSP.nullary \cup GoalCSP.looked) = Reading(GoalCSP, x)
<1>1. PICK a, bound, conds, effs : GoalCSP = CSP(a, bound, conds, effs)
  BY GoalFacts DEF IsCSP
<1>2. \A t \in GoalCSP.nullary \cup GoalCSP.looked : IsFluent(t)
  <2>1. \A t : IsPredicate(t) => IsFluent(t)
    BY DEF IsPredicate
  <2> QED BY <1>1, <2>1, CSPIs
<1>3. {u \in GoalCSP.nullary \cup GoalCSP.looked : IsFluent(u)} = GoalCSP.nullary \cup GoalCSP.looked
  BY <1>2
<1> QED BY <1>3 DEF Support, Reading

LEMMA ExtractStart ==
    ASSUME BuildInv, ExtractInv, GoalReached
    PROVE  ExtractInv'
<1>1. /\ pc = "goal" /\ UNCHANGED <<task, config, seed, managers, graph, idx, cache>>
      /\ processed = {} /\ relevant = {} /\ Context /\ h = 0
  BY DEF GoalReached, ExtractInv, BuildInv, Bookkeeping
<1>2. PICK x \in Solutions(GoalCSP, CurrentView) :
        LET support == Support(GoalCSP, x, GoalCSP.nullary \cup GoalCSP.looked)
        IN  IF config.hmax THEN pc' = "done" /\ h' = layer /\ UNCHANGED extraction
            ELSE /\ pc' = "extract" /\ causes' = support /\ pending' = Ordered(support)
                 /\ UNCHANGED <<processed, relevant, h>>
  BY DEF GoalReached
<1>3. CASE config.hmax
  <2>1. pc' = "done" /\ UNCHANGED extraction /\ config'.hmax
    BY <1>1, <1>2, <1>3
  <2> QED BY <1>1, <2>1, ExtractFrame
<1>4. CASE ~config.hmax
  <2>1. /\ pc' = "extract" /\ causes' = Reading(GoalCSP, x) /\ pending' = Ordered(Reading(GoalCSP, x))
        /\ processed' = {} /\ relevant' = {}
    BY <1>1, <1>2, <1>4, GoalReads
  <2>2. ~(pc' = "done" /\ h' > 0 /\ ~config'.hmax) /\ ~(pc' \notin {"extract", "done"})
    BY <2>1
  <2>3. ASSUME SymbolsManaged PROVE Extracting'
    <3>1. PICK F \in SUBSET AllAtoms : Building(F)
      BY <2>3 DEF BuildInv
    <3>2. Graph(F)
      BY <1>1, <3>1 DEF Building, HasGraph
    <3>3. domains = DomainsOf(Shown) /\ extension = Managed(Shown) /\ Reached \in SUBSET AllAtoms
      BY <3>2 DEF Graph, Layers
    <3>4. Shown \subseteq Reached /\ Shown \in SUBSET AllAtoms
      BY <3>3 DEF Shown
    <3>5. IsCSP(GoalCSP) /\ Within(GoalCSP, AllAtoms) = GoalCSP
      BY <1>1, GoalFacts, CSPFacts
    <3>6. x \in Solutions(Within(GoalCSP, AllAtoms), CurrentView)
      BY <1>2, <3>5
    <3>7. /\ Meets(GoalCSP, x) /\ (\A t \in GoalCSP.nullary : AtomIn(GoalCSP, x, t) \in Reached)
          /\ (\A t \in GoalCSP.looked : AtomIn(GoalCSP, x, t) \in Shown \cap AllAtoms)
      BY <1>1, <2>3, <3>3, <3>4, <3>6, NowSolutions
    <3>8. Reading(GoalCSP, x) \in SUBSET Reached
      BY <3>4, <3>7 DEF Reading
    <3>9. IsFiniteSet(Reading(GoalCSP, x))
      BY <3>3, <3>8, AllAtomsFinite, FS_Subset
    <3>10. GoalCSP' = GoalCSP /\ Reached' = Reached
      BY <1>1, HandlersStay, GraphFrame
    <3>11. PICK R, g, rd : R = Reached /\ g = GoalCSP /\ rd = Reading(GoalCSP, x)
      OBVIOUS
    <3>12. pending' \in Seq(R) /\ ToSet(pending') = rd
      <4>1. Ordered(rd) \in Seq(rd) /\ ToSet(Ordered(rd)) = rd
        BY <3>9, <3>11, OrderedFacts
      <4>2. rd \subseteq R
        BY <3>8, <3>11
      <4>3. Seq(rd) \subseteq Seq(R)
        BY <4>2, SeqMonotonic
      <4> QED BY <2>1, <3>11, <4>1, <4>3
    <3>13. (\E y : Meets(GoalCSP, y) /\ causes = Reading(GoalCSP, y))'
      <4>1. Meets(GoalCSP', x) /\ causes' = Reading(GoalCSP', x)
        BY <2>1, <3>7, <3>10
      <4> QED BY <4>1
    <3>14. causes' = rd /\ Reached' = R
      BY <2>1, <3>10, <3>11
    <3> HIDE DEF Reached
    <3> QED BY <2>1, <3>12, <3>13, <3>14 DEF Extracting
  <2>4. SymbolsManaged' = SymbolsManaged
    BY <1>1, TaskFrame
  <2>5. ~(pc \notin {"extract", "done"})' /\ ~(pc = "done" /\ h > 0 /\ ~config.hmax)'
    BY <2>2
  <2> QED BY <2>3, <2>4, <2>5 DEF ExtractInv
<1> QED BY <1>3, <1>4

LEMMA TupleSupports ==
    ASSUME BuildInv, SymbolsManaged, pc = "extract"
    PROVE  /\ Reached \in SUBSET AllAtoms /\ \A a \in Reached : reached[a].support \in SUBSET Reached
<1>1. PICK F \in SUBSET AllAtoms : Building(F)
  BY DEF BuildInv
<1>2. Graph(F) /\ Context
  BY <1>1 DEF Building, HasGraph, BuildInv, Bookkeeping
<1>3. Reached \in SUBSET AllAtoms
  BY <1>2 DEF Graph
<1> QED BY <1>2, <1>3, SupportsReached

LEMMA ExtractTuple ==
    ASSUME BuildInv, ExtractInv, ProcessTuple
    PROVE  ExtractInv'
<1>1. pc = "extract" /\ pending # << >> /\ UNCHANGED <<task, config, pc, seed, managers, graph, idx, cache, causes, h>>
  BY DEF ProcessTuple
<1>2. UNCHANGED <<task, config, seed, graph>> /\ UNCHANGED <<task, config>>
  BY <1>1
<1>3. SymbolsManaged' = SymbolsManaged /\ Reached' = Reached /\ GoalCSP' = GoalCSP
  BY <1>2, TaskFrame, GraphFrame, HandlersStay
<1>4. ASSUME SymbolsManaged PROVE Extracting'
  <2> DEFINE a == Head(pending)
             known == AtomsOf(seed) \cup processed \cup ToSet(pending)
  <2>1. Extracting
    BY <1>1, <1>4 DEF ExtractInv, HasPlan
  <2>2. /\ processed \subseteq Reached \ AtomsOf(seed) /\ pending \in Seq(Reached) /\ causes \subseteq known
        /\ (\A b \in processed : reached[b].support \subseteq known)
        /\ relevant = {b \in processed : ReportsRelevant /\ reached[b].layer = 1}
    BY <2>1 DEF Extracting
  <2>3. (\E x : Meets(GoalCSP, x) /\ causes = Reading(GoalCSP, x))'
    <3>1. PICK x : Meets(GoalCSP, x) /\ causes = Reading(GoalCSP, x)
      BY <2>1 DEF Extracting
    <3>2. Meets(GoalCSP', x) /\ causes' = Reading(GoalCSP', x)
      BY <1>1, <1>3, <3>1
    <3> QED BY <3>2
  <2>4. a \in Reached /\ Tail(pending) \in Seq(Reached) /\ ToSet(pending) = {a} \cup ToSet(Tail(pending))
    BY <1>1, <2>2, SequenceFacts
  <2>5. UNCHANGED <<seed, reached, causes, pc>> /\ ReportsRelevant' = ReportsRelevant
    BY <1>1 DEF graph, ReportsRelevant, Mode
  <2> HIDE DEF a, Reached
  <2>6. CASE a \in AtomsOf(seed) \cup processed
    <3>1. pending' = Tail(pending) /\ processed' = processed /\ relevant' = relevant
      BY <2>6 DEF ProcessTuple, a
    <3>2. (AtomsOf(seed) \cup processed \cup ToSet(pending))' = known
      BY <2>4, <2>5, <2>6, <3>1
    <3>3. (\A b \in processed : reached[b].support \subseteq AtomsOf(seed) \cup processed \cup ToSet(pending))'
          /\ (causes \subseteq AtomsOf(seed) \cup processed \cup ToSet(pending))'
      BY <2>2, <2>5, <3>1, <3>2
    <3>4. (processed \subseteq Reached \ AtomsOf(seed) /\ pending \in Seq(Reached)
           /\ relevant = {b \in processed : ReportsRelevant /\ reached[b].layer = 1})'
      BY <1>3, <2>2, <2>4, <2>5, <3>1
    <3> QED BY <2>3, <3>3, <3>4 DEF Extracting
  <2>7. CASE a \notin AtomsOf(seed) \cup processed
    <3>1. /\ pending' = Tail(pending) \o Ordered(reached[a].support) /\ processed' = processed \cup {a}
          /\ relevant' = relevant \cup {b \in {a} : ReportsRelevant /\ reached[b].layer = 1}
      BY <2>7 DEF ProcessTuple, a, Enqueued, IsRelevant
    <3>2. reached[a].support \in SUBSET Reached /\ IsFiniteSet(reached[a].support)
      <4>1. Reached \in SUBSET AllAtoms /\ reached[a].support \in SUBSET Reached
        BY <1>1, <1>4, <2>4, TupleSupports
      <4> QED BY <4>1, AllAtomsFinite, FS_Subset
    <3>3. PICK S : S = reached[a].support
      OBVIOUS
    <3>4. Ordered(S) \in Seq(Reached) /\ ToSet(Ordered(S)) = S
      <4>1. Ordered(S) \in Seq(S) /\ ToSet(Ordered(S)) = S
        BY <3>2, <3>3, OrderedFacts
      <4>2. Seq(S) \subseteq Seq(Reached)
        BY <3>2, <3>3, SeqMonotonic
      <4> QED BY <4>1, <4>2
    <3>5. Tail(pending) \o Ordered(S) \in Seq(Reached)
          /\ ToSet(Tail(pending) \o Ordered(S)) = ToSet(Tail(pending)) \cup S
      <4>1. PICK R, s, t : R = Reached /\ s = Tail(pending) /\ t = Ordered(S)
        OBVIOUS
      <4>2. s \in Seq(R) /\ t \in Seq(R)
        BY <2>4, <3>4, <4>1
      <4>3. s \o t \in Seq(R) /\ ToSet(s \o t) = ToSet(s) \cup ToSet(t)
        BY <4>2, ToSetConcat
      <4> QED BY <3>4, <4>1, <4>3
    <3>6. (AtomsOf(seed) \cup processed \cup ToSet(pending))' = known \cup S
      BY <2>4, <2>5, <3>1, <3>3, <3>5
    <3> HIDE DEF known
    <3>7. (\A b \in processed : reached[b].support \subseteq AtomsOf(seed) \cup processed \cup ToSet(pending))'
          /\ (causes \subseteq AtomsOf(seed) \cup processed \cup ToSet(pending))'
      BY <2>2, <2>5, <3>1, <3>3, <3>6
    <3>8. (processed \subseteq Reached \ AtomsOf(seed))'
      BY <1>3, <2>2, <2>4, <2>5, <2>7, <3>1
    <3>9. (pending \in Seq(Reached))'
      BY <1>3, <3>1, <3>3, <3>5
    <3>10. (relevant = {b \in processed : ReportsRelevant /\ reached[b].layer = 1})'
      BY <2>2, <2>5, <3>1
    <3> QED BY <2>3, <3>7, <3>8, <3>9, <3>10 DEF Extracting
  <2> QED BY <2>6, <2>7
<1>5. ~(pc \notin {"extract", "done"})' /\ ~(pc = "done" /\ h > 0 /\ ~config.hmax)'
  BY <1>1
<1> QED BY <1>3, <1>4, <1>5 DEF ExtractInv

LEMMA ExtractEnd ==
    ASSUME BuildInv, ExtractInv, BuildRelaxedPlan
    PROVE  ExtractInv'
<1>1. pc = "extract" /\ pending = << >> /\ pc' = "done" /\ h' = Cardinality(processed)
      /\ UNCHANGED <<task, config, seed, managers, graph, idx, cache, extraction>>
  BY DEF BuildRelaxedPlan
<1>2. UNCHANGED <<task, config, seed, graph>> /\ UNCHANGED <<task, config>>
  BY <1>1
<1>3. SymbolsManaged' = SymbolsManaged /\ Reached' = Reached /\ GoalCSP' = GoalCSP
  BY <1>2, TaskFrame, GraphFrame, HandlersStay
<1>4. UNCHANGED <<causes, pending, processed, relevant, seed, reached>> /\ ReportsRelevant' = ReportsRelevant
  BY <1>1 DEF extraction, graph, ReportsRelevant, Mode
<1>5. Extracting' = Extracting
  BY <1>3, <1>4 DEF Extracting
<1>6. SymbolsManaged => Extracting
  BY <1>1 DEF ExtractInv, HasPlan
<1>7. h' > 0 => processed # {}
  BY <1>1, FS_EmptySet
<1> QED BY <1>1, <1>3, <1>4, <1>5, <1>6, <1>7 DEF ExtractInv

LEMMA ExtractStep == ExtractInv /\ BuildInv /\ [Next \/ Terminating]_vars => ExtractInv'
<1> SUFFICES ASSUME ExtractInv, BuildInv, [Next \/ Terminating]_vars PROVE ExtractInv'
  OBVIOUS
<1>1. CASE SearchStep \/ Terminating \/ UNCHANGED vars
  <2>1. UNCHANGED <<task, config, pc, seed, graph, extraction, h>>
    BY <1>1 DEF SearchStep, Terminating, vars, evaluation
  <2>2. SymbolsManaged' = SymbolsManaged /\ Reached' = Reached /\ GoalCSP' = GoalCSP
    BY <2>1, TaskFrame, GraphFrame, HandlersStay
  <2>3. UNCHANGED <<causes, pending, processed, relevant, seed, reached>> /\ ReportsRelevant' = ReportsRelevant
    BY <2>1 DEF extraction, graph, ReportsRelevant, Mode
  <2>4. Extracting' = Extracting
    BY <2>2, <2>3 DEF Extracting
  <2>5. HasPlan' = HasPlan
    BY <2>1 DEF HasPlan
  <2>6. (pc \notin {"extract", "done"})' = (pc \notin {"extract", "done"})
        /\ (pc = "done" /\ h > 0 /\ ~config.hmax)' = (pc = "done" /\ h > 0 /\ ~config.hmax)
    BY <2>1
  <2> QED BY <2>2, <2>3, <2>4, <2>5, <2>6 DEF ExtractInv
<1>2. CASE CreateHandlers \/ Evaluate \/ ProcessHandler \/ ProcessAtom \/ NextLayer \/ FullLayer \/ GoalUnreached
  <2>1. pc \in {"start", "full", "evaluate", "layer", "goal"} /\ UNCHANGED extraction
        /\ pc' # "extract" /\ (pc' = "done" => h' = h \/ h' = -1)
    BY <1>2 DEF CreateHandlers, Evaluate, ProcessHandler, ProcessAtom, NextLayer, FullLayer, GoalUnreached
  <2>2. pc # "done" => h = 0
    BY DEF BuildInv, Bookkeeping
  <2>3. pc' = "done" => ~(h' > 0)
    <3>1. ~(0 > 0) /\ ~(-1 > 0)
      OBVIOUS
    <3> QED BY <2>1, <2>2, <3>1
  <2> QED BY <2>1, <2>3, ExtractFrame
<1> QED BY <1>1, <1>2, ExtractStart, ExtractTuple, ExtractEnd DEF Next, Heuristic

LEMMA ExtractAlways == Spec => []ExtractInv
BY ExtractInit, ExtractStep, GraphInvariant, PTL DEF Spec

-----------------------------------------------------------------------------
(***************************************************************************)
(* Helpful atoms.                                                          *)
(***************************************************************************)
\* What the plan's atoms and the graph are when the plan is there.
LEMMA PlanFacts ==
    ASSUME BuildInv, ExtractInv, SymbolsManaged, pc = "done", h > 0, ~config.hmax
    PROVE  /\ Context /\ StateOK(seed) /\ Reached \in SUBSET AllAtoms /\ Layers /\ Explained /\ Grounded /\ Complete
           /\ novel = {}
           /\ processed # {} /\ processed \subseteq Reached \ AtomsOf(seed)
           /\ \E x : Meets(GoalCSP, x) /\ causes = Reading(GoalCSP, x)
           /\ causes \subseteq AtomsOf(seed) \cup processed
           /\ \A a \in processed : reached[a].support \subseteq AtomsOf(seed) \cup processed
           /\ relevant = {a \in processed : ReportsRelevant /\ reached[a].layer = 1}
<1>1. PICK F \in SUBSET AllAtoms : Building(F)
  BY DEF BuildInv
<1>2. h # 0
  <2>1. ~(0 > 0)
    OBVIOUS
  <2> QED BY <2>1
<1>3. Graph(F) /\ novel = {} /\ Context /\ StateOK(seed)
  BY <1>1, <1>2 DEF Building, HasGraph, BuildInv, Bookkeeping
<1>4. Reached \in SUBSET AllAtoms /\ Layers /\ Explained /\ Grounded /\ Complete
  BY <1>3 DEF Graph
<1>5. Extracting /\ pending = << >> /\ processed # {}
  BY DEF ExtractInv, HasPlan
<1>6. ToSet(pending) = {}
  BY <1>5 DEF ToSet
<1>7. AtomsOf(seed) \cup processed \cup ToSet(pending) = AtomsOf(seed) \cup processed
  BY <1>6
<1> HIDE DEF Reached
<1> QED BY <1>3, <1>4, <1>5, <1>7 DEF Extracting

LEMMA HelpfulAtoms == BuildInv /\ ExtractInv => (SymbolsManaged => HelpfulAtomsExist)
<1> SUFFICES ASSUME BuildInv, ExtractInv, SymbolsManaged, pc = "done", h > 0, Mode = "smart"
             PROVE  relevant \cap Derived(ToSet(Handlers), AtomsOf(seed)) # {}
  BY DEF HelpfulAtomsExist
<1>0. ~config.hmax
  <2>1. Context
    BY DEF BuildInv, Bookkeeping
  <2> QED BY <2>1, ConfigsAssumption DEF Context, Mode
<1> DEFINE D == Reached \ processed
           S == AtomsOf(seed)
<1>1. /\ Context /\ StateOK(seed) /\ Reached \in SUBSET AllAtoms /\ Layers /\ Explained /\ Grounded /\ Complete
      /\ novel = {} /\ processed # {} /\ processed \subseteq Reached \ S
      /\ \A a \in processed : reached[a].support \subseteq S \cup processed
      /\ relevant = {a \in processed : reached[a].layer = 1}
  BY <1>0, PlanFacts DEF ReportsRelevant
<1>2. ToSet(Handlers) = HS /\ \A c \in HS : IsHandler(c)
  BY <1>1, ContextFacts, HandlersAll
<1>3. S \in SUBSET AllAtoms
  BY AtomsTyped
<1>4. PICK a \in Reached : reached[a].support \subseteq D /\ a \notin D
  <2>1. D \in SUBSET AllAtoms
    BY <1>1
  <2>2. ~(Reached \subseteq D)
    BY <1>1
  <2> HIDE DEF D
  <2>3. ASSUME \A b \in Reached : reached[b].support \subseteq D => b \in D PROVE FALSE
    BY <1>1, <2>1, <2>2, <2>3 DEF Grounded
  <2> QED BY <2>3
<1>5. a \in processed /\ a \notin S /\ reached[a].support \subseteq S
  BY <1>1, <1>4
<1>6. PICK c \in HS : \E x : \E i \in DOMAIN c.effs : Why(c, x, i, a)
  BY <1>1, <1>4, <1>5 DEF Explained
<1>7. PICK x : \E i \in DOMAIN c.effs : Why(c, x, i, a)
  BY <1>6
<1>8. PICK i \in DOMAIN c.effs : Why(c, x, i, a)
  BY <1>7
<1>9. Meets(c, x) /\ a = Produced(c, x, i) /\ Reading(c, x) \subseteq S
  <2>1. Meets(c, x) /\ a = Produced(c, x, i) /\ reached[a].support \in SupportsOf(c, x, i)
    BY <1>8 DEF Why
  <2>2. EffectSupport(c, x, i) \subseteq S
    BY <1>5, <2>1, SupportsOfFacts
  <2>3. DOMAIN c.effs = {1}
    BY <1>1, ContextFacts, HandlersTyped
  <2> QED BY <1>2, <2>1, <2>2, <2>3, HandlerFacts
<1>10. a \in Derived(HS, S)
  <2> HIDE DEF S
  <2>1. \A b \in HS : \A z : \A j \in DOMAIN b.effs :
            Meets(b, z) /\ Reading(b, z) \subseteq S => Produced(b, z, j) \in Derived(HS, S)
    BY <1>2, <1>3, DerivedFacts
  <2> QED BY <1>9, <2>1
<1>11. reached[a].layer = 1
  <2>1. /\ layer \in Nat \ {0} /\ reached[a].layer \in 0..layer /\ reached[a].layer # 0
        /\ reached[a].layer # layer
        /\ \A b \in Reached : reached[b].layer \in 0..layer
    BY <1>1, <1>5 DEF Layers
  <2>2. 0 + 1 < layer
    BY <2>1
  <2>3. Derived(HS, UpToLayer(0)) \subseteq UpToLayer(0 + 1)
    BY <1>1, <2>2 DEF Complete
  <2>4. UpToLayer(0) = S
    <3>1. S \subseteq Reached /\ \A b \in Reached : reached[b].layer = 0 <=> b \in S
      BY <1>1 DEF Layers
    <3>2. \A b \in Reached : reached[b].layer <= 0 <=> reached[b].layer = 0
      BY <2>1
    <3> QED BY <3>1, <3>2 DEF UpToLayer
  <2>5. reached[a].layer <= 0 + 1
    BY <1>10, <2>3, <2>4 DEF UpToLayer
  <2> QED BY <2>1, <2>5
<1> QED BY <1>1, <1>2, <1>5, <1>10, <1>11

\* A positive value of the smart drivers, the only ones that get the relevant
\* atoms, comes with a helpful action: some atom of the plan is in the first
\* layer and an applicable action of the seed adds it (ehc.hxx:59).
THEOREM HelpfulActionsExist == Spec => [](SymbolsManaged => HelpfulAtomsExist)
BY HelpfulAtoms, GraphInvariant, ExtractAlways, PTL

-----------------------------------------------------------------------------
(***************************************************************************)
(* The relaxed plan, replayed.                                             *)
(***************************************************************************)
\* What the actions P of the handlers H add to the atoms A.
Replayed(H, P, A) ==
    A \cup UNION {UNION {{Produced(c, x, i) : i \in DOMAIN c.effs}
                            : x \in {y \in Solutions(c, ViewOf(A)) : ActionOf(c, y) \in P}}
                     : c \in H}

IsReplay(g, H, P) == g = [k \in Nat |-> IF k = 0 THEN AtomsOf(seed) ELSE Replayed(H, P, g[k - 1])]
Replay(H, P) == CHOOSE g : IsReplay(g, H, P)

LEMMA ReplayedFacts ==
    ASSUME NEW H, \A c \in H : IsHandler(c), NEW P, NEW A \in SUBSET AllAtoms
    PROVE  /\ Replayed(H, P, A) \in SUBSET AllAtoms /\ A \subseteq Replayed(H, P, A)
           /\ \A c \in H : \A x : \A i \in DOMAIN c.effs :
                 Meets(c, x) /\ Reading(c, x) \subseteq A /\ ActionOf(c, x) \in P => Produced(c, x, i) \in Replayed(H, P, A)
<1>1. \A p : p \in Replayed(H, P, A) <=>
         p \in A \/ \E c \in H : \E x \in Solutions(c, ViewOf(A)) : ActionOf(c, x) \in P /\ \E i \in DOMAIN c.effs : p = Produced(c, x, i)
  BY DEF Replayed
<1>2. \A c \in H : \A x : x \in Solutions(c, ViewOf(A)) <=> Meets(c, x) /\ Reading(c, x) \subseteq A
  BY CSPFacts DEF IsHandler
<1>3. \A c \in H : \A x : \A i \in DOMAIN c.effs : Meets(c, x) => Produced(c, x, i) \in AllAtoms
  BY HandlerFacts
<1>4. Replayed(H, P, A) \in SUBSET AllAtoms
  <2> SUFFICES ASSUME NEW p \in Replayed(H, P, A) PROVE p \in AllAtoms
    OBVIOUS
  <2>1. CASE p \notin A
    <3>1. PICK c \in H : \E x \in Solutions(c, ViewOf(A)) : \E i \in DOMAIN c.effs : p = Produced(c, x, i)
      BY <1>1, <2>1
    <3>2. PICK x \in Solutions(c, ViewOf(A)) : \E i \in DOMAIN c.effs : p = Produced(c, x, i)
      BY <3>1
    <3> QED BY <1>2, <1>3, <3>2
  <2> QED BY <2>1
<1>5. A \subseteq Replayed(H, P, A)
  BY <1>1
<1>6. \A c \in H : \A x : \A i \in DOMAIN c.effs :
                 Meets(c, x) /\ Reading(c, x) \subseteq A /\ ActionOf(c, x) \in P => Produced(c, x, i) \in Replayed(H, P, A)
  BY <1>1, <1>2
<1> QED BY <1>4, <1>5, <1>6

LEMMA ReplayIs ==
    ASSUME NEW H, \A c \in H : IsHandler(c), NEW P
    PROVE  /\ Replay(H, P) \in [Nat -> SUBSET AllAtoms]
           /\ Replay(H, P)[0] = AtomsOf(seed)
           /\ \A n \in Nat : Replay(H, P)[n + 1] = Replayed(H, P, Replay(H, P)[n])
<1> DEFINE D == SUBSET AllAtoms
           step == [A \in D |-> Replayed(H, P, A)]
           base == AtomsOf(seed)
<1>1. base \in D
  BY AtomsTyped
<1>2. step \in [D -> D]
  <2>1. \A A \in D : Replayed(H, P, A) \in D
    BY ReplayedFacts
  <2> QED BY <2>1
<1>3. \A A \in D : step[A] = Replayed(H, P, A)
  OBVIOUS
<1> HIDE DEF D, step
<1>4. PICK f \in [Nat -> D] : f[0] = base /\ \A n \in Nat : f[n + 1] = step[f[n]]
  BY <1>1, <1>2, Iterates
<1>5. f = [n \in Nat |-> IF n = 0 THEN base ELSE Replayed(H, P, f[n - 1])]
  <2>1. ASSUME NEW n \in Nat, n # 0 PROVE f[n] = Replayed(H, P, f[n - 1])
    <3>1. n - 1 \in Nat /\ (n - 1) + 1 = n
      BY <2>1
    <3>2. f[n] = step[f[n - 1]]
      BY <1>4, <3>1
    <3> QED BY <1>3, <1>4, <3>1, <3>2
  <2>2. f = [n \in Nat |-> f[n]]
    OBVIOUS
  <2>3. \A n \in Nat : f[n] = IF n = 0 THEN base ELSE Replayed(H, P, f[n - 1])
    BY <1>4, <2>1
  <2> QED BY <2>2, <2>3
<1>6. IsReplay(f, H, P)
  BY <1>5 DEF IsReplay
<1> DEFINE g == Replay(H, P)
<1>7. IsReplay(g, H, P)
  BY <1>6 DEF Replay
<1> HIDE DEF g
<1>8. g = [n \in Nat |-> IF n = 0 THEN base ELSE Replayed(H, P, g[n - 1])]
  BY <1>7 DEF IsReplay
<1>9. g[0] = base /\ \A n \in Nat : g[n + 1] = Replayed(H, P, g[n])
  <2>1. g[0] = base
    BY <1>8
  <2>2. ASSUME NEW n \in Nat PROVE g[n + 1] = Replayed(H, P, g[n])
    <3>1. n + 1 \in Nat /\ n + 1 # 0 /\ (n + 1) - 1 = n
      OBVIOUS
    <3>2. g[n + 1] = Replayed(H, P, g[(n + 1) - 1])
      BY <1>8, <3>1
    <3> QED BY <3>1, <3>2
  <2> QED BY <2>1, <2>2
<1> DEFINE N == {n \in Nat : g[n] \in D}
<1>10. 0 \in N
  BY <1>1, <1>9
<1>11. ASSUME NEW n \in N PROVE n + 1 \in N
  <2>1. g[n] \in D /\ n \in Nat /\ g[n + 1] = step[g[n]]
    BY <1>3, <1>9
  <2> QED BY <1>2, <2>1
<1>12. N \in SUBSET Nat
  OBVIOUS
<1> HIDE DEF N
<1>13. N = Nat
  BY <1>10, <1>11, <1>12, Induction
<1>14. \A n \in Nat : g[n] \in D
  BY <1>13 DEF N
<1>15. g \in [Nat -> D]
  <2>1. g = [n \in Nat |-> g[n]]
    BY <1>8
  <2> QED BY <1>14, <2>1
<1> QED BY <1>9, <1>15 DEF D, g

\* The replay ends in atoms that nothing is added to.
LEMMA ReplayEnds ==
    ASSUME NEW H, \A c \in H : IsHandler(c), NEW P
    PROVE  LET E == Replay(H, P)[Cardinality(AllAtoms)]
           IN  E \in SUBSET AllAtoms /\ AtomsOf(seed) \subseteq E /\ \E A \in SUBSET E : AtomsOf(seed) \subseteq A /\ Replayed(H, P, A) = A
<1> DEFINE L == Replay(H, P)
<1>1. L \in [Nat -> SUBSET AllAtoms] /\ L[0] = AtomsOf(seed) /\ \A n \in Nat : L[n + 1] = Replayed(H, P, L[n])
  BY ReplayIs
<1> HIDE DEF L
<1>2. \A n \in Nat : L[n] \in SUBSET AllAtoms
  BY <1>1
<1>3. \A n \in Nat : L[n] \subseteq L[n + 1]
  <2>1. \A A \in SUBSET AllAtoms : A \subseteq Replayed(H, P, A)
    BY ReplayedFacts
  <2> QED BY <1>1, <1>2, <2>1
<1>4. \A m, n \in Nat : m <= n => L[m] \subseteq L[n]
  BY <1>3, Growing
<1>5. PICK k \in 0..Cardinality(AllAtoms) : L[k + 1] = L[k]
  BY <1>1, <1>3, AllAtomsFinite, Saturation
<1>6. k \in Nat /\ Cardinality(AllAtoms) \in Nat /\ k <= Cardinality(AllAtoms) /\ 0 <= k
  BY AllAtomsFinite, FS_CardinalityType
<1>7. L[k] \subseteq L[Cardinality(AllAtoms)] /\ L[0] \subseteq L[k]
  BY <1>4, <1>6
<1>8. Replayed(H, P, L[k]) = L[k]
  BY <1>1, <1>5, <1>6
<1> QED BY <1>1, <1>2, <1>6, <1>7, <1>8 DEF L

\* The atoms of the plan are produced by its own actions.
LEMMA PlanReplays ==
    ASSUME BuildInv, ExtractInv, SymbolsManaged, EffectsStayInBounds, SupportsWhole, pc = "done", h > 0, ~config.hmax,
           NEW P, P = {reached[a].action : a \in processed},
           NEW D \in SUBSET AllAtoms, AtomsOf(seed) \subseteq D, Replayed(HS, P, D) = D
    PROVE  Solutions(GoalCSP, ViewOf(D)) # {}
<1> DEFINE S == AtomsOf(seed)
           E == {a \in Reached : a \in processed \cup S => a \in D}
<1>1. /\ Context /\ StateOK(seed) /\ Reached \in SUBSET AllAtoms /\ Layers /\ Explained /\ Grounded
      /\ processed \subseteq Reached \ S
      /\ \E x : Meets(GoalCSP, x) /\ causes = Reading(GoalCSP, x)
      /\ causes \subseteq S \cup processed
      /\ \A a \in processed : reached[a].support \subseteq S \cup processed
  BY PlanFacts
<1>2. \A c \in HS : IsHandler(c)
  BY <1>1, ContextFacts
<1>3. S \in SUBSET AllAtoms
  BY AtomsTyped
<1>4. ASSUME NEW a \in Reached, reached[a].support \subseteq E PROVE a \in E
  <2> SUFFICES ASSUME a \in processed PROVE a \in D
    BY <1>1
  <2>1. reached[a].support \subseteq D
    BY <1>1, <1>4
  <2>2. a \notin S /\ reached[a].action \in P
    BY <1>1
  <2>3. PICK c \in HS : \E x : \E i \in DOMAIN c.effs : Why(c, x, i, a)
    BY <1>1, <2>2 DEF Explained
  <2>4. PICK x : \E i \in DOMAIN c.effs : Why(c, x, i, a)
    BY <2>3
  <2>5. PICK i \in DOMAIN c.effs : Why(c, x, i, a)
    BY <2>4
  <2>6. /\ Meets(c, x) /\ a = Produced(c, x, i) /\ ActionOf(c, x) \in P
        /\ reached[a].support \in SupportsOf(c, x, i) /\ reached[a].support \subseteq D
    BY <2>1, <2>2, <2>5 DEF Why
  <2>7. PICK y : /\ Meets(c, y) /\ Reading(c, y) \subseteq D
                 /\ Produced(c, y, i) = Produced(c, x, i) /\ ActionOf(c, y) = ActionOf(c, x)
    BY <1>1, <2>6, SupportSuffices
  <2>8. \A b \in HS : \A z : \A j \in DOMAIN b.effs :
            Meets(b, z) /\ Reading(b, z) \subseteq D /\ ActionOf(b, z) \in P => Produced(b, z, j) \in Replayed(HS, P, D)
    BY <1>2, ReplayedFacts
  <2>9. Produced(c, y, i) \in Replayed(HS, P, D)
    BY <2>6, <2>7, <2>8
  <2> QED BY <2>6, <2>7, <2>9
<1>5. E \in SUBSET AllAtoms
  BY <1>1
<1>6. Reached \subseteq E
  <2> HIDE DEF E
  <2> QED BY <1>1, <1>4, <1>5 DEF Grounded
<1>7. causes \subseteq D
  <2>1. S \cup processed \subseteq D
    BY <1>1, <1>6
  <2> QED BY <1>1, <2>1
<1>8. PICK x : Meets(GoalCSP, x) /\ causes = Reading(GoalCSP, x)
  BY <1>1
<1>9. IsCSP(GoalCSP)
  BY <1>1, GoalFacts
<1>10. x \in Solutions(GoalCSP, ViewOf(D))
  BY <1>7, <1>8, <1>9, CSPFacts
<1> QED BY <1>10

LEMMA ReplayReaches ==
    RelaxedPlanReachesGoal <=>
        (pc = "done" /\ h > 0 /\ ~config.hmax =>
            Solutions(GoalCSP, ViewOf(Replay(ToSet(Handlers), {reached[a].action : a \in processed})[Cardinality(AllAtoms)])) # {})
BY DEF RelaxedPlanReachesGoal, Replay, IsReplay, Replayed

LEMMA PlanReachesGoal == BuildInv /\ ExtractInv => (SymbolsManaged /\ EffectsStayInBounds /\ SupportsWhole => RelaxedPlanReachesGoal)
<1> SUFFICES ASSUME BuildInv, ExtractInv, SymbolsManaged, EffectsStayInBounds, SupportsWhole, pc = "done", h > 0, ~config.hmax
             PROVE  Solutions(GoalCSP, ViewOf(Replay(ToSet(Handlers), {reached[a].action : a \in processed})[Cardinality(AllAtoms)])) # {}
  BY ReplayReaches
<1>1. Context
  BY DEF BuildInv, Bookkeeping
<1>2. ToSet(Handlers) = HS /\ (\A c \in HS : IsHandler(c)) /\ IsCSP(GoalCSP)
  BY <1>1, ContextFacts, HandlersAll, GoalFacts
<1>3. PICK P : P = {reached[a].action : a \in processed}
  OBVIOUS
<1> DEFINE E == Replay(HS, P)[Cardinality(AllAtoms)]
<1>4. E \in SUBSET AllAtoms /\ \E A \in SUBSET E : AtomsOf(seed) \subseteq A /\ Replayed(HS, P, A) = A
  BY <1>2, ReplayEnds
<1> HIDE DEF E
<1>5. PICK A \in SUBSET E : AtomsOf(seed) \subseteq A /\ Replayed(HS, P, A) = A
  BY <1>4
<1>6. Solutions(GoalCSP, ViewOf(A)) # {}
  BY <1>3, <1>4, <1>5, PlanReplays
<1>7. PICK x : x \in Solutions(GoalCSP, ViewOf(A))
  BY <1>6
<1>8. x \in Solutions(GoalCSP, ViewOf(E))
  BY <1>2, <1>4, <1>5, <1>7, CSPFacts
<1> QED BY <1>2, <1>3, <1>8 DEF E

\* The relaxed plan is one: its actions, applied without their deletes, reach
\* the goal from the seed, although every atom was supported on its own.  It
\* needs supports that are recorded whole: otherwise an achiever can be left
\* out (base_action_csp.cxx:279).
THEOREM RelaxedPlansReachGoal == Spec => [](SymbolsManaged /\ EffectsStayInBounds /\ SupportsWhole => RelaxedPlanReachesGoal)
BY PlanReachesGoal, GraphInvariant, ExtractAlways, PTL
=============================================================================
