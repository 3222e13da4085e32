-------------------------- MODULE LiftedModel_proofs --------------------------
(***************************************************************************)
(* The lifted tasks, their CSPs and the lifted state model, for every      *)
(* language, every typed task and every state that the search reaches.     *)
(*                                                                         *)
(* The proof that the iterator of the lifted state model yields exactly the *)
(* applicable actions has three parts: what an action writes, as a fold    *)
(* over its effects; the one-to-one correspondence between the solutions of *)
(* an action CSP and the bindings of its parameters; and the iteration.    *)
(* After it come the facts about CSPs that the relaxed planning graph is   *)
(* proved from: what a CSP reads, and what a solution over a set of atoms, *)
(* or over a view of it, says.                                             *)
(***************************************************************************)
EXTENDS LiftedRPG, TLAPS, FiniteSetTheorems, SequenceTheorems, WellFoundedInduction

LEMMA Induction ==
    ASSUME NEW N \in SUBSET Nat, 0 \in N, \A n \in N : n + 1 \in N
    PROVE  N = Nat
<1> DEFINE T == Nat \ N
<1> SUFFICES ASSUME T # {} PROVE FALSE
  OBVIOUS
<1>1. \E x \in T : \A y \in T : ~ (<<y, x>> \in OpToRel(<, Nat))
  <2>1. T \subseteq Nat
    OBVIOUS
  <2> HIDE DEF T
  <2> QED BY <2>1, NatLessThanWellFounded, WFMin
<1>2. PICK x \in T : \A y \in T : ~ (<<y, x>> \in OpToRel(<, Nat))
  BY <1>1
<1>3. \A y \in T : ~ (y < x)
  BY <1>2 DEF OpToRel
<1>4. x \in Nat /\ x \notin N /\ x # 0 /\ x - 1 \in Nat
  OBVIOUS
<1>5. x - 1 \in N
  BY <1>3, <1>4
<1>6. (x - 1) + 1 \in N
  BY <1>5
<1> QED BY <1>4, <1>6

-----------------------------------------------------------------------------
(***************************************************************************)
(* Folds over the indices 1..n: what is computed for 1..k comes from what  *)
(* is computed for 1..(k - 1).                                             *)
(***************************************************************************)
LEMMA MaxFacts ==
    ASSUME NEW n \in Nat
    PROVE  \A S \in SUBSET (1..n) : S # {} => Max(S) \in S /\ \A y \in S : y <= Max(S)
<1> DEFINE HasMax(S) == \E x \in S : \A y \in S : y <= x
           N == {m \in Nat : \A S \in SUBSET (1..m) : S # {} => HasMax(S)}
<1>1. 0 \in N
  <2>1. 1..0 = {}
    OBVIOUS
  <2>2. \A S \in SUBSET (1..0) : S = {}
    BY <2>1
  <2> QED BY <2>2
<1>2. ASSUME NEW m \in N PROVE m + 1 \in N
  <2> SUFFICES ASSUME NEW S \in SUBSET (1..(m + 1)), S # {} PROVE HasMax(S)
    OBVIOUS
  <2>1. CASE m + 1 \in S
    BY <2>1
  <2>2. CASE m + 1 \notin S
    <3>1. S \in SUBSET (1..m)
      BY <2>2
    <3> QED BY <1>2, <3>1
  <2> QED BY <2>1, <2>2
<1> HIDE DEF N
<1>3. N = Nat
  BY <1>1, <1>2, Induction DEF N
<1>4. ASSUME NEW S \in SUBSET (1..n), S # {} PROVE Max(S) \in S /\ \A y \in S : y <= Max(S)
  <2>1. \E x \in S : \A y \in S : y <= x
    BY <1>3, <1>4 DEF N
  <2>2. \E x \in S : \A y \in S : x >= y
    BY <2>1
  <2>3. Max(S) \in S /\ \A y \in S : Max(S) >= y
    BY <2>2 DEF Max
  <2> QED BY <2>3
<1> QED BY <1>4

LEMMA MaxOfPrefix ==
    ASSUME NEW n \in Nat, NEW k \in 1..n
    PROVE  Max(1..k) = k /\ (1..k) \ {Max(1..k)} = 1..(k - 1)
<1>1. k \in 1..k /\ (1..k) \in SUBSET (1..n)
  OBVIOUS
<1>2. Max(1..k) \in 1..k /\ k <= Max(1..k)
  BY <1>1, MaxFacts
<1>3. Max(1..k) = k
  BY <1>2
<1> QED BY <1>3

IsFold(f, n, base, step) ==
    \A S \in SUBSET (1..n) :
        f[S] = IF S = {} THEN base ELSE step[<<Max(S), f[S \ {Max(S)}]>>]

LEMMA FoldExists ==
    ASSUME NEW n \in Nat, NEW A, NEW base \in A, NEW step \in [(1..n) \X A -> A]
    PROVE  \E f \in [SUBSET (1..n) -> A] : IsFold(f, n, base, step)
<1> DEFINE Done(m) == \E f \in [SUBSET (1..m) -> A] : IsFold(f, m, base, step)
           N == {m \in Nat : m <= n => Done(m)}
<1> HIDE DEF Done
<1>1. 0 \in N
  <2> DEFINE f == [S \in SUBSET (1..0) |-> base]
  <2>1. \A S \in SUBSET (1..0) : S = {}
    OBVIOUS
  <2>2. f \in [SUBSET (1..0) -> A] /\ \A S \in SUBSET (1..0) : f[S] = base
    OBVIOUS
  <2>3. IsFold(f, 0, base, step)
    BY <2>1, <2>2 DEF IsFold
  <2>4. Done(0)
    BY <2>2, <2>3 DEF Done
  <2> QED BY <2>4
<1>2. ASSUME NEW m \in N PROVE m + 1 \in N
  <2> SUFFICES ASSUME m + 1 <= n PROVE Done(m + 1)
    OBVIOUS
  <2>0. m \in Nat
    BY <1>2
  <2> HIDE DEF N
  <2>1. m \in Nat /\ m + 1 \in Nat /\ m + 1 \in 1..n /\ m <= n
    BY <2>0
  <2>2. PICK f \in [SUBSET (1..m) -> A] : IsFold(f, m, base, step)
    BY <1>2, <2>1 DEF N, Done
  <2> DEFINE g == [S \in SUBSET (1..(m + 1)) |->
                      IF m + 1 \in S THEN step[<<m + 1, f[S \ {m + 1}]>>] ELSE f[S]]
  <2>3. \A S \in SUBSET (1..(m + 1)) :
           /\ m + 1 \in S => S \ {m + 1} \in SUBSET (1..m)
           /\ m + 1 \notin S => S \in SUBSET (1..m)
    BY <2>1
  <2>4. \A S \in SUBSET (1..m) : g[S] = f[S]
    <3>1. \A S \in SUBSET (1..m) : m + 1 \notin S /\ S \in SUBSET (1..(m + 1))
      BY <2>1
    <3> QED BY <3>1
  <2>5. g \in [SUBSET (1..(m + 1)) -> A]
    <3> SUFFICES ASSUME NEW S \in SUBSET (1..(m + 1)) PROVE g[S] \in A
      OBVIOUS
    <3>1. CASE m + 1 \in S
      <4>1. f[S \ {m + 1}] \in A
        BY <2>2, <2>3, <3>1
      <4>2. step[<<m + 1, f[S \ {m + 1}]>>] \in A
        BY <2>1, <4>1
      <4> QED BY <3>1, <4>2
    <3>2. CASE m + 1 \notin S
      BY <2>2, <2>3, <3>2
    <3> QED BY <3>1, <3>2
  <2>6. ASSUME NEW S \in SUBSET (1..(m + 1))
        PROVE  g[S] = IF S = {} THEN base ELSE step[<<Max(S), g[S \ {Max(S)}]>>]
    <3>1. CASE m + 1 \in S
      <4>1. Max(S) \in S /\ \A y \in S : y <= Max(S)
        BY <2>1, <3>1, MaxFacts
      <4>2. Max(S) = m + 1
        <5>1. Max(S) \in 1..(m + 1) /\ m + 1 <= Max(S)
          BY <3>1, <4>1
        <5> QED BY <2>1, <5>1
      <4>3. g[S \ {m + 1}] = f[S \ {m + 1}]
        BY <2>3, <2>4, <3>1
      <4>4. g[S] = step[<<m + 1, f[S \ {m + 1}]>>]
        BY <3>1
      <4> HIDE DEF g
      <4> QED BY <3>1, <4>2, <4>3, <4>4
    <3>2. CASE m + 1 \notin S
      <4>1. S \in SUBSET (1..m)
        BY <2>3, <3>2
      <4>2. S \ {Max(S)} \in SUBSET (1..m)
        BY <4>1
      <4>3. g[S] = f[S] /\ g[S \ {Max(S)}] = f[S \ {Max(S)}]
        BY <2>4, <4>1, <4>2
      <4>4. f[S] = IF S = {} THEN base ELSE step[<<Max(S), f[S \ {Max(S)}]>>]
        BY <2>2, <4>1 DEF IsFold
      <4> HIDE DEF g
      <4> QED BY <4>3, <4>4
    <3> QED BY <3>1, <3>2
  <2>7. IsFold(g, m + 1, base, step)
    <3> HIDE DEF g
    <3> QED BY <2>6 DEF IsFold
  <2> QED BY <2>5, <2>7 DEF Done
<1> HIDE DEF N
<1>3. N = Nat
  <2>1. N \in SUBSET Nat
    BY DEF N
  <2> QED BY <1>1, <1>2, <2>1, Induction
<1>4. n \in N
  BY <1>3
<1>5. Done(n)
  BY <1>4 DEF N
<1> QED BY <1>5 DEF Done

-----------------------------------------------------------------------------
(***************************************************************************)
(* Terms.  A term that nests at most two deep is reached in three steps    *)
(* from terms without subterms.                                            *)
(***************************************************************************)
Depth0(t) == t.sub = << >>
Depth1(t) == \A u \in ToSet(t.sub) : Depth0(u)
Depth2(t) == \A u \in ToSet(t.sub) : Depth1(u)

\* A set of typed terms that has the subterms of its members.
Closed(params, T) ==
    \A t \in T : Typed(params, t) /\ Depth2(t) /\ ToSet(t.sub) \subseteq T

LEMMA DepthsGrow ==
    \A t : (Depth0(t) => Depth1(t)) /\ (Depth1(t) => Depth2(t))
<1>1. \A t : Depth0(t) => ToSet(t.sub) = {}
  BY DEF Depth0, ToSet
<1>2. \A t : Depth0(t) => Depth1(t)
  BY <1>1 DEF Depth1
<1> QED BY <1>2 DEF Depth1, Depth2

LEMMA TermInduction ==
    ASSUME NEW params, NEW T, Closed(params, T), NEW G,
           \A t \in T : ToSet(t.sub) \subseteq G => t \in G
    PROVE  T \subseteq G
<1>1. \A t \in T : Depth0(t) => t \in G
  <2>1. \A t : Depth0(t) => ToSet(t.sub) = {}
    BY DEF Depth0, ToSet
  <2> QED BY <2>1
<1>2. \A t \in T : Depth1(t) => t \in G
  BY <1>1 DEF Depth1, Closed
<1>3. \A t \in T : Depth2(t) => t \in G
  BY <1>2 DEF Depth2, Closed
<1> QED BY <1>3 DEF Closed

LEMMA LeafFacts ==
    ASSUME NEW params, NEW t, Typed(params, t)
    PROVE  /\ t.kind = "const" => t = Const(t.val) /\ t.val \in Int /\ t.sub = << >>
           /\ t.kind = "param" => t = Param(t.name) /\ t.name \in DOMAIN params /\ t.sub = << >>
<1>1. CASE t.kind = "const"
  <2>1. t = Const(t.val) /\ t.val \in Int
    BY <1>1 DEF Typed
  <2>2. Const(t.val).sub = << >>
    BY DEF Const
  <2>3. t.sub = << >>
    BY <2>1, <2>2
  <2> QED BY <1>1, <2>1, <2>3
<1>2. CASE t.kind = "param"
  <2>1. t = Param(t.name) /\ t.name \in DOMAIN params
    BY <1>2 DEF Typed
  <2>2. Param(t.name).sub = << >>
    BY DEF Param
  <2>3. t.sub = << >>
    BY <2>1, <2>2
  <2> QED BY <1>2, <2>1, <2>3
<1> QED BY <1>1, <1>2

LEMMA TypedTermFacts ==
    ASSUME NEW params, NEW t, TypedTerm(params, t)
    PROVE  /\ Closed(params, SubTerms(t))
           /\ t \in SubTerms(t) /\ Closed(params, SubTerms(t) \ {t})
           /\ \A u \in SubTerms(t) \ {t} : ~IsPredicate(u)
<1> DEFINE T == SubTerms(t)
           inner == ToSet(t.sub)
<1>1. T = {t} \cup inner \cup UNION {ToSet(u.sub) : u \in inner}
  BY DEF SubTerms
<1>2. \A u \in inner : \A w \in ToSet(u.sub) : w.sub = << >>
  BY DEF TypedTerm
<1>3. \A u \in T : Typed(params, u)
  BY DEF TypedTerm
<1>4. Depth2(t) /\ \A u \in inner : Depth1(u)
  BY <1>2 DEF Depth2, Depth1, Depth0
<1>5. \A u \in inner : \A w \in ToSet(u.sub) : Depth0(w) /\ ToSet(w.sub) = {}
  BY <1>2 DEF Depth0, ToSet
<1>6. \A u \in T : Depth2(u)
  BY <1>1, <1>4, <1>5, DepthsGrow
<1>7. \A u \in T : ToSet(u.sub) \subseteq T
  BY <1>1, <1>5
<1>8. \A u \in T : t \notin ToSet(u.sub)
  <2> SUFFICES ASSUME NEW u \in T, t \in ToSet(u.sub) PROVE FALSE
    OBVIOUS
  <2>1. u \notin inner
    <3> SUFFICES ASSUME u \in inner PROVE FALSE
      OBVIOUS
    <3>1. inner = {}
      BY <1>5
    <3> QED BY <3>1
  <2>2. u = t
    BY <1>1, <1>5, <2>1
  <2>3. t \in inner
    BY <2>2
  <2> QED BY <2>1, <2>2, <2>3
<1>9. \A u \in T : \A w \in ToSet(u.sub) : ~IsPredicate(w)
  <2> SUFFICES ASSUME NEW u \in T, NEW w \in ToSet(u.sub) PROVE ~IsPredicate(w)
    OBVIOUS
  <2>1. PICK i \in DOMAIN u.sub : w = u.sub[i]
    BY DEF ToSet
  <2>2. u.kind # "const" /\ u.kind # "param"
    <3>1. Typed(params, u) /\ DOMAIN u.sub # {}
      BY <1>3, <2>1
    <3>2. u.sub # << >>
      BY <3>1
    <3> QED BY <3>1, <3>2, LeafFacts
  <2>3. \A j \in DOMAIN u.sub : ~IsPredicate(u.sub[j])
    BY <1>3, <2>2 DEF Typed
  <2> QED BY <2>1, <2>3
<1>10. \A w \in T \ {t} : \E u \in T : w \in ToSet(u.sub)
  BY <1>1
<1> HIDE DEF T, inner
<1> QED BY <1>1, <1>3, <1>6, <1>7, <1>8, <1>9, <1>10 DEF Closed, T

LEMMA ClosedUnion ==
    ASSUME NEW params, NEW F, \A S \in F : Closed(params, S)
    PROVE  Closed(params, UNION F)
BY DEF Closed

LEMMA KindFacts ==
    ASSUME NEW params, NEW t, Typed(params, t)
    PROVE  \/ /\ t.kind = "const" /\ t = Const(t.val) /\ t.val \in Int /\ ~IsFluent(t)
              /\ t.sub = << >> /\ ValuesOf(params, t) = {t.val}
           \/ /\ t.kind = "param" /\ t = Param(t.name) /\ t.name \in DOMAIN params /\ ~IsFluent(t)
              /\ t.sub = << >> /\ ValuesOf(params, t) = params[t.name]
           \/ /\ t.kind = "fluent" /\ IsFluent(t) /\ t.name \in Symbols /\ DOMAIN t.sub = 1..Arity[t.name]
              /\ ValuesOf(params, t) = Values[t.name]
              /\ \A i \in DOMAIN t.sub : ~IsPredicate(t.sub[i]) /\ ValuesOf(params, t.sub[i]) \subseteq Objects
<1>1. CASE t.kind = "const"
  <2>1. t = Const(t.val) /\ t.val \in Int /\ t.sub = << >>
    BY <1>1, LeafFacts
  <2>2. ValuesOf(params, t) = {t.val}
    BY <1>1 DEF ValuesOf
  <2> QED BY <1>1, <2>1, <2>2 DEF IsFluent
<1>2. CASE t.kind = "param"
  <2>1. t = Param(t.name) /\ t.name \in DOMAIN params /\ t.sub = << >>
    BY <1>2, LeafFacts
  <2>2. ValuesOf(params, t) = params[t.name]
    BY <1>2 DEF ValuesOf
  <2> QED BY <1>2, <2>1, <2>2 DEF IsFluent
<1>3. CASE t.kind # "const" /\ t.kind # "param"
  <2>1. /\ t = Fluent(t.name, t.sub) /\ t.name \in Symbols /\ DOMAIN t.sub = 1..Arity[t.name]
        /\ \A i \in DOMAIN t.sub : ~IsPredicate(t.sub[i]) /\ ValuesOf(params, t.sub[i]) \subseteq Objects
    BY <1>3 DEF Typed
  <2>2. t.kind = "fluent"
    BY <2>1 DEF Fluent
  <2>3. ValuesOf(params, t) = Values[t.name]
    BY <1>3 DEF ValuesOf
  <2> QED BY <2>1, <2>2, <2>3 DEF IsFluent
<1> QED BY <1>1, <1>2, <1>3

-----------------------------------------------------------------------------
(***************************************************************************)
(* The value of a term: a fluent is read at the values of its subterms.    *)
(***************************************************************************)
Flat(t, s, b) ==
    IF t.kind = "const" THEN t.val ELSE IF t.kind = "param" THEN b[t.name] ELSE s[<<t.name, << >>>>]
Inner(t, s, b) == IF IsFluent(t) THEN s[<<t.name, [i \in DOMAIN t.sub |-> Flat(t.sub[i], s, b)]>>] ELSE Flat(t, s, b)

\* The variable that a fluent is.
VarOf(t, s, b) == <<t.name, [i \in DOMAIN t.sub |-> Interpret(t.sub[i], s, b)]>>

LEMMA InterpretIs ==
    ASSUME NEW t, NEW s, NEW b
    PROVE  Interpret(t, s, b) =
             IF IsFluent(t) THEN s[<<t.name, [i \in DOMAIN t.sub |-> Inner(t.sub[i], s, b)]>>] ELSE Flat(t, s, b)
BY DEF Interpret, Inner, Flat

LEMMA InterpretUnfolds ==
    ASSUME NEW t, NEW s, NEW b, Depth2(t)
    PROVE  Interpret(t, s, b) = IF IsFluent(t) THEN s[VarOf(t, s, b)] ELSE Flat(t, s, b)
<1>1. \A w : Depth0(w) => Inner(w, s, b) = Flat(w, s, b)
  <2> SUFFICES ASSUME NEW w, Depth0(w), IsFluent(w) PROVE Inner(w, s, b) = Flat(w, s, b)
    BY DEF Inner
  <2>1. [i \in DOMAIN w.sub |-> Flat(w.sub[i], s, b)] = << >>
    BY DEF Depth0
  <2>2. w.kind = "fluent"
    BY DEF IsFluent
  <2> QED BY <2>1, <2>2 DEF Inner, Flat
<1>2. \A u : Depth1(u) => Interpret(u, s, b) = Inner(u, s, b)
  <2> SUFFICES ASSUME NEW u, Depth1(u) PROVE Interpret(u, s, b) = Inner(u, s, b)
    OBVIOUS
  <2>1. \A i \in DOMAIN u.sub : Inner(u.sub[i], s, b) = Flat(u.sub[i], s, b)
    BY <1>1 DEF Depth1, ToSet
  <2>2. [i \in DOMAIN u.sub |-> Inner(u.sub[i], s, b)] = [i \in DOMAIN u.sub |-> Flat(u.sub[i], s, b)]
    BY <2>1
  <2> QED BY <2>2, InterpretIs DEF Inner
<1>3. \A i \in DOMAIN t.sub : Interpret(t.sub[i], s, b) = Inner(t.sub[i], s, b)
  BY <1>2 DEF Depth2, ToSet
<1>4. VarOf(t, s, b) = <<t.name, [i \in DOMAIN t.sub |-> Inner(t.sub[i], s, b)]>>
  BY <1>3 DEF VarOf
<1> QED BY <1>4, InterpretIs

\* The states that the types allow, and the bindings of parameters.
StateOK(s) == s \in [Vars -> Int] /\ \A v \in Vars : s[v] \in Values[v[1]]

LEMMA BindingFacts ==
    ASSUME NEW params
    PROVE  /\ \A b \in Bindings(params) :
                 /\ b = [p \in DOMAIN params |-> b[p]]
                 /\ \A p \in DOMAIN params : b[p] \in params[p]
           /\ \A b : b = [p \in DOMAIN params |-> b[p]] /\ (\A p \in DOMAIN params : b[p] \in params[p])
                 => b \in Bindings(params)
<1>1. ASSUME NEW b \in Bindings(params)
      PROVE  b = [p \in DOMAIN params |-> b[p]] /\ \A p \in DOMAIN params : b[p] \in params[p]
  BY DEF Bindings
<1>2. ASSUME NEW b, b = [p \in DOMAIN params |-> b[p]], \A p \in DOMAIN params : b[p] \in params[p]
      PROVE  b \in Bindings(params)
  <2>1. \A p \in DOMAIN params : b[p] \in UNION {params[q] : q \in DOMAIN params}
    BY <1>2
  <2>2. b \in [DOMAIN params -> UNION {params[q] : q \in DOMAIN params}]
    BY <1>2, <2>1
  <2> QED BY <1>2, <2>2 DEF Bindings
<1> QED BY <1>1, <1>2

\* The variables of a symbol.
LEMMA VarFacts ==
    /\ \A f \in Symbols : \A args \in [1..Arity[f] -> Objects] : <<f, args>> \in Vars
    /\ \A v \in Vars : v[1] \in Symbols /\ v = <<v[1], v[2]>>
BY DEF Vars

LEMMA ValuesTyped ==
    ASSUME NEW params, NEW T, Closed(params, T), NEW s, StateOK(s), NEW b \in Bindings(params)
    PROVE  /\ \A t \in T : Interpret(t, s, b) \in ValuesOf(params, t)
           /\ \A t \in T : IsFluent(t) => VarOf(t, s, b) \in Vars /\ Interpret(t, s, b) = s[VarOf(t, s, b)]
<1> DEFINE G == {t \in T : Interpret(t, s, b) \in ValuesOf(params, t)}
           Good(t) == IsFluent(t) => VarOf(t, s, b) \in Vars /\ Interpret(t, s, b) = s[VarOf(t, s, b)]
<1>1. ASSUME NEW t \in T, ToSet(t.sub) \subseteq G
      PROVE  t \in G /\ Good(t)
  <2>1. Typed(params, t) /\ Depth2(t)
    BY DEF Closed
  <2>2. Interpret(t, s, b) = IF IsFluent(t) THEN s[VarOf(t, s, b)] ELSE Flat(t, s, b)
    BY <2>1, InterpretUnfolds
  <2>3. CASE t.kind = "const"
    <3>1. ~IsFluent(t) /\ ValuesOf(params, t) = {t.val}
      BY <2>1, <2>3, KindFacts
    <3>2. Flat(t, s, b) = t.val
      BY <2>3 DEF Flat
    <3> QED BY <2>2, <3>1, <3>2
  <2>4. CASE t.kind = "param"
    <3>1. ~IsFluent(t) /\ ValuesOf(params, t) = params[t.name] /\ t.name \in DOMAIN params
      BY <2>1, <2>4, KindFacts
    <3>2. Flat(t, s, b) = b[t.name]
      BY <2>4 DEF Flat
    <3> QED BY <2>2, <3>1, <3>2, BindingFacts
  <2>5. CASE t.kind \notin {"const", "param"}
    <3>1. /\ IsFluent(t) /\ t.name \in Symbols /\ DOMAIN t.sub = 1..Arity[t.name]
          /\ ValuesOf(params, t) = Values[t.name]
          /\ \A i \in DOMAIN t.sub : ValuesOf(params, t.sub[i]) \subseteq Objects
      BY <2>1, <2>5, KindFacts
    <3>2. \A i \in DOMAIN t.sub : Interpret(t.sub[i], s, b) \in Objects
      <4>1. \A i \in DOMAIN t.sub : t.sub[i] \in G
        BY <1>1 DEF ToSet
      <4> QED BY <3>1, <4>1
    <3>3. [i \in DOMAIN t.sub |-> Interpret(t.sub[i], s, b)] \in [1..Arity[t.name] -> Objects]
      BY <3>1, <3>2
    <3>4. VarOf(t, s, b) \in Vars
      BY <3>1, <3>3, VarFacts DEF VarOf
    <3>5. VarOf(t, s, b)[1] = t.name
      BY DEF VarOf
    <3>6. s[VarOf(t, s, b)] \in Values[t.name]
      BY <3>4, <3>5 DEF StateOK
    <3> QED BY <2>2, <3>1, <3>4, <3>6
  <2> QED BY <2>3, <2>4, <2>5
<1> HIDE DEF G
<1>2. T \subseteq G
  BY <1>1, TermInduction
<1>3. \A t \in T : ToSet(t.sub) \subseteq G
  BY <1>2 DEF Closed
<1>4. \A t \in T : Good(t)
  BY <1>1, <1>3
<1>5. \A t \in T : Interpret(t, s, b) \in ValuesOf(params, t)
  BY <1>2 DEF G
<1> QED BY <1>4, <1>5

-----------------------------------------------------------------------------
(***************************************************************************)
(* What an action does: the effects that are handed to its CSP, and the    *)
(* state after it.                                                         *)
(***************************************************************************)
ActionOK(a) ==
    /\ SupportedConds(a.pre) /\ TypedConds(a.params, a.pre)
    /\ a.effs \in Seq(ToSet(a.effs))
    /\ \A e \in ToSet(a.effs) : TypedEffect(a.params, e)

LEMMA EffectsFacts ==
    ASSUME NEW a, ActionOK(a)
    PROVE  /\ Len(a.effs) \in Nat /\ DOMAIN a.effs = 1..Len(a.effs)
           /\ \A i \in 1..Len(a.effs) : a.effs[i] \in ToSet(a.effs)
           /\ \A e \in ToSet(a.effs) : \E i \in 1..Len(a.effs) : e = a.effs[i]
<1>1. a.effs \in Seq(ToSet(a.effs))
  BY DEF ActionOK
<1>2. Len(a.effs) \in Nat /\ DOMAIN a.effs = 1..Len(a.effs)
  BY <1>1, LenProperties
<1> QED BY <1>2 DEF ToSet

KeepsAdds(g, effs) ==
    g = [S \in SUBSET DOMAIN effs |->
            IF S = {} THEN << >>
            ELSE IF IsDel(effs[Max(S)]) THEN g[S \ {Max(S)}]
            ELSE Append(g[S \ {Max(S)}], effs[Max(S)])]

LEMMA AddEffectsIs ==
    ASSUME NEW a
    PROVE  AddEffects(a) = (CHOOSE g : KeepsAdds(g, a.effs))[DOMAIN a.effs]
BY DEF AddEffects, FoldLeft, MapThenFoldSet, KeepsAdds

LEMMA AddEffectsFacts ==
    ASSUME NEW a, ActionOK(a)
    PROVE  /\ AddEffects(a) \in Seq(ToSet(a.effs))
           /\ ToSet(AddEffects(a)) = {e \in ToSet(a.effs) : ~IsDel(e)}
<1> DEFINE effs == a.effs
           X == ToSet(effs)
           n == Len(effs)
           step == [q \in (1..n) \X Seq(X) |-> IF IsDel(effs[q[1]]) THEN q[2] ELSE Append(q[2], effs[q[1]])]
           g == CHOOSE h_ : KeepsAdds(h_, effs)
<1>1. n \in Nat /\ DOMAIN effs = 1..n /\ \A i \in 1..n : effs[i] \in X
  BY EffectsFacts
<1>2. X = {effs[i] : i \in 1..n}
  BY <1>1 DEF ToSet
<1> HIDE DEF effs, X, n
<1>3. << >> \in Seq(X)
  OBVIOUS
<1>4. step \in [(1..n) \X Seq(X) -> Seq(X)]
  <2> SUFFICES ASSUME NEW q \in (1..n) \X Seq(X) PROVE step[q] \in Seq(X)
    OBVIOUS
  <2>1. q[1] \in 1..n /\ q[2] \in Seq(X) /\ effs[q[1]] \in X
    BY <1>1
  <2>2. Append(q[2], effs[q[1]]) \in Seq(X)
    BY <2>1, AppendProperties
  <2> QED BY <2>1, <2>2
<1>5. \A k \in 1..n : \A r \in Seq(X) : step[<<k, r>>] = IF IsDel(effs[k]) THEN r ELSE Append(r, effs[k])
  OBVIOUS
<1> HIDE DEF step
<1>6. PICK f \in [SUBSET (1..n) -> Seq(X)] : IsFold(f, n, << >>, step)
  BY <1>1, <1>3, <1>4, FoldExists
<1>7. KeepsAdds(f, effs)
  <2>1. ASSUME NEW S \in SUBSET (1..n)
        PROVE  f[S] = IF S = {} THEN << >>
                      ELSE IF IsDel(effs[Max(S)]) THEN f[S \ {Max(S)}]
                      ELSE Append(f[S \ {Max(S)}], effs[Max(S)])
    <3>1. CASE S = {}
      BY <1>6, <3>1 DEF IsFold
    <3>2. CASE S # {}
      <4>1. Max(S) \in 1..n
        BY <1>1, <3>2, MaxFacts
      <4>2. f[S \ {Max(S)}] \in Seq(X)
        BY <1>6
      <4>3. f[S] = step[<<Max(S), f[S \ {Max(S)}]>>]
        BY <1>6, <3>2 DEF IsFold
      <4>4. step[<<Max(S), f[S \ {Max(S)}]>>] = IF IsDel(effs[Max(S)]) THEN f[S \ {Max(S)}]
                                                ELSE Append(f[S \ {Max(S)}], effs[Max(S)])
        BY <1>5, <4>1, <4>2
      <4> QED BY <3>2, <4>3, <4>4
    <3> QED BY <3>1, <3>2
  <2>2. f = [S \in SUBSET (1..n) |-> IF S = {} THEN << >>
                      ELSE IF IsDel(effs[Max(S)]) THEN f[S \ {Max(S)}]
                      ELSE Append(f[S \ {Max(S)}], effs[Max(S)])]
    BY <1>6, <2>1
  <2> QED BY <1>1, <2>2 DEF KeepsAdds
<1>8. KeepsAdds(g, effs)
  BY <1>7
<1> HIDE DEF g
<1>9. \A S \in SUBSET (1..n) :
         g[S] = IF S = {} THEN << >>
                ELSE IF IsDel(effs[Max(S)]) THEN g[S \ {Max(S)}]
                ELSE Append(g[S \ {Max(S)}], effs[Max(S)])
  BY <1>1, <1>8 DEF KeepsAdds
<1> DEFINE Kept(k) == {e \in X : \E i \in 1..k : e = effs[i] /\ ~IsDel(e)}
           Good(k) == g[1..k] \in Seq(X) /\ ToSet(g[1..k]) = Kept(k)
           N == {k \in Nat : k <= n => Good(k)}
<1> HIDE DEF Good
<1>10. 0 \in N
  <2>0. 1..0 = {}
    OBVIOUS
  <2>1. 1..0 = {} /\ g[1..0] = << >>
    <3>1. g[{}] = << >>
      BY <1>9
    <3> QED BY <2>0, <3>1
  <2>2. ToSet(<< >>) = {} /\ Kept(0) = {}
    BY <2>1 DEF ToSet
  <2> QED BY <1>3, <2>1, <2>2 DEF Good
<1>11. ASSUME NEW m \in N PROVE m + 1 \in N
  <2>1. m \in Nat /\ (m <= n => Good(m))
    BY <1>11
  <2> HIDE DEF N
  <2>2. ASSUME m + 1 <= n PROVE Good(m + 1)
    <3>1. m + 1 \in 1..n /\ m <= n /\ (m + 1) - 1 = m /\ 1..(m + 1) # {}
      BY <1>1, <2>1, <2>2
    <3>2. Max(1..(m + 1)) = m + 1 /\ (1..(m + 1)) \ {Max(1..(m + 1))} = 1..m
      BY <1>1, <3>1, MaxOfPrefix
    <3>3. g[1..(m + 1)] = IF IsDel(effs[m + 1]) THEN g[1..m] ELSE Append(g[1..m], effs[m + 1])
      <4>1. 1..(m + 1) \in SUBSET (1..n)
        BY <1>1, <3>1
      <4> QED BY <1>9, <3>1, <3>2, <4>1
    <3>4. g[1..m] \in Seq(X) /\ ToSet(g[1..m]) = Kept(m)
      BY <2>1, <3>1 DEF Good
    <3>5. effs[m + 1] \in X
      BY <1>1, <3>1
    <3>6. Kept(m + 1) = Kept(m) \cup (IF IsDel(effs[m + 1]) THEN {} ELSE {effs[m + 1]})
      <4>1. \A i \in 1..(m + 1) : i \in 1..m \/ i = m + 1
        BY <2>1
      <4>2. 1..m \subseteq 1..(m + 1) /\ m + 1 \in 1..(m + 1)
        BY <2>1
      <4> QED BY <3>5, <4>1, <4>2
    <3>7. CASE IsDel(effs[m + 1])
      BY <3>3, <3>4, <3>6, <3>7 DEF Good
    <3>8. CASE ~IsDel(effs[m + 1])
      <4> DEFINE r == g[1..m]
                 q == Append(r, effs[m + 1])
      <4>1. q \in Seq(X) /\ Len(q) = Len(r) + 1 /\ q[Len(r) + 1] = effs[m + 1]
            /\ \A i \in 1..Len(r) : q[i] = r[i]
        BY <3>4, <3>5, AppendProperties
      <4>2. DOMAIN r = 1..Len(r) /\ DOMAIN q = 1..Len(q) /\ Len(r) \in Nat
        BY <3>4, <4>1, LenProperties
      <4>3. ToSet(q) = ToSet(r) \cup {effs[m + 1]}
        <5> HIDE DEF q, r
        <5>1. \A i \in DOMAIN q : i \in DOMAIN r \/ i = Len(r) + 1
          BY <4>1, <4>2
        <5>2. DOMAIN r \subseteq DOMAIN q /\ Len(r) + 1 \in DOMAIN q
          BY <4>1, <4>2
        <5> QED BY <4>1, <4>2, <5>1, <5>2 DEF ToSet
      <4>4. g[1..(m + 1)] = q
        BY <3>3, <3>8
      <4> QED BY <3>4, <3>6, <3>8, <4>1, <4>3, <4>4 DEF Good
    <3> QED BY <3>7, <3>8
  <2> QED BY <2>1, <2>2 DEF N
<1> HIDE DEF N
<1>12. N = Nat
  <2>1. N \in SUBSET Nat
    BY DEF N
  <2> QED BY <1>10, <1>11, <2>1, Induction
<1>13. Good(n)
  <2>1. n \in N
    BY <1>1, <1>12
  <2> QED BY <1>1, <2>1 DEF N
<1>14. AddEffects(a) = g[1..n]
  BY <1>1, AddEffectsIs DEF g, effs
<1>15. Kept(n) = {e \in X : ~IsDel(e)}
  BY <1>2
<1> QED BY <1>13, <1>14, <1>15 DEF Good, X, effs

Applies(g, a, s, b) ==
    g = [S \in SUBSET DOMAIN a.effs |->
            IF S = {} THEN s
            ELSE [g[S \ {Max(S)}] EXCEPT ![Target(a.effs[Max(S)], s, b)] = Interpret(a.effs[Max(S)].rhs, s, b)]]

LEMMA ApplyIs ==
    ASSUME NEW a, NEW s, NEW b
    PROVE  Apply(a, s, b) = (CHOOSE g : Applies(g, a, s, b))[DOMAIN a.effs]
BY DEF Apply, FoldLeft, MapThenFoldSet, Applies

\* Effects in bounds lead from typed states to typed states.
LEMMA ApplyTyped ==
    ASSUME NEW a, ActionOK(a), NEW s, StateOK(s), NEW b,
           \A e \in ToSet(a.effs) : Target(e, s, b) \in Vars /\ Interpret(e.rhs, s, b) \in Values[Target(e, s, b)[1]]
    PROVE  StateOK(Apply(a, s, b))
<1> DEFINE n == Len(a.effs)
           A == {u \in [Vars -> Int] : StateOK(u)}
           tgt(k) == Target(a.effs[k], s, b)
           val(k) == Interpret(a.effs[k].rhs, s, b)
           step == [q \in (1..n) \X A |-> [q[2] EXCEPT ![tgt(q[1])] = val(q[1])]]
           g == CHOOSE h_ : Applies(h_, a, s, b)
<1>1. n \in Nat /\ DOMAIN a.effs = 1..n /\ \A k \in 1..n : tgt(k) \in Vars /\ val(k) \in Values[tgt(k)[1]]
  BY EffectsFacts
<1>2. \A v \in Vars : Values[v[1]] \subseteq Int
  BY VarFacts, LanguageAssumption
<1> HIDE DEF n, tgt, val
<1>3. s \in A
  BY DEF StateOK
<1>4. ASSUME NEW u \in A, NEW k \in 1..n PROVE [u EXCEPT ![tgt(k)] = val(k)] \in A
  <2>1. u \in [Vars -> Int] /\ \A v \in Vars : u[v] \in Values[v[1]]
    BY DEF StateOK
  <2>2. tgt(k) \in Vars /\ val(k) \in Values[tgt(k)[1]] /\ val(k) \in Int
    BY <1>1, <1>2
  <2> DEFINE w == [u EXCEPT ![tgt(k)] = val(k)]
  <2>3. w \in [Vars -> Int] /\ \A v \in Vars : w[v] = IF v = tgt(k) THEN val(k) ELSE u[v]
    BY <2>1, <2>2
  <2> HIDE DEF w
  <2>4. \A v \in Vars : w[v] \in Values[v[1]]
    BY <2>1, <2>2, <2>3
  <2> QED BY <2>3, <2>4 DEF StateOK, w
<1>5. \A k \in 1..n : \A u \in A : step[<<k, u>>] = [u EXCEPT ![tgt(k)] = val(k)]
  OBVIOUS
<1>6. step \in [(1..n) \X A -> A]
  BY <1>4
<1> HIDE DEF step, A
<1>7. PICK f \in [SUBSET (1..n) -> A] : IsFold(f, n, s, step)
  BY <1>1, <1>3, <1>6, FoldExists
<1>8. Applies(f, a, s, b)
  <2>1. ASSUME NEW S \in SUBSET (1..n)
        PROVE  f[S] = IF S = {} THEN s ELSE [f[S \ {Max(S)}] EXCEPT ![tgt(Max(S))] = val(Max(S))]
    <3>1. CASE S = {}
      BY <1>7, <3>1 DEF IsFold
    <3>2. CASE S # {}
      <4>1. Max(S) \in 1..n
        BY <1>1, <3>2, MaxFacts
      <4>2. f[S \ {Max(S)}] \in A
        BY <1>7
      <4>3. f[S] = step[<<Max(S), f[S \ {Max(S)}]>>]
        BY <1>7, <3>2 DEF IsFold
      <4>4. step[<<Max(S), f[S \ {Max(S)}]>>] = [f[S \ {Max(S)}] EXCEPT ![tgt(Max(S))] = val(Max(S))]
        BY <1>5, <4>1, <4>2
      <4> QED BY <3>2, <4>3, <4>4
    <3> QED BY <3>1, <3>2
  <2>2. f = [S \in SUBSET (1..n) |->
                IF S = {} THEN s ELSE [f[S \ {Max(S)}] EXCEPT ![tgt(Max(S))] = val(Max(S))]]
    BY <1>7, <2>1
  <2> QED BY <1>1, <2>2 DEF Applies, tgt, val
<1>9. Applies(g, a, s, b)
  BY <1>8
<1> HIDE DEF g
<1>10. \A S \in SUBSET (1..n) :
          g[S] = IF S = {} THEN s ELSE [g[S \ {Max(S)}] EXCEPT ![tgt(Max(S))] = val(Max(S))]
  BY <1>1, <1>9 DEF Applies, tgt, val
<1> DEFINE N == {k \in Nat : k <= n => g[1..k] \in A}
<1>11. 0 \in N
  <2>0. 1..0 = {}
    OBVIOUS
  <2>1. 1..0 = {} /\ g[1..0] = s
    <3>1. g[{}] = s
      BY <1>10
    <3> QED BY <2>0, <3>1
  <2> QED BY <1>3, <2>1
<1>12. ASSUME NEW m \in N PROVE m + 1 \in N
  <2>1. m \in Nat /\ (m <= n => g[1..m] \in A)
    BY <1>12
  <2> HIDE DEF N
  <2>2. ASSUME m + 1 <= n PROVE g[1..(m + 1)] \in A
    <3>1. m + 1 \in 1..n /\ m <= n /\ (m + 1) - 1 = m /\ 1..(m + 1) # {}
      BY <1>1, <2>1, <2>2
    <3>2. Max(1..(m + 1)) = m + 1 /\ (1..(m + 1)) \ {Max(1..(m + 1))} = 1..m
      BY <1>1, <3>1, MaxOfPrefix
    <3>3. g[1..(m + 1)] = [g[1..m] EXCEPT ![tgt(m + 1)] = val(m + 1)]
      <4>1. 1..(m + 1) \in SUBSET (1..n)
        BY <1>1, <3>1
      <4> QED BY <1>10, <3>1, <3>2, <4>1
    <3> QED BY <1>4, <2>1, <3>1, <3>3
  <2> QED BY <2>1, <2>2 DEF N
<1> HIDE DEF N
<1>13. N = Nat
  <2>1. N \in SUBSET Nat
    BY DEF N
  <2> QED BY <1>11, <1>12, <2>1, Induction
<1>14. g[1..n] \in A
  <2>1. n \in N
    BY <1>1, <1>13
  <2> QED BY <1>1, <2>1 DEF N
<1>15. Apply(a, s, b) = g[1..n]
  BY <1>1, ApplyIs DEF g
<1> QED BY <1>14, <1>15 DEF A

-----------------------------------------------------------------------------
(***************************************************************************)
(* The CSP of an action and its solutions.                                 *)
(***************************************************************************)
ActionTerms(a) == TermsOf(a.pre, AddEffects(a))
ParamTerms(a) == {Param(p) : p \in DOMAIN a.params}

LEMMA ActionTermsFacts ==
    ASSUME NEW a, ActionOK(a)
    PROVE  /\ Closed(a.params, ActionTerms(a))
           /\ \A c \in a.pre : c.lhs \in ActionTerms(a) /\ c.rhs \in ActionTerms(a) /\ ~IsPredicate(c.rhs)
           /\ \A e \in ToSet(AddEffects(a)) : e.rhs \in ActionTerms(a) /\ ~IsPredicate(e.rhs)
           /\ \A t \in ActionTerms(a) : IsPredicate(t) => \E c \in a.pre : c.lhs = t
<1> DEFINE P == a.params
           E == ToSet(AddEffects(a))
           F == {SubTerms(c.lhs) : c \in a.pre} \cup {SubTerms(c.rhs) : c \in a.pre}
                \cup {SubTerms(e.rhs) : e \in E} \cup {SubTerms(e.lhs) \ {e.lhs} : e \in E}
<1>1. ActionTerms(a) = UNION F
  <2>1. UNION {EffectTerms(AddEffects(a)[i]) : i \in DOMAIN AddEffects(a)} = UNION {EffectTerms(e) : e \in E}
    BY DEF ToSet
  <2> HIDE DEF E
  <2>2. \A t : t \in CondTerms(a.pre) <=> \E c \in a.pre : t \in SubTerms(c.lhs) \/ t \in SubTerms(c.rhs)
    BY DEF CondTerms
  <2>3. \A e : EffectTerms(e) = SubTerms(e.rhs) \cup (SubTerms(e.lhs) \ {e.lhs})
    BY DEF EffectTerms
  <2>4. \A t : t \in UNION {EffectTerms(e) : e \in E} <=>
           \E e \in E : t \in SubTerms(e.rhs) \/ t \in SubTerms(e.lhs) \ {e.lhs}
    BY <2>3
  <2>5. \A t : t \in UNION F <=>
           \/ \E c \in a.pre : t \in SubTerms(c.lhs) \/ t \in SubTerms(c.rhs)
           \/ \E e \in E : t \in SubTerms(e.rhs) \/ t \in SubTerms(e.lhs) \ {e.lhs}
    OBVIOUS
  <2>6. ActionTerms(a) = CondTerms(a.pre) \cup UNION {EffectTerms(e) : e \in E}
    BY <2>1 DEF ActionTerms, TermsOf
  <2> HIDE DEF F
  <2> QED BY <2>2, <2>4, <2>5, <2>6
<1>2. \A c \in a.pre : TypedTerm(P, c.lhs) /\ TypedTerm(P, c.rhs) /\ ~IsPredicate(c.rhs)
  BY DEF ActionOK, TypedConds
<1>3. \A e \in E : TypedTerm(P, e.lhs) /\ TypedTerm(P, e.rhs) /\ ~IsPredicate(e.rhs)
  BY AddEffectsFacts DEF ActionOK, TypedEffect
<1> HIDE DEF E, P
<1>4. \A S \in F : Closed(P, S)
  BY <1>2, <1>3, TypedTermFacts
<1>5. Closed(P, UNION F)
  <2> HIDE DEF F
  <2> QED BY <1>4, ClosedUnion
<1>6. \A c \in a.pre : c.lhs \in UNION F /\ c.rhs \in UNION F
  BY <1>2, TypedTermFacts
<1>7. \A e \in E : e.rhs \in UNION F
  BY <1>3, TypedTermFacts
<1>8. ASSUME NEW S \in F, NEW t \in S, IsPredicate(t)
      PROVE  \E c \in a.pre : c.lhs = t
  <2>1. CASE \E c \in a.pre : S = SubTerms(c.lhs)
    BY <1>2, <1>8, <2>1, TypedTermFacts
  <2>2. CASE \E c \in a.pre : S = SubTerms(c.rhs)
    BY <1>2, <1>8, <2>2, TypedTermFacts
  <2>3. CASE \E e \in E : S = SubTerms(e.rhs)
    BY <1>3, <1>8, <2>3, TypedTermFacts
  <2>4. CASE \E e \in E : S = SubTerms(e.lhs) \ {e.lhs}
    BY <1>3, <1>8, <2>4, TypedTermFacts
  <2> QED BY <1>8, <2>1, <2>2, <2>3, <2>4
<1> HIDE DEF F
<1> QED BY <1>1, <1>2, <1>3, <1>5, <1>6, <1>7, <1>8 DEF E, P

LEMMA LiftedCSPIs ==
    ASSUME NEW a
    PROVE  LET c == LiftedCSP(a)
               T == ActionTerms(a)
           IN  /\ c.action = a.name /\ c.bound = << >> /\ c.conds = a.pre
               /\ c.effs = AddEffects(a) /\ c.within = AllAtoms
               /\ c.nullary = {t \in T : IsPredicate(t) /\ t.sub = << >>}
               /\ c.looked = {t \in T : IsFluent(t) /\ (IsPredicate(t) => t.sub # << >>)}
               /\ c.direct = {t \in T : IsFluent(t) /\ IsStateVar(<< >>, t)}
               /\ c.range = [t \in ParamTerms(a) \cup {u \in T : IsFluent(u) /\ ~IsPredicate(u)}
                               |-> ValuesOf(a.params, t)]
<1>1. DOMAIN a.params \ DOMAIN << >> = DOMAIN a.params
  OBVIOUS
<1>2. \A t : IsPredicate(t) => IsFluent(t)
  BY DEF IsPredicate
<1> DEFINE T == ActionTerms(a)
           fluents == {t \in T : IsFluent(t)}
<1>3. /\ {t \in fluents : IsPredicate(t) /\ t.sub = << >>} = {t \in T : IsPredicate(t) /\ t.sub = << >>}
      /\ {t \in fluents : IsPredicate(t) => t.sub # << >>} = {t \in T : IsFluent(t) /\ (IsPredicate(t) => t.sub # << >>)}
      /\ {t \in fluents : IsStateVar(<< >>, t)} = {t \in T : IsFluent(t) /\ IsStateVar(<< >>, t)}
      /\ {u \in fluents : ~IsPredicate(u)} = {u \in T : IsFluent(u) /\ ~IsPredicate(u)}
  BY <1>2
<1>4. LiftedCSP(a) =
        [action |-> a.name, bound |-> << >>, conds |-> a.pre, effs |-> AddEffects(a), within |-> AllAtoms,
         nullary |-> {t \in fluents : IsPredicate(t) /\ t.sub = << >>},
         looked |-> {t \in fluents : IsPredicate(t) => t.sub # << >>},
         direct |-> {t \in fluents : IsStateVar(<< >>, t)},
         range |-> [t \in {Param(p) : p \in DOMAIN a.params \ DOMAIN << >>} \cup {u \in fluents : ~IsPredicate(u)}
                      |-> ValuesOf(a.params, t)]]
  BY DEF LiftedCSP, CSP, ActionTerms
<1> HIDE DEF fluents, T
<1> QED BY <1>1, <1>3, <1>4 DEF ParamTerms, T

LEMMA ValueInIs ==
    ASSUME NEW a, NEW x, NEW t
    PROVE  ValueIn(LiftedCSP(a), x, t) = IF t.kind = "const" THEN t.val ELSE x[t]
<1> DEFINE c == LiftedCSP(a)
<1>1. c.bound = << >>
  BY LiftedCSPIs
<1>2. DOMAIN << >> = {}
  OBVIOUS
<1> HIDE DEF c
<1>3. t.kind # "const" => ~Constant(c.bound, t)
  BY <1>1, <1>2 DEF Constant
<1>4. CASE t.kind = "const"
  <2>1. ValueIn(c, x, t) = t.val
    BY <1>4 DEF ValueIn
  <2> QED BY <1>4, <2>1 DEF c
<1>5. CASE t.kind # "const"
  <2>1. ValueIn(c, x, t) = x[t]
    BY <1>3, <1>5 DEF ValueIn
  <2> QED BY <1>5, <2>1 DEF c
<1> QED BY <1>4, <1>5

\* The atoms of a state, and what a CSP sees of them.
LEMMA ViewFacts ==
    ASSUME NEW s, StateOK(s), NEW v \in Vars, NEW n
    PROVE  LET view == ViewOf(AtomsOf(s))
           IN  /\ <<v, n>> \in AtomsOf(s) <=> s[v] = n /\ (v[1] \in Predicates => n # 0)
               /\ <<v, n>> \in AtomsOf(s) => <<v, n>> \in AllAtoms
               /\ view.ext = AtomsOf(s) /\ view.now = AtomsOf(s)
               /\ n \in view.dom[v] <=> <<v, n>> \in AtomsOf(s)
<1>1. \A w, m : <<w, m>> \in AllAtoms <=> w \in Vars /\ m \in Values[w[1]] /\ (w[1] \in Predicates => m # 0)
  BY DEF AllAtoms
<1>2. <<v, n>> \in AtomsOf(s) <=> <<v, n>> \in AllAtoms /\ s[v] = n
  BY DEF AtomsOf
<1>3. s[v] \in Values[v[1]]
  BY DEF StateOK
<1>4. \A b \in AtomsOf(s) : b = <<b[1], b[2]>>
  BY DEF AtomsOf, AllAtoms
<1> DEFINE A == AtomsOf(s)
<1>5. ViewOf(A) = [dom |-> [w \in Vars |-> {c[2] : c \in {b \in A : b[1] = w}}], ext |-> A, now |-> A]
  BY DEF ViewOf, View
<1>6. ViewOf(A).dom[v] = {c[2] : c \in {b \in A : b[1] = v}}
  BY <1>5
<1>7. n \in ViewOf(A).dom[v] <=> <<v, n>> \in A
  <2> HIDE DEF A
  <2>1. <<v, n>>[1] = v /\ <<v, n>>[2] = n
    OBVIOUS
  <2>2. ASSUME n \in ViewOf(A).dom[v] PROVE <<v, n>> \in A
    <3>1. PICK b \in A : b[1] = v /\ b[2] = n
      BY <1>6, <2>2
    <3> QED BY <1>4, <3>1 DEF A
  <2>3. ASSUME <<v, n>> \in A PROVE n \in ViewOf(A).dom[v]
    BY <1>6, <2>1, <2>3
  <2> QED BY <2>2, <2>3
<1>8. ViewOf(A).ext = A /\ ViewOf(A).now = A
  BY <1>5
<1> QED BY <1>1, <1>2, <1>3, <1>7, <1>8

-----------------------------------------------------------------------------
\* The action may be applied, but for the state constraints.
Feasible(a, s, b) ==
    /\ Interpreted(a.pre, s, b)
    /\ \A i \in DOMAIN a.effs : Interpret(a.effs[i].rhs, s, b) \in Values[a.effs[i].lhs.name]

\* Solution x gives the terms the values they have in state s under binding b.
Reads(a, x, s, b) ==
    \A t \in ActionTerms(a) : ~IsPredicate(t) => ValueIn(LiftedCSP(a), x, t) = Interpret(t, s, b)

LEMMA ReadsVar ==
    ASSUME NEW a, ActionOK(a), NEW x, NEW s, NEW b, NEW t \in ActionTerms(a), IsFluent(t),
           \A u \in ToSet(t.sub) : ~IsPredicate(u) => ValueIn(LiftedCSP(a), x, u) = Interpret(u, s, b)
    PROVE  VarIn(LiftedCSP(a), x, t) = VarOf(t, s, b)
<1>1. Typed(a.params, t)
  BY ActionTermsFacts DEF Closed
<1>2. \A i \in DOMAIN t.sub : ~IsPredicate(t.sub[i])
  BY <1>1, KindFacts DEF IsFluent
<1>3. \A i \in DOMAIN t.sub : ValueIn(LiftedCSP(a), x, t.sub[i]) = Interpret(t.sub[i], s, b)
  BY <1>2 DEF ToSet
<1> QED BY <1>3 DEF VarIn, VarOf

\* A predicate is posted if it is true in the state.
LEMMA PredicatesPosted ==
    ASSUME NEW a, ActionOK(a), NEW s, StateOK(s), NEW b \in Bindings(a.params), NEW x, Reads(a, x, s, b)
    PROVE  LET c == LiftedCSP(a)
               view == ViewOf(AtomsOf(s))
           IN  NullaryTrue(c, view) /\ (\A t \in c.looked : Posted(c, x, t, view))
                 <=> \A t \in ActionTerms(a) : IsPredicate(t) => s[VarOf(t, s, b)] = 1
<1> DEFINE c == LiftedCSP(a)
           view == ViewOf(AtomsOf(s))
           T == ActionTerms(a)
<1>1. /\ Closed(a.params, T) /\ c.within = AllAtoms
      /\ c.nullary = {t \in T : IsPredicate(t) /\ t.sub = << >>}
      /\ c.looked = {t \in T : IsFluent(t) /\ (IsPredicate(t) => t.sub # << >>)}
  BY ActionTermsFacts, LiftedCSPIs
<1>2. \A t \in T : IsFluent(t) =>
         /\ VarOf(t, s, b) \in Vars /\ Interpret(t, s, b) = s[VarOf(t, s, b)]
         /\ VarIn(c, x, t) = VarOf(t, s, b) /\ VarOf(t, s, b)[1] = t.name
  <2> SUFFICES ASSUME NEW t \in T, IsFluent(t)
               PROVE  /\ VarOf(t, s, b) \in Vars /\ Interpret(t, s, b) = s[VarOf(t, s, b)]
                      /\ VarIn(c, x, t) = VarOf(t, s, b) /\ VarOf(t, s, b)[1] = t.name
    OBVIOUS
  <2>1. VarOf(t, s, b) \in Vars /\ Interpret(t, s, b) = s[VarOf(t, s, b)]
    BY <1>1, ValuesTyped
  <2>2. ToSet(t.sub) \subseteq T
    BY <1>1 DEF Closed
  <2>3. VarIn(c, x, t) = VarOf(t, s, b)
    BY <2>2, ReadsVar DEF Reads
  <2> QED BY <2>1, <2>3 DEF VarOf
<1>3. \A t : IsPredicate(t) => IsFluent(t) /\ t.name \in Predicates
  BY DEF IsPredicate
<1>4. \A t \in T : IsPredicate(t) => (<<VarOf(t, s, b), 1>> \in AtomsOf(s) <=> s[VarOf(t, s, b)] = 1)
  BY <1>2, <1>3, ViewFacts
<1>5. \A v \in Vars : \A n :
         /\ <<v, n>> \in AtomsOf(s) => <<v, n>> \in AllAtoms
         /\ n \in view.dom[v] <=> <<v, n>> \in AtomsOf(s)
         /\ view.ext = AtomsOf(s) /\ view.now = AtomsOf(s)
  BY ViewFacts
<1>6. \A t \in T : IsPredicate(t) /\ t.sub = << >> => VarOf(t, s, b) = <<t.name, << >>>>
  BY DEF VarOf
<1> HIDE DEF c, view, T
<1>7. NullaryTrue(c, view) <=>
         \A t \in T : IsPredicate(t) /\ t.sub = << >> => s[VarOf(t, s, b)] = 1
  <2>1. NullaryTrue(c, view) <=>
           \A t \in T : IsPredicate(t) /\ t.sub = << >> => <<VarOf(t, s, b), 1>> \in view.now
    BY <1>1, <1>6 DEF NullaryTrue
  <2>2. \A t \in T : IsPredicate(t) => VarOf(t, s, b) \in Vars
    BY <1>2, <1>3
  <2> QED BY <1>4, <1>5, <2>1, <2>2
<1>8. ASSUME NEW t \in T, IsFluent(t), IsPredicate(t)
      PROVE  Posted(c, x, t, view) <=> s[VarOf(t, s, b)] = 1
  <2>1. AtomIn(c, x, t) = <<VarOf(t, s, b), 1>>
    BY <1>2, <1>8 DEF AtomIn
  <2>2. VarOf(t, s, b) \in Vars
    BY <1>2, <1>8
  <2> QED BY <1>1, <1>4, <1>5, <1>8, <2>1, <2>2 DEF Posted
<1>9. ASSUME NEW t \in T, IsFluent(t), ~IsPredicate(t)
      PROVE  Posted(c, x, t, view)
  <2> DEFINE v == VarOf(t, s, b)
  <2>1. v \in Vars /\ v[1] \notin Predicates /\ VarIn(c, x, t) = v /\ Interpret(t, s, b) = s[v]
    BY <1>2, <1>9 DEF IsPredicate
  <2>2. x[t] = s[v]
    <3>1. ValueIn(c, x, t) = Interpret(t, s, b)
      BY <1>9 DEF Reads, c, T
    <3>2. ValueIn(c, x, t) = x[t]
      BY <1>9, ValueInIs DEF c, IsFluent
    <3> QED BY <2>1, <3>1, <3>2
  <2>3. AtomIn(c, x, t) = <<v, s[v]>>
    BY <1>9, <2>1, <2>2 DEF AtomIn
  <2> HIDE DEF v
  <2>4. <<v, s[v]>> \in AtomsOf(s)
    BY <2>1, ViewFacts
  <2>5. <<v, s[v]>>[1] = v /\ <<v, s[v]>>[2] = s[v]
    OBVIOUS
  <2> QED BY <1>1, <1>5, <2>1, <2>3, <2>4, <2>5 DEF Posted
<1>10. (\A t \in c.looked : Posted(c, x, t, view)) <=>
          \A t \in T : IsPredicate(t) /\ t.sub # << >> => s[VarOf(t, s, b)] = 1
  BY <1>1, <1>3, <1>8, <1>9
<1>11. NullaryTrue(c, view) /\ (\A t \in c.looked : Posted(c, x, t, view))
         <=> \A t \in T : IsPredicate(t) => s[VarOf(t, s, b)] = 1
  BY <1>7, <1>10
<1> QED BY <1>11 DEF c, view, T

\* And its variables have one value.
LEMMA StateSharesVariables ==
    ASSUME NEW a, ActionOK(a), NEW s, StateOK(s), NEW b \in Bindings(a.params), NEW x, Reads(a, x, s, b)
    PROVE  SharedVariables(LiftedCSP(a), x)
<1> DEFINE c == LiftedCSP(a)
           T == ActionTerms(a)
<1>1. Closed(a.params, T) /\ c.direct \subseteq {t \in T : IsFluent(t)}
  BY ActionTermsFacts, LiftedCSPIs
<1> SUFFICES ASSUME NEW t \in c.direct, NEW u \in c.direct, VarIn(c, x, t) = VarIn(c, x, u)
             PROVE  AtomIn(c, x, t) = AtomIn(c, x, u)
  BY DEF SharedVariables
<1>2. ASSUME NEW w \in {t, u}
      PROVE  AtomIn(c, x, w) = <<VarIn(c, x, w), IF w.name \in Predicates THEN 1 ELSE s[VarIn(c, x, w)]>>
  <2>1. w \in T /\ IsFluent(w)
    BY <1>1
  <2>2. ToSet(w.sub) \subseteq T
    BY <1>1, <2>1 DEF Closed
  <2>3. VarIn(c, x, w) = VarOf(w, s, b)
    BY <2>1, <2>2, ReadsVar DEF Reads
  <2>4. ASSUME ~IsPredicate(w) PROVE x[w] = s[VarOf(w, s, b)]
    <3>1. ValueIn(c, x, w) = Interpret(w, s, b)
      BY <2>1, <2>4 DEF Reads
    <3>2. Interpret(w, s, b) = s[VarOf(w, s, b)]
      BY <1>1, <2>1, ValuesTyped
    <3>3. ValueIn(c, x, w) = x[w]
      BY <2>1, ValueInIs DEF IsFluent
    <3> QED BY <3>1, <3>2, <3>3
  <2>5. IsPredicate(w) <=> w.name \in Predicates
    BY <2>1 DEF IsPredicate
  <2> QED BY <2>3, <2>4, <2>5 DEF AtomIn
<1>3. t.name = u.name
  BY DEF VarIn
<1> QED BY <1>2, <1>3

LEMMA ConditionsHold ==
    ASSUME NEW a, ActionOK(a), NEW s, StateOK(s), NEW b \in Bindings(a.params), NEW x, Reads(a, x, s, b)
    PROVE  (\A t \in ActionTerms(a) : IsPredicate(t) => s[VarOf(t, s, b)] = 1)
             /\ (\A cond \in a.pre : Holds(LiftedCSP(a), x, cond))
             <=> Interpreted(a.pre, s, b)
<1> DEFINE c == LiftedCSP(a)
           T == ActionTerms(a)
<1>1. /\ Closed(a.params, T)
      /\ \A cond \in a.pre : cond.lhs \in T /\ cond.rhs \in T /\ ~IsPredicate(cond.rhs)
      /\ \A t \in T : IsPredicate(t) => \E cond \in a.pre : cond.lhs = t
  BY ActionTermsFacts
<1>2. \A cond \in a.pre : IsAtom(cond) => cond.op = "=" /\ cond.rhs = Const(1)
  BY DEF ActionOK, SupportedConds
<1>3. \A t \in T : IsPredicate(t) => Interpret(t, s, b) = s[VarOf(t, s, b)]
  BY <1>1, ValuesTyped DEF IsPredicate
<1>4. Interpret(Const(1), s, b) = 1
  BY DEF Interpret, Const, IsFluent
<1>5. \A t \in T : ~IsPredicate(t) => ValueIn(c, x, t) = Interpret(t, s, b)
  BY DEF Reads
<1> HIDE DEF c, T
<1>6. ASSUME NEW cond \in a.pre, IsAtom(cond)
      PROVE  /\ IsPredicate(cond.lhs) /\ Holds(c, x, cond)
             /\ Compare(cond.op, Interpret(cond.lhs, s, b), Interpret(cond.rhs, s, b))
                  <=> s[VarOf(cond.lhs, s, b)] = 1
  <2>1. IsPredicate(cond.lhs) /\ cond.lhs \in T
    BY <1>1, <1>6 DEF IsAtom
  <2>2. Holds(c, x, cond)
    BY <1>6 DEF Holds
  <2>3. Interpret(cond.rhs, s, b) = 1 /\ cond.op = "="
    BY <1>2, <1>4, <1>6
  <2>4. Interpret(cond.lhs, s, b) = s[VarOf(cond.lhs, s, b)]
    BY <1>3, <2>1
  <2> QED BY <2>1, <2>2, <2>3, <2>4 DEF Compare
<1>7. ASSUME NEW cond \in a.pre, ~IsAtom(cond)
      PROVE  Holds(c, x, cond) <=> Compare(cond.op, Interpret(cond.lhs, s, b), Interpret(cond.rhs, s, b))
  <2>1. ~IsPredicate(cond.lhs) /\ ~IsPredicate(cond.rhs) /\ cond.lhs \in T /\ cond.rhs \in T
    BY <1>1, <1>7 DEF IsAtom
  <2>2. ValueIn(c, x, cond.lhs) = Interpret(cond.lhs, s, b) /\ ValueIn(c, x, cond.rhs) = Interpret(cond.rhs, s, b)
    BY <1>5, <2>1
  <2> QED BY <1>7, <2>2 DEF Holds
<1>8. Interpreted(a.pre, s, b) <=>
         \A cond \in a.pre : Compare(cond.op, Interpret(cond.lhs, s, b), Interpret(cond.rhs, s, b))
  BY DEF Interpreted
<1>9. ASSUME \A t \in T : IsPredicate(t) => s[VarOf(t, s, b)] = 1,
             \A cond \in a.pre : Holds(c, x, cond), NEW cond \in a.pre
      PROVE  Compare(cond.op, Interpret(cond.lhs, s, b), Interpret(cond.rhs, s, b))
  <2>1. CASE IsAtom(cond)
    BY <1>1, <1>6, <1>9, <2>1
  <2>2. CASE ~IsAtom(cond)
    BY <1>7, <1>9, <2>2
  <2> QED BY <2>1, <2>2
<1>10. ASSUME Interpreted(a.pre, s, b), NEW t \in T, IsPredicate(t)
       PROVE  s[VarOf(t, s, b)] = 1
  <2>1. PICK cond \in a.pre : cond.lhs = t
    BY <1>1, <1>10
  <2>2. IsAtom(cond)
    BY <1>10, <2>1 DEF IsAtom
  <2> QED BY <1>6, <1>8, <1>10, <2>1, <2>2
<1>11. ASSUME Interpreted(a.pre, s, b), NEW cond \in a.pre
       PROVE  Holds(c, x, cond)
  BY <1>6, <1>7, <1>8, <1>11
<1> QED BY <1>8, <1>9, <1>10, <1>11 DEF c, T

\* A delete is always in bounds.
LEMMA BoundsHold ==
    ASSUME NEW a, ActionOK(a), NEW s, NEW b, NEW x, Reads(a, x, s, b)
    PROVE  InBounds(LiftedCSP(a), x) <=>
             \A i \in DOMAIN a.effs : Interpret(a.effs[i].rhs, s, b) \in Values[a.effs[i].lhs.name]
<1> DEFINE c == LiftedCSP(a)
           Fits(e) == Interpret(e.rhs, s, b) \in Values[e.lhs.name]
<1>1. c.effs = AddEffects(a)
  BY LiftedCSPIs
<1>2. \A e \in ToSet(AddEffects(a)) : ValueIn(c, x, e.rhs) = Interpret(e.rhs, s, b)
  BY ActionTermsFacts DEF Reads
<1>3. \A e : IsDel(e) => Fits(e)
  <2> SUFFICES ASSUME NEW e, IsDel(e) PROVE Fits(e)
    OBVIOUS
  <2>1. e.lhs.name \in Predicates /\ e.rhs = Const(0)
    BY DEF IsDel, IsPredicate
  <2>2. Interpret(Const(0), s, b) = 0
    BY DEF Interpret, Const, IsFluent
  <2>3. Values[e.lhs.name] = {0, 1}
    BY <2>1, LanguageAssumption
  <2> QED BY <2>1, <2>2, <2>3
<1> HIDE DEF c
<1>4. InBounds(c, x) <=> \A e \in ToSet(AddEffects(a)) : Fits(e)
  <2>1. InBounds(c, x) <=> \A i \in DOMAIN AddEffects(a) :
           ValueIn(c, x, AddEffects(a)[i].rhs) \in Values[AddEffects(a)[i].lhs.name]
    BY <1>1 DEF InBounds
  <2>2. \A i \in DOMAIN AddEffects(a) : AddEffects(a)[i] \in ToSet(AddEffects(a))
    BY DEF ToSet
  <2>3. \A e \in ToSet(AddEffects(a)) : \E i \in DOMAIN AddEffects(a) : e = AddEffects(a)[i]
    BY DEF ToSet
  <2> QED BY <1>2, <2>1, <2>2, <2>3
<1>5. ToSet(AddEffects(a)) = {e \in ToSet(a.effs) : ~IsDel(e)}
  BY AddEffectsFacts
<1> HIDE DEF Fits
<1>6. InBounds(c, x) <=> \A e \in ToSet(a.effs) : Fits(e)
  BY <1>3, <1>4, <1>5
<1>7. (\A e \in ToSet(a.effs) : Fits(e)) <=> \A i \in DOMAIN a.effs : Fits(a.effs[i])
  BY DEF ToSet
<1>8. InBounds(c, x) <=> \A i \in DOMAIN a.effs : Fits(a.effs[i])
  BY <1>6, <1>7
<1> QED BY <1>8 DEF c, Fits

LEMMA FeasibleIff ==
    ASSUME NEW a, ActionOK(a), NEW s, StateOK(s), NEW b \in Bindings(a.params),
           NEW x \in Candidates(LiftedCSP(a)), Reads(a, x, s, b)
    PROVE  x \in Solutions(LiftedCSP(a), ViewOf(AtomsOf(s))) <=> Feasible(a, s, b)
<1> DEFINE c == LiftedCSP(a)
           view == ViewOf(AtomsOf(s))
<1>1. c.conds = a.pre
  BY LiftedCSPIs
<1>2. NullaryTrue(c, view) /\ (\A t \in c.looked : Posted(c, x, t, view))
        <=> \A t \in ActionTerms(a) : IsPredicate(t) => s[VarOf(t, s, b)] = 1
  BY PredicatesPosted
<1>3. (\A t \in ActionTerms(a) : IsPredicate(t) => s[VarOf(t, s, b)] = 1)
        /\ (\A cond \in a.pre : Holds(c, x, cond))
        <=> Interpreted(a.pre, s, b)
  BY ConditionsHold
<1>4. InBounds(c, x) <=> \A i \in DOMAIN a.effs : Interpret(a.effs[i].rhs, s, b) \in Values[a.effs[i].lhs.name]
  BY BoundsHold
<1> HIDE DEF c, view
<1>5. x \in Solutions(c, view) <=> NullaryTrue(c, view) /\ Consistent(c, x, view) /\ InBounds(c, x)
  <2>1. x \in Candidates(c)
    BY DEF c
  <2> QED BY <2>1 DEF Solutions
<1>8. SharedVariables(c, x)
  BY StateSharesVariables DEF c
<1>6. Consistent(c, x, view) <=> (\A t \in c.looked : Posted(c, x, t, view)) /\ \A cond \in a.pre : Holds(c, x, cond)
  BY <1>1, <1>8 DEF Consistent
<1>7. x \in Solutions(c, view) <=> Feasible(a, s, b)
  BY <1>2, <1>3, <1>4, <1>5, <1>6 DEF Feasible
<1> QED BY <1>7 DEF c, view

\* What the variables of the CSP are worth.
LEMMA CandidateFacts ==
    ASSUME NEW a, ActionOK(a)
    PROVE  LET D == ParamTerms(a) \cup {t \in ActionTerms(a) : IsFluent(t) /\ ~IsPredicate(t)}
           IN  /\ \A x \in Candidates(LiftedCSP(a)) :
                     x = [t \in D |-> x[t]] /\ \A t \in D : x[t] \in ValuesOf(a.params, t)
               /\ \A x : x = [t \in D |-> x[t]] /\ (\A t \in D : x[t] \in ValuesOf(a.params, t))
                     => x \in Candidates(LiftedCSP(a))
               /\ \A t \in ActionTerms(a) : t.kind # "const" /\ ~IsPredicate(t) => t \in D
               /\ \A p \in DOMAIN a.params : Param(p) \in D /\ ValuesOf(a.params, Param(p)) = a.params[p]
<1> DEFINE D == ParamTerms(a) \cup {t \in ActionTerms(a) : IsFluent(t) /\ ~IsPredicate(t)}
           r == LiftedCSP(a).range
<1>1. r = [t \in D |-> ValuesOf(a.params, t)]
  BY LiftedCSPIs
<1>2. Candidates(LiftedCSP(a)) = Bindings(r)
  BY DEF Candidates
<1>3. \A p \in DOMAIN a.params : Param(p) \in D /\ ValuesOf(a.params, Param(p)) = a.params[p]
  BY DEF ParamTerms, ValuesOf, Param
<1>4. ASSUME NEW t \in ActionTerms(a), t.kind # "const", ~IsPredicate(t) PROVE t \in D
  <2>1. Typed(a.params, t)
    BY ActionTermsFacts DEF Closed
  <2>2. CASE t.kind = "param"
    BY <2>1, <2>2, KindFacts DEF ParamTerms
  <2>3. CASE t.kind # "param"
    BY <1>4, <2>1, <2>3, KindFacts
  <2> QED BY <2>2, <2>3
<1> HIDE DEF D, r
<1>5. DOMAIN r = D /\ \A t \in D : r[t] = ValuesOf(a.params, t)
  BY <1>1
<1>6. \A x \in Bindings(r) : x = [t \in D |-> x[t]] /\ \A t \in D : x[t] \in ValuesOf(a.params, t)
  <2>1. \A x \in Bindings(r) : x = [t \in DOMAIN r |-> x[t]] /\ \A t \in DOMAIN r : x[t] \in r[t]
    BY BindingFacts
  <2> QED BY <1>5, <2>1
<1>7. ASSUME NEW x, x = [t \in D |-> x[t]], \A t \in D : x[t] \in ValuesOf(a.params, t)
      PROVE  x \in Bindings(r)
  <2>1. x = [t \in DOMAIN r |-> x[t]]
    BY <1>5, <1>7
  <2>2. \A t \in DOMAIN r : x[t] \in r[t]
    BY <1>5, <1>7
  <2> QED BY <2>1, <2>2, BindingFacts
<1> QED BY <1>2, <1>3, <1>4, <1>6, <1>7 DEF D

\* A solution binds the parameters, and reads all terms in the state.
ParamsOf(a, x) == [p \in DOMAIN a.params |-> x[Param(p)]]

LEMMA SolutionReads ==
    ASSUME NEW a, ActionOK(a), NEW s, StateOK(s), NEW x \in Solutions(LiftedCSP(a), ViewOf(AtomsOf(s)))
    PROVE  /\ x \in Candidates(LiftedCSP(a)) /\ ParamsOf(a, x) \in Bindings(a.params)
           /\ Reads(a, x, s, ParamsOf(a, x))
<1> DEFINE c == LiftedCSP(a)
           view == ViewOf(AtomsOf(s))
           T == ActionTerms(a)
           b == ParamsOf(a, x)
           D == ParamTerms(a) \cup {t \in T : IsFluent(t) /\ ~IsPredicate(t)}
<1>1. x \in Candidates(c) /\ Consistent(c, x, view)
  BY DEF Solutions
<1>2. /\ x = [t \in D |-> x[t]] /\ \A t \in D : x[t] \in ValuesOf(a.params, t)
      /\ \A t \in T : t.kind # "const" /\ ~IsPredicate(t) => t \in D
      /\ \A p \in DOMAIN a.params : Param(p) \in D /\ ValuesOf(a.params, Param(p)) = a.params[p]
  BY <1>1, CandidateFacts
<1>3. b \in Bindings(a.params)
  <2>1. b = [p \in DOMAIN a.params |-> b[p]] /\ \A p \in DOMAIN a.params : b[p] = x[Param(p)]
    BY DEF ParamsOf
  <2>2. \A p \in DOMAIN a.params : b[p] \in a.params[p]
    BY <1>2, <2>1
  <2> HIDE DEF b
  <2> QED BY <2>1, <2>2, BindingFacts
<1>4. /\ Closed(a.params, T)
      /\ c.looked = {t \in T : IsFluent(t) /\ (IsPredicate(t) => t.sub # << >>)}
  BY ActionTermsFacts, LiftedCSPIs
<1>5. \A t \in c.looked : Posted(c, x, t, view)
  BY <1>1 DEF Consistent
<1>6. \A t : ValueIn(c, x, t) = IF t.kind = "const" THEN t.val ELSE x[t]
  BY ValueInIs
<1> DEFINE G == {t \in T : IsPredicate(t) \/ ValueIn(c, x, t) = Interpret(t, s, b)}
<1>7. ASSUME NEW t \in T, ToSet(t.sub) \subseteq G PROVE t \in G
  <2>1. Typed(a.params, t) /\ Depth2(t)
    BY <1>4 DEF Closed
  <2>2. Interpret(t, s, b) = IF IsFluent(t) THEN s[VarOf(t, s, b)] ELSE Flat(t, s, b)
    BY <2>1, InterpretUnfolds
  <2>3. CASE t.kind = "const"
    <3>1. ~IsFluent(t) /\ Flat(t, s, b) = t.val
      BY <2>3 DEF Flat, IsFluent
    <3>2. ValueIn(c, x, t) = t.val
      BY <1>6, <2>3
    <3> QED BY <2>2, <3>1, <3>2
  <2>4. CASE t.kind = "param"
    <3>1. t = Param(t.name) /\ t.name \in DOMAIN a.params /\ ~IsFluent(t)
      BY <2>1, <2>4, KindFacts
    <3>2. Flat(t, s, b) = b[t.name] /\ b[t.name] = x[Param(t.name)]
      BY <2>4, <3>1 DEF Flat, ParamsOf
    <3>3. ValueIn(c, x, t) = x[t]
      BY <1>6, <2>4
    <3>4. b[t.name] = x[t]
      BY <3>1, <3>2
    <3> QED BY <2>2, <3>1, <3>2, <3>3, <3>4
  <2>5. CASE t.kind \notin {"const", "param"} /\ ~IsPredicate(t)
    <3> DEFINE v == VarOf(t, s, b)
    <3>1. IsFluent(t)
      BY <2>1, <2>5, KindFacts
    <3>2. VarIn(c, x, t) = v
      BY <1>7, <3>1, ReadsVar
    <3>3. v \in Vars
      BY <1>3, <1>4, <3>1, ValuesTyped
    <3>4. AtomIn(c, x, t) = <<v, x[t]>> /\ <<v, x[t]>>[1] = v /\ <<v, x[t]>>[2] = x[t]
      BY <2>5, <3>2 DEF AtomIn
    <3>5. Posted(c, x, t, view)
      BY <1>4, <1>5, <2>5, <3>1
    <3> HIDE DEF v, c, view, b
    <3>6. x[t] \in view.dom[v] \/ <<v, x[t]>> \in view.ext
      BY <3>4, <3>5 DEF Posted
    <3>7. s[v] = x[t]
      BY <3>3, <3>6, ViewFacts DEF view
    <3>8. Interpret(t, s, b) = s[v]
      BY <2>2, <3>1 DEF v
    <3>9. ValueIn(c, x, t) = x[t]
      BY <1>6, <2>5
    <3> QED BY <3>7, <3>8, <3>9
  <2>6. CASE IsPredicate(t)
    BY <2>6
  <2> QED BY <2>3, <2>4, <2>5, <2>6
<1> HIDE DEF G
<1>8. T \subseteq G
  BY <1>4, <1>7, TermInduction
<1>9. Reads(a, x, s, b)
  BY <1>8 DEF Reads, G
<1> QED BY <1>1, <1>3, <1>9

\* The solution for a binding.
SolutionFor(a, s, b) == [t \in DOMAIN LiftedCSP(a).range |-> Interpret(t, s, b)]

LEMMA SolutionForReads ==
    ASSUME NEW a, ActionOK(a), NEW s, StateOK(s), NEW b \in Bindings(a.params)
    PROVE  LET x == SolutionFor(a, s, b)
           IN  x \in Candidates(LiftedCSP(a)) /\ ParamsOf(a, x) = b /\ Reads(a, x, s, b)
<1> DEFINE c == LiftedCSP(a)
           T == ActionTerms(a)
           D == ParamTerms(a) \cup {t \in T : IsFluent(t) /\ ~IsPredicate(t)}
           x == SolutionFor(a, s, b)
<1>1. x = [t \in D |-> Interpret(t, s, b)]
  BY LiftedCSPIs DEF SolutionFor
<1>2. Closed(a.params, T)
  BY ActionTermsFacts
<1>3. \A p \in DOMAIN a.params : Param(p) \in D /\ ValuesOf(a.params, Param(p)) = a.params[p]
  BY CandidateFacts
<1>4. \A t \in T : Interpret(t, s, b) \in ValuesOf(a.params, t)
  BY <1>2, ValuesTyped
<1>5. \A p \in DOMAIN a.params : Interpret(Param(p), s, b) = b[p]
  BY DEF Interpret, Param, IsFluent
<1>6. \A p \in DOMAIN a.params : b[p] \in a.params[p]
  BY BindingFacts
<1>7. \A t \in D : Interpret(t, s, b) \in ValuesOf(a.params, t)
  BY <1>3, <1>4, <1>5, <1>6 DEF ParamTerms
<1>8. \A t \in T : t.kind # "const" /\ ~IsPredicate(t) => t \in D
  BY CandidateFacts
<1>9. x = [t \in D |-> x[t]] /\ \A t \in D : x[t] = Interpret(t, s, b)
  <2> HIDE DEF D
  <2> QED BY <1>1
<1> HIDE DEF x
<1>10. x \in Candidates(c)
  <2>1. \A t \in D : x[t] \in ValuesOf(a.params, t)
    BY <1>7, <1>9
  <2>2. x = [t \in D |-> x[t]]
    BY <1>9
  <2>3. \A y : y = [t \in D |-> y[t]] /\ (\A t \in D : y[t] \in ValuesOf(a.params, t)) => y \in Candidates(c)
    BY CandidateFacts
  <2> HIDE DEF D, c
  <2> QED BY <2>1, <2>2, <2>3
<1>11. ParamsOf(a, x) = b
  <2>1. \A p \in DOMAIN a.params : x[Param(p)] = b[p]
    BY <1>3, <1>5, <1>9
  <2>2. b = [p \in DOMAIN a.params |-> b[p]]
    BY BindingFacts
  <2>3. ParamsOf(a, x) = [p \in DOMAIN a.params |-> b[p]]
    BY <2>1 DEF ParamsOf
  <2> QED BY <2>2, <2>3
<1>12. Reads(a, x, s, b)
  <2> SUFFICES ASSUME NEW t \in T, ~IsPredicate(t) PROVE ValueIn(c, x, t) = Interpret(t, s, b)
    BY DEF Reads
  <2>1. ValueIn(c, x, t) = IF t.kind = "const" THEN t.val ELSE x[t]
    BY ValueInIs
  <2>2. CASE t.kind = "const"
    <3>1. Interpret(t, s, b) = t.val
      BY <2>2 DEF Interpret, IsFluent
    <3> QED BY <2>1, <2>2, <3>1
  <2>3. CASE t.kind # "const"
    BY <1>8, <1>9, <2>1, <2>3
  <2> QED BY <2>2, <2>3
<1> QED BY <1>10, <1>11, <1>12 DEF x

LEMMA ActionOfIs ==
    ASSUME NEW a, ActionOK(a), NEW x
    PROVE  ActionOf(LiftedCSP(a), x) = <<a.name, ParamsOf(a, x)>>
<1> DEFINE c == LiftedCSP(a)
           D == ParamTerms(a) \cup {t \in ActionTerms(a) : IsFluent(t) /\ ~IsPredicate(t)}
<1>1. c.bound = << >> /\ c.action = a.name /\ DOMAIN c.range = D
  BY LiftedCSPIs
<1>2. DOMAIN << >> = {}
  OBVIOUS
<1>3. \A p : Param(p).kind = "param" /\ Param(p).name = p
  BY DEF Param
<1>4. {t.name : t \in {u \in D : u.kind = "param"}} = DOMAIN a.params
  <2>1. ASSUME NEW t \in D, t.kind = "param" PROVE t.name \in DOMAIN a.params
    BY <1>3, <2>1 DEF ParamTerms, IsFluent
  <2>2. ASSUME NEW p \in DOMAIN a.params PROVE \E t \in D : t.kind = "param" /\ t.name = p
    <3>1. Param(p) \in D
      BY DEF ParamTerms
    <3> HIDE DEF D
    <3> QED BY <1>3, <3>1
  <2> HIDE DEF D
  <2> QED BY <2>1, <2>2
<1> HIDE DEF D, c
<1>5. DOMAIN c.bound \cup {t.name : t \in {u \in DOMAIN c.range : u.kind = "param"}} = DOMAIN a.params
  BY <1>1, <1>2, <1>4
<1>6. \A p : p \notin DOMAIN c.bound
  BY <1>1, <1>2
<1>7. ActionOf(c, x) = <<a.name, [p \in DOMAIN a.params |-> IF p \in DOMAIN c.bound THEN c.bound[p] ELSE x[Param(p)]]>>
  BY <1>1, <1>5 DEF ActionOf
<1>8. ActionOf(c, x) = <<a.name, [p \in DOMAIN a.params |-> x[Param(p)]]>>
  BY <1>6, <1>7
<1> QED BY <1>8 DEF c, ParamsOf

\* The solutions are, one to one, the bindings under which the action is
\* feasible.
LEMMA SolutionsAre ==
    ASSUME NEW a, ActionOK(a), NEW s, StateOK(s)
    PROVE  LET S == Solutions(LiftedCSP(a), ViewOf(AtomsOf(s)))
           IN  /\ \A x \in S : ParamsOf(a, x) \in Bindings(a.params) /\ Feasible(a, s, ParamsOf(a, x))
               /\ \A b \in Bindings(a.params) : Feasible(a, s, b) => \E x \in S : ParamsOf(a, x) = b
               /\ \A x, y \in S : ParamsOf(a, x) = ParamsOf(a, y) => x = y
<1> DEFINE S == Solutions(LiftedCSP(a), ViewOf(AtomsOf(s)))
           D == ParamTerms(a) \cup {t \in ActionTerms(a) : IsFluent(t) /\ ~IsPredicate(t)}
<1>1. ASSUME NEW x \in S
      PROVE  ParamsOf(a, x) \in Bindings(a.params) /\ Feasible(a, s, ParamsOf(a, x))
  BY SolutionReads, FeasibleIff
<1>2. ASSUME NEW b \in Bindings(a.params), Feasible(a, s, b)
      PROVE  \E x \in S : ParamsOf(a, x) = b
  <2> DEFINE x == SolutionFor(a, s, b)
  <2>1. x \in Candidates(LiftedCSP(a)) /\ ParamsOf(a, x) = b /\ Reads(a, x, s, b)
    BY SolutionForReads
  <2> HIDE DEF x
  <2>2. x \in S
    BY <1>2, <2>1, FeasibleIff
  <2> QED BY <2>1, <2>2
<1>3. ASSUME NEW x \in S, NEW y \in S, ParamsOf(a, x) = ParamsOf(a, y) PROVE x = y
  <2> DEFINE b == ParamsOf(a, x)
  <2>1. Reads(a, x, s, b) /\ Reads(a, y, s, b)
    BY <1>3, SolutionReads
  <2>2. x \in Candidates(LiftedCSP(a)) /\ y \in Candidates(LiftedCSP(a))
    BY SolutionReads
  <2>3. x = [t \in D |-> x[t]] /\ y = [t \in D |-> y[t]]
    BY <2>2, CandidateFacts
  <2>4. ASSUME NEW p \in DOMAIN a.params PROVE x[Param(p)] = y[Param(p)]
    BY <1>3 DEF ParamsOf
  <2>5. ASSUME NEW t \in ActionTerms(a), IsFluent(t), ~IsPredicate(t) PROVE x[t] = y[t]
    <3>1. ValueIn(LiftedCSP(a), x, t) = Interpret(t, s, b) /\ ValueIn(LiftedCSP(a), y, t) = Interpret(t, s, b)
      BY <2>1, <2>5 DEF Reads
    <3>2. ValueIn(LiftedCSP(a), x, t) = x[t] /\ ValueIn(LiftedCSP(a), y, t) = y[t]
      BY <2>5, ValueInIs DEF IsFluent
    <3> QED BY <3>1, <3>2
  <2>6. \A t \in D : x[t] = y[t]
    BY <2>4, <2>5 DEF ParamTerms
  <2> HIDE DEF D
  <2> QED BY <2>3, <2>6
<1> QED BY <1>1, <1>2, <1>3

-----------------------------------------------------------------------------
(***************************************************************************)
(* What the iterator has to yield.                                         *)
(***************************************************************************)
TaskOK(t) ==
    /\ StateOK(t.init)
    /\ t.actions \in Seq(ToSet(t.actions))
    /\ \A i, j \in DOMAIN t.actions : t.actions[i].name = t.actions[j].name => i = j
    /\ \A i \in DOMAIN t.actions : ActionOK(t.actions[i])

Tasks == {n.task : n \in Instances}

LEMMA TaskFacts ==
    ASSUME NEW t \in Tasks
    PROVE  TaskOK(t)
<1>1. \A i \in DOMAIN t.actions : ActionOK(t.actions[i])
  BY TasksAssumption DEF Tasks, ActionOK
<1>2. StateOK(t.init)
  BY TasksAssumption DEF Tasks, StateOK
<1>3. /\ t.actions \in Seq(ToSet(t.actions))
      /\ \A i, j \in DOMAIN t.actions : t.actions[i].name = t.actions[j].name => i = j
  BY TasksAssumption DEF Tasks
<1> QED BY <1>1, <1>2, <1>3 DEF TaskOK

LEMMA TaskDomain ==
    ASSUME NEW t, TaskOK(t)
    PROVE  Len(t.actions) \in Nat /\ DOMAIN t.actions = 1..Len(t.actions)
<1>1. t.actions \in Seq(ToSet(t.actions))
  BY DEF TaskOK
<1> QED BY <1>1, LenProperties

LEMMA SchemaIs ==
    ASSUME NEW t, TaskOK(t), NEW i \in DOMAIN t.actions
    PROVE  Schema(t, t.actions[i].name) = t.actions[i]
<1>1. t.actions[i] \in ToSet(t.actions) /\ t.actions[i].name = t.actions[i].name
  BY DEF ToSet
<1>2. \A a \in ToSet(t.actions) : a.name = t.actions[i].name => a = t.actions[i]
  BY DEF TaskOK, ToSet
<1> QED BY <1>1, <1>2 DEF Schema

\* The actions that action i has in state s.
Applicable(t, s, i) ==
    {<<t.actions[i].name, b>> : b \in {c \in Bindings(t.actions[i].params) : ApplicableIn(t, s, t.actions[i], c)}}

ApplicableUpTo(t, s, k) == UNION {Applicable(t, s, i) : i \in 1..k}

LEMMA ApplicableUpToAll ==
    ASSUME NEW t, TaskOK(t), NEW s
    PROVE  ApplicableUpTo(t, s, Len(t.actions)) = ApplicableActions(t, s)
<1> DEFINE Of(a) == {<<a.name, b>> : b \in {c \in Bindings(a.params) : ApplicableIn(t, s, a, c)}}
<1>1. ApplicableActions(t, s) = UNION {Of(a) : a \in ToSet(t.actions)}
  BY DEF ApplicableActions
<1>2. \A i : Applicable(t, s, i) = Of(t.actions[i])
  BY DEF Applicable
<1>3. ToSet(t.actions) = {t.actions[i] : i \in 1..Len(t.actions)}
  BY TaskDomain DEF ToSet
<1> HIDE DEF Of
<1> QED BY <1>1, <1>2, <1>3 DEF ApplicableUpTo

LEMMA ApplicableUpToNext ==
    ASSUME NEW t, NEW s, NEW k \in Nat
    PROVE  /\ ApplicableUpTo(t, s, 0) = {}
           /\ ApplicableUpTo(t, s, k + 1) = ApplicableUpTo(t, s, k) \cup Applicable(t, s, k + 1)
<1>1. 1..0 = {}
  OBVIOUS
<1>2. ApplicableUpTo(t, s, 0) = {}
  BY <1>1 DEF ApplicableUpTo
<1>3. 1..(k + 1) = 1..k \cup {k + 1}
  OBVIOUS
<1>4. ApplicableUpTo(t, s, k + 1) = ApplicableUpTo(t, s, k) \cup Applicable(t, s, k + 1)
  BY <1>3 DEF ApplicableUpTo
<1> QED BY <1>2, <1>4

\* Two actions have no instance in common.
LEMMA ApplicableDisjoint ==
    ASSUME NEW t, TaskOK(t), NEW s, NEW k \in Nat, k < Len(t.actions),
           NEW id \in Applicable(t, s, k + 1)
    PROVE  id \notin ApplicableUpTo(t, s, k)
<1> SUFFICES ASSUME NEW i \in 1..k, id \in Applicable(t, s, i) PROVE FALSE
  BY DEF ApplicableUpTo
<1>1. id[1] = t.actions[i].name /\ id[1] = t.actions[k + 1].name
  BY DEF Applicable
<1>2. i \in DOMAIN t.actions /\ k + 1 \in DOMAIN t.actions
  BY TaskDomain
<1>3. i = k + 1
  BY <1>1, <1>2 DEF TaskOK
<1> QED BY <1>3

\* The model goes from typed states to typed states.
LEMMA ResultTyped ==
    ASSUME NEW t, TaskOK(t), NEW s, StateOK(s), NEW id \in ApplicableActions(t, s)
    PROVE  StateOK(Result(t, id, s))
<1>1. PICK i \in 1..Len(t.actions) : id \in Applicable(t, s, i)
  BY ApplicableUpToAll DEF ApplicableUpTo
<1> DEFINE a == t.actions[i]
<1>2. i \in DOMAIN t.actions /\ ActionOK(a)
  BY TaskDomain DEF TaskOK
<1>3. PICK b \in Bindings(a.params) : id = <<a.name, b>> /\ ApplicableIn(t, s, a, b)
  BY <1>1 DEF Applicable
<1>4. Result(t, id, s) = Apply(a, s, b)
  BY <1>2, <1>3, SchemaIs DEF Result
<1> HIDE DEF a
<1>5. \A k \in DOMAIN a.effs : Interpret(a.effs[k].rhs, s, b) \in Values[a.effs[k].lhs.name]
  BY <1>3 DEF ApplicableIn
<1>6. \A e \in ToSet(a.effs) : Interpret(e.rhs, s, b) \in Values[e.lhs.name]
  BY <1>5 DEF ToSet
<1>7. ASSUME NEW e \in ToSet(a.effs)
      PROVE  Target(e, s, b) \in Vars /\ Interpret(e.rhs, s, b) \in Values[Target(e, s, b)[1]]
  <2>1. TypedEffect(a.params, e)
    BY <1>2 DEF ActionOK
  <2>2. TypedTerm(a.params, e.lhs) /\ IsFluent(e.lhs)
    BY <2>1 DEF TypedEffect
  <2>3. Closed(a.params, SubTerms(e.lhs)) /\ e.lhs \in SubTerms(e.lhs)
    BY <2>2, TypedTermFacts
  <2>4. VarOf(e.lhs, s, b) \in Vars
    BY <1>3, <2>2, <2>3, ValuesTyped
  <2>5. Target(e, s, b) = VarOf(e.lhs, s, b) /\ Target(e, s, b)[1] = e.lhs.name
    BY DEF Target, VarOf
  <2> QED BY <1>6, <2>4, <2>5
<1>8. StateOK(Apply(a, s, b))
  BY <1>2, <1>7, ApplyTyped
<1> QED BY <1>4, <1>8

-----------------------------------------------------------------------------
(***************************************************************************)
(* What the iterator yields of the solutions X of one CSP.                 *)
(***************************************************************************)
SolutionsOf(t, s, i) == Solutions(LiftedCSP(t.actions[i]), ViewOf(AtomsOf(s)))
Id(t, i, x) == ActionOf(LiftedCSP(t.actions[i]), x)
KeptOf(t, s, i, X) == {Id(t, i, x) : x \in {y \in X : ConstraintsHold(t, Result(t, Id(t, i, y), s))}}

LEMMA IdIs ==
    ASSUME NEW t, TaskOK(t), NEW s, StateOK(s), NEW i \in DOMAIN t.actions
    PROVE  /\ \A x : Id(t, i, x) = <<t.actions[i].name, ParamsOf(t.actions[i], x)>>
           /\ \A x : Result(t, Id(t, i, x), s) = Apply(t.actions[i], s, ParamsOf(t.actions[i], x))
           /\ \A x, y \in SolutionsOf(t, s, i) : Id(t, i, x) = Id(t, i, y) => x = y
<1> DEFINE a == t.actions[i]
<1>1. ActionOK(a)
  BY DEF TaskOK
<1>2. \A x : Id(t, i, x) = <<a.name, ParamsOf(a, x)>>
  BY <1>1, ActionOfIs DEF Id
<1>3. \A x : Result(t, Id(t, i, x), s) = Apply(a, s, ParamsOf(a, x))
  BY <1>2, SchemaIs DEF Result
<1>4. \A x, y \in SolutionsOf(t, s, i) : Id(t, i, x) = Id(t, i, y) => x = y
  <2>1. \A x, y \in SolutionsOf(t, s, i) : ParamsOf(a, x) = ParamsOf(a, y) => x = y
    BY <1>1, SolutionsAre DEF SolutionsOf
  <2> HIDE DEF a
  <2> QED BY <1>2, <2>1
<1> QED BY <1>2, <1>3, <1>4

LEMMA KeptIsApplicable ==
    ASSUME NEW t, TaskOK(t), NEW s, StateOK(s), NEW i \in DOMAIN t.actions
    PROVE  KeptOf(t, s, i, SolutionsOf(t, s, i)) = Applicable(t, s, i)
<1> DEFINE a == t.actions[i]
           S == SolutionsOf(t, s, i)
           P(x) == ParamsOf(a, x)
<1>1. ActionOK(a)
  BY DEF TaskOK
<1>2. /\ \A x \in S : P(x) \in Bindings(a.params) /\ Feasible(a, s, P(x))
      /\ \A b \in Bindings(a.params) : Feasible(a, s, b) => \E x \in S : P(x) = b
  BY <1>1, SolutionsAre DEF SolutionsOf
<1>3. \A b : ApplicableIn(t, s, a, b) <=> Feasible(a, s, b) /\ ConstraintsHold(t, Apply(a, s, b))
  BY DEF ApplicableIn, Feasible
<1>4. \A x : Id(t, i, x) = <<a.name, P(x)>> /\ Result(t, Id(t, i, x), s) = Apply(a, s, P(x))
  BY IdIs
<1>5. Applicable(t, s, i) = {<<a.name, b>> : b \in {c \in Bindings(a.params) : ApplicableIn(t, s, a, c)}}
  BY DEF Applicable
<1>6. KeptOf(t, s, i, S) = {Id(t, i, x) : x \in {y \in S : ConstraintsHold(t, Result(t, Id(t, i, y), s))}}
  BY DEF KeptOf
<1> HIDE DEF a, S, P
<1>7. ASSUME NEW id \in KeptOf(t, s, i, S) PROVE id \in Applicable(t, s, i)
  <2>1. PICK x \in S : id = Id(t, i, x) /\ ConstraintsHold(t, Result(t, Id(t, i, x), s))
    BY <1>6
  <2>2. id = <<a.name, P(x)>> /\ P(x) \in Bindings(a.params) /\ ApplicableIn(t, s, a, P(x))
    BY <1>2, <1>3, <1>4, <2>1
  <2> QED BY <1>5, <2>2
<1>8. ASSUME NEW id \in Applicable(t, s, i) PROVE id \in KeptOf(t, s, i, S)
  <2>1. PICK b \in Bindings(a.params) : id = <<a.name, b>> /\ ApplicableIn(t, s, a, b)
    BY <1>5
  <2>2. PICK x \in S : P(x) = b
    BY <1>2, <1>3, <2>1
  <2>3. id = Id(t, i, x) /\ ConstraintsHold(t, Result(t, Id(t, i, x), s))
    BY <1>3, <1>4, <2>1, <2>2
  <2> QED BY <1>6, <2>3
<1> QED BY <1>7, <1>8 DEF S

\* A solution more yields its action, unless the constraints are violated.
LEMMA KeptOneMore ==
    ASSUME NEW t, NEW s, NEW i, NEW X, NEW Y, NEW x \in X, x \in Y
    PROVE  KeptOf(t, s, i, X \ (Y \ {x})) =
             KeptOf(t, s, i, X \ Y) \cup (IF ConstraintsHold(t, Result(t, Id(t, i, x), s)) THEN {Id(t, i, x)} ELSE {})
<1> DEFINE Ok(y) == ConstraintsHold(t, Result(t, Id(t, i, y), s))
           F(y) == Id(t, i, y)
<1>1. \A Z : KeptOf(t, s, i, Z) = {F(y) : y \in {z \in Z : Ok(z)}}
  BY DEF KeptOf
<1> HIDE DEF Ok, F
<1>2. \A y : y \in X \ (Y \ {x}) <=> y \in X \ Y \/ y = x
  OBVIOUS
<1>3. \A id : id \in KeptOf(t, s, i, X \ (Y \ {x})) <=> (id \in KeptOf(t, s, i, X \ Y) \/ (id = F(x) /\ Ok(x)))
  BY <1>1, <1>2
<1>4. KeptOf(t, s, i, X \ (Y \ {x})) = KeptOf(t, s, i, X \ Y) \cup (IF Ok(x) THEN {F(x)} ELSE {})
  BY <1>3
<1> QED BY <1>4 DEF Ok, F

LEMMA KeptNone ==
    ASSUME NEW t, NEW s, NEW i, NEW X
    PROVE  KeptOf(t, s, i, X \ X) = {} /\ KeptOf(t, s, i, X \ {}) = KeptOf(t, s, i, X)
<1>1. X \ X = {} /\ X \ {} = X
  OBVIOUS
<1>2. KeptOf(t, s, i, {}) = {}
  BY DEF KeptOf
<1> QED BY <1>1, <1>2

-----------------------------------------------------------------------------
\* A sequence without repetitions.
Distinct(q) ==
    /\ q \in Seq(ToSet(q))
    /\ \A j, k \in DOMAIN q : q[j] = q[k] => j = k

LEMMA DistinctEmpty == Distinct(<< >>) /\ ToSet(<< >>) = {}
<1>1. DOMAIN << >> = {}
  OBVIOUS
<1>2. ToSet(<< >>) = {}
  BY <1>1 DEF ToSet
<1>3. << >> \in Seq(ToSet(<< >>))
  OBVIOUS
<1> QED BY <1>1, <1>2, <1>3 DEF Distinct

LEMMA DistinctAppend ==
    ASSUME NEW q, Distinct(q), NEW id, id \notin ToSet(q)
    PROVE  Distinct(Append(q, id)) /\ ToSet(Append(q, id)) = ToSet(q) \cup {id}
<1> DEFINE S == ToSet(q) \cup {id}
           r == Append(q, id)
           n == Len(q)
<1>1. q \in Seq(ToSet(q))
  BY DEF Distinct
<1>2. q \in Seq(S)
  BY <1>1, SeqMonotonic
<1>3. r \in Seq(S) /\ Len(r) = n + 1 /\ r[n + 1] = id /\ \A i \in 1..n : r[i] = q[i]
  <2> HIDE DEF S
  <2>1. id \in S
    BY DEF S
  <2> QED BY <1>2, <2>1, AppendProperties
<1>4. DOMAIN q = 1..n /\ DOMAIN r = 1..(n + 1) /\ n \in Nat
  BY <1>2, <1>3, LenProperties
<1> HIDE DEF S, r, n
<1>5. \A i \in DOMAIN r : i \in DOMAIN q \/ i = n + 1
  BY <1>4
<1>6. DOMAIN q \subseteq DOMAIN r /\ n + 1 \in DOMAIN r
  BY <1>4
<1>7. \A i \in DOMAIN q : r[i] = q[i]
  BY <1>3, <1>4
<1>8. ToSet(r) = S
  BY <1>3, <1>5, <1>6, <1>7 DEF ToSet, S
<1>9. \A i \in DOMAIN q : q[i] # id
  BY DEF ToSet
<1>10. \A j, k \in DOMAIN r : r[j] = r[k] => j = k
  <2>1. \A j, k \in DOMAIN q : q[j] = q[k] => j = k
    BY DEF Distinct
  <2> QED BY <1>3, <1>5, <1>7, <1>9, <2>1
<1> QED BY <1>3, <1>8, <1>10 DEF Distinct, r, S

LEMMA DistinctCardinality ==
    ASSUME NEW q, Distinct(q)
    PROVE  Cardinality(ToSet(q)) = Len(q)
<1> DEFINE S == ToSet(q)
           n == Len(q)
<1>1. n \in Nat /\ DOMAIN q = 1..n /\ q \in [1..n -> S]
  BY LenProperties DEF Distinct
<1>2. \A x \in S : \E i \in 1..n : q[i] = x
  BY <1>1 DEF ToSet
<1>3. \A j, k \in 1..n : q[j] = q[k] => j = k
  BY <1>1 DEF Distinct
<1> HIDE DEF S, n
<1>4. q \in Bijection(1..n, S)
  BY <1>1, <1>2, <1>3 DEF Bijection, Injection, Surjection, IsInjective
<1>5. ExistsBijection(1..n, S)
  BY <1>4 DEF ExistsBijection
<1> QED BY <1>1, <1>5, FS_CountingElements DEF S, n

-----------------------------------------------------------------------------
(***************************************************************************)
(* The inductive invariant: what is yielded are the applicable actions of  *)
(* the handlers that were left and, of the open one, those that its        *)
(* returned solutions stand for.                                           *)
(***************************************************************************)
Progress ==
    /\ current \in Nat \ {0} /\ current <= Len(task.actions) + 1
    /\ csp = "open" =>
         current <= Len(task.actions) /\ solutions \in SUBSET SolutionsOf(task, state, current)
    /\ Distinct(yielded)
    /\ ToSet(yielded) =
         ApplicableUpTo(task, state, current - 1) \cup
           (IF csp = "open" THEN KeptOf(task, state, current, SolutionsOf(task, state, current) \ solutions) ELSE {})

IterationInv ==
    /\ task \in Tasks /\ StateOK(state)
    /\ stage \in {"setup", "idle", "iterating", "done"} /\ csp \in {"none", "open"}
    /\ stage # "setup" => handlers = LiftedCSPs(task)
    /\ csp = "open" => stage = "iterating"
    /\ stage \in {"iterating", "done"} => Progress
    /\ stage = "done" => current = Len(task.actions) + 1

LEMMA HandlersAre ==
    ASSUME NEW t, TaskOK(t)
    PROVE  /\ Len(LiftedCSPs(t)) = Len(t.actions)
           /\ \A i \in 1..Len(t.actions) : LiftedCSPs(t)[i] = LiftedCSP(t.actions[i])
<1>1. Len(t.actions) \in Nat /\ DOMAIN t.actions = 1..Len(t.actions)
  BY TaskDomain
<1> DEFINE n == Len(t.actions)
<1>2. LiftedCSPs(t) = [i \in 1..n |-> LiftedCSP(t.actions[i])]
  BY <1>1 DEF LiftedCSPs
<1> HIDE DEF n
<1>3. Len(LiftedCSPs(t)) = n
  BY <1>1, <1>2 DEF n
<1> QED BY <1>2, <1>3 DEF n

LEMMA IterationInit == Init => IterationInv
<1> SUFFICES ASSUME Init PROVE IterationInv
  OBVIOUS
<1>1. task \in Tasks
  BY DEF Init, Tasks
<1>2. state = task.init /\ stage = "setup" /\ csp = "none"
  BY DEF Init, MInit, NoIteration
<1>3. StateOK(task.init)
  BY <1>1, TaskFacts DEF TaskOK
<1> QED BY <1>1, <1>2, <1>3 DEF IterationInv

LEMMA BuildStep == IterationInv /\ BuildLiftedModel /\ UNCHANGED task => IterationInv'
BY DEF IterationInv, BuildLiftedModel

LEMMA BeginStep == IterationInv /\ BeginIteration /\ UNCHANGED task => IterationInv'
<1> SUFFICES ASSUME IterationInv, BeginIteration, UNCHANGED task PROVE IterationInv'
  OBVIOUS
<1>1. csp' = "none" /\ current' = 1 /\ yielded' = << >> /\ state' = state /\ task' = task
  BY DEF BeginIteration, IterationInv
<1>2. TaskOK(task)
  BY TaskFacts DEF IterationInv
<1>3. 1 <= Len(task.actions) + 1
  BY <1>2, TaskDomain
<1>4. ApplicableUpTo(task, state, 1 - 1) = {}
  BY ApplicableUpToNext
<1>5. Distinct(yielded') /\ ToSet(yielded') = {}
  BY <1>1, DistinctEmpty
<1>6. current' \in Nat \ {0} /\ current' <= Len(task'.actions) + 1 /\ csp' # "open"
  BY <1>1, <1>3
<1>7. ApplicableUpTo(task', state', current' - 1) = {}
  BY <1>1, <1>4
<1>8. Progress'
  BY <1>5, <1>6, <1>7 DEF Progress
<1> QED BY <1>1, <1>8 DEF IterationInv, BeginIteration

LEMMA InstantiateStep == IterationInv /\ InstantiateCSP /\ UNCHANGED task => IterationInv'
<1> SUFFICES ASSUME IterationInv, InstantiateCSP, UNCHANGED task PROVE IterationInv'
  OBVIOUS
<1> DEFINE S == SolutionsOf(task, state, current)
<1>1. /\ Progress /\ csp = "none" /\ csp' = "open" /\ handlers = LiftedCSPs(task)
      /\ current <= Len(handlers) /\ solutions' = Solutions(handlers[current], ViewOf(AtomsOf(state)))
      /\ state' = state /\ task' = task /\ current' = current /\ yielded' = yielded /\ stage' = stage
      /\ handlers' = handlers /\ stage = "iterating"
  BY DEF InstantiateCSP, IterationInv
<1>2. TaskOK(task)
  BY TaskFacts DEF IterationInv
<1>3. current \in 1..Len(task.actions)
  BY <1>1, <1>2, HandlersAre, TaskDomain DEF Progress
<1>4. solutions' = S
  BY <1>1, <1>2, <1>3, HandlersAre DEF SolutionsOf
<1>5. KeptOf(task, state, current, S \ S) = {}
  BY KeptNone
<1> HIDE DEF S
<1>6. current \in Nat \ {0} /\ current <= Len(task.actions) + 1 /\ Distinct(yielded)
      /\ ToSet(yielded) = ApplicableUpTo(task, state, current - 1) \cup {}
  BY <1>1 DEF Progress
<1>7. ToSet(yielded) = ApplicableUpTo(task, state, current - 1) \cup KeptOf(task, state, current, S \ solutions')
  BY <1>4, <1>5, <1>6
<1>8. current <= Len(task.actions)
  BY <1>3, <1>6
<1>9. Progress'
  BY <1>1, <1>4, <1>6, <1>7, <1>8 DEF Progress, S
<1> QED BY <1>1, <1>9 DEF IterationInv

\* Each solution yields an action that was not yielded before.
LEMMA NextSolutionStep == IterationInv /\ NextSolution /\ UNCHANGED task => IterationInv'
<1> SUFFICES ASSUME IterationInv, NextSolution, UNCHANGED task PROVE IterationInv'
  OBVIOUS
<1> DEFINE S == SolutionsOf(task, state, current)
           x == CHOOSE y \in solutions : TRUE
           id == Id(task, current, x)
           ok == ConstraintsHold(task, Result(task, id, state))
           Old == KeptOf(task, state, current, S \ solutions)
           Before == ApplicableUpTo(task, state, current - 1)
<1>1. /\ stage = "iterating" /\ Progress /\ csp = "open" /\ csp' = "open" /\ handlers = LiftedCSPs(task)
      /\ solutions # {} /\ solutions' = solutions \ {x}
      /\ state' = state /\ task' = task /\ current' = current /\ stage' = stage /\ handlers' = handlers
  BY DEF NextSolution, IterationInv, RestAfter
<1>2. TaskOK(task) /\ StateOK(state)
  BY TaskFacts DEF IterationInv
<1>3. /\ current \in 1..Len(task.actions) /\ current \in DOMAIN task.actions
      /\ current - 1 \in Nat /\ (current - 1) + 1 = current /\ current - 1 < Len(task.actions)
  BY <1>1, <1>2, TaskDomain DEF Progress
<1>4. handlers[current] = LiftedCSP(task.actions[current])
  BY <1>1, <1>2, <1>3, HandlersAre
<1>5. yielded' = IF ok THEN Append(yielded, id) ELSE yielded
  BY <1>4 DEF NextSolution, Id
<1>6. /\ solutions \in SUBSET S /\ Distinct(yielded) /\ ToSet(yielded) = Before \cup Old
      /\ current \in Nat \ {0} /\ current <= Len(task.actions)
  BY <1>1 DEF Progress
<1>7. x \in solutions /\ x \in S
  BY <1>1, <1>6
<1> HIDE DEF x
<1>8. KeptOf(task, state, current, S \ solutions') = Old \cup (IF ok THEN {id} ELSE {})
  <2>1. ASSUME NEW X, NEW Y, x \in X, x \in Y
        PROVE  KeptOf(task, state, current, X \ (Y \ {x})) =
                 KeptOf(task, state, current, X \ Y) \cup (IF ok THEN {id} ELSE {})
    <3>1. KeptOf(task, state, current, X \ (Y \ {x})) =
            KeptOf(task, state, current, X \ Y) \cup
              (IF ConstraintsHold(task, Result(task, Id(task, current, x), state)) THEN {Id(task, current, x)} ELSE {})
      <4> HIDE DEF ok, id, S
      <4> QED BY <2>1, KeptOneMore
    <3> QED BY <3>1
  <2> HIDE DEF S, ok, id
  <2> QED BY <1>1, <1>6, <1>7, <2>1
<1>9. ASSUME ok PROVE id \notin ToSet(yielded)
  <2>1. id \notin Old
    <3>1. \A y \in S : Id(task, current, y) = id => y = x
      BY <1>2, <1>3, <1>7, IdIs
    <3>2. ASSUME id \in Old PROVE \E y \in S \ solutions : Id(task, current, y) = id
      BY <3>2 DEF KeptOf
    <3> QED BY <1>7, <3>1, <3>2
  <2>2. id \in KeptOf(task, state, current, S)
    BY <1>7, <1>9 DEF KeptOf
  <2>3. id \in Applicable(task, state, current)
    BY <1>2, <1>3, <2>2, KeptIsApplicable
  <2>4. id \notin Before
    BY <1>2, <1>3, <2>3, ApplicableDisjoint
  <2> QED BY <1>6, <2>1, <2>4
<1> HIDE DEF S, id, ok, Old, Before
<1>10. Distinct(yielded') /\ ToSet(yielded') = Before \cup KeptOf(task, state, current, S \ solutions')
  <2>1. CASE ok
    <3>1. yielded' = Append(yielded, id) /\ KeptOf(task, state, current, S \ solutions') = Old \cup {id}
      BY <1>5, <1>8, <2>1
    <3>2. Distinct(Append(yielded, id)) /\ ToSet(Append(yielded, id)) = ToSet(yielded) \cup {id}
      BY <1>6, <1>9, <2>1, DistinctAppend
    <3> QED BY <1>6, <3>1, <3>2
  <2>2. CASE ~ok
    BY <1>5, <1>6, <1>8, <2>2
  <2> QED BY <2>1, <2>2
<1>11. solutions' \in SUBSET S /\ current <= Len(task.actions) + 1
  <2>1. Len(task.actions) \in Nat
    BY <1>2, TaskDomain
  <2> QED BY <1>1, <1>6, <2>1
<1>12. Progress'
  BY <1>1, <1>6, <1>10, <1>11 DEF Progress, S, Before
<1> QED BY <1>1, <1>12 DEF IterationInv

LEMMA ExhaustedStep == IterationInv /\ Exhausted /\ UNCHANGED task => IterationInv'
<1> SUFFICES ASSUME IterationInv, Exhausted, UNCHANGED task PROVE IterationInv'
  OBVIOUS
<1> DEFINE S == SolutionsOf(task, state, current)
<1>1. /\ stage = "iterating" /\ Progress /\ csp = "open" /\ csp' = "none" /\ solutions = {} /\ current' = current + 1
      /\ state' = state /\ task' = task /\ yielded' = yielded /\ stage' = stage /\ handlers' = handlers
  BY DEF Exhausted, IterationInv
<1>2. TaskOK(task) /\ StateOK(state)
  BY TaskFacts DEF IterationInv
<1>3. /\ current \in Nat \ {0} /\ current <= Len(task.actions) /\ Distinct(yielded)
      /\ ToSet(yielded) = ApplicableUpTo(task, state, current - 1) \cup KeptOf(task, state, current, S \ {})
  BY <1>1 DEF Progress
<1>4. KeptOf(task, state, current, S \ {}) = Applicable(task, state, current)
  <2>1. current \in DOMAIN task.actions
    BY <1>2, <1>3, TaskDomain
  <2> QED BY <1>2, <2>1, KeptNone, KeptIsApplicable
<1>5. ApplicableUpTo(task, state, current) =
         ApplicableUpTo(task, state, current - 1) \cup Applicable(task, state, current)
  <2>1. current - 1 \in Nat /\ (current - 1) + 1 = current
    BY <1>3
  <2>2. ApplicableUpTo(task, state, (current - 1) + 1) =
           ApplicableUpTo(task, state, current - 1) \cup Applicable(task, state, (current - 1) + 1)
    BY <2>1, ApplicableUpToNext
  <2> QED BY <2>1, <2>2
<1>6. current + 1 \in Nat \ {0} /\ current + 1 <= Len(task.actions) + 1 /\ (current + 1) - 1 = current
  BY <1>2, <1>3, TaskDomain
<1>7. ToSet(yielded) = ApplicableUpTo(task, state, (current + 1) - 1) \cup {}
  BY <1>3, <1>4, <1>5, <1>6
<1>8. Progress'
  BY <1>1, <1>3, <1>6, <1>7 DEF Progress
<1> QED BY <1>1, <1>8 DEF IterationInv

LEMMA EndStep == IterationInv /\ EndIteration /\ UNCHANGED task => IterationInv'
<1> SUFFICES ASSUME IterationInv, EndIteration, UNCHANGED task PROVE IterationInv'
  OBVIOUS
<1>1. TaskOK(task) /\ Progress /\ handlers = LiftedCSPs(task) /\ current > Len(handlers)
  BY TaskFacts DEF IterationInv, EndIteration
<1>2. current = Len(task.actions) + 1 /\ csp = "none"
  BY <1>1, HandlersAre, TaskDomain DEF Progress, IterationInv, EndIteration
<1>3. Progress'
  BY <1>1 DEF Progress, EndIteration
<1> QED BY <1>2, <1>3 DEF IterationInv, EndIteration

LEMMA ExactAtTheEnd ==
    ASSUME IterationInv, stage = "done"
    PROVE  Distinct(yielded) /\ ToSet(yielded) = ApplicableActions(task, state)
<1>1. TaskOK(task) /\ Progress /\ csp # "open" /\ current = Len(task.actions) + 1
  BY TaskFacts DEF IterationInv
<1>2. current - 1 = Len(task.actions)
  BY <1>1, TaskDomain
<1>3. Distinct(yielded) /\ ToSet(yielded) = ApplicableUpTo(task, state, current - 1) \cup {}
  BY <1>1 DEF Progress
<1> QED BY <1>1, <1>2, <1>3, ApplicableUpToAll

LEMMA ApplyStep == IterationInv /\ ApplyAction /\ UNCHANGED task => IterationInv'
<1> SUFFICES ASSUME IterationInv, ApplyAction, UNCHANGED task PROVE IterationInv'
  OBVIOUS
<1>1. TaskOK(task) /\ StateOK(state) /\ stage = "done"
  BY TaskFacts DEF IterationInv, ApplyAction
<1>2. PICK k \in DOMAIN yielded : state' = Result(task, yielded[k], state)
  BY DEF ApplyAction
<1>3. yielded[k] \in ApplicableActions(task, state)
  <2>1. yielded[k] \in ToSet(yielded)
    BY DEF ToSet
  <2> QED BY <1>1, <2>1, ExactAtTheEnd
<1>4. StateOK(state')
  BY <1>1, <1>2, <1>3, ResultTyped
<1> QED BY <1>4 DEF IterationInv, ApplyAction

LEMMA IterationStep == IterationInv /\ [Next \/ Terminating]_vars => IterationInv'
<1> SUFFICES ASSUME IterationInv, [Next \/ Terminating]_vars PROVE IterationInv'
  OBVIOUS
<1>1. CASE UNCHANGED <<task, mvars>>
  BY <1>1 DEF IterationInv, Progress, mvars, iterator
<1>2. CASE MNext /\ UNCHANGED task
  BY <1>2, BuildStep, BeginStep, InstantiateStep, NextSolutionStep, ExhaustedStep, EndStep, ApplyStep DEF MNext
<1>3. CASE SearchStep
  BY <1>2, <1>3 DEF SearchStep
<1>4. CASE Heuristic
  <2>1. UNCHANGED mvars
    BY <1>4 DEF Heuristic
  <2>2. UNCHANGED task
    BY <1>4 DEF Heuristic, CreateHandlers, Evaluate, ProcessHandler, ProcessAtom, NextLayer, FullLayer,
       GoalUnreached, GoalReached, ProcessTuple, BuildRelaxedPlan
  <2> QED BY <1>1, <2>1, <2>2
<1>5. CASE Terminating \/ UNCHANGED vars
  BY <1>1, <1>5 DEF Terminating, vars
<1> QED BY <1>3, <1>4, <1>5 DEF Next

LEMMA IterationAlways == Spec => []IterationInv
BY IterationInit, IterationStep, PTL DEF Spec

\* The iterator yields exactly the applicable actions, each of them once, in
\* every state that the search reaches (lifted_action_iterator.cxx:32).
THEOREM IteratorIsExact == Spec => []LiftedApplicableExact
<1>1. IterationInv => LiftedApplicableExact
  <2> SUFFICES ASSUME IterationInv, stage = "done"
               PROVE  /\ ToSet(yielded) = ApplicableActions(task, state)
                      /\ Cardinality(ToSet(yielded)) = Len(yielded)
    BY DEF LiftedApplicableExact
  <2>1. Distinct(yielded) /\ ToSet(yielded) = ApplicableActions(task, state)
    BY ExactAtTheEnd
  <2> QED BY <2>1, DistinctCardinality
<1> QED BY <1>1, IterationAlways, PTL

\* The search only ever reaches states that give each variable a value of its
\* type (the bounds that LiftedActionCSP posts).
THEOREM LiftedStatesTyped == Spec => []StateOK(state)
<1>1. IterationInv => StateOK(state)
  BY DEF IterationInv
<1> QED BY <1>1, IterationAlways, PTL

-----------------------------------------------------------------------------
(***************************************************************************)
(* The CSPs that handlers, goals and transitions are made of: the terms    *)
(* are typed, and some of the parameters are bound.                        *)
(***************************************************************************)
CSPOK(a, bound, conds, effs) ==
    /\ DOMAIN bound \subseteq DOMAIN a.params /\ \A p \in DOMAIN bound : bound[p] \in a.params[p]
    /\ SupportedConds(conds) /\ TypedConds(a.params, conds)
    /\ \A i \in DOMAIN effs : TypedEffect(a.params, effs[i])

LEMMA HeadTerms ==
    ASSUME NEW params, NEW t, TypedTerm(params, t)
    PROVE  ToSet(t.sub) \subseteq SubTerms(t) \ {t}
<1>1. ToSet(t.sub) \subseteq SubTerms(t)
  BY DEF SubTerms
<1>2. t \notin ToSet(t.sub)
  <2> SUFFICES ASSUME t \in ToSet(t.sub) PROVE FALSE
    OBVIOUS
  <2>1. t.sub = << >>
    BY DEF TypedTerm
  <2>2. ToSet(t.sub) = {}
    BY <2>1 DEF ToSet
  <2> QED BY <2>2
<1> QED BY <1>1, <1>2

LEMMA TermsFacts ==
    ASSUME NEW P, NEW conds, NEW effs, TypedConds(P, conds), \A i \in DOMAIN effs : TypedEffect(P, effs[i])
    PROVE  LET T == TermsOf(conds, effs)
           IN  /\ Closed(P, T)
               /\ \A c \in conds : c.lhs \in T /\ c.rhs \in T /\ ~IsPredicate(c.rhs)
               /\ \A i \in DOMAIN effs : effs[i].rhs \in T /\ ~IsPredicate(effs[i].rhs)
               /\ \A i \in DOMAIN effs : ToSet(effs[i].lhs.sub) \subseteq T
               /\ \A t \in T : IsPredicate(t) => \E c \in conds : c.lhs = t
<1> DEFINE F == {SubTerms(c.lhs) : c \in conds} \cup {SubTerms(c.rhs) : c \in conds}
                \cup {SubTerms(effs[i].rhs) : i \in DOMAIN effs}
                \cup {SubTerms(effs[i].lhs) \ {effs[i].lhs} : i \in DOMAIN effs}
<1>1. TermsOf(conds, effs) = UNION F
  <2>1. \A t : t \in CondTerms(conds) <=> \E c \in conds : t \in SubTerms(c.lhs) \/ t \in SubTerms(c.rhs)
    BY DEF CondTerms
  <2>2. \A t : t \in UNION {EffectTerms(effs[i]) : i \in DOMAIN effs} <=>
           \E i \in DOMAIN effs : t \in SubTerms(effs[i].rhs) \/ t \in SubTerms(effs[i].lhs) \ {effs[i].lhs}
    BY DEF EffectTerms
  <2>3. \A t : t \in UNION F <=>
           \/ \E c \in conds : t \in SubTerms(c.lhs) \/ t \in SubTerms(c.rhs)
           \/ \E i \in DOMAIN effs : t \in SubTerms(effs[i].rhs) \/ t \in SubTerms(effs[i].lhs) \ {effs[i].lhs}
    OBVIOUS
  <2>4. TermsOf(conds, effs) = CondTerms(conds) \cup UNION {EffectTerms(effs[i]) : i \in DOMAIN effs}
    BY DEF TermsOf
  <2> HIDE DEF F
  <2> QED BY <2>1, <2>2, <2>3, <2>4
<1>2. \A c \in conds : TypedTerm(P, c.lhs) /\ TypedTerm(P, c.rhs) /\ ~IsPredicate(c.rhs)
  BY DEF TypedConds
<1>3. \A i \in DOMAIN effs : TypedTerm(P, effs[i].lhs) /\ TypedTerm(P, effs[i].rhs) /\ ~IsPredicate(effs[i].rhs)
  BY DEF TypedEffect
<1>4. \A S \in F : Closed(P, S)
  BY <1>2, <1>3, TypedTermFacts
<1>5. Closed(P, UNION F)
  <2> HIDE DEF F
  <2> QED BY <1>4, ClosedUnion
<1>6. \A c \in conds : c.lhs \in UNION F /\ c.rhs \in UNION F
  BY <1>2, TypedTermFacts
<1>7. \A i \in DOMAIN effs : effs[i].rhs \in UNION F
  BY <1>3, TypedTermFacts
<1>8. \A i \in DOMAIN effs : ToSet(effs[i].lhs.sub) \subseteq UNION F
  BY <1>3, HeadTerms
<1>9. ASSUME NEW S \in F, NEW t \in S, IsPredicate(t)
      PROVE  \E c \in conds : c.lhs = t
  <2>1. CASE \E c \in conds : S = SubTerms(c.lhs)
    BY <1>2, <1>9, <2>1, TypedTermFacts
  <2>2. CASE \E c \in conds : S = SubTerms(c.rhs)
    BY <1>2, <1>9, <2>2, TypedTermFacts
  <2>3. CASE \E i \in DOMAIN effs : S = SubTerms(effs[i].rhs)
    <3>1. PICK i \in DOMAIN effs : S = SubTerms(effs[i].rhs)
      BY <2>3
    <3>2. TypedTerm(P, effs[i].rhs) /\ ~IsPredicate(effs[i].rhs) /\ t \in SubTerms(effs[i].rhs)
      BY <1>3, <1>9, <3>1
    <3>3. t \in SubTerms(effs[i].rhs) \ {effs[i].rhs}
      BY <1>9, <3>2
    <3> QED BY <1>9, <3>2, <3>3, TypedTermFacts
  <2>4. CASE \E i \in DOMAIN effs : S = SubTerms(effs[i].lhs) \ {effs[i].lhs}
    BY <1>3, <1>9, <2>4, TypedTermFacts
  <2> QED BY <1>9, <2>1, <2>2, <2>3, <2>4
<1> HIDE DEF F
<1> QED BY <1>1, <1>2, <1>3, <1>5, <1>6, <1>7, <1>8, <1>9

LEMMA CSPIs ==
    ASSUME NEW a, NEW bound, NEW conds, NEW effs
    PROVE  LET c == CSP(a, bound, conds, effs)
               T == TermsOf(conds, effs)
           IN  /\ c.action = a.name /\ c.bound = bound /\ c.conds = conds /\ c.effs = effs /\ c.within = AllAtoms
               /\ c.nullary = {t \in T : IsPredicate(t) /\ t.sub = << >>}
               /\ c.looked = {t \in T : IsFluent(t) /\ (IsPredicate(t) => t.sub # << >>)}
               /\ c.direct = {t \in T : IsFluent(t) /\ IsStateVar(bound, t)}
               /\ DOMAIN c.range = {Param(p) : p \in DOMAIN a.params \ DOMAIN bound}
                                     \cup {u \in T : IsFluent(u) /\ ~IsPredicate(u)}
               /\ \A t \in DOMAIN c.range : c.range[t] = ValuesOf(a.params, t)
<1> DEFINE T == TermsOf(conds, effs)
           fluents == {t \in T : IsFluent(t)}
           D == {Param(p) : p \in DOMAIN a.params \ DOMAIN bound} \cup {u \in fluents : ~IsPredicate(u)}
<1>1. \A t : IsPredicate(t) => IsFluent(t)
  BY DEF IsPredicate
<1>2. /\ {t \in fluents : IsPredicate(t) /\ t.sub = << >>} = {t \in T : IsPredicate(t) /\ t.sub = << >>}
      /\ {t \in fluents : IsPredicate(t) => t.sub # << >>} = {t \in T : IsFluent(t) /\ (IsPredicate(t) => t.sub # << >>)}
      /\ {t \in fluents : IsStateVar(bound, t)} = {t \in T : IsFluent(t) /\ IsStateVar(bound, t)}
      /\ {u \in fluents : ~IsPredicate(u)} = {u \in T : IsFluent(u) /\ ~IsPredicate(u)}
  BY <1>1
<1>3. CSP(a, bound, conds, effs) =
        [action |-> a.name, bound |-> bound, conds |-> conds, effs |-> effs, within |-> AllAtoms,
         nullary |-> {t \in fluents : IsPredicate(t) /\ t.sub = << >>},
         looked |-> {t \in fluents : IsPredicate(t) => t.sub # << >>},
         direct |-> {t \in fluents : IsStateVar(bound, t)},
         range |-> [t \in D |-> ValuesOf(a.params, t)]]
  BY DEF CSP
<1>4. D = {Param(p) : p \in DOMAIN a.params \ DOMAIN bound} \cup {u \in T : IsFluent(u) /\ ~IsPredicate(u)}
  BY <1>2
<1> HIDE DEF fluents, T, D
<1>5. /\ CSP(a, bound, conds, effs).action = a.name /\ CSP(a, bound, conds, effs).bound = bound
      /\ CSP(a, bound, conds, effs).conds = conds /\ CSP(a, bound, conds, effs).effs = effs
      /\ CSP(a, bound, conds, effs).within = AllAtoms
      /\ CSP(a, bound, conds, effs).range = [t \in D |-> ValuesOf(a.params, t)]
  BY <1>3
<1>6. /\ CSP(a, bound, conds, effs).nullary = {t \in fluents : IsPredicate(t) /\ t.sub = << >>}
      /\ CSP(a, bound, conds, effs).looked = {t \in fluents : IsPredicate(t) => t.sub # << >>}
      /\ CSP(a, bound, conds, effs).direct = {t \in fluents : IsStateVar(bound, t)}
  BY <1>3
<1> QED BY <1>2, <1>4, <1>5, <1>6 DEF T

\* Confined by update_csp to the atoms of F.
Within(c, F) == [c EXCEPT !.within = F]

LEMMA WithinIs ==
    ASSUME NEW a, NEW bound, NEW conds, NEW effs, NEW F
    PROVE  LET c == CSP(a, bound, conds, effs)
               d == Within(c, F)
           IN  /\ d.within = F /\ d.action = c.action /\ d.bound = c.bound /\ d.conds = c.conds /\ d.effs = c.effs
               /\ d.nullary = c.nullary /\ d.looked = c.looked /\ d.direct = c.direct /\ d.range = c.range
               /\ Within(c, AllAtoms) = c
BY DEF CSP, Within

-----------------------------------------------------------------------------
(***************************************************************************)
(* The solutions of a CSP: which atoms it reads, and the rest.             *)
(***************************************************************************)
Reading(c, x) == {AtomIn(c, x, t) : t \in c.nullary \cup c.looked}

\* All that a solution has to satisfy but for the atoms it reads.
Meets(c, x) ==
    /\ x \in Candidates(c)
    /\ SharedVariables(c, x)
    /\ \A cond \in c.conds : Holds(c, x, cond)
    /\ InBounds(c, x)

LEMMA CandidatesAre ==
    ASSUME NEW c
    PROVE  /\ \A x \in Candidates(c) :
                 x = [t \in DOMAIN c.range |-> x[t]] /\ \A t \in DOMAIN c.range : x[t] \in c.range[t]
           /\ \A x : x = [t \in DOMAIN c.range |-> x[t]] /\ (\A t \in DOMAIN c.range : x[t] \in c.range[t])
                 => x \in Candidates(c)
BY BindingFacts DEF Candidates

LEMMA AtomFacts ==
    ASSUME NEW v \in Vars, NEW n
    PROVE  <<v, n>> \in AllAtoms <=> n \in Values[v[1]] /\ (v[1] \in Predicates => n # 0)
BY DEF AllAtoms

\* Values have the types of their terms, fluents are variables.
LEMMA CandidateTyped ==
    ASSUME NEW a, NEW bound, NEW conds, NEW effs, CSPOK(a, bound, conds, effs),
           NEW x \in Candidates(CSP(a, bound, conds, effs))
    PROVE  LET c == CSP(a, bound, conds, effs)
               T == TermsOf(conds, effs)
           IN  /\ \A t \in T : ~IsPredicate(t) => ValueIn(c, x, t) \in ValuesOf(a.params, t)
               /\ \A t \in T : IsFluent(t) => VarIn(c, x, t) \in Vars /\ VarIn(c, x, t)[1] = t.name
               /\ \A i \in DOMAIN effs :
                     VarIn(c, x, effs[i].lhs) \in Vars /\ VarIn(c, x, effs[i].lhs)[1] = effs[i].lhs.name
<1> DEFINE c == CSP(a, bound, conds, effs)
           T == TermsOf(conds, effs)
<1>1. /\ Closed(a.params, T)
      /\ \A i \in DOMAIN effs : ToSet(effs[i].lhs.sub) \subseteq T
  BY TermsFacts DEF CSPOK
<1>2. /\ c.bound = bound
      /\ DOMAIN c.range = {Param(p) : p \in DOMAIN a.params \ DOMAIN bound} \cup {u \in T : IsFluent(u) /\ ~IsPredicate(u)}
      /\ \A t \in DOMAIN c.range : x[t] \in ValuesOf(a.params, t)
  BY CSPIs, CandidatesAre
<1>3. DOMAIN bound \subseteq DOMAIN a.params /\ \A p \in DOMAIN bound : bound[p] \in a.params[p]
  BY DEF CSPOK
<1>4. \A i \in DOMAIN effs : Typed(a.params, effs[i].lhs) /\ IsFluent(effs[i].lhs)
  BY DEF CSPOK, TypedEffect, TypedTerm, SubTerms
<1> HIDE DEF c
<1>5. ASSUME NEW t \in T, ~IsPredicate(t) PROVE ValueIn(c, x, t) \in ValuesOf(a.params, t)
  <2>1. Typed(a.params, t)
    BY <1>1 DEF Closed
  <2>2. CASE t.kind = "const"
    BY <2>1, <2>2, KindFacts DEF ValueIn
  <2>3. CASE t.kind = "param"
    <3>1. t = Param(t.name) /\ t.name \in DOMAIN a.params /\ ValuesOf(a.params, t) = a.params[t.name]
      BY <2>1, <2>3, KindFacts
    <3>2. CASE t.name \in DOMAIN bound
      <4>1. ValueIn(c, x, t) = bound[t.name]
        BY <1>2, <2>3, <3>2 DEF ValueIn, Constant
      <4> QED BY <1>3, <3>1, <3>2, <4>1
    <3>3. CASE t.name \notin DOMAIN bound
      <4>1. ValueIn(c, x, t) = x[t]
        BY <1>2, <2>3, <3>3 DEF ValueIn, Constant
      <4>2. t \in DOMAIN c.range
        BY <1>2, <3>1, <3>3
      <4> QED BY <1>2, <4>1, <4>2
    <3> QED BY <3>2, <3>3
  <2>4. CASE t.kind \notin {"const", "param"}
    <3>1. IsFluent(t)
      BY <2>1, <2>4, KindFacts
    <3>2. t \in DOMAIN c.range
      BY <1>2, <1>5, <3>1
    <3>3. ValueIn(c, x, t) = x[t]
      BY <2>4 DEF ValueIn, Constant
    <3> QED BY <1>2, <3>2, <3>3
  <2> QED BY <2>2, <2>3, <2>4
<1>6. ASSUME NEW t, Typed(a.params, t), IsFluent(t), ToSet(t.sub) \subseteq T
      PROVE  VarIn(c, x, t) \in Vars /\ VarIn(c, x, t)[1] = t.name
  <2>1. /\ t.name \in Symbols /\ DOMAIN t.sub = 1..Arity[t.name]
        /\ \A i \in DOMAIN t.sub : ~IsPredicate(t.sub[i]) /\ ValuesOf(a.params, t.sub[i]) \subseteq Objects
    BY <1>6, KindFacts DEF IsFluent
  <2>2. \A i \in DOMAIN t.sub : t.sub[i] \in T
    BY <1>6 DEF ToSet
  <2>3. \A i \in DOMAIN t.sub : ValueIn(c, x, t.sub[i]) \in Objects
    BY <1>5, <2>1, <2>2
  <2>4. [i \in DOMAIN t.sub |-> ValueIn(c, x, t.sub[i])] \in [1..Arity[t.name] -> Objects]
    BY <2>1, <2>3
  <2> QED BY <2>1, <2>4, VarFacts DEF VarIn
<1>7. \A t \in T : Typed(a.params, t) /\ ToSet(t.sub) \subseteq T
  BY <1>1 DEF Closed
<1>8. \A t \in T : IsFluent(t) => VarIn(c, x, t) \in Vars /\ VarIn(c, x, t)[1] = t.name
  BY <1>6, <1>7
<1>9. \A i \in DOMAIN effs :
         VarIn(c, x, effs[i].lhs) \in Vars /\ VarIn(c, x, effs[i].lhs)[1] = effs[i].lhs.name
  BY <1>1, <1>4, <1>6
<1> QED BY <1>5, <1>8, <1>9 DEF c

\* A fluent that is read is an atom of the index.
LEMMA ReadAtoms ==
    ASSUME NEW a, NEW bound, NEW conds, NEW effs, CSPOK(a, bound, conds, effs),
           NEW x \in Candidates(CSP(a, bound, conds, effs)), NEW t \in TermsOf(conds, effs), IsFluent(t)
    PROVE  LET c == CSP(a, bound, conds, effs)
               atom == AtomIn(c, x, t)
           IN  /\ atom \in AllAtoms /\ atom[1] = VarIn(c, x, t) /\ atom[1] \in Vars /\ atom[1][1] = t.name
               /\ atom = <<atom[1], atom[2]>>
               /\ atom[2] = IF IsPredicate(t) THEN 1 ELSE ValueIn(c, x, t)
<1> DEFINE c == CSP(a, bound, conds, effs)
           T == TermsOf(conds, effs)
           v == VarIn(c, x, t)
           n == IF IsPredicate(t) THEN 1 ELSE ValueIn(c, x, t)
<1>1. v \in Vars /\ v[1] = t.name /\ (~IsPredicate(t) => ValueIn(c, x, t) \in ValuesOf(a.params, t))
  BY CandidateTyped
<1>2. t.kind = "fluent"
  BY DEF IsFluent
<1>3. ValueIn(c, x, t) = x[t]
  BY <1>2 DEF ValueIn, Constant
<1>4. AtomIn(c, x, t) = <<v, n>>
  BY <1>3 DEF AtomIn
<1>5. ValuesOf(a.params, t) = Values[t.name]
  BY <1>2 DEF ValuesOf
<1>6. n \in Values[t.name] /\ (t.name \in Predicates => n # 0)
  <2>1. CASE IsPredicate(t)
    BY <2>1, LanguageAssumption DEF IsPredicate
  <2>2. CASE ~IsPredicate(t)
    BY <1>1, <1>5, <2>2 DEF IsPredicate
  <2> QED BY <2>1, <2>2
<1> HIDE DEF v, n, c
<1>7. <<v, n>> \in AllAtoms
  BY <1>1, <1>6, AtomFacts
<1> QED BY <1>1, <1>4, <1>7 DEF v, n, c

\* A CSP sees in a view the atoms S, and N for what is_true looks at.
Sees(c, view, S, N) ==
    /\ view.now = N
    /\ \A t \in c.looked : \A atom \in AllAtoms : atom[1][1] = t.name =>
          (IF t \in c.direct /\ ~IsPredicate(t) THEN atom[2] \in view.dom[atom[1]] ELSE atom \in view.ext) = (atom \in S)

LEMMA SolutionsSeen ==
    ASSUME NEW a, NEW bound, NEW conds, NEW effs, CSPOK(a, bound, conds, effs),
           NEW F, NEW view, NEW S, NEW N, Sees(CSP(a, bound, conds, effs), view, S, N), NEW x
    PROVE  LET c == CSP(a, bound, conds, effs)
           IN  x \in Solutions(Within(c, F), view) <=>
                  /\ Meets(c, x)
                  /\ \A t \in c.nullary : AtomIn(c, x, t) \in N
                  /\ \A t \in c.looked : AtomIn(c, x, t) \in S \cap F
<1> DEFINE c == CSP(a, bound, conds, effs)
           d == Within(c, F)
           T == TermsOf(conds, effs)
<1>1. /\ d.within = F /\ d.bound = c.bound /\ d.conds = c.conds /\ d.effs = c.effs
      /\ d.nullary = c.nullary /\ d.looked = c.looked /\ d.direct = c.direct /\ d.range = c.range
  BY WithinIs
<1>2. /\ c.nullary = {t \in T : IsPredicate(t) /\ t.sub = << >>}
      /\ c.looked = {t \in T : IsFluent(t) /\ (IsPredicate(t) => t.sub # << >>)}
  BY CSPIs
<1>3. \A t \in T : x \in Candidates(c) /\ IsFluent(t) =>
         AtomIn(c, x, t) \in AllAtoms /\ AtomIn(c, x, t)[1][1] = t.name
  BY ReadAtoms
<1>4. /\ view.now = N
      /\ \A t \in c.looked : \A atom \in AllAtoms : atom[1][1] = t.name =>
            (IF t \in c.direct /\ ~IsPredicate(t) THEN atom[2] \in view.dom[atom[1]] ELSE atom \in view.ext) = (atom \in S)
  BY DEF Sees
<1> HIDE DEF c, d, T
<1>5. \A t : Constant(d.bound, t) = Constant(c.bound, t)
  BY <1>1
<1>6. \A t : ValueIn(d, x, t) = ValueIn(c, x, t)
  BY <1>1 DEF ValueIn
<1>7. \A t : VarIn(d, x, t) = VarIn(c, x, t)
  <2> SUFFICES ASSUME NEW t PROVE VarIn(d, x, t) = VarIn(c, x, t)
    OBVIOUS
  <2>1. [i \in DOMAIN t.sub |-> ValueIn(d, x, t.sub[i])] = [i \in DOMAIN t.sub |-> ValueIn(c, x, t.sub[i])]
    BY <1>6
  <2> QED BY <2>1 DEF VarIn
<1>8. \A t : AtomIn(d, x, t) = AtomIn(c, x, t)
  BY <1>7 DEF AtomIn
<1>9. \A cond : Holds(d, x, cond) <=> Holds(c, x, cond)
  BY <1>6 DEF Holds
<1>10. InBounds(d, x) <=> InBounds(c, x)
  BY <1>1, <1>6 DEF InBounds
<1>11. Candidates(d) = Candidates(c)
  BY <1>1 DEF Candidates
<1>12. ASSUME x \in Candidates(c), NEW t \in c.looked
       PROVE  Posted(d, x, t, view) <=> AtomIn(c, x, t) \in S \cap F
  <2> DEFINE atom == AtomIn(c, x, t)
  <2>1. atom \in AllAtoms /\ atom[1][1] = t.name
    BY <1>2, <1>3, <1>12
  <2>2. Posted(d, x, t, view) <=>
           /\ atom \in F
           /\ IF t \in c.direct /\ ~IsPredicate(t) THEN atom[2] \in view.dom[atom[1]] ELSE atom \in view.ext
    BY <1>1, <1>8 DEF Posted
  <2> HIDE DEF atom
  <2>3. (IF t \in c.direct /\ ~IsPredicate(t) THEN atom[2] \in view.dom[atom[1]] ELSE atom \in view.ext) <=> atom \in S
    BY <1>4, <2>1
  <2>4. Posted(d, x, t, view) <=> atom \in S \cap F
    BY <2>2, <2>3
  <2> QED BY <2>4 DEF atom
<1>13. \A t \in c.nullary : AtomIn(c, x, t) = <<<<t.name, << >>>>, 1>>
  <2> SUFFICES ASSUME NEW t \in c.nullary PROVE AtomIn(c, x, t) = <<<<t.name, << >>>>, 1>>
    OBVIOUS
  <2>1. IsPredicate(t) /\ t.sub = << >>
    BY <1>2
  <2>2. VarIn(c, x, t) = <<t.name, << >>>>
    BY <2>1 DEF VarIn
  <2> QED BY <2>1, <2>2 DEF AtomIn
<1>14. NullaryTrue(d, view) <=> \A t \in c.nullary : AtomIn(c, x, t) \in N
  BY <1>1, <1>4, <1>13 DEF NullaryTrue
<1>15. x \in Solutions(d, view) <=> NullaryTrue(d, view) /\ x \in Candidates(c) /\ Consistent(d, x, view) /\ InBounds(c, x)
  BY <1>10, <1>11 DEF Solutions
<1>18. SharedVariables(d, x) <=> SharedVariables(c, x)
  BY <1>1, <1>7, <1>8 DEF SharedVariables
<1>16. x \in Candidates(c) => (Consistent(d, x, view) <=>
           /\ SharedVariables(c, x)
           /\ (\A t \in c.looked : AtomIn(c, x, t) \in S \cap F) /\ \A cond \in c.conds : Holds(c, x, cond))
  BY <1>1, <1>9, <1>12, <1>18 DEF Consistent
<1>17. x \in Solutions(d, view) <=>
                  /\ Meets(c, x)
                  /\ \A t \in c.nullary : AtomIn(c, x, t) \in N
                  /\ \A t \in c.looked : AtomIn(c, x, t) \in S \cap F
  BY <1>14, <1>15, <1>16 DEF Meets
<1> QED BY <1>17 DEF c, d

\* What is seen in the view of a set of atoms is that set.
LEMMA ViewIs ==
    ASSUME NEW A \in SUBSET AllAtoms
    PROVE  /\ ViewOf(A).now = A /\ ViewOf(A).ext = A
           /\ \A atom \in AllAtoms : (atom[2] \in ViewOf(A).dom[atom[1]]) = (atom \in A)
<1>1. ViewOf(A) = [dom |-> [v \in Vars |-> {a[2] : a \in {b \in A : b[1] = v}}], ext |-> A, now |-> A]
  BY DEF ViewOf, View
<1>2. \A b \in AllAtoms : b = <<b[1], b[2]>> /\ b[1] \in Vars
  BY DEF AllAtoms
<1>3. \A v \in Vars : ViewOf(A).dom[v] = {a[2] : a \in {b \in A : b[1] = v}}
  BY <1>1
<1>4. ASSUME NEW atom \in AllAtoms PROVE (atom[2] \in ViewOf(A).dom[atom[1]]) = (atom \in A)
  <2>1. ASSUME atom[2] \in ViewOf(A).dom[atom[1]] PROVE atom \in A
    <3>1. PICK b \in A : b[1] = atom[1] /\ b[2] = atom[2]
      BY <1>2, <1>3, <2>1
    <3>2. b = atom
      BY <1>2, <3>1
    <3> QED BY <3>2
  <2>2. ASSUME atom \in A PROVE atom[2] \in ViewOf(A).dom[atom[1]]
    BY <1>2, <1>3, <2>2
  <2> QED BY <2>1, <2>2
<1>5. ViewOf(A).now = A /\ ViewOf(A).ext = A
  BY <1>1
<1> QED BY <1>4, <1>5

LEMMA SeesAll ==
    ASSUME NEW c, NEW A \in SUBSET AllAtoms
    PROVE  Sees(c, ViewOf(A), A, A)
BY ViewIs DEF Sees

LEMMA SolutionsIn ==
    ASSUME NEW a, NEW bound, NEW conds, NEW effs, CSPOK(a, bound, conds, effs), NEW A \in SUBSET AllAtoms, NEW x
    PROVE  LET c == CSP(a, bound, conds, effs)
           IN  x \in Solutions(c, ViewOf(A)) <=> Meets(c, x) /\ Reading(c, x) \subseteq A
<1> DEFINE c == CSP(a, bound, conds, effs)
<1>1. Within(c, AllAtoms) = c
  BY WithinIs
<1>2. Sees(c, ViewOf(A), A, A)
  BY SeesAll
<1>3. x \in Solutions(c, ViewOf(A)) <=>
                  /\ Meets(c, x)
                  /\ \A t \in c.nullary : AtomIn(c, x, t) \in A
                  /\ \A t \in c.looked : AtomIn(c, x, t) \in A \cap AllAtoms
  BY <1>1, <1>2, SolutionsSeen
<1> HIDE DEF c
<1>4. Reading(c, x) \subseteq A <=>
         (\A t \in c.nullary : AtomIn(c, x, t) \in A) /\ \A t \in c.looked : AtomIn(c, x, t) \in A
  BY DEF Reading
<1> QED BY <1>3, <1>4 DEF c

\* The same without the bounds of the effects.
LEMMA ConsistentIn ==
    ASSUME NEW a, NEW bound, NEW conds, NEW effs, CSPOK(a, bound, conds, effs), NEW A \in SUBSET AllAtoms,
           NEW x \in Candidates(CSP(a, bound, conds, effs))
    PROVE  LET c == CSP(a, bound, conds, effs)
           IN  NullaryTrue(c, ViewOf(A)) /\ Consistent(c, x, ViewOf(A)) <=>
                 SharedVariables(c, x) /\ (\A cond \in conds : Holds(c, x, cond)) /\ Reading(c, x) \subseteq A
<1> DEFINE c == CSP(a, bound, conds, effs)
           T == TermsOf(conds, effs)
           view == ViewOf(A)
<1>1. /\ c.within = AllAtoms /\ c.conds = conds
      /\ c.nullary = {t \in T : IsPredicate(t) /\ t.sub = << >>}
      /\ c.looked = {t \in T : IsFluent(t) /\ (IsPredicate(t) => t.sub # << >>)}
  BY CSPIs
<1>2. \A t \in T : IsFluent(t) => AtomIn(c, x, t) \in AllAtoms
  BY ReadAtoms
<1>3. /\ view.now = A /\ view.ext = A
      /\ \A atom \in AllAtoms : (atom[2] \in view.dom[atom[1]]) = (atom \in A)
  BY ViewIs
<1> HIDE DEF c, T, view
<1>4. ASSUME NEW t \in c.looked PROVE Posted(c, x, t, view) <=> AtomIn(c, x, t) \in A
  <2> DEFINE atom == AtomIn(c, x, t)
  <2>1. atom \in AllAtoms
    BY <1>1, <1>2
  <2>2. Posted(c, x, t, view) <=>
           /\ atom \in AllAtoms
           /\ IF t \in c.direct /\ ~IsPredicate(t) THEN atom[2] \in view.dom[atom[1]] ELSE atom \in view.ext
    BY <1>1 DEF Posted
  <2> HIDE DEF atom
  <2>3. Posted(c, x, t, view) <=> atom \in A
    BY <1>3, <2>1, <2>2
  <2> QED BY <2>3 DEF atom
<1>5. \A t \in c.nullary : AtomIn(c, x, t) = <<<<t.name, << >>>>, 1>>
  <2> SUFFICES ASSUME NEW t \in c.nullary PROVE AtomIn(c, x, t) = <<<<t.name, << >>>>, 1>>
    OBVIOUS
  <2>1. IsPredicate(t) /\ t.sub = << >>
    BY <1>1
  <2>2. VarIn(c, x, t) = <<t.name, << >>>>
    BY <2>1 DEF VarIn
  <2> QED BY <2>1, <2>2 DEF AtomIn
<1>6. NullaryTrue(c, view) <=> \A t \in c.nullary : AtomIn(c, x, t) \in A
  BY <1>3, <1>5 DEF NullaryTrue
<1>7. Consistent(c, x, view) <=>
         SharedVariables(c, x) /\ (\A t \in c.looked : AtomIn(c, x, t) \in A) /\ \A cond \in conds : Holds(c, x, cond)
  BY <1>1, <1>4 DEF Consistent
<1>8. Reading(c, x) \subseteq A <=>
         (\A t \in c.nullary : AtomIn(c, x, t) \in A) /\ \A t \in c.looked : AtomIn(c, x, t) \in A
  BY DEF Reading
<1>9. NullaryTrue(c, view) /\ Consistent(c, x, view) <=>
        SharedVariables(c, x) /\ (\A cond \in conds : Holds(c, x, cond)) /\ Reading(c, x) \subseteq A
  BY <1>6, <1>7, <1>8
<1> QED BY <1>9 DEF c, view

\* A CSP reads its fluents, and a larger view has more solutions.
LEMMA ReadingIs ==
    ASSUME NEW a, NEW bound, NEW conds, NEW effs, NEW x
    PROVE  Reading(CSP(a, bound, conds, effs), x) =
             {AtomIn(CSP(a, bound, conds, effs), x, t) : t \in {u \in TermsOf(conds, effs) : IsFluent(u)}}
<1> DEFINE c == CSP(a, bound, conds, effs)
           T == TermsOf(conds, effs)
<1>1. c.nullary \cup c.looked = {u \in T : IsFluent(u)}
  <2>1. /\ c.nullary = {t \in T : IsPredicate(t) /\ t.sub = << >>}
        /\ c.looked = {t \in T : IsFluent(t) /\ (IsPredicate(t) => t.sub # << >>)}
    BY CSPIs
  <2>2. \A t : IsPredicate(t) => IsFluent(t)
    BY DEF IsPredicate
  <2> HIDE DEF c, T
  <2> QED BY <2>1, <2>2
<1> QED BY <1>1 DEF Reading

LEMMA MoreSolutions ==
    ASSUME NEW a, NEW bound, NEW conds, NEW effs, CSPOK(a, bound, conds, effs),
           NEW A \in SUBSET AllAtoms, NEW B \in SUBSET A
    PROVE  LET c == CSP(a, bound, conds, effs)
           IN  Solutions(c, ViewOf(B)) \subseteq Solutions(c, ViewOf(A))
<1> DEFINE c == CSP(a, bound, conds, effs)
<1>1. B \in SUBSET AllAtoms
  OBVIOUS
<1>2. \A x : /\ x \in Solutions(c, ViewOf(A)) <=> Meets(c, x) /\ Reading(c, x) \subseteq A
             /\ x \in Solutions(c, ViewOf(B)) <=> Meets(c, x) /\ Reading(c, x) \subseteq B
  BY <1>1, SolutionsIn
<1> HIDE DEF c
<1> QED BY <1>2 DEF c

-----------------------------------------------------------------------------
(***************************************************************************)
(* A solution from the values of all terms.                                *)
(***************************************************************************)
\* The variable and the atom that a fluent is under the values val.
VarUnder(val, t) == <<t.name, [i \in DOMAIN t.sub |-> val[t.sub[i]]]>>
AtomUnder(val, t) == <<VarUnder(val, t), IF IsPredicate(t) THEN 1 ELSE val[t]>>

\* Values for the terms of a CSP that is not bound further than the values.
Valuation(a, bound, conds, effs, val) ==
    /\ \A p \in DOMAIN a.params : val[Param(p)] \in a.params[p]
    /\ \A p \in DOMAIN bound : val[Param(p)] = bound[p]
    /\ \A t \in TermsOf(conds, effs) : t.kind = "const" => val[t] = t.val
    /\ \A t \in TermsOf(conds, effs) : IsFluent(t) /\ ~IsPredicate(t) => val[t] \in Values[t.name]

SolutionUnder(c, val) == [t \in DOMAIN c.range |-> val[t]]

LEMMA UnderReads ==
    ASSUME NEW a, NEW bound, NEW conds, NEW effs, CSPOK(a, bound, conds, effs),
           NEW val, Valuation(a, bound, conds, effs, val)
    PROVE  LET c == CSP(a, bound, conds, effs)
               T == TermsOf(conds, effs)
               x == SolutionUnder(c, val)
           IN  /\ x \in Candidates(c)
               /\ \A t \in T : ~IsPredicate(t) => ValueIn(c, x, t) = val[t]
               /\ \A t \in T : IsFluent(t) => AtomIn(c, x, t) = AtomUnder(val, t)
               /\ \A i \in DOMAIN effs : Produced(c, x, i) = <<VarUnder(val, effs[i].lhs), val[effs[i].rhs]>>
<1> DEFINE c == CSP(a, bound, conds, effs)
           T == TermsOf(conds, effs)
           x == SolutionUnder(c, val)
           D == DOMAIN c.range
<1>1. /\ Closed(a.params, T)
      /\ \A i \in DOMAIN effs : effs[i].rhs \in T /\ ~IsPredicate(effs[i].rhs)
      /\ \A i \in DOMAIN effs : ToSet(effs[i].lhs.sub) \subseteq T
  BY TermsFacts DEF CSPOK
<1>2. /\ c.bound = bound /\ c.effs = effs
      /\ D = {Param(p) : p \in DOMAIN a.params \ DOMAIN bound} \cup {u \in T : IsFluent(u) /\ ~IsPredicate(u)}
      /\ \A t \in D : c.range[t] = ValuesOf(a.params, t)
  BY CSPIs
<1>3. x = [t \in D |-> val[t]]
  BY DEF SolutionUnder
<1>4. \A i \in DOMAIN effs : Typed(a.params, effs[i].lhs) /\ IsFluent(effs[i].lhs)
  BY DEF CSPOK, TypedEffect, TypedTerm, SubTerms
<1> HIDE DEF c, x, D
<1>5. /\ \A p \in DOMAIN a.params : val[Param(p)] \in a.params[p]
      /\ \A p \in DOMAIN bound : val[Param(p)] = bound[p]
      /\ \A t \in T : t.kind = "const" => val[t] = t.val
      /\ \A t \in T : IsFluent(t) /\ ~IsPredicate(t) => val[t] \in Values[t.name]
  BY DEF Valuation
<1>6. x \in Candidates(c)
  <2>1. \A p \in DOMAIN a.params : ValuesOf(a.params, Param(p)) = a.params[p]
    BY DEF ValuesOf, Param
  <2>2. \A t : IsFluent(t) => ValuesOf(a.params, t) = Values[t.name]
    BY DEF ValuesOf, IsFluent
  <2>3. \A t \in D : val[t] \in ValuesOf(a.params, t)
    BY <1>2, <1>5, <2>1, <2>2
  <2>4. x = [t \in D |-> x[t]] /\ \A t \in D : x[t] = val[t]
    BY <1>3
  <2>5. \A t \in D : x[t] \in c.range[t]
    BY <1>2, <2>3, <2>4
  <2> QED BY <2>4, <2>5, CandidatesAre DEF D
<1>7. ASSUME NEW t \in T, ~IsPredicate(t) PROVE ValueIn(c, x, t) = val[t]
  <2>1. Typed(a.params, t)
    BY <1>1 DEF Closed
  <2>2. CASE t.kind = "const"
    BY <1>5, <2>2 DEF ValueIn
  <2>3. CASE t.kind = "param"
    <3>1. t = Param(t.name) /\ t.name \in DOMAIN a.params
      BY <2>1, <2>3, KindFacts
    <3>2. CASE t.name \in DOMAIN bound
      <4>1. ValueIn(c, x, t) = bound[t.name]
        BY <1>2, <2>3, <3>2 DEF ValueIn, Constant
      <4>2. val[Param(t.name)] = bound[t.name]
        BY <1>5, <3>2
      <4> QED BY <3>1, <4>1, <4>2
    <3>3. CASE t.name \notin DOMAIN bound
      <4>1. ValueIn(c, x, t) = x[t]
        BY <1>2, <2>3, <3>3 DEF ValueIn, Constant
      <4>2. t \in D
        BY <1>2, <3>1, <3>3
      <4> QED BY <1>3, <4>1, <4>2
    <3> QED BY <3>2, <3>3
  <2>4. CASE t.kind \notin {"const", "param"}
    <3>1. IsFluent(t)
      BY <2>1, <2>4, KindFacts
    <3>2. t \in D
      BY <1>2, <1>7, <3>1
    <3>3. ValueIn(c, x, t) = x[t]
      BY <2>4 DEF ValueIn, Constant
    <3> QED BY <1>3, <3>2, <3>3
  <2> QED BY <2>2, <2>3, <2>4
<1>8. ASSUME NEW t, Typed(a.params, t), IsFluent(t), ToSet(t.sub) \subseteq T
      PROVE  VarIn(c, x, t) = VarUnder(val, t)
  <2>1. \A i \in DOMAIN t.sub : ~IsPredicate(t.sub[i])
    BY <1>8, KindFacts DEF IsFluent
  <2>2. \A i \in DOMAIN t.sub : t.sub[i] \in T
    BY <1>8 DEF ToSet
  <2>3. \A i \in DOMAIN t.sub : ValueIn(c, x, t.sub[i]) = val[t.sub[i]]
    BY <1>7, <2>1, <2>2
  <2>4. [i \in DOMAIN t.sub |-> ValueIn(c, x, t.sub[i])] = [i \in DOMAIN t.sub |-> val[t.sub[i]]]
    BY <2>3
  <2> QED BY <2>4 DEF VarIn, VarUnder
<1>9. ASSUME NEW t \in T, IsFluent(t) PROVE AtomIn(c, x, t) = AtomUnder(val, t)
  <2>1. VarIn(c, x, t) = VarUnder(val, t)
    BY <1>1, <1>8, <1>9 DEF Closed
  <2>2. CASE IsPredicate(t)
    BY <2>1, <2>2 DEF AtomIn, AtomUnder
  <2>3. CASE ~IsPredicate(t)
    <3>1. x[t] = val[t]
      BY <1>2, <1>3, <1>9, <2>3
    <3> QED BY <2>1, <2>3, <3>1 DEF AtomIn, AtomUnder
  <2> QED BY <2>2, <2>3
<1>10. ASSUME NEW i \in DOMAIN effs
       PROVE  Produced(c, x, i) = <<VarUnder(val, effs[i].lhs), val[effs[i].rhs]>>
  <2>1. VarIn(c, x, effs[i].lhs) = VarUnder(val, effs[i].lhs)
    BY <1>1, <1>4, <1>8
  <2>2. ValueIn(c, x, effs[i].rhs) = val[effs[i].rhs]
    BY <1>1, <1>7
  <2> QED BY <1>2, <2>1, <2>2 DEF Produced
<1> QED BY <1>6, <1>7, <1>9, <1>10 DEF c, x

\* State variables that are the same have the same value.
SharedUnder(bound, T, val) ==
    \A t, u \in {w \in T : IsFluent(w) /\ IsStateVar(bound, w)} :
        VarUnder(val, t) = VarUnder(val, u) => AtomUnder(val, t) = AtomUnder(val, u)

\* It is a solution in the view of the atoms the fluents are.
LEMMA UnderSolves ==
    ASSUME NEW a, NEW bound, NEW conds, NEW effs, CSPOK(a, bound, conds, effs),
           NEW val, Valuation(a, bound, conds, effs, val), NEW A \in SUBSET AllAtoms,
           \A t \in TermsOf(conds, effs) : IsFluent(t) => AtomUnder(val, t) \in A,
           SharedUnder(bound, TermsOf(conds, effs), val),
           \A cond \in conds : IsAtom(cond) \/ Compare(cond.op, val[cond.lhs], val[cond.rhs])
    PROVE  LET c == CSP(a, bound, conds, effs)
               x == SolutionUnder(c, val)
           IN  /\ NullaryTrue(c, ViewOf(A)) /\ Consistent(c, x, ViewOf(A))
               /\ (\A i \in DOMAIN effs : val[effs[i].rhs] \in Values[effs[i].lhs.name]) => x \in Solutions(c, ViewOf(A))
<1> DEFINE c == CSP(a, bound, conds, effs)
           T == TermsOf(conds, effs)
           x == SolutionUnder(c, val)
<1>1. /\ x \in Candidates(c)
      /\ \A t \in T : ~IsPredicate(t) => ValueIn(c, x, t) = val[t]
      /\ \A t \in T : IsFluent(t) => AtomIn(c, x, t) = AtomUnder(val, t)
  BY UnderReads
<1>2. /\ \A cond \in conds : cond.lhs \in T /\ cond.rhs \in T /\ ~IsPredicate(cond.rhs)
      /\ \A i \in DOMAIN effs : effs[i].rhs \in T /\ ~IsPredicate(effs[i].rhs)
  <2>1. TypedConds(a.params, conds) /\ \A i \in DOMAIN effs : TypedEffect(a.params, effs[i])
    BY DEF CSPOK
  <2> QED BY <2>1, TermsFacts
<1>3. c.conds = conds /\ c.effs = effs /\ c.direct = {t \in T : IsFluent(t) /\ IsStateVar(bound, t)}
  BY CSPIs
<1>4. Reading(c, x) = {AtomIn(c, x, t) : t \in {u \in T : IsFluent(u)}}
  BY ReadingIs
<1>5. x \in Solutions(c, ViewOf(A)) <=> Meets(c, x) /\ Reading(c, x) \subseteq A
  BY SolutionsIn
<1> HIDE DEF c, x, T
<1>6. \A cond \in conds : Holds(c, x, cond)
  BY <1>1, <1>2 DEF Holds, IsAtom
<1>7. Reading(c, x) \subseteq A
  BY <1>1, <1>4 DEF T
<1>10. SharedVariables(c, x)
  <2> SUFFICES ASSUME NEW t \in c.direct, NEW u \in c.direct, VarIn(c, x, t) = VarIn(c, x, u)
               PROVE  AtomIn(c, x, t) = AtomIn(c, x, u)
    BY DEF SharedVariables
  <2>1. AtomIn(c, x, t) = AtomUnder(val, t) /\ AtomIn(c, x, u) = AtomUnder(val, u)
    BY <1>1, <1>3
  <2>2. VarUnder(val, t) = VarUnder(val, u)
    BY <2>1 DEF AtomIn, AtomUnder
  <2>3. \A w \in c.direct : w \in T /\ IsFluent(w) /\ IsStateVar(bound, w)
    BY <1>3
  <2>4. AtomUnder(val, t) = AtomUnder(val, u)
    BY <2>2, <2>3 DEF SharedUnder, T
  <2> QED BY <2>1, <2>4
<1>8. NullaryTrue(c, ViewOf(A)) /\ Consistent(c, x, ViewOf(A))
  BY <1>1, <1>3, <1>6, <1>7, <1>10, ConsistentIn DEF c
<1>9. ASSUME \A i \in DOMAIN effs : val[effs[i].rhs] \in Values[effs[i].lhs.name]
      PROVE  x \in Solutions(c, ViewOf(A))
  <2>1. InBounds(c, x)
    BY <1>1, <1>2, <1>3, <1>9 DEF InBounds
  <2>2. Meets(c, x)
    BY <1>1, <1>3, <1>6, <1>10, <2>1 DEF Meets
  <2> QED BY <1>5, <1>7, <2>2
<1> QED BY <1>8, <1>9 DEF c, x

-----------------------------------------------------------------------------
(***************************************************************************)
(* CSPs over the atoms of one state.                                       *)
(***************************************************************************)
LEMMA StateAtoms ==
    ASSUME NEW s, StateOK(s), NEW v \in Vars, NEW n
    PROVE  <<v, n>> \in AtomsOf(s) <=> s[v] = n /\ (v[1] \in Predicates => n # 0)
BY ViewFacts

LEMMA AtomsTyped == \A s : AtomsOf(s) \in SUBSET AllAtoms
BY DEF AtomsOf

\* A state has one atom of each variable.
LEMMA StateShares ==
    ASSUME NEW s, NEW bound, NEW T, NEW val, \A t \in T : IsFluent(t) => AtomUnder(val, t) \in AtomsOf(s)
    PROVE  SharedUnder(bound, T, val)
<1> SUFFICES ASSUME NEW t \in T, IsFluent(t), NEW u \in T, IsFluent(u), VarUnder(val, t) = VarUnder(val, u)
             PROVE  AtomUnder(val, t) = AtomUnder(val, u)
  BY DEF SharedUnder
<1> DEFINE a == AtomUnder(val, t)
           b == AtomUnder(val, u)
<1>1. a = <<a[1], a[2]>> /\ b = <<b[1], b[2]>> /\ a[1] = b[1]
  BY DEF AtomUnder
<1>2. a \in AtomsOf(s) /\ b \in AtomsOf(s)
  OBVIOUS
<1> HIDE DEF a, b
<1>3. s[a[1]] = a[2] /\ s[b[1]] = b[2]
  BY <1>2 DEF AtomsOf
<1>4. a = b
  BY <1>1, <1>3
<1> QED BY <1>4 DEF a, b

\* The values of the terms in a state.
ReadVals(a, T, s, b) == [t \in T \cup ParamTerms(a) |-> Interpret(t, s, b)]

LEMMA StateSolves ==
    ASSUME NEW a, NEW bound, NEW conds, NEW effs, CSPOK(a, bound, conds, effs),
           NEW s, StateOK(s), NEW b \in Bindings(a.params), \A p \in DOMAIN bound : bound[p] = b[p],
           Interpreted(conds, s, b)
    PROVE  LET c == CSP(a, bound, conds, effs)
               view == ViewOf(AtomsOf(s))
           IN  \E x \in Candidates(c) :
                 /\ NullaryTrue(c, view) /\ Consistent(c, x, view)
                 /\ (\A i \in DOMAIN effs : Interpret(effs[i].rhs, s, b) \in Values[effs[i].lhs.name]) => x \in Solutions(c, view)
                 /\ \A i \in DOMAIN effs : Produced(c, x, i) = <<VarOf(effs[i].lhs, s, b), Interpret(effs[i].rhs, s, b)>>
<1> DEFINE c == CSP(a, bound, conds, effs)
           T == TermsOf(conds, effs)
           val == ReadVals(a, T, s, b)
           x == SolutionUnder(c, val)
<1>1. /\ Closed(a.params, T)
      /\ \A e \in conds : e.lhs \in T /\ e.rhs \in T /\ ~IsPredicate(e.rhs)
      /\ \A i \in DOMAIN effs : effs[i].rhs \in T /\ ~IsPredicate(effs[i].rhs)
      /\ \A i \in DOMAIN effs : ToSet(effs[i].lhs.sub) \subseteq T
      /\ \A t \in T : IsPredicate(t) => \E e \in conds : e.lhs = t
  <2>1. TypedConds(a.params, conds) /\ \A i \in DOMAIN effs : TypedEffect(a.params, effs[i])
    BY DEF CSPOK
  <2> QED BY <2>1, TermsFacts
<1>2. /\ \A t \in T : Interpret(t, s, b) \in ValuesOf(a.params, t)
      /\ \A t \in T : IsFluent(t) => VarOf(t, s, b) \in Vars /\ Interpret(t, s, b) = s[VarOf(t, s, b)]
  BY <1>1, ValuesTyped
<1>3. DOMAIN bound \subseteq DOMAIN a.params
  BY DEF CSPOK
<1>4. \A t \in T \cup ParamTerms(a) : val[t] = Interpret(t, s, b)
  BY DEF ReadVals
<1> HIDE DEF c, T, val, x
<1>5. \A p \in DOMAIN a.params : Param(p) \in ParamTerms(a) /\ Interpret(Param(p), s, b) = b[p] /\ b[p] \in a.params[p]
  <2>1. \A p \in DOMAIN a.params : b[p] \in a.params[p]
    BY BindingFacts
  <2>2. \A p : Interpret(Param(p), s, b) = b[p]
    BY DEF Interpret, Param, IsFluent
  <2> QED BY <2>1, <2>2 DEF ParamTerms
<1>6. Valuation(a, bound, conds, effs, val)
  <2>1. \A t \in T : t.kind = "const" => val[t] = t.val
    BY <1>4 DEF Interpret, IsFluent
  <2>2. \A t \in T : IsFluent(t) => val[t] \in Values[t.name]
    BY <1>2, <1>4 DEF ValuesOf, IsFluent
  <2>3. \A p \in DOMAIN a.params : val[Param(p)] = b[p]
    BY <1>4, <1>5
  <2> QED BY <1>3, <1>5, <2>1, <2>2, <2>3 DEF Valuation, T
<1>7. ASSUME NEW t, ToSet(t.sub) \subseteq T PROVE VarUnder(val, t) = VarOf(t, s, b)
  <2>1. \A i \in DOMAIN t.sub : t.sub[i] \in T
    BY <1>7 DEF ToSet
  <2>2. \A i \in DOMAIN t.sub : val[t.sub[i]] = Interpret(t.sub[i], s, b)
    BY <1>4, <2>1
  <2>3. [i \in DOMAIN t.sub |-> val[t.sub[i]]] = [i \in DOMAIN t.sub |-> Interpret(t.sub[i], s, b)]
    BY <2>2
  <2> QED BY <2>3 DEF VarUnder, VarOf
<1>8. \A e \in conds : Compare(e.op, Interpret(e.lhs, s, b), Interpret(e.rhs, s, b))
  BY DEF Interpreted
<1>9. ASSUME NEW t \in T, IsFluent(t) PROVE AtomUnder(val, t) \in AtomsOf(s)
  <2> DEFINE v == VarOf(t, s, b)
  <2>1. VarUnder(val, t) = v
    BY <1>1, <1>7 DEF Closed
  <2>2. v \in Vars /\ Interpret(t, s, b) = s[v] /\ v[1] = t.name
    BY <1>2, <1>9 DEF VarOf
  <2>3. CASE IsPredicate(t)
    <3>1. PICK e \in conds : e.lhs = t
      BY <1>1, <2>3
    <3>2. e.op = "=" /\ e.rhs = Const(1)
      BY <2>3, <3>1 DEF CSPOK, SupportedConds, IsAtom
    <3>3. Interpret(Const(1), s, b) = 1
      BY DEF Interpret, Const, IsFluent
    <3>4. Compare("=", Interpret(t, s, b), 1)
      BY <1>8, <3>1, <3>2, <3>3
    <3>5. s[v] = 1
      BY <2>2, <3>4 DEF Compare
    <3>6. AtomUnder(val, t) = <<v, 1>>
      BY <2>1, <2>3 DEF AtomUnder
    <3> HIDE DEF v
    <3> QED BY <2>2, <3>5, <3>6, StateAtoms
  <2>4. CASE ~IsPredicate(t)
    <3>1. AtomUnder(val, t) = <<v, s[v]>>
      BY <1>4, <2>1, <2>2, <2>4 DEF AtomUnder
    <3>2. v[1] \notin Predicates
      BY <1>9, <2>2, <2>4 DEF IsPredicate
    <3> HIDE DEF v
    <3> QED BY <2>2, <3>1, <3>2, StateAtoms
  <2> QED BY <2>3, <2>4
<1>10. \A e \in conds : IsAtom(e) \/ Compare(e.op, val[e.lhs], val[e.rhs])
  BY <1>1, <1>4, <1>8
<1>11. \A i \in DOMAIN effs : val[effs[i].rhs] = Interpret(effs[i].rhs, s, b)
  BY <1>1, <1>4
<1>12. /\ NullaryTrue(c, ViewOf(AtomsOf(s))) /\ Consistent(c, x, ViewOf(AtomsOf(s)))
       /\ (\A i \in DOMAIN effs : val[effs[i].rhs] \in Values[effs[i].lhs.name]) => x \in Solutions(c, ViewOf(AtomsOf(s)))
  <2>1. SharedUnder(bound, T, val)
    BY <1>9, StateShares
  <2> QED BY <1>6, <1>9, <1>10, <2>1, AtomsTyped, UnderSolves DEF T, c, x
<1>15. x \in Candidates(c)
  BY <1>6, UnderReads DEF c, x
<1>13. \A i \in DOMAIN effs : Produced(c, x, i) = <<VarUnder(val, effs[i].lhs), val[effs[i].rhs]>>
  BY <1>6, UnderReads DEF c, x
<1>14. \A i \in DOMAIN effs : Produced(c, x, i) = <<VarOf(effs[i].lhs, s, b), Interpret(effs[i].rhs, s, b)>>
  BY <1>1, <1>4, <1>7, <1>13
<1> QED BY <1>11, <1>12, <1>14, <1>15 DEF c

-----------------------------------------------------------------------------
(***************************************************************************)
(* Recursive functions: what they need to exist.                           *)
(***************************************************************************)
LEMMA Iterates ==
    ASSUME NEW D, NEW base \in D, NEW step \in [D -> D]
    PROVE  \E f \in [Nat -> D] : f[0] = base /\ \A n \in Nat : f[n + 1] = step[f[n]]
<1> DEFINE Upto(n, f) == f \in [0..n -> D] /\ f[0] = base /\ \A k \in 0..n : k # n => f[k + 1] = step[f[k]]
           N == {n \in Nat : \E f : Upto(n, f)}
<1>1. 0 \in N
  <2> DEFINE f == [k \in 0..0 |-> base]
  <2>1. Upto(0, f)
    OBVIOUS
  <2> QED BY <2>1
<1>2. ASSUME NEW n \in N PROVE n + 1 \in N
  <2>1. n \in Nat
    OBVIOUS
  <2>2. PICK f : Upto(n, f)
    OBVIOUS
  <2> DEFINE g == [k \in 0..(n + 1) |-> IF k = n + 1 THEN step[f[n]] ELSE f[k]]
  <2>3. f \in [0..n -> D] /\ f[0] = base /\ \A k \in 0..n : k # n => f[k + 1] = step[f[k]]
    BY <2>2
  <2> HIDE DEF Upto
  <2>4. n \in 0..n /\ f[n] \in D /\ step[f[n]] \in D
    BY <2>1, <2>3
  <2>5. \A k \in 0..(n + 1) : k # n + 1 => k \in 0..n
    BY <2>1
  <2>6. g \in [0..(n + 1) -> D]
    BY <2>3, <2>4, <2>5
  <2>7. g[0] = base
    BY <2>1, <2>3
  <2>8. ASSUME NEW k \in 0..(n + 1), k # n + 1 PROVE g[k + 1] = step[g[k]]
    <3>1. k \in 0..n /\ k + 1 \in 0..(n + 1) /\ (k + 1 = n + 1 <=> k = n)
      BY <2>1, <2>8
    <3>2. g[k] = f[k]
      BY <3>1, <2>8
    <3> QED BY <2>3, <3>1, <3>2
  <2>9. Upto(n + 1, g)
    BY <2>6, <2>7, <2>8 DEF Upto
  <2> QED BY <2>1, <2>9
<1> HIDE DEF N
<1>3. N = Nat
  <2>1. N \in SUBSET Nat
    BY DEF N
  <2> QED BY <1>1, <1>2, <2>1, Induction
<1> DEFINE F == [n \in Nat |-> CHOOSE f : Upto(n, f)]
<1>4. \A n \in Nat : Upto(n, F[n])
  BY <1>3 DEF N
<1> HIDE DEF F
<1>5. \A n \in Nat : /\ F[n] \in [0..n -> D] /\ F[n][0] = base
                     /\ \A k \in 0..n : k # n => F[n][k + 1] = step[F[n][k]]
  BY <1>4
<1> HIDE DEF Upto
\* They agree where they overlap.
<1> DEFINE M == {k \in Nat : \A n, m \in Nat : k \in 0..n /\ k \in 0..m => F[n][k] = F[m][k]}
<1>6. 0 \in M
  BY <1>5
<1>7. ASSUME NEW k \in M PROVE k + 1 \in M
  <2>1. k \in Nat
    OBVIOUS
  <2>2. \A n, m \in Nat : k \in 0..n /\ k \in 0..m => F[n][k] = F[m][k]
    OBVIOUS
  <2> HIDE DEF M
  <2>3. ASSUME NEW n \in Nat, NEW m \in Nat, k + 1 \in 0..n, k + 1 \in 0..m PROVE F[n][k + 1] = F[m][k + 1]
    <3>1. k \in 0..n /\ k # n /\ k \in 0..m /\ k # m
      BY <2>1, <2>3
    <3> QED BY <1>5, <2>2, <3>1
  <2> QED BY <2>1, <2>3 DEF M
<1> HIDE DEF M
<1>8. M = Nat
  <2>1. M \in SUBSET Nat
    BY DEF M
  <2> QED BY <1>6, <1>7, <2>1, Induction
<1> DEFINE f == [n \in Nat |-> F[n][n]]
<1>9. \A n \in Nat : n \in 0..n
  OBVIOUS
<1>10. f \in [Nat -> D]
  BY <1>5, <1>9
<1>11. f[0] = base
  BY <1>5
<1>12. ASSUME NEW n \in Nat PROVE f[n + 1] = step[f[n]]
  <2>1. n \in 0..(n + 1) /\ n # n + 1 /\ n + 1 \in Nat /\ n \in 0..n
    OBVIOUS
  <2>2. F[n + 1][n + 1] = step[F[n + 1][n]]
    BY <1>5, <2>1
  <2>3. F[n + 1][n] = F[n][n]
    <3>1. n \in M
      BY <1>8
    <3> QED BY <2>1, <3>1 DEF M
  <2> QED BY <2>1, <2>2, <2>3
<1> HIDE DEF f
<1> QED BY <1>10, <1>11, <1>12

-----------------------------------------------------------------------------
(***************************************************************************)
(* Finite sets.                                                            *)
(***************************************************************************)
LEMMA FiniteInduction ==
    ASSUME NEW S, IsFiniteSet(S), NEW P \in SUBSET (SUBSET S), {} \in P,
           \A T \in P : \A x \in S \ T : T \cup {x} \in P
    PROVE  S \in P
<1> DEFINE N == {n \in Nat : \A T \in SUBSET S : IsFiniteSet(T) /\ Cardinality(T) = n => T \in P}
<1>1. 0 \in N
  BY FS_EmptySet
<1>2. ASSUME NEW n \in N PROVE n + 1 \in N
  <2>1. n \in Nat /\ \A T \in SUBSET S : IsFiniteSet(T) /\ Cardinality(T) = n => T \in P
    OBVIOUS
  <2> SUFFICES ASSUME NEW T \in SUBSET S, IsFiniteSet(T), Cardinality(T) = n + 1 PROVE T \in P
    BY <2>1
  <2> HIDE DEF N
  <2>2. T # {}
    BY <2>1, FS_EmptySet
  <2>3. PICK x \in T : TRUE
    BY <2>2
  <2>4. IsFiniteSet(T \ {x}) /\ Cardinality(T \ {x}) = n
    <3>1. IsFiniteSet(T)
      OBVIOUS
    <3>2. IsFiniteSet(T \ {x}) /\ Cardinality(T \ {x}) = Cardinality(T) - 1
      BY <3>1, FS_RemoveElement
    <3> QED BY <2>1, <3>2
  <2>5. T \ {x} \in P
    BY <2>1, <2>4
  <2>6. (T \ {x}) \cup {x} \in P
    BY <2>5
  <2>7. (T \ {x}) \cup {x} = T
    OBVIOUS
  <2> QED BY <2>6, <2>7
<1> HIDE DEF N
<1>3. N = Nat
  <2>1. N \in SUBSET Nat
    BY DEF N
  <2> QED BY <1>1, <1>2, <2>1, Induction
<1>4. Cardinality(S) \in Nat
  BY FS_CardinalityType
<1>5. Cardinality(S) \in N
  BY <1>3, <1>4
<1> QED BY <1>5 DEF N

LEMMA FiniteImage ==
    ASSUME NEW S, IsFiniteSet(S), NEW f
    PROVE  IsFiniteSet({f[x] : x \in S})
<1> DEFINE T == {f[x] : x \in S}
           g == [x \in S |-> f[x]]
<1>1. g \in Surjection(S, T)
  BY DEF Surjection
<1> QED BY <1>1, FS_Surjection

\* Finitely many functions between finite sets.
LEMMA FiniteFunctions ==
    ASSUME NEW S, NEW T, IsFiniteSet(S), IsFiniteSet(T)
    PROVE  IsFiniteSet([S -> T])
<1> DEFINE G == [f \in [S -> T] |-> {<<x, f[x]>> : x \in S}]
<1>1. IsFiniteSet(SUBSET (S \X T))
  BY FS_Product, FS_SUBSET
<1>2. G \in [[S -> T] -> SUBSET (S \X T)]
  <2> SUFFICES ASSUME NEW f \in [S -> T] PROVE {<<x, f[x]>> : x \in S} \subseteq S \X T
    OBVIOUS
  <2> QED OBVIOUS
<1>3. ASSUME NEW f \in [S -> T], NEW g \in [S -> T], G[f] = G[g] PROVE f = g
  <2>1. {<<x, f[x]>> : x \in S} = {<<x, g[x]>> : x \in S}
    BY <1>3
  <2>2. ASSUME NEW x \in S PROVE f[x] = g[x]
    <3>1. <<x, f[x]>> \in {<<y, g[y]>> : y \in S}
      BY <2>1
    <3> QED BY <3>1
  <2> QED BY <2>2
<1> HIDE DEF G
<1>4. G \in Injection([S -> T], SUBSET (S \X T))
  BY <1>2, <1>3 DEF Injection, IsInjective
<1> QED BY <1>1, <1>4, FS_Injection

\* The greatest of finitely many integers.
LEMMA GreatestOf ==
    ASSUME NEW S, IsFiniteSet(S), S \subseteq Int, S # {}
    PROVE  Max(S) \in S
<1> DEFINE P == {T \in SUBSET S : T # {} => \E x \in T : \A y \in T : x >= y}
<1>1. {} \in P
  OBVIOUS
<1>2. ASSUME NEW T \in P, NEW z \in S \ T PROVE T \cup {z} \in P
  <2>1. CASE T = {}
    BY <2>1
  <2>2. CASE T # {}
    <3>1. PICK x \in T : \A y \in T : x >= y
      BY <2>2
    <3>2. CASE z >= x
      <4>1. \A y \in T \cup {z} : z >= y
        BY <3>1, <3>2
      <4> QED BY <4>1
    <3>3. CASE x >= z
      <4>1. \A y \in T \cup {z} : x >= y
        BY <3>1, <3>3
      <4> QED BY <3>1, <4>1
    <3> QED BY <3>2, <3>3
  <2> QED BY <2>1, <2>2
<1> HIDE DEF P
<1>3. S \in P
  <2>1. P \in SUBSET (SUBSET S)
    BY DEF P
  <2> QED BY <1>1, <1>2, <2>1, FiniteInduction
<1>4. \E x \in S : \A y \in S : x >= y
  BY <1>3 DEF P
<1> QED BY <1>4 DEF Max

\* A growing sequence of subsets of a finite set stands still.
LEMMA Saturation ==
    ASSUME NEW U, IsFiniteSet(U), NEW L \in [Nat -> SUBSET U], \A n \in Nat : L[n] \subseteq L[n + 1]
    PROVE  \E k \in 0..Cardinality(U) : L[k + 1] = L[k]
<1> DEFINE c == Cardinality(U)
<1>1. c \in Nat
  BY FS_CardinalityType
<1>2. \A n \in Nat : IsFiniteSet(L[n]) /\ Cardinality(L[n]) \in Nat /\ Cardinality(L[n]) <= c
  BY FS_Subset, FS_CardinalityType
<1> SUFFICES ASSUME \A k \in 0..c : L[k + 1] # L[k] PROVE FALSE
  OBVIOUS
<1> HIDE DEF c
<1> DEFINE N == {n \in Nat : n <= c + 1 => Cardinality(L[n]) >= n}
<1>3. 0 \in N
  BY <1>2
<1>4. ASSUME NEW n \in N PROVE n + 1 \in N
  <2>1. n \in Nat /\ (n <= c + 1 => Cardinality(L[n]) >= n)
    OBVIOUS
  <2> HIDE DEF N
  <2>2. ASSUME n + 1 <= c + 1 PROVE Cardinality(L[n + 1]) >= n + 1
    <3>1. n \in 0..c /\ n <= c + 1
      BY <1>1, <2>1, <2>2
    <3>2. L[n + 1] # L[n] /\ L[n] \in SUBSET L[n + 1]
      BY <2>1, <3>1
    <3>3. IsFiniteSet(L[n + 1]) /\ Cardinality(L[n + 1]) \in Nat /\ Cardinality(L[n]) \in Nat
      BY <1>2, <2>1
    <3>4. Cardinality(L[n]) <= Cardinality(L[n + 1]) /\ Cardinality(L[n]) # Cardinality(L[n + 1])
      BY <3>2, <3>3, FS_Subset
    <3> QED BY <2>1, <3>1, <3>3, <3>4
  <2> QED BY <2>1, <2>2 DEF N
<1> HIDE DEF N
<1>5. N = Nat
  <2>1. N \in SUBSET Nat
    BY DEF N
  <2> QED BY <1>3, <1>4, <2>1, Induction
<1>6. c + 1 \in N
  BY <1>1, <1>5
<1>7. Cardinality(L[c + 1]) >= c + 1
  BY <1>1, <1>6 DEF N
<1>8. Cardinality(L[c + 1]) <= c /\ Cardinality(L[c + 1]) \in Nat
  BY <1>1, <1>2
<1> QED BY <1>1, <1>7, <1>8

-----------------------------------------------------------------------------
(***************************************************************************)
(* Sets in some order, and sequences of sequences.                         *)
(***************************************************************************)
LEMMA ToSetConcat ==
    ASSUME NEW X, NEW s \in Seq(X), NEW t \in Seq(X)
    PROVE  s \o t \in Seq(X) /\ ToSet(s \o t) = ToSet(s) \cup ToSet(t)
<1>1. /\ s \o t \in Seq(X) /\ Len(s \o t) = Len(s) + Len(t)
      /\ \A i \in 1..(Len(s) + Len(t)) : (s \o t)[i] = IF i <= Len(s) THEN s[i] ELSE t[i - Len(s)]
  BY ConcatProperties
<1>2. /\ Len(s) \in Nat /\ DOMAIN s = 1..Len(s) /\ Len(t) \in Nat /\ DOMAIN t = 1..Len(t)
      /\ DOMAIN (s \o t) = 1..(Len(s) + Len(t))
  BY <1>1, LenProperties
<1> DEFINE q == s \o t
<1> HIDE DEF q
<1>3. ASSUME NEW i \in DOMAIN q PROVE q[i] \in ToSet(s) \cup ToSet(t)
  <2>1. CASE i <= Len(s)
    <3>1. i \in DOMAIN s /\ q[i] = s[i]
      BY <1>1, <1>2, <2>1 DEF q
    <3> QED BY <3>1 DEF ToSet
  <2>2. CASE ~(i <= Len(s))
    <3>1. i - Len(s) \in DOMAIN t /\ q[i] = t[i - Len(s)]
      BY <1>1, <1>2, <2>2 DEF q
    <3> QED BY <3>1 DEF ToSet
  <2> QED BY <2>1, <2>2
<1>4. ASSUME NEW i \in DOMAIN s PROVE s[i] \in ToSet(q)
  <2>1. i \in DOMAIN q /\ q[i] = s[i]
    BY <1>1, <1>2 DEF q
  <2> QED BY <2>1 DEF ToSet
<1>5. ASSUME NEW i \in DOMAIN t PROVE t[i] \in ToSet(q)
  <2>1. i + Len(s) \in DOMAIN q /\ q[i + Len(s)] = t[i]
    BY <1>1, <1>2 DEF q
  <2> QED BY <2>1 DEF ToSet
<1>6. ToSet(q) = ToSet(s) \cup ToSet(t)
  BY <1>3, <1>4, <1>5 DEF ToSet
<1> QED BY <1>1, <1>6 DEF q

IsOrdering(g, S) ==
    g = [T \in SUBSET S |-> IF T = {} THEN << >> ELSE LET m == CHOOSE m \in T : TRUE IN <<m>> \o g[T \ {m}]]

LEMMA OrderedIs == \A S : Ordered(S) = (CHOOSE g : IsOrdering(g, S))[S]
BY DEF Ordered, IsOrdering

LEMMA OrderingExists ==
    ASSUME NEW S, IsFiniteSet(S)
    PROVE  \E g : IsOrdering(g, S)
<1> DEFINE D == [SUBSET S -> Seq(S)]
           Some(T) == CHOOSE m \in T : TRUE
           base == [T \in SUBSET S |-> << >>]
           step == [f \in D |-> [T \in SUBSET S |-> IF T = {} THEN << >> ELSE <<Some(T)>> \o f[T \ {Some(T)}]]]
<1> HIDE DEF Some
<1>1. \A T \in SUBSET S : T # {} => Some(T) \in T
  BY DEF Some
<1>2. base \in D
  OBVIOUS
<1>3. step \in [D -> D]
  <2> DEFINE value(f, T) == IF T = {} THEN << >> ELSE <<Some(T)>> \o f[T \ {Some(T)}]
  <2>1. ASSUME NEW f \in D, NEW T \in SUBSET S PROVE value(f, T) \in Seq(S)
    <3>1. CASE T = {}
      BY <3>1
    <3>2. CASE T # {}
      <4>1. <<Some(T)>> \in Seq(S) /\ f[T \ {Some(T)}] \in Seq(S)
        BY <1>1, <3>2
      <4> QED BY <3>2, <4>1, ConcatProperties
    <3> QED BY <3>1, <3>2
  <2>2. step = [f \in D |-> [T \in SUBSET S |-> value(f, T)]]
    OBVIOUS
  <2> HIDE DEF value, step
  <2>3. \A f \in D : [T \in SUBSET S |-> value(f, T)] \in D
    BY <2>1
  <2> QED BY <2>2, <2>3
<1>4. \A f \in D : \A T \in SUBSET S : step[f][T] = IF T = {} THEN << >> ELSE <<Some(T)>> \o f[T \ {Some(T)}]
  OBVIOUS
<1> HIDE DEF base, step, D
<1>5. PICK F \in [Nat -> D] : F[0] = base /\ \A n \in Nat : F[n + 1] = step[F[n]]
  BY <1>2, <1>3, Iterates
<1> DEFINE g == [T \in SUBSET S |-> F[Cardinality(T)][T]]
<1>6. ASSUME NEW T \in SUBSET S
      PROVE  g[T] = IF T = {} THEN << >> ELSE <<Some(T)>> \o g[T \ {Some(T)}]
  <2>1. CASE T = {}
    <3>1. g[T] = F[0][T]
      BY <2>1, FS_EmptySet
    <3> QED BY <1>5, <2>1, <3>1 DEF base
  <2>2. CASE T # {}
    <3> DEFINE R == T \ {Some(T)}
               n == Cardinality(R)
    <3>0. IsFiniteSet(T)
      BY FS_Subset
    <3>1. IsFiniteSet(R) /\ Cardinality(R) = Cardinality(T) - 1
      BY <1>1, <2>2, <3>0, FS_RemoveElement
    <3>2. Cardinality(T) \in Nat /\ n \in Nat
      BY <3>0, <3>1, FS_CardinalityType
    <3>3. Cardinality(T) = n + 1
      BY <3>1, <3>2
    <3>4. R \in SUBSET S /\ g[R] = F[n][R] /\ g[T] = F[n + 1][T]
      BY <3>3
    <3> HIDE DEF R, n, g
    <3>5. F[n] \in D /\ F[n + 1] = step[F[n]]
      BY <1>5, <3>2
    <3>6. F[n + 1][T] = <<Some(T)>> \o F[n][R]
      BY <1>4, <2>2, <3>5 DEF R
    <3> QED BY <2>2, <3>4, <3>6 DEF R
  <2> QED BY <2>1, <2>2
<1>7. g = [T \in SUBSET S |-> IF T = {} THEN << >> ELSE <<Some(T)>> \o g[T \ {Some(T)}]]
  <2>1. g = [T \in SUBSET S |-> g[T]]
    OBVIOUS
  <2> HIDE DEF g
  <2> QED BY <1>6, <2>1
<1>8. IsOrdering(g, S)
  <2> HIDE DEF g
  <2> QED BY <1>7 DEF IsOrdering, Some
<1> QED BY <1>8

LEMMA OrderedFacts ==
    ASSUME NEW S, IsFiniteSet(S)
    PROVE  Ordered(S) \in Seq(S) /\ ToSet(Ordered(S)) = S
<1> DEFINE g == CHOOSE g : IsOrdering(g, S)
           Some(T) == CHOOSE m \in T : TRUE
<1>1. IsOrdering(g, S)
  BY OrderingExists
<1> HIDE DEF g
<1>2. \A T \in SUBSET S : g[T] = IF T = {} THEN << >> ELSE <<Some(T)>> \o g[T \ {Some(T)}]
  BY <1>1 DEF IsOrdering
<1>3. \A T \in SUBSET S : T # {} => Some(T) \in T
  OBVIOUS
<1> HIDE DEF Some
<1> DEFINE Good(T) == g[T] \in Seq(S) /\ ToSet(g[T]) = T
           N == {n \in Nat : \A T \in SUBSET S : Cardinality(T) = n => Good(T)}
<1> HIDE DEF Good
<1>4. 0 \in N
  <2> SUFFICES ASSUME NEW T \in SUBSET S, Cardinality(T) = 0 PROVE Good(T)
    OBVIOUS
  <2>1. T = {}
    BY FS_Subset, FS_EmptySet
  <2>2. g[T] = << >>
    BY <1>2, <2>1
  <2>3. ToSet(<< >>) = {}
    BY DEF ToSet
  <2> QED BY <2>1, <2>2, <2>3 DEF Good
<1>5. ASSUME NEW n \in N PROVE n + 1 \in N
  <2>1. n \in Nat /\ \A T \in SUBSET S : Cardinality(T) = n => Good(T)
    OBVIOUS
  <2> HIDE DEF N
  <2>2. ASSUME NEW T \in SUBSET S, Cardinality(T) = n + 1 PROVE Good(T)
    <3>1. IsFiniteSet(T)
      BY FS_Subset
    <3>2. T # {}
      BY <2>1, <2>2, FS_EmptySet
    <3> DEFINE m == Some(T)
               R == T \ {m}
    <3>3. m \in T
      BY <1>3, <3>2
    <3> HIDE DEF m
    <3>4. Cardinality(R) = Cardinality(T) - 1
      BY <3>1, <3>3, FS_RemoveElement
    <3>5. Cardinality(R) = n
      BY <2>1, <2>2, <3>4
    <3>6. Good(R)
      BY <2>1, <3>5
    <3>7. g[R] \in Seq(S) /\ ToSet(g[R]) = R
      BY <3>6 DEF Good
    <3>8. <<m>> \in Seq(S) /\ ToSet(<<m>>) = {m}
      BY <3>3 DEF ToSet
    <3>9. g[T] = <<m>> \o g[R]
      BY <1>2, <3>2 DEF m
    <3>10. PICK p, q : p = <<m>> /\ q = g[R]
      OBVIOUS
    <3>11. p \in Seq(S) /\ ToSet(p) = {m} /\ q \in Seq(S) /\ ToSet(q) = R
      BY <3>7, <3>8, <3>10
    <3>12. p \o q \in Seq(S) /\ ToSet(p \o q) = ToSet(p) \cup ToSet(q)
      BY <3>11, ToSetConcat
    <3>13. g[T] \in Seq(S) /\ ToSet(g[T]) = {m} \cup R
      BY <3>9, <3>10, <3>11, <3>12
    <3> QED BY <3>3, <3>13 DEF Good
  <2> QED BY <2>1, <2>2 DEF N
<1> HIDE DEF N
<1>6. N = Nat
  <2>1. N \in SUBSET Nat
    BY DEF N
  <2> QED BY <1>4, <1>5, <2>1, Induction
<1>7. Cardinality(S) \in N
  BY <1>6, FS_CardinalityType
<1>8. Good(S)
  BY <1>7 DEF N
<1>9. Ordered(S) = g[S]
  BY OrderedIs DEF g
<1> QED BY <1>8, <1>9 DEF Good

IsFlattening(g, seqs) ==
    g = [i \in 1..Len(seqs) |-> IF i = 1 THEN seqs[i] ELSE g[i - 1] \o seqs[i]]

LEMMA FlattenIs ==
    \A seqs : FlattenSeq(seqs) = IF Len(seqs) = 0 THEN seqs ELSE (CHOOSE g : IsFlattening(g, seqs))[Len(seqs)]
BY DEF FlattenSeq, IsFlattening

Rows(seqs, X) == Len(seqs) \in Nat /\ \A i \in 1..Len(seqs) : seqs[i] \in Seq(X)

LEMMA FlatteningExists ==
    ASSUME NEW X, NEW seqs, Rows(seqs, X)
    PROVE  \E g : IsFlattening(g, seqs)
<1> DEFINE len == Len(seqs)
           D == [1..len -> Seq(X)]
           value(f, i) == IF i = 1 THEN seqs[i] ELSE f[i - 1] \o seqs[i]
           step == [f \in D |-> [i \in 1..len |-> value(f, i)]]
           base == [i \in 1..len |-> << >>]
<1>1. len \in Nat /\ \A i \in 1..len : seqs[i] \in Seq(X)
  BY DEF Rows
<1> HIDE DEF len
<1>2. base \in D
  OBVIOUS
<1>3. ASSUME NEW f \in D, NEW i \in 1..len PROVE value(f, i) \in Seq(X)
  <2>1. CASE i = 1
    BY <1>1, <2>1
  <2>2. CASE i # 1
    <3>1. i - 1 \in 1..len /\ seqs[i] \in Seq(X)
      BY <1>1, <2>2
    <3>2. f[i - 1] \in Seq(X)
      BY <3>1
    <3> QED BY <2>2, <3>1, <3>2, ConcatProperties
  <2> QED BY <2>1, <2>2
<1> HIDE DEF value
<1>4. step \in [D -> D]
  <2>1. \A f \in D : [i \in 1..len |-> value(f, i)] \in D
    BY <1>3
  <2> QED BY <2>1
<1>5. \A f \in D : \A i \in 1..len : step[f][i] = value(f, i)
  OBVIOUS
<1> HIDE DEF base, step, D
<1>10. \E F \in [Nat -> D] : F[0] = base /\ \A k \in Nat : F[k + 1] = step[F[k]]
  BY <1>2, <1>4, Iterates
<1>6. PICK F \in [Nat -> D] : F[0] = base /\ \A k \in Nat : F[k + 1] = step[F[k]]
  BY <1>10
<1> DEFINE g == [i \in 1..len |-> F[i][i]]
<1>7. ASSUME NEW i \in 1..len PROVE g[i] = IF i = 1 THEN seqs[i] ELSE g[i - 1] \o seqs[i]
  <2>1. i - 1 \in Nat /\ (i - 1) + 1 = i
    BY <1>1
  <2>2. F[i] = step[F[i - 1]] /\ F[i - 1] \in D
    <3>1. F[(i - 1) + 1] = step[F[i - 1]]
      BY <1>6, <2>1
    <3> QED BY <1>6, <2>1, <3>1
  <2>3. g[i] = value(F[i - 1], i)
    BY <1>5, <2>2
  <2>4. i # 1 => g[i - 1] = F[i - 1][i - 1]
    BY <1>1
  <2> QED BY <2>3, <2>4 DEF value
<1>8. g = [i \in 1..len |-> IF i = 1 THEN seqs[i] ELSE g[i - 1] \o seqs[i]]
  <2>1. g = [i \in 1..len |-> g[i]]
    OBVIOUS
  <2> HIDE DEF g
  <2> QED BY <1>7, <2>1
<1>9. IsFlattening(g, seqs)
  <2> HIDE DEF g
  <2> QED BY <1>8 DEF IsFlattening, len
<1> QED BY <1>9

LEMMA FlattenFacts ==
    ASSUME NEW X, NEW seqs \in Seq(Seq(X))
    PROVE  /\ FlattenSeq(seqs) \in Seq(X)
           /\ ToSet(FlattenSeq(seqs)) = UNION {ToSet(seqs[i]) : i \in DOMAIN seqs}
<1> DEFINE n == Len(seqs)
           g == CHOOSE g : IsFlattening(g, seqs)
<1>1. n \in Nat /\ DOMAIN seqs = 1..n /\ \A i \in 1..n : seqs[i] \in Seq(X)
  BY ElementOfSeq, LenProperties
<1>2. FlattenSeq(seqs) = IF n = 0 THEN seqs ELSE g[n]
  BY FlattenIs
<1>3. IsFlattening(g, seqs)
  BY <1>1, FlatteningExists DEF Rows
<1> HIDE DEF g, n
<1>4. CASE n = 0
  <2>1. seqs = << >>
    BY <1>4, EmptySeq DEF n
  <2>2. DOMAIN seqs = {}
    BY <1>1, <1>4
  <2>3. ToSet(<< >>) = {} /\ << >> \in Seq(X)
    BY DEF ToSet
  <2> QED BY <1>2, <1>4, <2>1, <2>2, <2>3
<1>5. CASE n # 0
  <2>1. \A i \in 1..n : g[i] = IF i = 1 THEN seqs[i] ELSE g[i - 1] \o seqs[i]
    BY <1>3 DEF IsFlattening, n
  <2> DEFINE Good(k) == g[k] \in Seq(X) /\ ToSet(g[k]) = UNION {ToSet(seqs[i]) : i \in 1..k}
             N == {k \in Nat : k + 1 <= n => Good(k + 1)}
  <2> HIDE DEF Good
  <2>2. 0 \in N
    <3>1. 1 \in 1..n /\ 1..1 = {1} /\ 0 + 1 = 1
      BY <1>1, <1>5
    <3>2. g[1] = seqs[1]
      BY <2>1, <3>1
    <3>3. Good(1)
      BY <1>1, <3>1, <3>2 DEF Good
    <3> QED BY <3>3
  <2>3. ASSUME NEW k \in N PROVE k + 1 \in N
    <3>1. k \in Nat /\ (k + 1 <= n => Good(k + 1))
      OBVIOUS
    <3> HIDE DEF N
    <3> DEFINE m == k + 1
    <3>2. ASSUME m + 1 <= n PROVE Good(m + 1)
      <4>1. m \in Nat /\ m + 1 \in 1..n /\ m + 1 # 1 /\ (m + 1) - 1 = m /\ m <= n
        BY <1>1, <3>1, <3>2
      <4>2. g[m + 1] = g[m] \o seqs[m + 1]
        BY <2>1, <4>1
      <4>3. g[m] \in Seq(X) /\ ToSet(g[m]) = UNION {ToSet(seqs[i]) : i \in 1..m}
        BY <3>1, <4>1 DEF Good
      <4>4. seqs[m + 1] \in Seq(X)
        BY <1>1, <4>1
      <4> HIDE DEF m
      <4>5. g[m + 1] \in Seq(X) /\ ToSet(g[m + 1]) = ToSet(g[m]) \cup ToSet(seqs[m + 1])
        BY <4>2, <4>3, <4>4, ToSetConcat
      <4>6. 1..(m + 1) = (1..m) \cup {m + 1}
        BY <4>1
      <4>7. ToSet(g[m + 1]) = UNION {ToSet(seqs[i]) : i \in 1..(m + 1)}
        <5>1. \A e : e \in UNION {ToSet(seqs[i]) : i \in 1..(m + 1)} <=> \E i \in 1..(m + 1) : e \in ToSet(seqs[i])
          OBVIOUS
        <5>2. \A e : e \in UNION {ToSet(seqs[i]) : i \in 1..m} <=> \E i \in 1..m : e \in ToSet(seqs[i])
          OBVIOUS
        <5> DEFINE A == UNION {ToSet(seqs[i]) : i \in 1..(m + 1)}
                   B == UNION {ToSet(seqs[i]) : i \in 1..m}
                   C == ToSet(seqs[m + 1])
        <5>3. \A e : e \in A <=> e \in B \/ e \in C
          BY <4>6, <5>1, <5>2
        <5>4. ToSet(g[m + 1]) = B \cup C
          BY <4>3, <4>5
        <5> HIDE DEF A, B, C
        <5>5. ToSet(g[m + 1]) = A
          BY <5>3, <5>4
        <5> QED BY <5>5 DEF A
      <4>9. g[m + 1] \in Seq(X)
        BY <4>5
      <4> QED BY <4>7, <4>9 DEF Good
    <3> QED BY <3>1, <3>2 DEF N
  <2> HIDE DEF N
  <2>4. N = Nat
    <3>1. N \in SUBSET Nat
      BY DEF N
    <3> QED BY <2>2, <2>3, <3>1, Induction
  <2>5. n - 1 \in Nat /\ (n - 1) + 1 = n
    BY <1>1, <1>5
  <2>6. Good(n)
    <3>1. n - 1 \in N
      BY <2>4, <2>5
    <3>2. (n - 1) + 1 <= n => Good((n - 1) + 1)
      BY <3>1 DEF N
    <3> QED BY <1>1, <2>5, <3>2
  <2> QED BY <1>1, <1>2, <1>5, <2>6 DEF Good
<1> QED BY <1>4, <1>5

Dead(c) == Solutions(c, CurrentView) = {}

KeepsLive(g, effs) ==
    g = [S \in SUBSET DOMAIN effs |->
            IF S = {} THEN << >>
            ELSE IF Dead(effs[Max(S)]) THEN g[S \ {Max(S)}]
            ELSE Append(g[S \ {Max(S)}], Confined(effs[Max(S)]))]

LEMMA PruneIs ==
    ASSUME NEW hs
    PROVE  PruneUnreachable(hs) = (CHOOSE g : KeepsLive(g, hs))[DOMAIN hs]
BY DEF PruneUnreachable, FoldLeft, MapThenFoldSet, KeepsLive, Dead

LEMMA PruneFacts ==
    ASSUME NEW C, NEW hs \in Seq(C)
    PROVE  /\ PruneUnreachable(hs) \in Seq({Confined(c) : c \in C})
           /\ ToSet(PruneUnreachable(hs)) = {Confined(c) : c \in {d \in ToSet(hs) : ~Dead(d)}}
<1> DEFINE effs == hs
           X == {Confined(c) : c \in C}
           n == Len(effs)
           step == [q \in (1..n) \X Seq(X) |-> IF Dead(effs[q[1]]) THEN q[2] ELSE Append(q[2], Confined(effs[q[1]]))]
           g == CHOOSE h_ : KeepsLive(h_, effs)
<1>1. n \in Nat /\ DOMAIN effs = 1..n /\ \A i \in 1..n : Confined(effs[i]) \in X
  <2>1. n \in Nat /\ DOMAIN effs = 1..n /\ \A i \in 1..n : effs[i] \in C
    BY ElementOfSeq, LenProperties
  <2> QED BY <2>1
<1>2. ToSet(effs) = {effs[i] : i \in 1..n}
  BY <1>1 DEF ToSet
<1> HIDE DEF effs, X, n
<1>3. << >> \in Seq(X)
  OBVIOUS
<1>4. step \in [(1..n) \X Seq(X) -> Seq(X)]
  <2> SUFFICES ASSUME NEW q \in (1..n) \X Seq(X) PROVE step[q] \in Seq(X)
    OBVIOUS
  <2>1. q[1] \in 1..n /\ q[2] \in Seq(X) /\ Confined(effs[q[1]]) \in X
    BY <1>1
  <2>2. Append(q[2], Confined(effs[q[1]])) \in Seq(X)
    BY <2>1, AppendProperties
  <2> QED BY <2>1, <2>2
<1>5. \A k \in 1..n : \A r \in Seq(X) : step[<<k, r>>] = IF Dead(effs[k]) THEN r ELSE Append(r, Confined(effs[k]))
  OBVIOUS
<1> HIDE DEF step
<1>6. PICK f \in [SUBSET (1..n) -> Seq(X)] : IsFold(f, n, << >>, step)
  BY <1>1, <1>3, <1>4, FoldExists
<1>7. KeepsLive(f, effs)
  <2>1. ASSUME NEW S \in SUBSET (1..n)
        PROVE  f[S] = IF S = {} THEN << >>
                      ELSE IF Dead(effs[Max(S)]) THEN f[S \ {Max(S)}]
                      ELSE Append(f[S \ {Max(S)}], Confined(effs[Max(S)]))
    <3>1. CASE S = {}
      BY <1>6, <3>1 DEF IsFold
    <3>2. CASE S # {}
      <4>1. Max(S) \in 1..n
        BY <1>1, <3>2, MaxFacts
      <4>2. f[S \ {Max(S)}] \in Seq(X)
        BY <1>6
      <4>3. f[S] = step[<<Max(S), f[S \ {Max(S)}]>>]
        BY <1>6, <3>2 DEF IsFold
      <4>4. step[<<Max(S), f[S \ {Max(S)}]>>] = IF Dead(effs[Max(S)]) THEN f[S \ {Max(S)}]
                                                ELSE Append(f[S \ {Max(S)}], Confined(effs[Max(S)]))
        BY <1>5, <4>1, <4>2
      <4> QED BY <3>2, <4>3, <4>4
    <3> QED BY <3>1, <3>2
  <2>2. f = [S \in SUBSET (1..n) |-> IF S = {} THEN << >>
                      ELSE IF Dead(effs[Max(S)]) THEN f[S \ {Max(S)}]
                      ELSE Append(f[S \ {Max(S)}], Confined(effs[Max(S)]))]
    BY <1>6, <2>1
  <2> QED BY <1>1, <2>2 DEF KeepsLive
<1>8. KeepsLive(g, effs)
  BY <1>7
<1> HIDE DEF g
<1>9. \A S \in SUBSET (1..n) :
         g[S] = IF S = {} THEN << >>
                ELSE IF Dead(effs[Max(S)]) THEN g[S \ {Max(S)}]
                ELSE Append(g[S \ {Max(S)}], Confined(effs[Max(S)]))
  BY <1>1, <1>8 DEF KeepsLive
<1> DEFINE Kept(k) == {Confined(effs[i]) : i \in {j \in 1..k : ~Dead(effs[j])}}
           Good(k) == g[1..k] \in Seq(X) /\ ToSet(g[1..k]) = Kept(k)
           N == {k \in Nat : k <= n => Good(k)}
<1> HIDE DEF Good
<1>10. 0 \in N
  <2>0. 1..0 = {}
    OBVIOUS
  <2>1. 1..0 = {} /\ g[1..0] = << >>
    <3>1. g[{}] = << >>
      BY <1>9
    <3> QED BY <2>0, <3>1
  <2>2. ToSet(<< >>) = {} /\ Kept(0) = {}
    BY <2>1 DEF ToSet
  <2> QED BY <1>3, <2>1, <2>2 DEF Good
<1>11. ASSUME NEW m \in N PROVE m + 1 \in N
  <2>1. m \in Nat /\ (m <= n => Good(m))
    BY <1>11
  <2> HIDE DEF N
  <2>2. ASSUME m + 1 <= n PROVE Good(m + 1)
    <3>0. m \in Nat /\ n \in Nat
      BY <1>1, <2>1
    <3>1. m + 1 \in 1..n /\ m <= n /\ (m + 1) - 1 = m /\ 1..(m + 1) # {}
      <4>1. m + 1 \in 1..n /\ m <= n /\ (m + 1) - 1 = m
        BY <2>2, <3>0
      <4>2. m + 1 \in 1..(m + 1)
        BY <3>0
      <4> QED BY <4>1, <4>2
    <3>2. Max(1..(m + 1)) = m + 1 /\ (1..(m + 1)) \ {Max(1..(m + 1))} = 1..m
      BY <1>1, <3>1, MaxOfPrefix
    <3>3. g[1..(m + 1)] = IF Dead(effs[m + 1]) THEN g[1..m] ELSE Append(g[1..m], Confined(effs[m + 1]))
      <4>1. 1..(m + 1) \in SUBSET (1..n)
        BY <1>1, <3>1
      <4> QED BY <1>9, <3>1, <3>2, <4>1
    <3>4. g[1..m] \in Seq(X) /\ ToSet(g[1..m]) = Kept(m)
      BY <2>1, <3>1 DEF Good
    <3>5. Confined(effs[m + 1]) \in X
      BY <1>1, <3>1
    <3>6. Kept(m + 1) = Kept(m) \cup (IF Dead(effs[m + 1]) THEN {} ELSE {Confined(effs[m + 1])})
      <4>1. \A i \in 1..(m + 1) : i \in 1..m \/ i = m + 1
        BY <2>1
      <4>2. 1..m \subseteq 1..(m + 1) /\ m + 1 \in 1..(m + 1)
        BY <2>1
      <4> QED BY <3>5, <4>1, <4>2
    <3>7. CASE Dead(effs[m + 1])
      BY <3>3, <3>4, <3>6, <3>7 DEF Good
    <3>8. CASE ~Dead(effs[m + 1])
      <4> DEFINE r == g[1..m]
                 q == Append(r, Confined(effs[m + 1]))
      <4>1. q \in Seq(X) /\ Len(q) = Len(r) + 1 /\ q[Len(r) + 1] = Confined(effs[m + 1])
            /\ \A i \in 1..Len(r) : q[i] = r[i]
        BY <3>4, <3>5, AppendProperties
      <4>2. DOMAIN r = 1..Len(r) /\ DOMAIN q = 1..Len(q) /\ Len(r) \in Nat
        BY <3>4, <4>1, LenProperties
      <4>3. ToSet(q) = ToSet(r) \cup {Confined(effs[m + 1])}
        <5> HIDE DEF q, r
        <5>1. \A i \in DOMAIN q : i \in DOMAIN r \/ i = Len(r) + 1
          BY <4>1, <4>2
        <5>2. DOMAIN r \subseteq DOMAIN q /\ Len(r) + 1 \in DOMAIN q
          BY <4>1, <4>2
        <5> QED BY <4>1, <4>2, <5>1, <5>2 DEF ToSet
      <4>4. g[1..(m + 1)] = q
        BY <3>3, <3>8
      <4> QED BY <3>4, <3>6, <3>8, <4>1, <4>3, <4>4 DEF Good
    <3> QED BY <3>7, <3>8
  <2> QED BY <2>1, <2>2 DEF N
<1> HIDE DEF N
<1>12. N = Nat
  <2>1. N \in SUBSET Nat
    BY DEF N
  <2> QED BY <1>10, <1>11, <2>1, Induction
<1>13. Good(n)
  <2>1. n \in N
    BY <1>1, <1>12
  <2> QED BY <1>1, <2>1 DEF N
<1>14. PruneUnreachable(hs) = g[1..n]
  BY <1>1, PruneIs DEF g, effs
<1>15. Kept(n) = {Confined(c) : c \in {d \in ToSet(effs) : ~Dead(d)}}
  BY <1>2
<1> QED BY <1>13, <1>14, <1>15 DEF Good, X, effs

-----------------------------------------------------------------------------
(***************************************************************************)
(* What a solution over the atoms of a state says of the state.            *)
(***************************************************************************)
\* The values of the parameters in a solution.
BindingIn(a, bound, x) == [p \in DOMAIN a.params |-> IF p \in DOMAIN bound THEN bound[p] ELSE x[Param(p)]]

LEMMA BindingTyped ==
    ASSUME NEW a, NEW bound, NEW conds, NEW effs, CSPOK(a, bound, conds, effs),
           NEW x \in Candidates(CSP(a, bound, conds, effs))
    PROVE  LET b == BindingIn(a, bound, x)
           IN  b \in Bindings(a.params) /\ \A p \in DOMAIN bound : b[p] = bound[p]
<1> DEFINE c == CSP(a, bound, conds, effs)
           b == BindingIn(a, bound, x)
<1>1. \A p \in DOMAIN a.params \ DOMAIN bound : Param(p) \in DOMAIN c.range /\ c.range[Param(p)] = ValuesOf(a.params, Param(p))
  BY CSPIs
<1>2. \A p : ValuesOf(a.params, Param(p)) = a.params[p]
  BY DEF ValuesOf, Param
<1>3. \A t \in DOMAIN c.range : x[t] \in c.range[t]
  BY CandidatesAre
<1>4. DOMAIN bound \subseteq DOMAIN a.params /\ \A p \in DOMAIN bound : bound[p] \in a.params[p]
  BY DEF CSPOK
<1>5. b = [p \in DOMAIN a.params |-> b[p]] /\ \A p \in DOMAIN a.params : b[p] = IF p \in DOMAIN bound THEN bound[p] ELSE x[Param(p)]
  BY DEF BindingIn
<1> HIDE DEF b, c
<1>6. \A p \in DOMAIN a.params : b[p] \in a.params[p]
  BY <1>1, <1>2, <1>3, <1>4, <1>5
<1>7. b \in Bindings(a.params)
  BY <1>5, <1>6, BindingFacts
<1> QED BY <1>4, <1>5, <1>7 DEF b

LEMMA StateReads ==
    ASSUME NEW a, NEW bound, NEW conds, NEW effs, CSPOK(a, bound, conds, effs), NEW s, StateOK(s),
           NEW x \in Candidates(CSP(a, bound, conds, effs)),
           \A e \in conds : Holds(CSP(a, bound, conds, effs), x, e),
           Reading(CSP(a, bound, conds, effs), x) \subseteq AtomsOf(s)
    PROVE  LET c == CSP(a, bound, conds, effs)
               b == BindingIn(a, bound, x)
           IN  /\ Interpreted(conds, s, b)
               /\ \A i \in DOMAIN effs : Produced(c, x, i) = <<VarOf(effs[i].lhs, s, b), Interpret(effs[i].rhs, s, b)>>
<1> DEFINE c == CSP(a, bound, conds, effs)
           T == TermsOf(conds, effs)
           b == BindingIn(a, bound, x)
<1>1. /\ Closed(a.params, T)
      /\ \A e \in conds : e.lhs \in T /\ e.rhs \in T /\ ~IsPredicate(e.rhs)
      /\ \A i \in DOMAIN effs : effs[i].rhs \in T /\ ~IsPredicate(effs[i].rhs)
      /\ \A i \in DOMAIN effs : ToSet(effs[i].lhs.sub) \subseteq T
  <2>1. TypedConds(a.params, conds) /\ \A i \in DOMAIN effs : TypedEffect(a.params, effs[i])
    BY DEF CSPOK
  <2> QED BY <2>1, TermsFacts
<1>2. b \in Bindings(a.params) /\ \A p \in DOMAIN bound : b[p] = bound[p]
  BY BindingTyped
<1>3. \A t \in T : IsFluent(t) =>
        /\ AtomIn(c, x, t) \in AtomsOf(s) /\ VarIn(c, x, t) \in Vars
        /\ AtomIn(c, x, t) = <<VarIn(c, x, t), IF IsPredicate(t) THEN 1 ELSE ValueIn(c, x, t)>>
  <2>1. Reading(c, x) = {AtomIn(c, x, t) : t \in {u \in T : IsFluent(u)}}
    BY ReadingIs
  <2>2. \A t \in T : IsFluent(t) => AtomIn(c, x, t) \in AtomsOf(s)
    BY <2>1
  <2>3. ASSUME NEW t \in T, IsFluent(t)
        PROVE  VarIn(c, x, t) \in Vars /\ AtomIn(c, x, t) = <<VarIn(c, x, t), IF IsPredicate(t) THEN 1 ELSE ValueIn(c, x, t)>>
    <3>1. LET atom == AtomIn(c, x, t)
          IN  /\ atom \in AllAtoms /\ atom[1] = VarIn(c, x, t) /\ atom[1] \in Vars /\ atom[1][1] = t.name
              /\ atom = <<atom[1], atom[2]>>
              /\ atom[2] = IF IsPredicate(t) THEN 1 ELSE ValueIn(c, x, t)
      BY <2>3, ReadAtoms
    <3> HIDE DEF c, T
    <3> QED BY <3>1
  <2> QED BY <2>2, <2>3
<1>4. c.bound = bound /\ c.effs = effs
  BY CSPIs
<1>5. \A p \in DOMAIN a.params : b[p] = IF p \in DOMAIN bound THEN bound[p] ELSE x[Param(p)]
  BY DEF BindingIn
<1>6. \A i \in DOMAIN effs : Typed(a.params, effs[i].lhs) /\ IsFluent(effs[i].lhs)
  BY DEF CSPOK, TypedEffect, TypedTerm, SubTerms
<1> DEFINE G == {t \in T : IsPredicate(t) \/ ValueIn(c, x, t) = Interpret(t, s, b)}
<1> HIDE DEF c, T, b
<1>7. ASSUME NEW t, Typed(a.params, t), IsFluent(t), ToSet(t.sub) \subseteq G
      PROVE  VarIn(c, x, t) = VarOf(t, s, b)
  <2>1. \A i \in DOMAIN t.sub : ~IsPredicate(t.sub[i])
    BY <1>7, KindFacts DEF IsFluent
  <2>2. \A i \in DOMAIN t.sub : t.sub[i] \in G
    BY <1>7 DEF ToSet
  <2>3. [i \in DOMAIN t.sub |-> ValueIn(c, x, t.sub[i])] = [i \in DOMAIN t.sub |-> Interpret(t.sub[i], s, b)]
    BY <2>1, <2>2
  <2> QED BY <2>3 DEF VarIn, VarOf
<1>8. ASSUME NEW t \in T, ToSet(t.sub) \subseteq G PROVE t \in G
  <2>1. Typed(a.params, t) /\ Depth2(t)
    BY <1>1 DEF Closed
  <2>2. Interpret(t, s, b) = IF IsFluent(t) THEN s[VarOf(t, s, b)] ELSE Flat(t, s, b)
    BY <2>1, InterpretUnfolds
  <2>3. CASE t.kind = "const"
    <3>1. ~IsFluent(t) /\ Flat(t, s, b) = t.val
      BY <2>3 DEF Flat, IsFluent
    <3>2. ValueIn(c, x, t) = t.val
      BY <2>3 DEF ValueIn
    <3> QED BY <2>2, <3>1, <3>2
  <2>4. CASE t.kind = "param"
    <3>1. t = Param(t.name) /\ t.name \in DOMAIN a.params /\ ~IsFluent(t)
      BY <2>1, <2>4, KindFacts
    <3>2. Flat(t, s, b) = b[t.name]
      BY <2>4 DEF Flat
    <3>3. CASE t.name \in DOMAIN bound
      <4>1. ValueIn(c, x, t) = bound[t.name]
        BY <1>4, <2>4, <3>3 DEF ValueIn, Constant
      <4> QED BY <1>2, <2>2, <3>1, <3>2, <3>3, <4>1
    <3>4. CASE t.name \notin DOMAIN bound
      <4>1. ValueIn(c, x, t) = x[t]
        BY <1>4, <2>4, <3>4 DEF ValueIn, Constant
      <4>2. b[t.name] = x[Param(t.name)]
        BY <1>5, <3>1, <3>4
      <4>3. ValueIn(c, x, t) = Interpret(t, s, b)
        BY <2>2, <3>1, <3>2, <4>1, <4>2
      <4> QED BY <4>3
    <3> QED BY <3>3, <3>4
  <2>5. CASE t.kind \notin {"const", "param"} /\ ~IsPredicate(t)
    <3> DEFINE v == VarOf(t, s, b)
    <3>1. IsFluent(t)
      BY <2>1, <2>5, KindFacts
    <3>2. VarIn(c, x, t) = v
      BY <1>7, <1>8, <2>1, <3>1
    <3>3. <<v, ValueIn(c, x, t)>> \in AtomsOf(s) /\ v \in Vars
      BY <1>3, <2>5, <3>1, <3>2
    <3> HIDE DEF v
    <3>4. s[v] = ValueIn(c, x, t)
      BY <3>3, StateAtoms
    <3>5. Interpret(t, s, b) = s[v]
      BY <2>2, <3>1 DEF v
    <3> QED BY <3>4, <3>5
  <2>6. CASE IsPredicate(t)
    BY <2>6
  <2> QED BY <2>3, <2>4, <2>5, <2>6
<1> HIDE DEF G
<1>9. T \subseteq G
  BY <1>1, <1>8, TermInduction
<1>10. \A t \in T : ~IsPredicate(t) => ValueIn(c, x, t) = Interpret(t, s, b)
  BY <1>9 DEF G
<1>11. ASSUME NEW e \in conds PROVE Compare(e.op, Interpret(e.lhs, s, b), Interpret(e.rhs, s, b))
  <2>1. e.lhs \in T /\ e.rhs \in T /\ ~IsPredicate(e.rhs)
    BY <1>1
  <2>2. CASE IsAtom(e)
    <3> DEFINE t == e.lhs
               v == VarOf(t, s, b)
    <3>1. IsPredicate(t) /\ IsFluent(t) /\ Typed(a.params, t) /\ Depth2(t)
      BY <1>1, <2>1, <2>2 DEF IsAtom, IsPredicate, Closed
    <3>2. VarIn(c, x, t) = v
      BY <1>1, <1>7, <1>9, <2>1, <3>1 DEF Closed
    <3>3. <<v, 1>> \in AtomsOf(s) /\ v \in Vars
      BY <1>3, <2>1, <3>1, <3>2
    <3>4. Interpret(t, s, b) = s[v]
      BY <3>1, InterpretUnfolds
    <3> HIDE DEF t, v
    <3>5. s[v] = 1
      BY <3>3, StateAtoms
    <3>6. e.op = "=" /\ e.rhs = Const(1)
      BY <2>2 DEF CSPOK, SupportedConds
    <3>7. Interpret(Const(1), s, b) = 1
      BY DEF Interpret, Const, IsFluent
    <3>8. Interpret(e.lhs, s, b) = 1 /\ Interpret(e.rhs, s, b) = 1
      BY <3>4, <3>5, <3>6, <3>7 DEF t
    <3> QED BY <3>6, <3>8 DEF Compare
  <2>3. CASE ~IsAtom(e)
    <3>1. ~IsPredicate(e.lhs)
      BY <2>3 DEF IsAtom
    <3>2. Compare(e.op, ValueIn(c, x, e.lhs), ValueIn(c, x, e.rhs))
      BY <2>3 DEF Holds, c
    <3> QED BY <1>10, <2>1, <3>1, <3>2
  <2> QED BY <2>2, <2>3
<1>12. ASSUME NEW i \in DOMAIN effs
       PROVE  Produced(c, x, i) = <<VarOf(effs[i].lhs, s, b), Interpret(effs[i].rhs, s, b)>>
  <2>1. VarIn(c, x, effs[i].lhs) = VarOf(effs[i].lhs, s, b)
    BY <1>1, <1>6, <1>7, <1>9
  <2>2. ValueIn(c, x, effs[i].rhs) = Interpret(effs[i].rhs, s, b)
    BY <1>1, <1>10
  <2> QED BY <1>4, <2>1, <2>2 DEF Produced
<1> QED BY <1>11, <1>12 DEF Interpreted, c, b

-----------------------------------------------------------------------------
(***************************************************************************)
(* Formulas: goals, and the state constraints.                             *)
(***************************************************************************)
FormulaOK(f) == SupportedConds(f.conds) /\ TypedConds(f.params, f.conds)
FormulaAction(f) == [name |-> "formula", params |-> f.params]

LEMMA FormulaCSPOK ==
    ASSUME NEW f, FormulaOK(f)
    PROVE  /\ CSPOK(FormulaAction(f), << >>, f.conds, << >>)
           /\ FormulaCSP(f) = CSP(FormulaAction(f), << >>, f.conds, << >>)
           /\ FormulaAction(f).params = f.params
<1>1. FormulaAction(f).params = f.params
  BY DEF FormulaAction
<1>2. DOMAIN << >> = {}
  OBVIOUS
<1>3. CSPOK(FormulaAction(f), << >>, f.conds, << >>)
  BY <1>1, <1>2 DEF CSPOK, FormulaOK
<1>4. FormulaCSP(f) = CSP(FormulaAction(f), << >>, f.conds, << >>)
  BY DEF FormulaCSP, FormulaAction
<1> QED BY <1>1, <1>3, <1>4

\* A formula is satisfied under some values of its parameters.
LEMMA SatisfiedIs ==
    ASSUME NEW f, FormulaOK(f), NEW s, StateOK(s)
    PROVE  (Solutions(FormulaCSP(f), ViewOf(AtomsOf(s))) # {}) <=> \E b \in Bindings(f.params) : Interpreted(f.conds, s, b)
<1> DEFINE a == FormulaAction(f)
           c == CSP(a, << >>, f.conds, << >>)
           view == ViewOf(AtomsOf(s))
<1>1. CSPOK(a, << >>, f.conds, << >>) /\ FormulaCSP(f) = c /\ a.params = f.params
  BY FormulaCSPOK
<1>2. AtomsOf(s) \in SUBSET AllAtoms
  BY AtomsTyped
<1> HIDE DEF a, c, view
<1>3. ASSUME NEW x \in Solutions(c, view) PROVE \E b \in Bindings(f.params) : Interpreted(f.conds, s, b)
  <2>1. x \in Solutions(c, view) <=> Meets(c, x) /\ Reading(c, x) \subseteq AtomsOf(s)
    BY <1>1, <1>2, SolutionsIn DEF c, view
  <2>2. x \in Candidates(c) /\ (\A e \in c.conds : Holds(c, x, e)) /\ Reading(c, x) \subseteq AtomsOf(s)
    BY <1>3, <2>1 DEF Meets
  <2>3. c.conds = f.conds
    BY CSPIs DEF c
  <2> DEFINE b == BindingIn(a, << >>, x)
  <2>4. b \in Bindings(a.params)
    BY <1>1, <2>2, BindingTyped DEF c
  <2>5. Interpreted(f.conds, s, b)
    BY <1>1, <2>2, <2>3, StateReads DEF c
  <2> QED BY <1>1, <2>4, <2>5
<1>4. ASSUME NEW b \in Bindings(f.params), Interpreted(f.conds, s, b) PROVE Solutions(c, view) # {}
  <2>1. b \in Bindings(a.params) /\ \A p \in DOMAIN << >> : << >>[p] = b[p]
    BY <1>1
  <2>2. \E x \in Candidates(c) :
           /\ NullaryTrue(c, view) /\ Consistent(c, x, view)
           /\ (\A i \in DOMAIN << >> : Interpret(<< >>[i].rhs, s, b) \in Values[<< >>[i].lhs.name]) => x \in Solutions(c, view)
           /\ \A i \in DOMAIN << >> : Produced(c, x, i) = <<VarOf(<< >>[i].lhs, s, b), Interpret(<< >>[i].rhs, s, b)>>
    BY <1>1, <1>4, <2>1, StateSolves DEF c, view
  <2>3. \A i \in DOMAIN << >> : FALSE
    OBVIOUS
  <2> QED BY <2>2, <2>3
<1> QED BY <1>1, <1>3, <1>4 DEF view

-----------------------------------------------------------------------------
(***************************************************************************)
(* Terms without parameters.                                               *)
(***************************************************************************)
LEMMA ClosedTerms ==
    ASSUME NEW T, Closed(<< >>, T), NEW params
    PROVE  /\ Closed(params, T)
           /\ \A t \in T : \A s, b, d : Interpret(t, s, b) = Interpret(t, s, d)
<1>0. DOMAIN << >> = {}
  OBVIOUS
<1>1. \A t \in T : Typed(<< >>, t) /\ Depth2(t) /\ ToSet(t.sub) \subseteq T
  BY DEF Closed
<1>2. \A t \in T : t.kind # "param"
  BY <1>0, <1>1, LeafFacts
<1>3. ASSUME NEW t \in T PROVE Typed(params, t)
  <2>1. CASE t.kind = "const"
    BY <1>1, <2>1 DEF Typed
  <2>2. CASE t.kind # "const"
    <3>1. \A i \in DOMAIN t.sub : t.sub[i].kind # "param"
      BY <1>1, <1>2 DEF ToSet
    <3>2. \A i \in DOMAIN t.sub : ValuesOf(params, t.sub[i]) = ValuesOf(<< >>, t.sub[i])
      BY <3>1 DEF ValuesOf
    <3>3. /\ t = Fluent(t.name, t.sub) /\ t.name \in Symbols /\ DOMAIN t.sub = 1..Arity[t.name]
          /\ \A i \in DOMAIN t.sub : ~IsPredicate(t.sub[i]) /\ ValuesOf(<< >>, t.sub[i]) \subseteq Objects
      BY <1>1, <1>2, <2>2 DEF Typed
    <3> QED BY <1>2, <2>2, <3>2, <3>3 DEF Typed
  <2> QED BY <2>1, <2>2
<1>4. Closed(params, T)
  BY <1>1, <1>3 DEF Closed
<1>5. ASSUME NEW s, NEW b, NEW d PROVE \A t \in T : Interpret(t, s, b) = Interpret(t, s, d)
  <2> DEFINE G == {t \in T : Interpret(t, s, b) = Interpret(t, s, d)}
  <2>1. ASSUME NEW t \in T, ToSet(t.sub) \subseteq G PROVE t \in G
    <3>1. Interpret(t, s, b) = IF IsFluent(t) THEN s[VarOf(t, s, b)] ELSE Flat(t, s, b)
      BY <1>1, InterpretUnfolds
    <3>2. Interpret(t, s, d) = IF IsFluent(t) THEN s[VarOf(t, s, d)] ELSE Flat(t, s, d)
      BY <1>1, InterpretUnfolds
    <3>3. Flat(t, s, b) = Flat(t, s, d)
      BY <1>2 DEF Flat
    <3>4. \A i \in DOMAIN t.sub : Interpret(t.sub[i], s, b) = Interpret(t.sub[i], s, d)
      BY <2>1 DEF ToSet
    <3>5. [i \in DOMAIN t.sub |-> Interpret(t.sub[i], s, b)] = [i \in DOMAIN t.sub |-> Interpret(t.sub[i], s, d)]
      BY <3>4
    <3>6. VarOf(t, s, b) = VarOf(t, s, d)
      BY <3>5 DEF VarOf
    <3> QED BY <3>1, <3>2, <3>3, <3>6
  <2> HIDE DEF G
  <2>2. T \subseteq G
    BY <2>1, TermInduction
  <2> QED BY <2>2 DEF G
<1> QED BY <1>4, <1>5

\* The state constraints may be added to any formula.
LEMMA ConstraintsAnywhere ==
    ASSUME NEW conds, TypedConds(<< >>, conds), NEW params
    PROVE  /\ TypedConds(params, conds)
           /\ \A s, b, d : Interpreted(conds, s, b) => Interpreted(conds, s, d)
<1>1. \A c \in conds : TypedTerm(<< >>, c.lhs) /\ TypedTerm(<< >>, c.rhs) /\ ~IsPredicate(c.rhs)
  BY DEF TypedConds
<1>2. ASSUME NEW t, TypedTerm(<< >>, t)
      PROVE  TypedTerm(params, t) /\ \A s, b, d : Interpret(t, s, b) = Interpret(t, s, d)
  <2>1. Closed(<< >>, SubTerms(t)) /\ t \in SubTerms(t)
    BY <1>2, TypedTermFacts
  <2>2. Closed(params, SubTerms(t)) /\ \A u \in SubTerms(t) : \A s, b, d : Interpret(u, s, b) = Interpret(u, s, d)
    BY <2>1, ClosedTerms
  <2>3. TypedTerm(params, t)
    BY <1>2, <2>2 DEF TypedTerm, Closed
  <2> QED BY <2>1, <2>2, <2>3
<1>3. TypedConds(params, conds)
  BY <1>1, <1>2 DEF TypedConds
<1>4. \A s, b, d : Interpreted(conds, s, b) => Interpreted(conds, s, d)
  <2> SUFFICES ASSUME NEW s, NEW b, NEW d, Interpreted(conds, s, b), NEW c \in conds
               PROVE  Compare(c.op, Interpret(c.lhs, s, d), Interpret(c.rhs, s, d))
    BY DEF Interpreted
  <2>1. Interpret(c.lhs, s, b) = Interpret(c.lhs, s, d) /\ Interpret(c.rhs, s, b) = Interpret(c.rhs, s, d)
    BY <1>1, <1>2
  <2>2. Compare(c.op, Interpret(c.lhs, s, b), Interpret(c.rhs, s, b))
    BY DEF Interpreted
  <2> QED BY <2>1, <2>2
<1> QED BY <1>3, <1>4

\* A state that satisfies the constraints and the goal solves the goal CSP.
GoalFormula(t) == [params |-> t.goal.params, conds |-> t.goal.conds \cup t.constraints]
ConstraintFormula(t) == [params |-> << >>, conds |-> t.constraints]

FormulasOK(t) ==
    /\ t.goal = [params |-> t.goal.params, conds |-> t.goal.conds]
    /\ FormulaOK(t.goal) /\ FormulaOK(ConstraintFormula(t))

LEMMA GoalFormulaOK ==
    ASSUME NEW t, FormulasOK(t)
    PROVE  /\ FormulaOK(GoalFormula(t))
           /\ [t.goal EXCEPT !.conds = @ \cup t.constraints] = GoalFormula(t)
<1>1. /\ SupportedConds(t.goal.conds) /\ TypedConds(t.goal.params, t.goal.conds)
      /\ SupportedConds(t.constraints) /\ TypedConds(<< >>, t.constraints)
  BY DEF FormulasOK, FormulaOK, ConstraintFormula
<1>2. TypedConds(t.goal.params, t.constraints)
  BY <1>1, ConstraintsAnywhere
<1>3. FormulaOK(GoalFormula(t))
  BY <1>1, <1>2 DEF FormulaOK, GoalFormula, SupportedConds, TypedConds
<1>4. t.goal = [params |-> t.goal.params, conds |-> t.goal.conds]
  BY DEF FormulasOK
<1> DEFINE P == t.goal.params
           C == t.goal.conds
           g == t.goal
<1>5. g = [params |-> P, conds |-> C] => [g EXCEPT !.conds = @ \cup t.constraints] = [params |-> P, conds |-> C \cup t.constraints]
  <2> HIDE DEF P, C, g
  <2> SUFFICES ASSUME g = [params |-> P, conds |-> C]
               PROVE  [g EXCEPT !.conds = @ \cup t.constraints] = [params |-> P, conds |-> C \cup t.constraints]
    OBVIOUS
  <2> QED OBVIOUS
<1> QED BY <1>3, <1>4, <1>5 DEF GoalFormula

LEMMA GoalStates ==
    ASSUME NEW t, FormulasOK(t), NEW s, StateOK(s), Satisfied(t.goal, s),
           Solutions(FormulaCSP(ConstraintFormula(t)), ViewOf(AtomsOf(s))) # {}
    PROVE  Solutions(FormulaCSP(GoalFormula(t)), ViewOf(AtomsOf(s))) # {}
<1>1. FormulaOK(t.goal) /\ FormulaOK(ConstraintFormula(t)) /\ FormulaOK(GoalFormula(t))
  BY GoalFormulaOK DEF FormulasOK
<1>2. PICK b \in Bindings(t.goal.params) : Interpreted(t.goal.conds, s, b)
  BY <1>1, SatisfiedIs DEF Satisfied
<1>3. PICK d \in Bindings(ConstraintFormula(t).params) : Interpreted(ConstraintFormula(t).conds, s, d)
  BY <1>1, SatisfiedIs
<1>4. ConstraintFormula(t).conds = t.constraints /\ TypedConds(<< >>, t.constraints)
  BY <1>1 DEF FormulaOK, ConstraintFormula
<1>5. Interpreted(t.constraints, s, b)
  BY <1>3, <1>4, ConstraintsAnywhere
<1>6. GoalFormula(t).params = t.goal.params /\ GoalFormula(t).conds = t.goal.conds \cup t.constraints
  BY DEF GoalFormula
<1>7. Interpreted(GoalFormula(t).conds, s, b)
  BY <1>2, <1>5, <1>6 DEF Interpreted
<1> QED BY <1>1, <1>6, <1>7, SatisfiedIs

-----------------------------------------------------------------------------
(***************************************************************************)
(* Typed CSPs, and those that add atoms: the handlers.                     *)
(***************************************************************************)
IsCSP(c) == \E a, bound, conds, effs : c = CSP(a, bound, conds, effs) /\ CSPOK(a, bound, conds, effs)

AddsOnly(c) == \A i \in DOMAIN c.effs : IsPredicate(c.effs[i].lhs) => c.effs[i].rhs = Const(1)

IsHandler(c) == IsCSP(c) /\ AddsOnly(c)

\* The solutions over a set of atoms, and in a view that shows S and N to a
\* CSP that is confined to F.
LEMMA CSPFacts ==
    ASSUME NEW c, IsCSP(c)
    PROVE  /\ \A A \in SUBSET AllAtoms : \A x : x \in Solutions(c, ViewOf(A)) <=> Meets(c, x) /\ Reading(c, x) \subseteq A
           /\ \A F, view, S, N : Sees(c, view, S, N) =>
                 \A x : x \in Solutions(Within(c, F), view) <=>
                          /\ Meets(c, x)
                          /\ \A t \in c.nullary : AtomIn(c, x, t) \in N
                          /\ \A t \in c.looked : AtomIn(c, x, t) \in S \cap F
           /\ \A x \in Candidates(c) : Reading(c, x) \subseteq AllAtoms
           /\ Within(c, AllAtoms) = c
<1>1. PICK a, bound, conds, effs : c = CSP(a, bound, conds, effs) /\ CSPOK(a, bound, conds, effs)
  BY DEF IsCSP
<1>2. \A A \in SUBSET AllAtoms : \A x : x \in Solutions(c, ViewOf(A)) <=> Meets(c, x) /\ Reading(c, x) \subseteq A
  BY <1>1, SolutionsIn
<1>3. \A F, view, S, N : Sees(c, view, S, N) =>
                 \A x : x \in Solutions(Within(c, F), view) <=>
                          /\ Meets(c, x)
                          /\ \A t \in c.nullary : AtomIn(c, x, t) \in N
                          /\ \A t \in c.looked : AtomIn(c, x, t) \in S \cap F
  <2> SUFFICES ASSUME NEW F, NEW view, NEW S, NEW N, Sees(c, view, S, N), NEW x
               PROVE  x \in Solutions(Within(c, F), view) <=>
                          /\ Meets(c, x)
                          /\ \A t \in c.nullary : AtomIn(c, x, t) \in N
                          /\ \A t \in c.looked : AtomIn(c, x, t) \in S \cap F
    OBVIOUS
  <2>1. Sees(CSP(a, bound, conds, effs), view, S, N)
    BY <1>1
  <2>2. LET d == CSP(a, bound, conds, effs)
        IN  x \in Solutions(Within(d, F), view) <=>
                          /\ Meets(d, x)
                          /\ \A t \in d.nullary : AtomIn(d, x, t) \in N
                          /\ \A t \in d.looked : AtomIn(d, x, t) \in S \cap F
    BY <1>1, <2>1, SolutionsSeen
  <2> QED BY <1>1, <2>2
<1>4. ASSUME NEW x \in Candidates(c) PROVE Reading(c, x) \subseteq AllAtoms
  <2>1. Reading(c, x) = {AtomIn(c, x, t) : t \in {u \in TermsOf(conds, effs) : IsFluent(u)}}
    BY <1>1, ReadingIs
  <2>2. \A t \in TermsOf(conds, effs) : IsFluent(t) => AtomIn(c, x, t) \in AllAtoms
    <3> SUFFICES ASSUME NEW t \in TermsOf(conds, effs), IsFluent(t) PROVE AtomIn(c, x, t) \in AllAtoms
      OBVIOUS
    <3>1. x \in Candidates(CSP(a, bound, conds, effs))
      BY <1>1
    <3>2. AtomIn(CSP(a, bound, conds, effs), x, t) \in AllAtoms
      BY <1>1, <3>1, ReadAtoms
    <3> QED BY <1>1, <3>2
  <2> QED BY <2>1, <2>2
<1>5. Within(c, AllAtoms) = c
  BY <1>1, WithinIs
<1> QED BY <1>2, <1>3, <1>4, <1>5

\* What is confined is still the same CSP otherwise.
LEMMA ConfinedFacts ==
    ASSUME NEW c, IsCSP(c), NEW F
    PROVE  LET d == Within(c, F)
           IN  /\ d.action = c.action /\ d.bound = c.bound /\ d.conds = c.conds /\ d.effs = c.effs
               /\ d.nullary = c.nullary /\ d.range = c.range
               /\ \A x : ActionOf(d, x) = ActionOf(c, x)
               /\ \A x, t : VarIn(d, x, t) = VarIn(c, x, t)
               /\ \A x, i : Produced(d, x, i) = Produced(c, x, i)
               /\ \A x, i : EffectSupport(d, x, i) = EffectSupport(c, x, i)
               /\ \A x, i : RecordedSupports(d, x, i) = RecordedSupports(c, x, i)
               /\ \A G : Within(d, G) = Within(c, G)
<1> DEFINE d == Within(c, F)
<1>1. PICK a, bound, conds, effs : c = CSP(a, bound, conds, effs) /\ CSPOK(a, bound, conds, effs)
  BY DEF IsCSP
<1>2. /\ d.action = c.action /\ d.bound = c.bound /\ d.conds = c.conds /\ d.effs = c.effs
      /\ d.nullary = c.nullary /\ d.looked = c.looked /\ d.direct = c.direct /\ d.range = c.range
  BY <1>1, WithinIs
<1>3. \A G : Within(d, G) = Within(c, G)
  BY DEF Within
<1> HIDE DEF d
<1>4. \A x : ActionOf(d, x) = ActionOf(c, x)
  BY <1>2 DEF ActionOf
<1>5. \A t : Constant(d.bound, t) = Constant(c.bound, t)
  BY <1>2
<1>6. \A x, t : ValueIn(d, x, t) = ValueIn(c, x, t)
  BY <1>2 DEF ValueIn
<1>7. \A x, t : VarIn(d, x, t) = VarIn(c, x, t)
  <2> SUFFICES ASSUME NEW x, NEW t PROVE VarIn(d, x, t) = VarIn(c, x, t)
    OBVIOUS
  <2>1. [i \in DOMAIN t.sub |-> ValueIn(d, x, t.sub[i])] = [i \in DOMAIN t.sub |-> ValueIn(c, x, t.sub[i])]
    BY <1>6
  <2> QED BY <2>1 DEF VarIn
<1>8. \A x, t : AtomIn(d, x, t) = AtomIn(c, x, t)
  BY <1>7 DEF AtomIn
<1>9. \A x, i : Produced(d, x, i) = Produced(c, x, i)
  BY <1>2, <1>6, <1>7 DEF Produced
<1>11. \A x, terms : Support(d, x, terms) = Support(c, x, terms)
  BY <1>8 DEF Support
<1>10. \A x, i : EffectSupport(d, x, i) = EffectSupport(c, x, i)
  BY <1>2, <1>11 DEF EffectSupport
<1>12. \A x, i : RecordedSupports(d, x, i) = RecordedSupports(c, x, i)
  BY <1>2, <1>11 DEF RecordedSupports
<1> QED BY <1>2, <1>3, <1>4, <1>7, <1>9, <1>10, <1>12 DEF d

\* What BaseActionCSP records of the support of an effect is part of it.
LEMMA OneOfEachFacts ==
    ASSUME NEW S, NEW R \in OneOfEach(S)
    PROVE  R \subseteq S /\ \A a \in S : (\A b \in S : b[1] = a[1] => b = a) => a \in R
<1> DEFINE V == {a[1] : a \in S}
<1>1. PICK f \in [V -> S] : (\A v \in V : f[v][1] = v) /\ R = {f[v] : v \in V}
  BY DEF OneOfEach
<1>2. \A a \in S : a[1] \in V
  OBVIOUS
<1> HIDE DEF V
<1>3. ASSUME NEW a \in S, \A b \in S : b[1] = a[1] => b = a PROVE a \in R
  <2>1. f[a[1]] \in S /\ f[a[1]][1] = a[1] /\ f[a[1]] \in R
    BY <1>1, <1>2
  <2> QED BY <1>3, <2>1
<1> QED BY <1>1, <1>3

LEMMA RecordedFacts ==
    ASSUME NEW c, NEW x, NEW i, NEW R \in RecordedSupports(c, x, i)
    PROVE  LET terms == {t \in CondTerms(c.conds) \cup EffectTerms(c.effs[i]) : IsFluent(t)}
           IN  /\ R \subseteq EffectSupport(c, x, i)
               /\ (\A t, u \in terms \ c.direct : ~IsPredicate(t) /\ ~IsPredicate(u) /\ t.name = u.name => t = u)
                     => R = EffectSupport(c, x, i)
<1> DEFINE terms == {t \in CondTerms(c.conds) \cup EffectTerms(c.effs[i]) : IsFluent(t)}
           D == Support(c, x, terms \cap c.direct)
           S == Support(c, x, terms \ c.direct)
<1>1. PICK N \in OneOfEach(S) : R = D \cup N
  BY DEF RecordedSupports
<1> HIDE DEF S
<1>2. N \subseteq S /\ \A a \in S : (\A b \in S : b[1] = a[1] => b = a) => a \in N
  BY OneOfEachFacts
<1>3. EffectSupport(c, x, i) = D \cup S
  BY DEF EffectSupport, Support, S
<1>4. ASSUME \A t, u \in terms \ c.direct : ~IsPredicate(t) /\ ~IsPredicate(u) /\ t.name = u.name => t = u,
             NEW a \in S, NEW b \in S, b[1] = a[1]
      PROVE  b = a
  <2>1. PICK t \in terms \ c.direct : a = AtomIn(c, x, t)
    BY DEF Support, S
  <2>2. PICK u \in terms \ c.direct : b = AtomIn(c, x, u)
    BY DEF Support, S
  <2>3. IsFluent(t) /\ IsFluent(u)
    OBVIOUS
  <2>4. VarIn(c, x, t) = VarIn(c, x, u)
    BY <1>4, <2>1, <2>2 DEF AtomIn
  <2>5. t.name = u.name
    BY <2>4 DEF VarIn
  <2> HIDE DEF terms
  <2>6. CASE IsPredicate(t)
    <3>1. IsPredicate(u)
      BY <2>3, <2>5, <2>6 DEF IsPredicate
    <3> QED BY <2>1, <2>2, <2>4, <2>6, <3>1 DEF AtomIn
  <2>7. CASE ~IsPredicate(t)
    <3>1. ~IsPredicate(u)
      BY <2>3, <2>5, <2>7 DEF IsPredicate
    <3>2. t = u
      BY <1>4, <2>5, <2>7, <3>1
    <3> QED BY <2>1, <2>2, <3>2
  <2> QED BY <2>6, <2>7
<1> HIDE DEF D
<1>5. R \subseteq EffectSupport(c, x, i)
  BY <1>1, <1>2, <1>3
<1>6. (\A t, u \in terms \ c.direct : ~IsPredicate(t) /\ ~IsPredicate(u) /\ t.name = u.name => t = u)
         => R = EffectSupport(c, x, i)
  BY <1>1, <1>2, <1>3, <1>4
<1> QED BY <1>5, <1>6

\* What an effect reads, and what it produces.
LEMMA HandlerFacts ==
    ASSUME NEW c, IsHandler(c), NEW x, Meets(c, x), NEW i \in DOMAIN c.effs
    PROVE  /\ Produced(c, x, i) \in AllAtoms /\ Produced(c, x, i) = <<Produced(c, x, i)[1], Produced(c, x, i)[2]>>
           /\ EffectSupport(c, x, i) \subseteq Reading(c, x)
           /\ DOMAIN c.effs = {i} => EffectSupport(c, x, i) = Reading(c, x)
<1>1. PICK a, bound, conds, effs : c = CSP(a, bound, conds, effs) /\ CSPOK(a, bound, conds, effs)
  BY DEF IsHandler, IsCSP
<1>2. c.conds = conds /\ c.effs = effs
  BY <1>1, CSPIs
<1>3. Reading(c, x) = {AtomIn(c, x, t) : t \in {u \in TermsOf(conds, effs) : IsFluent(u)}}
  BY <1>1, ReadingIs
<1>4. EffectSupport(c, x, i) = {AtomIn(c, x, t) : t \in {u \in CondTerms(conds) \cup EffectTerms(effs[i]) : IsFluent(u)}}
  BY <1>2 DEF EffectSupport, Support
<1>5. CondTerms(conds) \cup EffectTerms(effs[i]) \subseteq TermsOf(conds, effs)
  BY <1>2 DEF TermsOf
<1>6. DOMAIN c.effs = {i} => CondTerms(conds) \cup EffectTerms(effs[i]) = TermsOf(conds, effs)
  BY <1>2 DEF TermsOf
<1>7. x \in Candidates(c) /\ InBounds(c, x)
  BY DEF Meets
<1>8. VarIn(c, x, effs[i].lhs) \in Vars /\ VarIn(c, x, effs[i].lhs)[1] = effs[i].lhs.name
  <2>1. x \in Candidates(CSP(a, bound, conds, effs)) /\ i \in DOMAIN effs
    BY <1>1, <1>2, <1>7
  <2>2. VarIn(CSP(a, bound, conds, effs), x, effs[i].lhs) \in Vars
        /\ VarIn(CSP(a, bound, conds, effs), x, effs[i].lhs)[1] = effs[i].lhs.name
    BY <1>1, <2>1, CandidateTyped
  <2> QED BY <1>1, <2>2
<1> DEFINE v == VarIn(c, x, effs[i].lhs)
           n == ValueIn(c, x, effs[i].rhs)
<1>9. n \in Values[effs[i].lhs.name]
  BY <1>2, <1>7 DEF InBounds
<1>10. effs[i].lhs.name \in Predicates => n # 0
  <2> SUFFICES ASSUME effs[i].lhs.name \in Predicates PROVE n # 0
    OBVIOUS
  <2>1. IsPredicate(effs[i].lhs)
    BY <1>1, <1>2 DEF CSPOK, TypedEffect, IsPredicate
  <2>2. effs[i].rhs = Const(1)
    BY <1>2, <2>1 DEF IsHandler, AddsOnly
  <2>3. Const(1).kind = "const" /\ Const(1).val = 1
    BY DEF Const
  <2>4. n = 1
    BY <2>2, <2>3 DEF ValueIn
  <2> QED BY <2>4
<1>11. Produced(c, x, i) = <<v, n>>
  BY <1>2 DEF Produced
<1> HIDE DEF v, n
<1>12. <<v, n>> \in AllAtoms
  BY <1>8, <1>9, <1>10, AtomFacts DEF v
<1> QED BY <1>3, <1>4, <1>5, <1>6, <1>11, <1>12

\* More atoms derive more.
LEMMA DerivedFacts ==
    ASSUME NEW H, \A c \in H : IsHandler(c), NEW A \in SUBSET AllAtoms
    PROVE  /\ Derived(H, A) \in SUBSET AllAtoms /\ A \subseteq Derived(H, A)
           /\ \A B \in SUBSET AllAtoms : A \subseteq B => Derived(H, A) \subseteq Derived(H, B)
           /\ \A c \in H : \A x : \A i \in DOMAIN c.effs :
                 Meets(c, x) /\ Reading(c, x) \subseteq A => Produced(c, x, i) \in Derived(H, A)
           /\ \A p \in Derived(H, A) : p \in A \/ \E c \in H : \E x : \E i \in DOMAIN c.effs :
                 Meets(c, x) /\ Reading(c, x) \subseteq A /\ p = Produced(c, x, i)
<1>1. \A B \in SUBSET AllAtoms : \A p : p \in Derived(H, B) <=>
         p \in B \/ \E c \in H : \E x \in Solutions(c, ViewOf(B)) : \E i \in DOMAIN c.effs : p = Produced(c, x, i)
  BY DEF Derived
<1>2. \A B \in SUBSET AllAtoms : \A c \in H : \A x : x \in Solutions(c, ViewOf(B)) <=> Meets(c, x) /\ Reading(c, x) \subseteq B
  BY CSPFacts DEF IsHandler
<1>3. \A B \in SUBSET AllAtoms : \A p : p \in Derived(H, B) <=>
         p \in B \/ \E c \in H : \E x : \E i \in DOMAIN c.effs : Meets(c, x) /\ Reading(c, x) \subseteq B /\ p = Produced(c, x, i)
  BY <1>1, <1>2
<1>4. \A c \in H : \A x : \A i \in DOMAIN c.effs : Meets(c, x) => Produced(c, x, i) \in AllAtoms
  BY HandlerFacts
<1>5. \A p \in Derived(H, A) : p \in A \/ \E c \in H : \E x : \E i \in DOMAIN c.effs :
                 Meets(c, x) /\ Reading(c, x) \subseteq A /\ p = Produced(c, x, i)
  BY <1>3
<1>6. Derived(H, A) \in SUBSET AllAtoms
  BY <1>4, <1>5
<1>7. A \subseteq Derived(H, A)
  BY <1>3
<1>8. \A B \in SUBSET AllAtoms : A \subseteq B => Derived(H, A) \subseteq Derived(H, B)
  <2> SUFFICES ASSUME NEW B \in SUBSET AllAtoms, A \subseteq B, NEW p \in Derived(H, A) PROVE p \in Derived(H, B)
    OBVIOUS
  <2>1. CASE p \in A
    BY <1>3, <2>1
  <2>2. CASE p \notin A
    <3>1. PICK c \in H : \E x : \E i \in DOMAIN c.effs : Meets(c, x) /\ Reading(c, x) \subseteq A /\ p = Produced(c, x, i)
      BY <1>5, <2>2
    <3>2. PICK x : \E i \in DOMAIN c.effs : Meets(c, x) /\ Reading(c, x) \subseteq A /\ p = Produced(c, x, i)
      BY <3>1
    <3>3. PICK i \in DOMAIN c.effs : Meets(c, x) /\ Reading(c, x) \subseteq A /\ p = Produced(c, x, i)
      BY <3>2
    <3>4. Reading(c, x) \subseteq B
      BY <3>3
    <3> QED BY <1>3, <3>3, <3>4
  <2> QED BY <2>1, <2>2
<1>9. \A c \in H : \A x : \A i \in DOMAIN c.effs :
                 Meets(c, x) /\ Reading(c, x) \subseteq A => Produced(c, x, i) \in Derived(H, A)
  BY <1>3
<1> QED BY <1>5, <1>6, <1>7, <1>8, <1>9
=============================================================================
