------------------------ MODULE PlanningTask_proofs -------------------------
(***************************************************************************)
(* Facts about plans and trajectories that hold for every planning task:   *)
(* which plans solve it, and that the solvable states are exactly those    *)
(* with a plan.                                                            *)
(*                                                                         *)
(* Trajectories and solvable states are defined by recursion.  Induction is*)
(* carried out on a set of numbers, the numbers for which the claim holds. *)
(***************************************************************************)
EXTENDS PlanningTask, TLAPS, FiniteSetTheorems, SequenceTheorems, WellFoundedInduction

-----------------------------------------------------------------------------
(* Induction and recursion over the natural numbers *)

LEMMA Induction ==
    ASSUME NEW N \in SUBSET Nat, 0 \in N, \A n \in N : n + 1 \in N
    PROVE  N = Nat
<1> DEFINE T == Nat \ N
<1> SUFFICES ASSUME T # {} PROVE FALSE
  OBVIOUS
<1>1. \E x \in T : \A y \in T : ~ (<<y, x>> \in OpToRel(<, Nat))
  <2>1. T \subseteq Nat
    OBVIOUS
  <2> HIDE DEF T
  <2> QED BY <2>1, NatLessThanWellFounded, WFMin
<1>2. PICK x \in T : \A y \in T : ~ (<<y, x>> \in OpToRel(<, Nat))
  BY <1>1
<1>3. \A y \in T : ~ (y < x)
  BY <1>2 DEF OpToRel
<1>4. x \in Nat /\ x \notin N /\ x # 0 /\ x - 1 \in Nat
  OBVIOUS
<1>5. x - 1 \in N
  BY <1>3, <1>4
<1>6. (x - 1) + 1 \in N
  BY <1>5
<1> QED BY <1>4, <1>6

Iterates(f, x, step, n) == f[0] = x /\ \A i \in 1..n : f[i] = step[i][f[i-1]]

\* A function defined by recursion up to n exists, if the step is a function.
LEMMA Recursion ==
    ASSUME NEW X, NEW x \in X, NEW step \in [Nat -> [X -> X]], NEW n \in Nat
    PROVE  \E f \in [0..n -> X] : Iterates(f, x, step, n)
<1> DEFINE N == {m \in Nat : \E f \in [0..m -> X] : Iterates(f, x, step, m)}
<1>1. 0 \in N
  <2> DEFINE f == [i \in 0..0 |-> x]
  <2>1. f \in [0..0 -> X] /\ Iterates(f, x, step, 0)
    BY DEF Iterates
  <2> QED BY <2>1
<1>2. ASSUME NEW m \in N PROVE m + 1 \in N
  <2>1. PICK f \in [0..m -> X] : Iterates(f, x, step, m)
    OBVIOUS
  <2> DEFINE g == [i \in 0..(m+1) |-> IF i = m + 1 THEN step[i][f[m]] ELSE f[i]]
  <2>2. m \in Nat /\ f[m] \in X
    OBVIOUS
  <2>3. f[0] = x /\ \A i \in 1..m : f[i] = step[i][f[i-1]]
    BY <2>1 DEF Iterates
  <2> HIDE DEF N
  <2>4. g \in [0..(m+1) -> X]
    BY <2>2
  <2>5. g[0] = x
    BY <2>2, <2>3
  <2>6. ASSUME NEW i \in 1..(m+1) PROVE g[i] = step[i][g[i-1]]
    <3>1. CASE i = m + 1
      <4>1. i - 1 = m /\ m \in 0..(m+1) /\ m # m + 1
        BY <2>2, <3>1
      <4> QED BY <3>1, <4>1
    <3>2. CASE i # m + 1
      <4>1. i \in 1..m /\ i - 1 \in 0..(m+1) /\ i - 1 # m + 1
        BY <2>2, <3>2
      <4> QED BY <2>3, <3>2, <4>1
    <3> QED BY <3>1, <3>2
  <2>7. \E h \in [0..(m+1) -> X] : Iterates(h, x, step, m+1)
    <3> HIDE DEF g
    <3> QED BY <2>4, <2>5, <2>6 DEF Iterates
  <2> HIDE DEF g
  <2> QED BY <2>2, <2>7 DEF N
<1>3. N = Nat
  <2> HIDE DEF N
  <2>1. N \in SUBSET Nat
    BY DEF N
  <2> QED BY <1>1, <1>2, <2>1, Induction
<1> QED BY <1>3

\* Values passed down a forest whose parents (0: none) have smaller numbers.
PassedDown(f, n, par, base, step) ==
    \A i \in 1..n : f[i] = IF par[i] = 0 THEN base[i] ELSE step[i][f[par[i]]]

\* A function defined by recursion along the parents exists.
LEMMA ParentRecursion ==
    ASSUME NEW X, NEW n \in Nat, NEW par \in [1..n -> Nat], NEW base \in [1..n -> X],
           NEW step \in [1..n -> [X -> X]], \A i \in 1..n : par[i] < i
    PROVE  \E f \in [1..n -> X] : PassedDown(f, n, par, base, step)
<1> DEFINE At(f, i) == IF par[i] = 0 THEN base[i] ELSE step[i][f[par[i]]]
           Up(f, k) == \A i \in 1..n : i <= k => f[i] = At(f, i)
           N == {k \in Nat : \E f \in [1..n -> X] : Up(f, k)}
<1>1. 0 \in N
  <2>1. Up(base, 0)
    OBVIOUS
  <2> QED BY <2>1
<1>2. ASSUME NEW k \in N PROVE k + 1 \in N
  <2>1. PICK f \in [1..n -> X] : Up(f, k)
    OBVIOUS
  <2> DEFINE g == [i \in 1..n |-> At(f, i)]
  <2>2. \A i \in 1..n : par[i] # 0 => par[i] \in 1..n
    OBVIOUS
  <2>3. g \in [1..n -> X]
    <3>1. ASSUME NEW i \in 1..n PROVE At(f, i) \in X
      BY <2>2
    <3> HIDE DEF At
    <3> QED BY <3>1
  <2>4. ASSUME NEW i \in 1..n, i <= k + 1 PROVE g[i] = At(g, i)
    <3>1. CASE par[i] = 0
      BY <3>1
    <3>2. CASE par[i] # 0
      <4>1. par[i] \in 1..n /\ par[i] <= k
        BY <2>2, <2>4, <3>2
      <4>2. f[par[i]] = g[par[i]]
        <5> HIDE DEF At
        <5> QED BY <2>1, <4>1
      <4>3. g[i] = step[i][f[par[i]]]
        BY <3>2
      <4> HIDE DEF g
      <4> QED BY <3>2, <4>2, <4>3
    <3> QED BY <3>1, <3>2
  <2>5. Up(g, k + 1)
    <3> HIDE DEF g, At
    <3> QED BY <2>4
  <2> HIDE DEF g, Up
  <2> QED BY <2>3, <2>5
<1>3. N = Nat
  <2> HIDE DEF N
  <2>1. N \in SUBSET Nat
    BY DEF N
  <2> QED BY <1>1, <1>2, <2>1, Induction
<1>4. PICK f \in [1..n -> X] : Up(f, n)
  BY <1>3
<1> QED BY <1>4 DEF PassedDown

-----------------------------------------------------------------------------
(* Trajectories *)

\* Actions lead from states to states.
LEMMA NextStateType ==
    ASSUME NEW s \in State, NEW a \in Action
    PROVE  NextState(s, a) \in State
BY DEF Action, PartialAssignment, State, NextState

LEMMA TaskFacts ==
    ASSUME NEW t \in TaskType
    PROVE  /\ t.init \in State /\ t.actions \subseteq Action
           /\ \A s \in State : \A a \in ApplicableActions(t, s) :
                  a \in Action /\ NextState(s, a) \in State
BY NextStateType DEF TaskType, ApplicableActions

IsTrajectory(f, s, p) ==
    f = [i \in 0..Len(p) |-> IF i = 0 THEN s ELSE NextState(f[i-1], p[i])]

\* The trajectory of a plan is what its recursion says.
LEMMA TrajectoryEquation ==
    ASSUME NEW s \in State, NEW p \in Seq(Action)
    PROVE  /\ Trajectory(s, p) \in [0..Len(p) -> State]
           /\ IsTrajectory(Trajectory(s, p), s, p)
<1> DEFINE n == Len(p)
           step == [i \in Nat |-> [x \in State |->
                      IF i \in 1..n THEN NextState(x, p[i]) ELSE s]]
<1>1. n \in Nat /\ \A i \in 1..n : p[i] \in Action
  BY LenProperties, ElementOfSeq
<1>2. step \in [Nat -> [State -> State]]
  BY <1>1, NextStateType
<1>3. PICK f \in [0..n -> State] :
          Iterates(f, s, step, n)
  <2>1. n \in Nat
    BY <1>1
  <2> HIDE DEF n, step
  <2> QED BY <1>2, <2>1, Recursion
<1>4. IsTrajectory(f, s, p)
  <2>1. ASSUME NEW i \in 1..n PROVE f[i] = NextState(f[i-1], p[i])
    <3>1. i - 1 \in 0..n /\ i \in Nat
      BY <1>1
    <3>2. f[i-1] \in State /\ f[i] = step[i][f[i-1]]
      <4> HIDE DEF step, n
      <4> QED BY <1>3, <3>1 DEF Iterates
    <3> QED BY <3>1, <3>2
  <2> HIDE DEF step
  <2> QED BY <1>1, <1>3, <2>1 DEF Iterates, IsTrajectory
<1> DEFINE at == Trajectory(s, p)
<1>5. at = CHOOSE g : IsTrajectory(g, s, p)
  BY DEF Trajectory, IsTrajectory
<1>6. IsTrajectory(at, s, p)
  BY <1>4, <1>5
<1>7. \A i \in 0..n : at[i] \in State
  <2> DEFINE N == {i \in Nat : i <= n => at[i] \in State}
  <2>1. 0 \in N
    BY <1>1, <1>6 DEF IsTrajectory
  <2>2. ASSUME NEW i \in N PROVE i + 1 \in N
    <3> SUFFICES ASSUME i + 1 <= n PROVE at[i+1] \in State
      <4> HIDE DEF at
      <4> QED OBVIOUS
    <3>1. i \in Nat /\ i + 1 \in 1..n /\ at[i] \in State
      BY <1>1
    <3>2. at[i+1] = NextState(at[(i+1)-1], p[i+1])
      <4> HIDE DEF N, at
      <4> QED BY <1>1, <1>6, <3>1 DEF IsTrajectory
    <3> HIDE DEF at
    <3> QED BY <1>1, <3>1, <3>2, NextStateType
  <2>3. N = Nat
    <3> HIDE DEF N
    <3>1. N \in SUBSET Nat
      BY DEF N
    <3> QED BY <2>1, <2>2, <3>1, Induction
  <2> QED BY <1>1, <2>3
<1> HIDE DEF at
<1>8. at \in [0..Len(p) -> State]
  BY <1>6, <1>7 DEF IsTrajectory
<1> QED BY <1>6, <1>8 DEF at

\* There is only one.
LEMMA TrajectoryUnique ==
    ASSUME NEW s, NEW p, Len(p) \in Nat,
           NEW f, IsTrajectory(f, s, p), NEW g, IsTrajectory(g, s, p)
    PROVE  f = g
<1> DEFINE n == Len(p)
           N == {i \in Nat : i <= n => f[i] = g[i]}
<1>1. 0 \in N
  BY DEF IsTrajectory
<1>2. ASSUME NEW i \in N PROVE i + 1 \in N
  <2> SUFFICES ASSUME i + 1 <= n PROVE f[i+1] = g[i+1]
    OBVIOUS
  <2>1. i \in Nat /\ i + 1 \in 0..n /\ i + 1 # 0 /\ (i + 1) - 1 = i /\ f[i] = g[i]
    OBVIOUS
  <2> HIDE DEF N
  <2>2. f[i+1] = NextState(f[(i+1)-1], p[i+1]) /\ g[i+1] = NextState(g[(i+1)-1], p[i+1])
    BY <2>1 DEF IsTrajectory
  <2> QED BY <2>1, <2>2
<1>3. N = Nat
  <2> HIDE DEF N
  <2>1. N \in SUBSET Nat
    BY DEF N
  <2> QED BY <1>1, <1>2, <2>1, Induction
<1>4. \A i \in 0..n : f[i] = g[i]
  BY <1>3
<1> QED BY <1>4 DEF IsTrajectory

-----------------------------------------------------------------------------
(* Plans *)

\* Plan p is applicable in s and leads from there to r.
PathTo(t, s, p, r) ==
    LET at == Trajectory(s, p)
    IN  /\ \A i \in 1..Len(p) : p[i] \in ApplicableActions(t, at[i-1])
        /\ at[Len(p)] = r

\* To see where a plan leads it is enough to exhibit its trajectory.
LEMMA PathByTrajectory ==
    ASSUME NEW t, NEW s \in State, NEW p \in Seq(Action),
           NEW f, f[0] = s,
           f = [i \in 0..Len(p) |-> f[i]],
           \A i \in 1..Len(p) : /\ p[i] \in ApplicableActions(t, f[i-1])
                               /\ f[i] = NextState(f[i-1], p[i])
    PROVE  PathTo(t, s, p, f[Len(p)])
<1>1. Len(p) \in Nat
  BY LenProperties
<1>2. IsTrajectory(f, s, p)
  <2>1. \A i \in 0..Len(p) : f[i] = IF i = 0 THEN s ELSE NextState(f[i-1], p[i])
    BY <1>1
  <2> QED BY <2>1 DEF IsTrajectory
<1>3. f = Trajectory(s, p)
  BY <1>1, <1>2, TrajectoryEquation, TrajectoryUnique
<1> QED BY <1>3 DEF PathTo

LEMMA PathFacts ==
    ASSUME NEW t, NEW s \in State, NEW p \in Seq(Action), NEW r, PathTo(t, s, p, r)
    PROVE  /\ r \in State /\ Len(p) \in Nat
           /\ LET at == Trajectory(s, p)
              IN  /\ at \in [0..Len(p) -> State] /\ at[0] = s /\ at[Len(p)] = r
                  /\ \A i \in 1..Len(p) : /\ p[i] \in ApplicableActions(t, at[i-1])
                                          /\ at[i] = NextState(at[i-1], p[i])
<1> DEFINE at == Trajectory(s, p)
<1>1. Len(p) \in Nat
  BY LenProperties
<1>2. at \in [0..Len(p) -> State] /\ IsTrajectory(at, s, p)
  BY TrajectoryEquation
<1>3. \A i \in 1..Len(p) : p[i] \in ApplicableActions(t, at[i-1])
  BY DEF PathTo
<1>4. at[Len(p)] = r
  BY DEF PathTo
<1> HIDE DEF at
<1>5. at[0] = s /\ \A i \in 1..Len(p) : at[i] = NextState(at[i-1], p[i])
  BY <1>1, <1>2 DEF IsTrajectory
<1>6. r \in State
  BY <1>1, <1>2, <1>4
<1> QED BY <1>1, <1>2, <1>3, <1>4, <1>5, <1>6 DEF at

LEMMA PathSolves ==
    ASSUME NEW t, NEW s, NEW p
    PROVE  Solves(t, s, p) <=> \E r : PathTo(t, s, p, r) /\ IsGoal(t, r)
BY DEF PathTo, Solves

\* The empty plan stays where it is.
LEMMA EmptyPath ==
    ASSUME NEW t, NEW s \in State
    PROVE  PathTo(t, s, <<>>, s)
<1> DEFINE f == [i \in 0..0 |-> s]
<1>1. Len(<<>>) = 0 /\ <<>> \in Seq(Action)
  BY EmptySeq
<1>2. f[0] = s /\ f = [i \in 0..0 |-> f[i]]
  OBVIOUS
<1> HIDE DEF f
<1>3. PathTo(t, s, <<>>, f[Len(<<>>)])
  BY <1>1, <1>2, PathByTrajectory
<1> QED BY <1>1, <1>2, <1>3

\* An action may be put in front of a plan.
LEMMA PrependPath ==
    ASSUME NEW t, NEW s \in State, NEW p \in Seq(Action), NEW a \in Action, NEW r,
           a \in ApplicableActions(t, s), PathTo(t, NextState(s, a), p, r)
    PROVE  <<a>> \o p \in Seq(Action) /\ PathTo(t, s, <<a>> \o p, r)
<1> DEFINE q == <<a>> \o p
           n == Len(p)
           at == Trajectory(NextState(s, a), p)
           g == [i \in 0..(n+1) |-> IF i = 0 THEN s ELSE at[i-1]]
<1>1. NextState(s, a) \in State
  BY NextStateType
<1>2. /\ n \in Nat /\ at[0] = NextState(s, a) /\ at[n] = r
      /\ \A i \in 1..n : p[i] \in ApplicableActions(t, at[i-1]) /\ at[i] = NextState(at[i-1], p[i])
  BY <1>1, PathFacts
<1>3. /\ q \in Seq(Action) /\ Len(q) = n + 1 /\ q[1] = a
      /\ \A i \in 1..n : q[i+1] = p[i]
  <2>1. <<a>> \in Seq(Action) /\ Len(<<a>>) = 1
    OBVIOUS
  <2>2. /\ q \in Seq(Action) /\ Len(q) = 1 + n
        /\ \A i \in 1..(1+n) : q[i] = IF i <= 1 THEN <<a>>[i] ELSE p[i-1]
    BY <2>1, ConcatProperties
  <2> HIDE DEF q, n
  <2> QED BY <1>2, <2>1, <2>2
<1> HIDE DEF q, at, n
<1>4. ASSUME NEW i \in 1..(n+1)
      PROVE  q[i] \in ApplicableActions(t, g[i-1]) /\ g[i] = NextState(g[i-1], q[i])
  <2>1. CASE i = 1
    BY <1>2, <1>3, <2>1
  <2>2. CASE i # 1
    <3>1. /\ i - 1 \in 1..n /\ (i - 1) - 1 = i - 2 /\ i # 0 /\ i - 1 # 0
          /\ i \in 0..(n+1) /\ i - 1 \in 0..(n+1)
      BY <1>2, <2>2
    <3>2. g[i] = at[i-1] /\ g[i-1] = at[i-2]
      BY <3>1
    <3>3. q[i] = p[i-1]
      BY <1>3, <3>1
    <3>4. p[i-1] \in ApplicableActions(t, at[i-2]) /\ at[i-1] = NextState(at[i-2], p[i-1])
      BY <1>2, <3>1
    <3> QED BY <3>2, <3>3, <3>4
  <2> QED BY <2>1, <2>2
<1>5. g[0] = s /\ g[n+1] = r /\ g = [i \in 0..(n+1) |-> g[i]]
  BY <1>2
<1> HIDE DEF g
<1>6. PathTo(t, s, q, g[Len(q)])
  BY <1>3, <1>4, <1>5, PathByTrajectory
<1> QED BY <1>3, <1>5, <1>6 DEF q

\* An action may be put behind a plan.
LEMMA AppendPath ==
    ASSUME NEW t, NEW s \in State, NEW p \in Seq(Action), NEW a \in Action, NEW r,
           PathTo(t, s, p, r), a \in ApplicableActions(t, r)
    PROVE  Append(p, a) \in Seq(Action) /\ PathTo(t, s, Append(p, a), NextState(r, a))
<1> DEFINE q == Append(p, a)
           n == Len(p)
           at == Trajectory(s, p)
           g == [i \in 0..(n+1) |-> IF i = n + 1 THEN NextState(r, a) ELSE at[i]]
<1>1. /\ n \in Nat /\ at[0] = s /\ at[n] = r
      /\ \A i \in 1..n : p[i] \in ApplicableActions(t, at[i-1]) /\ at[i] = NextState(at[i-1], p[i])
  BY PathFacts
<1>2. /\ q \in Seq(Action) /\ Len(q) = n + 1 /\ q[n+1] = a
      /\ \A i \in 1..n : q[i] = p[i]
  BY <1>1
<1> HIDE DEF q, at, n
<1>3. ASSUME NEW i \in 1..(n+1)
      PROVE  q[i] \in ApplicableActions(t, g[i-1]) /\ g[i] = NextState(g[i-1], q[i])
  <2>1. CASE i = n + 1
    <3>1. i - 1 = n /\ n \in 0..(n+1) /\ n # n + 1 /\ i \in 0..(n+1)
      BY <1>1, <2>1
    <3> QED BY <1>1, <1>2, <2>1, <3>1
  <2>2. CASE i # n + 1
    <3>1. i \in 1..n /\ i \in 0..(n+1) /\ i - 1 \in 0..(n+1) /\ i - 1 # n + 1
      BY <1>1, <2>2
    <3>2. g[i] = at[i] /\ g[i-1] = at[i-1]
      BY <2>2, <3>1
    <3> QED BY <1>1, <1>2, <3>1, <3>2
  <2> QED BY <2>1, <2>2
<1>4. g[0] = s /\ g[n+1] = NextState(r, a) /\ g = [i \in 0..(n+1) |-> g[i]]
  BY <1>1
<1> HIDE DEF g
<1>5. PathTo(t, s, q, g[Len(q)])
  BY <1>2, <1>3, <1>4, PathByTrajectory
<1> QED BY <1>2, <1>4, <1>5 DEF q

LEMMA EmptySolves ==
    ASSUME NEW t, NEW s \in State, IsGoal(t, s)
    PROVE  Solves(t, s, <<>>)
BY EmptyPath, PathSolves

LEMMA PrependSolves ==
    ASSUME NEW t, NEW s \in State, NEW p \in Seq(Action), NEW a \in Action,
           a \in ApplicableActions(t, s), Solves(t, NextState(s, a), p)
    PROVE  Solves(t, s, <<a>> \o p)
<1>1. PICK r : PathTo(t, NextState(s, a), p, r) /\ IsGoal(t, r)
  BY PathSolves
<1>2. PathTo(t, s, <<a>> \o p, r)
  BY <1>1, PrependPath
<1> QED BY <1>1, <1>2, PathSolves

-----------------------------------------------------------------------------
(* Solvable states *)

\* There are finitely many states: each is determined by its set of atoms.
LEMMA StatesFinite == IsFiniteSet(State) /\ Cardinality(State) \in Nat
<1> DEFINE f == [s \in State |-> AtomsOf(s)]
<1>1. f \in [State -> SUBSET Atom]
  BY DEF AtomsOf, Atom, State
<1>2. ASSUME NEW s \in State, NEW r \in State, f[s] = f[r] PROVE s = r
  <2>1. AtomsOf(s) = AtomsOf(r)
    BY <1>2
  <2>2. ASSUME NEW v \in Vars PROVE s[v] = r[v]
    <3>1. <<v, s[v]>> \in AtomsOf(r)
      BY <2>1 DEF AtomsOf
    <3> QED BY <3>1 DEF AtomsOf
  <2> QED BY <2>2 DEF State
<1>3. f \in Injection(State, SUBSET Atom)
  BY <1>1, <1>2 DEF Injection, IsInjective
<1>4. IsFiniteSet(SUBSET Atom)
  BY VarsAssumption, ValsAssumption, FS_Product, FS_SUBSET DEF Atom
<1>5. IsFiniteSet(State)
  <2> HIDE DEF f
  <2> QED BY <1>3, <1>4, FS_Injection
<1> QED BY <1>5, FS_CardinalityType

GoalStates(t) == {s \in State : IsGoal(t, s)}

\* The states of X, and those with a successor in X.
Backward(t, X) == X \cup {s \in State : Successors(t, s) \cap X # {}}

\* The sets of SolvableIn are what their recursion says.
LEMMA SolvableInEquation ==
    ASSUME NEW t
    PROVE  LET in == SolvableIn(t)
           IN  /\ in \in [0..Cardinality(State) -> SUBSET State]
               /\ in[0] = GoalStates(t)
               /\ \A k \in 1..Cardinality(State) : in[k] = Backward(t, in[k-1])
<1> DEFINE n == Cardinality(State)
           X == SUBSET State
           step == [i \in Nat |-> [Y \in X |-> Backward(t, Y)]]
           Eq(in) == in = [k \in 0..n |->
                             IF k = 0 THEN GoalStates(t) ELSE Backward(t, in[k-1])]
<1>1. n \in Nat
  BY StatesFinite
<1>2. step \in [Nat -> [X -> X]] /\ GoalStates(t) \in X
  BY DEF Backward, GoalStates
<1>3. PICK f \in [0..n -> X] : Iterates(f, GoalStates(t), step, n)
  <2> HIDE DEF n, X, step
  <2> QED BY <1>1, <1>2, Recursion
<1>4. Eq(f)
  <2>1. ASSUME NEW i \in 1..n PROVE f[i] = Backward(t, f[i-1])
    <3>1. i - 1 \in 0..n /\ i \in Nat
      BY <1>1
    <3>2. f[i-1] \in X /\ f[i] = step[i][f[i-1]]
      <4> HIDE DEF step, n, X
      <4> QED BY <1>3, <3>1 DEF Iterates
    <3> QED BY <3>1, <3>2
  <2>2. f[0] = GoalStates(t)
    BY <1>3 DEF Iterates
  <2>3. \A i \in 0..n : f[i] = IF i = 0 THEN GoalStates(t) ELSE Backward(t, f[i-1])
    <3> TAKE i \in 0..n
    <3>1. CASE i = 0
      BY <2>2, <3>1
    <3>2. CASE i # 0
      <4>1. i \in 1..n
        BY <1>1, <3>2
      <4> QED BY <2>1, <3>2, <4>1
    <3> QED BY <3>1, <3>2
  <2> HIDE DEF n, X, step
  <2> QED BY <1>3, <2>3
<1> DEFINE in == SolvableIn(t)
<1>5. in = CHOOSE g : Eq(g)
  BY DEF SolvableIn, GoalStates, Backward
<1>6. Eq(in)
  <2> HIDE DEF Eq
  <2> QED BY <1>4, <1>5
<1>7. in[0] = GoalStates(t) /\ \A k \in 1..n : in[k] = Backward(t, in[k-1])
  <2> HIDE DEF in
  <2> QED BY <1>1, <1>6
<1>8. DOMAIN in = 0..n
  <2> HIDE DEF in
  <2> QED BY <1>6
<1>9. \A k \in 0..n : in[k] \in X
  <2> DEFINE N == {k \in Nat : k <= n => in[k] \in X}
  <2> HIDE DEF in
  <2>1. 0 \in N
    BY <1>7 DEF GoalStates
  <2>2. ASSUME NEW k \in N PROVE k + 1 \in N
    <3>1. ASSUME k + 1 <= n PROVE in[k+1] \in X
      <4>1. k \in Nat /\ k + 1 \in 1..n /\ (k + 1) - 1 = k /\ in[k] \in X
        BY <1>1, <3>1
      <4>2. in[k+1] = Backward(t, in[k])
        <5> HIDE DEF N
        <5> QED BY <1>7, <4>1
      <4> QED BY <4>1, <4>2 DEF Backward
    <3> QED BY <3>1
  <2>3. N = Nat
    <3> HIDE DEF N
    <3>1. N \in SUBSET Nat
      BY DEF N
    <3> QED BY <2>1, <2>2, <3>1, Induction
  <2> QED BY <1>1, <2>3
<1>10. in \in [0..n -> X]
  <2> HIDE DEF in, n, X
  <2>1. in = [k \in 0..n |-> in[k]]
    BY <1>6
  <2> QED BY <1>9, <2>1
<1> QED BY <1>7, <1>10

\* The sets only grow, up to the set of solvable states.
LEMMA SolvableInGrows ==
    ASSUME NEW t, NEW k \in 0..Cardinality(State)
    PROVE  SolvableIn(t)[k] \subseteq Solvable(t) /\ Solvable(t) \subseteq State
<1> DEFINE n == Cardinality(State)
           in == SolvableIn(t)
           N == {i \in Nat : i <= n => in[n-i] \subseteq in[n]}
<1>1. /\ n \in Nat /\ in \in [0..n -> SUBSET State]
      /\ \A i \in 1..n : in[i] = Backward(t, in[i-1])
  BY StatesFinite, SolvableInEquation
<1> HIDE DEF in, n
<1>2. 0 \in N
  BY <1>1
<1>3. ASSUME NEW i \in N PROVE i + 1 \in N
  <2> SUFFICES ASSUME i + 1 <= n PROVE in[n-(i+1)] \subseteq in[n]
    OBVIOUS
  <2>1. i \in Nat /\ n - i \in 1..n /\ (n - i) - 1 = n - (i + 1) /\ in[n-i] \subseteq in[n]
    BY <1>1
  <2>2. in[n-i] = Backward(t, in[(n-i)-1])
    BY <1>1, <2>1
  <2> QED BY <2>1, <2>2 DEF Backward
<1>4. N = Nat
  <2> HIDE DEF N
  <2>1. N \in SUBSET Nat
    BY DEF N
  <2> QED BY <1>2, <1>3, <2>1, Induction
<1>5. n - k \in Nat /\ n - k <= n /\ n - (n - k) = k
  BY <1>1 DEF n
<1>6. in[k] \subseteq in[n]
  BY <1>4, <1>5
<1>7. in[n] \subseteq State
  BY <1>1
<1> QED BY <1>6, <1>7 DEF in, n, Solvable

\* A state with a solvable successor is solvable: as many rounds as there
\* are states reach the fixpoint.
LEMMA SolvableFixpoint ==
    ASSUME NEW t
    PROVE  Backward(t, Solvable(t)) = Solvable(t)
<1> DEFINE n == Cardinality(State)
           in == SolvableIn(t)
           N == {k \in Nat : k <= n => Cardinality(in[k]) >= k \/ Backward(t, in[k]) = in[k]}
<1>1. /\ n \in Nat /\ in \in [0..n -> SUBSET State]
      /\ \A i \in 1..n : in[i] = Backward(t, in[i-1])
  BY StatesFinite, SolvableInEquation
<1>2. \A k \in 0..n : IsFiniteSet(in[k]) /\ Cardinality(in[k]) \in Nat
  <2> HIDE DEF in, n
  <2> QED BY <1>1, StatesFinite, FS_Subset, FS_CardinalityType
<1> HIDE DEF in
<1>3. 0 \in N
  <2>1. 0 \in 0..n
    BY <1>1
  <2> HIDE DEF n
  <2> QED BY <1>2, <2>1
<1>4. ASSUME NEW k \in N PROVE k + 1 \in N
  <2> SUFFICES ASSUME k + 1 <= n
               PROVE  Cardinality(in[k+1]) >= k + 1 \/ Backward(t, in[k+1]) = in[k+1]
    OBVIOUS
  <2>1. /\ k \in Nat /\ k + 1 \in 1..n /\ (k + 1) - 1 = k /\ k \in 0..n /\ k + 1 \in 0..n
        /\ Cardinality(in[k]) >= k \/ Backward(t, in[k]) = in[k]
    BY <1>1
  <2> HIDE DEF N, n
  <2>2. in[k+1] = Backward(t, in[k])
    BY <1>1, <2>1
  <2>3. CASE Backward(t, in[k]) = in[k]
    BY <2>2, <2>3
  <2>4. CASE Backward(t, in[k]) # in[k] /\ Cardinality(in[k]) >= k
    <3>1. in[k] \subseteq in[k+1] /\ in[k] # in[k+1]
      BY <2>2, <2>4 DEF Backward
    <3>2. /\ IsFiniteSet(in[k+1]) /\ in[k] \in SUBSET in[k+1]
          /\ Cardinality(in[k]) \in Nat /\ Cardinality(in[k+1]) \in Nat
      BY <1>2, <2>1, <3>1
    <3>3. Cardinality(in[k]) <= Cardinality(in[k+1]) /\ Cardinality(in[k]) # Cardinality(in[k+1])
      BY <3>1, <3>2, FS_Subset
    <3> QED BY <2>1, <2>4, <3>2, <3>3
  <2> QED BY <2>1, <2>3, <2>4
<1>5. N = Nat
  <2> HIDE DEF N
  <2>1. N \in SUBSET Nat
    BY DEF N
  <2> QED BY <1>3, <1>4, <2>1, Induction
<1>6. n \in 0..n /\ (Cardinality(in[n]) >= n \/ Backward(t, in[n]) = in[n])
  BY <1>1, <1>5
<1>7. in[n] \in SUBSET State
  <2> HIDE DEF n
  <2> QED BY <1>1, <1>6
<1>8. ASSUME Cardinality(in[n]) >= n PROVE Backward(t, in[n]) = in[n]
  <2>1. Cardinality(in[n]) = n
    BY <1>1, <1>2, <1>6, <1>7, <1>8, StatesFinite, FS_Subset
  <2>2. in[n] = State
    BY <1>7, <2>1, StatesFinite, FS_Subset
  <2> QED BY <2>2 DEF Backward
<1> QED BY <1>6, <1>8 DEF in, Solvable

LEMMA SolvableClosed ==
    ASSUME NEW t, NEW s \in State
    PROVE  /\ IsGoal(t, s) => s \in Solvable(t)
           /\ Successors(t, s) \cap Solvable(t) # {} => s \in Solvable(t)
<1>1. 0 \in 0..Cardinality(State)
  BY StatesFinite
<1>2. IsGoal(t, s) => s \in SolvableIn(t)[0]
  BY SolvableInEquation DEF GoalStates
<1> QED BY <1>1, <1>2, SolvableInGrows, SolvableFixpoint DEF Backward

\* States that cannot be left towards a solvable state other than among
\* themselves, and none of which is a goal, are not solvable.
LEMMA UnsolvableSet ==
    ASSUME NEW t, NEW X \in SUBSET State,
           \A s \in X : ~IsGoal(t, s) /\ Successors(t, s) \cap Solvable(t) \subseteq X
    PROVE  X \cap Solvable(t) = {}
<1> DEFINE n == Cardinality(State)
           in == SolvableIn(t)
           N == {k \in Nat : k <= n => in[k] \cap X = {}}
<1>1. /\ n \in Nat /\ in[0] = GoalStates(t)
      /\ \A i \in 1..n : in[i] = Backward(t, in[i-1])
  BY StatesFinite, SolvableInEquation
<1>2. \A k \in 0..n : in[k] \subseteq Solvable(t)
  BY SolvableInGrows
<1> HIDE DEF in, n
<1>3. 0 \in N
  BY <1>1 DEF GoalStates
<1>4. ASSUME NEW k \in N PROVE k + 1 \in N
  <2> SUFFICES ASSUME k + 1 <= n PROVE in[k+1] \cap X = {}
    OBVIOUS
  <2>1. k \in 0..n /\ k + 1 \in 1..n /\ (k + 1) - 1 = k /\ in[k] \cap X = {}
    BY <1>1
  <2> HIDE DEF N
  <2>2. in[k+1] = Backward(t, in[k]) /\ in[k] \subseteq Solvable(t)
    BY <1>1, <1>2, <2>1
  <2> QED BY <2>1, <2>2 DEF Backward
<1>5. N = Nat
  <2> HIDE DEF N
  <2>1. N \in SUBSET Nat
    BY DEF N
  <2> QED BY <1>3, <1>4, <2>1, Induction
<1>6. in[n] \cap X = {}
  BY <1>1, <1>5
<1> QED BY <1>6 DEF in, n, Solvable

(***************************************************************************)
(* The solvable states are those from which a plan leads to the goal, the  *)
(* plans do_search would accept (Checker::check_correctness).              *)
(***************************************************************************)
THEOREM SolvableMeansPlan ==
    ASSUME NEW t \in TaskType, NEW s \in State
    PROVE  s \in Solvable(t) <=> \E p \in Seq(Action) : Solves(t, s, p)
<1> DEFINE X == {r \in State : ~ \E p \in Seq(Action) : Solves(t, r, p)}
<1>1. ASSUME NEW r \in X PROVE ~IsGoal(t, r)
  <2> SUFFICES ASSUME IsGoal(t, r) PROVE \E p \in Seq(Action) : Solves(t, r, p)
    OBVIOUS
  <2>1. PathTo(t, r, <<>>, r) /\ <<>> \in Seq(Action)
    BY EmptyPath, EmptySeq
  <2> QED BY <2>1, PathSolves
<1>2. ASSUME NEW r \in X, NEW q \in Successors(t, r) PROVE q \in X
  <2>1. PICK a \in ApplicableActions(t, r) : q = NextState(r, a)
    BY DEF Successors
  <2>2. a \in Action /\ q \in State /\ r \in State
    BY <2>1, TaskFacts
  <2>3. ASSUME NEW p \in Seq(Action), Solves(t, q, p) PROVE FALSE
    <3>1. PICK g : PathTo(t, q, p, g) /\ IsGoal(t, g)
      BY <2>3, PathSolves
    <3>2. <<a>> \o p \in Seq(Action) /\ PathTo(t, r, <<a>> \o p, g)
      BY <2>1, <2>2, <3>1, PrependPath
    <3>3. Solves(t, r, <<a>> \o p)
      BY <3>1, <3>2, PathSolves
    <3> QED BY <3>2, <3>3
  <2> QED BY <2>2, <2>3
<1>3. X \cap Solvable(t) = {}
  <2>1. X \in SUBSET State
    OBVIOUS
  <2> HIDE DEF X
  <2> QED BY <1>1, <1>2, <2>1, UnsolvableSet
<1>4. ASSUME NEW p \in Seq(Action), Solves(t, s, p) PROVE s \in Solvable(t)
  <2> DEFINE n == Len(p)
             at == Trajectory(s, p)
  <2>1. PICK g : PathTo(t, s, p, g) /\ IsGoal(t, g)
    BY <1>4, PathSolves
  <2>2. /\ n \in Nat /\ at[0] = s /\ at[n] = g
        /\ \A i \in 1..n : p[i] \in ApplicableActions(t, at[i-1]) /\ at[i] = NextState(at[i-1], p[i])
    BY <2>1, PathFacts
  <2>3. at \in [0..n -> State]
    BY TrajectoryEquation
  <2> HIDE DEF at, n
  <2> DEFINE N == {i \in Nat : i <= n => at[n-i] \in Solvable(t)}
  <2>4. 0 \in N
    <3>1. g \in State /\ n - 0 = n
      BY <2>2, <2>3
    <3>2. at[n-0] \in Solvable(t)
      BY <2>1, <2>2, <3>1, SolvableClosed
    <3> QED BY <3>2
  <2>5. ASSUME NEW i \in N PROVE i + 1 \in N
    <3> SUFFICES ASSUME i + 1 <= n PROVE at[n-(i+1)] \in Solvable(t)
      OBVIOUS
    <3>1. /\ n - i \in 1..n /\ (n - i) - 1 = n - (i + 1) /\ n - (i + 1) \in 0..n
          /\ at[n-i] \in Solvable(t)
      BY <2>2
    <3> HIDE DEF N
    <3>2. at[n-i] \in Successors(t, at[(n-i)-1])
      BY <2>2, <3>1 DEF Successors
    <3>3. at[n-(i+1)] \in State
      BY <2>3, <3>1
    <3> QED BY <3>1, <3>2, <3>3, SolvableClosed
  <2>6. N = Nat
    <3> HIDE DEF N
    <3>1. N \in SUBSET Nat
      BY DEF N
    <3> QED BY <2>4, <2>5, <3>1, Induction
  <2>7. at[n-n] \in Solvable(t) /\ n - n = 0
    <3>1. n \in Nat /\ n <= n /\ n - n = 0
      BY <2>2
    <3>2. n \in N
      <4> HIDE DEF N
      <4> QED BY <2>6, <3>1
    <3> QED BY <3>1, <3>2
  <2> QED BY <2>2, <2>7
<1> QED BY <1>3, <1>4

(***************************************************************************)
(* What the searches exhibit when they give up proves that no sequence of  *)
(* actions, of whatever length, is a plan.                                 *)
(***************************************************************************)
THEOREM CertificateRefutes ==
    ASSUME NEW t \in TaskType, NEW C, UnsolvabilityCertificate(t, C)
    PROVE  ~ \E p \in Seq(Action) : Solves(t, t.init, p)
<1>1. t.init \in State
  BY TaskFacts
<1>2. (C \cap State) \cap Solvable(t) = {}
  <2>1. C \cap State \in SUBSET State
    OBVIOUS
  <2>2. ASSUME NEW s \in C \cap State
        PROVE  ~IsGoal(t, s) /\ Successors(t, s) \cap Solvable(t) \subseteq C \cap State
    <3>1. Solvable(t) \subseteq State
      BY StatesFinite, SolvableInGrows
    <3> QED BY <3>1 DEF UnsolvabilityCertificate
  <2> QED BY <2>1, <2>2, UnsolvableSet
<1>3. t.init \notin Solvable(t)
  BY <1>1, <1>2 DEF UnsolvabilityCertificate
<1> QED BY <1>1, <1>3, SolvableMeansPlan
=============================================================================
