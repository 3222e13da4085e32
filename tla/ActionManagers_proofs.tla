------------------------ MODULE ActionManagers_proofs ------------------------
(***************************************************************************)
(* Proofs about the managers that test the actions of their whitelist (the *)
(* naive and the functional-aware one): for every problem whose indexes    *)
(* are faithful, the iterator yields exactly the applicable actions, and   *)
(* every state that is reached satisfies the state constraints.            *)
(*                                                                         *)
(* The argument is circular in the way the code is: an index of            *)
(* constraints may leave one out because it held before the action, which  *)
(* it did because the iterator yielded applicable actions only, so the two *)
(* are proved together, in one inductive invariant.                        *)
(***************************************************************************)
EXTENDS ActionManagers, WellFoundedInduction, TLAPS

-----------------------------------------------------------------------------
(* The successor of a state *)

\* A set of effect numbers has a largest one (State::accumulate applies the
\* effects in order).
LEMMA MaxExists ==
    ASSUME NEW n \in Nat, NEW I \in SUBSET (1..n), I # {}
    PROVE  \E i \in I : \A j \in I : j <= i
<1> DEFINE T == {n - i : i \in I}
<1>1. T \subseteq Nat /\ T # {}
  <2>1. \A i \in I : n - i \in Nat
    OBVIOUS
  <2>2. PICK i \in I : TRUE
    OBVIOUS
  <2> QED BY <2>1, <2>2
<1>2. \E x \in T : \A y \in T : ~ (<<y, x>> \in OpToRel(<, Nat))
  <2> HIDE DEF T
  <2> QED BY <1>1, NatLessThanWellFounded, WFMin
<1>3. PICK x \in T : \A y \in T : ~ (<<y, x>> \in OpToRel(<, Nat))
  BY <1>2
<1>4. \A y \in T : ~ (y < x)
  BY <1>1, <1>3 DEF OpToRel
<1>5. PICK i \in I : x = n - i
  BY <1>3 DEF T
<1>6. ASSUME NEW j \in I PROVE j <= i
  <2>1. n - j \in T /\ n - j \in Nat /\ x \in Nat
    BY <1>1, <1>3
  <2>2. ~ (n - j < x)
    BY <1>4, <2>1
  <2> QED BY <1>5, <2>2
<1> QED BY <1>6

\* The last effect that writes a variable is one of those that write it.
LEMMA LatestWriter ==
    ASSUME NEW a, ActionOK(a), NEW s \in States, NEW v \in Places, Writers(a, s, v) # {}
    PROVE  Latest(Writers(a, s, v)) \in Writers(a, s, v)
<1>1. PICK n \in Nat : DOMAIN a.effects = 1..n
  BY DEF ActionOK
<1>2. Writers(a, s, v) \in SUBSET (1..n)
  BY <1>1 DEF Writers, Fires
<1>3. \E i \in Writers(a, s, v) : \A j \in Writers(a, s, v) : j <= i
  <2> HIDE DEF Writers
  <2> QED BY <1>2, MaxExists
<1> QED BY <1>3 DEF Latest

\* An action whose atoms stay within bounds leads to a state.
LEMMA SuccessorIsState ==
    ASSUME NEW a, ActionOK(a), NEW s \in States, AtomsWithinBounds(a, s)
    PROVE  NextState(a, s) \in States
<1> DEFINE t == NextState(a, s)
<1>1. \A v \in Places : t[v] \in Domain[v]
  <2> SUFFICES ASSUME NEW v \in Places PROVE t[v] \in Domain[v]
    OBVIOUS
  <2>1. CASE Writers(a, s, v) = {}
    BY <2>1 DEF NextState, States
  <2>2. CASE Writers(a, s, v) # {}
    <3> DEFINE i == Latest(Writers(a, s, v))
    <3>1. i \in Writers(a, s, v)
      BY <2>2, LatestWriter
    <3>2. i \in Fires(a, s) /\ a.effects[i].var[s] = v
      BY <3>1 DEF Writers
    <3>3. a.effects[i].val[s] \in Domain[v]
      BY <3>2 DEF AtomsWithinBounds
    <3>4. t[v] = a.effects[i].val[s]
      BY <2>2 DEF NextState
    <3> QED BY <3>3, <3>4
  <2> QED BY <2>1, <2>2
<1>2. t = [v \in Places |-> t[v]]
  BY DEF NextState
<1>3. \A v \in Places : t[v] \in Vals
  BY <1>1 DEF Vals
<1> HIDE DEF t
<1>4. t \in States
  BY <1>1, <1>2, <1>3 DEF States
<1> QED BY <1>4 DEF t

-----------------------------------------------------------------------------
(* What the indexes are good for *)

Tested(m) == m \in Managers \ {"match_tree"}

\* A constraint that the index leaves out holds after the action if it held
\* before (action_managers.cxx:319-326).
LEMMA UnaffectedConstraint ==
    ASSUME NEW p, ProblemOK(p), IndexesFaithful(p), NEW i \in Ids(p), NEW s \in States,
           NEW j \in AllConstraints(p) \ Affecting(p, i), s \in p.constraints[j].holds,
           NextState(p.actions[i], s) \in States
    PROVE  NextState(p.actions[i], s) \in p.constraints[j].holds
<1> DEFINE a == p.actions[i]
           t == NextState(a, s)
<1>1. p.constraints[j].scope \subseteq Places
  BY DEF ProblemOK, ConstraintOK, AllConstraints
<1>2. \A k \in DOMAIN a.effects : a.effects[k].var[s] \notin p.constraints[j].scope
  BY DEF IndexesFaithful
<1>3. ASSUME NEW v \in p.constraints[j].scope PROVE s[v] = t[v]
  <2>1. Writers(a, s, v) = {}
    BY <1>2, <1>3 DEF Writers, Fires
  <2> QED BY <1>1, <2>1 DEF NextState
<1>4. \A u, w \in States : (\A v \in p.constraints[j].scope : u[v] = w[v]) =>
                              (u \in p.constraints[j].holds <=> w \in p.constraints[j].holds)
  BY DEF IndexesFaithful
<1> HIDE DEF t
<1>5. t \in States /\ \A v \in p.constraints[j].scope : s[v] = t[v]
  BY <1>3 DEF t
<1>6. t \in p.constraints[j].holds
  BY <1>4, <1>5
<1> QED BY <1>6 DEF t

\* In a state that satisfies the constraints, the test of a manager is the
\* definition of applicability.
LEMMA TestIsExact ==
    ASSUME NEW p, ProblemOK(p), IndexesFaithful(p), NEW m, Tested(m), NEW i \in Ids(p),
           NEW s \in States, Hold(p, AllConstraints(p), s)
    PROVE  Accepts(p, m, i, s) <=> IsApplicable(p, i, s)
<1>1. CheckedConstraints(p, m, i) \subseteq AllConstraints(p)
  BY DEF CheckedConstraints, Affecting
<1>2. IsApplicable(p, i, s) => Accepts(p, m, i, s)
  BY <1>1 DEF IsApplicable, Accepts, Hold
<1>3. ASSUME Accepts(p, m, i, s) PROVE IsApplicable(p, i, s)
  <2> DEFINE t == NextState(p.actions[i], s)
  <2>1. s \in p.actions[i].pre /\ AtomsWithinBounds(p.actions[i], s) /\ Hold(p, CheckedConstraints(p, m, i), t)
    BY <1>3 DEF Accepts
  <2>2. ActionOK(p.actions[i])
    BY DEF ProblemOK, Ids
  <2>3. t \in States
    BY <2>1, <2>2, SuccessorIsState
  <2>4. ASSUME NEW j \in AllConstraints(p) PROVE t \in p.constraints[j].holds
    <3>1. CASE j \in CheckedConstraints(p, m, i)
      BY <2>1, <3>1 DEF Hold
    <3>2. CASE j \notin CheckedConstraints(p, m, i)
      <4>1. j \in AllConstraints(p) \ Affecting(p, i)
        BY <3>2 DEF CheckedConstraints
      <4>2. s \in p.constraints[j].holds
        BY DEF Hold
      <4> QED BY <2>3, <4>1, <4>2, UnaffectedConstraint
    <3> QED BY <3>1, <3>2
  <2> QED BY <2>1, <2>4 DEF IsApplicable, Hold
<1> QED BY <1>2, <1>3

\* No applicable action is missing from the whitelist: the lists of the atoms
\* of the state all contain it (action_managers.cxx:267-317).
LEMMA WhitelistComplete ==
    ASSUME NEW p, ProblemOK(p), IndexesFaithful(p), NEW m, Tested(m), NEW i \in Ids(p),
           NEW s \in States, IsApplicable(p, i, s)
    PROVE  i \in Whitelist(p, m, s)
<1>1. CASE m = "naive"
  BY <1>1 DEF Whitelist
<1>2. CASE m = "functional_aware"
  <2> DEFINE a == p.actions[i]
  <2>1. s \in a.pre
    BY DEF IsApplicable
  <2>2. ASSUME NEW v \in Places, a.shape = "conjunction", v \in Referenced(a)
        PROVE  \E e \in Entries(a) : e.var = v /\ s[v] \in AllowedValues(e)
    <3>1. PICK e \in Entries(a) : e.var = v
      BY <2>2 DEF Referenced
    <3>2. (s[e.var] = e.val) <=> e.eq
      BY <2>1, <2>2, <3>1 DEF IndexesFaithful
    <3>3. s[v] \in Domain[v]
      BY DEF States
    <3> QED BY <3>1, <3>2, <3>3 DEF AllowedValues
  <2>3. \A v \in Places : PotentiallyApplicable(a, v, s[v])
    BY <2>2 DEF PotentiallyApplicable
  <2>4. i \in IndexWhitelist(p, s)
    BY <2>3 DEF IndexWhitelist
  <2> QED BY <1>2, <2>4 DEF Whitelist
<1> QED BY <1>1, <1>2 DEF Tested, Managers

LEMMA WhitelistType ==
    ASSUME NEW p, NEW m, Tested(m), NEW s
    PROVE  Whitelist(p, m, s) \subseteq Ids(p)
BY DEF Whitelist, Tested, Managers, IndexWhitelist

-----------------------------------------------------------------------------
(* The inductive invariant *)

\* The problems and managers the theorems are about.
Covered ==
    /\ IndexesFaithful(problem) /\ Hold(problem, AllConstraints(problem), problem.init)
    /\ Tested(manager)

\* Of the applicable actions, each has been yielded or is still to come.
IterationExact ==
    /\ \A i \in Ids(problem) :
          IsApplicable(problem, i, state) <=> Yielded(i) \/ (i \in waiting /\ Yields(i))
    /\ \A k \in DOMAIN yielded : yielded[k] \notin waiting
    /\ \A k, m \in DOMAIN yielded : yielded[k] = yielded[m] => k = m

Legal == state \in States /\ ConstraintsHold

IInv ==
    /\ ProblemOK(problem)
    /\ yielded \in Seq(Ids(problem)) /\ waiting \subseteq Ids(problem)
    /\ Legal
    /\ stage \in {"iterating", "done"} => IterationExact
    /\ stage = "done" => waiting = {}

\* With the problem and the manager fixed, what is covered stays covered.
LEMMA CoveredForever == ASSUME [AMNext]_avars PROVE Covered' <=> Covered
BY DEF AMNext, avars, BuildManager, ComputeWhitelist, IndexOverwritten, Advance, Ended, Apply, Covered

LEMMA InitInv == AMInit /\ Covered => IInv
<1> SUFFICES ASSUME AMInit, Covered PROVE IInv
  OBVIOUS
<1>1. ProblemOK(problem) /\ waiting \subseteq Ids(problem)
  BY DEF AMInit
<1>2. yielded \in Seq(Ids(problem))
  BY DEF AMInit
<1>3. Legal
  BY DEF AMInit, Covered, Legal, ConstraintsHold, ProblemOK
<1> QED BY <1>1, <1>2, <1>3 DEF AMInit, IInv

LEMMA ComputeWhitelistInv == Covered /\ IInv /\ ComputeWhitelist => IInv'
<1> SUFFICES ASSUME Covered, IInv, ComputeWhitelist PROVE IInv'
  OBVIOUS
<1> USE DEF ComputeWhitelist
<1>1. ProblemOK(problem)' /\ Legal'
  BY DEF IInv, Legal, ConstraintsHold
<1>2. (yielded \in Seq(Ids(problem)))' /\ (waiting \subseteq Ids(problem))'
  BY WhitelistType DEF Covered
<1>3. ASSUME NEW i \in Ids(problem)
      PROVE IsApplicable(problem, i, state) <=> i \in waiting' /\ Yields(i)
  <2>1. Yields(i) <=> Accepts(problem, manager, i, state)
    BY DEF Yields, GuaranteesApplicability, Covered, Tested
  <2>2. Accepts(problem, manager, i, state) <=> IsApplicable(problem, i, state)
    BY TestIsExact DEF IInv, Legal, ConstraintsHold, Covered
  <2>3. IsApplicable(problem, i, state) => i \in waiting'
    BY WhitelistComplete DEF IInv, Legal, Covered
  <2> QED BY <2>1, <2>2, <2>3
<1>4. IterationExact'
  BY <1>3 DEF IterationExact, Yielded, Yields
<1> QED BY <1>1, <1>2, <1>4 DEF IInv

LEMMA AdvanceInv == ASSUME NEW i \in waiting, IInv, Advance(i) PROVE IInv'
<1> USE DEF Advance
<1>0. i \in Ids(problem) /\ yielded \in Seq(Ids(problem)) /\ IterationExact
  BY DEF IInv
<1>1. ProblemOK(problem)' /\ Legal'
  BY DEF IInv, Legal, ConstraintsHold
<1>2. (yielded \in Seq(Ids(problem)))' /\ (waiting \subseteq Ids(problem))'
  BY <1>0 DEF IInv
<1>3. CASE Yields(i)
  <2>1. yielded' = Append(yielded, i) /\ waiting' = waiting \ {i}
    BY <1>3
  <2>2. DOMAIN yielded' = 1..(Len(yielded) + 1) /\ DOMAIN yielded = 1..Len(yielded) /\ Len(yielded) \in Nat
    BY <1>0, <2>1
  <2>3. yielded'[Len(yielded) + 1] = i /\ \A k \in DOMAIN yielded : yielded'[k] = yielded[k]
    BY <1>0, <2>1
  <2>4. \A k \in DOMAIN yielded : yielded[k] \notin waiting
    BY <1>0 DEF IterationExact
  <2>5. \A k \in DOMAIN yielded' : yielded'[k] \notin waiting'
    BY <2>1, <2>2, <2>3, <2>4
  <2>6. \A k, m \in DOMAIN yielded' : yielded'[k] = yielded'[m] => k = m
    BY <1>0, <2>2, <2>3, <2>4 DEF IterationExact
  <2>7. ASSUME NEW j \in Ids(problem) PROVE Yielded(j)' <=> Yielded(j) \/ j = i
    BY <2>2, <2>3 DEF Yielded
  <2>8. ASSUME NEW j \in Ids(problem)
        PROVE IsApplicable(problem, j, state) <=> Yielded(j)' \/ (j \in waiting' /\ Yields(j))
    BY <1>0, <1>3, <2>1, <2>7 DEF IterationExact
  <2>9. IterationExact'
    BY <2>5, <2>6, <2>8 DEF IterationExact, Yields
  <2> QED BY <1>1, <1>2, <2>9 DEF IInv
<1>4. CASE ~Yields(i)
  <2>1. yielded' = yielded /\ waiting' = waiting \ {i}
    BY <1>4
  <2>2. ASSUME NEW j \in Ids(problem)
        PROVE IsApplicable(problem, j, state) <=> Yielded(j)' \/ (j \in waiting' /\ Yields(j))
    BY <1>0, <1>4, <2>1 DEF IterationExact, Yielded
  <2>3. IterationExact'
    BY <1>0, <2>1, <2>2 DEF IterationExact, Yields
  <2> QED BY <1>1, <1>2, <2>3 DEF IInv
<1> QED BY <1>3, <1>4

LEMMA EndedInv == IInv /\ Ended => IInv'
<1> SUFFICES ASSUME IInv, Ended PROVE IInv'
  OBVIOUS
<1>1. IterationExact'
  BY DEF IInv, Ended, IterationExact, Yielded, Yields
<1> QED BY <1>1 DEF IInv, Ended, Legal, ConstraintsHold

LEMMA ApplyInv == ASSUME NEW i \in Ids(problem), IInv, Apply(i) PROVE IInv'
<1>1. IsApplicable(problem, i, state)
  BY DEF IInv, IterationExact, Apply, Yielded
<1>2. ActionOK(problem.actions[i])
  BY DEF IInv, ProblemOK, Ids
<1>3. state' \in States
  BY <1>1, <1>2, SuccessorIsState DEF IInv, Legal, IsApplicable, Apply
<1>4. Legal'
  BY <1>1, <1>3 DEF Legal, ConstraintsHold, IsApplicable, Apply
<1> QED BY <1>4 DEF IInv, Apply

LEMMA NextInv == Covered /\ IInv /\ [AMNext]_avars => IInv'
<1> SUFFICES ASSUME Covered, IInv, [AMNext]_avars PROVE IInv'
  OBVIOUS
<1>1. CASE BuildManager
  BY <1>1 DEF BuildManager, IInv, Legal, ConstraintsHold
<1>2. CASE ComputeWhitelist
  BY <1>2, ComputeWhitelistInv
<1>3. CASE IndexOverwritten
  BY <1>3 DEF IndexOverwritten, IInv, Legal, ConstraintsHold
<1>4. CASE Ended
  BY <1>4, EndedInv
<1>5. CASE \E i \in waiting : Advance(i)
  BY <1>5, AdvanceInv
<1>6. CASE \E i \in Ids(problem) : Apply(i)
  BY <1>6, ApplyInv
<1>7. CASE UNCHANGED avars
  BY <1>7 DEF avars, IInv, Legal, ConstraintsHold, IterationExact, Yielded, Yields
<1> QED BY <1>1, <1>2, <1>3, <1>4, <1>5, <1>6, <1>7 DEF AMNext

-----------------------------------------------------------------------------

\* The invariant holds wherever the theorems apply.
LEMMA Invariance == AMSpec => [](Covered => IInv)
<1>1. AMInit => (Covered => IInv)
  BY InitInv
<1>2. (Covered => IInv) /\ [AMNext]_avars => (Covered => IInv)'
  BY CoveredForever, NextInv
<1> QED BY <1>1, <1>2, PTL DEF AMSpec

\* With faithful indexes and an initial state that satisfies the constraints,
\* the iterator of the naive and of the functional-aware manager yields
\* exactly the applicable actions, each once, in every state that is reached
\* (action_managers.hxx:170-238).
THEOREM ManagersExact == AMSpec => [](Covered => ApplicableExact)
<1>1. IInv => ApplicableExact
  <2> SUFFICES ASSUME IInv, stage = "done" PROVE ApplicableExact
    BY DEF ApplicableExact
  <2>1. IterationExact /\ waiting = {}
    BY DEF IInv
  <2> QED BY <2>1 DEF ApplicableExact, IterationExact
<1> QED BY <1>1, Invariance, PTL

\* Under the same conditions every state that is reached is a state, with each
\* variable in its domain, and satisfies every state constraint, although
\* the functional-aware manager tests only those an action affects.
THEOREM ConstraintsPreserved == AMSpec => [](Covered => state \in States /\ ConstraintsHold)
<1>1. IInv => state \in States /\ ConstraintsHold
  BY DEF IInv, Legal
<1> QED BY <1>1, Invariance, PTL
=============================================================================
