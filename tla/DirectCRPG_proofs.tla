-------------------------- MODULE DirectCRPG_proofs --------------------------
(***************************************************************************)
(* Proofs about the native driver: its constraint handlers and the relaxed *)
(* plan heuristic that is built on them.                                   *)
(*                                                                         *)
(* First DirectCSPHandler::filter: whatever the formulas, the domains and  *)
(* the order of the arcs, no solution is lost, and Failure is a proof that *)
(* there is none.  Each filter is treated by a lemma about the operator    *)
(* that models it: the values of a solution stay.  For alldiff that is the *)
(* argument by counting behind Hall intervals, for sums a comparison of    *)
(* two sums.                                                               *)
(*                                                                         *)
(* Then the heuristic: the layers of its graph are those of the delete     *)
(* relaxation, the supports are sufficient, dead ends are real and hmax is *)
(* admissible, for every task that satisfies the premises each theorem     *)
(* names.  The single call of DirectCSP (problem, CallSpec) plays no part  *)
(* in it.                                                                  *)
(*                                                                         *)
(* Then what filter leaves: everything outside the worklist is supported,  *)
(* so that success means local consistency, and on single values that the  *)
(* formulas hold; a single alldiff is bounds consistent, which is Hall's   *)
(* theorem for intervals.  On single values rests the last part, the       *)
(* relaxed plan: the goal causes reach the goal, and the extracted actions *)
(* reach the causes.                                                       *)
(***************************************************************************)
EXTENDS DirectCRPG, DirectCSP, TLAPS, FiniteSetTheorems, SequenceTheorems, WellFoundedInduction

-----------------------------------------------------------------------------
(* Finite sets of integers *)

LEMMA Induction ==
    ASSUME NEW N \in SUBSET Nat, 0 \in N, \A n \in N : n + 1 \in N
    PROVE  N = Nat
<1> DEFINE T == Nat \ N
<1> SUFFICES ASSUME T # {} PROVE FALSE
  OBVIOUS
<1>1. \E x \in T : \A y \in T : ~ (<<y, x>> \in OpToRel(<, Nat))
  <2>1. T \subseteq Nat
    OBVIOUS
  <2> HIDE DEF T
  <2> QED BY <2>1, NatLessThanWellFounded, WFMin
<1>2. PICK x \in T : \A y \in T : ~ (<<y, x>> \in OpToRel(<, Nat))
  BY <1>1
<1>3. \A y \in T : ~ (y < x)
  BY <1>2 DEF OpToRel
<1>4. x \in Nat /\ x \notin N /\ x # 0 /\ x - 1 \in Nat
  OBVIOUS
<1>5. x - 1 \in N
  BY <1>3, <1>4
<1>6. (x - 1) + 1 \in N
  BY <1>5
<1> QED BY <1>4, <1>6

HasBounds(T) == \E a, b \in T : \A x \in T : a <= x /\ x <= b

LEMMA Bounds ==
    ASSUME NEW S \in SUBSET Int, IsFiniteSet(S), S # {}
    PROVE  /\ Min(S) \in S /\ Max(S) \in S
           /\ \A x \in S : Min(S) <= x /\ x <= Max(S)
<1> DEFINE N == {n \in Nat : \A T \in SUBSET Int : IsFiniteSet(T) /\ Cardinality(T) = n + 1 => HasBounds(T)}
<1>1. 0 \in N
  <2> SUFFICES ASSUME NEW T \in SUBSET Int, IsFiniteSet(T), Cardinality(T) = 1 PROVE HasBounds(T)
    OBVIOUS
  <2>1. PICK x : T = {x}
    BY FS_Singleton
  <2> QED BY <2>1 DEF HasBounds
<1>2. ASSUME NEW n \in N PROVE n + 1 \in N
  <2> SUFFICES ASSUME NEW T \in SUBSET Int, IsFiniteSet(T), Cardinality(T) = (n + 1) + 1
               PROVE  HasBounds(T)
    OBVIOUS
  <2>1. T # {}
    BY FS_EmptySet
  <2>2. PICK y \in T : TRUE
    BY <2>1
  <2>3. IsFiniteSet(T \ {y}) /\ Cardinality(T \ {y}) = n + 1
    BY FS_RemoveElement
  <2>4. HasBounds(T \ {y})
    BY <2>3
  <2>5. PICK a, b \in T \ {y} : \A x \in T \ {y} : a <= x /\ x <= b
    BY <2>4 DEF HasBounds
  <2> DEFINE a1 == IF y < a THEN y ELSE a
             b1 == IF y > b THEN y ELSE b
  <2>6. a1 \in T /\ b1 \in T /\ \A x \in T : a1 <= x /\ x <= b1
    BY <2>5
  <2> QED BY <2>6 DEF HasBounds
<1>3. N = Nat
  <2> HIDE DEF N
  <2>1. N \in SUBSET Nat
    BY DEF N
  <2> QED BY <1>1, <1>2, <2>1, Induction
<1>4. Cardinality(S) \in Nat /\ Cardinality(S) # 0
  BY FS_CardinalityType, FS_EmptySet
<1>5. Cardinality(S) - 1 \in Nat /\ Cardinality(S) = (Cardinality(S) - 1) + 1
  BY <1>4
<1>6. HasBounds(S)
  BY <1>3, <1>5
<1>7. PICK a, b \in S : \A x \in S : a <= x /\ x <= b
  BY <1>6 DEF HasBounds
<1>8. Min(S) \in S /\ \A x \in S : Min(S) <= x
  BY <1>7 DEF Min
<1>9. Max(S) \in S /\ \A x \in S : x <= Max(S)
  <2>1. \E z \in S : \A x \in S : z >= x
    BY <1>7
  <2>2. Max(S) \in S /\ \A x \in S : Max(S) >= x
    BY <2>1 DEF Max
  <2> QED BY <2>2
<1> QED BY <1>8, <1>9

\* An injective function from a finite set to one that is no larger is onto.
LEMMA Onto ==
    ASSUME NEW S, NEW T, IsFiniteSet(S), IsFiniteSet(T), Cardinality(T) <= Cardinality(S),
           NEW f \in [S -> T], \A x, y \in S : f[x] = f[y] => x = y
    PROVE  Cardinality(T) = Cardinality(S) /\ \A t \in T : \E x \in S : f[x] = t
<1>1. f \in Injection(S, T)
  BY DEF Injection, IsInjective
<1>2. Cardinality(S) <= Cardinality(T) /\ (Cardinality(S) = Cardinality(T) <=> f \in Surjection(S, T))
  BY <1>1, FS_Injection
<1>3. Cardinality(S) \in Nat /\ Cardinality(T) \in Nat
  BY FS_CardinalityType
<1>4. f \in Surjection(S, T)
  BY <1>2, <1>3
<1> QED BY <1>2, <1>3, <1>4 DEF Surjection

Ascending(q) == \A i, j \in DOMAIN q : i < j => q[i] < q[j]

\* Every finite set of numbers can be listed in ascending order.
LEMMA AscendingExists ==
    ASSUME NEW S \in SUBSET Int, IsFiniteSet(S)
    PROVE  \E q \in [1..Cardinality(S) -> S] : Ascending(q)
<1> DEFINE N == {n \in Nat : \A T \in SUBSET Int : IsFiniteSet(T) /\ Cardinality(T) = n
                                 => \E q \in [1..n -> T] : Ascending(q)}
<1>1. 0 \in N
  <2> SUFFICES ASSUME NEW T \in SUBSET Int PROVE \E q \in [1..0 -> T] : Ascending(q)
    OBVIOUS
  <2>1. [i \in 1..0 |-> 0] \in [1..0 -> T] /\ Ascending([i \in 1..0 |-> 0])
    BY DEF Ascending
  <2> QED BY <2>1
<1>2. ASSUME NEW n \in N PROVE n + 1 \in N
  <2> SUFFICES ASSUME NEW T \in SUBSET Int, IsFiniteSet(T), Cardinality(T) = n + 1
               PROVE  \E q \in [1..(n+1) -> T] : Ascending(q)
    OBVIOUS
  <2>1. T # {}
    BY FS_EmptySet
  <2> DEFINE m == Max(T)
  <2>2. m \in T /\ \A x \in T : x <= m
    BY <2>1, Bounds
  <2> HIDE DEF m
  <2>3. IsFiniteSet(T \ {m}) /\ Cardinality(T \ {m}) = n
    <3>1. IsFiniteSet(T \ {m}) /\ Cardinality(T \ {m}) = Cardinality(T) - 1
      BY <2>2, FS_RemoveElement
    <3>2. n \in Nat
      OBVIOUS
    <3> HIDE DEF N
    <3> QED BY <3>1, <3>2
  <2>4. PICK q \in [1..n -> T \ {m}] : Ascending(q)
    BY <2>3
  <2> DEFINE r == [i \in 1..(n+1) |-> IF i = n + 1 THEN m ELSE q[i]]
  <2>5. r \in [1..(n+1) -> T]
    BY <2>2
  <2>6. ASSUME NEW i \in 1..(n+1), NEW j \in 1..(n+1), i < j PROVE r[i] < r[j]
    <3>1. i \in 1..n /\ r[i] = q[i] /\ q[i] \in T \ {m}
      BY <2>6
    <3>2. CASE j = n + 1
      <4>1. r[j] = m /\ m \in Int /\ r[i] \in Int /\ r[i] <= m /\ r[i] # m
        BY <2>2, <3>1, <3>2
      <4> QED BY <4>1
    <3>3. CASE j # n + 1
      BY <2>4, <2>6, <3>1, <3>3 DEF Ascending
    <3> QED BY <3>2, <3>3
  <2> QED BY <2>5, <2>6 DEF Ascending
<1>3. N = Nat
  <2> HIDE DEF N
  <2>1. N \in SUBSET Nat
    BY DEF N
  <2> QED BY <1>1, <1>2, <2>1, Induction
<1>4. Cardinality(S) \in N
  BY <1>3, FS_CardinalityType
<1> QED BY <1>4

-----------------------------------------------------------------------------
(* Scopes *)

LEMMA ScopeFacts ==
    ASSUME NEW f, VarsOf(f) \subseteq Int, IsFiniteSet(VarsOf(f))
    PROVE  LET q == ComputeDirectScope(f)
               n == Cardinality(VarsOf(f))
           IN  /\ n \in Nat /\ q \in [1..n -> VarsOf(f)] /\ Len(q) = n /\ DOMAIN q = 1..n
               /\ \A i, j \in 1..n : i < j => q[i] < q[j]
               /\ \A i, j \in 1..n : q[i] = q[j] => i = j
               /\ \A v \in VarsOf(f) : \E i \in 1..n : q[i] = v
<1> DEFINE q == ComputeDirectScope(f)
           n == Cardinality(VarsOf(f))
<1>1. n \in Nat
  BY FS_CardinalityType
<1>2. \E r \in [1..n -> VarsOf(f)] : \A i, j \in DOMAIN r : i < j => r[i] < r[j]
  BY AscendingExists DEF Ascending
<1>3. q \in [1..n -> VarsOf(f)] /\ \A i, j \in DOMAIN q : i < j => q[i] < q[j]
  BY <1>2 DEF ComputeDirectScope
<1> HIDE DEF q
<1>4. Len(q) = n /\ DOMAIN q = 1..n
  BY <1>1, <1>3
<1>5. \A i, j \in 1..n : q[i] = q[j] => i = j
  <2> SUFFICES ASSUME NEW i \in 1..n, NEW j \in 1..n, q[i] = q[j], i # j PROVE FALSE
    OBVIOUS
  <2>1. i < j \/ j < i
    BY <1>1
  <2>2. q[i] \in Int /\ q[j] \in Int
    BY <1>3
  <2> QED BY <1>3, <1>4, <2>1, <2>2
<1>6. \A v \in VarsOf(f) : \E i \in 1..n : q[i] = v
  <2>1. IsFiniteSet(1..n) /\ Cardinality(1..n) = n
    BY <1>1, FS_Interval
  <2> HIDE DEF n
  <2>2. Cardinality(VarsOf(f)) <= Cardinality(1..n)
    BY <1>1, <2>1 DEF n
  <2>3. \A x, y \in 1..n : q[x] = q[y] => x = y
    BY <1>5
  <2>4. q \in [1..n -> VarsOf(f)]
    BY <1>3
  <2>5. \A t \in VarsOf(f) : \E x \in 1..n : q[x] = t
    <3> DEFINE I == 1..n
               V == VarsOf(f)
    <3>1. IsFiniteSet(I) /\ IsFiniteSet(V) /\ Cardinality(V) <= Cardinality(I) /\ q \in [I -> V]
      BY <2>1, <2>2, <2>4
    <3>2. \A x, y \in I : q[x] = q[y] => x = y
      BY <2>3
    <3> HIDE DEF I, V
    <3>3. \A t \in V : \E x \in I : q[x] = t
      BY <3>1, <3>2, Onto
    <3> QED BY <3>3 DEF I, V
  <2> QED BY <2>5
<1> QED BY <1>1, <1>3, <1>4, <1>5, <1>6 DEF q

-----------------------------------------------------------------------------
(***************************************************************************)
(* Alldiff: the parts of BoundsConsistency for positions P with minima lo  *)
(* and maxima hi.  Crowd(c, i) are the positions counted in u(c, i): the   *)
(* values of all of them lie in lo[c]..hi[i].                              *)
(***************************************************************************)
Earlier(P, lo, j)    == {k \in P : k < j /\ lo[k] >= lo[j]}
Later(P, lo, j, i)   == {k \in P : j < k /\ k <= i /\ lo[j] < lo[k]}
Upper(P, lo, j, i)   == lo[j] + Cardinality(Earlier(P, lo, j)) + Cardinality(Later(P, lo, j, i))
Candidates(P, lo, i) == {j \in P : j < i /\ lo[j] < lo[i]} \cup {i}
Halls(P, lo, hi, i)  == {lo[j] : j \in {c \in Candidates(P, lo, i) : Upper(P, lo, c, i) = hi[i]}}
Raised(P, lo, hi, i, j) ==
    i < j /\ Halls(P, lo, hi, i) # {} /\ lo[j] >= Min(Halls(P, lo, hi, i))
Overfull(P, lo, hi)  == \E i \in P : \E j \in Candidates(P, lo, i) : Upper(P, lo, j, i) > hi[i]

LEMMA BoundsConsistencyIs ==
    ASSUME NEW D, NEW o
    PROVE  LET P  == DOMAIN D
               lo == [i \in P |-> Min(D[o[i]])]
               hi == [i \in P |-> Max(D[o[i]])]
           IN  BoundsConsistency(D, o) =
                 [failed |-> Overfull(P, lo, hi),
                  dom |-> [v \in P |->
                             LET j == CHOOSE p \in P : o[p] = v
                             IN  {x \in D[v] : \A i \in P : Raised(P, lo, hi, i, j) => x > hi[i]}]]
BY DEF BoundsConsistency, Overfull, Raised, Halls, Candidates, Upper, Later, Earlier

\* Bounds of n variables, sorted by their maxima.
Sorted(n, lo, hi) ==
    /\ n \in Nat /\ lo \in [1..n -> Int] /\ hi \in [1..n -> Int]
    /\ \A i \in 1..n : lo[i] <= hi[i]
    /\ \A i, j \in 1..n : i < j => hi[i] <= hi[j]

Crowd(P, lo, c, i) == {c} \cup Earlier(P, lo, c) \cup Later(P, lo, c, i)

LEMMA CrowdFacts ==
    ASSUME NEW n, NEW lo, NEW hi, Sorted(n, lo, hi),
           NEW i \in 1..n, NEW c \in Candidates(1..n, lo, i)
    PROVE  LET K == Crowd(1..n, lo, c, i)
           IN  /\ c \in 1..n /\ c <= i
               /\ K \subseteq 1..n /\ IsFiniteSet(K) /\ Cardinality(K) \in Nat
               /\ \A k \in K : k <= i /\ lo[c] <= lo[k] /\ hi[k] <= hi[i]
               /\ Upper(1..n, lo, c, i) = lo[c] + Cardinality(K) - 1
               /\ Upper(1..n, lo, c, i) \in Int
<1> DEFINE P == 1..n
           A == Earlier(P, lo, c)
           B == Later(P, lo, c, i)
           K == Crowd(P, lo, c, i)
<1>1. n \in Nat /\ lo \in [P -> Int] /\ hi \in [P -> Int] /\ i \in P /\ c \in P /\ c <= i
  BY DEF Sorted, Candidates
<1>2. IsFiniteSet(P)
  BY <1>1, FS_Interval
<1>3. A \subseteq P /\ B \subseteq P /\ c \notin A \cup B /\ A \cap B = {}
  BY <1>1 DEF Earlier, Later
<1>4. \A k \in A \cup B \cup {c} : k <= i /\ lo[c] <= lo[k]
  BY <1>1 DEF Earlier, Later
<1>5. \A k \in P : k <= i => hi[k] <= hi[i]
  BY <1>1 DEF Sorted
<1> HIDE DEF A, B, P
<1>6. /\ IsFiniteSet(A) /\ IsFiniteSet(B)
      /\ Cardinality(A) \in Nat /\ Cardinality(B) \in Nat
  BY <1>2, <1>3, FS_Subset, FS_CardinalityType
<1>7. IsFiniteSet(A \cup B) /\ Cardinality(A \cup B) = Cardinality(A) + Cardinality(B)
  <2>1. Cardinality(A \cap B) = 0
    BY <1>3, FS_EmptySet
  <2>2. /\ IsFiniteSet(A \cup B)
        /\ Cardinality(A \cup B) = Cardinality(A) + Cardinality(B) - Cardinality(A \cap B)
    BY <1>6, FS_Union
  <2> QED BY <1>6, <2>1, <2>2
<1>8. IsFiniteSet((A \cup B) \cup {c}) /\ Cardinality((A \cup B) \cup {c}) = Cardinality(A \cup B) + 1
  BY <1>3, <1>7, FS_AddElement
<1>9. K = (A \cup B) \cup {c}
  BY DEF Crowd, A, B
<1>10. Upper(P, lo, c, i) = lo[c] + Cardinality(A) + Cardinality(B)
  BY DEF Upper, A, B
<1>11. lo[c] \in Int
  BY <1>1
<1> HIDE DEF K
<1>12. K \subseteq P /\ \A k \in K : k <= i /\ lo[c] <= lo[k] /\ hi[k] <= hi[i]
  BY <1>1, <1>3, <1>4, <1>5, <1>9
<1>13. Cardinality(K) = Cardinality(A) + Cardinality(B) + 1 /\ IsFiniteSet(K)
  BY <1>7, <1>8, <1>9
<1>14. Upper(P, lo, c, i) = lo[c] + Cardinality(K) - 1 /\ Upper(P, lo, c, i) \in Int /\ Cardinality(K) \in Nat
  BY <1>6, <1>10, <1>11, <1>13
<1> QED BY <1>1, <1>12, <1>13, <1>14 DEF K, P

\* Different values within the bounds.
Fits(n, lo, hi, val) ==
    /\ val \in [1..n -> Int]
    /\ \A k \in 1..n : lo[k] <= val[k] /\ val[k] <= hi[k]
    /\ \A j, k \in 1..n : val[j] = val[k] => j = k

\* A crowd has room between its bounds, and fills them if there is none left.
LEMMA CrowdFits ==
    ASSUME NEW n, NEW lo, NEW hi, Sorted(n, lo, hi), NEW val, Fits(n, lo, hi, val),
           NEW i \in 1..n, NEW c \in Candidates(1..n, lo, i)
    PROVE  /\ Upper(1..n, lo, c, i) <= hi[i]
           /\ Upper(1..n, lo, c, i) = hi[i] =>
                 \A x \in lo[c]..hi[i] : \E k \in Crowd(1..n, lo, c, i) : val[k] = x
<1> DEFINE K == Crowd(1..n, lo, c, i)
           T == lo[c]..hi[i]
           f == [k \in K |-> val[k]]
           u == Upper(1..n, lo, c, i)
<1>1. /\ c \in 1..n /\ c <= i
      /\ K \subseteq 1..n /\ IsFiniteSet(K) /\ Cardinality(K) \in Nat
      /\ \A k \in K : k <= i /\ lo[c] <= lo[k] /\ hi[k] <= hi[i]
      /\ u = lo[c] + Cardinality(K) - 1 /\ u \in Int
  BY CrowdFacts
<1>2. /\ n \in Nat /\ lo \in [1..n -> Int] /\ hi \in [1..n -> Int] /\ val \in [1..n -> Int]
      /\ \A k \in 1..n : lo[k] <= val[k] /\ val[k] <= hi[k]
      /\ \A j, k \in 1..n : val[j] = val[k] => j = k
  BY DEF Sorted, Fits
<1>3. lo[c] \in Int /\ hi[i] \in Int /\ lo[c] <= hi[i]
  <2>1. lo[c] <= hi[c] /\ hi[c] <= hi[i] /\ lo[c] \in Int /\ hi[c] \in Int /\ hi[i] \in Int
    BY <1>1, <1>2 DEF Sorted
  <2> QED BY <2>1
<1>4. IsFiniteSet(T) /\ Cardinality(T) = hi[i] - lo[c] + 1
  BY <1>3, FS_Interval
<1>5. \A k \in K : val[k] \in T
  <2> SUFFICES ASSUME NEW k \in K PROVE val[k] \in T
    OBVIOUS
  <2>1. k \in 1..n /\ lo[c] <= lo[k] /\ hi[k] <= hi[i]
    BY <1>1
  <2>2. lo[k] \in Int /\ hi[k] \in Int /\ val[k] \in Int /\ lo[k] <= val[k] /\ val[k] <= hi[k]
    BY <1>2, <2>1
  <2> QED BY <1>3, <2>1, <2>2
<1> HIDE DEF K, T
<1>6. f \in [K -> T]
  BY <1>5
<1>7. \A x, y \in K : f[x] = f[y] => x = y
  BY <1>1, <1>2
<1> HIDE DEF f
<1>8. f \in Injection(K, T)
  BY <1>6, <1>7 DEF Injection, IsInjective
<1>9. Cardinality(K) <= Cardinality(T)
  BY <1>4, <1>8, FS_Injection
<1> HIDE DEF u
<1>10. u <= hi[i]
  BY <1>1, <1>3, <1>4, <1>9
<1>11. ASSUME u = hi[i] PROVE \A x \in T : \E k \in K : val[k] = x
  <2>1. Cardinality(T) <= Cardinality(K)
    BY <1>1, <1>3, <1>4, <1>11
  <2>2. \A x \in T : \E k \in K : f[k] = x
    <3>1. IsFiniteSet(K) /\ IsFiniteSet(T)
      BY <1>1, <1>4
    <3> QED BY <1>6, <1>7, <2>1, <3>1, Onto
  <2> QED BY <2>2 DEF f
<1> QED BY <1>10, <1>11 DEF u, K, T

LEMMA HallsFacts ==
    ASSUME NEW n, NEW lo, NEW hi, Sorted(n, lo, hi), NEW i \in 1..n
    PROVE  Halls(1..n, lo, hi, i) \subseteq Int /\ IsFiniteSet(Halls(1..n, lo, hi, i))
<1> DEFINE C == {c \in Candidates(1..n, lo, i) : Upper(1..n, lo, c, i) = hi[i]}
           H == Halls(1..n, lo, hi, i)
           g == [c \in C |-> lo[c]]
<1>1. n \in Nat /\ lo \in [1..n -> Int]
  BY DEF Sorted
<1>2. C \subseteq 1..n
  BY DEF Candidates
<1>3. H = {lo[c] : c \in C}
  BY DEF Halls
<1> HIDE DEF C, H
<1>4. H \subseteq Int
  BY <1>1, <1>2, <1>3
<1>5. IsFiniteSet(1..n)
  BY <1>1, FS_Interval
<1>6. IsFiniteSet(C)
  BY <1>2, <1>5, FS_Subset
<1>7. g \in Surjection(C, H)
  BY <1>3 DEF Surjection
<1>8. IsFiniteSet(H)
  BY <1>6, <1>7, FS_Surjection
<1> QED BY <1>4, <1>8 DEF H

\* Position j is raised above the bounds of a crowd that fills them.
LEMMA RaisedFacts ==
    ASSUME NEW n, NEW lo, NEW hi, Sorted(n, lo, hi), NEW i \in 1..n, NEW j \in 1..n,
           Raised(1..n, lo, hi, i, j)
    PROVE  i < j /\ \E c \in Candidates(1..n, lo, i) :
                        Upper(1..n, lo, c, i) = hi[i] /\ lo[c] <= lo[j]
<1> DEFINE H == Halls(1..n, lo, hi, i)
<1>1. n \in Nat /\ lo \in [1..n -> Int]
  BY DEF Sorted
<1>2. Candidates(1..n, lo, i) \subseteq 1..n
  BY DEF Candidates
<1>3. H = {lo[c] : c \in {c \in Candidates(1..n, lo, i) : Upper(1..n, lo, c, i) = hi[i]}}
  BY DEF Halls
<1>4. H \subseteq Int
  BY HallsFacts
<1>5. IsFiniteSet(H)
  BY HallsFacts
<1>6. i < j /\ H # {} /\ lo[j] >= Min(H)
  BY DEF Raised
<1> HIDE DEF H
<1>7. Min(H) \in H
  BY <1>4, <1>5, <1>6, Bounds
<1>8. PICK c \in Candidates(1..n, lo, i) : Upper(1..n, lo, c, i) = hi[i] /\ lo[c] = Min(H)
  BY <1>3, <1>7
<1>9. lo[c] <= lo[j]
  BY <1>4, <1>6, <1>7, <1>8, <1>1
<1> QED BY <1>6, <1>8, <1>9

LEMMA RaisedValue ==
    ASSUME NEW n, NEW lo, NEW hi, Sorted(n, lo, hi), NEW val, Fits(n, lo, hi, val),
           NEW i \in 1..n, NEW j \in 1..n, Raised(1..n, lo, hi, i, j)
    PROVE  val[j] > hi[i]
<1>1. i < j
  BY RaisedFacts
<1>2. PICK c \in Candidates(1..n, lo, i) : Upper(1..n, lo, c, i) = hi[i] /\ lo[c] <= lo[j]
  BY RaisedFacts
<1>3. /\ c \in 1..n /\ Crowd(1..n, lo, c, i) \subseteq 1..n
      /\ \A k \in Crowd(1..n, lo, c, i) : k <= i
  BY CrowdFacts
<1>4. /\ n \in Nat /\ lo[c] \in Int /\ lo[j] \in Int /\ hi[i] \in Int /\ val[j] \in Int
      /\ lo[j] <= val[j] /\ \A k \in 1..n : val[k] = val[j] => k = j
  BY <1>3 DEF Sorted, Fits
<1>5. \A x \in lo[c]..hi[i] : \E k \in Crowd(1..n, lo, c, i) : val[k] = x
  BY <1>2, CrowdFits
<1>6. val[j] \notin lo[c]..hi[i]
  <2> SUFFICES ASSUME val[j] \in lo[c]..hi[i] PROVE FALSE
    OBVIOUS
  <2>1. PICK k \in Crowd(1..n, lo, c, i) : val[k] = val[j]
    BY <1>5
  <2>2. k = j /\ k <= i
    BY <1>3, <1>4, <2>1
  <2> QED BY <1>1, <1>4, <2>2
<1> QED BY <1>2, <1>4, <1>6

\* If no crowd is overfull the greatest value of j survives.
LEMMA RaisedRoom ==
    ASSUME NEW n, NEW lo, NEW hi, Sorted(n, lo, hi), ~Overfull(1..n, lo, hi),
           NEW i \in 1..n, NEW j \in 1..n, Raised(1..n, lo, hi, i, j)
    PROVE  hi[j] > hi[i]
<1>1. i < j
  BY RaisedFacts
<1>2. PICK c \in Candidates(1..n, lo, i) : Upper(1..n, lo, c, i) = hi[i] /\ lo[c] <= lo[j]
  BY RaisedFacts
<1> DEFINE K == Crowd(1..n, lo, c, i)
           d == IF lo[c] < lo[j] THEN c ELSE j
           L == Crowd(1..n, lo, d, j)
<1>3. /\ c \in 1..n /\ c <= i /\ K \subseteq 1..n /\ IsFiniteSet(K) /\ Cardinality(K) \in Nat
      /\ \A k \in K : k <= i /\ lo[c] <= lo[k]
      /\ Upper(1..n, lo, c, i) = lo[c] + Cardinality(K) - 1
  BY CrowdFacts
<1>4. /\ n \in Nat /\ lo \in [1..n -> Int] /\ hi[i] \in Int /\ hi[j] \in Int /\ hi[i] <= hi[j]
  BY <1>1 DEF Sorted
<1>5. lo[c] \in Int /\ lo[j] \in Int /\ lo[d] = lo[c]
  BY <1>2, <1>3, <1>4
<1>6. d \in Candidates(1..n, lo, j)
  BY <1>1, <1>3, <1>4 DEF Candidates
<1>7. K \cup {j} \subseteq L
  <2>1. CASE lo[c] < lo[j]
    <3>1. d = c
      BY <2>1
    <3>2. \A k \in Later(1..n, lo, c, i) : k \in Later(1..n, lo, c, j)
      BY <1>1, <1>3, <1>4 DEF Later
    <3>3. j \in Later(1..n, lo, c, j)
      BY <1>1, <1>3, <1>4, <2>1 DEF Later
    <3> QED BY <3>1, <3>2, <3>3 DEF Crowd
  <2>2. CASE ~ (lo[c] < lo[j])
    <3>1. d = j /\ lo[c] = lo[j]
      BY <1>2, <1>5, <2>2
    <3>2. \A k \in K : k \in Earlier(1..n, lo, j)
      <4> SUFFICES ASSUME NEW k \in K PROVE k \in Earlier(1..n, lo, j)
        OBVIOUS
      <4>1. k \in 1..n /\ k <= i /\ lo[c] <= lo[k]
        BY <1>3
      <4>2. k < j /\ lo[k] >= lo[j]
        BY <1>1, <1>4, <3>1, <4>1
      <4> QED BY <4>1, <4>2 DEF Earlier
    <3> QED BY <3>1, <3>2 DEF Crowd
  <2> QED BY <2>1, <2>2
<1>8. /\ IsFiniteSet(L) /\ Cardinality(L) \in Nat
      /\ Upper(1..n, lo, d, j) = lo[d] + Cardinality(L) - 1
  BY <1>6, CrowdFacts
<1>9. j \notin K
  BY <1>1, <1>3
<1> HIDE DEF K, L, d
<1>10. Cardinality(K \cup {j}) = Cardinality(K) + 1
  BY <1>3, <1>9, FS_AddElement
<1>11. Cardinality(K) + 1 <= Cardinality(L)
  BY <1>7, <1>8, <1>10, FS_Subset
<1>12. ~ (Upper(1..n, lo, d, j) > hi[j])
  BY <1>6 DEF Overfull
<1>13. Upper(1..n, lo, d, j) \in Int
  BY <1>5, <1>8
<1>14. lo[c] + Cardinality(K) - 1 = hi[i]
  BY <1>2, <1>3
<1>15. lo[c] + Cardinality(L) - 1 <= hi[j]
  BY <1>4, <1>5, <1>8, <1>12, <1>13
<1> QED BY <1>3, <1>4, <1>5, <1>8, <1>11, <1>14, <1>15

-----------------------------------------------------------------------------
(* One pass, and the whole filter *)

\* Domains that every filter works on: finite sets of numbers, none empty.
DomainsOver(P, D) ==
    D \in [P -> SUBSET Int] /\ \A v \in P : D[v] # {} /\ IsFiniteSet(D[v])

\* Filtering domains D to the domains E, which it may shrink.
Shrunk(P, D, E) == DomainsOver(P, E) /\ \A v \in P : E[v] \subseteq D[v]

\* An assignment of different values from domains D.
Different(P, D, val) ==
    /\ val \in [P -> Int]
    /\ \A v \in P : val[v] \in D[v]
    /\ \A v, w \in P : val[v] = val[w] => v = w

\* The bounds of the domains, in the order o.
LEMMA PassSorted ==
    ASSUME NEW n \in Nat, NEW D, DomainsOver(1..n, D), NEW o \in SortVariables(D)
    PROVE  LET lo == [i \in 1..n |-> Min(D[o[i]])]
               hi == [i \in 1..n |-> Max(D[o[i]])]
           IN  /\ Sorted(n, lo, hi)
               /\ \A i \in 1..n : lo[i] = Min(D[o[i]]) /\ hi[i] = Max(D[o[i]]) /\ o[i] \in 1..n
<1> DEFINE P  == 1..n
           lo == [i \in P |-> Min(D[o[i]])]
           hi == [i \in P |-> Max(D[o[i]])]
<1>1. DOMAIN D = P /\ D \in [P -> SUBSET Int] /\ \A v \in P : D[v] # {} /\ IsFiniteSet(D[v])
  BY DEF DomainsOver
<1>2. o \in [P -> P]
  BY <1>1 DEF SortVariables, Bijection, Injection
<1>3. \A i, j \in P : i < j => Max(D[o[i]]) <= Max(D[o[j]])
  BY <1>1 DEF SortVariables
<1>4. \A v \in P : Min(D[v]) \in Int /\ Max(D[v]) \in Int /\ Min(D[v]) <= Max(D[v])
  <2> TAKE v \in P
  <2>1. Min(D[v]) \in D[v] /\ Max(D[v]) \in D[v] /\ D[v] \subseteq Int /\ \A x \in D[v] : x <= Max(D[v])
    BY <1>1, Bounds
  <2> QED BY <2>1
<1>5. \A i \in P : lo[i] = Min(D[o[i]]) /\ hi[i] = Max(D[o[i]]) /\ o[i] \in P
  BY <1>2
<1>6. lo \in [P -> Int] /\ hi \in [P -> Int]
  <2>1. \A i \in P : Min(D[o[i]]) \in Int /\ Max(D[o[i]]) \in Int
    BY <1>4, <1>5
  <2> QED BY <2>1
<1> HIDE DEF lo, hi
<1>7. Sorted(n, lo, hi)
  BY <1>3, <1>4, <1>5, <1>6 DEF Sorted
<1> QED BY <1>5, <1>7 DEF lo, hi, P

LEMMA PassFacts ==
    ASSUME NEW n \in Nat, NEW D, DomainsOver(1..n, D), NEW o \in SortVariables(D)
    PROVE  LET p == BoundsConsistency(D, o)
           IN  /\ p = [failed |-> p.failed, dom |-> p.dom] /\ p.failed \in BOOLEAN
               /\ ~p.failed => Shrunk(1..n, D, p.dom)
               /\ \A val : Different(1..n, D, val) => ~p.failed /\ Different(1..n, p.dom, val)
<1> DEFINE P  == 1..n
           lo == [i \in P |-> Min(D[o[i]])]
           hi == [i \in P |-> Max(D[o[i]])]
           pos(v) == CHOOSE q \in P : o[q] = v
           left == [v \in P |-> {x \in D[v] : \A i \in P : Raised(P, lo, hi, i, pos(v)) => x > hi[i]}]
           p == BoundsConsistency(D, o)
<1>1. DOMAIN D = P /\ D \in [P -> SUBSET Int] /\ \A v \in P : D[v] # {} /\ IsFiniteSet(D[v])
  BY DEF DomainsOver
<1>2. p = [failed |-> Overfull(P, lo, hi), dom |-> left]
  BY <1>1, BoundsConsistencyIs
<1>3. o \in [P -> P] /\ (\A q, r \in P : o[q] = o[r] => q = r) /\ \A v \in P : \E q \in P : o[q] = v
  BY <1>1 DEF SortVariables, Bijection, Injection, Surjection, IsInjective
<1>4. \A i, j \in P : i < j => Max(D[o[i]]) <= Max(D[o[j]])
  BY <1>1 DEF SortVariables
<1>5. \A v \in P : /\ Min(D[v]) \in D[v] /\ Max(D[v]) \in D[v] /\ D[v] \subseteq Int
                   /\ \A x \in D[v] : Min(D[v]) <= x /\ x <= Max(D[v])
  BY <1>1, Bounds
<1>6. \A v \in P : pos(v) \in P /\ o[pos(v)] = v
  BY <1>3
<1>7. Sorted(n, lo, hi)
  BY PassSorted
<1>8. \A v \in P : hi[pos(v)] = Max(D[v]) /\ lo[pos(v)] = Min(D[v])
  BY <1>6
<1> HIDE DEF lo, hi, pos
<1>9. ASSUME ~Overfull(P, lo, hi) PROVE Shrunk(P, D, left)
  <2>1. \A v \in P : left[v] \subseteq D[v] /\ IsFiniteSet(left[v]) /\ left[v] \subseteq Int
    BY <1>1, FS_Subset
  <2>2. \A v \in P : Max(D[v]) \in left[v]
    <3> SUFFICES ASSUME NEW v \in P, NEW i \in P, Raised(P, lo, hi, i, pos(v))
                 PROVE  Max(D[v]) > hi[i]
      BY <1>5
    <3>1. hi[pos(v)] > hi[i]
      BY <1>6, <1>7, <1>9, RaisedRoom
    <3> QED BY <1>8, <3>1
  <2>3. left \in [P -> SUBSET Int]
    BY <2>1
  <2> HIDE DEF left
  <2> QED BY <2>1, <2>2, <2>3 DEF Shrunk, DomainsOver
<1>10. ASSUME NEW val, Different(P, D, val)
       PROVE  ~Overfull(P, lo, hi) /\ Different(P, left, val)
  <2> DEFINE w == [i \in P |-> val[o[i]]]
  <2>1. val \in [P -> Int] /\ (\A v \in P : val[v] \in D[v]) /\ \A u, v \in P : val[u] = val[v] => u = v
    BY <1>10 DEF Different
  <2>2. \A i \in P : o[i] \in P /\ pos(o[i]) = i
    BY <1>3, <1>6
  <2>3. Fits(n, lo, hi, w)
    <3>1. w \in [P -> Int]
      BY <1>3, <2>1
    <3>2. ASSUME NEW i \in P PROVE lo[i] <= w[i] /\ w[i] <= hi[i]
      <4>1. o[i] \in P /\ lo[i] = Min(D[o[i]]) /\ hi[i] = Max(D[o[i]]) /\ w[i] = val[o[i]]
        BY <1>8, <2>2
      <4> HIDE DEF w
      <4> QED BY <1>5, <2>1, <4>1
    <3>3. \A i, j \in P : w[i] = w[j] => i = j
      BY <1>3, <2>1
    <3> HIDE DEF w
    <3> QED BY <3>1, <3>2, <3>3 DEF Fits
  <2>4. ~Overfull(P, lo, hi)
    <3> SUFFICES ASSUME NEW i \in P, NEW c \in Candidates(P, lo, i), Upper(P, lo, c, i) > hi[i]
                 PROVE  FALSE
      BY DEF Overfull
    <3>1. Upper(P, lo, c, i) <= hi[i]
      BY <1>7, <2>3, CrowdFits
    <3>2. hi[i] \in Int /\ Upper(P, lo, c, i) \in Int
      BY <1>7, CrowdFacts DEF Sorted
    <3> QED BY <3>1, <3>2
  <2>5. \A v \in P : val[v] \in left[v]
    <3> SUFFICES ASSUME NEW v \in P, NEW i \in P, Raised(P, lo, hi, i, pos(v))
                 PROVE  val[v] > hi[i]
      BY <2>1
    <3>1. w[pos(v)] > hi[i]
      BY <1>6, <1>7, <2>3, RaisedValue
    <3> QED BY <1>6, <3>1
  <2> HIDE DEF left
  <2> QED BY <2>1, <2>4, <2>5 DEF Different
<1> HIDE DEF left
<1>11. p.failed = Overfull(P, lo, hi) /\ p.dom = left
  BY <1>2
<1>12. Overfull(P, lo, hi) \in BOOLEAN
  BY DEF Overfull
<1> QED BY <1>2, <1>9, <1>10, <1>11, <1>12 DEF P

LEMMA InvertFacts ==
    ASSUME NEW P, NEW D, DomainsOver(P, D)
    PROVE  /\ DomainsOver(P, InvertDomains(D))
           /\ \A v \in P : \A x \in Int : x \in InvertDomains(D)[v] <=> -x \in D[v]
<1> DEFINE J == InvertDomains(D)
<1>1. D \in [P -> SUBSET Int] /\ \A v \in P : D[v] # {} /\ IsFiniteSet(D[v]) /\ D[v] \subseteq Int
  BY DEF DomainsOver
<1>2. J = [v \in P |-> {-x : x \in D[v]}]
  BY <1>1 DEF InvertDomains
<1> HIDE DEF J
<1>3. \A v \in P : J[v] = {-x : x \in D[v]}
  BY <1>2
<1>4. ASSUME NEW v \in P, NEW x \in Int PROVE x \in J[v] <=> -x \in D[v]
  <2>1. x \in J[v] => -x \in D[v]
    <3> SUFFICES ASSUME x \in J[v] PROVE -x \in D[v]
      OBVIOUS
    <3>1. PICK y \in D[v] : x = -y
      BY <1>3
    <3>2. y \in Int /\ -x = y
      BY <1>1, <3>1
    <3> QED BY <3>2
  <2>2. -x \in D[v] => x \in J[v]
    <3>1. - (-x) = x
      OBVIOUS
    <3> QED BY <1>3, <3>1
  <2> QED BY <2>1, <2>2
<1>5. \A v \in P : J[v] # {} /\ J[v] \subseteq Int
  BY <1>1, <1>3
<1>6. ASSUME NEW v \in P PROVE IsFiniteSet(J[v])
  <2> DEFINE g == [x \in D[v] |-> -x]
  <2>1. g \in Surjection(D[v], J[v])
    BY <1>3 DEF Surjection
  <2> QED BY <1>1, <2>1, FS_Surjection
<1>7. J \in [P -> SUBSET Int]
  BY <1>2, <1>5
<1> QED BY <1>4, <1>5, <1>6, <1>7 DEF DomainsOver, J

\* Alldiff loses no assignment of different values, and fails only without one.
LEMMA AlldiffFacts ==
    ASSUME NEW n \in Nat, NEW D, DomainsOver(1..n, D), NEW E \in FilterAlldiff(D)
    PROVE  /\ ~E.failed => Shrunk(1..n, D, E.dom)
           /\ \A val : Different(1..n, D, val) => ~E.failed /\ Different(1..n, E.dom, val)
<1> DEFINE P == 1..n
<1>1. PICK o \in SortVariables(D) :
        LET p == BoundsConsistency(D, o)
        IN  \/ p.failed /\ E = p
            \/ ~p.failed /\ \E r \in SortVariables(InvertDomains(p.dom)) :
                  E = [BoundsConsistency(InvertDomains(p.dom), r) EXCEPT !.dom = InvertDomains(@)]
  BY DEF FilterAlldiff
<1> DEFINE p == BoundsConsistency(D, o)
<1>2. /\ ~p.failed => Shrunk(P, D, p.dom)
      /\ \A val : Different(P, D, val) => ~p.failed /\ Different(P, p.dom, val)
  BY PassFacts
<1>3. CASE p.failed /\ E = p
  BY <1>2, <1>3
<1>4. CASE ~p.failed /\ \E r \in SortVariables(InvertDomains(p.dom)) :
                  E = [BoundsConsistency(InvertDomains(p.dom), r) EXCEPT !.dom = InvertDomains(@)]
  <2> DEFINE J == InvertDomains(p.dom)
  <2>1. PICK r \in SortVariables(J) : E = [BoundsConsistency(J, r) EXCEPT !.dom = InvertDomains(@)]
    BY <1>4
  <2> DEFINE q == BoundsConsistency(J, r)
  <2>2. DomainsOver(P, p.dom) /\ \A v \in P : p.dom[v] \subseteq D[v]
    BY <1>2, <1>4 DEF Shrunk
  <2> HIDE DEF p
  <2>3. DomainsOver(P, J) /\ \A v \in P : \A x \in Int : x \in J[v] <=> -x \in p.dom[v]
    BY <2>2, InvertFacts
  <2> HIDE DEF J
  <2>4. /\ q = [failed |-> q.failed, dom |-> q.dom]
        /\ ~q.failed => Shrunk(P, J, q.dom)
        /\ \A val : Different(P, J, val) => ~q.failed /\ Different(P, q.dom, val)
    BY <2>3, PassFacts
  <2>5. E = [q EXCEPT !.dom = InvertDomains(@)]
    BY <2>1
  <2> HIDE DEF q
  <2>6. E.failed = q.failed /\ E.dom = InvertDomains(q.dom)
    BY <2>4, <2>5
  <2>7. ASSUME ~q.failed
        PROVE  /\ DomainsOver(P, E.dom)
               /\ \A v \in P : \A x \in Int : x \in E.dom[v] <=> -x \in q.dom[v]
    <3>1. DomainsOver(P, q.dom)
      BY <2>4, <2>7 DEF Shrunk
    <3> QED BY <2>6, <3>1, InvertFacts
  <2>8. ASSUME ~E.failed PROVE Shrunk(P, D, E.dom)
    <3>1. DomainsOver(P, E.dom)
      BY <2>6, <2>7, <2>8
    <3>2. ASSUME NEW v \in P, NEW x \in E.dom[v] PROVE x \in D[v]
      <4>1. x \in Int
        BY <3>1 DEF DomainsOver
      <4>2. -x \in q.dom[v] /\ -x \in Int
        BY <2>6, <2>7, <2>8, <4>1
      <4>3. -x \in J[v]
        BY <2>4, <2>6, <2>8, <4>2 DEF Shrunk
      <4>4. - (-x) = x
        BY <4>1
      <4>5. x \in p.dom[v]
        BY <2>3, <4>2, <4>3, <4>4
      <4> QED BY <2>2, <4>5
    <3> QED BY <3>1, <3>2 DEF Shrunk
  <2>9. ASSUME NEW val, Different(P, D, val)
        PROVE  ~E.failed /\ Different(P, E.dom, val)
    <3> DEFINE neg == [v \in P |-> -val[v]]
    <3>1. Different(P, p.dom, val)
      BY <1>2, <2>9 DEF p
    <3>2. /\ val \in [P -> Int] /\ (\A v \in P : val[v] \in p.dom[v])
          /\ \A v, w \in P : val[v] = val[w] => v = w
      BY <3>1 DEF Different
    <3>3. \A v \in P : val[v] \in Int /\ neg[v] \in Int /\ -neg[v] = val[v]
      BY <3>2
    <3>4. neg \in [P -> Int]
      BY <3>3
    <3> HIDE DEF neg
    <3>5. Different(P, J, neg)
      <4>1. \A v \in P : neg[v] \in J[v]
        BY <2>3, <3>2, <3>3
      <4>2. \A v, w \in P : neg[v] = neg[w] => v = w
        BY <3>2, <3>3
      <4> QED BY <3>4, <4>1, <4>2 DEF Different
    <3>6. ~q.failed /\ Different(P, q.dom, neg)
      BY <2>4, <3>5
    <3>7. \A v \in P : val[v] \in E.dom[v]
      <4>1. \A v \in P : neg[v] \in q.dom[v]
        BY <3>6 DEF Different
      <4>2. \A v \in P : -val[v] = neg[v]
        BY <3>2 DEF neg
      <4> QED BY <2>7, <3>3, <3>6, <4>1, <4>2
    <3> QED BY <2>6, <3>2, <3>6, <3>7 DEF Different
  <2> QED BY <2>8, <2>9
<1> QED BY <1>1, <1>3, <1>4

-----------------------------------------------------------------------------
(* Sums *)

IsSum(s, f, S) ==
    s = [T \in SUBSET S |->
            IF T = {} THEN 0
            ELSE f[CHOOSE x \in T : TRUE] + s[T \ {CHOOSE x \in T : TRUE}]]

SumOf(f, S) == CHOOSE s : IsSum(s, f, S)

\* s adds up f on the subsets of S with at most k elements.
Adds(s, f, S, k) ==
    \A T \in SUBSET S : Cardinality(T) <= k =>
        s[T] = IF T = {} THEN 0
               ELSE f[CHOOSE x \in T : TRUE] + s[T \ {CHOOSE x \in T : TRUE}]

LEMMA SumExists ==
    ASSUME NEW S, IsFiniteSet(S), NEW f, \A x \in S : f[x] \in Int
    PROVE  /\ IsSum(SumOf(f, S), f, S)
           /\ \A T \in SUBSET S : SumOf(f, S)[T] \in Int
<1> DEFINE pick(T) == CHOOSE x \in T : TRUE
           N == {k \in Nat : \E s \in [SUBSET S -> Int] : Adds(s, f, S, k)}
<1>1. \A T \in SUBSET S : T # {} => pick(T) \in T /\ T \ {pick(T)} \in SUBSET S /\ f[pick(T)] \in Int
  OBVIOUS
<1>2. \A T \in SUBSET S : IsFiniteSet(T) /\ Cardinality(T) \in Nat /\ (Cardinality(T) = 0 <=> T = {})
  BY FS_Subset, FS_CardinalityType, FS_EmptySet
<1>3. \A T \in SUBSET S : T # {} => Cardinality(T \ {pick(T)}) = Cardinality(T) - 1
  BY <1>1, <1>2, FS_RemoveElement
<1>4. 0 \in N
  <2> DEFINE s == [T \in SUBSET S |-> 0]
  <2>1. Adds(s, f, S, 0)
    <3> SUFFICES ASSUME NEW T \in SUBSET S, Cardinality(T) <= 0 PROVE T = {} /\ s[T] = 0
      BY DEF Adds
    <3> QED BY <1>2
  <2>2. s \in [SUBSET S -> Int]
    OBVIOUS
  <2> HIDE DEF s
  <2>3. \E r \in [SUBSET S -> Int] : Adds(r, f, S, 0)
    BY <2>1, <2>2
  <2> QED BY <2>3
<1>5. ASSUME NEW k \in N PROVE k + 1 \in N
  <2>1. PICK s \in [SUBSET S -> Int] : Adds(s, f, S, k)
    OBVIOUS
  <2>2. k \in Nat
    OBVIOUS
  <2> HIDE DEF pick, N
  <2> DEFINE r == [T \in SUBSET S |-> IF T = {} THEN 0 ELSE f[pick(T)] + s[T \ {pick(T)}]]
  <2>3. \A T \in SUBSET S : Cardinality(T) <= k => r[T] = s[T]
    BY <2>1 DEF Adds, pick
  <2>4. r \in [SUBSET S -> Int]
    BY <1>1
  <2>5. ASSUME NEW T \in SUBSET S, Cardinality(T) <= k + 1
        PROVE  r[T] = IF T = {} THEN 0 ELSE f[pick(T)] + r[T \ {pick(T)}]
    <3>1. CASE T = {}
      BY <3>1
    <3>2. CASE T # {}
      <4>1. Cardinality(T \ {pick(T)}) <= k
        BY <1>2, <1>3, <2>2, <2>5, <3>2
      <4>2. r[T \ {pick(T)}] = s[T \ {pick(T)}]
        BY <1>1, <2>3, <3>2, <4>1
      <4> QED BY <3>2, <4>2
    <3> QED BY <3>1, <3>2
  <2> HIDE DEF r
  <2>6. Adds(r, f, S, k + 1)
    BY <2>5 DEF Adds, pick
  <2>7. \E q \in [SUBSET S -> Int] : Adds(q, f, S, k + 1)
    BY <2>4, <2>6
  <2>8. k + 1 \in Nat
    BY <2>2
  <2> QED BY <2>7, <2>8 DEF N
<1>6. N = Nat
  <2> HIDE DEF N
  <2>1. N \in SUBSET Nat
    BY DEF N
  <2> QED BY <1>4, <1>5, <2>1, Induction
<1>7. PICK s \in [SUBSET S -> Int] : Adds(s, f, S, Cardinality(S))
  <2>1. Cardinality(S) \in N
    BY <1>2, <1>6
  <2> QED BY <2>1
<1>8. IsSum(s, f, S)
  <2>1. \A T \in SUBSET S : Cardinality(T) <= Cardinality(S)
    BY FS_Subset
  <2>2. \A T \in SUBSET S : s[T] = IF T = {} THEN 0 ELSE f[pick(T)] + s[T \ {pick(T)}]
    BY <1>7, <2>1 DEF Adds
  <2>3. s = [T \in SUBSET S |-> IF T = {} THEN 0 ELSE f[pick(T)] + s[T \ {pick(T)}]]
    <3> HIDE DEF pick
    <3> QED BY <2>2
  <2> QED BY <2>3 DEF IsSum
<1> DEFINE t == SumOf(f, S)
<1>9. IsSum(t, f, S)
  BY <1>8 DEF SumOf
<1> HIDE DEF t
<1>10. \A T \in SUBSET S : t[T] = IF T = {} THEN 0 ELSE f[pick(T)] + t[T \ {pick(T)}]
  BY <1>9 DEF IsSum
<1> DEFINE M == {k \in Nat : \A T \in SUBSET S : Cardinality(T) <= k => t[T] \in Int}
<1> HIDE DEF pick
<1>11. 0 \in M
  <2> SUFFICES ASSUME NEW T \in SUBSET S, Cardinality(T) <= 0 PROVE t[T] \in Int
    OBVIOUS
  <2>1. T = {}
    BY <1>2
  <2>2. t[T] = 0
    BY <1>10, <2>1
  <2> QED BY <2>2
<1>12. ASSUME NEW k \in M PROVE k + 1 \in M
  <2> SUFFICES ASSUME NEW T \in SUBSET S, Cardinality(T) <= k + 1 PROVE t[T] \in Int
    OBVIOUS
  <2>1. CASE T = {}
    BY <1>10, <2>1
  <2>2. CASE T # {}
    <3>1. Cardinality(T \ {pick(T)}) <= k /\ T \ {pick(T)} \in SUBSET S
      BY <1>1, <1>2, <1>3, <2>2
    <3>2. t[T \ {pick(T)}] \in Int /\ f[pick(T)] \in Int
      BY <1>1, <2>2, <3>1
    <3>3. t[T] = f[pick(T)] + t[T \ {pick(T)}]
      BY <1>10, <2>2, Zenon
    <3> QED BY <3>2, <3>3
  <2> QED BY <2>1, <2>2
<1>13. M = Nat
  <2> HIDE DEF M
  <2>1. M \in SUBSET Nat
    BY DEF M
  <2> QED BY <1>11, <1>12, <2>1, Induction
<1>14. \A T \in SUBSET S : t[T] \in Int
  BY <1>2, <1>13
<1> QED BY <1>9, <1>14 DEF t

LEMMA SumIs ==
    ASSUME NEW f, NEW S
    PROVE  SumFunctionOnSet(f, S) = SumOf(f, S)[S]
BY DEF SumFunctionOnSet, FoldFunctionOnSet, MapThenFoldSet, SumOf, IsSum

\* Raising summands raises the sum at least as much as any one of them.
LEMMA SumsCompare ==
    ASSUME NEW S, IsFiniteSet(S), NEW f, NEW g,
           \A x \in S : f[x] \in Int /\ g[x] \in Int /\ f[x] <= g[x]
    PROVE  /\ SumFunctionOnSet(f, S) \in Int /\ SumFunctionOnSet(g, S) \in Int
           /\ SumFunctionOnSet(f, S) <= SumFunctionOnSet(g, S)
           /\ \A x \in S : g[x] - f[x] <= SumFunctionOnSet(g, S) - SumFunctionOnSet(f, S)
<1> DEFINE pick(T) == CHOOSE x \in T : TRUE
           s == SumOf(f, S)
           t == SumOf(g, S)
           Good(T) == s[T] <= t[T] /\ \A x \in T : g[x] - f[x] <= t[T] - s[T]
           N == {k \in Nat : \A T \in SUBSET S : Cardinality(T) <= k => Good(T)}
<1>1. \A T \in SUBSET S : T # {} => pick(T) \in T /\ T \ {pick(T)} \in SUBSET S
  OBVIOUS
<1>2. \A T \in SUBSET S : IsFiniteSet(T) /\ Cardinality(T) \in Nat /\ (Cardinality(T) = 0 <=> T = {})
  BY FS_Subset, FS_CardinalityType, FS_EmptySet
<1>3. \A T \in SUBSET S : T # {} => Cardinality(T \ {pick(T)}) = Cardinality(T) - 1
  BY <1>1, <1>2, FS_RemoveElement
<1>4. IsSum(s, f, S) /\ IsSum(t, g, S) /\ \A T \in SUBSET S : s[T] \in Int /\ t[T] \in Int
  BY SumExists
<1>5. SumFunctionOnSet(f, S) = s[S] /\ SumFunctionOnSet(g, S) = t[S]
  BY SumIs
<1> HIDE DEF s, t
<1>6. \A T \in SUBSET S : s[T] = IF T = {} THEN 0 ELSE f[pick(T)] + s[T \ {pick(T)}]
  BY <1>4 DEF IsSum
<1>7. \A T \in SUBSET S : t[T] = IF T = {} THEN 0 ELSE g[pick(T)] + t[T \ {pick(T)}]
  BY <1>4 DEF IsSum
<1> HIDE DEF pick
<1>8. Good({})
  <2>1. s[{}] = 0 /\ t[{}] = 0
    <3>1. {} \in SUBSET S
      OBVIOUS
    <3> QED BY <1>6, <1>7, <3>1, Zenon
  <2> QED BY <2>1
<1>9. 0 \in N
  <2> HIDE DEF Good
  <2> QED BY <1>2, <1>8
<1>10. ASSUME NEW k \in N PROVE k + 1 \in N
  <2> SUFFICES ASSUME NEW T \in SUBSET S, Cardinality(T) <= k + 1 PROVE Good(T)
    OBVIOUS
  <2>1. CASE T = {}
    BY <1>8, <2>1
  <2>2. CASE T # {}
    <3> DEFINE x == pick(T)
               U == T \ {x}
    <3>1. x \in T /\ x \in S /\ U \in SUBSET S /\ Cardinality(U) <= k
      BY <1>1, <1>2, <1>3, <2>2
    <3>2. Good(U)
      <4> HIDE DEF Good
      <4> QED BY <3>1
    <3>3. s[T] = f[x] + s[U] /\ t[T] = g[x] + t[U]
      BY <1>6, <1>7, <2>2
    <3>4. s[U] \in Int /\ t[U] \in Int /\ f[x] \in Int /\ g[x] \in Int /\ f[x] <= g[x]
      BY <1>4, <3>1
    <3>5. ASSUME NEW y \in T PROVE g[y] - f[y] <= t[T] - s[T]
      <4>1. CASE y = x
        BY <3>2, <3>3, <3>4, <4>1
      <4>2. CASE y # x
        <5>1. y \in U /\ g[y] \in Int /\ f[y] \in Int
          BY <4>2
        <5> HIDE DEF U, x
        <5>2. g[y] - f[y] <= t[U] - s[U]
          BY <3>2, <5>1
        <5> QED BY <3>3, <3>4, <5>1, <5>2
      <4> QED BY <4>1, <4>2
    <3>6. s[T] <= t[T]
      BY <3>2, <3>3, <3>4
    <3> QED BY <3>5, <3>6
  <2> QED BY <2>1, <2>2
<1>11. N = Nat
  <2> HIDE DEF N
  <2>1. N \in SUBSET Nat
    BY DEF N
  <2> QED BY <1>9, <1>10, <2>1, Induction
<1>12. Good(S)
  <2> HIDE DEF Good
  <2> QED BY <1>2, <1>11
<1> QED BY <1>4, <1>5, <1>12

\* A sum loses no assignment in which the last value is the sum of the others.
LEMMA SumFacts ==
    ASSUME NEW n \in Nat, n >= 1, NEW D, DomainsOver(1..n, D), NEW E \in FilterSum(D)
    PROVE  /\ ~E.failed => Shrunk(1..n, D, E.dom)
           /\ \A val \in [1..n -> Int] :
                 (\A v \in 1..n : val[v] \in D[v]) /\ val[n] = SumFunctionOnSet(val, 1..(n - 1))
                   => ~E.failed /\ \A v \in 1..n : val[v] \in E.dom[v]
<1> DEFINE P == 1..n
           S == 1..(n - 1)
           min == [i \in P |-> Min(D[i])]
           mins == SumFunctionOnSet(min, S)
           most == Max(D[n])
           left == [i \in P |-> IF i = n THEN {x \in D[i] : x >= mins}
                                ELSE {x \in D[i] : x <= most - (mins - Min(D[i]))}]
<1>1. D \in [P -> SUBSET Int] /\ \A v \in P : D[v] # {} /\ IsFiniteSet(D[v]) /\ D[v] \subseteq Int
  BY DEF DomainsOver
<1>2. DOMAIN D = P /\ Len(D) = n
  BY <1>1
<1>3. E = [failed |-> most < mins, dom |-> left]
  BY <1>2 DEF FilterSum
<1>4. \A v \in P : /\ Min(D[v]) \in D[v] /\ Max(D[v]) \in D[v]
                   /\ \A x \in D[v] : Min(D[v]) <= x /\ x <= Max(D[v])
  BY <1>1, Bounds
<1>5. n \in P /\ S \subseteq P /\ IsFiniteSet(S) /\ \A i \in P : i # n <=> i \in S
  BY FS_Interval
<1>6. \A i \in P : min[i] \in Int /\ min[i] = Min(D[i])
  BY <1>1, <1>4
<1> HIDE DEF min, S, P
<1>7. mins \in Int
  <2>1. \A x \in S : min[x] \in Int /\ min[x] \in Int /\ min[x] <= min[x]
    BY <1>5, <1>6
  <2> QED BY <1>5, <2>1, SumsCompare
<1>8. most \in Int /\ most \in D[n] /\ \A x \in D[n] : x <= most
  BY <1>1, <1>4, <1>5
<1> HIDE DEF mins, most
<1>9. ASSUME ~ (most < mins) PROVE Shrunk(P, D, left)
  <2>1. \A v \in P : left[v] \subseteq D[v] /\ IsFiniteSet(left[v]) /\ left[v] \subseteq Int
    BY <1>1, FS_Subset
  <2>2. ASSUME NEW v \in P PROVE left[v] # {}
    <3>1. CASE v = n
      <4>1. most >= mins
        BY <1>7, <1>8, <1>9
      <4> QED BY <1>8, <3>1, <4>1
    <3>2. CASE v # n
      <4>1. Min(D[v]) \in D[v] /\ Min(D[v]) \in Int
        BY <1>1, <1>4
      <4>2. Min(D[v]) <= most - (mins - Min(D[v]))
        BY <1>7, <1>8, <1>9, <4>1
      <4> QED BY <3>2, <4>1, <4>2
    <3> QED BY <3>1, <3>2
  <2>3. left \in [P -> SUBSET Int]
    BY <2>1
  <2> HIDE DEF left
  <2> QED BY <2>1, <2>2, <2>3 DEF Shrunk, DomainsOver
<1>10. ASSUME NEW val \in [P -> Int], \A v \in P : val[v] \in D[v],
              val[n] = SumFunctionOnSet(val, S)
       PROVE  ~ (most < mins) /\ \A v \in P : val[v] \in left[v]
  <2>1. \A i \in S : min[i] \in Int /\ val[i] \in Int /\ min[i] <= val[i]
    BY <1>4, <1>5, <1>6, <1>10
  <2>2. /\ mins <= val[n] /\ val[n] \in Int
        /\ \A i \in S : val[i] - min[i] <= val[n] - mins
    BY <1>5, <1>10, <2>1, SumsCompare DEF mins
  <2>3. val[n] <= most
    BY <1>5, <1>8, <1>10
  <2>4. ~ (most < mins)
    BY <1>7, <1>8, <2>2, <2>3
  <2>5. ASSUME NEW v \in P PROVE val[v] \in left[v]
    <3>1. CASE v = n
      BY <1>7, <1>10, <2>2, <3>1
    <3>2. CASE v # n
      <4>1. v \in S /\ val[v] - min[v] <= val[n] - mins /\ min[v] = Min(D[v]) /\ min[v] \in Int
        BY <1>5, <1>6, <2>2, <3>2
      <4>2. val[v] <= most - (mins - Min(D[v]))
        BY <1>7, <1>8, <2>2, <2>3, <4>1
      <4> QED BY <1>10, <3>2, <4>2
    <3> QED BY <3>1, <3>2
  <2> QED BY <2>4, <2>5
<1> HIDE DEF left
<1>11. E.failed = (most < mins) /\ E.dom = left
  BY <1>3
<1> QED BY <1>9, <1>10, <1>11 DEF P, S

-----------------------------------------------------------------------------
(* What the constraints of the formulas keep *)

\* The formulas that filter may be called with, and states of all variables.
Legal(f) == f \in FormulaType /\ Supported(f) /\ VarsOf(f) \subseteq Vars
Assignment == [Vars -> Int]

LEMMA LegalFacts ==
    ASSUME NEW f, Legal(f)
    PROVE  /\ VarsOf(f) \subseteq Int /\ IsFiniteSet(VarsOf(f))
           /\ f.args \in Seq(Term) /\ f.op \in Relations \cup {"alldiff", "sum", "table"}
           /\ f.op \in Relations => Len(f.args) = 2 /\ f.args[1] \in Term /\ f.args[2] \in Term
                                    /\ DOMAIN f.args = 1..2
           /\ f.op = "table" => InScopeOrder(f)
<1>1. VarsOf(f) \subseteq Int /\ IsFiniteSet(VarsOf(f))
  <2>1. IsFiniteSet(Vars) /\ Vars \subseteq Nat /\ VarsOf(f) \subseteq Vars
    BY VarsAssumption DEF Legal
  <2>2. IsFiniteSet(VarsOf(f))
    BY <2>1, FS_Subset
  <2>3. \A v \in Nat : v \in Int
    OBVIOUS
  <2> QED BY <2>1, <2>2, <2>3, Zenon
<1>2. /\ f.args \in Seq(Term) /\ f.op \in Relations \cup {"alldiff", "sum", "table"}
      /\ f.op \in Relations => Len(f.args) = 2
      /\ f.op = "table" => InScopeOrder(f)
  BY DEF Legal, FormulaType
<1>3. ASSUME f.op \in Relations PROVE f.args[1] \in Term /\ f.args[2] \in Term /\ DOMAIN f.args = 1..2
  <2>1. Len(f.args) = 2
    BY <1>2, <1>3
  <2> QED BY <1>2, <2>1, ElementOfSeq, LenProperties
<1> QED BY <1>1, <1>2, <1>3

\* The variables of a relation, and its truth.
LEMMA RelationFacts ==
    ASSUME NEW f, Legal(f), f.op \in Relations, NEW s
    PROVE  /\ \A i \in {1, 2} : f.args[i].var => f.args[i].idx \in VarsOf(f)
           /\ \A i \in {1, 2} : f.args[i].var \in BOOLEAN /\ f.args[i].idx \in Int
           /\ Satisfied(f, s) = Holds(f.op, ValueOf(f.args[1], s), ValueOf(f.args[2], s))
<1>1. Len(f.args) = 2 /\ f.args[1] \in Term /\ f.args[2] \in Term /\ DOMAIN f.args = 1..2
  BY LegalFacts
<1>2. \A i \in {1, 2} : i \in DOMAIN f.args
  BY <1>1
<1> DEFINE v == [i \in DOMAIN f.args |-> ValueOf(f.args[i], s)]
<1>3. v[1] = ValueOf(f.args[1], s) /\ v[2] = ValueOf(f.args[2], s)
  BY <1>2
<1>4. Satisfied(f, s) = Holds(f.op, v[1], v[2])
  BY DEF Satisfied, Relations
<1> QED BY <1>1, <1>2, <1>3, <1>4 DEF VarsOf, Term

LEMMA MirrorHolds ==
    ASSUME NEW op \in Relations, NEW a \in Int, NEW b \in Int, Holds(op, a, b)
    PROVE  Holds(Mirrored(op), b, a)
BY DEF Holds, Mirrored, Relations

\* A table over n variables is true when their values are in the extension.
LEMMA TableFacts ==
    ASSUME NEW f, Legal(f), f.op = "table", NEW s, Satisfied(f, s)
    PROVE  LET q == ComputeDirectScope(f)
               n == Cardinality(VarsOf(f))
           IN  /\ n \in {1, 2} /\ Len(q) = n /\ \A i \in 1..n : q[i] \in VarsOf(f)
               /\ n = 1 => <<s[q[1]]>> \in f.ext
               /\ n = 2 => <<s[q[1]], s[q[2]]>> \in f.ext
<1> DEFINE q == ComputeDirectScope(f)
           n == Cardinality(VarsOf(f))
           v == [i \in DOMAIN f.args |-> ValueOf(f.args[i], s)]
<1>1. n \in Nat /\ q \in [1..n -> VarsOf(f)] /\ Len(q) = n /\ DOMAIN q = 1..n
  BY LegalFacts, ScopeFacts
<1>2. n \in {1, 2}
  BY DEF Legal, Supported, Relations
<1>3. f.args = [i \in DOMAIN q |-> VarT(q[i])]
  BY LegalFacts DEF InScopeOrder
<1>4. v \in f.ext
  BY DEF Satisfied, Relations
<1> HIDE DEF q, n
<1>5. v = [i \in 1..n |-> s[q[i]]]
  BY <1>1, <1>3 DEF ValueOf, VarT
<1> HIDE DEF v
<1>6. n = 1 => v = <<s[q[1]]>>
  BY <1>5
<1>7. n = 2 => v = <<s[q[1]], s[q[2]]>>
  BY <1>5
<1> QED BY <1>1, <1>2, <1>4, <1>6, <1>7 DEF q, n

KeepsUnary(f, c) ==
    /\ c.scope[1] \in VarsOf(f)
    /\ \A s \in Assignment : Satisfied(f, s) =>
          \A D : s[c.scope[1]] \in D => s[c.scope[1]] \in UnaryKept(c, D)

KeepsArc(f, c) ==
    /\ c.scope[1] \in VarsOf(f) /\ c.scope[2] \in VarsOf(f)
    /\ \A s \in Assignment : Satisfied(f, s) =>
          \A D, E \in SUBSET Int : \A i \in {1, 2} :
              s[c.scope[i]] \in D /\ s[c.scope[3 - i]] \in E /\ IsFiniteSet(E)
                => s[c.scope[i]] \in ArcKept(c, i, D, E)

LEMMA UnaryKeeps ==
    ASSUME NEW f, Legal(f), Translate(f).type = "unary"
    PROVE  KeepsUnary(f, Translate(f))
<1> DEFINE c == Translate(f)
<1>1. CASE f.op \in Relations
  <2> DEFINE l == f.args[1]
             r == f.args[2]
  <2>1. c = TranslateRelation(f)
    BY <1>1 DEF Translate, Relations
  <2>2. \/ l.var /\ ~r.var /\ c = Constraint("unary", f.op, <<l.idx>>, r.idx, {})
        \/ ~l.var /\ c = Constraint("unary", Mirrored(f.op), <<r.idx>>, l.idx, {})
    <3>1. ~ (l.var /\ r.var)
      <4> SUFFICES ASSUME l.var /\ r.var PROVE FALSE
        OBVIOUS
      <4>1. c.type = "arc"
        BY <2>1 DEF TranslateRelation, Constraint
      <4> QED BY <4>1
    <3> QED BY <2>1, <3>1, RelationFacts, <1>1 DEF TranslateRelation
  <2>3. l.var \/ r.var
    BY <1>1 DEF Legal, Supported, Relations
  <2>4. /\ l.var => l.idx \in VarsOf(f)
        /\ r.var => r.idx \in VarsOf(f)
        /\ l.idx \in Int /\ r.idx \in Int
        /\ \A s : Satisfied(f, s) = Holds(f.op, ValueOf(l, s), ValueOf(r, s))
    BY <1>1, RelationFacts
  <2>5. VarsOf(f) \subseteq Vars
    BY DEF Legal
  <2>6. CASE l.var /\ ~r.var /\ c = Constraint("unary", f.op, <<l.idx>>, r.idx, {})
    <3>1. c.op = f.op /\ c.scope[1] = l.idx /\ c.par = r.idx /\ c.op # "table"
      BY <1>1, <2>6 DEF Constraint, Relations
    <3>2. ASSUME NEW s, Satisfied(f, s), NEW D, s[l.idx] \in D PROVE s[l.idx] \in UnaryKept(c, D)
      <4>1. Holds(c.op, s[l.idx], c.par)
        BY <2>4, <2>6, <3>1, <3>2 DEF ValueOf
      <4> QED BY <3>1, <3>2, <4>1 DEF UnaryKept
    <3> QED BY <2>4, <2>6, <3>1, <3>2 DEF KeepsUnary
  <2>7. CASE ~l.var /\ c = Constraint("unary", Mirrored(f.op), <<r.idx>>, l.idx, {})
    <3>1. c.op = Mirrored(f.op) /\ c.scope[1] = r.idx /\ c.par = l.idx /\ r.var
      BY <2>3, <2>7 DEF Constraint
    <3>2. c.op # "table"
      BY <1>1, <3>1 DEF Mirrored, Relations
    <3>3. ASSUME NEW s \in Assignment, Satisfied(f, s), NEW D, s[r.idx] \in D
          PROVE  s[r.idx] \in UnaryKept(c, D)
      <4>1. s[r.idx] \in Int
        BY <2>4, <2>5, <3>1 DEF Assignment
      <4>2. Holds(f.op, l.idx, s[r.idx])
        BY <2>4, <2>7, <3>1, <3>3 DEF ValueOf
      <4>3. Holds(c.op, s[r.idx], c.par)
        BY <1>1, <2>4, <3>1, <4>1, <4>2, MirrorHolds
      <4> QED BY <3>2, <3>3, <4>3 DEF UnaryKept
    <3> QED BY <2>4, <3>1, <3>3 DEF KeepsUnary
  <2> QED BY <2>2, <2>6, <2>7
<1>2. CASE f.op = "table"
  <2> DEFINE q == ComputeDirectScope(f)
             n == Cardinality(VarsOf(f))
  <2>1. c = Constraint(IF Len(q) = 1 THEN "unary" ELSE "arc", "table", q, 0, f.ext)
    BY <1>2 DEF Translate, TranslateTable, Relations
  <2>2. Len(q) = 1 /\ c.op = "table" /\ c.scope = q /\ c.ext = f.ext
    BY <2>1 DEF Constraint
  <2>3. n = 1 /\ q[1] \in VarsOf(f)
    <3>1. Len(q) = n /\ q \in [1..n -> VarsOf(f)]
      BY LegalFacts, ScopeFacts
    <3> QED BY <2>2, <3>1
  <2>4. ASSUME NEW s, Satisfied(f, s), NEW D, s[q[1]] \in D PROVE s[q[1]] \in UnaryKept(c, D)
    <3>1. <<s[q[1]]>> \in f.ext
      BY <1>2, <2>3, <2>4, TableFacts
    <3> QED BY <2>2, <2>4, <3>1 DEF UnaryKept
  <2> QED BY <2>2, <2>3, <2>4 DEF KeepsUnary
<1>3. CASE f.op \in {"alldiff", "sum"}
  <2>1. c.type = "custom"
    BY <1>3 DEF Translate, Constraint, Relations
  <2> QED BY <2>1
<1> QED BY <1>1, <1>2, <1>3, LegalFacts

LEMMA ArcKeeps ==
    ASSUME NEW f, Legal(f), Translate(f).type = "arc"
    PROVE  KeepsArc(f, Translate(f))
<1> DEFINE c == Translate(f)
<1>1. CASE f.op \in Relations
  <2> DEFINE l == f.args[1]
             r == f.args[2]
  <2>1. c = TranslateRelation(f)
    BY <1>1 DEF Translate, Relations
  <2>2. l.var /\ r.var /\ c = Constraint("arc", f.op, <<l.idx, r.idx>>, 0, {})
    <3>1. l.var /\ r.var
      <4> SUFFICES ASSUME ~ (l.var /\ r.var) PROVE FALSE
        OBVIOUS
      <4>1. c.type = "unary"
        BY <2>1 DEF TranslateRelation, Constraint
      <4> QED BY <4>1
    <3> QED BY <2>1, <3>1 DEF TranslateRelation
  <2>3. f.op \in {"=", "!=", "<", "<="}
    BY <1>1, <2>2 DEF Legal, Supported, Relations
  <2>4. /\ l.idx \in VarsOf(f) /\ r.idx \in VarsOf(f) /\ VarsOf(f) \subseteq Vars
        /\ \A s : Satisfied(f, s) = Holds(f.op, s[l.idx], s[r.idx])
    BY <1>1, <2>2, RelationFacts DEF ValueOf, Legal
  <2>5. c.op = f.op /\ c.scope[1] = l.idx /\ c.scope[2] = r.idx
    BY <2>2 DEF Constraint
  <2> HIDE DEF c, l, r
  <2>6. ASSUME NEW s \in Assignment, Satisfied(f, s), NEW D \in SUBSET Int, NEW E \in SUBSET Int, NEW i \in {1, 2},
               s[c.scope[i]] \in D, s[c.scope[3 - i]] \in E, IsFiniteSet(E)
        PROVE  s[c.scope[i]] \in ArcKept(c, i, D, E)
    <3> DEFINE a == s[c.scope[1]]
               b == s[c.scope[2]]
    <3>1. a \in Int /\ b \in Int /\ Holds(c.op, a, b)
      BY <2>4, <2>5, <2>6 DEF Assignment
    <3>2. \/ i = 1 /\ s[c.scope[i]] = a /\ s[c.scope[3 - i]] = b
          \/ i = 2 /\ s[c.scope[i]] = b /\ s[c.scope[3 - i]] = a
      BY <2>6
    <3> HIDE DEF a, b
    <3>3. Min(E) \in E /\ Max(E) \in E /\ \A x \in E : Min(E) <= x /\ x <= Max(E)
      BY <2>6, Bounds
    <3>4. CASE c.op = "<"
      BY <2>6, <3>1, <3>2, <3>3, <3>4 DEF ArcKept, Holds
    <3>5. CASE c.op = "<="
      BY <2>6, <3>1, <3>2, <3>3, <3>5 DEF ArcKept, Holds
    <3>6. CASE c.op = "="
      BY <2>6, <3>1, <3>2, <3>6 DEF ArcKept, Holds
    <3>7. CASE c.op = "!="
      <4>1. a # b
        BY <3>1, <3>7 DEF Holds
      <4>2. ASSUME Cardinality(E) < 2 PROVE s[c.scope[i]] \notin E
        <5>1. Cardinality(E) = 1
          <6>1. Cardinality(E) \in Nat /\ Cardinality(E) # 0
            BY <2>6, FS_CardinalityType, FS_EmptySet
          <6> QED BY <4>2, <6>1
        <5>2. PICK e : E = {e}
          BY <2>6, <5>1, FS_Singleton
        <5> QED BY <2>6, <3>2, <4>1, <5>2
      <4>3. Cardinality(E) \in Nat
        BY <2>6, FS_CardinalityType
      <4>4. ArcKept(c, i, D, E) = IF Cardinality(E) >= 2 THEN D ELSE D \ E
        BY <3>7 DEF ArcKept
      <4> QED BY <2>6, <4>2, <4>3, <4>4
    <3> QED BY <2>3, <2>5, <3>4, <3>5, <3>6, <3>7
  <2>7. c.scope[1] \in VarsOf(f) /\ c.scope[2] \in VarsOf(f)
    BY <2>4, <2>5
  <2>8. KeepsArc(f, c)
    BY <2>6, <2>7 DEF KeepsArc
  <2> QED BY <2>8 DEF c
<1>2. CASE f.op = "table"
  <2> DEFINE q == ComputeDirectScope(f)
             n == Cardinality(VarsOf(f))
  <2>1. c = Constraint(IF Len(q) = 1 THEN "unary" ELSE "arc", "table", q, 0, f.ext)
    BY <1>2 DEF Translate, TranslateTable, Relations
  <2>2. Len(q) # 1 /\ c.op = "table" /\ c.scope = q /\ c.ext = f.ext
    BY <2>1 DEF Constraint
  <2>3. n = 2 /\ q[1] \in VarsOf(f) /\ q[2] \in VarsOf(f)
    <3>1. Len(q) = n /\ q \in [1..n -> VarsOf(f)]
      BY LegalFacts, ScopeFacts
    <3>2. n \in {1, 2}
      BY <1>2 DEF Legal, Supported, Relations
    <3> QED BY <2>2, <3>1, <3>2
  <2> HIDE DEF c
  <2>4. ASSUME NEW s, Satisfied(f, s), NEW D, NEW E, NEW i \in {1, 2},
               s[c.scope[i]] \in D, s[c.scope[3 - i]] \in E
        PROVE  s[c.scope[i]] \in ArcKept(c, i, D, E)
    <3>1. <<s[q[1]], s[q[2]]>> \in f.ext
      BY <1>2, <2>3, <2>4, TableFacts
    <3>2. \/ i = 1 /\ 3 - i = 2
          \/ i = 2 /\ 3 - i = 1
      BY <2>4
    <3>3. ArcKept(c, i, D, E) =
            {x \in D : \E y \in E : (IF i = 1 THEN <<x, y>> ELSE <<y, x>>) \in f.ext}
      BY <2>2 DEF ArcKept
    <3> HIDE DEF q
    <3>4. CASE i = 1
      BY <2>2, <2>4, <3>1, <3>2, <3>3, <3>4
    <3>5. CASE i = 2
      BY <2>2, <2>4, <3>1, <3>2, <3>3, <3>5
    <3> QED BY <3>4, <3>5
  <2>5. KeepsArc(f, c)
    BY <2>2, <2>3, <2>4 DEF KeepsArc
  <2> QED BY <2>5 DEF c
<1>3. CASE f.op \in {"alldiff", "sum"}
  <2>1. c.type = "custom"
    BY <1>3 DEF Translate, Constraint, Relations
  <2> QED BY <2>1
<1> QED BY <1>1, <1>2, <1>3, LegalFacts

\* Binary constraints have only these operations.
LEMMA ArcOps ==
    ASSUME NEW f, Legal(f), Translate(f).type = "arc"
    PROVE  Translate(f).op \in {"=", "!=", "<", "<=", "table"}
<1>1. CASE f.op \in Relations
  <2>1. Translate(f) = TranslateRelation(f)
    BY <1>1 DEF Translate, Relations
  <2>2. f.args[1].var /\ f.args[2].var
    <3> SUFFICES ASSUME ~ (f.args[1].var /\ f.args[2].var) PROVE FALSE
      OBVIOUS
    <3>1. Translate(f).type = "unary"
      BY <2>1 DEF TranslateRelation, Constraint
    <3> QED BY <3>1
  <2>3. Translate(f).op = f.op
    BY <2>1, <2>2 DEF TranslateRelation, Constraint
  <2> QED BY <1>1, <2>2, <2>3 DEF Legal, Supported, Relations
<1>2. CASE f.op = "table"
  BY <1>2 DEF Translate, TranslateTable, Constraint, Relations
<1>3. CASE f.op \in {"alldiff", "sum"}
  <2>1. Translate(f).type = "custom"
    BY <1>3 DEF Translate, Constraint, Relations
  <2> QED BY <2>1
<1> QED BY <1>1, <1>2, <1>3, LegalFacts

\* A sum is translated soundly if its arguments are its scope, the total last.
SumInOrder(f) == f.op = "sum" => InScopeOrder(f)

\* The values of the scope of c in state s.
ValuesIn(c, s) == [i \in DOMAIN c.scope |-> s[c.scope[i]]]

CustomFacts(f, c, n) ==
    /\ n \in Nat /\ c.scope \in [1..n -> VarsOf(f)] /\ DOMAIN c.scope = 1..n
    /\ \A i, j \in 1..n : c.scope[i] = c.scope[j] => i = j
    /\ c.op \in {"alldiff", "sum"}
    /\ c.op = "sum" => n >= 1
    /\ \A s \in Assignment : Satisfied(f, s) =>
          /\ c.op = "alldiff" => \A i, j \in 1..n : s[c.scope[i]] = s[c.scope[j]] => i = j
          /\ c.op = "sum" /\ SumInOrder(f) =>
                s[c.scope[n]] = SumFunctionOnSet(ValuesIn(c, s), 1..(n - 1))

LEMMA CustomTranslated ==
    ASSUME NEW f, Legal(f), Translate(f).type = "custom"
    PROVE  CustomFacts(f, Translate(f), Cardinality(VarsOf(f)))
<1> DEFINE c == Translate(f)
           q == ComputeDirectScope(f)
           n == Cardinality(VarsOf(f))
<1>1. f.op \in {"alldiff", "sum"}
  <2>1. CASE f.op \in Relations
    BY <2>1 DEF Translate, TranslateRelation, Constraint, Relations
  <2>2. CASE f.op = "table"
    BY <2>2 DEF Translate, TranslateTable, Constraint, Relations
  <2> QED BY <2>1, <2>2, LegalFacts
<1>2. c = Constraint("custom", f.op, q, 0, {})
  BY <1>1 DEF Translate, Relations
<1>3. c.op = f.op /\ c.scope = q
  BY <1>2 DEF Constraint
<1>4. /\ n \in Nat /\ q \in [1..n -> VarsOf(f)] /\ Len(q) = n /\ DOMAIN q = 1..n
      /\ \A i, j \in 1..n : q[i] = q[j] => i = j
      /\ \A v \in VarsOf(f) : \E i \in 1..n : q[i] = v
  BY LegalFacts, ScopeFacts
<1>5. f.op = "sum" => n >= 1
  <2>1. f.op = "sum" => n > 1
    BY DEF Legal, Supported, Relations
  <2> QED BY <1>4, <2>1
<1> HIDE DEF c, q, n
<1>6. ASSUME NEW s \in Assignment, Satisfied(f, s), f.op = "alldiff",
             NEW i \in 1..n, NEW j \in 1..n, s[q[i]] = s[q[j]]
      PROVE  i = j
  <2> DEFINE v == [k \in DOMAIN f.args |-> ValueOf(f.args[k], s)]
  <2>1. \A x, y \in DOMAIN f.args : v[x] = v[y] => x = y
    BY <1>6 DEF Satisfied, IsInjective, Relations
  <2>2. q[i] \in VarsOf(f) /\ q[j] \in VarsOf(f)
    BY <1>4
  <2>3. PICK x \in DOMAIN f.args : f.args[x].var /\ f.args[x].idx = q[i]
    BY <2>2 DEF VarsOf
  <2>4. PICK y \in DOMAIN f.args : f.args[y].var /\ f.args[y].idx = q[j]
    BY <2>2 DEF VarsOf
  <2>5. v[x] = s[q[i]] /\ v[y] = s[q[j]]
    BY <2>3, <2>4 DEF ValueOf
  <2>6. x = y
    BY <1>6, <2>1, <2>5
  <2> QED BY <1>4, <2>3, <2>4, <2>6
<1>7. ASSUME NEW s \in Assignment, Satisfied(f, s), f.op = "sum", InScopeOrder(f)
      PROVE  s[q[n]] = SumFunctionOnSet([i \in 1..n |-> s[q[i]]], 1..(n - 1))
  <2>1. f.args = [i \in 1..n |-> VarT(q[i])]
    BY <1>4, <1>7 DEF InScopeOrder, q
  <2>2. Len(f.args) = n /\ DOMAIN f.args = 1..n
    BY <1>4, <2>1
  <2> DEFINE v == [i \in DOMAIN f.args |-> ValueOf(f.args[i], s)]
  <2>3. v = [i \in 1..n |-> s[q[i]]]
    BY <2>1, <2>2 DEF ValueOf, VarT
  <2>4. v[Len(f.args)] = SumFunctionOnSet(v, 1..(Len(f.args) - 1))
    BY <1>7 DEF Satisfied, Relations
  <2> HIDE DEF v
  <2>5. v[n] = SumFunctionOnSet(v, 1..(n - 1))
    BY <2>2, <2>4
  <2>6. n \in 1..n
    BY <1>4, <1>5, <1>7
  <2> QED BY <2>3, <2>5, <2>6
<1>8. \A s : ValuesIn(c, s) = [i \in 1..n |-> s[q[i]]]
  BY <1>3, <1>4 DEF ValuesIn
<1>9. CustomFacts(f, c, n)
  BY <1>1, <1>3, <1>4, <1>5, <1>6, <1>7, <1>8 DEF CustomFacts, SumInOrder
<1> QED BY <1>9 DEF c, n

-----------------------------------------------------------------------------

(***************************************************************************)
(* The inductive invariant of filter, called with the constraints of       *)
(* formulas F on domains D0: the passes only look at constraints of their  *)
(* class, no domain is empty - every filter relies on that - and the       *)
(* solutions stay.                                                         *)
(***************************************************************************)
Problem(F, D0) ==
    /\ DomainsOver(Vars, D0)
    /\ F \in Seq(FormulaType) /\ \A i \in DOMAIN F : Legal(F[i])

Translated(F) == [i \in DOMAIN F |-> Translate(F[i])]

\* What a sum relies on: the code takes the last variable for the total.
SumsInOrder(F) == \A i \in DOMAIN F : SumInOrder(F[i])

SolutionsStay(F, D0) == \A s \in Solutions(F, D0) : \A v \in Vars : s[v] \in dom[v]

FilterInv(F, D0) ==
    /\ Problem(F, D0)
    /\ Shrunk(Vars, D0, dom)
    /\ csp # "idle" => constraints = Translated(F)
    /\ csp = "unary" => todo \subseteq OfType(constraints, "unary")
    /\ csp = "globals" => todo \subseteq OfType(constraints, "custom")
    /\ worklist \subseteq Arcs(constraints)
    /\ csp # "done" => result # "Failure"
    /\ SumsInOrder(F) => SolutionsStay(F, D0)
    /\ SumsInOrder(F) /\ csp = "done" /\ result = "Failure" => Solutions(F, D0) = {}

LEMMA ProblemFacts ==
    ASSUME NEW F, NEW D0, Problem(F, D0)
    PROVE  /\ DomainsOver(Vars, D0)
           /\ F \in Seq(FormulaType) /\ DOMAIN F = 1..Len(F) /\ Len(F) \in Nat
           /\ \A i \in DOMAIN F : Legal(F[i])
           /\ \A s \in Solutions(F, D0) :
                 /\ s \in Assignment /\ (\A v \in Vars : s[v] \in D0[v])
                 /\ \A i \in DOMAIN F : Satisfied(F[i], s)
<1>1. /\ DomainsOver(Vars, D0) /\ F \in Seq(FormulaType)
      /\ \A i \in DOMAIN F : Legal(F[i])
  BY DEF Problem
<1>2. DOMAIN F = 1..Len(F) /\ Len(F) \in Nat
  BY <1>1, LenProperties
<1>3. ASSUME NEW s \in Solutions(F, D0)
      PROVE  /\ s \in Assignment /\ (\A v \in Vars : s[v] \in D0[v])
             /\ \A i \in DOMAIN F : Satisfied(F[i], s)
  <2>1. /\ s \in [Vars -> UNION {D0[v] : v \in Vars}]
        /\ \A v \in Vars : s[v] \in D0[v]
        /\ \A i \in DOMAIN F : Satisfied(F[i], s)
    BY DEF Solutions, Within
  <2>2. \A v \in Vars : s[v] \in Int
    BY <1>1, <2>1 DEF DomainsOver
  <2>3. s \in [Vars -> Int]
    BY <2>1, <2>2
  <2> QED BY <2>1, <2>3 DEF Assignment
<1> QED BY <1>1, <1>2, <1>3

\* The invariant holds when filter is called, and before.
LEMMA BeforeInv ==
    ASSUME NEW F, NEW D0, Problem(F, D0), csp = "idle", dom = D0, worklist = {}, result = "Unpruned"
    PROVE  FilterInv(F, D0)
<1>1. Shrunk(Vars, D0, dom) /\ SolutionsStay(F, D0)
  BY ProblemFacts DEF Shrunk, SolutionsStay
<1> QED BY <1>1 DEF FilterInv

LEMMA StartInv ==
    ASSUME NEW F, NEW D0, Problem(F, D0), StartFilter(Translated(F), D0)
    PROVE  FilterInv(F, D0)'
<1>1. /\ constraints' = Translated(F) /\ dom' = D0
      /\ csp' \in {"done", "unary"} /\ todo' = OfType(Translated(F), "unary")
      /\ worklist' = {} /\ result' = "Unpruned"
  BY DEF StartFilter
<1>2. Shrunk(Vars, D0, dom') /\ SolutionsStay(F, D0)'
  BY <1>1, ProblemFacts DEF Shrunk, SolutionsStay
<1>3. todo' = OfType(constraints, "unary")'
  BY <1>1 DEF OfType
<1> QED BY <1>1, <1>2, <1>3 DEF FilterInv

LEMMA ConstraintFacts ==
    ASSUME NEW F, NEW D0, FilterInv(F, D0), csp # "idle"
    PROVE  /\ \A t : OfType(constraints, t) \subseteq DOMAIN F
           /\ \A i \in OfType(constraints, "unary") : KeepsUnary(F[i], constraints[i])
           /\ \A i \in OfType(constraints, "arc") : KeepsArc(F[i], constraints[i])
           /\ \A i \in OfType(constraints, "custom") :
                 CustomFacts(F[i], constraints[i], Cardinality(VarsOf(F[i])))
           /\ \A i \in DOMAIN F : VarsOf(F[i]) \subseteq Vars
<1>1. constraints = Translated(F) /\ Problem(F, D0)
  BY DEF FilterInv
<1>2. \A i \in DOMAIN F : Legal(F[i])
  BY <1>1, ProblemFacts
<1>3. \A t : \A i \in OfType(constraints, t) :
         i \in DOMAIN F /\ constraints[i] = Translate(F[i]) /\ Translate(F[i]).type = t
  BY <1>1 DEF OfType, Translated
<1>4. \A i \in OfType(constraints, "unary") : KeepsUnary(F[i], constraints[i])
  BY <1>2, <1>3, UnaryKeeps
<1>5. \A i \in OfType(constraints, "arc") : KeepsArc(F[i], constraints[i])
  BY <1>2, <1>3, ArcKeeps
<1>6. \A i \in OfType(constraints, "custom") :
         CustomFacts(F[i], constraints[i], Cardinality(VarsOf(F[i])))
  BY <1>2, <1>3, CustomTranslated
<1> QED BY <1>2, <1>3, <1>4, <1>5, <1>6 DEF Legal

\* The constraint that a pass takes next is one of those left.
LEMMA NextConstraint ==
    ASSUME NEW F, NEW D0, FilterInv(F, D0), NEW t, todo \subseteq OfType(constraints, t), csp # "idle", todo # {}
    PROVE  Min(todo) \in todo /\ Min(todo) \in OfType(constraints, t) /\ Min(todo) \in DOMAIN F
<1>1. todo \subseteq DOMAIN F
  BY ConstraintFacts
<1>2. DOMAIN F = 1..Len(F) /\ Len(F) \in Nat
  BY ProblemFacts DEF FilterInv
<1>3. IsFiniteSet(1..Len(F)) /\ 1..Len(F) \subseteq Int
  BY <1>2, FS_Interval
<1>4. IsFiniteSet(todo) /\ todo \in SUBSET Int
  BY <1>1, <1>2, <1>3, FS_Subset
<1>5. Min(todo) \in todo
  BY <1>4, Bounds
<1> QED BY <1>1, <1>5

LEMMA OutcomeFacts ==
    ASSUME NEW D, NEW kept
    PROVE  Outcome(D, kept) = "Failure" <=> kept = {}
BY DEF Outcome

\* One domain is replaced by a part of it that is not empty.
LEMMA Narrowed ==
    ASSUME NEW F, NEW D0, FilterInv(F, D0), NEW v \in Vars, NEW kept, kept \subseteq dom[v], kept # {},
           dom' = [dom EXCEPT ![v] = kept],
           SumsInOrder(F) => \A s \in Solutions(F, D0) : s[v] \in kept
    PROVE  Shrunk(Vars, D0, dom') /\ (SumsInOrder(F) => SolutionsStay(F, D0)')
<1>1. /\ dom \in [Vars -> SUBSET Int]
      /\ \A u \in Vars : dom[u] # {} /\ IsFiniteSet(dom[u]) /\ dom[u] \subseteq D0[u]
  BY DEF FilterInv, Shrunk, DomainsOver
<1>2. IsFiniteSet(kept) /\ kept \subseteq Int
  BY <1>1, FS_Subset
<1>3. \A u \in Vars : dom'[u] = IF u = v THEN kept ELSE dom[u]
  BY <1>1
<1>4. dom' \in [Vars -> SUBSET Int]
  BY <1>1, <1>2
<1>5. \A u \in Vars : dom'[u] # {} /\ IsFiniteSet(dom'[u]) /\ dom'[u] \subseteq D0[u]
  BY <1>1, <1>2, <1>3
<1>6. Shrunk(Vars, D0, dom')
  BY <1>4, <1>5 DEF Shrunk, DomainsOver
<1>7. ASSUME SumsInOrder(F) PROVE SolutionsStay(F, D0)'
  <2>1. \A s \in Solutions(F, D0) : \A u \in Vars : s[u] \in dom'[u]
    BY <1>3, <1>7 DEF FilterInv, SolutionsStay
  <2> QED BY <2>1 DEF SolutionsStay
<1> QED BY <1>6, <1>7

\* A step that leaves the domains, and is not a failure.
LEMMA StillInv ==
    ASSUME NEW F, NEW D0, FilterInv(F, D0), UNCHANGED <<dom, constraints>>, csp # "idle", csp' # "idle",
           csp' = "unary" => todo' \subseteq OfType(constraints, "unary"),
           csp' = "globals" => todo' \subseteq OfType(constraints, "custom"),
           worklist' \subseteq Arcs(constraints),
           result' # "Failure"
    PROVE  FilterInv(F, D0)'
<1>1. OfType(constraints, "unary")' = OfType(constraints, "unary")
      /\ OfType(constraints, "custom")' = OfType(constraints, "custom")
      /\ Arcs(constraints)' = Arcs(constraints)
  BY DEF OfType, Arcs
<1>2. Problem(F, D0) /\ Shrunk(Vars, D0, dom') /\ constraints' = Translated(F)
  BY DEF FilterInv
<1>3. SumsInOrder(F) => SolutionsStay(F, D0)'
  BY DEF FilterInv, SolutionsStay
<1> QED BY <1>1, <1>2, <1>3 DEF FilterInv

\* A failure: no solution keeps all its values.
LEMMA FailureInv ==
    ASSUME NEW F, NEW D0, FilterInv(F, D0), UNCHANGED <<dom, constraints, worklist>>, csp # "idle", csp' = "done",
           SumsInOrder(F) => Solutions(F, D0) = {}
    PROVE  FilterInv(F, D0)'
<1>1. Arcs(constraints)' = Arcs(constraints)
  BY DEF OfType, Arcs
<1>2. Problem(F, D0) /\ Shrunk(Vars, D0, dom') /\ constraints' = Translated(F)
  BY DEF FilterInv
<1>3. SumsInOrder(F) => SolutionsStay(F, D0)'
  BY DEF FilterInv, SolutionsStay
<1>4. SumsInOrder(F) => Solutions(F', D0) = {}
  OBVIOUS
<1> QED BY <1>1, <1>2, <1>3, <1>4 DEF FilterInv

\* A pruning of the domains that keeps the solutions.
LEMMA PrunedInv ==
    ASSUME NEW F, NEW D0, FilterInv(F, D0), UNCHANGED <<constraints, csp>>, csp \notin {"idle", "done"},
           Shrunk(Vars, D0, dom'), SumsInOrder(F) => SolutionsStay(F, D0)',
           csp = "unary" => todo' \subseteq todo,
           csp = "globals" => todo' \subseteq todo,
           worklist' \subseteq Arcs(constraints),
           result' # "Failure"
    PROVE  FilterInv(F, D0)'
<1>1. OfType(constraints, "unary")' = OfType(constraints, "unary")
      /\ OfType(constraints, "custom")' = OfType(constraints, "custom")
      /\ Arcs(constraints)' = Arcs(constraints)
  BY DEF OfType, Arcs
<1>2. Problem(F, D0) /\ constraints' = Translated(F)
  BY DEF FilterInv
<1>3. csp' # "done"
  OBVIOUS
<1>4. /\ csp' = "unary" => todo' \subseteq OfType(constraints, "unary")
      /\ csp' = "globals" => todo' \subseteq OfType(constraints, "custom")
  BY DEF FilterInv
<1> QED BY <1>1, <1>2, <1>3, <1>4 DEF FilterInv

LEMMA UnaryFilterInv ==
    ASSUME NEW F, NEW D0, FilterInv(F, D0), UnaryFilter
    PROVE  FilterInv(F, D0)'
<1> DEFINE i == Min(todo)
           c == constraints[i]
           v == c.scope[1]
           kept == UnaryKept(c, dom[v])
<1>1. /\ csp = "unary" /\ todo # {} /\ todo' = todo \ {i}
      /\ UNCHANGED <<constraints, worklist>>
      /\ \/ kept = {} /\ csp' = "done" /\ UNCHANGED dom
         \/ /\ kept # {} /\ dom' = [dom EXCEPT ![v] = kept] /\ UNCHANGED csp
            /\ result' \in {"Pruned", result}
  BY OutcomeFacts DEF UnaryFilter, Return
<1>2. i \in todo /\ i \in OfType(constraints, "unary") /\ i \in DOMAIN F
  BY <1>1, NextConstraint DEF FilterInv
<1>3. KeepsUnary(F[i], c) /\ VarsOf(F[i]) \subseteq Vars
  BY <1>1, <1>2, ConstraintFacts
<1>4. v \in Vars
  BY <1>3 DEF KeepsUnary
<1>5. SumsInOrder(F) => \A s \in Solutions(F, D0) : s[v] \in kept
  <2> SUFFICES ASSUME SumsInOrder(F), NEW s \in Solutions(F, D0) PROVE s[v] \in kept
    OBVIOUS
  <2>1. s \in Assignment /\ Satisfied(F[i], s)
    BY <1>2, ProblemFacts DEF FilterInv
  <2>2. s[v] \in dom[v]
    BY <1>4 DEF FilterInv, SolutionsStay
  <2> QED BY <1>3, <2>1, <2>2 DEF KeepsUnary
<1>6. kept \subseteq dom[v]
  BY DEF UnaryKept
<1>7. result # "Failure"
  BY <1>1 DEF FilterInv
<1>8. worklist \subseteq Arcs(constraints)
  BY DEF FilterInv
<1> HIDE DEF kept, v, c, i
<1>9. CASE kept = {} /\ csp' = "done" /\ UNCHANGED dom
  <2>1. SumsInOrder(F) => Solutions(F, D0) = {}
    BY <1>5, <1>9
  <2> QED BY <1>1, <1>9, <2>1, FailureInv
<1>10. CASE /\ kept # {} /\ dom' = [dom EXCEPT ![v] = kept] /\ UNCHANGED csp
            /\ result' \in {"Pruned", result}
  <2>1. Shrunk(Vars, D0, dom') /\ (SumsInOrder(F) => SolutionsStay(F, D0)')
    BY <1>4, <1>5, <1>6, <1>10, Narrowed
  <2>2. todo' \subseteq todo /\ worklist' \subseteq Arcs(constraints) /\ result' # "Failure"
    BY <1>1, <1>7, <1>8, <1>10
  <2> QED BY <1>1, <1>10, <2>1, <2>2, PrunedInv
<1> QED BY <1>1, <1>9, <1>10

LEMMA ArcReduceInv ==
    ASSUME NEW F, NEW D0, FilterInv(F, D0), ArcReduce
    PROVE  FilterInv(F, D0)'
<1>1. PICK a \in worklist :
        LET c == constraints[a[1]]
            v == c.scope[a[2]]
            kept == ArcKept(c, a[2], dom[v], dom[c.scope[3 - a[2]]])
            o == Outcome(dom[v], kept)
        IN  IF MissingEntry(c, a[2], dom[v])
            THEN csp' = "aborted" /\ UNCHANGED <<dom, worklist, b_result, result>>
            ELSE IF o = "Failure"
            THEN Return(o) /\ UNCHANGED <<dom, worklist, b_result>>
            ELSE /\ dom' = [dom EXCEPT ![v] = kept]
                 /\ worklist' = (worklist \ {a}) \cup Reconsidered(o, a[1], v)
                 /\ b_result' = IF o = "Pruned" THEN o ELSE b_result
                 /\ UNCHANGED <<csp, result>>
  BY DEF ArcReduce
<1> DEFINE k == a[1]
           i == a[2]
           c == constraints[k]
           v == c.scope[i]
           w == c.scope[3 - i]
           kept == ArcKept(c, i, dom[v], dom[w])
           o == Outcome(dom[v], kept)
<1>2. /\ csp = "arcs" /\ UNCHANGED <<constraints, todo>>
      /\ \/ csp' = "aborted" /\ UNCHANGED <<dom, worklist, result>>
         \/ kept = {} /\ csp' = "done" /\ UNCHANGED <<dom, worklist>>
         \/ /\ kept # {} /\ dom' = [dom EXCEPT ![v] = kept] /\ UNCHANGED <<csp, result>>
            /\ worklist' = (worklist \ {a}) \cup Reconsidered(o, k, v)
  BY <1>1, OutcomeFacts DEF ArcReduce, Return
<1>3. worklist \subseteq Arcs(constraints)
  BY DEF FilterInv
<1>4. k \in OfType(constraints, "arc") /\ i \in {1, 2}
  BY <1>3 DEF Arcs
<1>5. /\ KeepsArc(F[k], c) /\ VarsOf(F[k]) \subseteq Vars
      /\ k \in DOMAIN F
  BY <1>2, <1>4, ConstraintFacts
<1>6. v \in Vars /\ w \in Vars
  <2>1. c.scope[1] \in Vars /\ c.scope[2] \in Vars
    BY <1>5 DEF KeepsArc
  <2> HIDE DEF i, c
  <2>2. CASE i = 1
    BY <2>1, <2>2
  <2>3. CASE i = 2
    BY <2>1, <2>3
  <2> QED BY <1>4, <2>2, <2>3
<1>7. \A u \in Vars : dom[u] \in SUBSET Int /\ IsFiniteSet(dom[u])
  BY DEF FilterInv, Shrunk, DomainsOver
<1>8. SumsInOrder(F) => \A s \in Solutions(F, D0) : s[v] \in kept
  <2> SUFFICES ASSUME SumsInOrder(F), NEW s \in Solutions(F, D0) PROVE s[v] \in kept
    OBVIOUS
  <2>1. s \in Assignment /\ Satisfied(F[k], s)
    BY <1>5, ProblemFacts DEF FilterInv
  <2>2. s[v] \in dom[v] /\ s[w] \in dom[w]
    BY <1>6 DEF FilterInv, SolutionsStay
  <2>3. dom[v] \in SUBSET Int /\ dom[w] \in SUBSET Int /\ IsFiniteSet(dom[w])
    BY <1>6, <1>7
  <2> HIDE DEF c, i, k
  <2> QED BY <1>4, <1>5, <2>1, <2>2, <2>3 DEF KeepsArc
<1>9. kept \subseteq dom[v]
  <2> DEFINE f == F[k]
  <2>1. c.op \in {"=", "!=", "<", "<=", "table"}
    <3>1. Legal(f) /\ constraints[k] = Translate(f)
      BY <1>2, <1>5, ProblemFacts DEF FilterInv, Translated
    <3>2. Translate(f).type = "arc"
      BY <1>4, <3>1 DEF OfType
    <3>3. Translate(f).op \in {"=", "!=", "<", "<=", "table"}
      BY <3>1, <3>2, ArcOps
    <3> QED BY <3>1, <3>3
  <2> HIDE DEF c
  <2> QED BY <2>1 DEF ArcKept
<1>10. Reconsidered(o, k, v) \subseteq Arcs(constraints)
  BY DEF Reconsidered, Reinserted, Arcs
<1>11. result # "Failure"
  BY <1>2 DEF FilterInv
<1> HIDE DEF kept, v, w, c, i, k, o
<1>12. CASE csp' = "aborted" /\ UNCHANGED <<dom, worklist, result>>
  BY <1>2, <1>3, <1>11, <1>12, StillInv
<1>13. CASE kept = {} /\ csp' = "done" /\ UNCHANGED <<dom, worklist>>
  <2>1. SumsInOrder(F) => Solutions(F, D0) = {}
    BY <1>8, <1>13
  <2> QED BY <1>2, <1>13, <2>1, FailureInv
<1>14. CASE /\ kept # {} /\ dom' = [dom EXCEPT ![v] = kept] /\ UNCHANGED <<csp, result>>
            /\ worklist' = (worklist \ {a}) \cup Reconsidered(o, k, v)
  <2>1. Shrunk(Vars, D0, dom') /\ (SumsInOrder(F) => SolutionsStay(F, D0)')
    BY <1>6, <1>8, <1>9, <1>14, Narrowed
  <2>2. worklist' \subseteq Arcs(constraints) /\ result' # "Failure"
    BY <1>3, <1>10, <1>11, <1>14
  <2> QED BY <1>2, <1>14, <2>1, <2>2, PrunedInv
<1> QED BY <1>2, <1>12, <1>13, <1>14

-----------------------------------------------------------------------------
(***************************************************************************)
(* Global filtering: a filter works on the domains of the scope of its     *)
(* constraint, in the order of the scope.                                  *)
(***************************************************************************)
ScopeOver(c, n) ==
    /\ c.scope \in [1..n -> Vars] /\ DOMAIN c.scope = 1..n
    /\ \A i, j \in 1..n : c.scope[i] = c.scope[j] => i = j

LEMMA ProjectFacts ==
    ASSUME NEW F, NEW D0, FilterInv(F, D0), NEW c, NEW n \in Nat, ScopeOver(c, n)
    PROVE  /\ DomainsOver(1..n, Project(c))
           /\ \A i \in 1..n : Project(c)[i] = dom[c.scope[i]]
<1>1. Project(c) = [i \in 1..n |-> dom[c.scope[i]]]
  BY DEF Project, ScopeOver
<1>2. /\ dom \in [Vars -> SUBSET Int]
      /\ \A v \in Vars : dom[v] # {} /\ IsFiniteSet(dom[v])
  BY DEF FilterInv, Shrunk, DomainsOver
<1>3. \A i \in 1..n : c.scope[i] \in Vars
  BY DEF ScopeOver
<1> QED BY <1>1, <1>2, <1>3 DEF DomainsOver

LEMMA UpdatedFacts ==
    ASSUME NEW F, NEW D0, FilterInv(F, D0), NEW c, NEW n \in Nat, ScopeOver(c, n), NEW E, Shrunk(1..n, Project(c), E)
    PROVE  /\ Shrunk(Vars, D0, Updated(c, E))
           /\ \A s : (\A v \in Vars : s[v] \in dom[v]) /\ (\A i \in 1..n : s[c.scope[i]] \in E[i])
                 => \A v \in Vars : s[v] \in Updated(c, E)[v]
<1> DEFINE U == Updated(c, E)
<1>1. U = [v \in Vars |-> IF \E i \in 1..n : c.scope[i] = v
                          THEN E[CHOOSE i \in 1..n : c.scope[i] = v] ELSE dom[v]]
  BY DEF Updated, ScopeOver
<1>2. /\ dom \in [Vars -> SUBSET Int]
      /\ \A v \in Vars : dom[v] # {} /\ IsFiniteSet(dom[v]) /\ dom[v] \subseteq D0[v]
  BY DEF FilterInv, Shrunk, DomainsOver
<1>3. E \in [1..n -> SUBSET Int]
      /\ \A i \in 1..n : E[i] # {} /\ IsFiniteSet(E[i]) /\ E[i] \subseteq dom[c.scope[i]]
  BY ProjectFacts DEF Shrunk, DomainsOver
<1> HIDE DEF U
<1>4. ASSUME NEW v \in Vars
      PROVE  \/ U[v] = dom[v]
             \/ \E i \in 1..n : c.scope[i] = v /\ U[v] = E[i]
  <2>1. CASE \E i \in 1..n : c.scope[i] = v
    <3> DEFINE j == CHOOSE i \in 1..n : c.scope[i] = v
    <3>1. j \in 1..n /\ c.scope[j] = v
      BY <2>1
    <3>2. U[v] = E[j]
      BY <1>1, <2>1
    <3> QED BY <3>1, <3>2
  <2>2. CASE ~ \E i \in 1..n : c.scope[i] = v
    BY <1>1, <2>2
  <2> QED BY <2>1, <2>2
<1>5. \A v \in Vars : U[v] \in SUBSET Int /\ U[v] # {} /\ IsFiniteSet(U[v]) /\ U[v] \subseteq D0[v]
  BY <1>2, <1>3, <1>4
<1>6. U \in [Vars -> SUBSET Int]
  BY <1>1, <1>5
<1>7. Shrunk(Vars, D0, U)
  BY <1>5, <1>6 DEF Shrunk, DomainsOver
<1>8. ASSUME NEW s, \A v \in Vars : s[v] \in dom[v], \A i \in 1..n : s[c.scope[i]] \in E[i],
             NEW v \in Vars
      PROVE  s[v] \in U[v]
  BY <1>4, <1>8
<1> QED BY <1>7, <1>8 DEF U

\* What a filter may not lose.
LEMMA GlobalKeeps ==
    ASSUME NEW F, NEW D0, FilterInv(F, D0), csp # "idle", NEW k \in OfType(constraints, "custom"), NEW n,
           n = Cardinality(VarsOf(F[k])),
           NEW E \in FilterCustom(constraints[k], Project(constraints[k]))
    PROVE  /\ n \in Nat /\ ScopeOver(constraints[k], n)
           /\ ~E.failed => Shrunk(1..n, Project(constraints[k]), E.dom)
           /\ SumsInOrder(F) => \A s \in Solutions(F, D0) :
                 /\ ~E.failed
                 /\ \A i \in 1..n : s[constraints[k].scope[i]] \in E.dom[i]
<1> DEFINE c == constraints[k]
           D == Project(c)
           f == F[k]
<1>1. CustomFacts(f, c, n) /\ VarsOf(f) \subseteq Vars /\ k \in DOMAIN F
  BY ConstraintFacts
<1> HIDE DEF f, c
<1>2. n \in Nat /\ ScopeOver(c, n)
  BY <1>1 DEF CustomFacts, ScopeOver
<1>3. DomainsOver(1..n, D) /\ \A i \in 1..n : D[i] = dom[c.scope[i]]
  BY <1>2, ProjectFacts
<1>4. /\ c.op \in {"alldiff", "sum"}
      /\ c.op = "sum" => n >= 1
      /\ E \in IF c.op = "alldiff" THEN FilterAlldiff(D) ELSE FilterSum(D)
  BY <1>1 DEF CustomFacts, FilterCustom, c
<1> DEFINE val(s) == [i \in 1..n |-> s[c.scope[i]]]
<1>5. ASSUME SumsInOrder(F), NEW s \in Solutions(F, D0)
      PROVE  /\ s \in Assignment /\ Satisfied(f, s)
             /\ \A v \in Vars : s[v] \in dom[v]
             /\ val(s) \in [1..n -> Int]
             /\ \A i \in 1..n : val(s)[i] \in D[i]
             /\ SumInOrder(f)
             /\ val(s) = ValuesIn(c, s)
  <2>1. s \in Assignment /\ Satisfied(f, s) /\ \A v \in Vars : s[v] \in dom[v]
    BY <1>1, <1>5, ProblemFacts DEF FilterInv, SolutionsStay, f
  <2>2. \A i \in 1..n : c.scope[i] \in Vars
    BY <1>2 DEF ScopeOver
  <2>3. \A i \in 1..n : s[c.scope[i]] \in Int
    BY <2>1, <2>2 DEF Assignment
  <2>4. val(s) = ValuesIn(c, s)
    BY <1>2 DEF ValuesIn, ScopeOver
  <2>5. SumInOrder(f)
    BY <1>1, <1>5 DEF SumsInOrder, f
  <2> HIDE DEF D
  <2> QED BY <1>3, <2>1, <2>2, <2>3, <2>4, <2>5
<1> HIDE DEF D
<1>6. CASE c.op = "alldiff"
  <2>1. E \in FilterAlldiff(D)
    BY <1>4, <1>6
  <2>2. /\ ~E.failed => Shrunk(1..n, D, E.dom)
        /\ \A w : Different(1..n, D, w) => ~E.failed /\ Different(1..n, E.dom, w)
    BY <1>2, <1>3, <2>1, AlldiffFacts
  <2>3. ASSUME SumsInOrder(F), NEW s \in Solutions(F, D0)
        PROVE  ~E.failed /\ \A i \in 1..n : s[c.scope[i]] \in E.dom[i]
    <3>1. \A i, j \in 1..n : s[c.scope[i]] = s[c.scope[j]] => i = j
      BY <1>1, <1>5, <1>6, <2>3 DEF CustomFacts
    <3>2. Different(1..n, D, val(s))
      BY <1>5, <2>3, <3>1 DEF Different
    <3>3. ~E.failed /\ Different(1..n, E.dom, val(s))
      BY <2>2, <3>2
    <3>4. \A i \in 1..n : val(s)[i] \in E.dom[i]
      BY <3>3 DEF Different
    <3> QED BY <3>3, <3>4
  <2> QED BY <1>2, <2>2, <2>3 DEF c, D
<1>7. CASE c.op = "sum"
  <2>1. E \in FilterSum(D) /\ n >= 1
    BY <1>4, <1>7
  <2>2. /\ ~E.failed => Shrunk(1..n, D, E.dom)
        /\ \A w \in [1..n -> Int] :
              (\A v \in 1..n : w[v] \in D[v]) /\ w[n] = SumFunctionOnSet(w, 1..(n - 1))
                => ~E.failed /\ \A v \in 1..n : w[v] \in E.dom[v]
    BY <1>2, <1>3, <2>1, SumFacts
  <2>3. ASSUME SumsInOrder(F), NEW s \in Solutions(F, D0)
        PROVE  ~E.failed /\ \A i \in 1..n : s[c.scope[i]] \in E.dom[i]
    <3>1. s[c.scope[n]] = SumFunctionOnSet(val(s), 1..(n - 1))
      BY <1>1, <1>5, <1>7, <2>3 DEF CustomFacts
    <3>2. n \in 1..n
      BY <1>2, <2>1
    <3>3. val(s)[n] = SumFunctionOnSet(val(s), 1..(n - 1))
      BY <3>1, <3>2
    <3>4. ~E.failed /\ \A i \in 1..n : val(s)[i] \in E.dom[i]
      BY <1>5, <2>2, <2>3, <3>3
    <3> QED BY <3>4
  <2> QED BY <1>2, <2>2, <2>3 DEF c, D
<1> QED BY <1>4, <1>6, <1>7

LEMMA GlobalFilterInv ==
    ASSUME NEW F, NEW D0, FilterInv(F, D0), GlobalFilter
    PROVE  FilterInv(F, D0)'
<1> DEFINE k == Min(todo)
           c == constraints[k]
<1>1. /\ csp = "globals" /\ todo # {} /\ todo' = todo \ {k}
      /\ UNCHANGED <<constraints, worklist>>
      /\ \E E \in FilterCustom(c, Project(c)) :
            \/ /\ E.failed /\ UNCHANGED dom
               /\ \/ csp' = "done"
                  \/ csp' = "loop" /\ UNCHANGED result
            \/ ~E.failed /\ dom' = Updated(c, E.dom) /\ UNCHANGED <<csp, result>>
  <2>1. csp = "globals" /\ todo # {} /\ todo' = todo \ {k} /\ UNCHANGED <<constraints, worklist>>
    BY DEF GlobalFilter
  <2>2. \E E \in FilterCustom(c, Project(c)) :
           IF E.failed
           THEN /\ g_result' = "Failure"
                /\ IF round = "first" THEN Return("Failure") ELSE csp' = "loop" /\ UNCHANGED result
                /\ UNCHANGED dom
           ELSE /\ dom' = Updated(c, E.dom)
                /\ g_result' = IF E.dom # Project(c) THEN "Pruned" ELSE g_result
                /\ UNCHANGED <<csp, result>>
    BY DEF GlobalFilter
  <2> HIDE DEF c, k
  <2>3. \E E \in FilterCustom(c, Project(c)) :
            \/ /\ E.failed /\ UNCHANGED dom
               /\ \/ csp' = "done"
                  \/ csp' = "loop" /\ UNCHANGED result
            \/ ~E.failed /\ dom' = Updated(c, E.dom) /\ UNCHANGED <<csp, result>>
    BY <2>2 DEF Return
  <2> QED BY <2>1, <2>3
<1>2. k \in OfType(constraints, "custom")
  BY <1>1, NextConstraint DEF FilterInv
<1>3. PICK E \in FilterCustom(c, Project(c)) :
            \/ /\ E.failed /\ UNCHANGED dom
               /\ \/ csp' = "done"
                  \/ csp' = "loop" /\ UNCHANGED result
            \/ ~E.failed /\ dom' = Updated(c, E.dom) /\ UNCHANGED <<csp, result>>
  BY <1>1
<1>4. PICK n : n = Cardinality(VarsOf(F[k]))
  OBVIOUS
<1>5. /\ n \in Nat /\ ScopeOver(c, n)
      /\ ~E.failed => Shrunk(1..n, Project(c), E.dom)
      /\ SumsInOrder(F) => \A s \in Solutions(F, D0) :
            /\ ~E.failed
            /\ \A i \in 1..n : s[c.scope[i]] \in E.dom[i]
  BY <1>1, <1>2, <1>4, GlobalKeeps
<1>6. worklist \subseteq Arcs(constraints) /\ result # "Failure"
  BY <1>1 DEF FilterInv
<1> HIDE DEF k, c
<1>7. CASE E.failed /\ UNCHANGED dom /\ csp' = "done"
  <2>1. SumsInOrder(F) => Solutions(F, D0) = {}
    BY <1>5, <1>7
  <2> QED BY <1>1, <1>7, <2>1, FailureInv
<1>8. CASE E.failed /\ UNCHANGED dom /\ csp' = "loop" /\ UNCHANGED result
  BY <1>1, <1>6, <1>8, StillInv
<1>9. CASE ~E.failed /\ dom' = Updated(c, E.dom) /\ UNCHANGED <<csp, result>>
  <2>1. Shrunk(Vars, D0, dom')
    BY <1>5, <1>9, UpdatedFacts
  <2>2. SumsInOrder(F) => \A s \in Solutions(F, D0) : \A v \in Vars : s[v] \in dom'[v]
    <3> SUFFICES ASSUME SumsInOrder(F), NEW s \in Solutions(F, D0)
                 PROVE  \A v \in Vars : s[v] \in dom'[v]
      OBVIOUS
    <3>1. \A v \in Vars : s[v] \in dom[v]
      BY DEF FilterInv, SolutionsStay
    <3>2. \A i \in 1..n : s[c.scope[i]] \in E.dom[i]
      BY <1>5
    <3>3. \A v \in Vars : s[v] \in Updated(c, E.dom)[v]
      BY <1>5, <1>9, <3>1, <3>2, UpdatedFacts
    <3> QED BY <1>9, <3>3
  <2>3. SumsInOrder(F) => SolutionsStay(F, D0)'
    BY <2>2 DEF SolutionsStay
  <2>4. Shrunk(Vars, D0, dom')
    BY <2>1
  <2>5. todo' \subseteq todo /\ worklist' \subseteq Arcs(constraints) /\ result' # "Failure"
    BY <1>1, <1>6, <1>9
  <2> QED BY <1>1, <1>9, <2>3, <2>4, <2>5, PrunedInv
<1> QED BY <1>3, <1>7, <1>8, <1>9

-----------------------------------------------------------------------------
\* The steps that only move on to the next pass.
LEMMA PassInv ==
    ASSUME NEW F, NEW D0, FilterInv(F, D0), UnaryDone \/ ArcsDone \/ GlobalsDone \/ Refilter \/ LeaveLoop
    PROVE  FilterInv(F, D0)'
<1>1. worklist \subseteq Arcs(constraints)
  BY DEF FilterInv
<1>2. csp # "done" => result # "Failure"
  BY DEF FilterInv
<1>3. CASE UnaryDone
  <2>1. /\ csp = "unary" /\ csp' \in {"done", "arcs"} /\ UNCHANGED <<dom, constraints, result>>
        /\ worklist' \in {worklist, Arcs(constraints)}
    BY <1>3 DEF UnaryDone
  <2> QED BY <1>1, <1>2, <2>1, StillInv
<1>4. CASE ArcsDone
  <2>1. /\ csp = "arcs" /\ UNCHANGED <<dom, constraints, worklist, result>>
        /\ \/ csp' = "globals" /\ todo' = OfType(constraints, "custom")
           \/ csp' = "loop"
    BY <1>4 DEF ArcsDone
  <2> QED BY <1>1, <1>2, <2>1, StillInv
<1>5. CASE GlobalsDone
  <2>1. csp = "globals" /\ csp' = "loop" /\ UNCHANGED <<dom, constraints, worklist>>
        /\ result' \in {"Pruned", result}
    BY <1>5 DEF GlobalsDone, Merged
  <2> QED BY <1>1, <1>2, <2>1, StillInv
<1>6. CASE Refilter
  <2>1. csp = "loop" /\ csp' = "arcs" /\ UNCHANGED <<dom, constraints, worklist, result>>
    BY <1>6 DEF Refilter
  <2> QED BY <1>1, <1>2, <2>1, StillInv
<1>7. CASE LeaveLoop
  <2>1. csp = "loop" /\ csp' = "done" /\ UNCHANGED <<dom, constraints, worklist, result>>
    BY <1>7 DEF LeaveLoop
  <2> QED BY <1>1, <1>2, <2>1, StillInv
<1> QED BY <1>3, <1>4, <1>5, <1>6, <1>7

\* Every step of filter keeps the invariant.
LEMMA FilterStepInv ==
    ASSUME NEW F, NEW D0, FilterInv(F, D0), FilterStep
    PROVE  FilterInv(F, D0)'
BY UnaryFilterInv, ArcReduceInv, GlobalFilterInv, PassInv DEF FilterStep

LEMMA FilterStutterInv ==
    ASSUME NEW F, NEW D0, FilterInv(F, D0), UNCHANGED handler
    PROVE  FilterInv(F, D0)'
<1>1. UNCHANGED <<constraints, dom, csp, todo, worklist, result>>
  BY DEF handler
<1> QED BY <1>1 DEF FilterInv, Shrunk, DomainsOver, OfType, Arcs, SolutionsStay

\* When the handler is done and reports no solution there is none.
LEMMA NoSolution ==
    ASSUME NEW F, NEW D0, FilterInv(F, D0), SumsInOrder(F),
           csp = "done", result = "Failure" \/ ~CheckConsistency
    PROVE  Solutions(F, D0) = {}
BY DEF FilterInv, Shrunk, DomainsOver, CheckConsistency

-----------------------------------------------------------------------------
(* One call of filter: the behaviours of DirectCSP *)

IInv ==
    /\ problem \in Problems
    /\ csp = "idle" => dom = problem.dom
    /\ FilterInv(Formulas, problem.dom)

LEMMA ProblemsAreProblems ==
    ASSUME NEW p \in Problems
    PROVE  Problem(p.formulas, p.dom)
<1>1. /\ p.dom \in [Vars -> SUBSET Int]
      /\ \A v \in Vars : p.dom[v] # {} /\ IsFiniteSet(p.dom[v])
      /\ p.formulas \in Seq(FormulaType)
      /\ \A i \in DOMAIN p.formulas : Supported(p.formulas[i]) /\ VarsOf(p.formulas[i]) \subseteq Vars
  BY ProblemsAssumption
<1>2. \A i \in DOMAIN p.formulas : p.formulas[i] \in FormulaType
  BY <1>1, LenProperties, ElementOfSeq
<1>3. \A i \in DOMAIN p.formulas : Legal(p.formulas[i])
  BY <1>1, <1>2 DEF Legal
<1> QED BY <1>1, <1>3 DEF Problem, DomainsOver

LEMMA Invariant == CallSpec => []IInv
<1>1. ASSUME CallInit PROVE IInv
  <2>1. problem \in Problems /\ dom = problem.dom /\ csp = "idle" /\ worklist = {} /\ result = "Unpruned"
    BY <1>1 DEF CallInit
  <2> QED BY <2>1, ProblemsAreProblems, BeforeInv DEF IInv, Formulas
<1>2. ASSUME IInv, [CallNext]_callVars PROVE IInv'
  <2>1. UNCHANGED problem
    BY <1>2 DEF CallNext, Call, callVars
  <2>2. PICK F, D0 : F = Formulas /\ D0 = problem.dom
    OBVIOUS
  <2>3. FilterInv(F, D0) /\ Problem(F, D0)
    BY <1>2, <2>2 DEF IInv, FilterInv
  <2>4. ASSUME Call PROVE FilterInv(F, D0)' /\ csp' # "idle"
    <3>1. dom = D0
      BY <1>2, <2>2, <2>4 DEF IInv, Call
    <3>2. StartFilter(Translated(F), D0)
      BY <2>2, <2>4, <3>1 DEF Call, Translated
    <3>3. csp' # "idle"
      BY <3>2 DEF StartFilter
    <3> QED BY <2>3, <3>2, <3>3, StartInv
  <2>5. ASSUME FilterStep PROVE FilterInv(F, D0)' /\ csp' # "idle"
    <3>1. csp' # "idle"
      BY <2>5 DEF FilterStep, UnaryFilter, UnaryDone, ArcReduce, ArcsDone, GlobalFilter, GlobalsDone,
                  Refilter, LeaveLoop, Return
    <3> QED BY <2>3, <2>5, <3>1, FilterStepInv
  <2>6. ASSUME UNCHANGED callVars PROVE FilterInv(F, D0)' /\ UNCHANGED <<csp, dom>>
    BY <2>3, <2>6, FilterStutterInv DEF callVars, handler
  <2>7. FilterInv(F, D0)' /\ (csp' = "idle" => csp = "idle" /\ dom' = dom)
    BY <1>2, <2>4, <2>5, <2>6 DEF CallNext
  <2>8. F = Formulas' /\ D0 = problem'.dom
    BY <2>1, <2>2 DEF Formulas
  <2> QED BY <1>2, <2>1, <2>7, <2>8 DEF IInv
<1> QED BY <1>1, <1>2, PTL DEF CallSpec

-----------------------------------------------------------------------------
\* What filter may do to the domains, whatever the formulas: it only removes
\* values, and while it has not failed every domain keeps one, as the reads of
\* cbegin() and crbegin() and the assertions in builtin.cxx require.
THEOREM DomainsStayNonempty ==
    CallSpec => [](CheckConsistency /\ \A v \in Vars : dom[v] \subseteq problem.dom[v])
<1>1. IInv => CheckConsistency /\ \A v \in Vars : dom[v] \subseteq problem.dom[v]
  BY DEF IInv, FilterInv, Shrunk, DomainsOver, CheckConsistency
<1> QED BY <1>1, Invariant, PTL

\* Filtering never loses a solution and reports a failure only if there is
\* none (DirectCSPHandler::filter with every filter of builtin.cxx, the
\* translated tables, alldiff and sum), for any formulas and any domains and
\* whatever the order of the arcs.  The sums must list their terms in the order
\* of the variables, the total last: the translator sorts their scope, and a sum
\* whose total is not its last variable is filtered as another formula.
THEOREM FilteringIsSound == CallSpec => [](SumsInOrder(Formulas) => FilteringSound)
<1>1. ASSUME IInv, SumsInOrder(Formulas) PROVE FilteringSound
  <2>1. CheckConsistency /\ \A v \in Vars : dom[v] \subseteq problem.dom[v]
    BY <1>1 DEF IInv, FilterInv, Shrunk, DomainsOver, CheckConsistency
  <2>2. Solutions(Formulas, problem.dom) \subseteq Within(dom)
    <3> SUFFICES ASSUME NEW s \in Solutions(Formulas, problem.dom) PROVE s \in Within(dom)
      OBVIOUS
    <3>1. s \in Assignment /\ \A v \in Vars : s[v] \in dom[v]
      BY <1>1, ProblemFacts DEF IInv, FilterInv, SolutionsStay
    <3>2. s = [v \in Vars |-> s[v]] /\ \A v \in Vars : s[v] \in UNION {dom[w] : w \in Vars}
      BY <3>1 DEF Assignment
    <3>3. s \in [Vars -> UNION {dom[w] : w \in Vars}]
      BY <3>2
    <3> QED BY <3>1, <3>3 DEF Within
  <2>3. csp = "done" /\ result = "Failure" => Solutions(Formulas, problem.dom) = {}
    BY <1>1 DEF IInv, FilterInv
  <2> QED BY <2>1, <2>2, <2>3 DEF FilteringSound
<1>2. IInv => (SumsInOrder(Formulas) => FilteringSound)
  BY <1>1
<1> QED BY <1>2, Invariant, PTL

-----------------------------------------------------------------------------
(***************************************************************************)
(* What an action manager computes from the domains of single variables is *)
(* what the action does in the states within the domains.  T is the task;  *)
(* every action is one of it.                                              *)
(***************************************************************************)
\* TranslateEffect takes the variable of a difference for its first term.
FromVariable(e) == e.rhs.op = "-" => e.rhs.args[1].var

\* A unary constraint is its formula.
LEMMA UnaryExact ==
    ASSUME NEW f, Legal(f), Translate(f).type = "unary"
    PROVE  LET c == Translate(f)
           IN  /\ VarsOf(f) = {c.scope[1]}
               /\ c.scope[1] \in Vars
               /\ \A s \in Assignment :
                     Satisfied(f, s) <=> s[c.scope[1]] \in UnaryKept(c, {s[c.scope[1]]})
<1> DEFINE c == Translate(f)
<1>1. CASE f.op \in Relations
  <2> DEFINE l == f.args[1]
             r == f.args[2]
  <2>1. c = TranslateRelation(f)
    BY <1>1 DEF Translate, Relations
  <2>2. /\ l.var => l.idx \in VarsOf(f)
        /\ r.var => r.idx \in VarsOf(f)
        /\ l.var \in BOOLEAN /\ r.var \in BOOLEAN
        /\ l.idx \in Int /\ r.idx \in Int
        /\ \A s : Satisfied(f, s) = Holds(f.op, ValueOf(l, s), ValueOf(r, s))
    BY <1>1, RelationFacts
  <2>3. ~ (l.var /\ r.var)
    <3> SUFFICES ASSUME l.var /\ r.var PROVE FALSE
      OBVIOUS
    <3>1. c.type = "arc"
      BY <2>1 DEF TranslateRelation, Constraint
    <3> QED BY <3>1
  <2>4. l.var \/ r.var
    BY <1>1 DEF Legal, Supported, Relations
  <2>5. \A x \in VarsOf(f) : (l.var /\ x = l.idx) \/ (r.var /\ x = r.idx)
    <3>1. DOMAIN f.args = 1..2
      BY <1>1, LegalFacts
    <3>2. ASSUME NEW x \in VarsOf(f) PROVE (l.var /\ x = l.idx) \/ (r.var /\ x = r.idx)
      <4>1. PICK i \in 1..2 : f.args[i].var /\ x = f.args[i].idx
        BY <3>1 DEF VarsOf
      <4>2. i = 1 \/ i = 2
        OBVIOUS
      <4> QED BY <4>1, <4>2
    <3> QED BY <3>2
  <2>6. VarsOf(f) \subseteq Vars
    BY DEF Legal
  <2>7. CASE l.var /\ ~r.var
    <3>1. c = Constraint("unary", f.op, <<l.idx>>, r.idx, {})
      BY <2>1, <2>7 DEF TranslateRelation
    <3>2. c.op = f.op /\ c.scope[1] = l.idx /\ c.par = r.idx /\ c.op # "table"
      BY <1>1, <3>1 DEF Constraint, Relations
    <3>3. VarsOf(f) = {l.idx}
      BY <2>2, <2>5, <2>7
    <3>4. ASSUME NEW s PROVE Satisfied(f, s) <=> s[l.idx] \in UnaryKept(c, {s[l.idx]})
      <4>1. Satisfied(f, s) = Holds(c.op, s[l.idx], c.par)
        BY <2>2, <2>7, <3>2 DEF ValueOf
      <4>2. UnaryKept(c, {s[l.idx]}) = {x \in {s[l.idx]} : Holds(c.op, x, c.par)}
        BY <3>2 DEF UnaryKept
      <4>3. s[l.idx] \in UnaryKept(c, {s[l.idx]}) <=> Holds(c.op, s[l.idx], c.par)
        BY <4>2
      <4> QED BY <4>1, <4>3
    <3> QED BY <2>6, <3>2, <3>3, <3>4
  <2>8. CASE ~l.var /\ r.var
    <3>1. c = Constraint("unary", Mirrored(f.op), <<r.idx>>, l.idx, {})
      BY <2>1, <2>8 DEF TranslateRelation
    <3>2. c.op = Mirrored(f.op) /\ c.scope[1] = r.idx /\ c.par = l.idx
      BY <3>1 DEF Constraint
    <3>3. c.op # "table"
      BY <1>1, <3>2 DEF Mirrored, Relations
    <3>4. VarsOf(f) = {r.idx} /\ r.idx \in Vars
      BY <2>2, <2>5, <2>6, <2>8
    <3>5. ASSUME NEW s \in Assignment PROVE Satisfied(f, s) <=> s[r.idx] \in UnaryKept(c, {s[r.idx]})
      <4>1. Satisfied(f, s) = Holds(f.op, c.par, s[r.idx])
        BY <2>2, <2>8, <3>2 DEF ValueOf
      <4>2. s[r.idx] \in Int /\ c.par \in Int
        BY <2>2, <3>2, <3>4 DEF Assignment
      <4>3. Holds(f.op, c.par, s[r.idx]) <=> Holds(c.op, s[r.idx], c.par)
        BY <1>1, <3>2, <4>2 DEF Holds, Mirrored, Relations
      <4>4. UnaryKept(c, {s[r.idx]}) = {x \in {s[r.idx]} : Holds(c.op, x, c.par)}
        BY <3>3 DEF UnaryKept
      <4>5. s[r.idx] \in UnaryKept(c, {s[r.idx]}) <=> Holds(c.op, s[r.idx], c.par)
        BY <4>4
      <4> QED BY <4>1, <4>3, <4>5
    <3> QED BY <3>2, <3>4, <3>5
  <2> QED BY <2>3, <2>4, <2>7, <2>8
<1>2. CASE f.op = "table"
  <2> DEFINE q == ComputeDirectScope(f)
             n == Cardinality(VarsOf(f))
  <2>1. c = Constraint(IF Len(q) = 1 THEN "unary" ELSE "arc", "table", q, 0, f.ext)
    BY <1>2 DEF Translate, TranslateTable, Relations
  <2>2. Len(q) = 1 /\ c.op = "table" /\ c.scope = q /\ c.ext = f.ext
    BY <2>1 DEF Constraint
  <2>3. /\ n = 1 /\ q \in [1..1 -> VarsOf(f)]
        /\ \A v \in VarsOf(f) : \E i \in 1..1 : q[i] = v
    <3>1. /\ Len(q) = n /\ q \in [1..n -> VarsOf(f)]
          /\ \A v \in VarsOf(f) : \E i \in 1..n : q[i] = v
      BY LegalFacts, ScopeFacts
    <3> HIDE DEF q, n
    <3> QED BY <2>2, <3>1
  <2>4. f.args = [i \in DOMAIN q |-> VarT(q[i])]
    BY <1>2, LegalFacts DEF InScopeOrder
  <2> HIDE DEF q, n
  <2>5. VarsOf(f) = {q[1]}
    BY <2>3
  <2>6. ASSUME NEW s PROVE Satisfied(f, s) <=> s[q[1]] \in UnaryKept(c, {s[q[1]]})
    <3> DEFINE v == [i \in DOMAIN f.args |-> ValueOf(f.args[i], s)]
    <3>1. Satisfied(f, s) = (v \in f.ext)
      BY <1>2 DEF Satisfied, Relations
    <3>2. v = [i \in 1..1 |-> s[q[i]]]
      BY <2>3, <2>4 DEF ValueOf, VarT
    <3> HIDE DEF v
    <3>3. v = <<s[q[1]]>>
      BY <3>2
    <3>4. UnaryKept(c, {s[q[1]]}) = {x \in {s[q[1]]} : <<x>> \in f.ext}
      BY <2>2 DEF UnaryKept
    <3>5. s[q[1]] \in UnaryKept(c, {s[q[1]]}) <=> <<s[q[1]]>> \in f.ext
      BY <3>4
    <3> QED BY <3>1, <3>3, <3>5
  <2> QED BY <2>2, <2>5, <2>6 DEF Legal
<1>3. CASE f.op \in {"alldiff", "sum"}
  <2>1. c.type = "custom"
    BY <1>3 DEF Translate, Constraint, Relations
  <2> QED BY <2>1
<1> QED BY <1>1, <1>2, <1>3, LegalFacts

\* A translated effect is its right-hand side.
EffectIs(T, e, d) ==
    /\ d.var = e.var /\ e.var \in Vars
    /\ \/ /\ d.scope = << >> /\ d.par \in T.values[e.var]
          /\ \A x : Apply(d, x) = d.par
          /\ \A s : Interpret(e.rhs, s) = d.par
       \/ \E u \in Vars :
             /\ d.scope = <<u>>
             /\ \A s \in Assignment : Interpret(e.rhs, s) = Apply(d, s[u])

LEMMA EffectExact ==
    ASSUME NEW T, NEW e \in EffectType, SupportedEffect(T, e), FromVariable(e)
    PROVE  EffectIs(T, e, TranslateEffect(e))
<1> DEFINE l == e.rhs.args[1]
           r == e.rhs.args[2]
           d == TranslateEffect(e)
<1>1. /\ e.var \in Vars /\ e.rhs.op \in Arithmetic \cup {"="} /\ e.rhs.args \in Seq(Term)
      /\ Len(e.rhs.args) = 2 /\ VarsOf(e.rhs) \subseteq Vars
  BY DEF EffectType
<1>2. l \in Term /\ r \in Term /\ DOMAIN e.rhs.args = 1..2
  BY <1>1, ElementOfSeq, LenProperties
<1>3. /\ l.var \in BOOLEAN /\ r.var \in BOOLEAN /\ l.idx \in Int /\ r.idx \in Int
      /\ l.var => l.idx \in Vars
      /\ r.var => r.idx \in Vars
  <2>1. 1 \in DOMAIN e.rhs.args /\ 2 \in DOMAIN e.rhs.args
    BY <1>2
  <2>2. (l.var => l.idx \in VarsOf(e.rhs)) /\ (r.var => r.idx \in VarsOf(e.rhs))
    BY <2>1 DEF VarsOf
  <2> QED BY <1>1, <1>2, <2>2 DEF Term
<1>4. \A s : Interpret(e.rhs, s) =
         CASE e.rhs.op = "="  -> ValueOf(l, s)
           [] e.rhs.op = "+"  -> ValueOf(l, s) + ValueOf(r, s)
           [] e.rhs.op = "-"  -> ValueOf(l, s) - ValueOf(r, s)
           [] e.rhs.op = "*"  -> ValueOf(l, s) * ValueOf(r, s)
  BY DEF Interpret
<1>5. CASE e.rhs.op = "=" /\ ~l.var
  <2>1. d = DirectEffect(e, "value", << >>, l.idx)
    BY <1>5 DEF TranslateEffect, Arithmetic
  <2>2. d.var = e.var /\ d.op = "value" /\ d.scope = << >> /\ d.par = l.idx
    BY <2>1 DEF DirectEffect
  <2>3. \A s : Interpret(e.rhs, s) = l.idx
    BY <1>4, <1>5 DEF ValueOf
  <2>4. l.idx \in T.values[e.var]
    BY <1>5 DEF SupportedEffect, Arithmetic
  <2>5. \A x : Apply(d, x) = d.par
    BY <2>2 DEF Apply
  <2> QED BY <1>1, <2>2, <2>3, <2>4, <2>5 DEF EffectIs
<1>6. CASE e.rhs.op = "=" /\ l.var
  <2>1. d = DirectEffect(e, "=", <<l.idx>>, 0)
    BY <1>6 DEF TranslateEffect, Arithmetic
  <2>2. d.var = e.var /\ d.op = "=" /\ d.scope = <<l.idx>>
    BY <2>1 DEF DirectEffect
  <2>3. \A s : Interpret(e.rhs, s) = Apply(d, s[l.idx])
    BY <1>4, <1>6, <2>2 DEF ValueOf, Apply
  <2> QED BY <1>1, <1>3, <1>6, <2>2, <2>3 DEF EffectIs
<1>7. CASE e.rhs.op \in Arithmetic /\ l.var
  <2>1. ~r.var
    BY <1>3, <1>7 DEF SupportedEffect
  <2>2. d = DirectEffect(e, e.rhs.op, <<l.idx>>, r.idx)
    BY <1>7 DEF TranslateEffect
  <2>3. d.var = e.var /\ d.op = e.rhs.op /\ d.scope = <<l.idx>> /\ d.par = r.idx
    BY <2>2 DEF DirectEffect
  <2>4. \A s : Interpret(e.rhs, s) = Apply(d, s[l.idx])
    BY <1>4, <1>7, <2>1, <2>3 DEF ValueOf, Apply, Arithmetic
  <2> QED BY <1>1, <1>3, <1>7, <2>3, <2>4 DEF EffectIs
<1>8. CASE e.rhs.op \in Arithmetic /\ ~l.var
  <2>1. r.var /\ e.rhs.op # "-"
    BY <1>3, <1>8 DEF SupportedEffect, FromVariable
  <2>2. d = DirectEffect(e, e.rhs.op, <<r.idx>>, l.idx)
    BY <1>8 DEF TranslateEffect
  <2>3. d.var = e.var /\ d.op = e.rhs.op /\ d.scope = <<r.idx>> /\ d.par = l.idx
    BY <2>2 DEF DirectEffect
  <2>4. ASSUME NEW s \in Assignment PROVE Interpret(e.rhs, s) = Apply(d, s[r.idx])
    <3>1. s[r.idx] \in Int
      BY <1>3, <2>1 DEF Assignment
    <3>2. CASE e.rhs.op = "+"
      BY <1>3, <1>4, <1>8, <2>1, <2>3, <3>1, <3>2 DEF ValueOf, Apply
    <3>3. CASE e.rhs.op = "*"
      BY <1>3, <1>4, <1>8, <2>1, <2>3, <3>1, <3>3 DEF ValueOf, Apply
    <3> QED BY <1>8, <2>1, <3>2, <3>3 DEF Arithmetic
  <2> QED BY <1>1, <1>3, <2>1, <2>3, <2>4 DEF EffectIs
<1> QED BY <1>1, <1>3, <1>5, <1>6, <1>7, <1>8

\* The applicability of a, and the atoms that the actions A reach from the
\* states within domains D.
CanApply(T, a, s) ==
    /\ \A j \in DOMAIN a.pre : Satisfied(a.pre[j], s)
    /\ \A j \in DOMAIN a.eff : Interpret(a.eff[j].rhs, s) \in T.values[a.eff[j].var]

AtomsFrom(T, D, A) ==
    UNION {UNION {Assigned(a, s) : s \in {u \in Within(D) : CanApply(T, a, u)}} : a \in A}

LEMMA AtomsFromIs ==
    ASSUME NEW T, NEW D, NEW A, NEW atom
    PROVE  atom \in AtomsFrom(T, D, A) <=>
              \E a \in A : \E s \in Within(D) :
                 /\ CanApply(T, a, s)
                 /\ \E j \in DOMAIN a.eff : atom = <<a.eff[j].var, Interpret(a.eff[j].rhs, s)>>
BY DEF AtomsFrom, Assigned

LEMMA WithinIs ==
    ASSUME NEW D, DomainsOver(Vars, D), NEW s
    PROVE  s \in Within(D) <=> s \in Assignment /\ \A v \in Vars : s[v] \in D[v]
<1>1. ASSUME s \in Within(D) PROVE s \in Assignment /\ \A v \in Vars : s[v] \in D[v]
  <2>1. s \in [Vars -> UNION {D[v] : v \in Vars}] /\ \A v \in Vars : s[v] \in D[v]
    BY <1>1 DEF Within
  <2>2. \A v \in Vars : s[v] \in Int
    BY <2>1 DEF DomainsOver
  <2>3. s \in [Vars -> Int]
    BY <2>1, <2>2
  <2> QED BY <2>1, <2>3 DEF Assignment
<1>2. ASSUME s \in Assignment, \A v \in Vars : s[v] \in D[v] PROVE s \in Within(D)
  <2>1. s = [v \in Vars |-> s[v]]
    BY <1>2 DEF Assignment
  <2>2. \A v \in Vars : s[v] \in UNION {D[w] : w \in Vars}
    BY <1>2
  <2>3. s \in [Vars -> UNION {D[v] : v \in Vars}]
    BY <2>1, <2>2
  <2> QED BY <1>2, <2>3 DEF Within
<1> QED BY <1>1, <1>2

\* The effects of all actions of T read their variable first.
FromVariables(T) ==
    \A i \in DOMAIN T.actions : \A j \in DOMAIN T.actions[i].eff : FromVariable(T.actions[i].eff[j])

ActionOK(T, a) ==
    /\ \A j \in DOMAIN a.pre : Legal(a.pre[j]) /\ Translate(a.pre[j]).type = "unary"
    /\ DOMAIN a.eff = 1..Len(a.eff) /\ Len(a.eff) \in Nat
    /\ \A j \in DOMAIN a.eff : EffectIs(T, a.eff[j], Effects(a)[j])

LEMMA TaskFacts ==
    ASSUME NEW T \in Tasks
    PROVE  /\ T.seed \in Assignment /\ T.values \in [Vars -> SUBSET Int]
           /\ \A v \in Vars : IsFiniteSet(T.values[v]) /\ T.seed[v] \in T.values[v]
           /\ Len(T.actions) \in Nat /\ DOMAIN T.actions = 1..Len(T.actions)
           /\ T.goal \in Seq(FormulaType) /\ \A i \in DOMAIN T.goal : Legal(T.goal[i])
<1>1. /\ T.seed \in [Vars -> Int] /\ T.values \in [Vars -> SUBSET Int]
      /\ \A v \in Vars : IsFiniteSet(T.values[v]) /\ T.seed[v] \in T.values[v]
      /\ T.actions \in Seq([pre : Seq(FormulaType), eff : Seq(EffectType)])
      /\ T.goal \in Seq(FormulaType)
      /\ \A i \in DOMAIN T.goal : Supported(T.goal[i]) /\ VarsOf(T.goal[i]) \subseteq Vars
  BY TasksAssumption
<1>2. Len(T.actions) \in Nat /\ DOMAIN T.actions = 1..Len(T.actions)
  BY <1>1, LenProperties
<1>3. \A i \in DOMAIN T.goal : T.goal[i] \in FormulaType
  BY <1>1, LenProperties, ElementOfSeq
<1> QED BY <1>1, <1>2, <1>3 DEF Assignment, Legal

LEMMA ActionFacts ==
    ASSUME NEW T \in Tasks, FromVariables(T), NEW i \in DOMAIN T.actions
    PROVE  ActionOK(T, T.actions[i])
<1> DEFINE a == T.actions[i]
<1>1. /\ T.actions \in Seq([pre : Seq(FormulaType), eff : Seq(EffectType)])
      /\ \A j \in DOMAIN a.pre :
            Supported(a.pre[j]) /\ Translate(a.pre[j]).type = "unary" /\ VarsOf(a.pre[j]) \subseteq Vars
      /\ \A j \in DOMAIN a.eff : SupportedEffect(T, a.eff[j])
  BY TasksAssumption
<1>2. a \in [pre : Seq(FormulaType), eff : Seq(EffectType)]
  BY <1>1, LenProperties, ElementOfSeq
<1>3. \A j \in DOMAIN a.eff : FromVariable(a.eff[j])
  BY DEF FromVariables
<1> HIDE DEF a
<1>4. a.pre \in Seq(FormulaType) /\ a.eff \in Seq(EffectType)
  BY <1>2
<1>5. \A j \in DOMAIN a.pre : a.pre[j] \in FormulaType
  BY <1>4, LenProperties, ElementOfSeq
<1>6. DOMAIN a.eff = 1..Len(a.eff) /\ Len(a.eff) \in Nat /\ \A j \in DOMAIN a.eff : a.eff[j] \in EffectType
  BY <1>4, LenProperties, ElementOfSeq
<1>7. \A j \in DOMAIN a.eff : EffectIs(T, a.eff[j], TranslateEffect(a.eff[j]))
  BY <1>1, <1>3, <1>6, EffectExact DEF a
<1>8. \A j \in DOMAIN a.eff : Effects(a)[j] = TranslateEffect(a.eff[j])
  BY DEF Effects
<1>9. \A j \in DOMAIN a.pre : Legal(a.pre[j]) /\ Translate(a.pre[j]).type = "unary"
  BY <1>1, <1>5 DEF Legal, a
<1>10. ActionOK(T, a)
  BY <1>6, <1>7, <1>8, <1>9 DEF ActionOK
<1> QED BY <1>10 DEF a

\* Accepts and Projection, with the task and the relaxed state as parameters.
AcceptsIn(T, a, v, x) ==
    /\ \A j \in DOMAIN a.pre :
        LET c == Translate(a.pre[j]) IN c.scope[1] = v => x \in UnaryKept(c, {x})
    /\ \A j \in Bounded(a) :
        LET d == Effects(a)[j] IN d.scope[1] = v => Apply(d, x) \in T.values[d.var]

Projected(T, R, a) == [v \in Vars |-> {x \in R[v] : AcceptsIn(T, a, v, x)}]

LEMMA ProjectionIs ==
    ASSUME NEW a
    PROVE  Projection(a) = Projected(task, relaxed, a)
BY DEF Projection, Projected, Accepts, AcceptsIn

\* An action is applicable if each value is accepted: the handler may filter
\* the variables one by one.
LEMMA ApplicableExact ==
    ASSUME NEW T, NEW a, ActionOK(T, a), NEW s \in Assignment
    PROVE  CanApply(T, a, s) <=> \A v \in Vars : AcceptsIn(T, a, v, s[v])
<1>1. ASSUME CanApply(T, a, s), NEW v \in Vars PROVE AcceptsIn(T, a, v, s[v])
  <2>1. ASSUME NEW j \in DOMAIN a.pre, Translate(a.pre[j]).scope[1] = v
        PROVE  s[v] \in UnaryKept(Translate(a.pre[j]), {s[v]})
    <3>1. Legal(a.pre[j]) /\ Translate(a.pre[j]).type = "unary" /\ Satisfied(a.pre[j], s)
      BY <1>1 DEF ActionOK, CanApply
    <3> QED BY <2>1, <3>1, UnaryExact
  <2>2. ASSUME NEW j \in Bounded(a), Effects(a)[j].scope[1] = v
        PROVE  Apply(Effects(a)[j], s[v]) \in T.values[Effects(a)[j].var]
    <3>1. j \in DOMAIN a.eff /\ Effects(a)[j].scope # << >>
      BY DEF Bounded
    <3>2. EffectIs(T, a.eff[j], Effects(a)[j]) /\ Interpret(a.eff[j].rhs, s) \in T.values[a.eff[j].var]
      BY <1>1, <3>1 DEF ActionOK, CanApply
    <3>3. PICK u \in Vars : /\ Effects(a)[j].scope = <<u>>
                            /\ Interpret(a.eff[j].rhs, s) = Apply(Effects(a)[j], s[u])
      BY <3>1, <3>2 DEF EffectIs
    <3>4. u = v
      BY <2>2, <3>3
    <3> QED BY <3>2, <3>3, <3>4 DEF EffectIs
  <2> QED BY <2>1, <2>2 DEF AcceptsIn
<1>2. ASSUME \A v \in Vars : AcceptsIn(T, a, v, s[v]) PROVE CanApply(T, a, s)
  <2>1. ASSUME NEW j \in DOMAIN a.pre PROVE Satisfied(a.pre[j], s)
    <3>1. Legal(a.pre[j]) /\ Translate(a.pre[j]).type = "unary"
      BY DEF ActionOK
    <3> DEFINE c == Translate(a.pre[j])
               v == c.scope[1]
    <3>2. v \in Vars /\ (Satisfied(a.pre[j], s) <=> s[v] \in UnaryKept(c, {s[v]}))
      BY <3>1, UnaryExact
    <3>3. s[v] \in UnaryKept(c, {s[v]})
      BY <1>2, <3>2 DEF AcceptsIn
    <3> QED BY <3>2, <3>3
  <2>2. ASSUME NEW j \in DOMAIN a.eff PROVE Interpret(a.eff[j].rhs, s) \in T.values[a.eff[j].var]
    <3> DEFINE d == Effects(a)[j]
               e == a.eff[j]
    <3>1. EffectIs(T, e, d)
      BY DEF ActionOK
    <3>2. CASE d.scope = << >>
      <4>1. d.par \in T.values[e.var] /\ Interpret(e.rhs, s) = d.par
        BY <3>1, <3>2 DEF EffectIs
      <4> QED BY <4>1
    <3>3. CASE d.scope # << >>
      <4>1. d.var = e.var
        BY <3>1 DEF EffectIs
      <4>2. PICK u \in Vars : d.scope = <<u>> /\ Interpret(e.rhs, s) = Apply(d, s[u])
        BY <3>1, <3>3 DEF EffectIs
      <4>3. j \in Bounded(a)
        BY <3>3 DEF Bounded
      <4>4. d.scope[1] = u
        BY <4>2
      <4>5. Apply(d, s[u]) \in T.values[d.var]
        BY <1>2, <4>2, <4>3, <4>4 DEF AcceptsIn
      <4> QED BY <4>1, <4>2, <4>5
    <3> QED BY <3>2, <3>3
  <2> QED BY <2>1, <2>2 DEF CanApply
<1> QED BY <1>1, <1>2

\* A way of reaching an atom: effect j of a, its variable at x.
Way(a, j, x) == <<<<Effects(a)[j].var, Apply(Effects(a)[j], x)>>, j, x>>

LEMMA OutcomesAre ==
    ASSUME NEW a, NEW P, NEW w
    PROVE  w \in Outcomes(a, P) <=>
              \E j \in DOMAIN a.eff :
                 \E x \in IF Effects(a)[j].scope = << >> THEN {0} ELSE P[Effects(a)[j].scope[1]] :
                    w = Way(a, j, x)
<1> DEFINE X(j) == IF Effects(a)[j].scope = << >> THEN {0} ELSE P[Effects(a)[j].scope[1]]
<1>1. Outcomes(a, P) = UNION {{Way(a, j, x) : x \in X(j)} : j \in DOMAIN a.eff}
  BY DEF Outcomes, Way
<1> HIDE DEF X
<1>2. w \in Outcomes(a, P) <=> \E j \in DOMAIN a.eff : \E x \in X(j) : w = Way(a, j, x)
  BY <1>1
<1> QED BY <1>2 DEF X

\* A value of its projected domain is the value of v in a state within the
\* domains in which the action is applicable.
LEMMA StateWith ==
    ASSUME NEW T, NEW R, DomainsOver(Vars, R), NEW a, ActionOK(T, a),
           NEW P, P = Projected(T, R, a), \A v \in Vars : P[v] # {},
           NEW v \in Vars, NEW x \in P[v]
    PROVE  \E s \in Within(R) : s[v] = x /\ CanApply(T, a, s)
<1> DEFINE s == [u \in Vars |-> IF u = v THEN x ELSE CHOOSE y \in P[u] : TRUE]
<1>1. \A u \in Vars : P[u] = {y \in R[u] : AcceptsIn(T, a, u, y)}
  BY DEF Projected
<1>2. \A u \in Vars : s[u] \in P[u]
  OBVIOUS
<1>3. s[v] = x /\ DOMAIN s = Vars /\ s = [u \in Vars |-> s[u]]
  OBVIOUS
<1> HIDE DEF s
<1>4. \A u \in Vars : s[u] \in R[u] /\ AcceptsIn(T, a, u, s[u])
  BY <1>1, <1>2
<1>5. \A u \in Vars : s[u] \in Int
  BY <1>4 DEF DomainsOver
<1>6. s \in Assignment
  BY <1>3, <1>5 DEF Assignment
<1>7. s \in Within(R)
  BY <1>4, <1>6, WithinIs
<1>8. CanApply(T, a, s)
  BY <1>4, <1>6, ApplicableExact
<1> QED BY <1>3, <1>7, <1>8

\* In an applicable state every value is in its projected domain.
LEMMA StateProjected ==
    ASSUME NEW T, NEW R, DomainsOver(Vars, R), NEW a, ActionOK(T, a),
           NEW s \in Within(R), CanApply(T, a, s)
    PROVE  \A v \in Vars : s[v] \in Projected(T, R, a)[v]
<1>1. s \in Assignment /\ \A v \in Vars : s[v] \in R[v]
  BY WithinIs
<1>2. \A v \in Vars : AcceptsIn(T, a, v, s[v])
  BY <1>1, ApplicableExact
<1> QED BY <1>1, <1>2 DEF Projected

\* The atoms that an action manager finds are those of the applicable states.
LEMMA OutcomesExact ==
    ASSUME NEW T, NEW R, DomainsOver(Vars, R), NEW a, ActionOK(T, a),
           NEW P, P = Projected(T, R, a)
    PROVE  /\ (\A v \in Vars : P[v] # {}) => {w[1] : w \in Outcomes(a, P)} = AtomsFrom(T, R, {a})
           /\ (\E v \in Vars : P[v] = {}) => AtomsFrom(T, R, {a}) = {}
<1>1. ASSUME \A v \in Vars : P[v] # {}, NEW w \in Outcomes(a, P) PROVE w[1] \in AtomsFrom(T, R, {a})
  <2>1. PICK j \in DOMAIN a.eff :
          \E x \in IF Effects(a)[j].scope = << >> THEN {0} ELSE P[Effects(a)[j].scope[1]] : w = Way(a, j, x)
    BY OutcomesAre
  <2> DEFINE e == a.eff[j]
             d == Effects(a)[j]
  <2>2. EffectIs(T, e, d)
    BY DEF ActionOK
  <2>3. \E s \in Within(R) : CanApply(T, a, s) /\ w[1] = <<e.var, Interpret(e.rhs, s)>>
    <3>1. CASE d.scope = << >>
      <4>1. w[1] = <<e.var, d.par>> /\ \A s : Interpret(e.rhs, s) = d.par
        <5>1. w = Way(a, j, 0)
          BY <2>1, <3>1
        <5> QED BY <2>2, <3>1, <5>1 DEF EffectIs, Way
      <4>2. \E s \in Within(R) : CanApply(T, a, s)
        <5>1. e.var \in Vars
          BY <2>2 DEF EffectIs
        <5>2. PICK x \in P[e.var] : TRUE
          BY <1>1, <5>1
        <5> QED BY <1>1, <5>1, <5>2, StateWith
      <4> QED BY <4>1, <4>2
    <3>2. CASE d.scope # << >>
      <4>1. d.var = e.var
        BY <2>2 DEF EffectIs
      <4>2. PICK u \in Vars : d.scope = <<u>> /\ \A s \in Assignment : Interpret(e.rhs, s) = Apply(d, s[u])
        BY <2>2, <3>2 DEF EffectIs
      <4>3. PICK x \in P[u] : w = Way(a, j, x)
        <5>1. d.scope[1] = u
          BY <4>2
        <5> QED BY <2>1, <3>2, <5>1
      <4>4. PICK s \in Within(R) : s[u] = x /\ CanApply(T, a, s)
        BY <1>1, StateWith
      <4>5. s \in Assignment
        BY WithinIs
      <4>6. w[1] = <<d.var, Apply(d, x)>>
        BY <4>3 DEF Way
      <4> QED BY <4>1, <4>2, <4>4, <4>5, <4>6
    <3> QED BY <3>1, <3>2
  <2> QED BY <2>3, AtomsFromIs
<1>2. ASSUME NEW atom \in AtomsFrom(T, R, {a})
      PROVE  (\A v \in Vars : P[v] # {}) /\ \E w \in Outcomes(a, P) : atom = w[1]
  <2>1. PICK s \in Within(R), j \in DOMAIN a.eff :
           CanApply(T, a, s) /\ atom = <<a.eff[j].var, Interpret(a.eff[j].rhs, s)>>
    BY AtomsFromIs
  <2> DEFINE e == a.eff[j]
             d == Effects(a)[j]
  <2>2. EffectIs(T, e, d) /\ d.var = e.var
    BY DEF ActionOK, EffectIs
  <2>3. \A v \in Vars : s[v] \in P[v]
    BY <2>1, StateProjected
  <2>4. s \in Assignment
    BY WithinIs
  <2>5. \E x \in IF d.scope = << >> THEN {0} ELSE P[d.scope[1]] : atom = <<d.var, Apply(d, x)>>
    <3>1. CASE d.scope = << >>
      <4>1. Interpret(e.rhs, s) = Apply(d, 0)
        BY <2>2, <3>1 DEF EffectIs
      <4> QED BY <2>1, <2>2, <3>1, <4>1
    <3>2. CASE d.scope # << >>
      <4>1. PICK u \in Vars : d.scope = <<u>> /\ Interpret(e.rhs, s) = Apply(d, s[u])
        BY <2>2, <2>4, <3>2 DEF EffectIs
      <4>2. d.scope[1] = u
        BY <4>1
      <4>3. s[u] \in P[d.scope[1]] /\ atom = <<d.var, Apply(d, s[u])>>
        BY <2>1, <2>2, <2>3, <4>1, <4>2
      <4> QED BY <3>2, <4>3
    <3> QED BY <3>1, <3>2
  <2>6. PICK x \in IF d.scope = << >> THEN {0} ELSE P[d.scope[1]] : atom = <<d.var, Apply(d, x)>>
    BY <2>5
  <2>7. Way(a, j, x) \in Outcomes(a, P)
    BY <2>6, OutcomesAre
  <2>8. Way(a, j, x)[1] = atom
    BY <2>6 DEF Way
  <2> QED BY <2>3, <2>7, <2>8
<1>3. ASSUME \E v \in Vars : P[v] = {} PROVE AtomsFrom(T, R, {a}) = {}
  BY <1>2, <1>3
<1>4. ASSUME \A v \in Vars : P[v] # {} PROVE {w[1] : w \in Outcomes(a, P)} = AtomsFrom(T, R, {a})
  BY <1>1, <1>2, <1>4
<1> QED BY <1>3, <1>4

-----------------------------------------------------------------------------
(* Layers *)

NextLayer(T, D, A) ==
    [v \in Vars |-> D[v] \cup {x \in T.values[v] : <<v, x>> \in AtomsFrom(T, D, A)}]

\* DeleteRelaxed is the sequence of layers that its recursion describes.
LEMMA LayersAre ==
    ASSUME NEW n \in Nat, NEW acts, NEW L,
           L[0] = [v \in Vars |-> {Seed[v]}],
           \A k \in 1..n : L[k] = NextLayer(task, L[k-1], acts[k])
    PROVE  DeleteRelaxed(n, acts) = L[n]
<1> DEFINE S == [v \in Vars |-> {Seed[v]}]
           Eq(g) == g = [k \in 0..n |-> IF k = 0 THEN S ELSE NextLayer(task, g[k-1], acts[k])]
           f == [k \in 0..n |-> L[k]]
           layers == CHOOSE g : Eq(g)
<1>1. DeleteRelaxed(n, acts) = layers[n]
  BY DEF DeleteRelaxed, NextLayer, AtomsFrom, CanApply, Applicable
<1> HIDE DEF S
<1>2. Eq(f)
  <2>1. ASSUME NEW k \in 0..n PROVE f[k] = IF k = 0 THEN S ELSE NextLayer(task, f[k-1], acts[k])
    <3>1. CASE k = 0
      BY <3>1 DEF S
    <3>2. CASE k # 0
      <4>1. k \in 1..n /\ k - 1 \in 0..n
        BY <3>2
      <4>2. f[k] = L[k] /\ f[k-1] = L[k-1]
        BY <4>1
      <4> QED BY <3>2, <4>1, <4>2
    <3> QED BY <3>1, <3>2
  <2>2. f = [k \in 0..n |-> f[k]]
    OBVIOUS
  <2> HIDE DEF f
  <2> QED BY <2>1, <2>2
<1>3. Eq(layers)
  <2> HIDE DEF Eq, f
  <2> QED BY <1>2
<1> HIDE DEF f, layers
<1>4. \A k \in 0..n : layers[k] = IF k = 0 THEN S ELSE NextLayer(task, layers[k-1], acts[k])
  <2> DEFINE g == layers
  <2>1. g = [k \in 0..n |-> IF k = 0 THEN S ELSE NextLayer(task, g[k-1], acts[k])]
    BY <1>3
  <2> HIDE DEF g
  <2>2. \A k \in 0..n : g[k] = IF k = 0 THEN S ELSE NextLayer(task, g[k-1], acts[k])
    BY <2>1
  <2> QED BY <2>2 DEF g
<1> DEFINE N == {k \in Nat : k <= n => layers[k] = L[k]}
<1>5. 0 \in N
  BY <1>4 DEF S
<1>6. ASSUME NEW k \in N PROVE k + 1 \in N
  <2>1. ASSUME k + 1 <= n PROVE layers[k+1] = L[k+1]
    <3>1. k + 1 \in 0..n /\ k + 1 \in 1..n /\ k + 1 # 0 /\ (k + 1) - 1 = k /\ k <= n
      BY <2>1
    <3>2. layers[k] = L[k]
      BY <3>1
    <3>3. layers[k+1] = NextLayer(task, layers[k], acts[k+1])
      BY <1>4, <3>1
    <3>4. L[k+1] = NextLayer(task, L[k], acts[k+1])
      BY <3>1
    <3> QED BY <3>2, <3>3, <3>4
  <2> QED BY <2>1
<1>7. N = Nat
  <2> HIDE DEF N
  <2>1. N \in SUBSET Nat
    BY DEF N
  <2> QED BY <1>5, <1>6, <2>1, Induction
<1> QED BY <1>1, <1>7

-----------------------------------------------------------------------------
(***************************************************************************)
(* The invariant of the graph.  Level(E, k) are the domains that the atoms *)
(* of E, with their layers, make up in layer k.                            *)
(***************************************************************************)
Level(E, k) == [v \in Vars |-> {a[2] : a \in {b \in DOMAIN E : b[1] = v /\ E[b].layer <= k}}]

AtomIn(T, b) == \E v \in Vars : \E x \in T.values[v] : b = <<v, x>>

\* The atoms E of task T, with layers up to n.
AtomsOK(T, E, n) ==
    /\ n \in Nat
    /\ \A b \in DOMAIN E : AtomIn(T, b) /\ E[b].layer \in 0..n
    /\ Level(E, 0) = [v \in Vars |-> {T.seed[v]}]

LayersOK(T, E, n) ==
    \A k \in 1..n : Level(E, k) = NextLayer(T, Level(E, k - 1), Range(T.actions))

OfLayer(E, n) == {b \in DOMAIN E : E[b].layer = n}
FirstActions(T, i) == {T.actions[j] : j \in 1..i}
Completed == IF pc = "process" THEN layer - 1 ELSE layer

GraphInv ==
    /\ AtomsOK(task, effects, layer)
    /\ LayersOK(task, effects, Completed)
    /\ relaxed = Level(effects, Completed)
    /\ pc = "start" => layer = 0 /\ novel = {} /\ idx = 1
    /\ idx \in 1..(Len(task.actions) + 1)
    /\ layer > 0 => novel = OfLayer(effects, layer)
    /\ pc = "process" =>
          /\ layer > 0
          /\ novel \subseteq AtomsFrom(task, relaxed, FirstActions(task, idx - 1))
          /\ AtomsFrom(task, relaxed, FirstActions(task, idx - 1)) \subseteq DOMAIN effects

LEMMA LevelIs ==
    ASSUME NEW T, NEW E, NEW n, AtomsOK(T, E, n), NEW k, NEW v \in Vars, NEW x
    PROVE  x \in Level(E, k)[v] <=> <<v, x>> \in DOMAIN E /\ E[<<v, x>>].layer <= k
<1>1. ASSUME x \in Level(E, k)[v] PROVE <<v, x>> \in DOMAIN E /\ E[<<v, x>>].layer <= k
  <2>1. PICK b \in DOMAIN E : b[1] = v /\ E[b].layer <= k /\ b[2] = x
    BY <1>1 DEF Level
  <2>2. b = <<v, x>>
    BY <2>1 DEF AtomsOK, AtomIn
  <2> QED BY <2>1, <2>2
<1>2. ASSUME <<v, x>> \in DOMAIN E, E[<<v, x>>].layer <= k PROVE x \in Level(E, k)[v]
  <2>1. <<v, x>>[1] = v /\ <<v, x>>[2] = x
    OBVIOUS
  <2>2. <<v, x>>[2] \in {a[2] : a \in {b \in DOMAIN E : b[1] = v /\ E[b].layer <= k}}
    BY <1>2, <2>1
  <2> QED BY <2>1, <2>2 DEF Level
<1> QED BY <1>1, <1>2

LEMMA LevelDomains ==
    ASSUME NEW T \in Tasks, NEW E, NEW n, AtomsOK(T, E, n), NEW k \in Nat
    PROVE  /\ DomainsOver(Vars, Level(E, k))
           /\ \A v \in Vars : Level(E, k)[v] \subseteq T.values[v] /\ T.seed[v] \in Level(E, k)[v]
<1> DEFINE D == Level(E, k)
<1>1. ASSUME NEW v \in Vars, NEW x \in D[v] PROVE x \in T.values[v]
  <2>1. <<v, x>> \in DOMAIN E
    BY <1>1, LevelIs
  <2>2. PICK u \in Vars : \E y \in T.values[u] : <<v, x>> = <<u, y>>
    BY <2>1 DEF AtomsOK, AtomIn
  <2> QED BY <2>2
<1>2. ASSUME NEW v \in Vars PROVE T.seed[v] \in D[v]
  <2>1. T.seed[v] \in Level(E, 0)[v]
    BY DEF AtomsOK
  <2>2. <<v, T.seed[v]>> \in DOMAIN E /\ E[<<v, T.seed[v]>>].layer <= 0
    BY <2>1, LevelIs
  <2>3. E[<<v, T.seed[v]>>].layer \in 0..n /\ n \in Nat
    BY <2>2 DEF AtomsOK
  <2>4. E[<<v, T.seed[v]>>].layer <= k
    BY <2>2, <2>3
  <2> QED BY <2>2, <2>4, LevelIs
<1>3. \A v \in Vars : T.values[v] \subseteq Int /\ IsFiniteSet(T.values[v])
  BY TaskFacts
<1>4. \A v \in Vars : D[v] \subseteq T.values[v]
  BY <1>1
<1>5. \A v \in Vars : D[v] \subseteq Int /\ IsFiniteSet(D[v]) /\ D[v] # {}
  BY <1>2, <1>3, <1>4, FS_Subset
<1>6. D = [v \in Vars |-> D[v]]
  BY DEF Level
<1> HIDE DEF D
<1>7. D \in [Vars -> SUBSET Int]
  BY <1>5, <1>6
<1>8. DomainsOver(Vars, D)
  BY <1>5, <1>7 DEF DomainsOver
<1> QED BY <1>2, <1>4, <1>8 DEF D

\* Atoms that enter later change nothing in a layer.
LEMMA LevelSame ==
    ASSUME NEW E, NEW G, NEW k, DOMAIN E \subseteq DOMAIN G,
           \A b \in DOMAIN E : G[b] = E[b],
           \A b \in DOMAIN G \ DOMAIN E : ~ (G[b].layer <= k)
    PROVE  Level(G, k) = Level(E, k)
<1>1. \A v : {b \in DOMAIN G : b[1] = v /\ G[b].layer <= k} = {b \in DOMAIN E : b[1] = v /\ E[b].layer <= k}
  OBVIOUS
<1> QED BY <1>1 DEF Level

LEMMA ReachedAtoms ==
    ASSUME NEW T, NEW a, ActionOK(T, a), NEW D, NEW b \in AtomsFrom(T, D, {a})
    PROVE  AtomIn(T, b)
<1>1. PICK s \in Within(D), j \in DOMAIN a.eff :
         CanApply(T, a, s) /\ b = <<a.eff[j].var, Interpret(a.eff[j].rhs, s)>>
  BY AtomsFromIs
<1>2. a.eff[j].var \in Vars /\ Interpret(a.eff[j].rhs, s) \in T.values[a.eff[j].var]
  BY <1>1 DEF ActionOK, EffectIs, CanApply
<1> QED BY <1>1, <1>2 DEF AtomIn

LEMMA AtomsFromMore ==
    ASSUME NEW T, NEW D, NEW A, NEW B
    PROVE  AtomsFrom(T, D, A \cup B) = AtomsFrom(T, D, A) \cup AtomsFrom(T, D, B)
<1>1. \A atom : atom \in AtomsFrom(T, D, A \cup B)
                  <=> atom \in AtomsFrom(T, D, A) \/ atom \in AtomsFrom(T, D, B)
  BY AtomsFromIs
<1> QED BY <1>1

-----------------------------------------------------------------------------
(* Every step of the construction keeps the invariant *)

LEMMA InitGraph ==
    ASSUME Init
    PROVE  task \in Tasks /\ GraphInv
<1>1. /\ task \in Tasks /\ pc = "start" /\ layer = 0 /\ novel = {} /\ idx = 1
      /\ relaxed = [v \in Vars |-> {task.seed[v]}]
      /\ effects = [a \in SeedAtoms |-> AtomSupport(0, 0, {})]
  BY DEF Init, Seed
<1>2. \A b : b \in SeedAtoms <=> \E v \in Vars : b = <<v, task.seed[v]>>
  BY DEF SeedAtoms, Seed
<1>3. DOMAIN effects = SeedAtoms /\ \A b \in SeedAtoms : effects[b].layer = 0
  BY <1>1 DEF AtomSupport
<1>4. \A b \in DOMAIN effects : AtomIn(task, b) /\ effects[b].layer \in 0..0
  BY <1>1, <1>2, <1>3, TaskFacts DEF AtomIn
<1>5. \A v \in Vars : {a[2] : a \in {b \in DOMAIN effects : b[1] = v /\ effects[b].layer <= 0}} = {task.seed[v]}
  <2> TAKE v \in Vars
  <2>1. ASSUME NEW b \in DOMAIN effects, b[1] = v PROVE b[2] = task.seed[v]
    <3>1. PICK u \in Vars : b = <<u, task.seed[u]>>
      BY <1>2, <1>3, <2>1
    <3>2. b[1] = u /\ b[2] = task.seed[u]
      BY <3>1
    <3> QED BY <2>1, <3>2
  <2>2. /\ <<v, task.seed[v]>> \in DOMAIN effects
        /\ <<v, task.seed[v]>>[1] = v /\ <<v, task.seed[v]>>[2] = task.seed[v]
        /\ effects[<<v, task.seed[v]>>].layer <= 0
    BY <1>2, <1>3
  <2> QED BY <2>1, <2>2
<1>6. Level(effects, 0) = [v \in Vars |-> {task.seed[v]}]
  BY <1>5 DEF Level
<1>7. AtomsOK(task, effects, layer)
  BY <1>1, <1>4, <1>6 DEF AtomsOK
<1>8. Completed = 0
  BY <1>1 DEF Completed
<1>9. LayersOK(task, effects, 0)
  BY DEF LayersOK
<1>10. Len(task.actions) \in Nat
  BY <1>1, TaskFacts
<1> QED BY <1>1, <1>6, <1>7, <1>8, <1>9, <1>10 DEF GraphInv

\* The steps that leave the graph, before or after the work on a layer.
LEMMA SameGraph ==
    ASSUME GraphInv, UNCHANGED <<task, graph>>, pc = "process" <=> pc' = "process",
           pc' = "start" => pc = "start"
    PROVE  GraphInv'
<1>1. UNCHANGED <<task, relaxed, layer, novel, effects, idx>> /\ Completed' = Completed
  BY DEF graph, Completed
<1> QED BY <1>1 DEF GraphInv

\* A new layer begins.
LEMMA NewLayer ==
    ASSUME task \in Tasks, GraphInv, pc # "process", pc' = "process",
           UNCHANGED <<task, relaxed, effects>>, layer' = layer + 1, novel' = {}, idx' = 1
    PROVE  GraphInv'
<1>1. /\ AtomsOK(task, effects, layer) /\ LayersOK(task, effects, layer)
      /\ relaxed = Level(effects, layer) /\ layer \in Nat
  BY DEF GraphInv, Completed, AtomsOK
<1>2. Completed' = layer
  BY <1>1 DEF Completed
<1>3. AtomsOK(task, effects, layer + 1)
  BY <1>1 DEF AtomsOK
<1>4. OfLayer(effects, layer + 1) = {}
  BY <1>1 DEF OfLayer, AtomsOK
<1>5. FirstActions(task, 0) = {}
  <2>1. 1..0 = {}
    OBVIOUS
  <2> QED BY <2>1 DEF FirstActions
<1>6. AtomsFrom(task, relaxed, {}) = {}
  BY AtomsFromIs
<1>7. Len(task.actions) \in Nat
  BY TaskFacts
<1>8. idx' - 1 = 0 /\ idx' \in 1..(Len(task.actions) + 1)
  BY <1>7
<1>9. novel' = OfLayer(effects', layer')
  BY <1>4
<1>10. FirstActions(task', idx' - 1) = {}
  BY <1>5, <1>8
<1>11. AtomsFrom(task', relaxed', FirstActions(task', idx' - 1)) = {}
  BY <1>6, <1>10
<1> QED BY <1>1, <1>2, <1>3, <1>8, <1>9, <1>11 DEF GraphInv

LEMMA BeginGraph ==
    ASSUME task \in Tasks, GraphInv, Begin
    PROVE  GraphInv'
<1>1. /\ pc = "start" /\ UNCHANGED <<task, relaxed, novel, effects, idx>>
      /\ layer = 0 /\ novel = {} /\ idx = 1
      /\ \/ pc' = "done" /\ layer' = layer
         \/ pc' = "process" /\ layer' = 1
  BY DEF Begin, GraphInv
<1>2. CASE pc' = "done" /\ layer' = layer
  BY <1>1, <1>2, SameGraph DEF graph
<1>3. CASE pc' = "process" /\ layer' = 1
  BY <1>1, <1>3, NewLayer
<1> QED BY <1>1, <1>2, <1>3

LEMMA GoalCheckedGraph ==
    ASSUME task \in Tasks, GraphInv, GoalChecked
    PROVE  GraphInv'
<1>1. /\ pc = "goal" /\ UNCHANGED <<task, relaxed, effects>>
      /\ \/ pc' = "select" /\ UNCHANGED <<layer, novel, idx>>
         \/ pc' = "process" /\ layer' = layer + 1 /\ novel' = {} /\ idx' = 1
  BY DEF GoalChecked, AdvanceLayer
<1>2. CASE pc' = "select" /\ UNCHANGED <<layer, novel, idx>>
  BY <1>1, <1>2, SameGraph DEF graph
<1>3. CASE pc' = "process" /\ layer' = layer + 1 /\ novel' = {} /\ idx' = 1
  BY <1>1, <1>3, NewLayer
<1> QED BY <1>1, <1>2, <1>3

\* An action is processed: what it reaches enters the graph.
Found(T, R, i, E) == AtomsFrom(T, R, {T.actions[i]}) \ DOMAIN E

LEMMA ProcessFacts ==
    ASSUME task \in Tasks, FromVariables(task), GraphInv, ProcessAction
    PROVE  /\ pc = "process" /\ idx \in 1..Len(task.actions) /\ idx' = idx + 1
           /\ UNCHANGED <<task, pc, relaxed, layer>>
           /\ layer - 1 \in Nat /\ DomainsOver(Vars, relaxed)
           /\ ActionOK(task, task.actions[idx])
           /\ DOMAIN effects' = DOMAIN effects \cup Found(task, relaxed, idx, effects)
           /\ \A b \in DOMAIN effects : effects'[b] = effects[b]
           /\ \A b \in Found(task, relaxed, idx, effects) :
                 effects'[b] = AtomSupport(layer, idx,
                                 SupportOf(task.actions[idx], Projection(task.actions[idx]), b))
           /\ novel' = novel \cup Found(task, relaxed, idx, effects)
<1> DEFINE a == task.actions[idx]
           P == Projection(a)
           new == IF \E v \in Vars : P[v] = {} THEN {} ELSE {w[1] : w \in Outcomes(a, P)} \ DOMAIN effects
           found == Found(task, relaxed, idx, effects)
<1>1. /\ pc = "process" /\ idx <= Len(task.actions) /\ idx' = idx + 1
      /\ UNCHANGED <<task, pc, relaxed, layer>>
      /\ effects' = [b \in DOMAIN effects \cup new |->
                        IF b \in new THEN AtomSupport(layer, idx, SupportOf(a, P, b)) ELSE effects[b]]
      /\ novel' = novel \cup new
  BY DEF ProcessAction, Actions
<1>2. /\ idx \in 1..(Len(task.actions) + 1) /\ Len(task.actions) \in Nat
      /\ layer > 0 /\ layer \in Nat /\ AtomsOK(task, effects, layer) /\ relaxed = Level(effects, layer - 1)
  BY <1>1, TaskFacts DEF GraphInv, AtomsOK, Completed
<1>3. idx \in 1..Len(task.actions) /\ layer - 1 \in Nat
  BY <1>1, <1>2
<1>4. DomainsOver(Vars, relaxed)
  BY <1>2, <1>3, LevelDomains
<1>5. ActionOK(task, a)
  BY <1>3, ActionFacts, TaskFacts
<1>6. P = Projected(task, relaxed, a)
  BY ProjectionIs
<1> HIDE DEF P, a
<1>7. new = AtomsFrom(task, relaxed, {a}) \ DOMAIN effects
  <2>1. CASE \E v \in Vars : P[v] = {}
    BY <1>4, <1>5, <1>6, <2>1, OutcomesExact
  <2>2. CASE ~ \E v \in Vars : P[v] = {}
    BY <1>4, <1>5, <1>6, <2>2, OutcomesExact
  <2> QED BY <2>1, <2>2
<1>8. new = found
  BY <1>7 DEF Found, a
<1> HIDE DEF new, found
<1>9. found \cap DOMAIN effects = {}
  BY DEF found, Found
<1>10. /\ DOMAIN effects' = DOMAIN effects \cup found
       /\ \A b \in DOMAIN effects : effects'[b] = effects[b]
       /\ \A b \in found : effects'[b] = AtomSupport(layer, idx, SupportOf(a, P, b))
  BY <1>1, <1>8, <1>9
<1> QED BY <1>1, <1>3, <1>4, <1>5, <1>8, <1>10 DEF P, a, found

LEMMA FirstActionsNext ==
    ASSUME NEW T, NEW i \in Nat, i >= 1
    PROVE  FirstActions(T, i) = FirstActions(T, i - 1) \cup {T.actions[i]}
<1>1. 1..i = (1..(i - 1)) \cup {i}
  OBVIOUS
<1> QED BY <1>1 DEF FirstActions

LEMMA ProcessGraph ==
    ASSUME task \in Tasks, FromVariables(task), GraphInv, ProcessAction
    PROVE  GraphInv'
<1> DEFINE found == Found(task, relaxed, idx, effects)
           a == task.actions[idx]
<1>1. /\ pc = "process" /\ idx \in 1..Len(task.actions) /\ idx' = idx + 1
      /\ UNCHANGED <<task, pc, relaxed, layer>>
      /\ ActionOK(task, a) /\ Len(task.actions) \in Nat
      /\ DOMAIN effects' = DOMAIN effects \cup found
      /\ \A b \in DOMAIN effects : effects'[b] = effects[b]
      /\ \A b \in found : effects'[b].layer = layer
      /\ novel' = novel \cup found
  BY ProcessFacts, TaskFacts DEF AtomSupport
<1>2. /\ AtomsOK(task, effects, layer) /\ LayersOK(task, effects, layer - 1)
      /\ relaxed = Level(effects, layer - 1) /\ layer \in Nat /\ layer > 0
      /\ novel = OfLayer(effects, layer)
      /\ novel \subseteq AtomsFrom(task, relaxed, FirstActions(task, idx - 1))
      /\ AtomsFrom(task, relaxed, FirstActions(task, idx - 1)) \subseteq DOMAIN effects
  BY <1>1 DEF GraphInv, Completed, AtomsOK
<1>3. found = AtomsFrom(task, relaxed, {a}) \ DOMAIN effects
  BY DEF Found
<1>4. \A b \in found : AtomIn(task, b)
  BY <1>1, <1>3, ReachedAtoms
<1> HIDE DEF found, a
<1>5. \A k \in 0..(layer - 1) : Level(effects', k) = Level(effects, k)
  <2> TAKE k \in 0..(layer - 1)
  <2>1. \A b \in DOMAIN effects' \ DOMAIN effects : effects'[b].layer = layer
    BY <1>1
  <2>2. ~ (layer <= k)
    BY <1>2
  <2>3. \A b \in DOMAIN effects' \ DOMAIN effects : ~ (effects'[b].layer <= k)
    BY <2>1, <2>2
  <2> QED BY <1>1, <2>3, LevelSame
<1>6. AtomsOK(task, effects', layer)
  <2>1. \A b \in DOMAIN effects' : AtomIn(task, b) /\ effects'[b].layer \in 0..layer
    BY <1>1, <1>2, <1>4 DEF AtomsOK
  <2>2. Level(effects', 0) = [v \in Vars |-> {task.seed[v]}]
    BY <1>2, <1>5 DEF AtomsOK
  <2> QED BY <1>2, <2>1, <2>2 DEF AtomsOK
<1>7. LayersOK(task, effects', layer - 1)
  <2>1. ASSUME NEW k \in 1..(layer - 1)
        PROVE  Level(effects', k) = NextLayer(task, Level(effects', k - 1), Range(task.actions))
    <3>1. k \in 0..(layer - 1) /\ k - 1 \in 0..(layer - 1)
      BY <1>2
    <3>2. Level(effects, k) = NextLayer(task, Level(effects, k - 1), Range(task.actions))
      BY <1>2 DEF LayersOK
    <3> QED BY <1>5, <3>1, <3>2
  <2> QED BY <2>1 DEF LayersOK
<1>8. relaxed = Level(effects', layer - 1)
  BY <1>2, <1>5
<1>9. novel' = OfLayer(effects', layer)
  BY <1>1, <1>2 DEF OfLayer
<1>10. AtomsFrom(task, relaxed, FirstActions(task, idx)) =
          AtomsFrom(task, relaxed, FirstActions(task, idx - 1)) \cup AtomsFrom(task, relaxed, {a})
  <2>1. FirstActions(task, idx) = FirstActions(task, idx - 1) \cup {a}
    BY <1>1, FirstActionsNext DEF a
  <2> QED BY <2>1, AtomsFromMore
<1>11. /\ novel' \subseteq AtomsFrom(task, relaxed, FirstActions(task, idx))
       /\ AtomsFrom(task, relaxed, FirstActions(task, idx)) \subseteq DOMAIN effects'
  BY <1>1, <1>2, <1>3, <1>10
<1>12. idx' - 1 = idx /\ idx' \in 1..(Len(task.actions) + 1)
  BY <1>1
<1>13. Completed' = layer - 1
  BY <1>1 DEF Completed
<1>14. /\ novel' \subseteq AtomsFrom(task', relaxed', FirstActions(task', idx' - 1))
       /\ AtomsFrom(task', relaxed', FirstActions(task', idx' - 1)) \subseteq DOMAIN effects'
  BY <1>1, <1>11, <1>12
<1> QED BY <1>1, <1>2, <1>6, <1>7, <1>8, <1>9, <1>12, <1>13, <1>14 DEF GraphInv

LEMMA AccumulatedIs ==
    ASSUME GraphInv, pc = "process"
    PROVE  Accumulated = Level(effects, layer)
<1>1. /\ AtomsOK(task, effects, layer) /\ layer \in Nat /\ layer > 0
      /\ relaxed = Level(effects, layer - 1) /\ novel = OfLayer(effects, layer)
  BY DEF GraphInv, Completed, AtomsOK
<1>2. ASSUME NEW v \in Vars PROVE Accumulated[v] = Level(effects, layer)[v]
  <2> DEFINE B(k) == {b \in DOMAIN effects : b[1] = v /\ effects[b].layer <= k}
             C == {n \in novel : n[1] = v}
  <2>1. B(layer) = B(layer - 1) \cup C
    <3>1. \A b \in DOMAIN effects : effects[b].layer \in Nat
      BY <1>1 DEF AtomsOK
    <3> QED BY <1>1, <3>1 DEF OfLayer
  <2>2. Level(effects, layer)[v] = {b[2] : b \in B(layer)} /\ relaxed[v] = {b[2] : b \in B(layer - 1)}
    BY <1>1 DEF Level
  <2>3. Accumulated[v] = relaxed[v] \cup {b[2] : b \in C}
    BY DEF Accumulated
  <2> HIDE DEF B, C
  <2> QED BY <2>1, <2>2, <2>3
<1> QED BY <1>2 DEF Accumulated, Level

LEMMA LayerDoneGraph ==
    ASSUME task \in Tasks, GraphInv, LayerDone
    PROVE  GraphInv'
<1>1. /\ pc = "process" /\ idx > Len(task.actions) /\ pc' \in {"done", "goal"}
      /\ relaxed' = Accumulated /\ UNCHANGED <<task, layer, novel, effects, idx>>
  BY DEF LayerDone, Actions
<1>2. /\ AtomsOK(task, effects, layer) /\ LayersOK(task, effects, layer - 1)
      /\ relaxed = Level(effects, layer - 1) /\ layer \in Nat /\ layer > 0
      /\ novel = OfLayer(effects, layer) /\ idx \in 1..(Len(task.actions) + 1)
      /\ novel \subseteq AtomsFrom(task, relaxed, FirstActions(task, idx - 1))
      /\ AtomsFrom(task, relaxed, FirstActions(task, idx - 1)) \subseteq DOMAIN effects
  BY <1>1 DEF GraphInv, Completed, AtomsOK
<1>3. FirstActions(task, idx - 1) = Range(task.actions)
  <2>1. Len(task.actions) \in Nat /\ DOMAIN task.actions = 1..Len(task.actions)
    BY TaskFacts
  <2>2. idx - 1 = Len(task.actions)
    BY <1>1, <1>2, <2>1
  <2> QED BY <2>1, <2>2 DEF FirstActions, Range
<1>4. relaxed' = Level(effects, layer)
  BY <1>1, AccumulatedIs
<1>5. Level(effects, layer) = NextLayer(task, Level(effects, layer - 1), Range(task.actions))
  <2> DEFINE A == AtomsFrom(task, relaxed, Range(task.actions))
             D == Level(effects, layer)
             C == Level(effects, layer - 1)
             N == NextLayer(task, C, Range(task.actions))
  <2>1. novel \subseteq A /\ A \subseteq DOMAIN effects
    BY <1>2, <1>3
  <2>2. \A v \in Vars : N[v] = C[v] \cup {x \in task.values[v] : <<v, x>> \in A}
    BY <1>2 DEF NextLayer
  <2>3. \A v \in Vars : \A x :
           /\ x \in D[v] <=> <<v, x>> \in DOMAIN effects /\ effects[<<v, x>>].layer <= layer
           /\ x \in C[v] <=> <<v, x>> \in DOMAIN effects /\ effects[<<v, x>>].layer <= layer - 1
    BY <1>2, LevelIs
  <2>4. \A b \in DOMAIN effects : effects[b].layer \in 0..layer /\ AtomIn(task, b)
    BY <1>2 DEF AtomsOK
  <2>5. D = [v \in Vars |-> D[v]] /\ N = [v \in Vars |-> N[v]]
    BY DEF Level, NextLayer
  <2> HIDE DEF A, D, C, N
  <2>6. ASSUME NEW v \in Vars, NEW x \in D[v] PROVE x \in N[v]
    <3>1. <<v, x>> \in DOMAIN effects
      BY <2>3
    <3>2. CASE effects[<<v, x>>].layer <= layer - 1
      BY <2>2, <2>3, <3>1, <3>2
    <3>3. CASE ~ (effects[<<v, x>>].layer <= layer - 1)
      <4>1. effects[<<v, x>>].layer = layer
        BY <1>2, <2>4, <3>1, <3>3
      <4>2. <<v, x>> \in A
        BY <1>2, <2>1, <3>1, <4>1 DEF OfLayer
      <4>3. x \in task.values[v]
        <5>1. PICK u \in Vars : \E y \in task.values[u] : <<v, x>> = <<u, y>>
          BY <2>4, <3>1 DEF AtomIn
        <5> QED BY <5>1
      <4> QED BY <2>2, <4>2, <4>3
    <3> QED BY <3>2, <3>3
  <2>7. ASSUME NEW v \in Vars, NEW x \in N[v] PROVE x \in D[v]
    <3>1. <<v, x>> \in DOMAIN effects
      BY <2>1, <2>2, <2>3
    <3>2. effects[<<v, x>>].layer <= layer
      BY <1>2, <2>4, <3>1
    <3> QED BY <2>3, <3>1, <3>2
  <2>8. \A v \in Vars : D[v] = N[v]
    BY <2>6, <2>7
  <2>9. D = N
    BY <2>5, <2>8
  <2> QED BY <2>9 DEF D, N, C
<1>6. LayersOK(task, effects, layer)
  <2>1. ASSUME NEW k \in 1..layer
        PROVE  Level(effects, k) = NextLayer(task, Level(effects, k - 1), Range(task.actions))
    <3>1. k = layer \/ k \in 1..(layer - 1)
      BY <1>2
    <3> QED BY <1>2, <1>5, <3>1 DEF LayersOK
  <2> QED BY <2>1 DEF LayersOK
<1>7. Completed' = layer
  BY <1>1 DEF Completed
<1> QED BY <1>1, <1>2, <1>4, <1>6, <1>7 DEF GraphInv

LEMMA RestOfGraph ==
    ASSUME GraphInv, FilterGoal \/ SelectValue \/ Propagated \/ AllSelected \/ ProcessAtom
                     \/ BuildRelaxedPlan \/ UNCHANGED vars
    PROVE  GraphInv'
<1>1. UNCHANGED <<task, graph>>
  BY DEF FilterGoal, SelectValue, Propagated, AllSelected, ProcessAtom, BuildRelaxedPlan, vars
<1>2. (pc = "process" <=> pc' = "process") /\ (pc' = "start" => pc = "start")
  BY DEF FilterGoal, SelectValue, Propagated, AllSelected, ProcessAtom, BuildRelaxedPlan, vars
<1> QED BY <1>1, <1>2, SameGraph

GInv == task \in Tasks /\ (FromVariables(task) => GraphInv)

LEMMA TaskStays ==
    ASSUME [Next \/ Terminating]_vars
    PROVE  task' = task
BY DEF Next, Terminating, vars, Begin, ProcessAction, LayerDone, FilterGoal, GoalChecked, SelectValue,
       Propagated, AllSelected, ProcessAtom, BuildRelaxedPlan

LEMMA GraphAlways == Spec => []GInv
<1>1. Init => GInv
  BY InitGraph DEF GInv
<1>2. ASSUME GInv, [Next \/ Terminating]_vars PROVE GInv'
  <2>1. task' = task /\ task \in Tasks
    BY <1>2, TaskStays DEF GInv
  <2>2. ASSUME FromVariables(task) PROVE GraphInv'
    <3>1. GraphInv
      BY <1>2, <2>2 DEF GInv
    <3> QED BY <1>2, <2>1, <2>2, <3>1, BeginGraph, ProcessGraph, LayerDoneGraph, GoalCheckedGraph, RestOfGraph
            DEF Next, Terminating
  <2> QED BY <2>1, <2>2 DEF GInv
<1> QED BY <1>1, <1>2, PTL DEF Spec

LEMMA LayersAreExact ==
    ASSUME GraphInv, pc # "process"
    PROVE  LayersExact
<1>1. /\ AtomsOK(task, effects, layer) /\ LayersOK(task, effects, layer) /\ layer \in Nat
  BY DEF GraphInv, Completed, AtomsOK
<1>2. ASSUME NEW k \in 0..layer PROVE DeleteRelaxed(k, AllActs) = Level(effects, k)
  <2> DEFINE L == [i \in 0..layer |-> Level(effects, i)]
  <2>1. L[0] = [v \in Vars |-> {Seed[v]}]
    BY <1>1 DEF AtomsOK, Seed
  <2>2. ASSUME NEW i \in 1..k PROVE L[i] = NextLayer(task, L[i-1], AllActs[i])
    <3>1. i \in 1..layer /\ i \in 0..layer /\ i - 1 \in 0..layer
      BY <1>1
    <3>2. AllActs[i] = Range(task.actions)
      BY <3>1 DEF AllActs, Actions
    <3>3. L[i] = Level(effects, i) /\ L[i-1] = Level(effects, i - 1)
      BY <3>1
    <3> QED BY <1>1, <3>1, <3>2, <3>3 DEF LayersOK
  <2>3. L[k] = Level(effects, k)
    OBVIOUS
  <2>4. k \in Nat
    BY <1>1
  <2> HIDE DEF L
  <2>5. DeleteRelaxed(k, AllActs) = L[k]
    BY <2>1, <2>2, <2>4, LayersAre
  <2> QED BY <2>3, <2>5
<1> QED BY <1>2 DEF LayersExact, Level

\* The layers of the graph are those of the relaxed task, for every task whose
\* effects read their variable first: each atom has entered at the first layer
\* at which a state within the layer before has an applicable action that makes
\* it true, although DirectActionManager::process looks at one variable, and at
\* one effect, at a time.
THEOREM GraphIsExact == Spec => [](FromVariables(task) => LayersExact)
<1>1. GInv => (FromVariables(task) => LayersExact)
  <2> SUFFICES ASSUME GInv, FromVariables(task) PROVE LayersExact
    OBVIOUS
  <2>1. CASE pc = "process"
    BY <2>1 DEF LayersExact
  <2>2. CASE pc # "process"
    BY <2>2, LayersAreExact DEF GInv
  <2> QED BY <2>1, <2>2
<1> QED BY <1>1, GraphAlways, PTL

-----------------------------------------------------------------------------
(* Supports *)

\* When an atom is reached by one effect of an action, the other effects stay
\* in bounds: they read that effect's variable or one of the precondition, or
\* they can never leave them.
EffectStays(T, a, k, u) ==
    \A x \in T.values[u] : Apply(Effects(a)[k], x) \in T.values[Effects(a)[k].var]

BoundsSupported(T) ==
    \A i \in DOMAIN T.actions : LET a == T.actions[i] IN
        \A j \in DOMAIN a.eff : \A k \in Bounded(a) : LET u == Effects(a)[k].scope[1] IN
            \/ u \in ActionScope(a)
            \/ Effects(a)[j].scope = <<u>>
            \/ EffectStays(T, a, k, u)

Sufficient(T, a, S, b) ==
    \A s \in Within(T.values) :
        (\A c \in S : s[c[1]] = c[2]) => CanApply(T, a, s) /\ b \in Assigned(a, s)

\* The values from which effect j of a may start, and what value x of them
\* contributes to the support of atom.
SourceValues(a, P, j) ==
    IF Effects(a)[j].scope = << >> THEN {0} ELSE P[Effects(a)[j].scope[1]]

SupportIs(a, P, atom, j, x) ==
    /\ atom = <<Effects(a)[j].var, Apply(Effects(a)[j], x)>>
    /\ SupportOf(a, P, atom) =
         {<<Effects(a)[j].scope[n], x>> : n \in DOMAIN Effects(a)[j].scope} \cup
         {<<v, Min(P[v])>> : v \in ActionScope(a) \ ToSet(Effects(a)[j].scope)}

\* The least of the ways in which an atom is reached is one of them.
LEMMA FirstWay ==
    ASSUME NEW T, NEW a, ActionOK(T, a), NEW P, DomainsOver(Vars, P), NEW atom,
           NEW w0 \in Outcomes(a, P), w0[1] = atom
    PROVE  \E j \in DOMAIN a.eff : \E x \in SourceValues(a, P, j) : SupportIs(a, P, atom, j, x)
<1> DEFINE X(j) == SourceValues(a, P, j)
<1>1. \A w : w \in Outcomes(a, P) <=> \E j \in DOMAIN a.eff : \E x \in X(j) : w = Way(a, j, x)
  BY OutcomesAre DEF SourceValues
<1> DEFINE ways == {w \in Outcomes(a, P) : w[1] = atom}
           J == {w[2] : w \in ways}
           j0 == Min(J)
           X0 == {w[3] : w \in {u \in ways : u[2] = j0}}
           x0 == Min(X0)
<1>2. \A j \in DOMAIN a.eff : X(j) \subseteq Int /\ IsFiniteSet(X(j))
  <2> TAKE j \in DOMAIN a.eff
  <2>1. CASE Effects(a)[j].scope = << >>
    <3>1. IsFiniteSet({0})
      BY FS_Singleton
    <3> QED BY <2>1, <3>1 DEF SourceValues
  <2>2. CASE Effects(a)[j].scope # << >>
    <3>1. PICK u \in Vars : Effects(a)[j].scope = <<u>>
      BY <2>2 DEF ActionOK, EffectIs
    <3>2. Effects(a)[j].scope[1] = u
      BY <3>1
    <3>3. P[u] \subseteq Int /\ IsFiniteSet(P[u])
      BY DEF DomainsOver
    <3> QED BY <2>2, <3>2, <3>3 DEF SourceValues
  <2> QED BY <2>1, <2>2
<1> HIDE DEF X
<1>3. \A j, x : Way(a, j, x)[1] = <<Effects(a)[j].var, Apply(Effects(a)[j], x)>>
                /\ Way(a, j, x)[2] = j /\ Way(a, j, x)[3] = x
  BY DEF Way
<1>4. J \subseteq DOMAIN a.eff
  BY <1>1, <1>3
<1>5. DOMAIN a.eff \subseteq Int /\ IsFiniteSet(DOMAIN a.eff)
  <2>1. DOMAIN a.eff = 1..Len(a.eff) /\ Len(a.eff) \in Nat
    BY DEF ActionOK
  <2> QED BY <2>1, FS_Interval
<1>6. J # {}
  OBVIOUS
<1>7. j0 \in J
  <2>1. IsFiniteSet(J) /\ J \subseteq Int
    BY <1>4, <1>5, FS_Subset
  <2> HIDE DEF J
  <2> QED BY <1>6, <2>1, Bounds
<1>8. PICK w1 \in ways : w1[2] = j0
  BY <1>7
<1> HIDE DEF j0, J
<1>9. X0 # {}
  BY <1>8
<1>10. X0 \subseteq X(j0)
  <2> SUFFICES ASSUME NEW w \in ways, w[2] = j0 PROVE w[3] \in X(j0)
    OBVIOUS
  <2>1. PICK j \in DOMAIN a.eff : \E x \in X(j) : w = Way(a, j, x)
    BY <1>1
  <2>2. PICK x \in X(j) : w = Way(a, j, x)
    BY <2>1
  <2>3. j = j0 /\ w[3] = x
    BY <1>3, <2>2
  <2> QED BY <2>2, <2>3
<1>11. j0 \in DOMAIN a.eff
  BY <1>4, <1>7
<1>12. x0 \in X0
  <2>1. IsFiniteSet(X0) /\ X0 \subseteq Int
    BY <1>2, <1>10, <1>11, FS_Subset
  <2> HIDE DEF X0
  <2> QED BY <1>9, <2>1, Bounds
<1>13. PICK w2 \in ways : w2[2] = j0 /\ w2[3] = x0
  BY <1>12
<1> HIDE DEF x0, X0
<1>14. atom = <<Effects(a)[j0].var, Apply(Effects(a)[j0], x0)>>
  <2>1. PICK j \in DOMAIN a.eff : \E x \in X(j) : w2 = Way(a, j, x)
    BY <1>1
  <2>2. PICK x \in X(j) : w2 = Way(a, j, x)
    BY <2>1
  <2>3. j = j0 /\ x = x0 /\ w2[1] = atom
    BY <1>3, <1>13, <2>2
  <2> QED BY <1>3, <2>2, <2>3
<1>15. x0 \in X(j0)
  BY <1>10, <1>12
<1>16. SupportOf(a, P, atom) =
          {<<Effects(a)[j0].scope[n], x0>> : n \in DOMAIN Effects(a)[j0].scope} \cup
          {<<v, Min(P[v])>> : v \in ActionScope(a) \ ToSet(Effects(a)[j0].scope)}
  BY DEF SupportOf, j0, J, x0, X0
<1> HIDE DEF ways
<1>17. SupportIs(a, P, atom, j0, x0)
  BY <1>14, <1>16 DEF SupportIs
<1> QED BY <1>11, <1>15, <1>17 DEF X

\* The atoms S, one for each of their variables, are within domains R, and
\* enough for a to make b true.
Functional(S) == \A c, d \in S : c[1] = d[1] => c = d

Supports(T, a, R, S, b) ==
    /\ \A c \in S : \E v \in Vars : \E x \in R[v] : c = <<v, x>>
    /\ Functional(S)
    /\ Sufficient(T, a, S, b)

\* What completeAtomSupport adds makes the support sufficient.
LEMMA SupportSuffices ==
    ASSUME NEW T \in Tasks, FromVariables(T), BoundsSupported(T), NEW i \in DOMAIN T.actions,
           NEW a, a = T.actions[i],
           NEW R, DomainsOver(Vars, R), \A v \in Vars : R[v] \subseteq T.values[v],
           NEW P, P = Projected(T, R, a), \A v \in Vars : P[v] # {},
           NEW atom, NEW w0 \in Outcomes(a, P), w0[1] = atom
    PROVE  Supports(T, a, R, SupportOf(a, P, atom), atom)
<1>1. ActionOK(T, a)
  BY ActionFacts
<1>2. \A v \in Vars : P[v] = {x \in R[v] : AcceptsIn(T, a, v, x)}
  BY DEF Projected
<1>3. DomainsOver(Vars, P)
  <2>1. \A v \in Vars : P[v] \subseteq Int /\ IsFiniteSet(P[v])
    <3>1. \A v \in Vars : R[v] \subseteq Int /\ IsFiniteSet(R[v]) /\ P[v] \subseteq R[v]
      BY <1>2 DEF DomainsOver
    <3> QED BY <3>1, FS_Subset
  <2>2. P = [v \in Vars |-> P[v]]
    BY DEF Projected
  <2>3. P \in [Vars -> SUBSET Int]
    BY <2>1, <2>2
  <2> QED BY <2>1, <2>3 DEF DomainsOver
<1>4. PICK j \in DOMAIN a.eff : \E x \in SourceValues(a, P, j) : SupportIs(a, P, atom, j, x)
  BY <1>1, <1>3, FirstWay
<1> DEFINE e == a.eff[j]
           d == Effects(a)[j]
           scope == d.scope
           S == SupportOf(a, P, atom)
<1>5. PICK x \in IF scope = << >> THEN {0} ELSE P[scope[1]] :
         /\ atom = <<d.var, Apply(d, x)>>
         /\ S = {<<scope[n], x>> : n \in DOMAIN scope} \cup
                {<<v, Min(P[v])>> : v \in ActionScope(a) \ ToSet(scope)}
  BY <1>4 DEF SourceValues, SupportIs
<1>6. EffectIs(T, e, d)
  BY <1>1 DEF ActionOK
<1>7. ActionScope(a) \subseteq Vars
  BY <1>1 DEF ActionScope, ActionOK, Legal
<1>8. \A v \in Vars : Min(P[v]) \in P[v]
  BY <1>3, Bounds DEF DomainsOver
\* The variables of the support and their values.
<1>9. \/ /\ scope = << >>
         /\ S = {<<v, Min(P[v])>> : v \in ActionScope(a)}
      \/ \E u \in Vars :
         /\ scope = <<u>> /\ x \in P[u]
         /\ S = {<<u, x>>} \cup {<<v, Min(P[v])>> : v \in ActionScope(a) \ {u}}
  <2>1. CASE scope = << >>
    <3>1. DOMAIN scope = {} /\ ToSet(scope) = {}
      BY <2>1 DEF ToSet
    <3> HIDE DEF S, scope
    <3> QED BY <1>5, <2>1, <3>1
  <2>2. CASE scope # << >>
    <3>1. PICK u \in Vars : scope = <<u>>
      BY <1>6, <2>2 DEF EffectIs
    <3>2. DOMAIN scope = {1} /\ scope[1] = u
      BY <3>1
    <3>3. ToSet(scope) = {u}
      BY <3>2 DEF ToSet
    <3> HIDE DEF S, scope
    <3>4. {<<scope[n], x>> : n \in DOMAIN scope} = {<<u, x>>}
      BY <3>2
    <3> QED BY <1>5, <2>2, <3>1, <3>2, <3>3, <3>4
  <2> QED BY <2>1, <2>2
<1> HIDE DEF S
<1>10. \A c \in S : \E v \in Vars : \E y \in P[v] : c = <<v, y>>
  BY <1>7, <1>8, <1>9
<1>11. \A c \in S : \E v \in Vars : \E y \in R[v] : c = <<v, y>>
  BY <1>2, <1>10
<1>12. ASSUME NEW s \in Within(T.values), \A c \in S : s[c[1]] = c[2]
       PROVE  CanApply(T, a, s) /\ atom \in Assigned(a, s)
  <2>1. s \in Assignment /\ \A v \in Vars : s[v] \in T.values[v]
    <3>1. DomainsOver(Vars, T.values)
      BY TaskFacts DEF DomainsOver
    <3> QED BY <3>1, WithinIs
  <2>2. \A v \in ActionScope(a) : s[v] \in P[v]
    <3> TAKE v \in ActionScope(a)
    <3>1. v \in Vars
      BY <1>7
    <3>2. \E y \in P[v] : <<v, y>> \in S
      BY <1>8, <1>9, <3>1
    <3>3. PICK y \in P[v] : <<v, y>> \in S
      BY <3>2
    <3>4. s[v] = y
      BY <1>12, <3>3
    <3> QED BY <3>3, <3>4
  <2>3. \A u \in Vars : scope = <<u>> => s[u] = x /\ x \in P[u]
    <3> TAKE u \in Vars
    <3> HAVE scope = <<u>>
    <3>1. PICK t \in Vars : scope = <<t>> /\ x \in P[t] /\ <<t, x>> \in S
      BY <1>9
    <3>2. t = u
      BY <3>1
    <3>3. s[u] = x
      BY <1>12, <3>1, <3>2
    <3> QED BY <3>1, <3>2, <3>3
  <2>4. ASSUME NEW v \in Vars PROVE AcceptsIn(T, a, v, s[v])
    <3>1. CASE v \in ActionScope(a) \/ scope = <<v>>
      <4>1. s[v] \in P[v]
        BY <2>2, <2>3, <3>1
      <4> QED BY <1>2, <4>1
    <3>2. CASE ~ (v \in ActionScope(a) \/ scope = <<v>>)
      <4>1. ASSUME NEW k \in DOMAIN a.pre PROVE Translate(a.pre[k]).scope[1] # v
        <5>1. VarsOf(a.pre[k]) = {Translate(a.pre[k]).scope[1]}
          BY <1>1, UnaryExact DEF ActionOK
        <5>2. VarsOf(a.pre[k]) \subseteq ActionScope(a)
          BY DEF ActionScope
        <5> QED BY <3>2, <5>1, <5>2
      <4>2. ASSUME NEW k \in Bounded(a), Effects(a)[k].scope[1] = v
            PROVE  Apply(Effects(a)[k], s[v]) \in T.values[Effects(a)[k].var]
        <5>1. EffectStays(T, a, k, v)
          BY <3>2, <4>2 DEF BoundsSupported
        <5> QED BY <2>1, <5>1 DEF EffectStays
      <4> QED BY <4>1, <4>2 DEF AcceptsIn
    <3> QED BY <3>1, <3>2
  <2>5. CanApply(T, a, s)
    BY <1>1, <2>1, <2>4, ApplicableExact
  <2>6. atom = <<e.var, Interpret(e.rhs, s)>>
    <3>1. CASE scope = << >>
      BY <1>5, <1>6, <3>1 DEF EffectIs
    <3>2. CASE scope # << >>
      <4>1. PICK u \in Vars : scope = <<u>> /\ Interpret(e.rhs, s) = Apply(d, s[u])
        BY <1>6, <2>1, <3>2 DEF EffectIs
      <4>2. s[u] = x /\ d.var = e.var
        BY <1>6, <2>3, <4>1 DEF EffectIs
      <4> QED BY <1>5, <4>1, <4>2
    <3> QED BY <3>1, <3>2
  <2>7. atom \in Assigned(a, s)
    BY <2>6 DEF Assigned
  <2> QED BY <2>5, <2>7
<1>13. Functional(S)
  BY <1>9 DEF Functional
<1> QED BY <1>11, <1>12, <1>13 DEF Supports, Sufficient, S

\* Every recorded support was reached in earlier layers and is sufficient.
SupportOK(T, E) ==
    \A b \in DOMAIN E : E[b].layer > 0 =>
        /\ \A c \in E[b].support : c \in DOMAIN E /\ E[c].layer < E[b].layer
        /\ Functional(E[b].support)
        /\ Sufficient(T, T.actions[E[b].action], E[b].support, b)

LEMMA ProcessSupport ==
    ASSUME task \in Tasks, FromVariables(task), BoundsSupported(task), GraphInv,
           SupportOK(task, effects), ProcessAction
    PROVE  SupportOK(task, effects')
<1> DEFINE a == task.actions[idx]
           P == Projection(a)
           found == Found(task, relaxed, idx, effects)
<1>1. /\ pc = "process" /\ idx \in 1..Len(task.actions) /\ layer - 1 \in Nat
      /\ DomainsOver(Vars, relaxed) /\ ActionOK(task, a)
      /\ DOMAIN effects' = DOMAIN effects \cup found
      /\ \A b \in DOMAIN effects : effects'[b] = effects[b]
      /\ \A b \in found : effects'[b] = AtomSupport(layer, idx, SupportOf(a, P, b))
  BY ProcessFacts
<1>2. /\ AtomsOK(task, effects, layer) /\ relaxed = Level(effects, layer - 1) /\ layer \in Nat
  BY <1>1 DEF GraphInv, Completed, AtomsOK
<1>3. found = AtomsFrom(task, relaxed, {a}) \ DOMAIN effects
  BY DEF Found
<1>4. P = Projected(task, relaxed, a)
  BY ProjectionIs
<1>5. idx \in DOMAIN task.actions
  BY <1>1, TaskFacts
<1>6. \A v \in Vars : relaxed[v] \subseteq task.values[v]
  BY <1>1, <1>2, LevelDomains
<1>7. a = task.actions[idx]
  OBVIOUS
<1> HIDE DEF found, a, P
<1>8. ASSUME NEW b \in found
      PROVE  Supports(task, a, relaxed, SupportOf(a, P, b), b)
  <2>1. \A v \in Vars : P[v] # {}
    BY <1>1, <1>3, <1>4, <1>8, OutcomesExact
  <2>2. b \in {w[1] : w \in Outcomes(a, P)}
    BY <1>1, <1>3, <1>4, <1>8, <2>1, OutcomesExact
  <2>3. PICK w \in Outcomes(a, P) : w[1] = b
    BY <2>2
  <2> QED BY <1>1, <1>4, <1>5, <1>6, <1>7, <2>1, <2>3, SupportSuffices
<1>9. ASSUME NEW b \in found
      PROVE  /\ \A c \in effects'[b].support : c \in DOMAIN effects' /\ effects'[c].layer < effects'[b].layer
             /\ Functional(effects'[b].support)
             /\ Sufficient(task, task.actions[effects'[b].action], effects'[b].support, b)
  <2>1. /\ effects'[b].layer = layer /\ effects'[b].action = idx
        /\ effects'[b].support = SupportOf(a, P, b)
    BY <1>1, <1>9 DEF AtomSupport
  <2>2. ASSUME NEW c \in SupportOf(a, P, b) PROVE c \in DOMAIN effects /\ effects[c].layer <= layer - 1
    <3>1. PICK v \in Vars : \E x \in relaxed[v] : c = <<v, x>>
      BY <1>8, <1>9 DEF Supports
    <3> QED BY <1>2, <3>1, LevelIs
  <2>3. ASSUME NEW c \in SupportOf(a, P, b) PROVE c \in DOMAIN effects' /\ effects'[c].layer < layer
    <3>1. c \in DOMAIN effects /\ effects[c].layer <= layer - 1 /\ effects'[c] = effects[c]
      BY <1>1, <2>2
    <3>2. effects[c].layer \in Int
      BY <1>2, <3>1 DEF AtomsOK
    <3> QED BY <1>1, <1>2, <3>1, <3>2
  <2>4. Sufficient(task, a, SupportOf(a, P, b), b) /\ Functional(SupportOf(a, P, b))
    BY <1>8, <1>9 DEF Supports
  <2> QED BY <1>7, <2>1, <2>3, <2>4
<1>10. ASSUME NEW b \in DOMAIN effects, effects[b].layer > 0
       PROVE  /\ \A c \in effects[b].support : c \in DOMAIN effects' /\ effects'[c].layer < effects[b].layer
              /\ Functional(effects[b].support)
              /\ Sufficient(task, task.actions[effects[b].action], effects[b].support, b)
  BY <1>1, <1>10 DEF SupportOK
<1> QED BY <1>1, <1>9, <1>10 DEF SupportOK

SInv == GInv /\ (FromVariables(task) /\ BoundsSupported(task) => SupportOK(task, effects))

LEMMA SupportsAlways == Spec => []SInv
<1>1. Init => SInv
  <2> SUFFICES ASSUME Init PROVE SInv
    OBVIOUS
  <2>1. \A b \in DOMAIN effects : ~ (effects[b].layer > 0)
    BY DEF Init, AtomSupport
  <2> QED BY <2>1, InitGraph DEF SInv, GInv, SupportOK
<1>2. ASSUME SInv, GInv', [Next \/ Terminating]_vars PROVE SInv'
  <2>1. task' = task /\ task \in Tasks
    BY <1>2, TaskStays DEF SInv, GInv
  <2>2. ASSUME FromVariables(task), BoundsSupported(task) PROVE SupportOK(task, effects')
    <3>1. GraphInv /\ SupportOK(task, effects)
      BY <1>2, <2>2 DEF SInv, GInv
    <3>2. CASE ProcessAction
      BY <2>1, <2>2, <3>1, <3>2, ProcessSupport
    <3>3. CASE ~ ProcessAction
      <4>1. effects' = effects
        BY <1>2, <3>3 DEF Next, Terminating, vars, graph, Begin, LayerDone, FilterGoal, GoalChecked,
           AdvanceLayer, SelectValue, Propagated, AllSelected, ProcessAtom, BuildRelaxedPlan
      <4> QED BY <3>1, <4>1
    <3> QED BY <3>2, <3>3
  <2> QED BY <1>2, <2>1, <2>2 DEF SInv
<1> QED BY <1>1, <1>2, GraphAlways, PTL DEF Spec

\* The support that SupportOf records for an atom is all that its action needs:
\* the atoms of the support are from earlier layers, and in every state that
\* contains them the action is applicable and makes the atom true.  So
\* extraction descends, and forgets no precondition and no bound.
THEOREM SupportsSuffice == Spec => [](FromVariables(task) /\ BoundsSupported(task) => SupportSufficient)
<1>1. SInv => (FromVariables(task) /\ BoundsSupported(task) => SupportSufficient)
  <2> SUFFICES ASSUME SupportOK(task, effects) PROVE SupportSufficient
    BY DEF SInv
  <2>1. \A act, s : CanApply(task, act, s) <=> Applicable(act, s)
    BY DEF CanApply, Applicable
  <2> QED BY <2>1 DEF SupportSufficient, SupportOK, Sufficient, Actions
<1> QED BY <1>1, SupportsAlways, PTL

-----------------------------------------------------------------------------
(***************************************************************************)
(* Dead ends.  The states that the task reaches stay within the layers.    *)
(***************************************************************************)
Iterates(f, x, step, n) == f[0] = x /\ \A i \in 1..n : f[i] = step[i][f[i-1]]

\* A function defined by recursion up to n exists, if the step is a function.
LEMMA Recursion ==
    ASSUME NEW X, NEW x \in X, NEW step \in [Nat -> [X -> X]], NEW n \in Nat
    PROVE  \E f \in [0..n -> X] : Iterates(f, x, step, n)
<1> DEFINE N == {m \in Nat : \E f \in [0..m -> X] : Iterates(f, x, step, m)}
<1>1. 0 \in N
  <2> DEFINE f == [i \in 0..0 |-> x]
  <2>1. f \in [0..0 -> X] /\ Iterates(f, x, step, 0)
    BY DEF Iterates
  <2> QED BY <2>1
<1>2. ASSUME NEW m \in N PROVE m + 1 \in N
  <2>1. PICK f \in [0..m -> X] : Iterates(f, x, step, m)
    OBVIOUS
  <2> DEFINE g == [i \in 0..(m+1) |-> IF i = m + 1 THEN step[i][f[m]] ELSE f[i]]
  <2>2. m \in Nat /\ f[m] \in X
    OBVIOUS
  <2>3. f[0] = x /\ \A i \in 1..m : f[i] = step[i][f[i-1]]
    BY <2>1 DEF Iterates
  <2> HIDE DEF N
  <2>4. g \in [0..(m+1) -> X]
    BY <2>2
  <2>5. g[0] = x
    BY <2>2, <2>3
  <2>6. ASSUME NEW i \in 1..(m+1) PROVE g[i] = step[i][g[i-1]]
    <3>1. CASE i = m + 1
      <4>1. i - 1 = m /\ m \in 0..(m+1) /\ m # m + 1
        BY <2>2, <3>1
      <4> QED BY <3>1, <4>1
    <3>2. CASE i # m + 1
      <4>1. i \in 1..m /\ i - 1 \in 0..(m+1) /\ i - 1 # m + 1
        BY <2>2, <3>2
      <4> QED BY <2>3, <3>2, <4>1
    <3> QED BY <3>1, <3>2
  <2>7. \E r \in [0..(m+1) -> X] : Iterates(r, x, step, m+1)
    <3> HIDE DEF g
    <3> QED BY <2>4, <2>5, <2>6 DEF Iterates
  <2> HIDE DEF g
  <2> QED BY <2>2, <2>7 DEF N
<1>3. N = Nat
  <2> HIDE DEF N
  <2>1. N \in SUBSET Nat
    BY DEF N
  <2> QED BY <1>1, <1>2, <2>1, Induction
<1> QED BY <1>3

\* The states reached by one more step.
Expanded(S) ==
    S \cup UNION {{Successor(a, s) : s \in {t \in S : Applicable(a, t)}} : a \in Range(Actions)}

LEMMA ExpandedIs ==
    ASSUME NEW S, NEW r \in Expanded(S)
    PROVE  r \in S \/ \E i \in DOMAIN task.actions : \E s \in S :
                         Applicable(task.actions[i], s) /\ r = Successor(task.actions[i], s)
BY DEF Expanded, Actions, Range

LEMMA SuccessorTyped ==
    ASSUME task \in Tasks, NEW a, NEW s \in Assignment
    PROVE  Successor(a, s) \in Assignment
<1>1. ASSUME NEW v \in Vars
      PROVE  (IF \E x \in task.values[v] : <<v, x>> \in Assigned(a, s)
              THEN CHOOSE x \in task.values[v] : <<v, x>> \in Assigned(a, s) ELSE s[v]) \in Int
  <2>1. task.values[v] \subseteq Int /\ s[v] \in Int
    BY TaskFacts DEF Assignment
  <2> QED BY <2>1
<1> QED BY <1>1 DEF Successor, Assignment

\* ReachedIn is the sequence of sets that its recursion describes.
LEMMA ReachedAre ==
    ASSUME task \in Tasks, NEW n \in Nat
    PROVE  \E f : f[0] = {Seed} /\ (\A k \in 1..n : f[k] = Expanded(f[k-1])) /\ ReachedIn(n) = f[n]
<1> DEFINE X == SUBSET Assignment
           step == [i \in Nat |-> [S \in X |-> Expanded(S)]]
           Eq(g) == g = [k \in 0..n |-> IF k = 0 THEN {Seed} ELSE Expanded(g[k-1])]
           f == CHOOSE g : Eq(g)
<1>1. ReachedIn(n) = f[n]
  BY DEF ReachedIn, Expanded
<1>2. {Seed} \in X
  BY TaskFacts DEF Seed
<1>3. ASSUME NEW S \in X PROVE Expanded(S) \in X
  <2> SUFFICES ASSUME NEW r \in Expanded(S) PROVE r \in Assignment
    OBVIOUS
  <2>1. CASE r \in S
    BY <1>3, <2>1
  <2>2. CASE r \notin S
    <3>1. PICK i \in DOMAIN task.actions, s \in S : r = Successor(task.actions[i], s)
      BY <2>2, ExpandedIs
    <3> QED BY <1>3, <3>1, SuccessorTyped
  <2> QED BY <2>1, <2>2
<1> HIDE DEF X
<1>4. step \in [Nat -> [X -> X]]
  BY <1>3
<1>5. PICK g \in [0..n -> X] : Iterates(g, {Seed}, step, n)
  <2> HIDE DEF step
  <2> QED BY <1>2, <1>4, Recursion
<1>6. Eq(g)
  <2>1. g[0] = {Seed}
    BY <1>5 DEF Iterates
  <2>2. ASSUME NEW k \in 0..n, k # 0 PROVE g[k] = Expanded(g[k-1])
    <3>1. k \in 1..n /\ k - 1 \in 0..n /\ k \in Nat
      BY <2>2
    <3>2. g[k-1] \in X /\ g[k] = step[k][g[k-1]]
      <4> HIDE DEF step
      <4> QED BY <1>5, <3>1 DEF Iterates
    <3> QED BY <3>1, <3>2
  <2>3. \A k \in 0..n : g[k] = IF k = 0 THEN {Seed} ELSE Expanded(g[k-1])
    BY <2>1, <2>2
  <2> HIDE DEF step
  <2> QED BY <2>3
<1>7. Eq(f)
  <2> HIDE DEF Eq
  <2> QED BY <1>6
<1> HIDE DEF f
<1>8. f[0] = {Seed} /\ \A k \in 1..n : f[k] = Expanded(f[k-1])
  <2>1. \A k \in 0..n : f[k] = IF k = 0 THEN {Seed} ELSE Expanded(f[k-1])
    <3> DEFINE r == f
    <3>1. r = [k \in 0..n |-> IF k = 0 THEN {Seed} ELSE Expanded(r[k-1])]
      BY <1>7
    <3> HIDE DEF r
    <3>2. \A k \in 0..n : r[k] = IF k = 0 THEN {Seed} ELSE Expanded(r[k-1])
      BY <3>1
    <3> QED BY <3>2 DEF r
  <2>2. 0 \in 0..n /\ \A k \in 1..n : k \in 0..n /\ k # 0
    OBVIOUS
  <2> QED BY <2>1, <2>2
<1> QED BY <1>1, <1>8

\* What an action makes of a state within domains D is within the next layer.
LEMMA SuccessorWithin ==
    ASSUME task \in Tasks, NEW D, DomainsOver(Vars, D), NEW E, DomainsOver(Vars, E),
           \A v \in Vars : NextLayer(task, D, Range(task.actions))[v] \subseteq E[v],
           NEW i \in DOMAIN task.actions, NEW s \in Within(D), Applicable(task.actions[i], s)
    PROVE  Successor(task.actions[i], s) \in Within(E)
<1> DEFINE a == task.actions[i]
           r == Successor(a, s)
           A == AtomsFrom(task, D, Range(task.actions))
<1>1. s \in Assignment /\ \A v \in Vars : s[v] \in D[v]
  BY WithinIs
<1>2. a \in Range(task.actions)
  BY DEF Range
<1>3. CanApply(task, a, s)
  BY DEF CanApply, Applicable
<1>4. Assigned(a, s) \subseteq A
  BY <1>2, <1>3 DEF AtomsFrom
<1>5. \A v \in Vars :
         NextLayer(task, D, Range(task.actions))[v] = D[v] \cup {x \in task.values[v] : <<v, x>> \in A}
  BY DEF NextLayer
<1>6. r \in Assignment
  BY <1>1, SuccessorTyped
<1>7. ASSUME NEW v \in Vars PROVE r[v] \in E[v]
  <2>1. r[v] = IF \E x \in task.values[v] : <<v, x>> \in Assigned(a, s)
               THEN CHOOSE x \in task.values[v] : <<v, x>> \in Assigned(a, s) ELSE s[v]
    BY DEF Successor
  <2> HIDE DEF A, r, a
  <2>2. CASE \E x \in task.values[v] : <<v, x>> \in Assigned(a, s)
    <3>1. r[v] \in task.values[v] /\ <<v, r[v]>> \in Assigned(a, s)
      BY <2>1, <2>2
    <3> QED BY <1>4, <1>5, <3>1
  <2>3. CASE ~ \E x \in task.values[v] : <<v, x>> \in Assigned(a, s)
    BY <1>1, <1>5, <2>1, <2>3
  <2> QED BY <2>2, <2>3
<1> HIDE DEF r
<1>8. r \in Within(E)
  BY <1>6, <1>7, WithinIs
<1> QED BY <1>8 DEF r

LEMMA ReachedWithin ==
    ASSUME task \in Tasks, NEW n \in Nat, NEW L,
           \A k \in 0..n : DomainsOver(Vars, L[k]),
           Seed \in Within(L[0]),
           \A k \in 1..n : \A v \in Vars : NextLayer(task, L[k-1], Range(task.actions))[v] \subseteq L[k][v]
    PROVE  ReachedIn(n) \subseteq Within(L[n])
<1>1. PICK f : f[0] = {Seed} /\ (\A k \in 1..n : f[k] = Expanded(f[k-1])) /\ ReachedIn(n) = f[n]
  BY ReachedAre
<1> DEFINE N == {k \in Nat : k <= n => f[k] \subseteq Within(L[k])}
<1>2. 0 \in N
  BY <1>1
<1>3. ASSUME NEW k \in N PROVE k + 1 \in N
  <2>1. ASSUME k + 1 <= n PROVE f[k+1] \subseteq Within(L[k+1])
    <3>1. /\ k + 1 \in 1..n /\ k + 1 \in 0..n /\ k \in 0..n /\ (k + 1) - 1 = k
          /\ f[k] \subseteq Within(L[k])
      BY <2>1
    <3>2. DomainsOver(Vars, L[k]) /\ DomainsOver(Vars, L[k+1])
      BY <3>1
    <3>3. \A v \in Vars : NextLayer(task, L[k], Range(task.actions))[v] \subseteq L[k+1][v]
      BY <3>1
    <3>4. ASSUME NEW v \in Vars PROVE L[k][v] \subseteq L[k+1][v]
      <4>1. L[k][v] \subseteq NextLayer(task, L[k], Range(task.actions))[v]
        BY DEF NextLayer
      <4> QED BY <3>3, <4>1
    <3>5. Within(L[k]) \subseteq Within(L[k+1])
      BY <3>2, <3>4, WithinIs
    <3> SUFFICES ASSUME NEW r \in f[k+1] PROVE r \in Within(L[k+1])
      OBVIOUS
    <3>6. r \in Expanded(f[k])
      BY <1>1, <3>1
    <3>7. CASE r \in f[k]
      BY <3>1, <3>5, <3>7
    <3>8. CASE r \notin f[k]
      <4>1. PICK i \in DOMAIN task.actions, s \in f[k] :
              Applicable(task.actions[i], s) /\ r = Successor(task.actions[i], s)
        BY <3>6, <3>8, ExpandedIs
      <4>2. s \in Within(L[k])
        BY <3>1
      <4> QED BY <3>2, <3>3, <4>1, <4>2, SuccessorWithin
    <3> QED BY <3>7, <3>8
  <2> QED BY <2>1
<1>4. N = Nat
  <2> HIDE DEF N
  <2>1. N \in SUBSET Nat
    BY DEF N
  <2> QED BY <1>2, <1>3, <2>1, Induction
<1> QED BY <1>1, <1>4

LEMMA StatesFinite ==
    ASSUME NEW T \in Tasks
    PROVE  Cardinality(Within(T.values)) \in Nat
<1> DEFINE S == Within(T.values)
           R == {T.values[v] : v \in Vars}
           U == UNION R
           f == [s \in S |-> {<<v, s[v]>> : v \in Vars}]
<1>1. T.values \in [Vars -> SUBSET Int] /\ \A v \in Vars : IsFiniteSet(T.values[v])
  BY TaskFacts
<1>2. IsFiniteSet(U)
  <2>1. T.values \in Surjection(Vars, R)
    BY <1>1 DEF Surjection
  <2>2. IsFiniteSet(R)
    <3> HIDE DEF R
    <3> QED BY <2>1, VarsAssumption, FS_Surjection
  <2>3. \A X \in R : IsFiniteSet(X)
    BY <1>1
  <2> HIDE DEF R
  <2> QED BY <2>2, <2>3, FS_UNION
<1>3. \A s \in S : s \in [Vars -> U]
  BY DEF Within
<1>4. f \in [S -> SUBSET (Vars \X U)]
  <2> HIDE DEF S, U
  <2> QED BY <1>3
<1>5. ASSUME NEW s \in S, NEW r \in S, f[s] = f[r] PROVE s = r
  <2>1. {<<v, s[v]>> : v \in Vars} = {<<v, r[v]>> : v \in Vars}
    BY <1>5
  <2>2. ASSUME NEW v \in Vars PROVE s[v] = r[v]
    <3>1. <<v, s[v]>> \in {<<u, r[u]>> : u \in Vars}
      BY <2>1
    <3> QED BY <3>1
  <2> HIDE DEF S, U
  <2> QED BY <1>3, <1>5, <2>2
<1> HIDE DEF f, S, U, R
<1>6. f \in Injection(S, SUBSET (Vars \X U))
  BY <1>4, <1>5 DEF Injection, IsInjective
<1>7. IsFiniteSet(SUBSET (Vars \X U))
  BY <1>2, VarsAssumption, FS_Product, FS_SUBSET
<1>8. IsFiniteSet(S)
  BY <1>6, <1>7, FS_Injection
<1> QED BY <1>8, FS_CardinalityType DEF S

(***************************************************************************)
(* The invariant of the estimates: no layer before the present one has a   *)
(* goal state, because the handler found none (FilterInv), and a dead end  *)
(* is a layer that added nothing.                                          *)
(***************************************************************************)
NoGoalWithin(T, D) == \A s \in Within(D) : ~ \A i \in DOMAIN T.goal : Satisfied(T.goal[i], s)

Building == pc \in {"start", "process", "goal"}

EstimateInv ==
    /\ layer > 0 => NoGoalWithin(task, Level(effects, layer - 1))
    /\ pc = "goal" => FilterInv(task.goal, relaxed)
    /\ pc = "done" /\ h = -1 => layer > 0 /\ Level(effects, layer) = Level(effects, layer - 1)
    /\ pc # "done" => h = 0
    /\ Building => hmax = 0
    /\ hmax \in {0, layer}
    /\ IsFiniteSet(processed)

LEMMA InitEstimate ==
    ASSUME Init
    PROVE  EstimateInv
<1>1. pc = "start" /\ layer = 0 /\ h = 0 /\ hmax = 0 /\ processed = {}
  BY DEF Init
<1> QED BY <1>1, FS_EmptySet DEF EstimateInv

LEMMA BeginEstimate ==
    ASSUME task \in Tasks, GraphInv, EstimateInv, Begin
    PROVE  EstimateInv'
<1>1. /\ pc = "start" /\ UNCHANGED <<task, effects, h, hmax, processed>> /\ layer = 0
      /\ \/ pc' = "done" /\ layer' = layer
         \/ pc' = "process" /\ layer' = 1 /\ ~IsGoal(Seed)
  BY DEF Begin, GraphInv, extraction
<1>2. h = 0 /\ hmax = 0 /\ IsFiniteSet(processed)
  BY <1>1 DEF EstimateInv, Building
<1>3. CASE pc' = "done" /\ layer' = layer
  BY <1>1, <1>2, <1>3 DEF EstimateInv, Building
<1>4. CASE pc' = "process" /\ layer' = 1 /\ ~IsGoal(Seed)
  <2>1. Level(effects, 0) = [v \in Vars |-> {task.seed[v]}] /\ DomainsOver(Vars, Level(effects, 0))
    BY LevelDomains DEF GraphInv, AtomsOK
  <2>2. ASSUME NEW s \in Within(Level(effects, 0)) PROVE s = Seed
    <3>1. s \in Assignment /\ \A v \in Vars : s[v] = task.seed[v]
      <4>1. s \in Assignment /\ \A v \in Vars : s[v] \in Level(effects, 0)[v]
        BY <2>1, WithinIs
      <4> QED BY <2>1, <4>1
    <3> QED BY <3>1, TaskFacts DEF Seed, Assignment
  <2>3. NoGoalWithin(task, Level(effects, 0))
    BY <1>4, <2>2 DEF NoGoalWithin, IsGoal
  <2>4. layer' - 1 = 0
    BY <1>4
  <2>5. NoGoalWithin(task', Level(effects', layer' - 1))
    BY <1>1, <2>3, <2>4
  <2> QED BY <1>1, <1>2, <1>4, <2>5 DEF EstimateInv, Building
<1> QED BY <1>1, <1>3, <1>4

LEMMA ProcessEstimate ==
    ASSUME GraphInv, GraphInv', EstimateInv, ProcessAction
    PROVE  EstimateInv'
<1>1. /\ pc = "process" /\ UNCHANGED <<task, pc, relaxed, layer, h, hmax, processed>>
  BY DEF ProcessAction, extraction
<1>2. Level(effects', layer - 1) = Level(effects, layer - 1)
  <2>1. relaxed = Level(effects, layer - 1)
    BY <1>1 DEF GraphInv, Completed
  <2>2. Completed' = layer - 1
    BY <1>1 DEF Completed
  <2>3. relaxed' = Level(effects', Completed')
    BY DEF GraphInv
  <2> QED BY <1>1, <2>1, <2>2, <2>3
<1>3. layer' > 0 => NoGoalWithin(task', Level(effects', layer' - 1))
  BY <1>1, <1>2 DEF EstimateInv
<1> QED BY <1>1, <1>3 DEF EstimateInv, Building

LEMMA LayerDoneEstimate ==
    ASSUME task \in Tasks, GraphInv, EstimateInv, LayerDone
    PROVE  EstimateInv'
<1>1. /\ pc = "process" /\ relaxed' = Accumulated
      /\ UNCHANGED <<task, layer, effects, hmax, processed>>
      /\ \/ novel = {} /\ pc' = "done"
         \/ pc' = "goal" /\ StartFilter(GoalConstraints, Accumulated) /\ h' = h
  BY DEF LayerDone, extraction
<1>2. /\ AtomsOK(task, effects, layer) /\ layer \in Nat /\ layer > 0
      /\ novel = OfLayer(effects, layer) /\ Accumulated = Level(effects, layer)
  BY <1>1, AccumulatedIs DEF GraphInv, AtomsOK
<1>3. /\ NoGoalWithin(task, Level(effects, layer - 1)) /\ h = 0 /\ hmax = 0 /\ IsFiniteSet(processed)
  BY <1>1, <1>2 DEF EstimateInv, Building
<1>4. CASE novel = {} /\ pc' = "done"
  <2>1. \A b \in DOMAIN effects : effects[b].layer <= layer <=> effects[b].layer <= layer - 1
    <3> TAKE b \in DOMAIN effects
    <3>1. effects[b].layer \in 0..layer /\ effects[b].layer # layer
      BY <1>2, <1>4 DEF AtomsOK, OfLayer
    <3> QED BY <1>2, <3>1
  <2>2. Level(effects, layer) = Level(effects, layer - 1)
    BY <2>1 DEF Level
  <2> QED BY <1>1, <1>2, <1>3, <1>4, <2>2 DEF EstimateInv, Building
<1>5. CASE pc' = "goal" /\ StartFilter(GoalConstraints, Accumulated) /\ h' = h
  <2>1. PICK F, D0 : F = task.goal /\ D0 = Level(effects, layer)
    OBVIOUS
  <2>2. Problem(F, D0)
    BY <1>2, <2>1, TaskFacts, LevelDomains DEF Problem
  <2>3. StartFilter(Translated(F), D0)
    BY <1>2, <1>5, <2>1 DEF GoalConstraints, Translated
  <2>4. FilterInv(F, D0)'
    BY <2>2, <2>3, StartInv
  <2>5. F = task'.goal /\ D0 = relaxed'
    BY <1>1, <1>2, <2>1
  <2>6. FilterInv(task.goal, relaxed)'
    BY <2>4, <2>5
  <2> QED BY <1>1, <1>2, <1>3, <1>5, <2>6 DEF EstimateInv, Building
<1> QED BY <1>1, <1>4, <1>5

LEMMA FilterGoalEstimate ==
    ASSUME EstimateInv, (FilterGoal \/ UNCHANGED vars)
    PROVE  EstimateInv'
<1>1. /\ UNCHANGED <<task, pc, relaxed, layer, effects, h, hmax, processed>>
      /\ FilterStep \/ UNCHANGED handler
  BY DEF FilterGoal, vars, graph, extraction
<1>2. ASSUME pc = "goal" PROVE FilterInv(task.goal, relaxed)'
  <2>1. PICK F, D0 : F = task.goal /\ D0 = relaxed
    OBVIOUS
  <2>2. FilterInv(F, D0)
    BY <1>2, <2>1 DEF EstimateInv
  <2>3. FilterInv(F, D0)'
    BY <1>1, <2>2, FilterStepInv, FilterStutterInv
  <2>4. F = task'.goal /\ D0 = relaxed'
    BY <1>1, <2>1
  <2> QED BY <2>3, <2>4
<1> QED BY <1>1, <1>2 DEF EstimateInv, Building

LEMMA GoalCheckedEstimate ==
    ASSUME GraphInv, EstimateInv, SumsInOrder(task.goal), GoalChecked
    PROVE  EstimateInv'
<1>1. /\ pc = "goal" /\ csp = "done" /\ UNCHANGED <<task, effects, processed, h>>
      /\ \/ pc' = "select" /\ hmax' = layer /\ layer' = layer
         \/ ~Consistent /\ pc' = "process" /\ layer' = layer + 1 /\ hmax' = hmax
  BY DEF GoalChecked, AdvanceLayer
<1>2. /\ layer > 0 => NoGoalWithin(task, Level(effects, layer - 1))
      /\ h = 0 /\ hmax = 0 /\ IsFiniteSet(processed) /\ FilterInv(task.goal, relaxed)
  BY <1>1 DEF EstimateInv, Building
<1>3. layer \in Nat /\ relaxed = Level(effects, layer)
  BY <1>1 DEF GraphInv, AtomsOK, Completed
<1>4. CASE pc' = "select" /\ hmax' = layer /\ layer' = layer
  BY <1>1, <1>2, <1>4 DEF EstimateInv, Building
<1>5. CASE ~Consistent /\ pc' = "process" /\ layer' = layer + 1 /\ hmax' = hmax
  <2>1. Solutions(task.goal, relaxed) = {}
    BY <1>1, <1>2, <1>5, NoSolution DEF Consistent
  <2>2. NoGoalWithin(task, Level(effects, layer))
    BY <1>3, <2>1 DEF NoGoalWithin, Solutions
  <2>3. layer' - 1 = layer
    BY <1>3, <1>5
  <2>4. NoGoalWithin(task', Level(effects', layer' - 1))
    BY <1>1, <2>2, <2>3
  <2> QED BY <1>1, <1>2, <1>5, <2>4 DEF EstimateInv, Building
<1> QED BY <1>1, <1>4, <1>5

LEMMA ExtractionEstimate ==
    ASSUME EstimateInv, SelectValue \/ Propagated \/ AllSelected \/ ProcessAtom \/ BuildRelaxedPlan
    PROVE  EstimateInv'
<1>1. /\ UNCHANGED <<task, layer, effects, hmax>>
      /\ pc \notin {"start", "process", "goal", "done"} /\ pc' \notin {"start", "process", "goal"}
  BY DEF SelectValue, Propagated, AllSelected, ProcessAtom, BuildRelaxedPlan, graph
<1>2. h = 0 /\ IsFiniteSet(processed)
  BY <1>1 DEF EstimateInv
<1>3. IsFiniteSet(processed')
  <2>1. processed' = processed \/ \E atom : processed' = processed \cup {atom}
    BY DEF SelectValue, Propagated, AllSelected, ProcessAtom, BuildRelaxedPlan, extraction
  <2> QED BY <1>2, <2>1, FS_AddElement
<1>4. IF pc' = "done" THEN h' # -1 ELSE h' = 0
  <2>1. CASE BuildRelaxedPlan
    <3>1. Cardinality(processed) \in Nat
      BY <1>2, FS_CardinalityType
    <3> QED BY <2>1, <3>1 DEF BuildRelaxedPlan
  <2>2. CASE SelectValue \/ Propagated \/ AllSelected \/ ProcessAtom
    BY <1>1, <1>2, <2>2 DEF SelectValue, Propagated, AllSelected, ProcessAtom
  <2> QED BY <2>1, <2>2
<1> QED BY <1>1, <1>3, <1>4 DEF EstimateInv, Building

EInv == GInv /\ (FromVariables(task) /\ SumsInOrder(task.goal) => EstimateInv)

LEMMA EstimatesAlways == Spec => []EInv
<1>1. Init => EInv
  BY InitGraph, InitEstimate DEF EInv, GInv
<1>2. ASSUME EInv, GInv', [Next \/ Terminating]_vars PROVE EInv'
  <2>1. task' = task /\ task \in Tasks
    BY <1>2, TaskStays DEF EInv, GInv
  <2>2. ASSUME FromVariables(task), SumsInOrder(task.goal) PROVE EstimateInv'
    <3>1. GraphInv /\ GraphInv' /\ EstimateInv
      BY <1>2, <2>1, <2>2 DEF EInv, GInv
    <3> QED BY <1>2, <2>1, <2>2, <3>1, BeginEstimate, ProcessEstimate, LayerDoneEstimate,
               FilterGoalEstimate, GoalCheckedEstimate, ExtractionEstimate DEF Next, Terminating
  <2> QED BY <1>2, <2>1, <2>2 DEF EInv
<1> QED BY <1>1, <1>2, GraphAlways, PTL DEF Spec

LEMMA DeadEndsAreSafe ==
    ASSUME task \in Tasks, GraphInv, EstimateInv
    PROVE  SafeDeadEnds
<1> SUFFICES ASSUME pc = "done", h = -1, NEW s \in ReachedIn(Cardinality(Within(task.values)))
             PROVE  ~IsGoal(s)
  BY DEF SafeDeadEnds
<1> DEFINE D == Level(effects, layer)
           n == Cardinality(Within(task.values))
           L == [k \in 0..n |-> D]
<1>1. /\ AtomsOK(task, effects, layer) /\ LayersOK(task, effects, layer)
      /\ layer \in Nat /\ layer > 0 /\ D = Level(effects, layer - 1)
      /\ NoGoalWithin(task, Level(effects, layer - 1))
  BY DEF GraphInv, EstimateInv, Completed, AtomsOK
<1>2. n \in Nat
  BY StatesFinite
<1>3. DomainsOver(Vars, D) /\ \A v \in Vars : Seed[v] \in D[v]
  BY <1>1, LevelDomains DEF Seed
<1>4. NextLayer(task, D, Range(task.actions)) = D
  <2>1. Level(effects, layer) = NextLayer(task, Level(effects, layer - 1), Range(task.actions))
    BY <1>1 DEF LayersOK
  <2> QED BY <1>1, <2>1
<1>5. Seed \in Within(D)
  BY <1>3, TaskFacts, WithinIs DEF Seed
<1> HIDE DEF D, n
<1>6. ReachedIn(n) \subseteq Within(L[n])
  <2>1. \A k \in 0..n : DomainsOver(Vars, L[k])
    BY <1>3
  <2>2. Seed \in Within(L[0])
    <3>1. L[0] = D
      BY <1>2
    <3> HIDE DEF L
    <3> QED BY <1>5, <3>1
  <2>3. \A k \in 1..n : \A v \in Vars : NextLayer(task, L[k-1], Range(task.actions))[v] \subseteq L[k][v]
    <3> TAKE k \in 1..n
    <3>1. L[k] = D /\ L[k-1] = D
      BY <1>2
    <3> HIDE DEF L
    <3> QED BY <1>4, <3>1
  <2> HIDE DEF L
  <2> QED BY <1>2, <2>1, <2>2, <2>3, ReachedWithin
<1>7. L[n] = D
  BY <1>2
<1>8. s \in Within(D)
  <2> HIDE DEF L
  <2> QED BY <1>6, <1>7 DEF n
<1> QED BY <1>1, <1>8 DEF NoGoalWithin, IsGoal

LEMMA MaxEstimateIsSafe ==
    ASSUME task \in Tasks, GraphInv, EstimateInv, hmax > 0, NEW s \in ReachedIn(hmax - 1)
    PROVE  ~IsGoal(s)
<1> DEFINE L == [k \in 0..(layer - 1) |-> Level(effects, k)]
<1>1. /\ AtomsOK(task, effects, layer) /\ layer \in Nat /\ layer > 0 /\ hmax = layer
      /\ LayersOK(task, effects, layer - 1)
      /\ NoGoalWithin(task, Level(effects, layer - 1))
  <2>1. layer \in Nat /\ hmax = layer /\ pc # "process"
    BY DEF GraphInv, EstimateInv, Building, AtomsOK
  <2> QED BY <2>1 DEF GraphInv, EstimateInv, Completed, LayersOK
<1>2. \A k \in 0..(layer - 1) : L[k] = Level(effects, k) /\ DomainsOver(Vars, L[k])
  BY <1>1, LevelDomains
<1>3. 0 \in 0..(layer - 1) /\ layer - 1 \in 0..(layer - 1) /\ layer - 1 \in Nat
  BY <1>1
<1> HIDE DEF L
<1>4. Seed \in Within(L[0])
  <2>1. \A v \in Vars : Seed[v] \in L[0][v]
    BY <1>1, <1>2, <1>3, LevelDomains DEF Seed
  <2> QED BY <1>2, <1>3, <2>1, TaskFacts, WithinIs DEF Seed
<1>5. ASSUME NEW k \in 1..(layer - 1), NEW v \in Vars
      PROVE  NextLayer(task, L[k-1], Range(task.actions))[v] \subseteq L[k][v]
  <2>1. k \in 0..(layer - 1) /\ k - 1 \in 0..(layer - 1)
    BY <1>1
  <2>2. Level(effects, k) = NextLayer(task, Level(effects, k - 1), Range(task.actions))
    BY <1>1 DEF LayersOK
  <2> QED BY <1>2, <2>1, <2>2
<1>6. ReachedIn(layer - 1) \subseteq Within(L[layer - 1])
  BY <1>2, <1>3, <1>4, <1>5, ReachedWithin
<1>7. s \in Within(Level(effects, layer - 1))
  BY <1>1, <1>2, <1>3, <1>6
<1> QED BY <1>1, <1>7 DEF NoGoalWithin, IsGoal

\* A dead end is one, and the layer that DirectCHMax returns never exceeds the
\* distance to the goal: for every task whose effects read their variable
\* first and whose goal lists the terms of its sums in order.
THEOREM EstimatesAreSafe ==
    Spec => [](FromVariables(task) /\ SumsInOrder(task.goal) => EstimatesSafe)
<1>1. EInv => (FromVariables(task) /\ SumsInOrder(task.goal) => EstimatesSafe)
  BY DeadEndsAreSafe, MaxEstimateIsSafe DEF EInv, GInv, EstimatesSafe
<1> QED BY <1>1, EstimatesAlways, PTL

-----------------------------------------------------------------------------
(***************************************************************************)
(* What filter leaves.  A constraint relates the values that its formula   *)
(* relates: c holds between x, for the first variable of its scope, and y. *)
(***************************************************************************)
Meets(c, x, y) == IF c.op = "table" THEN <<x, y>> \in c.ext ELSE Holds(c.op, x, y)
Related(c, i, x, y) == IF i = 1 THEN Meets(c, x, y) ELSE Meets(c, y, x)

\* A formula that the translation keeps: no total that only its lower bound is
\* filtered for, no term that is lost because it is repeated or constant.
Plain(f) ==
    /\ f.op # "sum"
    /\ IsInjective(f.args)
    /\ f.op = "alldiff" => \A i \in DOMAIN f.args : f.args[i].var

ArcOperations == {"=", "!=", "<", "<=", "table"}

ArcFacts(f, c) ==
    /\ c.op \in ArcOperations
    /\ c.scope[1] \in Vars /\ c.scope[2] \in Vars /\ VarsOf(f) = {c.scope[1], c.scope[2]}
    /\ \A s : Satisfied(f, s) <=> Meets(c, s[c.scope[1]], s[c.scope[2]])
    /\ Plain(f) => c.scope[1] # c.scope[2]

\* An arc constraint is its formula.
LEMMA ArcExact ==
    ASSUME NEW f, Legal(f), Translate(f).type = "arc"
    PROVE  ArcFacts(f, Translate(f))
<1> DEFINE c == Translate(f)
<1>1. CASE f.op \in Relations
  <2> DEFINE l == f.args[1]
             r == f.args[2]
  <2>1. c = TranslateRelation(f)
    BY <1>1 DEF Translate, Relations
  <2>2. l.var /\ r.var /\ c = Constraint("arc", f.op, <<l.idx, r.idx>>, 0, {})
    <3>1. l.var /\ r.var
      <4> SUFFICES ASSUME ~ (l.var /\ r.var) PROVE FALSE
        OBVIOUS
      <4>1. c.type = "unary"
        BY <2>1 DEF TranslateRelation, Constraint
      <4> QED BY <4>1
    <3> QED BY <2>1, <3>1 DEF TranslateRelation
  <2>3. /\ l.idx \in VarsOf(f) /\ r.idx \in VarsOf(f) /\ VarsOf(f) \subseteq Vars
        /\ \A s : Satisfied(f, s) = Holds(f.op, s[l.idx], s[r.idx])
    BY <1>1, <2>2, RelationFacts DEF ValueOf, Legal
  <2>4. l \in Term /\ r \in Term /\ DOMAIN f.args = 1..2
    BY <1>1, LegalFacts
  <2>5. VarsOf(f) = {l.idx, r.idx}
    <3>1. ASSUME NEW x \in VarsOf(f) PROVE x = l.idx \/ x = r.idx
      <4>1. PICK i \in 1..2 : f.args[i].var /\ x = f.args[i].idx
        BY <2>4 DEF VarsOf
      <4>2. i = 1 \/ i = 2
        OBVIOUS
      <4> QED BY <4>1, <4>2
    <3> QED BY <2>3, <3>1
  <2>6. Plain(f) => l.idx # r.idx
    <3> SUFFICES ASSUME Plain(f), l.idx = r.idx PROVE FALSE
      OBVIOUS
    <3>1. l = r
      BY <2>2, <2>4 DEF Term
    <3>2. 1 \in DOMAIN f.args /\ 2 \in DOMAIN f.args
      BY <2>4
    <3> QED BY <3>1, <3>2 DEF Plain, IsInjective
  <2>7. c.op = f.op /\ c.scope[1] = l.idx /\ c.scope[2] = r.idx
    BY <2>2 DEF Constraint
  <2>8. c.op \in ArcOperations /\ c.op # "table"
    BY <1>1, <2>2, <2>7 DEF Legal, Supported, Relations, ArcOperations
  <2>9. \A s : Satisfied(f, s) <=> Meets(c, s[c.scope[1]], s[c.scope[2]])
    BY <2>3, <2>7, <2>8 DEF Meets
  <2> QED BY <2>3, <2>5, <2>6, <2>7, <2>8, <2>9 DEF ArcFacts
<1>2. CASE f.op = "table"
  <2> DEFINE q == ComputeDirectScope(f)
             n == Cardinality(VarsOf(f))
  <2>1. c = Constraint(IF Len(q) = 1 THEN "unary" ELSE "arc", "table", q, 0, f.ext)
    BY <1>2 DEF Translate, TranslateTable, Relations
  <2>2. Len(q) # 1 /\ c.op = "table" /\ c.scope = q /\ c.ext = f.ext
    BY <2>1 DEF Constraint
  <2>3. /\ n \in {1, 2} /\ q \in [1..n -> VarsOf(f)] /\ Len(q) = n
        /\ \A i, j \in 1..n : q[i] = q[j] => i = j
        /\ \A v \in VarsOf(f) : \E i \in 1..n : q[i] = v
    BY <1>2, LegalFacts, ScopeFacts DEF Legal, Supported, Relations
  <2>4. f.args = [i \in DOMAIN q |-> VarT(q[i])] /\ VarsOf(f) \subseteq Vars
    BY <1>2, LegalFacts DEF InScopeOrder, Legal
  <2> HIDE DEF c, q, n
  <2>5. n = 2
    BY <2>2, <2>3
  <2>6. q[1] # q[2] /\ q[1] \in VarsOf(f) /\ q[2] \in VarsOf(f) /\ DOMAIN q = 1..2
    BY <2>3, <2>5
  <2>7. VarsOf(f) = {q[1], q[2]}
    <3>1. ASSUME NEW v \in VarsOf(f) PROVE v = q[1] \/ v = q[2]
      <4>1. PICK i \in 1..2 : q[i] = v
        BY <2>3, <2>5
      <4>2. i = 1 \/ i = 2
        OBVIOUS
      <4> QED BY <4>1, <4>2
    <3> QED BY <2>6, <3>1
  <2>8. ASSUME NEW s PROVE Satisfied(f, s) <=> <<s[q[1]], s[q[2]]>> \in f.ext
    <3> DEFINE v == [i \in DOMAIN f.args |-> ValueOf(f.args[i], s)]
    <3>1. Satisfied(f, s) = (v \in f.ext)
      BY <1>2 DEF Satisfied, Relations
    <3>2. v = [i \in 1..2 |-> s[q[i]]]
      BY <2>4, <2>6 DEF ValueOf, VarT
    <3> HIDE DEF v
    <3>3. v = <<s[q[1]], s[q[2]]>>
      BY <3>2
    <3> QED BY <3>1, <3>3
  <2>9. ArcFacts(f, c)
    BY <2>2, <2>4, <2>6, <2>7, <2>8 DEF ArcFacts, Meets, ArcOperations
  <2> QED BY <2>9 DEF c
<1>3. CASE f.op \in {"alldiff", "sum"}
  <2>1. c.type = "custom"
    BY <1>3 DEF Translate, Constraint, Relations
  <2> QED BY <2>1
<1> QED BY <1>1, <1>2, <1>3, LegalFacts

\* Although the filters of the relations look at bounds only, they keep exactly
\* the values that have a partner.
LEMMA ArcKeptIs ==
    ASSUME NEW c, c.op \in ArcOperations, NEW i \in {1, 2}, NEW D \in SUBSET Int, NEW E \in SUBSET Int,
           IsFiniteSet(E), E # {}
    PROVE  ArcKept(c, i, D, E) = {x \in D : \E y \in E : Related(c, i, x, y)}
<1>1. PICK lo \in E, hi \in E : lo = Min(E) /\ hi = Max(E) /\ \A y \in E : lo <= y /\ y <= hi
  BY Bounds
<1>2. CASE c.op = "<"
  <2>1. \A x \in D : (\E y \in E : x < y) <=> x < hi
    BY <1>1
  <2>2. \A x \in D : (\E y \in E : y < x) <=> x > lo
    BY <1>1
  <2> QED BY <1>1, <1>2, <2>1, <2>2 DEF ArcKept, Related, Meets, Holds
<1>3. CASE c.op = "<="
  <2>1. \A x \in D : (\E y \in E : x <= y) <=> x <= hi
    BY <1>1
  <2>2. \A x \in D : (\E y \in E : y <= x) <=> x >= lo
    BY <1>1
  <2> QED BY <1>1, <1>3, <2>1, <2>2 DEF ArcKept, Related, Meets, Holds
<1>4. CASE c.op = "="
  BY <1>4 DEF ArcKept, Related, Meets, Holds
<1>5. CASE c.op = "!="
  <2>1. Cardinality(E) \in Nat /\ Cardinality(E) # 0
    BY FS_CardinalityType, FS_EmptySet
  <2>2. CASE Cardinality(E) >= 2
    <3>1. ASSUME NEW x \in D PROVE \E y \in E : x # y
      <4> SUFFICES ASSUME \A y \in E : x = y PROVE FALSE
        OBVIOUS
      <4>1. E = {x}
        OBVIOUS
      <4>2. Cardinality(E) = 1
        BY <4>1, FS_Singleton
      <4> QED BY <2>2, <4>2
    <3> QED BY <1>5, <2>2, <3>1 DEF ArcKept, Related, Meets, Holds
  <2>3. CASE ~ (Cardinality(E) >= 2)
    <3>1. Cardinality(E) = 1
      BY <2>1, <2>3
    <3>2. PICK e : E = {e}
      BY <3>1, FS_Singleton
    <3> QED BY <1>5, <2>3, <3>2 DEF ArcKept, Related, Meets, Holds
  <2> QED BY <2>2, <2>3
<1>6. CASE c.op = "table"
  BY <1>6 DEF ArcKept, Related, Meets
<1> QED BY <1>2, <1>3, <1>4, <1>5, <1>6 DEF ArcOperations

\* Equal single values fail: the second of them has no room.
LEMMA PassDecides ==
    ASSUME NEW n \in Nat, NEW D, DomainsOver(1..n, D), NEW o \in SortVariables(D),
           NEW w, \A v \in 1..n : D[v] = {w[v]}, ~BoundsConsistency(D, o).failed
    PROVE  \A u, v \in 1..n : w[u] = w[v] => u = v
<1> DEFINE P  == 1..n
           lo == [i \in P |-> Min(D[o[i]])]
           hi == [i \in P |-> Max(D[o[i]])]
<1>1. DOMAIN D = P /\ D \in [P -> SUBSET Int] /\ \A v \in P : D[v] # {} /\ IsFiniteSet(D[v])
  BY DEF DomainsOver
<1>2. ~Overfull(P, lo, hi)
  BY <1>1, BoundsConsistencyIs
<1>3. o \in [P -> P] /\ (\A q, r \in P : o[q] = o[r] => q = r) /\ \A v \in P : \E q \in P : o[q] = v
  BY <1>1 DEF SortVariables, Bijection, Injection, Surjection, IsInjective
<1>4. \A i, j \in P : i < j => Max(D[o[i]]) <= Max(D[o[j]])
  BY <1>1 DEF SortVariables
<1>5. \A v \in P : w[v] \in Int /\ Min(D[v]) = w[v] /\ Max(D[v]) = w[v]
  <2> TAKE v \in P
  <2>1. Min(D[v]) \in D[v] /\ Max(D[v]) \in D[v] /\ D[v] \subseteq Int
    BY <1>1, Bounds
  <2> QED BY <2>1
<1>6. \A i \in P : lo[i] = w[o[i]] /\ hi[i] = w[o[i]] /\ lo[i] \in Int /\ o[i] \in P
  BY <1>3, <1>5
<1>8. Sorted(n, lo, hi)
  BY PassSorted
<1> HIDE DEF lo, hi
<1>9. ASSUME NEW i \in P, NEW j \in P, j < i, w[o[i]] = w[o[j]] PROVE FALSE
  <2>1. i \in Candidates(P, lo, i)
    BY DEF Candidates
  <2>2. Upper(P, lo, i, i) > hi[i]
    <3>1. j \in Earlier(P, lo, i)
      BY <1>6, <1>9 DEF Earlier
    <3>2. IsFiniteSet(P)
      BY FS_Interval
    <3>3. IsFiniteSet(Earlier(P, lo, i)) /\ IsFiniteSet(Later(P, lo, i, i))
      <4>1. Earlier(P, lo, i) \subseteq P /\ Later(P, lo, i, i) \subseteq P
        BY DEF Earlier, Later
      <4> QED BY <3>2, <4>1, FS_Subset
    <3>4. PICK e, l : e = Cardinality(Earlier(P, lo, i)) /\ l = Cardinality(Later(P, lo, i, i))
      OBVIOUS
    <3>5. e \in Nat /\ l \in Nat /\ e # 0
      BY <3>1, <3>3, <3>4, FS_CardinalityType, FS_EmptySet
    <3>6. Upper(P, lo, i, i) = lo[i] + e + l
      BY <3>4 DEF Upper
    <3> QED BY <1>6, <3>5, <3>6
  <2> QED BY <1>2, <2>1, <2>2 DEF Overfull
<1>10. ASSUME NEW u \in P, NEW v \in P, w[u] = w[v], u # v PROVE FALSE
  <2>1. (\E i \in P : o[i] = u) /\ (\E j \in P : o[j] = v)
    <3> HIDE DEF P
    <3> QED BY <1>3
  <2>2. PICK i \in P, j \in P : o[i] = u /\ o[j] = v
    BY <2>1
  <2>3. i < j \/ j < i
    BY <1>10, <2>2
  <2> QED BY <1>9, <1>10, <2>2, <2>3
<1> QED BY <1>10 DEF P

LEMMA AlldiffDecides ==
    ASSUME NEW n \in Nat, NEW D, DomainsOver(1..n, D), NEW E \in FilterAlldiff(D), ~E.failed,
           NEW w, \A v \in 1..n : D[v] = {w[v]}
    PROVE  \A u, v \in 1..n : w[u] = w[v] => u = v
<1>1. PICK o \in SortVariables(D) :
        \/ BoundsConsistency(D, o).failed /\ E = BoundsConsistency(D, o)
        \/ ~BoundsConsistency(D, o).failed
  BY DEF FilterAlldiff
<1>2. ~BoundsConsistency(D, o).failed
  BY <1>1
<1> QED BY <1>2, PassDecides

-----------------------------------------------------------------------------
(***************************************************************************)
(* Alldiff prunes enough: Hall's theorem for intervals.  The members of    *)
(* a..b are the positions whose values all lie in a..b.  If no interval    *)
(* has more members than values, there are different values within the     *)
(* bounds; one position v may be given value x first if no interval that   *)
(* has x and is filled by its members is without v.                        *)
(***************************************************************************)
Members(n, lo, hi, a, b) == {k \in 1..n : a <= lo[k] /\ hi[k] <= b}
Ranges(n, lo, hi) ==
    /\ n \in Nat /\ lo \in [1..n -> Int] /\ hi \in [1..n -> Int]
    /\ \A k \in 1..n : lo[k] <= hi[k]
Roomy(n, lo, hi) ==
    \A a, b \in Int : a <= b => Cardinality(Members(n, lo, hi, a, b)) <= b - a + 1
Tight(n, lo, hi, a, b) == Cardinality(Members(n, lo, hi, a, b)) = b - a + 1
Free(n, lo, hi, v, x) ==
    /\ lo[v] <= x /\ x <= hi[v]
    /\ \A a, b \in Int : a <= x /\ x <= b /\ v \notin Members(n, lo, hi, a, b) => ~Tight(n, lo, hi, a, b)

LEMMA MembersFacts ==
    ASSUME NEW n, NEW lo, NEW hi, Ranges(n, lo, hi), NEW a \in Int, NEW b \in Int
    PROVE  LET M == Members(n, lo, hi, a, b)
           IN  /\ M \subseteq 1..n /\ IsFiniteSet(M) /\ Cardinality(M) \in Nat
               /\ \A k \in M : k \in Int /\ a <= lo[k] /\ lo[k] <= hi[k] /\ hi[k] <= b
               /\ b < a => M = {} /\ Cardinality(M) = 0
<1> DEFINE M == Members(n, lo, hi, a, b)
<1>1. n \in Nat /\ lo \in [1..n -> Int] /\ hi \in [1..n -> Int] /\ \A k \in 1..n : lo[k] <= hi[k]
  BY DEF Ranges
<1>2. M \subseteq 1..n /\ \A k \in M : k \in Int /\ a <= lo[k] /\ lo[k] <= hi[k] /\ hi[k] <= b
  BY <1>1 DEF Members
<1>3. IsFiniteSet(1..n)
  BY <1>1, FS_Interval
<1>4. IsFiniteSet(M) /\ Cardinality(M) \in Nat
  BY <1>2, <1>3, FS_Subset, FS_CardinalityType
<1>5. ASSUME b < a PROVE M = {}
  <2> SUFFICES ASSUME NEW k \in M PROVE FALSE
    OBVIOUS
  <2>1. lo[k] \in Int /\ hi[k] \in Int /\ a <= lo[k] /\ lo[k] <= hi[k] /\ hi[k] <= b
    BY <1>1, <1>2
  <2> QED BY <1>5, <2>1
<1> QED BY <1>2, <1>4, <1>5, FS_EmptySet

\* The members of an interval are a crowd.
LEMMA CrowdOf ==
    ASSUME NEW n, NEW lo, NEW hi, Sorted(n, lo, hi), NEW a \in Int, NEW b \in Int,
           Members(n, lo, hi, a, b) # {}
    PROVE  \E i \in 1..n : \E c \in Candidates(1..n, lo, i) :
              /\ Members(n, lo, hi, a, b) = Crowd(1..n, lo, c, i)
              /\ c \in Members(n, lo, hi, a, b) /\ i \in Members(n, lo, hi, a, b)
<1> DEFINE M == Members(n, lo, hi, a, b)
<1>1. /\ n \in Nat /\ lo \in [1..n -> Int] /\ hi \in [1..n -> Int]
      /\ \A k \in 1..n : lo[k] <= hi[k]
      /\ \A j, k \in 1..n : j < k => hi[j] <= hi[k]
  BY DEF Sorted
<1>2. M \subseteq 1..n /\ IsFiniteSet(M) /\ M \subseteq Int
  BY <1>1, MembersFacts DEF Ranges
<1>3. PICK i \in M : \A k \in M : k <= i
  BY <1>2, Bounds
<1> DEFINE V == {lo[k] : k \in M}
<1>4. PICK m \in V : \A k \in M : m <= lo[k]
  <2>1. V \subseteq Int /\ V # {}
    BY <1>1, <1>2
  <2>2. IsFiniteSet(V)
    <3> DEFINE g == [k \in M |-> lo[k]]
    <3>1. g \in Surjection(M, V)
      BY DEF Surjection
    <3> QED BY <1>2, <3>1, FS_Surjection
  <2>3. Min(V) \in V /\ \A x \in V : Min(V) <= x
    <3> HIDE DEF V
    <3> QED BY <2>1, <2>2, Bounds
  <2> QED BY <2>3
<1> DEFINE L == {k \in M : lo[k] = m}
<1>5. PICK c \in L : \A k \in L : k <= c
  <2>1. L \subseteq M /\ L # {}
    OBVIOUS
  <2>2. IsFiniteSet(L) /\ L \subseteq Int
    BY <1>2, <2>1, FS_Subset
  <2>3. Max(L) \in L /\ \A k \in L : k <= Max(L)
    <3> HIDE DEF L
    <3> QED BY <2>1, <2>2, Bounds
  <2> QED BY <2>3
<1>6. c \in M /\ lo[c] = m /\ m \in Int /\ c <= i /\ c \in 1..n /\ i \in 1..n
  BY <1>1, <1>2, <1>3, <1>5
<1>7. c \in Candidates(1..n, lo, i)
  <2>1. CASE c = i
    BY <2>1 DEF Candidates
  <2>2. CASE c # i
    <3>1. c < i
      BY <1>6, <2>2
    <3>2. lo[i] # m
      BY <1>3, <1>5, <1>6, <3>1
    <3>3. lo[c] < lo[i]
      BY <1>1, <1>3, <1>4, <1>6, <3>2
    <3> QED BY <1>6, <3>1, <3>3 DEF Candidates
  <2> QED BY <2>1, <2>2
<1>8. ASSUME NEW k \in Crowd(1..n, lo, c, i) PROVE k \in M
  <2>1. k \in 1..n /\ lo[c] <= lo[k] /\ hi[k] <= hi[i]
    BY <1>6, <1>7, CrowdFacts
  <2>2. a <= lo[c] /\ hi[i] <= b
    BY <1>3, <1>6 DEF Members
  <2>3. lo[c] \in Int /\ lo[k] \in Int /\ hi[k] \in Int /\ hi[i] \in Int
    BY <1>1, <1>6, <2>1
  <2> QED BY <2>1, <2>2, <2>3 DEF Members
<1>9. ASSUME NEW k \in M PROVE k \in Crowd(1..n, lo, c, i)
  <2>1. k \in 1..n /\ k <= i /\ m <= lo[k] /\ lo[k] \in Int
    BY <1>1, <1>2, <1>3, <1>4
  <2>2. CASE k = c
    BY <2>2 DEF Crowd
  <2>3. CASE k < c
    BY <1>6, <2>1, <2>3 DEF Crowd, Earlier
  <2>4. CASE c < k
    <3>1. lo[k] # m
      BY <1>5, <1>6, <2>1, <2>4
    <3> QED BY <1>6, <2>1, <2>4, <3>1 DEF Crowd, Later
  <2> QED BY <1>6, <2>1, <2>2, <2>3, <2>4
<1>10. M = Crowd(1..n, lo, c, i)
  BY <1>8, <1>9
<1> QED BY <1>3, <1>6, <1>7, <1>10

\* The bounds are roomy if no crowd is overfull.
LEMMA RoomyIs ==
    ASSUME NEW n, NEW lo, NEW hi, Sorted(n, lo, hi), ~Overfull(1..n, lo, hi)
    PROVE  Ranges(n, lo, hi) /\ Roomy(n, lo, hi)
<1>1. Ranges(n, lo, hi)
  BY DEF Sorted, Ranges
<1> SUFFICES ASSUME NEW a \in Int, NEW b \in Int, a <= b
             PROVE  Cardinality(Members(n, lo, hi, a, b)) <= b - a + 1
  BY <1>1 DEF Roomy
<1> DEFINE M == Members(n, lo, hi, a, b)
<1>2. CASE M = {}
  BY <1>2, FS_EmptySet
<1>3. CASE M # {}
  <2>0. PICK i \in 1..n : \E c \in Candidates(1..n, lo, i) :
           M = Crowd(1..n, lo, c, i) /\ c \in M /\ i \in M
    BY <1>3, CrowdOf
  <2>1. PICK c \in Candidates(1..n, lo, i) : M = Crowd(1..n, lo, c, i) /\ c \in M /\ i \in M
    BY <2>0
  <2>2. Upper(1..n, lo, c, i) = lo[c] + Cardinality(M) - 1 /\ Cardinality(M) \in Nat
    BY <2>1, CrowdFacts
  <2>3. a <= lo[c] /\ hi[i] <= b /\ lo[c] \in Int /\ hi[i] \in Int
    BY <1>1, <2>1 DEF Members, Ranges
  <2>4. ~ (Upper(1..n, lo, c, i) > hi[i])
    BY DEF Overfull
  <2>5. PICK m : m = Cardinality(M)
    OBVIOUS
  <2>6. m <= b - a + 1
    BY <2>2, <2>3, <2>4, <2>5
  <2> QED BY <2>5, <2>6
<1> QED BY <1>2, <1>3

\* The positions whose values start in a filled interval and do not all lie in
\* it are raised above it.
LEMMA TightRaises ==
    ASSUME NEW n, NEW lo, NEW hi, Sorted(n, lo, hi), ~Overfull(1..n, lo, hi),
           NEW a \in Int, NEW b \in Int, a <= b, Tight(n, lo, hi, a, b),
           NEW j \in 1..n, j \notin Members(n, lo, hi, a, b), a <= lo[j]
    PROVE  \E i \in 1..n : Raised(1..n, lo, hi, i, j) /\ hi[i] = b
<1> DEFINE M == Members(n, lo, hi, a, b)
<1>1. Ranges(n, lo, hi) /\ Roomy(n, lo, hi)
  BY RoomyIs
<1>2. M \subseteq 1..n /\ IsFiniteSet(M) /\ Cardinality(M) \in Nat /\ Cardinality(M) = b - a + 1
  BY <1>1, MembersFacts DEF Tight
<1>3. M # {}
  BY <1>2, FS_EmptySet
<1>3a. PICK i \in 1..n : \E c \in Candidates(1..n, lo, i) :
         M = Crowd(1..n, lo, c, i) /\ c \in M /\ i \in M
  BY <1>3, CrowdOf
<1>4. PICK c \in Candidates(1..n, lo, i) : M = Crowd(1..n, lo, c, i) /\ c \in M /\ i \in M
  BY <1>3a
<1>5. /\ Upper(1..n, lo, c, i) = lo[c] + Cardinality(M) - 1 /\ c \in 1..n
      /\ \A k \in M : k <= i /\ lo[c] <= lo[k] /\ hi[k] <= hi[i]
  BY <1>4, CrowdFacts
<1>6. a <= lo[c] /\ hi[i] <= b /\ lo[c] \in Int /\ hi[i] \in Int
  BY <1>1, <1>4 DEF Members, Ranges
<1> DEFINE R == Members(n, lo, hi, lo[c], hi[i])
<1>7. R \subseteq 1..n /\ IsFiniteSet(R) /\ Cardinality(R) \in Nat
  BY <1>1, <1>6, MembersFacts
<1>8. M \subseteq R
  BY <1>2, <1>5 DEF Members
<1>9. lo[c] <= hi[i]
  <2>1. lo[c] <= lo[i] /\ lo[i] <= hi[i] /\ lo[i] \in Int
    BY <1>1, <1>4, <1>5 DEF Ranges
  <2> QED BY <1>6, <2>1
<1>10. Cardinality(R) <= hi[i] - lo[c] + 1
  BY <1>1, <1>6, <1>9 DEF Roomy
<1> HIDE DEF M, R
<1>11. Cardinality(M) <= Cardinality(R)
  BY <1>7, <1>8, FS_Subset
<1>12. lo[c] = a /\ hi[i] = b
  BY <1>2, <1>6, <1>7, <1>10, <1>11
<1>13. Upper(1..n, lo, c, i) = hi[i]
  BY <1>2, <1>5, <1>12
<1>14. a \in Halls(1..n, lo, hi, i)
  BY <1>12, <1>13 DEF Halls
<1>15. Min(Halls(1..n, lo, hi, i)) <= a /\ Min(Halls(1..n, lo, hi, i)) \in Int
  BY <1>14, HallsFacts, Bounds
<1>16. i < j
  <2>1. b < hi[j] /\ hi[j] \in Int
    BY <1>1 DEF Ranges, Members
  <2>2. j < i => hi[j] <= hi[i]
    BY DEF Sorted
  <2>3. i \in Int /\ j \in Int
    BY <1>1 DEF Ranges
  <2> QED BY <1>12, <2>1, <2>2, <2>3
<1>17. lo[j] \in Int
  BY <1>1 DEF Ranges
<1>18. Raised(1..n, lo, hi, i, j)
  BY <1>14, <1>15, <1>16, <1>17 DEF Raised
<1> QED BY <1>12, <1>18

\* Two filled intervals that touch fill their union, and leave out what both
\* leave out.
LEMMA TightUnion ==
    ASSUME NEW n, NEW lo, NEW hi, Ranges(n, lo, hi), Roomy(n, lo, hi),
           NEW a \in Int, NEW b \in Int, NEW c \in Int, NEW d \in Int,
           a <= c, c <= b + 1, b < d, a <= b, c <= d,
           Tight(n, lo, hi, a, b), Tight(n, lo, hi, c, d),
           NEW v \in 1..n, v \notin Members(n, lo, hi, a, b), v \notin Members(n, lo, hi, c, d)
    PROVE  Tight(n, lo, hi, a, d) /\ v \notin Members(n, lo, hi, a, d)
<1> DEFINE S == Members(n, lo, hi, a, b)
           T == Members(n, lo, hi, c, d)
           R == Members(n, lo, hi, c, b)
           U == Members(n, lo, hi, a, d)
<1>1. /\ IsFiniteSet(S) /\ Cardinality(S) \in Nat /\ IsFiniteSet(T) /\ Cardinality(T) \in Nat
      /\ IsFiniteSet(R) /\ Cardinality(R) \in Nat /\ IsFiniteSet(U) /\ Cardinality(U) \in Nat
      /\ b < c => Cardinality(R) = 0
  BY MembersFacts
<1>2. Cardinality(S) = b - a + 1 /\ Cardinality(T) = d - c + 1
  BY DEF Tight
<1>3. Cardinality(R) <= b - c + 1
  <2>1. c <= b => Cardinality(R) <= b - c + 1
    BY DEF Roomy
  <2>2. b < c => b - c + 1 = 0
    OBVIOUS
  <2> QED BY <1>1, <2>1, <2>2
<1>4. Cardinality(U) <= d - a + 1
  BY DEF Roomy
<1>5. lo \in [1..n -> Int] /\ hi \in [1..n -> Int]
  BY DEF Ranges
<1>6. S \cap T = R
  BY <1>5 DEF Members
<1>7. S \cup T \subseteq U
  BY <1>5 DEF Members
<1> HIDE DEF S, T, R, U
<1>8. IsFiniteSet(S \cup T) /\ Cardinality(S \cup T) = Cardinality(S) + Cardinality(T) - Cardinality(R)
  BY <1>1, <1>6, FS_Union
<1>9. Cardinality(S \cup T) >= d - a + 1 /\ Cardinality(S \cup T) \in Int
  BY <1>1, <1>2, <1>3, <1>8
<1>10. /\ Cardinality(S \cup T) <= Cardinality(U)
       /\ Cardinality(U) = Cardinality(S \cup T) => U = S \cup T
  BY <1>1, <1>7, FS_Subset
<1>11. Cardinality(U) = d - a + 1 /\ U = S \cup T
  BY <1>1, <1>4, <1>9, <1>10
<1>12. v \notin U
  BY <1>11 DEF S, T
<1> QED BY <1>11, <1>12 DEF U, Tight

\* Some value is free for each position.
LEMMA FreeExists ==
    ASSUME NEW n, NEW lo, NEW hi, Ranges(n, lo, hi), Roomy(n, lo, hi), NEW v \in 1..n
    PROVE  \E x \in Int : Free(n, lo, hi, v, x)
<1> DEFINE Without(a, b) == Tight(n, lo, hi, a, b) /\ v \notin Members(n, lo, hi, a, b)
           B == {b \in lo[v]..hi[v] : \E a \in Int : a <= lo[v] /\ Without(a, b)}
<1>1. lo[v] \in Int /\ hi[v] \in Int /\ lo[v] <= hi[v]
  BY DEF Ranges
<1>2. \A a, b \in Int : a <= lo[v] /\ v \notin Members(n, lo, hi, a, b) => b < hi[v]
  BY <1>1 DEF Members
<1>3. CASE B = {}
  <2>1. ASSUME NEW a \in Int, NEW b \in Int, a <= lo[v], lo[v] <= b, Without(a, b) PROVE FALSE
    <3>1. b \in lo[v]..hi[v]
      BY <1>1, <1>2, <2>1
    <3> QED BY <1>3, <2>1, <3>1
  <2>2. Free(n, lo, hi, v, lo[v])
    BY <1>1, <2>1 DEF Free
  <2> QED BY <1>1, <2>2
<1>4. CASE B # {}
  <2>1. B \subseteq Int /\ IsFiniteSet(B)
    <3>1. IsFiniteSet(lo[v]..hi[v])
      BY <1>1, FS_Interval
    <3>2. B \subseteq lo[v]..hi[v]
      OBVIOUS
    <3>3. B \subseteq Int
      BY <1>1
    <3> HIDE DEF B
    <3>4. IsFiniteSet(B)
      BY <3>1, <3>2, FS_Subset
    <3> QED BY <3>3, <3>4
  <2>2. PICK b \in B : \A y \in B : y <= b
    <3> HIDE DEF B
    <3> QED BY <1>4, <2>1, Bounds
  <2>3. PICK a \in Int : a <= lo[v] /\ Without(a, b)
    BY <2>2
  <2>4. b \in Int /\ lo[v] <= b /\ b < hi[v]
    BY <1>1, <1>2, <2>2, <2>3
  <2>5. ASSUME NEW c \in Int, NEW d \in Int, c <= b + 1, b + 1 <= d, Without(c, d) PROVE FALSE
    <3>1. \A e \in Int : e <= lo[v] => ~Without(e, d)
      <4> SUFFICES ASSUME NEW e \in Int, e <= lo[v], Without(e, d) PROVE FALSE
        OBVIOUS
      <4>1. d < hi[v]
        BY <1>2
      <4>2. d \in B
        BY <1>1, <2>4, <2>5, <4>1
      <4> QED BY <2>2, <2>4, <2>5, <4>2
    <3>2. lo[v] < c
      BY <1>1, <2>5, <3>1
    <3>3. Without(a, d)
      BY <1>1, <2>3, <2>4, <2>5, <3>2, TightUnion
    <3> QED BY <2>3, <3>1, <3>3
  <2>6. Free(n, lo, hi, v, b + 1)
    BY <1>1, <2>4, <2>5 DEF Free
  <2> QED BY <2>4, <2>6
<1> QED BY <1>3, <1>4

\* Position v has value x.
Fixed(f, v, x) == [f EXCEPT ![v] = x]

\* Giving a position a free value leaves the others enough room.
LEMMA FixKeeps ==
    ASSUME NEW n, NEW lo, NEW hi, Ranges(n, lo, hi), Roomy(n, lo, hi), NEW v \in 1..n,
           NEW x \in Int, Free(n, lo, hi, v, x)
    PROVE  Ranges(n, Fixed(lo, v, x), Fixed(hi, v, x)) /\ Roomy(n, Fixed(lo, v, x), Fixed(hi, v, x))
<1> DEFINE low == Fixed(lo, v, x)
           high == Fixed(hi, v, x)
<1>1. /\ n \in Nat /\ lo \in [1..n -> Int] /\ hi \in [1..n -> Int]
      /\ \A k \in 1..n : lo[k] <= hi[k]
  BY DEF Ranges
<1>2. /\ low \in [1..n -> Int] /\ high \in [1..n -> Int] /\ low[v] = x /\ high[v] = x
      /\ \A k \in 1..n : k # v => low[k] = lo[k] /\ high[k] = hi[k]
  BY <1>1 DEF Fixed
<1> HIDE DEF low, high
<1>3. Ranges(n, low, high)
  <2>1. \A k \in 1..n : low[k] <= high[k]
    BY <1>1, <1>2
  <2> QED BY <1>1, <1>2, <2>1 DEF Ranges
<1>4. ASSUME NEW a \in Int, NEW b \in Int, a <= b
      PROVE  Cardinality(Members(n, low, high, a, b)) <= b - a + 1
  <2> DEFINE M == Members(n, lo, hi, a, b)
             L == Members(n, low, high, a, b)
  <2>1. IsFiniteSet(M) /\ Cardinality(M) \in Nat /\ Cardinality(M) <= b - a + 1
    BY <1>4, MembersFacts DEF Roomy
  <2>2. L \subseteq M \cup {v} /\ (v \in L => a <= x /\ x <= b)
    BY <1>2 DEF Members
  <2>3. CASE v \in M \/ v \notin L
    <3>1. L \subseteq M
      BY <2>2, <2>3
    <3>2. Cardinality(L) <= Cardinality(M)
      BY <2>1, <3>1, FS_Subset
    <3>3. IsFiniteSet(L) /\ Cardinality(L) \in Nat
      BY <1>3, MembersFacts
    <3> QED BY <2>1, <3>2, <3>3
  <2>4. CASE v \notin M /\ v \in L
    <3>1. ~Tight(n, lo, hi, a, b)
      BY <2>2, <2>4 DEF Free
    <3>2. Cardinality(M) <= b - a
      BY <2>1, <3>1 DEF Tight
    <3>3. IsFiniteSet(M \cup {v}) /\ Cardinality(M \cup {v}) = Cardinality(M) + 1
      BY <2>1, <2>4, FS_AddElement
    <3>4. Cardinality(L) <= Cardinality(M \cup {v})
      BY <2>2, <3>3, FS_Subset
    <3>5. IsFiniteSet(L) /\ Cardinality(L) \in Nat
      BY <1>3, MembersFacts
    <3> QED BY <2>1, <3>2, <3>3, <3>4, <3>5
  <2> QED BY <2>3, <2>4
<1> QED BY <1>3, <1>4 DEF low, high, Roomy

\* The first k positions have their values.
Settled(n, lo, hi, k, low, high) ==
    /\ Ranges(n, low, high) /\ Roomy(n, low, high)
    /\ \A j \in 1..n : lo[j] <= low[j] /\ high[j] <= hi[j] /\ (j <= k => low[j] = high[j])

LEMMA FitsExists ==
    ASSUME NEW n, NEW lo, NEW hi, Ranges(n, lo, hi), Roomy(n, lo, hi)
    PROVE  \E w : Fits(n, lo, hi, w)
<1> DEFINE N == {k \in Nat : k <= n => \E low, high : Settled(n, lo, hi, k, low, high)}
<1>1. n \in Nat /\ \A j \in 1..n : lo[j] \in Int /\ hi[j] \in Int
  BY DEF Ranges
<1>2. 0 \in N
  <2>1. Settled(n, lo, hi, 0, lo, hi)
    BY <1>1 DEF Settled
  <2> QED BY <2>1
<1>3. ASSUME NEW k \in N PROVE k + 1 \in N
  <2> SUFFICES ASSUME k + 1 <= n PROVE \E low, high : Settled(n, lo, hi, k + 1, low, high)
    OBVIOUS
  <2>1. k \in Nat /\ k <= n /\ k + 1 \in 1..n
    BY <1>1
  <2>2. PICK low, high : Settled(n, lo, hi, k, low, high)
    BY <2>1
  <2>3. Ranges(n, low, high) /\ Roomy(n, low, high)
    BY <2>2 DEF Settled
  <2>4. PICK x \in Int : Free(n, low, high, k + 1, x)
    BY <2>1, <2>3, FreeExists
  <2> DEFINE low2 == Fixed(low, k + 1, x)
             high2 == Fixed(high, k + 1, x)
  <2>5. Ranges(n, low2, high2) /\ Roomy(n, low2, high2)
    BY <2>1, <2>3, <2>4, FixKeeps
  <2>6. low[k + 1] <= x /\ x <= high[k + 1]
    BY <2>4 DEF Free
  <2>7. low \in [1..n -> Int] /\ high \in [1..n -> Int]
    BY <2>3 DEF Ranges
  <2>8. /\ low2[k + 1] = x /\ high2[k + 1] = x
        /\ \A j \in 1..n : j # k + 1 => low2[j] = low[j] /\ high2[j] = high[j]
    BY <2>1, <2>7 DEF Fixed
  <2> HIDE DEF low2, high2
  <2>9. ASSUME NEW j \in 1..n PROVE lo[j] <= low2[j] /\ high2[j] <= hi[j] /\ (j <= k + 1 => low2[j] = high2[j])
    <3>1. lo[j] <= low[j] /\ high[j] <= hi[j] /\ (j <= k => low[j] = high[j]) /\ low[j] \in Int /\ high[j] \in Int
      BY <2>2, <2>7 DEF Settled
    <3>2. lo[j] \in Int /\ hi[j] \in Int
      BY <1>1
    <3>3. CASE j = k + 1
      BY <2>6, <2>8, <3>1, <3>2, <3>3
    <3>4. CASE j # k + 1
      BY <2>1, <2>8, <3>1, <3>4
    <3> QED BY <3>3, <3>4
  <2> QED BY <2>5, <2>9 DEF Settled
<1>4. N = Nat
  <2> HIDE DEF N
  <2>1. N \subseteq Nat
    BY DEF N
  <2> QED BY <1>2, <1>3, <2>1, Induction
<1>5. PICK low, high : Settled(n, lo, hi, n, low, high)
  BY <1>1, <1>4
<1>6. /\ Ranges(n, low, high) /\ Roomy(n, low, high) /\ low \in [1..n -> Int] /\ high \in [1..n -> Int]
      /\ \A j \in 1..n : lo[j] <= low[j] /\ low[j] <= hi[j] /\ low[j] = high[j]
  BY <1>1, <1>5 DEF Settled, Ranges
<1>7. ASSUME NEW j \in 1..n, NEW k \in 1..n, low[j] = low[k], j # k PROVE FALSE
  <2> DEFINE x == low[j]
             M == Members(n, low, high, x, x)
  <2>1. x \in Int /\ {j, k} \subseteq M
    BY <1>6, <1>7 DEF Members
  <2>2. IsFiniteSet(M) /\ Cardinality(M) \in Nat
    BY <1>6, <2>1, MembersFacts
  <2>3. Cardinality(M) <= x - x + 1
    BY <1>6, <2>1 DEF Roomy
  <2> HIDE DEF M, x
  <2>4. Cardinality({j, k}) = 2
    <3>1. Cardinality({j}) = 1 /\ IsFiniteSet({j})
      BY FS_Singleton
    <3>2. k \notin {j}
      BY <1>7
    <3> DEFINE one == {j}
    <3> HIDE DEF one
    <3>3. Cardinality(one \cup {k}) = Cardinality(one) + 1
      BY <3>1, <3>2, FS_AddElement DEF one
    <3>4. Cardinality({j} \cup {k}) = 2
      BY <3>1, <3>3 DEF one
    <3>5. {j} \cup {k} = {j, k}
      OBVIOUS
    <3> QED BY <3>4, <3>5
  <2>5. Cardinality({j, k}) <= Cardinality(M)
    BY <2>1, <2>2, FS_Subset
  <2> QED BY <2>1, <2>2, <2>3, <2>4, <2>5
<1>8. Fits(n, lo, hi, low)
  BY <1>6, <1>7 DEF Fits
<1> QED BY <1>8

\* A position may take each value that is free for it.
LEMMA FreeFits ==
    ASSUME NEW n, NEW lo, NEW hi, Ranges(n, lo, hi), Roomy(n, lo, hi), NEW v \in 1..n,
           NEW x \in Int, Free(n, lo, hi, v, x)
    PROVE  \E w : Fits(n, lo, hi, w) /\ w[v] = x
<1> DEFINE low == Fixed(lo, v, x)
           high == Fixed(hi, v, x)
<1>1. Ranges(n, low, high) /\ Roomy(n, low, high)
  BY FixKeeps
<1>2. lo \in [1..n -> Int] /\ hi \in [1..n -> Int] /\ lo[v] <= x /\ x <= hi[v]
  BY DEF Ranges, Free
<1>3. /\ low[v] = x /\ high[v] = x
      /\ \A k \in 1..n : k # v => low[k] = lo[k] /\ high[k] = hi[k]
  BY <1>2 DEF Fixed
<1> HIDE DEF low, high
<1>4. PICK w : Fits(n, low, high, w)
  BY <1>1, FitsExists
<1>5. \A k \in 1..n : w[k] \in Int /\ low[k] <= w[k] /\ w[k] <= high[k]
  BY <1>4 DEF Fits
<1>6. w[v] = x
  <2>1. w[v] \in Int /\ x <= w[v] /\ w[v] <= x
    BY <1>3, <1>5
  <2> QED BY <2>1
<1>7. \A k \in 1..n : lo[k] <= w[k] /\ w[k] <= hi[k]
  <2> TAKE k \in 1..n
  <2>1. CASE k = v
    BY <1>2, <1>6, <2>1
  <2>2. CASE k # v
    BY <1>3, <1>5, <2>2
  <2> QED BY <2>1, <2>2
<1>8. Fits(n, lo, hi, w)
  BY <1>4, <1>7 DEF Fits
<1> QED BY <1>6, <1>8

\* The least value x that one pass leaves to position v is free for it.
LEMMA RaisedIsFree ==
    ASSUME NEW n, NEW lo, NEW hi, Sorted(n, lo, hi), ~Overfull(1..n, lo, hi), NEW v \in 1..n,
           NEW x \in Int, lo[v] <= x, x <= hi[v],
           \A i \in 1..n : Raised(1..n, lo, hi, i, v) => x > hi[i],
           x = lo[v] \/ \E i \in 1..n : Raised(1..n, lo, hi, i, v) /\ x = hi[i] + 1
    PROVE  Free(n, lo, hi, v, x)
<1>1. /\ Ranges(n, lo, hi) /\ Roomy(n, lo, hi)
      /\ lo \in [1..n -> Int] /\ hi \in [1..n -> Int] /\ lo[v] \in Int
  BY RoomyIs DEF Ranges
<1>2. ASSUME NEW a \in Int, NEW b \in Int, a <= lo[v], lo[v] <= b, x <= b,
             v \notin Members(n, lo, hi, a, b), Tight(n, lo, hi, a, b)
      PROVE  FALSE
  <2>1. a <= b
    BY <1>1, <1>2
  <2>2. PICK i \in 1..n : Raised(1..n, lo, hi, i, v) /\ hi[i] = b
    BY <1>2, <2>1, TightRaises
  <2>3. x > b
    BY <2>2
  <2> QED BY <1>2, <2>3
<1> SUFFICES ASSUME NEW c \in Int, NEW d \in Int, c <= x, x <= d, v \notin Members(n, lo, hi, c, d),
                    Tight(n, lo, hi, c, d)
             PROVE  FALSE
  BY DEF Free
<1>3. CASE c <= lo[v]
  BY <1>1, <1>2, <1>3
<1>4. CASE lo[v] < c
  <2>1. PICK i \in 1..n : Raised(1..n, lo, hi, i, v) /\ x = hi[i] + 1
    BY <1>4
  <2>2. i < v /\ \E k \in Candidates(1..n, lo, i) : Upper(1..n, lo, k, i) = hi[i] /\ lo[k] <= lo[v]
    BY <2>1, RaisedFacts
  <2>3. PICK k \in Candidates(1..n, lo, i) : Upper(1..n, lo, k, i) = hi[i] /\ lo[k] <= lo[v]
    BY <2>2
  <2> DEFINE a == lo[k]
             b == hi[i]
             K == Crowd(1..n, lo, k, i)
             M == Members(n, lo, hi, a, b)
  <2>4. /\ k \in 1..n /\ k <= i /\ K \subseteq 1..n /\ IsFiniteSet(K) /\ Cardinality(K) \in Nat
        /\ \A j \in K : a <= lo[j] /\ hi[j] <= b
        /\ Upper(1..n, lo, k, i) = a + Cardinality(K) - 1
    BY CrowdFacts
  <2>5. a \in Int /\ b \in Int /\ a <= b
    <3>1. a \in Int /\ b \in Int /\ a <= hi[k] /\ hi[k] \in Int /\ hi[k] <= b
      BY <1>1, <2>4 DEF Sorted
    <3> QED BY <3>1
  <2>6. IsFiniteSet(M) /\ Cardinality(M) \in Nat /\ Cardinality(M) <= b - a + 1
    BY <1>1, <2>5, MembersFacts DEF Roomy
  <2>7. K \subseteq M
    BY <2>4 DEF Members
  <2>8. Cardinality(K) <= Cardinality(M)
    BY <2>6, <2>7, FS_Subset
  <2>9. v \notin M
    <3>1. hi[v] > b
      BY <2>1, RaisedRoom
    <3> QED BY <1>1, <2>5, <3>1 DEF Members
  <2> HIDE DEF K, M
  <2>10. Cardinality(M) = b - a + 1
    BY <2>3, <2>4, <2>5, <2>6, <2>8
  <2>11. Tight(n, lo, hi, a, b)
    BY <2>10 DEF Tight, M
  <2>12. a <= c /\ c <= b + 1 /\ b < d /\ c <= d /\ lo[v] <= d /\ x <= d
    BY <1>1, <1>4, <2>1, <2>3, <2>5
  <2>13. Tight(n, lo, hi, a, d) /\ v \notin Members(n, lo, hi, a, d)
    BY <1>1, <2>5, <2>9, <2>11, <2>12, TightUnion DEF M
  <2> QED BY <1>2, <2>3, <2>5, <2>12, <2>13
<1> QED BY <1>1, <1>3, <1>4

-----------------------------------------------------------------------------
\* Domains without gaps.
Convex(P, D) == \A v \in P : \A x, y \in D[v] : x..y \subseteq D[v]

\* One pass over domains without gaps leaves each variable a least value that
\* it takes in some assignment, and makes no gaps.
LEMMA PassBounds ==
    ASSUME NEW n \in Nat, NEW D, DomainsOver(1..n, D), Convex(1..n, D), NEW o \in SortVariables(D),
           ~BoundsConsistency(D, o).failed
    PROVE  LET E == BoundsConsistency(D, o).dom
           IN  /\ Convex(1..n, E)
               /\ \A v \in 1..n : \E val : Different(1..n, D, val) /\ val[v] = Min(E[v])
<1> DEFINE P  == 1..n
           lo == [i \in P |-> Min(D[o[i]])]
           hi == [i \in P |-> Max(D[o[i]])]
           pos(v) == CHOOSE q \in P : o[q] = v
           E == BoundsConsistency(D, o).dom
<1>1. DOMAIN D = P /\ D \in [P -> SUBSET Int] /\ \A v \in P : D[v] # {} /\ IsFiniteSet(D[v])
  BY DEF DomainsOver
<1>2. ~Overfull(P, lo, hi)
  BY <1>1, BoundsConsistencyIs
<1>3. E = [v \in P |-> {x \in D[v] : \A i \in P : Raised(P, lo, hi, i, pos(v)) => x > hi[i]}]
  BY <1>1, BoundsConsistencyIs
<1>4. o \in [P -> P] /\ (\A q, r \in P : o[q] = o[r] => q = r) /\ \A v \in P : \E q \in P : o[q] = v
  BY <1>1 DEF SortVariables, Bijection, Injection, Surjection, IsInjective
<1>5. \A v \in P : pos(v) \in P /\ o[pos(v)] = v
  BY <1>4
<1>6. Sorted(n, lo, hi) /\ \A i \in P : lo[i] = Min(D[o[i]]) /\ hi[i] = Max(D[o[i]]) /\ o[i] \in P
  BY PassSorted
<1>7. \A v \in P : /\ Min(D[v]) \in D[v] /\ Max(D[v]) \in D[v] /\ D[v] \subseteq Int
                   /\ \A x \in D[v] : Min(D[v]) <= x /\ x <= Max(D[v])
  BY <1>1, Bounds
<1> HIDE DEF lo, hi, pos, E
<1>8. lo \in [P -> Int] /\ hi \in [P -> Int]
  BY <1>6 DEF Sorted
<1>9. \A v \in P : E[v] = {x \in D[v] : \A i \in P : Raised(P, lo, hi, i, pos(v)) => x > hi[i]}
  BY <1>3
<1>10. Convex(P, E)
  <2> SUFFICES ASSUME NEW v \in P, NEW x \in E[v], NEW y \in E[v], NEW z \in x..y PROVE z \in E[v]
    BY DEF Convex
  <2>1. x \in D[v] /\ y \in D[v] /\ x \in Int /\ z \in Int /\ x <= z
    BY <1>7, <1>9
  <2>2. z \in D[v]
    BY <2>1 DEF Convex
  <2>3. \A i \in P : Raised(P, lo, hi, i, pos(v)) => z > hi[i]
    <3> TAKE i \in P
    <3> HAVE Raised(P, lo, hi, i, pos(v))
    <3>1. x > hi[i] /\ hi[i] \in Int
      BY <1>8, <1>9
    <3> QED BY <2>1, <3>1
  <2> QED BY <1>9, <2>2, <2>3
<1>11. DomainsOver(P, E)
  BY PassFacts DEF E, Shrunk
<1>12. ASSUME NEW v \in P PROVE \E val : Different(P, D, val) /\ val[v] = Min(E[v])
  <2> DEFINE x == Min(E[v])
             p == pos(v)
  <2>1. x \in E[v] /\ \A y \in E[v] : x <= y
    BY <1>11, Bounds DEF DomainsOver
  <2>2. p \in P /\ o[p] = v /\ lo[p] = Min(D[v]) /\ hi[p] = Max(D[v])
    BY <1>5, <1>6
  <2>3. /\ x \in D[v] /\ x \in Int /\ lo[p] <= x /\ x <= hi[p] /\ lo[p] \in D[v] /\ lo[p] \in Int
        /\ \A i \in P : Raised(P, lo, hi, i, p) => x > hi[i]
    BY <1>7, <1>9, <2>1, <2>2
  <2>4. x = lo[p] \/ \E i \in P : Raised(P, lo, hi, i, p) /\ x = hi[i] + 1
    <3> SUFFICES ASSUME x # lo[p], \A i \in P : Raised(P, lo, hi, i, p) => x # hi[i] + 1 PROVE FALSE
      OBVIOUS
    <3>1. x - 1 \in lo[p]..x
      BY <2>3
    <3>2. x - 1 \in D[v]
      BY <2>3, <3>1 DEF Convex
    <3>3. \A i \in P : Raised(P, lo, hi, i, p) => x - 1 > hi[i]
      <4> TAKE i \in P
      <4> HAVE Raised(P, lo, hi, i, p)
      <4>1. x > hi[i] /\ x # hi[i] + 1 /\ hi[i] \in Int
        BY <1>8, <2>3
      <4> QED BY <2>3, <4>1
    <3>4. x - 1 \in E[v]
      BY <1>9, <3>2, <3>3
    <3> QED BY <2>1, <2>3, <3>4
  <2> HIDE DEF x, p
  <2>5. Free(n, lo, hi, p, x)
    BY <1>2, <1>6, <2>2, <2>3, <2>4, RaisedIsFree
  <2>6. Ranges(n, lo, hi) /\ Roomy(n, lo, hi)
    BY <1>2, <1>6, RoomyIs
  <2>7. PICK w : Fits(n, lo, hi, w) /\ w[p] = x
    BY <2>2, <2>3, <2>5, <2>6, FreeFits
  <2>8. /\ w \in [P -> Int] /\ \A i \in P : lo[i] <= w[i] /\ w[i] <= hi[i]
        /\ \A i, j \in P : w[i] = w[j] => i = j
    BY <2>7 DEF Fits
  <2> DEFINE val == [u \in P |-> w[pos(u)]]
  <2>9. \A u \in P : val[u] = w[pos(u)] /\ val[u] \in Int /\ pos(u) \in P
    BY <1>5, <2>8
  <2>10. val \in [P -> Int]
    BY <2>9
  <2> HIDE DEF val
  <2>11. ASSUME NEW u \in P PROVE val[u] \in D[u]
    <3>1. lo[pos(u)] = Min(D[u]) /\ hi[pos(u)] = Max(D[u])
      BY <1>5, <1>6
    <3>2. val[u] \in Min(D[u])..Max(D[u])
      BY <1>7, <2>8, <2>9, <3>1
    <3> QED BY <1>7, <3>2 DEF Convex
  <2>12. ASSUME NEW u \in P, NEW t \in P, val[u] = val[t] PROVE u = t
    <3>1. pos(u) = pos(t)
      BY <2>8, <2>9, <2>12
    <3>2. o[pos(u)] = u /\ o[pos(t)] = t
      BY <1>5
    <3> QED BY <3>1, <3>2
  <2>13. val[v] = x
    BY <2>7, <2>9 DEF p
  <2> QED BY <2>10, <2>11, <2>12, <2>13 DEF Different, x
<1> QED BY <1>10, <1>12 DEF E, P

\* The bounds of domains E belong to assignments from E.
BoundsHold(P, E) ==
    \A v \in P : \A x \in {Min(E[v]), Max(E[v])} : \E val : Different(P, E, val) /\ val[v] = x

LEMMA InvertBounds ==
    ASSUME NEW P, NEW D, DomainsOver(P, D), NEW v \in P
    PROVE  Max(D[v]) = -Min(InvertDomains(D)[v])
<1> DEFINE J == InvertDomains(D)[v]
<1>1. D[v] \subseteq Int /\ D[v] # {} /\ IsFiniteSet(D[v])
  BY DEF DomainsOver
<1>2. J \subseteq Int /\ J # {} /\ IsFiniteSet(J) /\ \A x \in Int : x \in J <=> -x \in D[v]
  BY InvertFacts DEF DomainsOver
<1> HIDE DEF J
<1>3. PICK m : m = Min(J)
  OBVIOUS
<1>4. m \in J /\ \A x \in J : m <= x
  BY <1>2, <1>3, Bounds
<1>5. Max(D[v]) \in D[v] /\ \A x \in D[v] : x <= Max(D[v])
  BY <1>1, Bounds
<1>6. PICK y : y = Max(D[v])
  OBVIOUS
<1>7. y \in Int /\ -y \in Int /\ - (-y) = y /\ m \in Int
  BY <1>1, <1>2, <1>4, <1>5, <1>6
<1>8. -m \in D[v] /\ -y \in J
  BY <1>2, <1>4, <1>5, <1>6, <1>7
<1>9. -m <= y /\ m <= -y
  BY <1>4, <1>5, <1>6, <1>8
<1>10. y = -m
  BY <1>7, <1>9
<1> QED BY <1>3, <1>6, <1>10 DEF J

\* What alldiff leaves of domains without gaps is bounds consistent, although
\* each pass looks at one side only and the second may undo the first.
LEMMA AlldiffBounds ==
    ASSUME NEW n \in Nat, NEW D, DomainsOver(1..n, D), Convex(1..n, D),
           NEW E \in FilterAlldiff(D), ~E.failed
    PROVE  BoundsHold(1..n, E.dom)
<1> DEFINE P == 1..n
<1>1. PICK o \in SortVariables(D) :
        LET p == BoundsConsistency(D, o)
        IN  \/ p.failed /\ E = p
            \/ ~p.failed /\ \E r \in SortVariables(InvertDomains(p.dom)) :
                  E = [BoundsConsistency(InvertDomains(p.dom), r) EXCEPT !.dom = InvertDomains(@)]
  BY DEF FilterAlldiff
<1> DEFINE p == BoundsConsistency(D, o)
           J == InvertDomains(p.dom)
<1>2. ~p.failed
  BY <1>1
<1>3. PICK r \in SortVariables(J) : E = [BoundsConsistency(J, r) EXCEPT !.dom = InvertDomains(@)]
  BY <1>1, <1>2
<1> DEFINE q == BoundsConsistency(J, r)
<1>4. Shrunk(P, D, p.dom) /\ DomainsOver(P, p.dom)
  BY <1>2, PassFacts DEF Shrunk
<1>5. Convex(P, p.dom) /\ \A v \in P : \E val : Different(P, D, val) /\ val[v] = Min(p.dom[v])
  BY <1>2, PassBounds
<1>6. Shrunk(P, D, E.dom) /\ \A val : Different(P, D, val) => Different(P, E.dom, val)
  BY AlldiffFacts
<1> HIDE DEF p
<1>7. DomainsOver(P, J) /\ \A v \in P : \A x \in Int : x \in J[v] <=> -x \in p.dom[v]
  BY <1>4, InvertFacts
<1> HIDE DEF J
<1>8. q = [failed |-> q.failed, dom |-> q.dom] /\ (~q.failed => Shrunk(P, J, q.dom))
  BY <1>7, PassFacts
<1>9. E.failed = q.failed /\ E.dom = InvertDomains(q.dom)
  <2> HIDE DEF q
  <2> QED BY <1>3, <1>8 DEF q
<1>10. Convex(P, J)
  <2> SUFFICES ASSUME NEW v \in P, NEW x \in J[v], NEW y \in J[v], NEW z \in x..y PROVE z \in J[v]
    BY DEF Convex
  <2>1. x \in Int /\ y \in Int /\ z \in Int
    BY <1>7 DEF DomainsOver
  <2>2. -x \in p.dom[v] /\ -y \in p.dom[v]
    BY <1>7, <2>1
  <2>3. -z \in (-y)..(-x)
    BY <2>1
  <2>4. -z \in p.dom[v]
    BY <1>5, <2>2, <2>3 DEF Convex
  <2> QED BY <1>7, <2>1, <2>4
<1>11. /\ \A v \in P : \E val : Different(P, J, val) /\ val[v] = Min(q.dom[v])
       /\ \A val : Different(P, J, val) => Different(P, q.dom, val)
       /\ DomainsOver(P, q.dom)
  BY <1>7, <1>8, <1>9, <1>10, PassBounds, PassFacts DEF Shrunk
<1> HIDE DEF q
<1>12. DomainsOver(P, E.dom) /\ \A v \in P : \A x \in Int : x \in E.dom[v] <=> -x \in q.dom[v]
  BY <1>9, <1>11, InvertFacts
<1>13. ASSUME NEW v \in P PROVE \E val : Different(P, E.dom, val) /\ val[v] = Min(E.dom[v])
  <2>1. PICK val : Different(P, D, val) /\ val[v] = Min(p.dom[v])
    BY <1>5
  <2>2. Different(P, E.dom, val) /\ val[v] \in E.dom[v]
    BY <1>6, <2>1 DEF Different
  <2>3. \A x \in E.dom[v] : x \in p.dom[v] /\ x \in Int
    <3> TAKE x \in E.dom[v]
    <3>1. x \in Int
      BY <1>12 DEF DomainsOver
    <3>2. -x \in q.dom[v] /\ -x \in Int /\ - (-x) = x
      BY <1>12, <3>1
    <3>3. -x \in J[v]
      BY <1>8, <1>9, <3>2 DEF Shrunk
    <3> QED BY <1>7, <3>1, <3>2, <3>3
  <2>4. \A x \in p.dom[v] : Min(p.dom[v]) <= x
    BY <1>4, Bounds DEF DomainsOver
  <2>5. /\ Min(E.dom[v]) \in E.dom[v] /\ \A x \in E.dom[v] : Min(E.dom[v]) <= x
    BY <1>12, Bounds DEF DomainsOver
  <2>6. PICK a, b : a = Min(E.dom[v]) /\ b = val[v]
    OBVIOUS
  <2>7. a \in Int /\ b \in Int /\ a <= b /\ b <= a
    BY <2>1, <2>2, <2>3, <2>4, <2>5, <2>6
  <2> QED BY <2>2, <2>6, <2>7
<1>14. ASSUME NEW v \in P PROVE \E val : Different(P, E.dom, val) /\ val[v] = Max(E.dom[v])
  <2>1. PICK neg : Different(P, J, neg) /\ neg[v] = Min(q.dom[v])
    BY <1>11
  <2>2. /\ neg \in [P -> Int] /\ (\A u \in P : neg[u] \in q.dom[u])
        /\ \A u, w \in P : neg[u] = neg[w] => u = w
    BY <1>11, <2>1 DEF Different
  <2> DEFINE val == [u \in P |-> -neg[u]]
  <2>3. \A u \in P : neg[u] \in Int /\ val[u] \in Int /\ val[u] = -neg[u] /\ -val[u] = neg[u]
    BY <2>2
  <2>4. val \in [P -> Int]
    BY <2>3
  <2> HIDE DEF val
  <2>5. \A u \in P : val[u] \in E.dom[u]
    BY <1>12, <2>2, <2>3
  <2>6. \A u, w \in P : val[u] = val[w] => u = w
    BY <2>2, <2>3
  <2>7. Different(P, E.dom, val)
    BY <2>4, <2>5, <2>6 DEF Different
  <2>8. Max(E.dom[v]) = -Min(InvertDomains(E.dom)[v])
    BY <1>12, InvertBounds
  <2>9. InvertDomains(E.dom)[v] = q.dom[v]
    <3>1. DomainsOver(P, InvertDomains(E.dom)) /\ \A x \in Int : x \in InvertDomains(E.dom)[v] <=> -x \in E.dom[v]
      BY <1>12, InvertFacts
    <3>2. InvertDomains(E.dom)[v] \subseteq Int /\ q.dom[v] \subseteq Int
      BY <1>11, <3>1 DEF DomainsOver
    <3>3. \A x \in Int : x \in InvertDomains(E.dom)[v] <=> x \in q.dom[v]
      <4> TAKE x \in Int
      <4>1. -x \in Int /\ - (-x) = x
        OBVIOUS
      <4> QED BY <1>12, <3>1, <4>1
    <3> QED BY <3>2, <3>3
  <2>10. val[v] = Max(E.dom[v])
    BY <2>1, <2>3, <2>8, <2>9
  <2> QED BY <2>7, <2>10
<1> QED BY <1>13, <1>14 DEF BoundsHold, P

-----------------------------------------------------------------------------
\* A global constraint of a plain formula is the formula.
GlobalFacts(f, c, n) ==
    /\ c.op = "alldiff" /\ n \in Nat /\ ScopeOver(c, n)
    /\ \A i \in 1..n : c.scope[i] \in VarsOf(f)
    /\ \A v \in VarsOf(f) : \E i \in 1..n : c.scope[i] = v
    /\ \A s : (\A i, j \in 1..n : s[c.scope[i]] = s[c.scope[j]] => i = j) => Satisfied(f, s)

LEMMA GlobalExact ==
    ASSUME NEW f, Legal(f), Plain(f), Translate(f).type = "custom"
    PROVE  GlobalFacts(f, Translate(f), Cardinality(VarsOf(f)))
<1> DEFINE c == Translate(f)
           q == ComputeDirectScope(f)
           n == Cardinality(VarsOf(f))
<1>1. f.op = "alldiff"
  <2>1. CASE f.op \in Relations
    BY <2>1 DEF Translate, TranslateRelation, Constraint, Relations
  <2>2. CASE f.op = "table"
    BY <2>2 DEF Translate, TranslateTable, Constraint, Relations
  <2> QED BY <2>1, <2>2, LegalFacts DEF Plain
<1>2. c = Constraint("custom", f.op, q, 0, {})
  BY <1>1 DEF Translate, Relations
<1>3. c.op = f.op /\ c.scope = q
  BY <1>2 DEF Constraint
<1>4. /\ n \in Nat /\ q \in [1..n -> VarsOf(f)] /\ DOMAIN q = 1..n
      /\ \A i, j \in 1..n : q[i] = q[j] => i = j
      /\ \A v \in VarsOf(f) : \E i \in 1..n : q[i] = v
  BY LegalFacts, ScopeFacts
<1>5. VarsOf(f) \subseteq Vars
  BY DEF Legal
<1>6. /\ \A i \in DOMAIN f.args : f.args[i].var /\ f.args[i] \in Term
      /\ \A i, j \in DOMAIN f.args : f.args[i] = f.args[j] => i = j
  <2>1. f.args \in Seq(Term)
    BY LegalFacts
  <2>2. \A i \in DOMAIN f.args : f.args[i] \in Term
    BY <2>1, LenProperties, ElementOfSeq
  <2> QED BY <1>1, <2>2 DEF Plain, IsInjective
<1> HIDE DEF c, q, n
<1>7. ASSUME NEW s, \A i, j \in 1..n : s[q[i]] = s[q[j]] => i = j PROVE Satisfied(f, s)
  <2> DEFINE v == [i \in DOMAIN f.args |-> ValueOf(f.args[i], s)]
  <2>1. ASSUME NEW i \in DOMAIN f.args, NEW j \in DOMAIN f.args, v[i] = v[j] PROVE i = j
    <3>1. s[f.args[i].idx] = s[f.args[j].idx]
      BY <1>6, <2>1 DEF ValueOf
    <3>2. f.args[i].idx \in VarsOf(f) /\ f.args[j].idx \in VarsOf(f)
      BY <1>6 DEF VarsOf
    <3>3. PICK a \in 1..n, b \in 1..n : q[a] = f.args[i].idx /\ q[b] = f.args[j].idx
      BY <1>4, <3>2
    <3>4. f.args[i].idx = f.args[j].idx
      BY <1>7, <3>1, <3>3
    <3>5. f.args[i] = f.args[j]
      BY <1>6, <3>4 DEF Term
    <3> QED BY <1>6, <3>5
  <2>2. IsInjective(v)
    <3>1. DOMAIN v = DOMAIN f.args
      OBVIOUS
    <3> HIDE DEF v
    <3> QED BY <2>1, <3>1 DEF IsInjective
  <2> QED BY <1>1, <2>2 DEF Satisfied, Relations
<1>8. ScopeOver(c, n)
  BY <1>3, <1>4, <1>5 DEF ScopeOver
<1>9. GlobalFacts(f, c, n)
  BY <1>1, <1>3, <1>4, <1>7, <1>8 DEF GlobalFacts
<1> QED BY <1>9 DEF c, n

-----------------------------------------------------------------------------
(* The two steps that prune, with the facts about their constraint *)

ConstraintOf(F, k, t) ==
    k \in DOMAIN F /\ Legal(F[k]) /\ constraints[k] = Translate(F[k]) /\ Translate(F[k]).type = t

LEMMA ConstraintIs ==
    ASSUME NEW F, NEW D0, FilterInv(F, D0), csp # "idle", NEW t, NEW k \in OfType(constraints, t)
    PROVE  ConstraintOf(F, k, t)
<1>1. constraints = Translated(F) /\ Problem(F, D0)
  BY DEF FilterInv
<1>2. \A i \in DOMAIN F : Legal(F[i])
  BY <1>1, ProblemFacts
<1> QED BY <1>1, <1>2 DEF OfType, Translated, ConstraintOf

UnaryOutcome(k) ==
    LET c == constraints[k]
        v == c.scope[1]
        kept == UnaryKept(c, dom[v])
    IN  /\ v \in Vars /\ kept \subseteq dom[v]
        /\ \/ csp' = "done" /\ result' = "Failure" /\ UNCHANGED dom
           \/ /\ UNCHANGED csp /\ result' \in {"Pruned", result}
              /\ kept # {} /\ dom' = [dom EXCEPT ![v] = kept]

LEMMA UnaryStep ==
    ASSUME NEW F, NEW D0, FilterInv(F, D0), UnaryFilter
    PROVE  /\ csp = "unary" /\ UNCHANGED <<constraints, worklist>>
           /\ \E k \in OfType(constraints, "unary") :
                 ConstraintOf(F, k, "unary") /\ todo' = todo \ {k} /\ UnaryOutcome(k)
<1> DEFINE k == Min(todo)
           c == constraints[k]
           v == c.scope[1]
           kept == UnaryKept(c, dom[v])
<1>1. /\ csp = "unary" /\ todo # {} /\ todo' = todo \ {k} /\ UNCHANGED <<constraints, worklist>>
      /\ \/ kept = {} /\ csp' = "done" /\ result' = "Failure" /\ UNCHANGED dom
         \/ /\ kept # {} /\ dom' = [dom EXCEPT ![v] = kept] /\ UNCHANGED csp
            /\ result' \in {"Pruned", result}
  BY OutcomeFacts DEF UnaryFilter, Return
<1>2. k \in OfType(constraints, "unary")
  BY <1>1, NextConstraint DEF FilterInv
<1>3. ConstraintOf(F, k, "unary")
  BY <1>1, <1>2, ConstraintIs
<1>4. v \in Vars
  <2>1. c = Translate(F[k]) /\ Legal(F[k]) /\ Translate(F[k]).type = "unary"
    BY <1>3 DEF ConstraintOf
  <2> QED BY <2>1, UnaryExact
<1>5. kept \subseteq dom[v]
  BY DEF UnaryKept
<1>6. UnaryOutcome(k)
  BY <1>1, <1>4, <1>5 DEF UnaryOutcome
<1> QED BY <1>1, <1>2, <1>3, <1>6

\* Arc a: its constraint, the variable that it prunes, the variable that it
\* looks at, and the values that it keeps.
Pruner(a) == constraints[a[1]]
Target(a) == Pruner(a).scope[a[2]]
Partner(a) == Pruner(a).scope[3 - a[2]]
Backed(a) == {x \in dom[Target(a)] : \E y \in dom[Partner(a)] : Related(Pruner(a), a[2], x, y)}

ArcFactsOf(F, a) ==
    /\ a = <<a[1], a[2]>> /\ a[2] \in {1, 2} /\ a[1] \in OfType(constraints, "arc")
    /\ ConstraintOf(F, a[1], "arc") /\ ArcFacts(F[a[1]], Pruner(a))
    /\ Target(a) \in Vars /\ Partner(a) \in Vars
    /\ VarsOf(F[a[1]]) = {Target(a), Partner(a)}
    /\ Plain(F[a[1]]) => Target(a) # Partner(a)
    /\ ArcKept(Pruner(a), a[2], dom[Target(a)], dom[Partner(a)]) = Backed(a)

LEMMA ArcsAre ==
    ASSUME NEW F, NEW D0, FilterInv(F, D0), csp # "idle", NEW a \in Arcs(constraints)
    PROVE  ArcFactsOf(F, a)
<1>1. a = <<a[1], a[2]>> /\ a[1] \in OfType(constraints, "arc") /\ a[2] \in {1, 2}
  BY DEF Arcs
<1>2. ConstraintOf(F, a[1], "arc")
  BY <1>1, ConstraintIs
<1>3. ArcFacts(F[a[1]], Pruner(a))
  BY <1>2, ArcExact DEF ConstraintOf, Pruner
<1>4. /\ Target(a) \in Vars /\ Partner(a) \in Vars
      /\ VarsOf(F[a[1]]) = {Target(a), Partner(a)}
      /\ Plain(F[a[1]]) => Target(a) # Partner(a)
  <2>1. CASE a[2] = 1
    BY <1>3, <2>1 DEF ArcFacts, Target, Partner
  <2>2. CASE a[2] = 2
    BY <1>3, <2>2 DEF ArcFacts, Target, Partner
  <2> QED BY <1>1, <2>1, <2>2
<1>5. \A v \in Vars : dom[v] \in SUBSET Int /\ dom[v] # {} /\ IsFiniteSet(dom[v])
  BY DEF FilterInv, Shrunk, DomainsOver
<1>6. ArcKept(Pruner(a), a[2], dom[Target(a)], dom[Partner(a)]) = Backed(a)
  <2>1. Pruner(a).op \in ArcOperations
    BY <1>3 DEF ArcFacts
  <2> QED BY <1>1, <1>4, <1>5, <2>1, ArcKeptIs DEF Backed
<1> QED BY <1>1, <1>2, <1>3, <1>4, <1>6 DEF ArcFactsOf

ArcOutcome(a) ==
    \/ csp' = "aborted" /\ UNCHANGED <<dom, worklist, result>>
    \/ csp' = "done" /\ result' = "Failure" /\ UNCHANGED <<dom, worklist>>
    \/ /\ UNCHANGED <<csp, result>>
       /\ Backed(a) # {} /\ dom' = [dom EXCEPT ![Target(a)] = Backed(a)]
       /\ worklist' = (worklist \ {a}) \cup
             (IF Backed(a) = dom[Target(a)] THEN {} ELSE Reinserted(a[1], Target(a)))

LEMMA ArcStep ==
    ASSUME NEW F, NEW D0, FilterInv(F, D0), ArcReduce
    PROVE  /\ csp = "arcs" /\ UNCHANGED <<constraints, todo>>
           /\ \E a \in worklist :
                 /\ a \in Arcs(constraints) /\ ArcFactsOf(F, a) /\ ArcOutcome(a)
                 /\ Backed(a) \in {{}, dom[Target(a)]} => b_result' = b_result
           /\ UNCHANGED round
<1>1. PICK a \in worklist :
        LET c == constraints[a[1]]
            v == c.scope[a[2]]
            kept == ArcKept(c, a[2], dom[v], dom[c.scope[3 - a[2]]])
            o == Outcome(dom[v], kept)
        IN  IF MissingEntry(c, a[2], dom[v])
            THEN csp' = "aborted" /\ UNCHANGED <<dom, worklist, b_result, result>>
            ELSE IF o = "Failure"
            THEN Return(o) /\ UNCHANGED <<dom, worklist, b_result>>
            ELSE /\ dom' = [dom EXCEPT ![v] = kept]
                 /\ worklist' = (worklist \ {a}) \cup Reconsidered(o, a[1], v)
                 /\ b_result' = IF o = "Pruned" THEN o ELSE b_result
                 /\ UNCHANGED <<csp, result>>
  BY DEF ArcReduce
<1>2. csp = "arcs" /\ UNCHANGED <<constraints, todo, round>>
  BY DEF ArcReduce
<1>3. a \in Arcs(constraints)
  BY DEF FilterInv
<1>4. ArcFactsOf(F, a)
  BY <1>2, <1>3, ArcsAre
<1> DEFINE o == Outcome(dom[Target(a)], Backed(a))
<1>5. \/ csp' = "aborted" /\ UNCHANGED <<dom, worklist, result, b_result>>
      \/ o = "Failure" /\ csp' = "done" /\ result' = o /\ UNCHANGED <<dom, worklist, b_result>>
      \/ /\ o # "Failure" /\ b_result' = (IF o = "Pruned" THEN o ELSE b_result)
         /\ dom' = [dom EXCEPT ![Target(a)] = Backed(a)]
         /\ worklist' = (worklist \ {a}) \cup Reconsidered(o, a[1], Target(a))
         /\ UNCHANGED <<csp, result>>
  BY <1>1, <1>4 DEF ArcFactsOf, Target, Partner, Pruner, Return
<1>6. /\ o = "Failure" <=> Backed(a) = {}
      /\ o # "Failure" => (o = "Pruned" <=> Backed(a) # dom[Target(a)])
  BY DEF Outcome
<1> HIDE DEF o
<1>7. ArcOutcome(a)
  BY <1>5, <1>6 DEF ArcOutcome, Reconsidered
<1>8. Backed(a) \in {{}, dom[Target(a)]} => b_result' = b_result
  BY <1>5, <1>6
<1> QED BY <1>2, <1>3, <1>4, <1>7, <1>8

-----------------------------------------------------------------------------
(***************************************************************************)
(* The inductive invariant of local consistency: the values left satisfy   *)
(* the unary constraints that were filtered, and each value that an arc    *)
(* outside the worklist prunes has a partner.  It needs that an arc that   *)
(* prunes leaves the other arc of its constraint supported, and so that a  *)
(* constraint is over two variables; or that nothing is pruned at all,     *)
(* which is so if every formula is over variables with a single value.     *)
(***************************************************************************)
Single(D) == \E x : D = {x}
VarsIn(F) == UNION {VarsOf(F[i]) : i \in DOMAIN F}
PlainOnly(F) == \A i \in DOMAIN F : Plain(F[i])
BinaryOnly(F) == \A i \in DOMAIN F : IsBinary(F[i])
AssignedOver(F, D) == \A v \in VarsIn(F) : Single(D[v])

Tame(F, D0) == (BinaryOnly(F) /\ PlainOnly(F)) \/ AssignedOver(F, D0)

Succeeding == csp \notin {"idle", "aborted"} /\ ~ (csp = "done" /\ result = "Failure")

UnaryTodo == IF csp = "unary" THEN todo ELSE {}
Accepted(k) ==
    LET c == constraints[k] IN \A x \in dom[c.scope[1]] : x \in UnaryKept(c, {x})
ArcSupported(a) ==
    \A x \in dom[Target(a)] : \E y \in dom[Partner(a)] : Related(Pruner(a), a[2], x, y)

LocalInv ==
    /\ csp \notin {"arcs", "done", "aborted"} => worklist = {}
    /\ Succeeding /\ csp = "done" => worklist = {}
    /\ Succeeding => \A k \in OfType(constraints, "unary") \ UnaryTodo : Accepted(k)
    /\ Succeeding /\ csp # "unary" => \A a \in Arcs(constraints) \ worklist : ArcSupported(a)

\* Variables with a single value keep it.
LEMMA AssignedStay ==
    ASSUME NEW F, NEW D0, Problem(F, D0), AssignedOver(F, D0), NEW D, Shrunk(Vars, D0, D)
    PROVE  \A v \in VarsIn(F) : v \in Vars /\ D[v] = D0[v] /\ Single(D[v])
<1> TAKE v \in VarsIn(F)
<1>1. v \in Vars
  BY ProblemFacts DEF VarsIn, Legal
<1>2. D[v] # {} /\ D[v] \subseteq D0[v]
  BY <1>1 DEF Shrunk, DomainsOver
<1>3. PICK x : D0[v] = {x}
  BY DEF AssignedOver, Single
<1>4. D[v] = {x}
  BY <1>2, <1>3
<1> QED BY <1>1, <1>3, <1>4 DEF Single

\* Arcs and unary constraints look at the variables of the formulas only.
LEMMA SameDomains ==
    ASSUME NEW F, NEW D0, FilterInv(F, D0), csp # "idle", constraints' = constraints,
           \A v \in VarsIn(F) : dom'[v] = dom[v]
    PROVE  /\ Arcs(constraints)' = Arcs(constraints)
           /\ OfType(constraints, "unary")' = OfType(constraints, "unary")
           /\ \A k \in OfType(constraints, "unary") : Accepted(k) => Accepted(k)'
           /\ \A a \in Arcs(constraints) : ArcSupported(a) => ArcSupported(a)'
<1>1. Arcs(constraints)' = Arcs(constraints) /\ OfType(constraints, "unary")' = OfType(constraints, "unary")
  BY DEF Arcs, OfType
<1>2. ASSUME NEW k \in OfType(constraints, "unary"), Accepted(k) PROVE Accepted(k)'
  <2>1. ConstraintOf(F, k, "unary")
    BY ConstraintIs
  <2>2. VarsOf(F[k]) = {constraints[k].scope[1]} /\ k \in DOMAIN F
    BY <2>1, UnaryExact DEF ConstraintOf
  <2>3. constraints[k].scope[1] \in VarsIn(F)
    BY <2>2 DEF VarsIn
  <2> QED BY <1>2, <2>3 DEF Accepted
<1>3. ASSUME NEW a \in Arcs(constraints), ArcSupported(a) PROVE ArcSupported(a)'
  <2>1. ArcFactsOf(F, a)
    BY ArcsAre
  <2>2. Target(a) \in VarsIn(F) /\ Partner(a) \in VarsIn(F)
    BY <2>1 DEF ArcFactsOf, ConstraintOf, VarsIn
  <2>3. Pruner(a)' = Pruner(a) /\ Target(a)' = Target(a) /\ Partner(a)' = Partner(a)
    BY DEF Pruner, Target, Partner
  <2> QED BY <1>3, <2>2, <2>3 DEF ArcSupported
<1> QED BY <1>1, <1>2, <1>3

LEMMA StartLocal ==
    ASSUME NEW C, NEW D, StartFilter(C, D)
    PROVE  LocalInv'
<1>1. constraints' = C /\ worklist' = {} /\ csp' \in {"done", "unary"} /\ (csp' = "done" => C = << >>)
      /\ todo' = OfType(C, "unary")
  BY DEF StartFilter
<1>2. csp' = "done" => OfType(constraints, "unary")' = {} /\ Arcs(constraints)' = {}
  BY <1>1 DEF OfType, Arcs
<1>3. csp' = "unary" => OfType(constraints, "unary")' \ UnaryTodo' = {}
  BY <1>1 DEF OfType, UnaryTodo
<1> QED BY <1>1, <1>2, <1>3 DEF LocalInv

LEMMA UnaryLocal ==
    ASSUME NEW F, NEW D0, FilterInv(F, D0), LocalInv, UnaryFilter
    PROVE  LocalInv'
<1>1. csp = "unary" /\ UNCHANGED <<constraints, worklist>>
  BY UnaryStep
<1>2. PICK k \in OfType(constraints, "unary") :
         ConstraintOf(F, k, "unary") /\ todo' = todo \ {k} /\ UnaryOutcome(k)
  BY UnaryStep
<1> DEFINE c == constraints[k]
           v == c.scope[1]
           kept == UnaryKept(c, dom[v])
<1>3. v \in Vars /\ kept \subseteq dom[v]
      /\ \/ csp' = "done" /\ result' = "Failure" /\ UNCHANGED dom
         \/ csp' = csp /\ kept # {} /\ dom' = [dom EXCEPT ![v] = kept]
  BY <1>2 DEF UnaryOutcome
<1>4. CASE csp' = "done" /\ result' = "Failure"
  BY <1>4 DEF LocalInv, Succeeding
<1>5. CASE csp' = csp /\ dom' = [dom EXCEPT ![v] = kept]
  <2>1. dom \in [Vars -> SUBSET Int]
    BY DEF FilterInv, Shrunk, DomainsOver
  <2>2. dom'[v] = kept /\ \A u : dom'[u] \subseteq dom[u] \/ u \notin Vars
    BY <1>3, <1>5, <2>1
  <2>3. ASSUME NEW m \in OfType(constraints, "unary") \ UnaryTodo' PROVE Accepted(m)'
    <3>1. CASE m = k
      <4>1. \A x \in kept : x \in UnaryKept(c, {x})
        BY DEF UnaryKept
      <4> QED BY <1>1, <2>2, <3>1, <4>1 DEF Accepted
    <3>2. CASE m # k
      <4>1. m \notin UnaryTodo
        BY <1>1, <1>2, <1>5, <2>3, <3>2 DEF UnaryTodo
      <4>2. Accepted(m)
        BY <1>1, <2>3, <4>1 DEF LocalInv, Succeeding
      <4>3. constraints[m].scope[1] \in Vars
        <5>1. ConstraintOf(F, m, "unary")
          BY <1>1, <2>3, ConstraintIs
        <5> QED BY <5>1, UnaryExact DEF ConstraintOf
      <4> QED BY <1>1, <2>2, <4>2, <4>3 DEF Accepted
    <3> QED BY <3>1, <3>2
  <2>4. OfType(constraints, "unary")' = OfType(constraints, "unary")
    BY <1>1 DEF OfType
  <2>5. worklist' = {} /\ csp' = "unary"
    BY <1>1, <1>5 DEF LocalInv
  <2> QED BY <2>3, <2>4, <2>5 DEF LocalInv
<1> QED BY <1>3, <1>4, <1>5

\* An arc that prunes leaves every arc outside the worklist supported.
LEMMA ArcPrunes ==
    ASSUME NEW F, NEW D0, FilterInv(F, D0), Tame(F, D0), csp = "arcs", constraints' = constraints,
           \A b \in Arcs(constraints) \ worklist : ArcSupported(b),
           NEW a \in Arcs(constraints), ArcFactsOf(F, a), Backed(a) # {},
           dom' = [dom EXCEPT ![Target(a)] = Backed(a)],
           worklist' = (worklist \ {a}) \cup
             (IF Backed(a) = dom[Target(a)] THEN {} ELSE Reinserted(a[1], Target(a))),
           NEW b \in Arcs(constraints) \ worklist'
    PROVE  ArcSupported(b)'
<1> DEFINE v == Target(a)
           w == Partner(a)
<1>1. dom \in [Vars -> SUBSET Int] /\ v \in Vars /\ w \in Vars /\ Backed(a) \subseteq dom[v]
  BY DEF FilterInv, Shrunk, DomainsOver, ArcFactsOf, Backed
<1>2. \A u \in Vars : dom'[u] = IF u = v THEN Backed(a) ELSE dom[u]
  BY <1>1
<1>3. \A u \in Vars : dom'[u] \subseteq dom[u]
  BY <1>1, <1>2
<1>4. ArcFactsOf(F, b) /\ Target(b) \in Vars /\ Partner(b) \in Vars
  BY ArcsAre DEF ArcFactsOf
<1>5. Pruner(b)' = Pruner(b) /\ Target(b)' = Target(b) /\ Partner(b)' = Partner(b)
  BY DEF Pruner, Target, Partner
<1>6. b # a => ArcSupported(b)
  OBVIOUS
<1>7. \A x \in Backed(a) : x \in dom[v] /\ \E y \in dom[w] : Related(Pruner(a), a[2], x, y)
  BY DEF Backed
<1>8. CASE AssignedOver(F, D0)
  <2>1. v \in VarsIn(F)
    BY DEF ArcFactsOf, ConstraintOf, VarsIn
  <2>2. PICK x : dom[v] = {x}
    <3>1. Problem(F, D0) /\ Shrunk(Vars, D0, dom)
      BY DEF FilterInv
    <3>2. Single(dom[v])
      BY <1>8, <2>1, <3>1, AssignedStay
    <3> QED BY <3>2 DEF Single
  <2>3. Backed(a) = dom[v]
    BY <1>1, <2>2
  <2>4. \A u \in Vars : dom'[u] = dom[u]
    BY <1>2, <2>3
  <2>5. ArcSupported(b)
    BY <1>6, <1>7, <2>3 DEF ArcSupported
  <2> QED BY <1>4, <1>5, <2>4, <2>5 DEF ArcSupported
<1>9. CASE BinaryOnly(F) /\ PlainOnly(F)
  <2>1. v # w /\ Target(b) # Partner(b)
    BY <1>4, <1>9 DEF ArcFactsOf, PlainOnly, ConstraintOf
  <2>2. CASE b = a
    <3>1. dom'[w] = dom[w] /\ dom'[v] = Backed(a)
      BY <1>1, <1>2, <2>1
    <3> QED BY <1>5, <1>7, <2>2, <3>1 DEF ArcSupported
  <2>3. CASE b # a /\ b[1] = a[1]
    <3>1. b[2] = 3 - a[2] /\ b[2] \in {1, 2} /\ a[2] \in {1, 2}
      BY <1>4, <2>3 DEF ArcFactsOf
    <3>2. Pruner(b) = Pruner(a) /\ Target(b) = w /\ Partner(b) = v
      <4>1. a[2] = 3 - b[2]
        BY <3>1
      <4> QED BY <2>3, <3>1, <4>1 DEF Pruner, Target, Partner
    <3>3. \A x, y : Related(Pruner(b), b[2], x, y) => Related(Pruner(a), a[2], y, x)
      <4>1. CASE a[2] = 1
        BY <3>1, <3>2, <4>1 DEF Related
      <4>2. CASE a[2] = 2
        BY <3>1, <3>2, <4>2 DEF Related
      <4> QED BY <3>1, <4>1, <4>2
    <3>4. ASSUME NEW x \in dom'[w] PROVE \E y \in dom'[v] : Related(Pruner(b), b[2], x, y)
      <4>1. x \in dom[w]
        BY <1>1, <1>3
      <4>2. PICK y \in dom[v] : Related(Pruner(b), b[2], x, y)
        BY <1>6, <2>3, <3>2, <4>1 DEF ArcSupported
      <4>3. y \in Backed(a)
        BY <3>3, <4>1, <4>2 DEF Backed
      <4> QED BY <1>1, <1>2, <4>2, <4>3
    <3> QED BY <1>5, <3>2, <3>4 DEF ArcSupported
  <2>4. CASE b[1] # a[1]
    <3>1. ArcSupported(b)
      BY <1>6, <2>4
    <3>2. dom'[Partner(b)] = dom[Partner(b)]
      <4>1. CASE Partner(b) # v
        BY <1>2, <1>4, <4>1
      <4>2. CASE Partner(b) = v
        <5>1. b \in Reinserted(a[1], v)
          <6>1. /\ b = <<b[1], b[2]>> /\ b[2] \in {1, 2} /\ b[1] \in OfType(constraints, "arc") \ {a[1]}
            BY <1>4, <2>4 DEF ArcFactsOf
          <6>2. /\ v \in {constraints[b[1]].scope[1], constraints[b[1]].scope[2]}
                /\ b[2] = IF constraints[b[1]].scope[1] = v THEN 2 ELSE 1
            <7>1. CASE b[2] = 1
              BY <2>1, <4>2, <7>1 DEF Partner, Target, Pruner
            <7>2. CASE b[2] = 2
              BY <2>1, <4>2, <7>2 DEF Partner, Target, Pruner
            <7> QED BY <6>1, <7>1, <7>2
          <6>3. b = <<b[1], IF constraints[b[1]].scope[1] = v THEN 2 ELSE 1>>
            BY <6>1, <6>2
          <6> QED BY <6>1, <6>2, <6>3 DEF Reinserted
        <5>2. Backed(a) = dom[v]
          BY <5>1
        <5> QED BY <1>1, <1>2, <4>2, <5>2
      <4> QED BY <4>1, <4>2
    <3>3. dom'[Target(b)] \subseteq dom[Target(b)]
      BY <1>3, <1>4
    <3> QED BY <1>5, <3>1, <3>2, <3>3 DEF ArcSupported
  <2> QED BY <2>2, <2>3, <2>4
<1> QED BY <1>8, <1>9 DEF Tame

LEMMA ArcLocal ==
    ASSUME NEW F, NEW D0, FilterInv(F, D0), Tame(F, D0), LocalInv, ArcReduce
    PROVE  LocalInv'
<1>1. csp = "arcs" /\ UNCHANGED <<constraints, todo>>
  BY ArcStep
<1>2. PICK a \in worklist : a \in Arcs(constraints) /\ ArcFactsOf(F, a) /\ ArcOutcome(a)
  BY ArcStep
<1>3. Arcs(constraints)' = Arcs(constraints) /\ OfType(constraints, "unary")' = OfType(constraints, "unary")
  BY <1>1 DEF Arcs, OfType
<1>4. CASE csp' = "aborted"
  BY <1>4 DEF LocalInv, Succeeding
<1>5. CASE csp' = "done" /\ result' = "Failure"
  BY <1>5 DEF LocalInv, Succeeding
<1>6. CASE /\ UNCHANGED <<csp, result>>
           /\ Backed(a) # {} /\ dom' = [dom EXCEPT ![Target(a)] = Backed(a)]
           /\ worklist' = (worklist \ {a}) \cup
                 (IF Backed(a) = dom[Target(a)] THEN {} ELSE Reinserted(a[1], Target(a)))
  <2>1. \A b \in Arcs(constraints) \ worklist : ArcSupported(b)
    BY <1>1 DEF LocalInv, Succeeding
  <2>2. \A b \in Arcs(constraints) \ worklist' : ArcSupported(b)'
    BY <1>1, <1>2, <1>6, <2>1, ArcPrunes
  <2>3. dom \in [Vars -> SUBSET Int] /\ Target(a) \in Vars /\ Backed(a) \subseteq dom[Target(a)]
    BY <1>2 DEF FilterInv, Shrunk, DomainsOver, ArcFactsOf, Backed
  <2>4. \A u \in Vars : dom'[u] \subseteq dom[u]
    BY <1>6, <2>3
  <2>5. ASSUME NEW k \in OfType(constraints, "unary") PROVE Accepted(k)'
    <3>1. Accepted(k)
      BY <1>1 DEF LocalInv, Succeeding, UnaryTodo
    <3>2. constraints[k].scope[1] \in Vars
      <4>1. ConstraintOf(F, k, "unary")
        BY <1>1, ConstraintIs
      <4> QED BY <4>1, UnaryExact DEF ConstraintOf
    <3> QED BY <1>1, <2>4, <3>1, <3>2 DEF Accepted
  <2> QED BY <1>1, <1>3, <1>6, <2>2, <2>5 DEF LocalInv
<1> QED BY <1>2, <1>4, <1>5, <1>6 DEF ArcOutcome

\* A global filter keeps domains with a single value, and there is none for
\* binary constraints only.
GlobalOutcome(k) ==
    \E E \in FilterCustom(constraints[k], Project(constraints[k])) :
        \/ E.failed /\ UNCHANGED dom /\ round = "first" /\ csp' = "done" /\ result' = "Failure"
        \/ E.failed /\ UNCHANGED dom /\ round # "first" /\ csp' = "loop" /\ UNCHANGED result
        \/ ~E.failed /\ UNCHANGED <<csp, result>>

LEMMA GlobalStep ==
    ASSUME NEW F, NEW D0, FilterInv(F, D0), GlobalFilter
    PROVE  /\ csp = "globals" /\ UNCHANGED <<constraints, worklist, round, b_result>>
           /\ \E k \in OfType(constraints, "custom") :
                 ConstraintOf(F, k, "custom") /\ todo' = todo \ {k} /\ GlobalOutcome(k)
<1> DEFINE k == Min(todo)
           c == constraints[k]
<1>1. /\ csp = "globals" /\ todo # {} /\ todo' = todo \ {k}
      /\ UNCHANGED <<constraints, worklist, round, b_result>>
  BY DEF GlobalFilter
<1>2. k \in OfType(constraints, "custom")
  BY <1>1, NextConstraint DEF FilterInv
<1>3. ConstraintOf(F, k, "custom")
  BY <1>1, <1>2, ConstraintIs
<1>4. \E E \in FilterCustom(c, Project(c)) :
         IF E.failed
         THEN /\ g_result' = "Failure"
              /\ IF round = "first" THEN Return("Failure") ELSE csp' = "loop" /\ UNCHANGED result
              /\ UNCHANGED dom
         ELSE /\ dom' = Updated(c, E.dom)
              /\ g_result' = IF E.dom # Project(c) THEN "Pruned" ELSE g_result
              /\ UNCHANGED <<csp, result>>
  BY DEF GlobalFilter
<1>5. GlobalOutcome(k)
  <2> HIDE DEF k
  <2> QED BY <1>4 DEF GlobalOutcome, Return
<1> QED BY <1>1, <1>2, <1>3, <1>5

LEMMA GlobalTame ==
    ASSUME NEW F, NEW D0, FilterInv(F, D0), FilterInv(F, D0)', Tame(F, D0), GlobalFilter
    PROVE  \A v \in VarsIn(F) : dom'[v] = dom[v]
<1>1. PICK k \in OfType(constraints, "custom") : ConstraintOf(F, k, "custom")
  BY GlobalStep
<1>2. ~ BinaryOnly(F)
  <2> SUFFICES ASSUME BinaryOnly(F) PROVE FALSE
    OBVIOUS
  <2>1. F[k].op \in Relations \cup {"table"}
    BY <1>1, LegalFacts DEF ConstraintOf, BinaryOnly, IsBinary
  <2>2. CASE F[k].op \in Relations
    BY <1>1, <2>2 DEF ConstraintOf, Translate, TranslateRelation, Constraint, Relations
  <2>3. CASE F[k].op = "table"
    BY <1>1, <2>3 DEF ConstraintOf, Translate, TranslateTable, Constraint, Relations
  <2> QED BY <2>1, <2>2, <2>3
<1>3. AssignedOver(F, D0)
  BY <1>2 DEF Tame
<1>4. Problem(F, D0) /\ Shrunk(Vars, D0, dom) /\ Shrunk(Vars, D0, dom')
  BY DEF FilterInv
<1>5. \A v \in VarsIn(F) : dom[v] = D0[v]
  BY <1>3, <1>4, AssignedStay
<1>6. \A v \in VarsIn(F) : dom'[v] = D0[v]
  BY <1>3, <1>4, AssignedStay
<1> QED BY <1>5, <1>6

LEMMA GlobalLocal ==
    ASSUME NEW F, NEW D0, FilterInv(F, D0), FilterInv(F, D0)', Tame(F, D0), LocalInv, GlobalFilter
    PROVE  LocalInv'
<1>1. /\ csp = "globals" /\ UNCHANGED <<constraints, worklist>>
      /\ \/ csp' = "done" /\ result' = "Failure"
         \/ csp' \in {"globals", "loop"}
  BY GlobalStep DEF GlobalOutcome
<1>2. worklist = {} /\ Succeeding
  BY <1>1 DEF LocalInv, Succeeding
<1>3. CASE csp' = "done" /\ result' = "Failure"
  BY <1>3 DEF LocalInv, Succeeding
<1>4. CASE csp' \in {"globals", "loop"}
  <2>1. \A v \in VarsIn(F) : dom'[v] = dom[v]
    BY GlobalTame
  <2>2. \A k \in OfType(constraints, "unary") : Accepted(k)
    BY <1>1, <1>2 DEF LocalInv, UnaryTodo
  <2>3. \A a \in Arcs(constraints) : ArcSupported(a)
    BY <1>1, <1>2 DEF LocalInv
  <2>4. /\ \A k \in OfType(constraints, "unary")' : Accepted(k)'
        /\ \A a \in Arcs(constraints)' : ArcSupported(a)'
    BY <1>1, <2>1, <2>2, <2>3, SameDomains
  <2> QED BY <1>1, <1>2, <1>4, <2>4 DEF LocalInv
<1> QED BY <1>1, <1>3, <1>4

LEMMA PassLocal ==
    ASSUME NEW F, NEW D0, FilterInv(F, D0), LocalInv, UnaryDone \/ ArcsDone \/ GlobalsDone \/ Refilter \/ LeaveLoop
    PROVE  LocalInv'
<1>1. UNCHANGED <<constraints, dom>> /\ csp \in {"unary", "arcs", "globals", "loop"}
  BY DEF UnaryDone, ArcsDone, GlobalsDone, Refilter, LeaveLoop
<1>2. Succeeding
  BY <1>1 DEF Succeeding
<1>3. /\ Arcs(constraints)' = Arcs(constraints)
      /\ OfType(constraints, "unary")' = OfType(constraints, "unary")
      /\ \A k \in OfType(constraints, "unary") : Accepted(k) => Accepted(k)'
      /\ \A a \in Arcs(constraints) : ArcSupported(a) => ArcSupported(a)'
  BY <1>1, SameDomains
<1>4. /\ csp # "arcs" => worklist = {}
      /\ \A k \in OfType(constraints, "unary") \ UnaryTodo : Accepted(k)
      /\ csp # "unary" => \A a \in Arcs(constraints) \ worklist : ArcSupported(a)
  BY <1>1, <1>2 DEF LocalInv
<1>5. CASE UnaryDone
  <2>1. csp = "unary" /\ todo = {} /\ UnaryTodo = {}
    BY <1>5 DEF UnaryDone, UnaryTodo
  <2>2. \/ csp' = "done" /\ worklist' = worklist /\ OfType(constraints, "unary") = DOMAIN constraints
        \/ csp' = "arcs" /\ worklist' = Arcs(constraints)
    BY <1>5 DEF UnaryDone
  <2>3. OfType(constraints, "unary") = DOMAIN constraints => Arcs(constraints) = {}
    BY DEF OfType, Arcs
  <2>4. CASE csp' = "done" /\ worklist' = worklist /\ OfType(constraints, "unary") = DOMAIN constraints
    BY <1>3, <1>4, <2>1, <2>3, <2>4 DEF LocalInv
  <2>5. CASE csp' = "arcs" /\ worklist' = Arcs(constraints)
    BY <1>3, <1>4, <2>1, <2>5 DEF LocalInv
  <2> QED BY <2>2, <2>4, <2>5
<1>6. CASE ArcsDone \/ GlobalsDone \/ Refilter \/ LeaveLoop
  <2>1. csp # "unary" /\ UnaryTodo = {} /\ worklist = {} /\ worklist' = {}
    BY <1>4, <1>6 DEF ArcsDone, GlobalsDone, Refilter, LeaveLoop, UnaryTodo
  <2> QED BY <1>3, <1>4, <2>1 DEF LocalInv
<1> QED BY <1>5, <1>6

\* Every step of filter keeps what is left locally consistent.
LEMMA LocalStep ==
    ASSUME NEW F, NEW D0, FilterInv(F, D0), Tame(F, D0), LocalInv, FilterStep
    PROVE  LocalInv'
<1>1. FilterInv(F, D0)'
  BY FilterStepInv
<1> QED BY <1>1, UnaryLocal, ArcLocal, GlobalLocal, PassLocal DEF FilterStep

LEMMA LocalStutter ==
    ASSUME LocalInv, UNCHANGED handler
    PROVE  LocalInv'
<1>1. UNCHANGED <<constraints, dom, csp, todo, worklist, result>>
  BY DEF handler
<1> QED BY <1>1 DEF LocalInv, Succeeding, UnaryTodo, Accepted, ArcSupported, Target, Partner, Pruner, OfType, Arcs

-----------------------------------------------------------------------------
(* Locally consistent domains stay: what a filter removes has no support *)

LEMMA ConsistentStay ==
    ASSUME NEW F, NEW D0, FilterInv(F, D0), BinaryOnly(F),
           NEW E \in Subdomains(D0), LocallyConsistent(F, E), \A v \in Vars : E[v] \subseteq dom[v],
           FilterStep
    PROVE  \A v \in Vars : E[v] \subseteq dom'[v]
<1>1. dom \in [Vars -> SUBSET Int] /\ \A v \in Vars : dom[v] \in SUBSET Int /\ IsFiniteSet(dom[v])
  BY DEF FilterInv, Shrunk, DomainsOver
<1>2. ASSUME NEW s \in Within(E) PROVE s \in Assignment /\ \A v \in Vars : s[v] \in dom[v]
  <2>1. s \in [Vars -> UNION {E[v] : v \in Vars}] /\ \A v \in Vars : s[v] \in E[v]
    BY DEF Within
  <2>2. \A v \in Vars : s[v] \in dom[v] /\ s[v] \in Int
    BY <1>1, <2>1
  <2>3. s \in [Vars -> Int]
    BY <2>1, <2>2
  <2> QED BY <2>2, <2>3 DEF Assignment
<1>3. CASE UnaryFilter
  <2>1. PICK k \in OfType(constraints, "unary") : ConstraintOf(F, k, "unary") /\ UnaryOutcome(k)
    BY <1>3, UnaryStep
  <2> DEFINE c == constraints[k]
             v == c.scope[1]
             kept == UnaryKept(c, dom[v])
  <2>2. KeepsUnary(F[k], c) /\ v \in Vars /\ k \in DOMAIN F
    BY <2>1, UnaryKeeps DEF ConstraintOf, UnaryOutcome
  <2>3. ASSUME NEW x \in E[v] PROVE x \in kept
    <3>1. v \in VarsOf(F[k])
      BY <2>2 DEF KeepsUnary
    <3>2. PICK s \in Within(E) : s[v] = x /\ Satisfied(F[k], s)
      BY <2>2, <3>1 DEF LocallyConsistent
    <3>3. s \in Assignment /\ s[v] \in dom[v]
      BY <1>2, <2>2
    <3> QED BY <2>2, <3>2, <3>3 DEF KeepsUnary
  <2> HIDE DEF kept
  <2>4. UNCHANGED dom \/ dom' = [dom EXCEPT ![v] = kept]
    BY <2>1 DEF UnaryOutcome, kept
  <2>5. E[v] \subseteq kept
    BY <2>3
  <2> HIDE DEF v
  <2> QED BY <1>1, <2>2, <2>4, <2>5
<1>4. CASE ArcReduce
  <2>1. PICK a \in worklist : ArcFactsOf(F, a) /\ ArcOutcome(a)
    BY <1>4, ArcStep
  <2> DEFINE v == Target(a)
             k == a[1]
  <2>2. v \in Vars /\ Partner(a) \in Vars /\ k \in DOMAIN F /\ v \in VarsOf(F[k])
    BY <2>1 DEF ArcFactsOf, ConstraintOf
  <2>3. ASSUME NEW x \in E[v] PROVE x \in Backed(a)
    <3>1. PICK s \in Within(E) : s[v] = x /\ Satisfied(F[k], s)
      BY <2>2 DEF LocallyConsistent
    <3>2. s[v] \in dom[v] /\ s[Partner(a)] \in dom[Partner(a)]
      BY <1>2, <2>2
    <3>3. Related(Pruner(a), a[2], s[v], s[Partner(a)])
      <4>1. Meets(Pruner(a), s[Pruner(a).scope[1]], s[Pruner(a).scope[2]])
        BY <2>1, <3>1 DEF ArcFactsOf, ArcFacts
      <4>2. CASE a[2] = 1
        BY <4>1, <4>2 DEF Related, Target, Partner
      <4>3. CASE a[2] = 2
        BY <4>1, <4>3 DEF Related, Target, Partner
      <4> QED BY <2>1, <4>2, <4>3 DEF ArcFactsOf
    <3> QED BY <3>1, <3>2, <3>3 DEF Backed
  <2>4. UNCHANGED dom \/ dom' = [dom EXCEPT ![v] = Backed(a)]
    BY <2>1 DEF ArcOutcome
  <2>5. E[v] \subseteq Backed(a)
    BY <2>3
  <2> HIDE DEF v
  <2> QED BY <1>1, <2>2, <2>4, <2>5
<1>5. CASE GlobalFilter
  <2>1. PICK k \in OfType(constraints, "custom") : ConstraintOf(F, k, "custom")
    BY <1>5, GlobalStep
  <2>2. F[k].op \in Relations \cup {"table"}
    BY <2>1, LegalFacts DEF ConstraintOf, BinaryOnly, IsBinary
  <2>3. CASE F[k].op \in Relations
    BY <2>1, <2>3 DEF ConstraintOf, Translate, TranslateRelation, Constraint, Relations
  <2>4. CASE F[k].op = "table"
    BY <2>1, <2>4 DEF ConstraintOf, Translate, TranslateTable, Constraint, Relations
  <2> QED BY <2>2, <2>3, <2>4
<1>6. CASE UnaryDone \/ ArcsDone \/ GlobalsDone \/ Refilter \/ LeaveLoop
  <2>1. UNCHANGED dom
    BY <1>6 DEF UnaryDone, ArcsDone, GlobalsDone, Refilter, LeaveLoop
  <2> QED BY <2>1
<1> QED BY <1>3, <1>4, <1>5, <1>6 DEF FilterStep

\* When filter has succeeded, what is left is locally consistent.
LEMMA DoneConsistent ==
    ASSUME NEW F, NEW D0, FilterInv(F, D0), LocalInv, BinaryOnly(F), PlainOnly(F), csp = "done", result # "Failure"
    PROVE  LocallyConsistent(F, dom) /\ dom \in Subdomains(D0)
<1>1. dom \in [Vars -> SUBSET Int] /\ DomainsOver(Vars, dom)
      /\ \A v \in Vars : dom[v] # {} /\ dom[v] \subseteq Int /\ dom[v] \subseteq D0[v]
  BY DEF FilterInv, Shrunk, DomainsOver
<1>2. dom \in Subdomains(D0)
  BY <1>1 DEF Subdomains
<1>3. /\ \A k \in OfType(constraints, "unary") : Accepted(k)
      /\ \A a \in Arcs(constraints) : ArcSupported(a)
  BY DEF LocalInv, Succeeding, UnaryTodo
\* A state within the domains, with given values for two variables.
<1> DEFINE any == [v \in Vars |-> CHOOSE x \in dom[v] : TRUE]
           state(v, x, w, y) == [u \in Vars |-> IF u = v THEN x ELSE IF u = w THEN y ELSE any[u]]
<1>4. ASSUME NEW v \in Vars, NEW x \in dom[v], NEW w \in Vars, NEW y \in dom[w]
      PROVE  state(v, x, w, y) \in Within(dom)
  <2>1. \A u \in Vars : state(v, x, w, y)[u] \in dom[u] /\ state(v, x, w, y)[u] \in Int
    BY <1>1
  <2>2. state(v, x, w, y) \in [Vars -> Int]
    BY <2>1
  <2> QED BY <1>1, <2>1, <2>2, WithinIs DEF Assignment
<1>5. ASSUME NEW i \in DOMAIN F, NEW v \in VarsOf(F[i]), NEW x \in dom[v]
      PROVE  \E s \in Within(dom) : s[v] = x /\ Satisfied(F[i], s)
  <2>1. Legal(F[i]) /\ constraints = Translated(F) /\ v \in Vars
    BY ProblemFacts DEF FilterInv, Legal
  <2>2. constraints[i] = Translate(F[i])
    BY <2>1 DEF Translated
  <2>3. Translate(F[i]).type \in {"unary", "arc"}
    <3>1. F[i].op \in Relations \cup {"table"}
      BY <2>1, LegalFacts DEF BinaryOnly, IsBinary
    <3>2. CASE F[i].op \in Relations
      BY <3>2 DEF Translate, TranslateRelation, Constraint, Relations
    <3>3. CASE F[i].op = "table"
      BY <3>3 DEF Translate, TranslateTable, Constraint, Relations
    <3> QED BY <3>1, <3>2, <3>3
  <2> DEFINE c == constraints[i]
  <2>4. CASE Translate(F[i]).type = "unary"
    <3>1. i \in OfType(constraints, "unary")
      BY <2>1, <2>2, <2>4 DEF OfType, Translated
    <3>2. v = c.scope[1]
      BY <2>1, <2>2, <2>4, UnaryExact
    <3>3. x \in UnaryKept(c, {x})
      BY <1>3, <3>1, <3>2 DEF Accepted
    <3> DEFINE s == state(v, x, v, x)
    <3>4. s \in Within(dom) /\ s[v] = x
      BY <1>4, <2>1
    <3>5. s \in Assignment
      BY <1>1, <3>4, WithinIs
    <3>6. Satisfied(F[i], s)
      <4> HIDE DEF s
      <4> QED BY <2>1, <2>2, <2>4, <3>2, <3>3, <3>4, <3>5, UnaryExact
    <3> QED BY <3>4, <3>6
  <2>5. CASE Translate(F[i]).type = "arc"
    <3>1. i \in OfType(constraints, "arc")
      BY <2>1, <2>2, <2>5 DEF OfType, Translated
    <3>2. ArcFacts(F[i], c)
      BY <2>1, <2>2, <2>5, ArcExact
    <3>3. PICK n \in {1, 2} : v = c.scope[n]
      BY <3>2 DEF ArcFacts
    <3> DEFINE a == <<i, n>>
               w == Partner(a)
    <3>4. a \in Arcs(constraints)
      BY <3>1 DEF Arcs
    <3>5. Target(a) = v /\ Pruner(a) = c /\ a[2] = n
      BY <3>3 DEF Target, Pruner
    <3>6. w \in Vars
      BY <3>4, ArcsAre DEF ArcFactsOf
    <3>7. PICK y \in dom[w] : Related(c, n, x, y)
      BY <1>3, <3>4, <3>5 DEF ArcSupported
    <3>8. v # w /\ v \in Vars
      BY <2>1, <3>4, <3>5, ArcsAre DEF ArcFactsOf, PlainOnly
    <3>9. state(v, x, w, y) \in Within(dom)
      BY <1>4, <3>6, <3>7, <3>8
    <3>10. PICK s : s = state(v, x, w, y)
      OBVIOUS
    <3>11. s \in Within(dom) /\ s[v] = x /\ s[w] = y
      BY <3>6, <3>8, <3>9, <3>10
    <3>12. Meets(c, s[c.scope[1]], s[c.scope[2]])
      <4>1. CASE n = 1
        BY <3>3, <3>7, <3>11, <4>1 DEF Related, Partner, Pruner
      <4>2. CASE n = 2
        BY <3>3, <3>7, <3>11, <4>2 DEF Related, Partner, Pruner
      <4> QED BY <4>1, <4>2
    <3> QED BY <3>2, <3>11, <3>12 DEF ArcFacts
  <2> QED BY <2>3, <2>4, <2>5
<1> QED BY <1>2, <1>5 DEF LocallyConsistent

-----------------------------------------------------------------------------
(* One call of filter leaves the largest locally consistent domains *)

ConsistentStays(F, D0) ==
    \A E \in Subdomains(D0) : LocallyConsistent(F, E) => \A v \in Vars : E[v] \subseteq dom[v]

LInv ==
    /\ IInv
    /\ Tame(Formulas, problem.dom) => LocalInv
    /\ BinaryOnly(Formulas) => ConsistentStays(Formulas, problem.dom)

LEMMA CallSteps ==
    ASSUME IInv, [CallNext]_callVars
    PROVE  /\ UNCHANGED problem
           /\ \/ StartFilter(Translated(Formulas), problem.dom)
              \/ FilterStep
              \/ UNCHANGED handler
<1>1. UNCHANGED problem
  BY DEF CallNext, Call, callVars
<1>2. CASE Call
  <2>1. dom = problem.dom
    BY <1>2 DEF IInv, Call
  <2> QED BY <1>1, <1>2, <2>1 DEF Call, Translated
<1>3. CASE UNCHANGED callVars
  BY <1>3 DEF callVars
<1> QED BY <1>1, <1>2, <1>3 DEF CallNext

LEMMA LocalAlways == CallSpec => []LInv
<1>1. ASSUME CallInit, IInv PROVE LInv
  <2>1. dom = problem.dom /\ csp = "idle" /\ worklist = {}
    BY <1>1 DEF CallInit
  <2>2. LocalInv
    BY <2>1 DEF LocalInv, Succeeding
  <2>3. ConsistentStays(Formulas, problem.dom)
    BY <2>1 DEF ConsistentStays, Subdomains
  <2> QED BY <1>1, <2>2, <2>3 DEF LInv
<1>2. ASSUME LInv, IInv', [CallNext]_callVars PROVE LInv'
  <2>1. IInv
    BY <1>2 DEF LInv
  <2>2. PICK F, D0 : F = Formulas /\ D0 = problem.dom
    OBVIOUS
  <2>3. F = Formulas' /\ D0 = problem'.dom
    BY <1>2, <2>1, <2>2, CallSteps DEF Formulas
  <2>4. \/ StartFilter(Translated(F), D0)
        \/ FilterStep
        \/ UNCHANGED handler
    BY <1>2, <2>1, <2>2, CallSteps
  <2>5. FilterInv(F, D0)
    BY <2>1, <2>2 DEF IInv
  <2>6. Tame(F, D0) => LocalInv
    BY <1>2, <2>2 DEF LInv
  <2>7. BinaryOnly(F) => ConsistentStays(F, D0)
    BY <1>2, <2>2 DEF LInv
  <2>8. Tame(F, D0) => LocalInv'
    BY <2>4, <2>5, <2>6, StartLocal, LocalStep, LocalStutter
  <2>9. ASSUME BinaryOnly(F), NEW E \in Subdomains(D0), LocallyConsistent(F, E), NEW v \in Vars
        PROVE  E[v] \subseteq dom'[v]
    <3>1. \A u \in Vars : E[u] \subseteq dom[u]
      BY <2>7, <2>9 DEF ConsistentStays
    <3>2. CASE StartFilter(Translated(F), D0)
      BY <2>9, <3>2 DEF StartFilter, Subdomains
    <3>3. CASE FilterStep
      BY <2>5, <2>9, <3>1, <3>3, ConsistentStay
    <3>4. CASE UNCHANGED handler
      BY <3>1, <3>4 DEF handler
    <3> QED BY <2>4, <3>2, <3>3, <3>4
  <2>10. BinaryOnly(F) => ConsistentStays(F, D0)'
    BY <2>9 DEF ConsistentStays
  <2>11. Tame(Formulas', problem'.dom) => LocalInv'
    BY <2>3, <2>8
  <2>12. Tame(Formulas, problem.dom)' => LocalInv'
    BY <2>11 DEF Tame, BinaryOnly, PlainOnly, AssignedOver, VarsIn
  <2>13. BinaryOnly(Formulas)' => ConsistentStays(Formulas, problem.dom)'
    BY <2>3, <2>10 DEF BinaryOnly, ConsistentStays
  <2> QED BY <1>2, <2>12, <2>13 DEF LInv
<1> QED BY <1>1, <1>2, Invariant, PTL DEF CallSpec

\* Domains that contain all locally consistent ones, and are such themselves.
LEMMA JoinIs ==
    ASSUME NEW S, NEW D \in S, D \in [Vars -> SUBSET Int],
           \A E \in S : \A v \in Vars : E[v] \subseteq D[v]
    PROVE  D = Join(S)
<1>1. \A v \in Vars : Join(S)[v] = D[v]
  BY DEF Join
<1>2. Join(S) = [v \in Vars |-> Join(S)[v]] /\ D = [v \in Vars |-> D[v]]
  BY DEF Join
<1> HIDE DEF Join
<1> QED BY <1>1, <1>2

LEMMA ArcConsistent ==
    ASSUME LInv, PlainOnly(Formulas)
    PROVE  ArcConsistencyReached
<1> SUFFICES ASSUME csp = "done", result # "Failure", BinaryOnly(Formulas)
             PROVE  dom = Join({E \in Subdomains(problem.dom) : LocallyConsistent(Formulas, E)})
  BY DEF ArcConsistencyReached, BinaryOnly
<1>1. FilterInv(Formulas, problem.dom) /\ LocalInv
  BY DEF LInv, IInv, Tame
<1>2. LocallyConsistent(Formulas, dom) /\ dom \in Subdomains(problem.dom)
  BY <1>1, DoneConsistent
<1>3. ConsistentStays(Formulas, problem.dom) /\ dom \in [Vars -> SUBSET Int]
  BY <1>1 DEF LInv, FilterInv, Shrunk, DomainsOver
<1> DEFINE S == {E \in Subdomains(problem.dom) : LocallyConsistent(Formulas, E)}
<1>4. dom \in S /\ \A E \in S : \A v \in Vars : E[v] \subseteq dom[v]
  BY <1>2, <1>3 DEF ConsistentStays
<1> HIDE DEF S
<1>5. dom = Join(S)
  BY <1>3, <1>4, JoinIs
<1> QED BY <1>5 DEF S

-----------------------------------------------------------------------------
(***************************************************************************)
(* Formulas over variables with a single value are decided: nothing is     *)
(* pruned, so the first round is the last, and a global constraint that    *)
(* was filtered is satisfied.                                              *)
(***************************************************************************)
GlobalTodo == IF csp = "globals" THEN todo ELSE {}
Apart(k) ==
    LET c == constraints[k] IN \A i, j \in DOMAIN c.scope : dom[c.scope[i]] = dom[c.scope[j]] => i = j

GlobalInv ==
    /\ round = "first" /\ b_result = "Unpruned"
    /\ Succeeding /\ csp \in {"globals", "loop", "done"} =>
          \A k \in OfType(constraints, "custom") \ GlobalTodo : Apart(k)

LEMMA StartApart ==
    ASSUME NEW C, NEW D, StartFilter(C, D)
    PROVE  GlobalInv'
<1>1. /\ constraints' = C /\ csp' \in {"done", "unary"} /\ (csp' = "done" => C = << >>)
      /\ round' = "first" /\ b_result' = "Unpruned"
  BY DEF StartFilter
<1>2. csp' = "done" => OfType(constraints, "custom")' = {}
  BY <1>1 DEF OfType
<1> QED BY <1>1, <1>2 DEF GlobalInv

\* A plain global constraint that its filter accepts.
LEMMA FilteredApart ==
    ASSUME NEW F, NEW D0, FilterInv(F, D0), AssignedOver(F, D0), PlainOnly(F),
           NEW k, ConstraintOf(F, k, "custom"),
           NEW E \in FilterCustom(constraints[k], Project(constraints[k])), ~E.failed
    PROVE  Apart(k)
<1> DEFINE c == constraints[k]
           n == Cardinality(VarsOf(F[k]))
           w == [i \in 1..n |-> CHOOSE x : dom[c.scope[i]] = {x}]
<1>1. GlobalFacts(F[k], c, n)
  BY GlobalExact DEF ConstraintOf, PlainOnly
<1>2. n \in Nat /\ ScopeOver(c, n) /\ c.op = "alldiff" /\ DOMAIN c.scope = 1..n
  BY <1>1 DEF GlobalFacts, ScopeOver
<1>3. DomainsOver(1..n, Project(c)) /\ \A i \in 1..n : Project(c)[i] = dom[c.scope[i]]
  BY <1>2, ProjectFacts
<1>4. Problem(F, D0) /\ Shrunk(Vars, D0, dom)
  BY DEF FilterInv
<1>5. \A i \in 1..n : dom[c.scope[i]] = {w[i]}
  <2> TAKE i \in 1..n
  <2>1. c.scope[i] \in VarsIn(F)
    BY <1>1 DEF GlobalFacts, VarsIn, ConstraintOf
  <2>2. Single(dom[c.scope[i]])
    BY <1>4, <2>1, AssignedStay
  <2>3. \E x : dom[c.scope[i]] = {x}
    BY <2>2 DEF Single
  <2> QED BY <2>3
<1>6. E \in FilterAlldiff(Project(c))
  BY <1>2 DEF FilterCustom
<1> HIDE DEF w, c, n
<1>7. \A i, j \in 1..n : w[i] = w[j] => i = j
  <2>1. PICK P : P = Project(c)
    OBVIOUS
  <2>2. DomainsOver(1..n, P) /\ E \in FilterAlldiff(P) /\ \A i \in 1..n : P[i] = {w[i]}
    BY <1>3, <1>5, <1>6, <2>1
  <2> QED BY <1>2, <2>2, AlldiffDecides
<1>8. \A i, j \in 1..n : dom[c.scope[i]] = dom[c.scope[j]] => i = j
  BY <1>5, <1>7
<1> QED BY <1>2, <1>8 DEF Apart, c

\* A global constraint stays apart if its variables keep their domains.
LEMMA ApartStays ==
    ASSUME NEW F, NEW D0, FilterInv(F, D0), csp # "idle", constraints' = constraints,
           \A v \in VarsIn(F) : dom'[v] = dom[v], PlainOnly(F)
    PROVE  /\ OfType(constraints, "custom")' = OfType(constraints, "custom")
           /\ \A k \in OfType(constraints, "custom") : Apart(k) => Apart(k)'
<1>1. OfType(constraints, "custom")' = OfType(constraints, "custom")
  BY DEF OfType
<1>2. ASSUME NEW k \in OfType(constraints, "custom"), Apart(k) PROVE Apart(k)'
  <2>1. ConstraintOf(F, k, "custom")
    BY ConstraintIs
  <2> DEFINE n == Cardinality(VarsOf(F[k]))
  <2>2. GlobalFacts(F[k], constraints[k], n) /\ k \in DOMAIN F
    BY <2>1, GlobalExact DEF ConstraintOf, PlainOnly
  <2>3. DOMAIN constraints[k].scope = 1..n
    BY <2>2 DEF GlobalFacts, ScopeOver
  <2>4. \A i \in 1..n : constraints[k].scope[i] \in VarsIn(F)
    BY <2>2 DEF GlobalFacts, VarsIn
  <2> QED BY <1>2, <2>3, <2>4 DEF Apart
<1> QED BY <1>1, <1>2

LEMMA GlobalApart ==
    ASSUME NEW F, NEW D0, FilterInv(F, D0), FilterInv(F, D0)', AssignedOver(F, D0), PlainOnly(F),
           GlobalInv, GlobalFilter
    PROVE  GlobalInv'
<1>1. csp = "globals" /\ UNCHANGED <<constraints, worklist, round, b_result>>
  BY GlobalStep
<1>2. PICK k \in OfType(constraints, "custom") :
         ConstraintOf(F, k, "custom") /\ todo' = todo \ {k} /\ GlobalOutcome(k)
  BY GlobalStep
<1>3. PICK E \in FilterCustom(constraints[k], Project(constraints[k])) :
        \/ E.failed /\ UNCHANGED dom /\ round = "first" /\ csp' = "done" /\ result' = "Failure"
        \/ E.failed /\ UNCHANGED dom /\ round # "first" /\ csp' = "loop" /\ UNCHANGED result
        \/ ~E.failed /\ UNCHANGED <<csp, result>>
  BY <1>2 DEF GlobalOutcome
<1>4. round = "first" /\ round' = "first" /\ b_result' = "Unpruned"
  BY <1>1 DEF GlobalInv
<1>5. CASE csp' = "done" /\ result' = "Failure"
  BY <1>4, <1>5 DEF GlobalInv, Succeeding
<1>6. CASE ~E.failed /\ UNCHANGED <<csp, result>>
  <2>1. \A v \in VarsIn(F) : dom'[v] = dom[v]
    BY GlobalTame DEF Tame
  <2>2. /\ OfType(constraints, "custom")' = OfType(constraints, "custom")
        /\ \A m \in OfType(constraints, "custom") : Apart(m) => Apart(m)'
    BY <1>1, <2>1, ApartStays
  <2>3. Apart(k)
    BY <1>2, <1>6, FilteredApart
  <2>4. \A m \in OfType(constraints, "custom") \ todo : Apart(m)
    BY <1>1 DEF GlobalInv, Succeeding, GlobalTodo
  <2>5. \A m \in OfType(constraints, "custom") \ todo' : Apart(m)
    BY <1>2, <2>3, <2>4
  <2>6. GlobalTodo' = todo'
    BY <1>1, <1>6 DEF GlobalTodo
  <2> QED BY <1>4, <2>2, <2>5, <2>6 DEF GlobalInv
<1> QED BY <1>3, <1>4, <1>5, <1>6

LEMMA PassApart ==
    ASSUME NEW F, NEW D0, FilterInv(F, D0), PlainOnly(F), GlobalInv,
           UnaryDone \/ ArcsDone \/ GlobalsDone \/ Refilter \/ LeaveLoop
    PROVE  GlobalInv'
<1>1. UNCHANGED <<constraints, dom>> /\ csp \in {"unary", "arcs", "globals", "loop"}
  BY DEF UnaryDone, ArcsDone, GlobalsDone, Refilter, LeaveLoop
<1>2. /\ OfType(constraints, "custom")' = OfType(constraints, "custom")
      /\ \A k \in OfType(constraints, "custom") : Apart(k) => Apart(k)'
  BY <1>1, ApartStays
<1>3. /\ round = "first" /\ b_result = "Unpruned"
      /\ csp \in {"globals", "loop"} => \A k \in OfType(constraints, "custom") \ GlobalTodo : Apart(k)
  BY <1>1 DEF GlobalInv, Succeeding
<1>4. CASE UnaryDone
  <2>1. /\ UNCHANGED <<round, b_result>>
        /\ \/ csp' = "done" /\ OfType(constraints, "unary") = DOMAIN constraints
           \/ csp' = "arcs"
    BY <1>4 DEF UnaryDone
  <2>2. OfType(constraints, "unary") = DOMAIN constraints => OfType(constraints, "custom") = {}
    BY DEF OfType
  <2> QED BY <1>2, <1>3, <2>1, <2>2 DEF GlobalInv
<1>5. CASE ArcsDone
  <2>1. UNCHANGED <<round, b_result>> /\ csp' = "globals" /\ todo' = OfType(constraints, "custom")
    BY <1>3, <1>5 DEF ArcsDone, GlobalsFollow
  <2> QED BY <1>2, <1>3, <2>1 DEF GlobalInv, GlobalTodo
<1>6. CASE GlobalsDone
  <2>1. UNCHANGED <<round, b_result>> /\ csp = "globals" /\ csp' = "loop" /\ GlobalTodo = {}
    BY <1>6 DEF GlobalsDone, GlobalTodo
  <2> QED BY <1>2, <1>3, <2>1 DEF GlobalInv
<1>7. CASE Refilter
  BY <1>3, <1>7 DEF Refilter
<1>8. CASE LeaveLoop
  <2>1. UNCHANGED <<round, b_result>> /\ csp = "loop" /\ csp' = "done" /\ GlobalTodo = {}
    BY <1>8 DEF LeaveLoop, GlobalTodo
  <2> QED BY <1>2, <1>3, <2>1 DEF GlobalInv
<1> QED BY <1>4, <1>5, <1>6, <1>7, <1>8

LEMMA ApartStep ==
    ASSUME NEW F, NEW D0, FilterInv(F, D0), AssignedOver(F, D0), PlainOnly(F), GlobalInv, FilterStep
    PROVE  GlobalInv'
<1>1. FilterInv(F, D0)'
  BY FilterStepInv
<1>2. CASE UnaryFilter
  <2>1. csp = "unary" /\ UNCHANGED <<round, b_result>>
    BY <1>2 DEF UnaryFilter
  <2>2. PICK k : UnaryOutcome(k)
    BY <1>2, UnaryStep
  <2>3. (csp' = "done" /\ result' = "Failure") \/ csp' = "unary"
    BY <2>1, <2>2 DEF UnaryOutcome
  <2> QED BY <2>1, <2>3 DEF GlobalInv, Succeeding
<1>3. CASE ArcReduce
  <2>1. csp = "arcs" /\ UNCHANGED round
    BY <1>3, ArcStep
  <2>2. PICK a : ArcFactsOf(F, a) /\ ArcOutcome(a)
                 /\ (Backed(a) \in {{}, dom[Target(a)]} => b_result' = b_result)
    BY <1>3, ArcStep
  <2>3. \/ csp' = "aborted"
        \/ csp' = "done" /\ result' = "Failure"
        \/ csp' = "arcs" /\ Backed(a) # {}
    BY <2>1, <2>2 DEF ArcOutcome
  <2>4. Backed(a) = {} \/ Backed(a) = dom[Target(a)]
    <3>1. Target(a) \in VarsIn(F)
      BY <2>2 DEF ArcFactsOf, ConstraintOf, VarsIn
    <3>2. Problem(F, D0) /\ Shrunk(Vars, D0, dom)
      BY DEF FilterInv
    <3>3. Single(dom[Target(a)])
      BY <3>1, <3>2, AssignedStay
    <3>4. PICK x : dom[Target(a)] = {x}
      BY <3>3 DEF Single
    <3> QED BY <3>4 DEF Backed
  <2>5. b_result' = b_result
    BY <2>2, <2>4
  <2> QED BY <2>1, <2>3, <2>5 DEF GlobalInv, Succeeding
<1> QED BY <1>1, <1>2, <1>3, GlobalApart, PassApart DEF FilterStep

\* Values that filter leaves on their own satisfy the formulas.
LEMMA Decides ==
    ASSUME NEW F, NEW D0, FilterInv(F, D0), AssignedOver(F, D0), PlainOnly(F), LocalInv, GlobalInv,
           csp = "done", result # "Failure",
           NEW s \in Assignment, \A v \in VarsIn(F) : s[v] \in dom[v],
           NEW i \in DOMAIN F
    PROVE  Satisfied(F[i], s)
<1> DEFINE c == constraints[i]
<1>1. Legal(F[i]) /\ Plain(F[i]) /\ constraints = Translated(F)
  BY ProblemFacts DEF FilterInv, PlainOnly
<1>2. c = Translate(F[i])
  BY <1>1 DEF Translated
<1>3. Translate(F[i]).type \in {"unary", "arc", "custom"}
  <2>1. CASE F[i].op \in Relations
    BY <2>1 DEF Translate, TranslateRelation, Constraint, Relations
  <2>2. CASE F[i].op = "table"
    BY <2>2 DEF Translate, TranslateTable, Constraint, Relations
  <2>3. CASE F[i].op \in {"alldiff", "sum"}
    BY <2>3 DEF Translate, Constraint, Relations
  <2> QED BY <1>1, <2>1, <2>2, <2>3, LegalFacts
<1>4. \A t : Translate(F[i]).type = t => i \in OfType(constraints, t)
  BY <1>1, <1>2 DEF OfType, Translated
<1>5. \A v \in VarsOf(F[i]) : v \in VarsIn(F) /\ v \in Vars /\ dom[v] = {s[v]}
  <2> TAKE v \in VarsOf(F[i])
  <2>1. v \in VarsIn(F)
    BY DEF VarsIn
  <2>2. Problem(F, D0) /\ Shrunk(Vars, D0, dom)
    BY DEF FilterInv
  <2>3. v \in Vars /\ Single(dom[v])
    BY <2>1, <2>2, AssignedStay
  <2>4. dom[v] = {s[v]}
    BY <2>1, <2>3 DEF Single
  <2> QED BY <2>1, <2>3, <2>4
<1>6. /\ \A k \in OfType(constraints, "unary") : Accepted(k)
      /\ \A a \in Arcs(constraints) : ArcSupported(a)
      /\ \A k \in OfType(constraints, "custom") : Apart(k)
  BY DEF LocalInv, GlobalInv, Succeeding, UnaryTodo, GlobalTodo
<1>7. CASE Translate(F[i]).type = "unary"
  <2>1. VarsOf(F[i]) = {c.scope[1]}
    BY <1>1, <1>2, <1>7, UnaryExact
  <2>2. s[c.scope[1]] \in UnaryKept(c, {s[c.scope[1]]})
    BY <1>4, <1>5, <1>6, <1>7, <2>1 DEF Accepted
  <2> QED BY <1>1, <1>2, <1>7, <2>2, UnaryExact
<1>8. CASE Translate(F[i]).type = "arc"
  <2>1. ArcFacts(F[i], c)
    BY <1>1, <1>2, <1>8, ArcExact
  <2> DEFINE a == <<i, 1>>
  <2>2. a \in Arcs(constraints)
    BY <1>4, <1>8 DEF Arcs
  <2>3. Target(a) = c.scope[1] /\ Partner(a) = c.scope[2] /\ Pruner(a) = c
    BY DEF Target, Partner, Pruner
  <2>4. dom[c.scope[1]] = {s[c.scope[1]]} /\ dom[c.scope[2]] = {s[c.scope[2]]}
    BY <1>5, <2>1 DEF ArcFacts
  <2>5. ArcSupported(a)
    BY <1>6, <2>2
  <2>6. \E y \in dom[c.scope[2]] : Related(c, 1, s[c.scope[1]], y)
    BY <2>3, <2>4, <2>5 DEF ArcSupported
  <2>7. Meets(c, s[c.scope[1]], s[c.scope[2]])
    BY <2>4, <2>6 DEF Related
  <2> QED BY <2>1, <2>7 DEF ArcFacts
<1>9. CASE Translate(F[i]).type = "custom"
  <2> DEFINE n == Cardinality(VarsOf(F[i]))
  <2>1. GlobalFacts(F[i], c, n)
    BY <1>1, <1>2, <1>9, GlobalExact
  <2> HIDE DEF n
  <2>2. DOMAIN c.scope = 1..n /\ \A j \in 1..n : c.scope[j] \in VarsOf(F[i])
    BY <2>1 DEF GlobalFacts, ScopeOver
  <2>3. \A j \in 1..n : dom[c.scope[j]] = {s[c.scope[j]]}
    BY <1>5, <2>2
  <2>4. Apart(i)
    BY <1>4, <1>6, <1>9
  <2>5. \A j, k \in 1..n : dom[c.scope[j]] = dom[c.scope[k]] => j = k
    BY <2>2, <2>4 DEF Apart
  <2> HIDE DEF c
  <2>6. \A j, k \in 1..n : s[c.scope[j]] = s[c.scope[k]] => j = k
    BY <2>3, <2>5
  <2> QED BY <2>1, <2>6 DEF GlobalFacts
<1> QED BY <1>3, <1>7, <1>8, <1>9

-----------------------------------------------------------------------------
ApartInv == AssignedOver(Formulas, problem.dom) /\ PlainOnly(Formulas) => GlobalInv

LEMMA ApartAlways == CallSpec => [](LInv /\ ApartInv)
<1>1. ASSUME CallInit PROVE ApartInv
  BY <1>1 DEF CallInit, ApartInv, GlobalInv
<1>2. ASSUME LInv, ApartInv, [CallNext]_callVars PROVE ApartInv'
  <2>1. IInv
    BY <1>2 DEF LInv
  <2>2. PICK F, D0 : F = Formulas /\ D0 = problem.dom
    OBVIOUS
  <2>3. F = Formulas' /\ D0 = problem'.dom
    BY <1>2, <2>1, <2>2, CallSteps DEF Formulas
  <2>4. \/ StartFilter(Translated(F), D0)
        \/ FilterStep
        \/ UNCHANGED handler
    BY <1>2, <2>1, <2>2, CallSteps
  <2>5. FilterInv(F, D0)
    BY <2>1, <2>2 DEF IInv
  <2>6. ASSUME AssignedOver(F, D0), PlainOnly(F) PROVE GlobalInv'
    <3>1. GlobalInv
      BY <1>2, <2>2, <2>6 DEF ApartInv
    <3>2. CASE UNCHANGED handler
      BY <3>1, <3>2 DEF handler, GlobalInv, Succeeding, GlobalTodo, Apart, OfType
    <3> QED BY <2>4, <2>5, <2>6, <3>1, <3>2, StartApart, ApartStep
  <2>7. AssignedOver(Formulas', problem'.dom) /\ PlainOnly(Formulas') => GlobalInv'
    BY <2>3, <2>6
  <2> QED BY <2>7 DEF ApartInv, AssignedOver, PlainOnly, VarsIn
<1> QED BY <1>1, <1>2, LocalAlways, PTL DEF CallSpec

LEMMA AssignmentDecided ==
    ASSUME LInv, ApartInv, PlainOnly(Formulas)
    PROVE  AssignmentsDecided
<1> SUFFICES ASSUME csp = "done", \A v \in Vars : Cardinality(problem.dom[v]) = 1
             PROVE  result # "Failure" <=> Solutions(Formulas, problem.dom) # {}
  BY DEF AssignmentsDecided
<1>1. PICK F, D0 : F = Formulas /\ D0 = problem.dom
  OBVIOUS
<1>2. FilterInv(F, D0) /\ PlainOnly(F) /\ Problem(F, D0) /\ DomainsOver(Vars, D0)
  BY <1>1 DEF LInv, IInv, FilterInv, Problem
<1>3. \A v \in Vars : \E x : D0[v] = {x}
  BY <1>1, <1>2, FS_Singleton DEF DomainsOver
<1>4. AssignedOver(F, D0)
  <2>1. \A i \in DOMAIN F : Legal(F[i])
    BY <1>2, ProblemFacts
  <2>2. \A v \in VarsIn(F) : v \in Vars
    BY <2>1 DEF VarsIn, Legal
  <2> QED BY <1>3, <2>2 DEF AssignedOver, Single
<1>5. LocalInv /\ GlobalInv
  BY <1>1, <1>2, <1>4 DEF LInv, ApartInv, Tame
<1>6. ASSUME result # "Failure" PROVE Solutions(F, D0) # {}
  <2> DEFINE s == [v \in Vars |-> CHOOSE x : D0[v] = {x}]
  <2>1. \A v \in Vars : D0[v] = {s[v]} /\ s[v] \in Int
    BY <1>2, <1>3 DEF DomainsOver
  <2>2. s \in Assignment
    BY <2>1 DEF Assignment
  <2> HIDE DEF s
  <2>3. s \in Within(D0)
    BY <1>2, <2>1, <2>2, WithinIs
  <2>4. \A v \in VarsIn(F) : s[v] \in dom[v]
    <3>1. Shrunk(Vars, D0, dom)
      BY <1>2 DEF FilterInv
    <3>2. \A v \in VarsIn(F) : v \in Vars /\ dom[v] = D0[v]
      BY <1>2, <1>4, <3>1, AssignedStay
    <3> QED BY <2>1, <3>2
  <2>5. \A i \in DOMAIN F : Satisfied(F[i], s)
    BY <1>2, <1>4, <1>5, <1>6, <2>2, <2>4, Decides
  <2> QED BY <2>3, <2>5 DEF Solutions
<1>7. ASSUME result = "Failure" PROVE Solutions(F, D0) = {}
  <2>1. SumsInOrder(F)
    BY <1>2 DEF SumsInOrder, SumInOrder, PlainOnly, Plain
  <2> QED BY <1>2, <1>7, <2>1, NoSolution
<1> QED BY <1>1, <1>6, <1>7

-----------------------------------------------------------------------------
(***************************************************************************)
(* A call with one alldiff and nothing else: nothing is filtered before    *)
(* the global constraint is, and nothing after it.                         *)
(***************************************************************************)
Lone(F) == Len(F) = 1 /\ F[1].op = "alldiff"

\* A single alldiff is over domains without gaps.
OnIntervals(F, D) == Lone(F) => Convex(VarsOf(F[1]), D)

BoundsLeftIn(c, D) == BoundsHold(DOMAIN c.scope, [i \in DOMAIN c.scope |-> D[c.scope[i]]])
BoundsLeft == BoundsLeftIn(constraints[1], dom)

LoneInv(D0) ==
    /\ round = "first" /\ b_result = "Unpruned"
    /\ csp \in {"unary", "arcs"} \/ (csp = "globals" /\ todo # {}) => dom = D0
    /\ Succeeding /\ csp \in {"globals", "loop", "done"} /\ GlobalTodo = {} => BoundsLeft

LEMMA LoneFacts ==
    ASSUME NEW F, NEW D0, FilterInv(F, D0), csp # "idle", Lone(F), PlainOnly(F)
    PROVE  /\ DOMAIN F = {1} /\ DOMAIN constraints = {1} /\ VarsOf(F[1]) \subseteq Vars
           /\ OfType(constraints, "unary") = {} /\ OfType(constraints, "custom") = {1}
           /\ Arcs(constraints) = {}
           /\ GlobalFacts(F[1], constraints[1], Cardinality(VarsOf(F[1])))
<1>1. F \in Seq(FormulaType) /\ (\A i \in DOMAIN F : Legal(F[i])) /\ constraints = Translated(F)
  BY DEF FilterInv, Problem
<1>2. DOMAIN F = {1}
  <2>1. DOMAIN F = 1..Len(F)
    BY <1>1, LenProperties
  <2> QED BY <2>1 DEF Lone
<1>3. DOMAIN constraints = {1} /\ constraints[1] = Translate(F[1])
  BY <1>1, <1>2 DEF Translated
<1>4. Translate(F[1]).type = "custom"
  BY DEF Lone, Translate, Constraint, Relations
<1>5. OfType(constraints, "unary") = {} /\ OfType(constraints, "custom") = {1} /\ OfType(constraints, "arc") = {}
  BY <1>3, <1>4 DEF OfType
<1>6. GlobalFacts(F[1], constraints[1], Cardinality(VarsOf(F[1])))
  BY <1>1, <1>2, <1>3, <1>4, GlobalExact DEF PlainOnly
<1> QED BY <1>1, <1>2, <1>3, <1>5, <1>6 DEF Arcs, Legal

LEMMA ProjectUpdated ==
    ASSUME NEW c, NEW n \in Nat, ScopeOver(c, n), NEW E, DomainsOver(1..n, E)
    PROVE  [i \in DOMAIN c.scope |-> Updated(c, E)[c.scope[i]]] = E
<1>1. DOMAIN c.scope = 1..n /\ \A i \in 1..n : c.scope[i] \in Vars
  BY DEF ScopeOver
<1>2. ASSUME NEW i \in 1..n PROVE Updated(c, E)[c.scope[i]] = E[i]
  <2> DEFINE j == CHOOSE k \in DOMAIN c.scope : c.scope[k] = c.scope[i]
  <2>1. \E k \in DOMAIN c.scope : c.scope[k] = c.scope[i]
    BY <1>1
  <2>2. j \in DOMAIN c.scope /\ c.scope[j] = c.scope[i]
    BY <2>1
  <2>3. j = i
    BY <1>1, <2>2 DEF ScopeOver
  <2>4. Updated(c, E)[c.scope[i]] = E[j]
    BY <1>1, <2>1 DEF Updated
  <2> QED BY <2>3, <2>4
<1>3. E = [i \in 1..n |-> E[i]]
  BY DEF DomainsOver
<1> QED BY <1>1, <1>2, <1>3

\* The alldiff is filtered.
LEMMA LoneFiltered ==
    ASSUME NEW F, NEW D0, FilterInv(F, D0), csp # "idle", Lone(F), PlainOnly(F), Convex(VarsOf(F[1]), D0),
           dom = D0, constraints' = constraints,
           NEW E \in FilterCustom(constraints[1], Project(constraints[1])), ~E.failed,
           dom' = Updated(constraints[1], E.dom)
    PROVE  BoundsLeft'
<1> DEFINE c == constraints[1]
           n == Cardinality(VarsOf(F[1]))
<1>1. GlobalFacts(F[1], c, n)
  BY LoneFacts
<1>2. c.op = "alldiff" /\ n \in Nat /\ ScopeOver(c, n) /\ DOMAIN c.scope = 1..n
  BY <1>1 DEF GlobalFacts, ScopeOver
<1>3. DomainsOver(1..n, Project(c)) /\ \A i \in 1..n : Project(c)[i] = dom[c.scope[i]]
  BY <1>2, ProjectFacts
<1>4. Convex(1..n, Project(c))
  BY <1>1, <1>3 DEF Convex, GlobalFacts
<1>5. E \in FilterAlldiff(Project(c))
  BY <1>2 DEF FilterCustom
<1> HIDE DEF c, n
<1>6. Shrunk(1..n, Project(c), E.dom)
  BY <1>2, <1>3, <1>5, AlldiffFacts
<1>7. BoundsHold(1..n, E.dom)
  <2>1. PICK P : P = Project(c)
    OBVIOUS
  <2> QED BY <1>2, <1>3, <1>4, <1>5, <2>1, AlldiffBounds
<1>8. [i \in DOMAIN c.scope |-> Updated(c, E.dom)[c.scope[i]]] = E.dom
  BY <1>2, <1>6, ProjectUpdated DEF Shrunk
<1>9. BoundsHold(DOMAIN c.scope, [i \in DOMAIN c.scope |-> Updated(c, E.dom)[c.scope[i]]])
  BY <1>2, <1>7, <1>8
<1>10. BoundsLeftIn(constraints[1], Updated(constraints[1], E.dom))
  BY <1>9 DEF BoundsLeftIn, c
<1> QED BY <1>10 DEF BoundsLeft

LEMMA LoneStep ==
    ASSUME NEW F, NEW D0, FilterInv(F, D0), csp # "idle", Lone(F), PlainOnly(F), Convex(VarsOf(F[1]), D0),
           LoneInv(D0), FilterStep
    PROVE  LoneInv(D0)'
<1>1. /\ DOMAIN constraints = {1}
      /\ OfType(constraints, "unary") = {} /\ OfType(constraints, "custom") = {1} /\ Arcs(constraints) = {}
  BY LoneFacts
<1>2. round = "first" /\ b_result = "Unpruned"
  BY DEF LoneInv
<1>3. ~UnaryFilter
  BY <1>1, UnaryStep
<1>4. ~ArcReduce
  BY <1>1, ArcStep
<1>5. ASSUME UnaryDone \/ ArcsDone \/ GlobalsDone \/ LeaveLoop, BoundsLeft
      PROVE  BoundsLeft'
  <2>1. UNCHANGED <<constraints, dom>>
    BY <1>5 DEF UnaryDone, ArcsDone, GlobalsDone, LeaveLoop
  <2> QED BY <1>5, <2>1 DEF BoundsLeft
<1>6. CASE UnaryDone
  <2>1. csp = "unary" /\ csp' = "arcs" /\ UNCHANGED <<dom, round, b_result>>
    BY <1>1, <1>6 DEF UnaryDone
  <2> QED BY <1>2, <2>1 DEF LoneInv
<1>7. CASE ArcsDone
  <2>1. csp = "arcs" /\ csp' = "globals" /\ todo' = {1} /\ UNCHANGED <<dom, round, b_result>>
    BY <1>1, <1>2, <1>7 DEF ArcsDone, GlobalsFollow
  <2> QED BY <1>2, <2>1 DEF LoneInv, GlobalTodo
<1>8. CASE GlobalFilter
  <2>1. csp = "globals" /\ todo # {} /\ todo \subseteq {1}
    BY <1>1, <1>8 DEF GlobalFilter, FilterInv
  <2>2. todo = {1} /\ Min(todo) = 1
    <3>0. todo = {1}
      BY <2>1
    <3>1. todo = {1} /\ todo \in SUBSET Int
      BY <3>0
    <3>2. IsFiniteSet(todo)
      BY <3>1, FS_Singleton
    <3>3. Min(todo) \in todo
      BY <3>1, <3>2, Bounds
    <3> QED BY <3>1, <3>3
  <2>3. todo' = {} /\ UNCHANGED <<constraints, round, b_result>>
    BY <1>8, <2>2 DEF GlobalFilter
  <2>4. PICK E \in FilterCustom(constraints[1], Project(constraints[1])) :
           IF E.failed
           THEN csp' = "done" /\ result' = "Failure"
           ELSE dom' = Updated(constraints[1], E.dom) /\ csp' = csp
    BY <1>2, <1>8, <2>2 DEF GlobalFilter, Return
  <2>5. CASE E.failed
    BY <1>2, <2>3, <2>4, <2>5 DEF LoneInv, Succeeding
  <2>6. CASE ~E.failed
    <3>1. dom = D0
      BY <2>1 DEF LoneInv
    <3>2. BoundsLeft'
      BY <2>3, <2>4, <2>6, <3>1, LoneFiltered
    <3> QED BY <1>2, <2>1, <2>3, <2>4, <2>6, <3>2 DEF LoneInv
  <2> QED BY <2>5, <2>6
<1>9. CASE GlobalsDone
  <2>1. csp = "globals" /\ todo = {} /\ csp' = "loop" /\ UNCHANGED <<round, b_result>>
    BY <1>9 DEF GlobalsDone
  <2>2. BoundsLeft
    BY <2>1 DEF LoneInv, Succeeding, GlobalTodo
  <2> QED BY <1>2, <1>5, <1>9, <2>1, <2>2 DEF LoneInv
<1>10. CASE Refilter
  BY <1>2, <1>10 DEF Refilter
<1>11. CASE LeaveLoop
  <2>1. csp = "loop" /\ csp' = "done" /\ UNCHANGED <<round, b_result>>
    BY <1>11 DEF LeaveLoop
  <2>2. BoundsLeft
    BY <2>1 DEF LoneInv, Succeeding, GlobalTodo
  <2> QED BY <1>2, <1>5, <1>11, <2>1, <2>2 DEF LoneInv
<1> QED BY <1>3, <1>4, <1>6, <1>7, <1>8, <1>9, <1>10, <1>11 DEF FilterStep

BoundsInv ==
    /\ LInv
    /\ OnIntervals(Formulas, problem.dom) /\ PlainOnly(Formulas) /\ Lone(Formulas) => LoneInv(problem.dom)

LEMMA BoundsAlways == CallSpec => []BoundsInv
<1>1. ASSUME CallInit, LInv PROVE BoundsInv
  BY <1>1 DEF CallInit, BoundsInv, LoneInv, Succeeding
<1>2. ASSUME LInv, LInv', BoundsInv, [CallNext]_callVars PROVE BoundsInv'
  <2>1. IInv
    BY <1>2 DEF LInv
  <2>2. PICK F, D0 : F = Formulas /\ D0 = problem.dom
    OBVIOUS
  <2>3. F = Formulas' /\ D0 = problem'.dom
    BY <1>2, <2>1, <2>2, CallSteps DEF Formulas
  <2>4. \/ StartFilter(Translated(F), D0)
        \/ FilterStep
        \/ UNCHANGED handler
    BY <1>2, <2>1, <2>2, CallSteps
  <2>5. FilterInv(F, D0)
    BY <2>1, <2>2 DEF IInv
  <2>6. ASSUME OnIntervals(F, D0), PlainOnly(F), Lone(F) PROVE LoneInv(D0)'
    <3>1. LoneInv(D0) /\ Convex(VarsOf(F[1]), D0)
      BY <1>2, <2>2, <2>6 DEF BoundsInv, OnIntervals
    <3>2. CASE UNCHANGED handler
      BY <3>1, <3>2 DEF handler, LoneInv, Succeeding, GlobalTodo, BoundsLeft
    <3>3. CASE StartFilter(Translated(F), D0)
      <4>1. Translated(F) # << >>
        <5>1. F \in Seq(FormulaType)
          BY <2>5 DEF FilterInv, Problem
        <5>2. DOMAIN F = 1..Len(F)
          BY <5>1, LenProperties
        <5>3. 1 \in DOMAIN Translated(F)
          BY <2>6, <5>2 DEF Lone, Translated
        <5> QED BY <5>3
      <4>2. csp' = "unary" /\ dom' = D0 /\ round' = "first" /\ b_result' = "Unpruned"
        BY <3>3, <4>1 DEF StartFilter
      <4> QED BY <4>2 DEF LoneInv
    <3>4. CASE FilterStep
      <4>1. csp # "idle"
        BY <3>4 DEF FilterStep, UnaryFilter, UnaryDone, ArcReduce, ArcsDone, GlobalFilter, GlobalsDone,
                    Refilter, LeaveLoop
      <4> QED BY <2>5, <2>6, <3>1, <3>4, <4>1, LoneStep
    <3> QED BY <2>4, <3>2, <3>3, <3>4
  <2>7. OnIntervals(Formulas', problem'.dom) /\ PlainOnly(Formulas') /\ Lone(Formulas') => LoneInv(problem.dom)'
    <3>1. ASSUME OnIntervals(F, D0), PlainOnly(F), Lone(F) PROVE LoneInv(problem.dom)'
      BY <2>3, <2>6, <3>1 DEF LoneInv
    <3> QED BY <2>3, <3>1
  <2> QED BY <1>2, <2>7 DEF BoundsInv, OnIntervals, PlainOnly, Lone
<1> QED BY <1>1, <1>2, LocalAlways, PTL DEF CallSpec

LEMMA BoundsAreConsistent ==
    ASSUME BoundsInv, PlainOnly(Formulas), OnIntervals(Formulas, problem.dom)
    PROVE  BoundsConsistent
<1> SUFFICES ASSUME csp = "done", result # "Failure", Len(Formulas) = 1, Formulas[1].op = "alldiff",
                    NEW v \in VarsOf(Formulas[1]), NEW x \in {Min(dom[v]), Max(dom[v])}
             PROVE  \E s \in Within(Hull(dom)) : s[v] = x /\ Satisfied(Formulas[1], s)
  BY DEF BoundsConsistent
<1> DEFINE f == Formulas[1]
           c == constraints[1]
           n == Cardinality(VarsOf(f))
<1>1. PICK F, D0 : F = Formulas /\ D0 = problem.dom
  OBVIOUS
<1>2. FilterInv(F, D0) /\ Lone(F) /\ PlainOnly(F) /\ LoneInv(D0)
  BY <1>1 DEF BoundsInv, LInv, IInv, Lone
<1>3. GlobalFacts(f, c, n) /\ VarsOf(f) \subseteq Vars
  BY <1>1, <1>2, LoneFacts
<1>4. n \in Nat /\ ScopeOver(c, n) /\ DOMAIN c.scope = 1..n
  BY <1>3 DEF GlobalFacts, ScopeOver
<1>5. BoundsLeft
  BY <1>2 DEF LoneInv, Succeeding, GlobalTodo
<1>6. Project(c) = [i \in 1..n |-> dom[c.scope[i]]]
  BY <1>4 DEF Project
<1>7. PICK i \in 1..n : c.scope[i] = v
  BY <1>3 DEF GlobalFacts
<1>8. PICK val : Different(1..n, Project(c), val) /\ val[i] = x
  <2>1. BoundsHold(1..n, Project(c))
    BY <1>4, <1>5, <1>6 DEF BoundsLeft, BoundsLeftIn
  <2>2. x \in {Min(Project(c)[i]), Max(Project(c)[i])}
    BY <1>6, <1>7
  <2> HIDE DEF c, n
  <2> QED BY <2>1, <2>2 DEF BoundsHold
<1>9. /\ \A j \in 1..n : val[j] \in dom[c.scope[j]]
      /\ \A j, k \in 1..n : val[j] = val[k] => j = k
  BY <1>6, <1>8 DEF Different
<1>10. DomainsOver(Vars, dom)
  BY <1>2 DEF FilterInv, Shrunk
<1> DEFINE s == [u \in Vars |-> IF \E j \in 1..n : c.scope[j] = u
                                THEN val[CHOOSE j \in 1..n : c.scope[j] = u] ELSE Min(dom[u])]
<1>11. ASSUME NEW j \in 1..n PROVE s[c.scope[j]] = val[j]
  <2>1. c.scope[j] \in Vars /\ \A k \in 1..n : c.scope[k] = c.scope[j] => k = j
    BY <1>4 DEF ScopeOver
  <2> QED BY <2>1
<1>12. ASSUME NEW u \in Vars PROVE s[u] \in dom[u]
  <2>1. CASE \E j \in 1..n : c.scope[j] = u
    BY <1>9, <1>11, <2>1
  <2>2. CASE ~ \E j \in 1..n : c.scope[j] = u
    <3>1. Min(dom[u]) \in dom[u]
      BY <1>10, Bounds DEF DomainsOver
    <3> QED BY <2>2, <3>1
  <2> QED BY <2>1, <2>2
<1>13. s = [u \in Vars |-> s[u]]
  OBVIOUS
<1> HIDE DEF s
<1>14. s \in Within(Hull(dom))
  <2>1. \A u \in Vars : Hull(dom)[u] = Min(dom[u])..Max(dom[u])
    BY DEF Hull
  <2>2. \A u \in Vars : s[u] \in Hull(dom)[u]
    <3> TAKE u \in Vars
    <3>1. dom[u] \subseteq Int /\ Min(dom[u]) \in dom[u] /\ Max(dom[u]) \in dom[u]
          /\ \A y \in dom[u] : Min(dom[u]) <= y /\ y <= Max(dom[u])
      BY <1>10, Bounds DEF DomainsOver
    <3> QED BY <1>12, <2>1, <3>1
  <2>3. s \in [Vars -> UNION {Hull(dom)[u] : u \in Vars}]
    BY <1>13, <2>2
  <2> QED BY <2>2, <2>3 DEF Within
<1>15. \A j, k \in 1..n : s[c.scope[j]] = s[c.scope[k]] => j = k
  BY <1>9, <1>11
<1>16. Satisfied(f, s)
  <2> HIDE DEF f, c, n
  <2> QED BY <1>3, <1>15 DEF GlobalFacts
<1>17. s[v] = x
  BY <1>7, <1>8, <1>11
<1> QED BY <1>14, <1>16, <1>17

\* What DirectCSPHandler::filter leaves when it succeeds is all that its filters
\* can decide, for any formulas that translate without loss and whatever order
\* it takes the arcs and the variables in: without global constraints the
\* largest locally consistent domains, although AC3 puts back neither the arcs
\* of the constraint it has just used nor those of the variable it has just
\* pruned; on variables with a single value it succeeds exactly if the formulas
\* hold; and an alldiff on its own, over domains without gaps, leaves bounds
\* that belong to assignments of different values.
THEOREM FilteringIsComplete ==
    CallSpec => [](PlainOnly(Formulas) /\ OnIntervals(Formulas, problem.dom) => FilteringComplete)
<1>1. BoundsInv /\ LInv /\ ApartInv
      => (PlainOnly(Formulas) /\ OnIntervals(Formulas, problem.dom) => FilteringComplete)
  BY ArcConsistent, AssignmentDecided, BoundsAreConsistent DEF FilteringComplete
<1> QED BY <1>1, ApartAlways, BoundsAlways, PTL

-----------------------------------------------------------------------------
(***************************************************************************)
(* The goal causes.  While values are selected the handler filters the     *)
(* formulas of the goal from domains D0, in which every variable of set    *)
(* has one value; the causes are those values, but for the seed's.         *)
(***************************************************************************)
LEMMA Least ==
    ASSUME NEW S \in SUBSET Nat, NEW x \in S
    PROVE  \E m \in S : \A y \in S : m <= y
<1> SUFFICES ASSUME \A m \in S : \E y \in S : ~ (m <= y) PROVE FALSE
  OBVIOUS
<1> DEFINE N == {k \in Nat : \A y \in S : k <= y}
<1>1. 0 \in N
  OBVIOUS
<1>2. ASSUME NEW k \in N PROVE k + 1 \in N
  <2>1. k \notin S
    OBVIOUS
  <2>2. \A y \in S : k <= y /\ k # y
    BY <2>1
  <2> QED BY <2>2
<1>3. N = Nat
  <2> HIDE DEF N
  <2>1. N \in SUBSET Nat
    BY DEF N
  <2> QED BY <1>1, <1>2, <2>1, Induction
<1>4. x + 1 \in N
  <2> HIDE DEF N
  <2> QED BY <1>3
<1> QED BY <1>4

LEMMA GoalVarsAre ==
    ASSUME task \in Tasks
    PROVE  GoalVars = VarsIn(task.goal) /\ GoalVars \subseteq Vars
<1>1. \A i \in DOMAIN task.goal : VarsOf(task.goal[i]) \subseteq Vars
  BY TaskFacts DEF Legal
<1> QED BY <1>1 DEF GoalVars, VarsIn

LEMMA SmallestIs ==
    ASSUME task \in Tasks, DomainsOver(Vars, dom), set # GoalVars, set \subseteq GoalVars
    PROVE  SmallestDomain \in GoalVars \ set
<1> DEFINE unset == GoalVars \ set
           C == {Cardinality(dom[v]) : v \in unset}
           Q == {v \in unset : \A w \in unset : Cardinality(dom[v]) <= Cardinality(dom[w])}
<1>1. unset # {} /\ unset \subseteq Vars
  BY GoalVarsAre
<1>2. \A v \in unset : Cardinality(dom[v]) \in Nat
  BY <1>1, FS_CardinalityType DEF DomainsOver
<1>3. C \in SUBSET Nat /\ C # {}
  BY <1>1, <1>2
<1>4. PICK m \in C : \A c \in C : m <= c
  <2> HIDE DEF C
  <2> QED BY <1>3, Least
<1>5. Q # {}
  BY <1>4
<1>6. IsFiniteSet(Q) /\ Q \subseteq Int
  <2>1. Q \subseteq Vars
    BY <1>1
  <2>2. IsFiniteSet(Vars) /\ Vars \subseteq Int
    BY VarsAssumption
  <2> HIDE DEF Q
  <2> QED BY <2>1, <2>2, FS_Subset
<1>7. Min(Q) \in Q
  <2> HIDE DEF Q
  <2> QED BY <1>5, <1>6, Bounds
<1> QED BY <1>7 DEF SmallestDomain

LEMMA SelectedIs ==
    ASSUME NEW v, NEW D \in SUBSET Int, IsFiniteSet(D), D # {}
    PROVE  SelectedValue(v, D) \in D
BY Bounds DEF SelectedValue

CausesAre(D0) ==
    \A b : b \in causes <=> \E v \in set : \E x \in D0[v] : b = <<v, x>> /\ x # Seed[v]

Selecting(F, D0) ==
    /\ FilterInv(F, D0) /\ csp # "idle"
    /\ AssignedOver(F, D0) => LocalInv /\ GlobalInv
    /\ \A v \in Vars : D0[v] \subseteq relaxed[v]
    /\ set \subseteq GoalVars /\ \A v \in set : Single(D0[v])
    /\ CausesAre(D0)

\* The handler is called, or makes a step.
LEMMA SelectingCalled ==
    ASSUME NEW F, NEW D0, Problem(F, D0), StartFilter(Translated(F), D0)
    PROVE  FilterInv(F, D0)' /\ LocalInv' /\ GlobalInv' /\ csp' # "idle"
<1>1. csp' # "idle"
  BY DEF StartFilter
<1> QED BY <1>1, StartInv, StartLocal, StartApart

LEMMA SelectingSteps ==
    ASSUME NEW F, NEW D0, Selecting(F, D0), PlainOnly(F), FilterStep \/ UNCHANGED handler,
           UNCHANGED <<task, relaxed, set, causes>>
    PROVE  Selecting(F, D0)'
<1>1. FilterInv(F, D0)
  BY DEF Selecting
<1>2. FilterInv(F, D0)'
  BY <1>1, FilterStepInv, FilterStutterInv
<1>3. csp' # "idle"
  BY DEF Selecting, FilterStep, UnaryFilter, UnaryDone, ArcReduce, ArcsDone, GlobalFilter, GlobalsDone,
         Refilter, LeaveLoop, Return, handler
<1>4. ASSUME AssignedOver(F, D0) PROVE LocalInv' /\ GlobalInv'
  <2>1. LocalInv /\ GlobalInv /\ Tame(F, D0)
    BY <1>4 DEF Selecting, Tame
  <2>2. CASE FilterStep
    BY <1>1, <1>4, <2>1, <2>2, LocalStep, ApartStep
  <2>3. CASE UNCHANGED handler
    <3>1. LocalInv'
      BY <2>1, <2>3, LocalStutter
    <3>2. GlobalInv'
      BY <2>1, <2>3 DEF handler, GlobalInv, Succeeding, GlobalTodo, Apart, OfType
    <3> QED BY <3>1, <3>2
  <2> QED BY <2>2, <2>3
<1>5. set' \subseteq GoalVars' /\ \A v \in set' : Single(D0[v])
  BY DEF Selecting, GoalVars
<1>6. CausesAre(D0)'
  BY DEF Selecting, CausesAre, Seed
<1> QED BY <1>2, <1>3, <1>4, <1>5, <1>6 DEF Selecting

\* The next value is selected and propagated.
LEMMA SelectingNext ==
    ASSUME task \in Tasks, NEW F, F = task.goal, NEW D0, Selecting(F, D0), SelectValue
    PROVE  \E D1 : Selecting(F, D1)'
<1> DEFINE v == SmallestDomain
           x == SelectedValue(v, dom[v])
<1>0. PICK D1 : D1 = [dom EXCEPT ![v] = {x}]
  OBVIOUS
<1>1. /\ set # GoalVars /\ causes' = causes \cup ({<<v, x>>} \ SeedAtoms) /\ set' = set \cup {v}
      /\ StartFilter(Translated(F), D1) /\ UNCHANGED <<task, relaxed>>
  BY <1>0 DEF SelectValue, Propagate, GoalConstraints, Translated, graph
<1>2. /\ FilterInv(F, D0) /\ set \subseteq GoalVars /\ CausesAre(D0)
      /\ \A w \in Vars : D0[w] \subseteq relaxed[w]
      /\ \A w \in set : Single(D0[w])
  BY DEF Selecting
<1>3. /\ DomainsOver(Vars, dom) /\ dom \in [Vars -> SUBSET Int]
      /\ \A w \in Vars : dom[w] # {} /\ IsFiniteSet(dom[w]) /\ dom[w] \subseteq D0[w] /\ dom[w] \subseteq Int
  BY <1>2 DEF FilterInv, Shrunk, DomainsOver
<1>4. v \in GoalVars /\ v \notin set /\ GoalVars \subseteq Vars
  BY <1>1, <1>2, <1>3, SmallestIs, GoalVarsAre
<1> HIDE DEF v
<1>5. x \in dom[v] /\ x \in Int
  BY <1>3, <1>4, SelectedIs
<1> HIDE DEF x
<1>6. /\ D1 \in [Vars -> SUBSET Int]
      /\ \A w \in Vars : D1[w] = IF w = v THEN {x} ELSE dom[w]
  BY <1>0, <1>3, <1>4, <1>5
<1>7. \A w \in Vars : D1[w] # {} /\ IsFiniteSet(D1[w]) /\ D1[w] \subseteq relaxed[w]
  <2> TAKE w \in Vars
  <2>1. dom[w] \subseteq relaxed[w]
    BY <1>2, <1>3
  <2>2. CASE w = v
    <3>1. D1[w] = {x} /\ x \in relaxed[w] /\ IsFiniteSet({x})
      BY <1>5, <1>6, <2>1, <2>2, FS_Singleton
    <3> QED BY <3>1
  <2>3. CASE w # v
    BY <1>3, <1>6, <2>1, <2>3
  <2> QED BY <2>2, <2>3
<1>8. Problem(F, D1)
  BY <1>2, <1>6, <1>7 DEF FilterInv, Problem, DomainsOver
<1>9. FilterInv(F, D1)' /\ LocalInv' /\ GlobalInv' /\ csp' # "idle"
  BY <1>1, <1>8, SelectingCalled
<1>10. \A w \in set : w \in Vars /\ D1[w] = D0[w]
  <2> TAKE w \in set
  <2>1. w \in Vars /\ w # v
    BY <1>2, <1>4
  <2>2. PICK y : D0[w] = {y}
    BY <1>2 DEF Single
  <2>3. dom[w] = {y}
    BY <1>3, <2>1, <2>2
  <2> QED BY <1>6, <2>1, <2>2, <2>3
<1>11. D1[v] = {x}
  BY <1>4, <1>6
<1>12. \A w \in set' : Single(D1[w])
  BY <1>1, <1>2, <1>10, <1>11 DEF Single
<1>13. <<v, x>> \in SeedAtoms <=> x = Seed[v]
  BY <1>4 DEF SeedAtoms
<1>14. ASSUME NEW b
       PROVE  b \in causes' <=> \E w \in set' : \E y \in D1[w] : b = <<w, y>> /\ y # Seed[w]
  <2>1. b \in causes' <=> b \in causes \/ (b = <<v, x>> /\ x # Seed[v])
    BY <1>1, <1>13
  <2>2. b \in causes <=> \E w \in set : \E y \in D1[w] : b = <<w, y>> /\ y # Seed[w]
    BY <1>2, <1>10 DEF CausesAre
  <2>3. (b = <<v, x>> /\ x # Seed[v]) <=> \E y \in D1[v] : b = <<v, y>> /\ y # Seed[v]
    BY <1>11
  <2>4. (\E w \in set' : \E y \in D1[w] : b = <<w, y>> /\ y # Seed[w])
          <=> \/ \E w \in set : \E y \in D1[w] : b = <<w, y>> /\ y # Seed[w]
              \/ \E y \in D1[v] : b = <<v, y>> /\ y # Seed[v]
    BY <1>1
  <2> QED BY <2>1, <2>2, <2>3, <2>4
<1>15. CausesAre(D1)'
  BY <1>1, <1>14 DEF CausesAre, Seed
<1>16. set' \subseteq GoalVars'
  BY <1>1, <1>2, <1>4 DEF GoalVars
<1>17. \A w \in Vars : D1[w] \subseteq relaxed'[w]
  BY <1>1, <1>7
<1>18. Selecting(F, D1)'
  BY <1>9, <1>12, <1>15, <1>16, <1>17 DEF Selecting
<1> QED BY <1>18

\* When every value is selected, the seed with the causes written over it is a
\* goal state: the handler has decided the goal.
Overwritten ==
    [v \in Vars |-> IF \E a \in causes : a[1] = v THEN (CHOOSE a \in causes : a[1] = v)[2] ELSE Seed[v]]

LEMMA AllSelectedReach ==
    ASSUME task \in Tasks, NEW F, F = task.goal, NEW D0, Selecting(F, D0), PlainOnly(F),
           set = GoalVars, csp = "done", result # "Failure"
    PROVE  (\A a, b \in causes : a[1] = b[1] => a = b) /\ IsGoal(Overwritten)
<1>1. /\ FilterInv(F, D0) /\ CausesAre(D0)
      /\ \A v \in set : Single(D0[v])
  BY DEF Selecting
<1>2. set = VarsIn(F) /\ set \subseteq Vars
  BY GoalVarsAre
<1>3. AssignedOver(F, D0)
  BY <1>1, <1>2 DEF AssignedOver
<1>4. LocalInv /\ GlobalInv
  BY <1>3 DEF Selecting
<1>5. Problem(F, D0) /\ Shrunk(Vars, D0, dom) /\ \A v \in Vars : D0[v] \subseteq Int
  BY <1>1 DEF FilterInv, Problem, DomainsOver
<1>6. \A v \in set : v \in Vars /\ dom[v] = D0[v] /\ Single(D0[v])
  BY <1>1, <1>2, <1>3, <1>5, AssignedStay
<1>7. ASSUME NEW a \in causes
      PROVE  a[1] \in set /\ a[2] \in D0[a[1]] /\ a = <<a[1], a[2]>> /\ a[2] # Seed[a[1]]
  <2>1. PICK v \in set : \E x \in D0[v] : a = <<v, x>> /\ x # Seed[v]
    BY <1>1 DEF CausesAre
  <2> QED BY <2>1
<1>8. ASSUME NEW a \in causes, NEW b \in causes, a[1] = b[1] PROVE a = b
  <2>1. PICK x : D0[a[1]] = {x}
    BY <1>1, <1>7 DEF Single
  <2> QED BY <1>7, <1>8, <2>1
<1> DEFINE s == Overwritten
<1>9. \A v \in Vars : s[v] = IF \E a \in causes : a[1] = v THEN (CHOOSE a \in causes : a[1] = v)[2] ELSE Seed[v]
  BY DEF Overwritten
<1>10. s = [v \in Vars |-> s[v]]
  BY DEF Overwritten
<1> HIDE DEF s
<1>11. ASSUME NEW v \in Vars, NEW a \in causes, a[1] = v PROVE s[v] = a[2]
  <2> DEFINE b == CHOOSE c \in causes : c[1] = v
  <2>1. b \in causes /\ b[1] = v
    BY <1>11
  <2>2. b = a
    BY <1>8, <1>11, <2>1
  <2> QED BY <1>9, <1>11, <2>2
<1>12. ASSUME NEW v \in Vars, \A a \in causes : a[1] # v PROVE s[v] = Seed[v]
  BY <1>9, <1>12
<1>13. \A v \in Vars : s[v] \in Int
  <2> TAKE v \in Vars
  <2>1. CASE \E a \in causes : a[1] = v
    <3>1. PICK a \in causes : a[1] = v
      BY <2>1
    <3> QED BY <1>5, <1>7, <1>11, <3>1
  <2>2. CASE \A a \in causes : a[1] # v
    BY <1>12, <2>2, TaskFacts DEF Assignment, Seed
  <2> QED BY <2>1, <2>2
<1>14. s \in Assignment
  BY <1>10, <1>13 DEF Assignment
<1>15. \A v \in VarsIn(F) : s[v] \in dom[v]
  <2> TAKE v \in VarsIn(F)
  <2>1. v \in set /\ v \in Vars /\ dom[v] = D0[v]
    BY <1>2, <1>6
  <2>2. PICK x : D0[v] = {x}
    BY <1>6, <2>1 DEF Single
  <2>3. CASE x = Seed[v]
    <3>1. \A a \in causes : a[1] # v
      BY <1>7, <2>2, <2>3
    <3> QED BY <1>12, <2>1, <2>2, <2>3, <3>1
  <2>4. CASE x # Seed[v]
    <3>1. <<v, x>> \in causes
      BY <1>1, <2>1, <2>2, <2>4 DEF CausesAre
    <3>2. s[v] = x
      <4>1. <<v, x>>[1] = v /\ <<v, x>>[2] = x
        OBVIOUS
      <4> QED BY <1>11, <2>1, <3>1, <4>1
    <3> QED BY <2>1, <2>2, <3>2
  <2> QED BY <2>3, <2>4
<1>16. \A i \in DOMAIN F : Satisfied(F[i], s)
  BY <1>1, <1>3, <1>4, <1>14, <1>15, Decides
<1> QED BY <1>8, <1>16 DEF IsGoal, s

CauseInv ==
    /\ pc = "goal" => Selecting(task.goal, relaxed)
    /\ pc \in {"select", "propagate"} =>
          /\ \E D0 : Selecting(task.goal, D0)
          /\ DomainsOver(Vars, clone) /\ \A v \in Vars : clone[v] \subseteq relaxed[v]
    /\ pc = "select" => csp = "done" /\ result # "Failure"
    /\ Building => causes = {} /\ set = {}
    /\ \A b \in causes : \E v \in Vars : \E x \in relaxed[v] : b = <<v, x>>
    /\ CausesReachGoal

LEMMA ReachStays ==
    ASSUME CausesReachGoal, UNCHANGED <<task, pc, result, causes>>
    PROVE  CausesReachGoal'
BY DEF CausesReachGoal, IsGoal, Seed

LEMMA BuildingCauses ==
    ASSUME task \in Tasks, GraphInv, CauseInv, Begin \/ ProcessAction \/ LayerDone
    PROVE  CauseInv'
<1>1. causes = {} /\ set = {} /\ UNCHANGED <<task, causes, set>> /\ pc' \in {"process", "goal", "done"}
  BY DEF Begin, ProcessAction, LayerDone, CauseInv, Building, extraction
<1>2. CausesReachGoal'
  BY <1>1 DEF CausesReachGoal
<1>3. ASSUME pc' = "goal" PROVE Selecting(task.goal, relaxed)'
  <2>1. LayerDone /\ pc = "process" /\ relaxed' = Accumulated /\ StartFilter(GoalConstraints, Accumulated)
    BY <1>3 DEF Begin, ProcessAction, LayerDone
  <2>2. /\ AtomsOK(task, effects, layer) /\ layer \in Nat
        /\ Accumulated = Level(effects, layer)
    BY <2>1, AccumulatedIs DEF GraphInv, AtomsOK
  <2>3. PICK F, D0 : F = task.goal /\ D0 = Level(effects, layer)
    OBVIOUS
  <2>4. Problem(F, D0)
    BY <2>2, <2>3, TaskFacts, LevelDomains DEF Problem
  <2>5. StartFilter(Translated(F), D0)
    BY <2>1, <2>2, <2>3 DEF GoalConstraints, Translated
  <2>6. FilterInv(F, D0)' /\ LocalInv' /\ GlobalInv' /\ csp' # "idle"
    BY <2>4, <2>5, SelectingCalled
  <2>7. F = task'.goal /\ D0 = relaxed'
    BY <1>1, <2>1, <2>2, <2>3
  <2>8. CausesAre(D0)'
    BY <1>1 DEF CausesAre
  <2>9. Selecting(F, D0)'
    BY <1>1, <2>6, <2>7, <2>8 DEF Selecting
  <2> QED BY <2>7, <2>9
<1> QED BY <1>1, <1>2, <1>3 DEF CauseInv, Building

LEMMA FilterCauses ==
    ASSUME CauseInv, PlainOnly(task.goal), FilterGoal \/ UNCHANGED vars
    PROVE  CauseInv'
<1>1. /\ UNCHANGED <<task, pc, relaxed, set, causes, clone>>
      /\ (FilterStep /\ pc \in {"goal", "propagate"}) \/ UNCHANGED handler
  BY DEF FilterGoal, vars, graph, extraction
<1>2. ASSUME NEW F, NEW D0, F = task.goal, Selecting(F, D0) PROVE Selecting(F, D0)'
  BY <1>1, <1>2, SelectingSteps
<1>3. ASSUME pc = "goal" PROVE Selecting(task.goal, relaxed)'
  <2>1. PICK F, D0 : F = task.goal /\ D0 = relaxed
    OBVIOUS
  <2>2. Selecting(F, D0)'
    BY <1>2, <1>3, <2>1 DEF CauseInv
  <2>3. F = task'.goal /\ D0 = relaxed'
    BY <1>1, <2>1
  <2> QED BY <2>2, <2>3
<1>4. ASSUME pc \in {"select", "propagate"} PROVE (\E D0 : Selecting(task.goal, D0))'
  <2>1. PICK F : F = task.goal
    OBVIOUS
  <2>2. PICK D0 : Selecting(F, D0)
    BY <1>4, <2>1 DEF CauseInv
  <2>3. Selecting(F, D0)'
    BY <1>2, <2>1, <2>2
  <2>4. F = task'.goal
    BY <1>1, <2>1
  <2> QED BY <2>3, <2>4
<1>5. pc = "select" => UNCHANGED handler
  BY <1>1
<1>6. pc = "select" => csp' = "done" /\ result' # "Failure"
  BY <1>5 DEF CauseInv, handler
<1>7. CausesReachGoal'
  <2>1. CASE UNCHANGED handler
    <3>1. UNCHANGED <<task, pc, result, causes>>
      BY <1>1, <2>1 DEF handler
    <3> QED BY <3>1, ReachStays DEF CauseInv
  <2>2. CASE pc \in {"goal", "propagate"}
    BY <1>1, <2>2 DEF CausesReachGoal
  <2> QED BY <1>1, <2>1, <2>2
<1> QED BY <1>1, <1>3, <1>4, <1>6, <1>7 DEF CauseInv, Building

\* The domains of the goal, and the selected values, are within the layer.
LEMMA WithinLayer ==
    ASSUME NEW F, NEW D0, Selecting(F, D0), set \subseteq Vars
    PROVE  /\ CheckConsistency
           /\ DomainsOver(Vars, dom) /\ \A v \in Vars : dom[v] \subseteq relaxed[v]
           /\ \A b \in causes : \E v \in Vars : \E x \in relaxed[v] : b = <<v, x>>
<1>1. /\ Shrunk(Vars, D0, dom) /\ CausesAre(D0)
      /\ \A v \in Vars : D0[v] \subseteq relaxed[v]
  BY DEF Selecting, FilterInv
<1>2. /\ CheckConsistency
      /\ DomainsOver(Vars, dom) /\ \A v \in Vars : dom[v] \subseteq relaxed[v]
  BY <1>1 DEF Shrunk, DomainsOver, CheckConsistency
<1>3. ASSUME NEW b \in causes PROVE \E v \in Vars : \E x \in relaxed[v] : b = <<v, x>>
  <2>1. PICK v \in set : \E x \in D0[v] : b = <<v, x>>
    BY <1>1 DEF CausesAre
  <2>2. v \in Vars /\ D0[v] \subseteq relaxed[v]
    BY <1>1
  <2> QED BY <2>1, <2>2
<1> QED BY <1>2, <1>3

LEMMA CheckedCauses ==
    ASSUME task \in Tasks, CauseInv, PlainOnly(task.goal), GoalChecked
    PROVE  CauseInv'
<1>1. /\ pc = "goal" /\ csp = "done" /\ UNCHANGED <<task, relaxed, set, causes, handler>>
      /\ \/ Consistent /\ pc' = "select" /\ clone' = dom
         \/ pc' = "process"
  BY DEF GoalChecked
<1>2. Selecting(task.goal, relaxed) /\ causes = {} /\ set = {}
  BY <1>1 DEF CauseInv, Building
<1>3. CausesReachGoal'
  BY <1>1 DEF CausesReachGoal
<1>4. CASE Consistent /\ pc' = "select" /\ clone' = dom
  <2>1. PICK F, D0 : F = task.goal /\ D0 = relaxed
    OBVIOUS
  <2>2. Selecting(F, D0)
    BY <1>2, <2>1
  <2>3. Selecting(F, D0)'
    BY <1>1, <2>1, <2>2, SelectingSteps
  <2>4. F = task'.goal
    BY <1>1, <2>1
  <2>5. DomainsOver(Vars, dom) /\ \A v \in Vars : dom[v] \subseteq relaxed[v]
    BY <1>2, <2>2, WithinLayer
  <2>6. DomainsOver(Vars, clone)' /\ \A v \in Vars : clone'[v] \subseteq relaxed'[v]
    BY <1>1, <1>4, <2>5 DEF DomainsOver
  <2>7. csp' = "done" /\ result' # "Failure"
    BY <1>1, <1>4 DEF Consistent, handler
  <2> QED BY <1>1, <1>2, <1>3, <1>4, <2>3, <2>4, <2>6, <2>7 DEF CauseInv, Building
<1>5. CASE pc' = "process"
  BY <1>1, <1>2, <1>3, <1>5 DEF CauseInv, Building
<1> QED BY <1>1, <1>4, <1>5

LEMMA SelectionCauses ==
    ASSUME task \in Tasks, CauseInv, PlainOnly(task.goal), SelectValue \/ Propagated \/ AllSelected
    PROVE  CauseInv'
<1>1. PICK F : F = task.goal
  OBVIOUS
<1>2. pc \in {"select", "propagate"} /\ UNCHANGED <<task, relaxed, clone>> /\ F = task'.goal
  BY <1>1 DEF SelectValue, Propagated, AllSelected, graph
<1>3. PICK D0 : Selecting(F, D0)
  BY <1>1, <1>2 DEF CauseInv
<1>4. DomainsOver(Vars, clone) /\ \A v \in Vars : clone[v] \subseteq relaxed[v]
  BY <1>2 DEF CauseInv
<1>5. DomainsOver(Vars, clone)' /\ \A v \in Vars : clone'[v] \subseteq relaxed'[v]
  BY <1>2, <1>4 DEF DomainsOver
<1>6. set \subseteq Vars /\ set \subseteq GoalVars /\ GoalVars \subseteq Vars
  BY <1>3, GoalVarsAre DEF Selecting
<1>7. /\ CheckConsistency
      /\ \A b \in causes : \E v \in Vars : \E x \in relaxed[v] : b = <<v, x>>
  BY <1>3, <1>6, WithinLayer
<1>8. CASE SelectValue
  <2>1. PICK D1 : Selecting(F, D1)'
    BY <1>1, <1>3, <1>8, SelectingNext
  <2>2. pc' = "propagate"
    BY <1>8 DEF SelectValue
  <2>3. (set \subseteq Vars)'
    <3>1. set' \subseteq GoalVars'
      BY <2>1 DEF Selecting
    <3>2. GoalVars' = GoalVars
      BY <1>2 DEF GoalVars
    <3> QED BY <1>6, <3>1, <3>2
  <2>4. (\A b \in causes : \E v \in Vars : \E x \in relaxed[v] : b = <<v, x>>)'
    <3>1. CausesAre(D1)' /\ \A v \in Vars : D1[v] \subseteq relaxed'[v]
      BY <2>1 DEF Selecting
    <3> SUFFICES ASSUME NEW b \in causes' PROVE \E v \in Vars : \E x \in relaxed'[v] : b = <<v, x>>
      OBVIOUS
    <3>2. PICK v \in set' : \E x \in D1[v] : b = <<v, x>>
      BY <3>1 DEF CausesAre
    <3>3. v \in Vars
      BY <2>3
    <3> QED BY <3>1, <3>2, <3>3
  <2> QED BY <1>2, <1>5, <2>1, <2>2, <2>4 DEF CauseInv, CausesReachGoal, Building
<1>9. CASE Propagated
  <2>1. /\ csp = "done" /\ UNCHANGED <<handler, set>>
        /\ \/ Consistent /\ pc' = "select" /\ causes' = causes
           \/ ~Consistent /\ pc' = "extract" /\ causes' = causes \cup ArbitraryCauses
    BY <1>9 DEF Propagated
  <2>2. UNCHANGED <<csp, result>>
    BY <2>1 DEF handler
  <2>3. CASE Consistent /\ pc' = "select" /\ causes' = causes
    <3>1. Selecting(F, D0)'
      BY <1>1, <1>2, <1>3, <2>1, <2>3, SelectingSteps
    <3>2. csp' = "done" /\ result' # "Failure"
      BY <2>1, <2>2, <2>3 DEF Consistent
    <3> QED BY <1>2, <1>5, <1>7, <2>3, <3>1, <3>2 DEF CauseInv, CausesReachGoal, Building
  <2>4. CASE ~Consistent /\ pc' = "extract" /\ causes' = causes \cup ArbitraryCauses
    <3>1. result' = "Failure"
      BY <1>7, <2>2, <2>4 DEF Consistent
    <3>2. ASSUME NEW b \in ArbitraryCauses PROVE \E v \in Vars : \E x \in relaxed[v] : b = <<v, x>>
      <4>1. PICK v \in GoalVars : b = <<v, SelectedValue(v, clone[v])>>
        BY DEF ArbitraryCauses
      <4>2. v \in Vars /\ clone[v] \in SUBSET Int /\ IsFiniteSet(clone[v]) /\ clone[v] # {}
        BY <1>4, <1>6 DEF DomainsOver
      <4>3. SelectedValue(v, clone[v]) \in relaxed[v]
        BY <1>4, <4>2, SelectedIs
      <4> QED BY <4>1, <4>2, <4>3
    <3>3. \A b \in causes' : \E v \in Vars : \E x \in relaxed'[v] : b = <<v, x>>
      BY <1>2, <1>7, <2>4, <3>2
    <3> QED BY <2>4, <3>1, <3>3 DEF CauseInv, CausesReachGoal, Building
  <2> QED BY <2>1, <2>3, <2>4
<1>10. CASE AllSelected
  <2>1. /\ pc = "select" /\ set = GoalVars /\ pc' = "extract" /\ UNCHANGED <<causes, handler>>
    BY <1>10 DEF AllSelected
  <2>2. csp = "done" /\ result # "Failure"
    BY <2>1 DEF CauseInv
  <2>3. (\A a, b \in causes : a[1] = b[1] => a = b) /\ IsGoal(Overwritten)
    BY <1>1, <1>3, <2>1, <2>2, AllSelectedReach
  <2>4. CausesReachGoal'
    <3>1. (\A a, b \in causes : a[1] = b[1] => a = b)' /\ IsGoal(Overwritten)'
      BY <1>2, <2>1, <2>3 DEF IsGoal, Overwritten, Seed
    <3> QED BY <3>1 DEF CausesReachGoal, Overwritten
  <2> QED BY <1>2, <1>7, <2>1, <2>4 DEF CauseInv, Building
<1> QED BY <1>8, <1>9, <1>10

LEMMA ExtractCauses ==
    ASSUME CauseInv, ProcessAtom \/ BuildRelaxedPlan
    PROVE  CauseInv'
<1>1. /\ pc = "extract" /\ pc' \in {"extract", "done"}
      /\ UNCHANGED <<task, relaxed, causes, set, result>>
  BY DEF ProcessAtom, BuildRelaxedPlan, graph, extraction, handler
<1>2. CausesReachGoal'
  <2>1. CASE pc' = "done"
    BY <2>1 DEF CausesReachGoal
  <2>2. CASE pc' = "extract"
    BY <1>1, <2>2, ReachStays DEF CauseInv
  <2> QED BY <1>1, <2>1, <2>2
<1> QED BY <1>1, <1>2 DEF CauseInv, Building

-----------------------------------------------------------------------------
(***************************************************************************)
(* Extraction: the causes and the supports of what is processed are        *)
(* processed, pending, or hold in the seed.                                *)
(***************************************************************************)
Covered(c) == InSeed(c) \/ c \in pending \cup processed

ExtractOK ==
    /\ processed \cup pending \subseteq DOMAIN effects
    /\ \A b \in processed : ~InSeed(b) /\ \A c \in effects[b].support : Covered(c)
    /\ pc \in {"extract", "done"} => \A c \in causes : Covered(c)
    /\ pc # "extract" => pending = {}
    /\ pc \notin {"extract", "done"} => processed = {}

LEMMA CausesReached ==
    ASSUME GraphInv, CauseInv
    PROVE  causes \subseteq DOMAIN effects
<1> SUFFICES ASSUME NEW b \in causes PROVE b \in DOMAIN effects
  OBVIOUS
<1>1. PICK v \in Vars : \E x \in relaxed[v] : b = <<v, x>>
  BY DEF CauseInv
<1>2. relaxed = Level(effects, Completed) /\ AtomsOK(task, effects, layer)
  BY DEF GraphInv
<1> QED BY <1>1, <1>2, LevelIs

\* An atom of layer 0 is one of the seed.
LEMMA LayerZero ==
    ASSUME NEW T, NEW E, NEW n, AtomsOK(T, E, n), NEW b \in DOMAIN E
    PROVE  /\ E[b].layer \in Nat /\ E[b].layer <= n
           /\ \E v \in Vars : \E x \in T.values[v] : b = <<v, x>>
           /\ (T.seed[b[1]] = b[2]) => E[b].layer = 0
           /\ E[b].layer = 0 => T.seed[b[1]] = b[2]
<1>1. PICK v \in Vars : \E x \in T.values[v] : b = <<v, x>>
  BY DEF AtomsOK, AtomIn
<1>2. PICK x \in T.values[v] : b = <<v, x>>
  BY <1>1
<1>3. E[b].layer \in 0..n /\ n \in Nat /\ Level(E, 0)[v] = {T.seed[v]}
  BY DEF AtomsOK
<1>4. x \in Level(E, 0)[v] <=> <<v, x>> \in DOMAIN E /\ E[<<v, x>>].layer <= 0
  BY LevelIs
<1>5. b[1] = v /\ b[2] = x
  BY <1>2
<1>6. x = T.seed[v] <=> E[b].layer <= 0
  BY <1>2, <1>3, <1>4
<1>7. E[b].layer \in Nat /\ E[b].layer <= n
  BY <1>3
<1> QED BY <1>1, <1>5, <1>6, <1>7

LEMMA CoveredStays ==
    ASSUME ExtractOK, UNCHANGED <<task, effects, pending, processed>>,
           pc' \notin {"extract", "done"} \/ (pc \in {"extract", "done"} /\ UNCHANGED causes),
           pc' # "extract" => pending = {},
           pc' \notin {"extract", "done"} => processed = {}
    PROVE  ExtractOK'
BY DEF ExtractOK, Covered, InSeed, Seed

LEMMA AtomExtracted ==
    ASSUME task \in Tasks, GraphInv, SupportOK(task, effects), ExtractOK, ProcessAtom
    PROVE  ExtractOK'
<1>1. pc = "extract" /\ UNCHANGED <<task, pc, effects, causes>>
  BY DEF ProcessAtom, graph
<1>2. PICK atom \in pending :
        IF InSeed(atom) \/ atom \in processed
        THEN pending' = pending \ {atom} /\ UNCHANGED processed
        ELSE /\ processed' = processed \cup {atom}
             /\ pending' = (pending \ {atom}) \cup effects[atom].support
  BY DEF ProcessAtom, Enqueued
<1>3. \A c : InSeed(c)' = InSeed(c)
  BY <1>1 DEF InSeed, Seed
<1>4. \A c : Covered(c) => Covered(c)'
  BY <1>2, <1>3 DEF Covered
<1>5. CASE InSeed(atom) \/ atom \in processed
  BY <1>1, <1>2, <1>3, <1>4, <1>5 DEF ExtractOK
<1>6. CASE ~ (InSeed(atom) \/ atom \in processed)
  <2>1. atom \in DOMAIN effects
    BY DEF ExtractOK
  <2>2. effects[atom].layer > 0
    <3>1. AtomsOK(task, effects, layer)
      BY DEF GraphInv
    <3>2. effects[atom].layer \in Nat /\ effects[atom].layer # 0
      BY <1>6, <2>1, <3>1, LayerZero DEF InSeed, Seed
    <3> QED BY <3>2
  <2>3. effects[atom].support \subseteq DOMAIN effects
    BY <2>1, <2>2 DEF SupportOK
  <2>4. \A c \in effects[atom].support : Covered(c)'
    BY <1>2, <1>6 DEF Covered
  <2>5. (processed \cup pending \subseteq DOMAIN effects)'
    BY <1>1, <1>2, <1>6, <2>3 DEF ExtractOK
  <2>6. \A b \in processed' : ~InSeed(b)' /\ \A c \in effects'[b].support : Covered(c)'
    BY <1>1, <1>2, <1>3, <1>4, <1>6, <2>4 DEF ExtractOK
  <2>7. \A c \in causes' : Covered(c)'
    BY <1>1, <1>4 DEF ExtractOK
  <2> QED BY <1>1, <2>5, <2>6, <2>7 DEF ExtractOK
<1> QED BY <1>5, <1>6

LEMMA ExtractionStarts ==
    ASSUME GraphInv', CauseInv', ExtractOK, Propagated \/ AllSelected
    PROVE  ExtractOK'
<1>1. pc \in {"propagate", "select"} /\ UNCHANGED <<task, effects, processed>>
  BY DEF Propagated, AllSelected, graph
<1>2. pending = {} /\ processed = {}
  BY <1>1 DEF ExtractOK
<1>3. (pc' = "select" /\ UNCHANGED pending) \/ (pc' = "extract" /\ pending' = causes')
  BY DEF Propagated, AllSelected
<1>4. CASE pc' = "select" /\ UNCHANGED pending
  BY <1>1, <1>2, <1>4, CoveredStays
<1>5. CASE pc' = "extract" /\ pending' = causes'
  <2>1. ASSUME NEW b \in causes' PROVE b \in DOMAIN effects'
    <3>1. PICK v \in Vars : \E x \in relaxed'[v] : b = <<v, x>>
      BY <2>1 DEF CauseInv
    <3>2. relaxed' = Level(effects', Completed') /\ AtomsOK(task', effects', layer')
      BY DEF GraphInv
    <3> QED BY <3>1, <3>2, LevelIs
  <2> QED BY <1>1, <1>2, <1>5, <2>1 DEF ExtractOK, Covered
<1> QED BY <1>3, <1>4, <1>5

LEMMA RestExtracted ==
    ASSUME GraphInv, CauseInv, ExtractOK,
           Begin \/ ProcessAction \/ LayerDone \/ FilterGoal \/ GoalChecked \/ SelectValue
                 \/ BuildRelaxedPlan \/ UNCHANGED vars
    PROVE  ExtractOK'
<1>1. CASE Begin \/ ProcessAction \/ LayerDone
  <2>1. /\ pc \in {"start", "process"} /\ pc' \in {"done", "process", "goal"}
        /\ UNCHANGED <<task, causes, pending, processed>>
    BY <1>1 DEF Begin, ProcessAction, LayerDone, extraction
  <2>2. pending' = {} /\ processed' = {} /\ causes' = {}
    BY <2>1 DEF ExtractOK, CauseInv, Building
  <2> QED BY <2>1, <2>2 DEF ExtractOK
<1>2. CASE FilterGoal \/ GoalChecked \/ SelectValue
  <2>1. /\ pc \in {"goal", "propagate", "select"} /\ pc' \notin {"extract", "done"}
        /\ UNCHANGED <<task, effects, pending, processed>>
    BY <1>2 DEF FilterGoal, GoalChecked, SelectValue, extraction, graph
  <2>2. pending = {} /\ processed = {}
    BY <2>1 DEF ExtractOK
  <2> QED BY <2>1, <2>2, CoveredStays
<1>3. CASE BuildRelaxedPlan
  <2>1. /\ pc = "extract" /\ pending = {} /\ pc' = "done"
        /\ UNCHANGED <<task, effects, causes, pending, processed>>
    BY <1>3 DEF BuildRelaxedPlan, graph, extraction
  <2> QED BY <2>1, CoveredStays
<1>4. CASE UNCHANGED vars
  <2>1. UNCHANGED <<task, pc, effects, causes, pending, processed>>
    BY <1>4 DEF vars, graph, extraction
  <2>2. (pc # "extract" => pending = {}) /\ (pc \notin {"extract", "done"} => processed = {})
    BY DEF ExtractOK
  <2>3. pc' = pc
    BY <2>1
  <2> QED BY <2>1, <2>2, <2>3 DEF ExtractOK, Covered, InSeed, Seed
<1> QED BY <1>1, <1>2, <1>3, <1>4

\* The tasks whose relaxed plans are proved valid: actions as in GraphIsExact
\* and SupportsSuffice, and a goal whose formulas translate without loss.
Regular(T) == FromVariables(T) /\ BoundsSupported(T) /\ PlainOnly(T.goal)

PInv == SInv /\ (Regular(task) => CauseInv /\ ExtractOK)

LEMMA PlansAlways == Spec => []PInv
<1>1. Init => PInv
  <2> SUFFICES ASSUME Init, SInv PROVE CauseInv /\ ExtractOK
    <3>1. Init => SInv
      <4>1. ASSUME Init PROVE \A b \in DOMAIN effects : ~ (effects[b].layer > 0)
        BY <4>1 DEF Init, AtomSupport
      <4> QED BY <4>1, InitGraph DEF SInv, GInv, SupportOK
    <3> QED BY <3>1 DEF PInv
  <2>1. pc = "start" /\ causes = {} /\ set = {} /\ pending = {} /\ processed = {}
    BY DEF Init
  <2> QED BY <2>1 DEF CauseInv, ExtractOK, CausesReachGoal
<1>2. ASSUME PInv, SInv', [Next \/ Terminating]_vars PROVE PInv'
  <2>1. task' = task /\ task \in Tasks
    BY <1>2, TaskStays DEF PInv, SInv, GInv
  <2>2. ASSUME Regular(task) PROVE CauseInv' /\ ExtractOK'
    <3>1. /\ GraphInv /\ GraphInv' /\ SupportOK(task, effects) /\ CauseInv /\ ExtractOK
          /\ PlainOnly(task.goal)
      BY <1>2, <2>1, <2>2 DEF PInv, SInv, GInv, Regular
    <3>2. CauseInv'
      BY <1>2, <2>1, <3>1, BuildingCauses, FilterCauses, CheckedCauses, SelectionCauses, ExtractCauses
         DEF Next, Terminating
    <3>3. ExtractOK'
      BY <1>2, <2>1, <3>1, <3>2, AtomExtracted, ExtractionStarts, RestExtracted DEF Next, Terminating
    <3> QED BY <3>2, <3>3
  <2> QED BY <1>2, <2>1, <2>2 DEF PInv
<1> QED BY <1>1, <1>2, SupportsAlways, PTL DEF Spec

-----------------------------------------------------------------------------
(***************************************************************************)
(* The replay of the extracted actions, layer by layer.                    *)
(***************************************************************************)
LEMMA WithinMember ==
    ASSUME NEW D, NEW s, s = [v \in Vars |-> s[v]], \A v \in Vars : s[v] \in D[v]
    PROVE  s \in Within(D)
<1>1. \A v \in Vars : s[v] \in UNION {D[w] : w \in Vars}
  OBVIOUS
<1>2. s \in [Vars -> UNION {D[w] : w \in Vars}]
  BY <1>1
<1> QED BY <1>2 DEF Within

PlanLayers(L) ==
    /\ L[0] = [v \in Vars |-> {Seed[v]}]
    /\ \A k \in 1..layer : L[k] = NextLayer(task, L[k-1], PlanActs[k])

LEMMA PlanLayersExist ==
    ASSUME layer \in Nat, task.seed \in Assignment, task.values \in [Vars -> SUBSET Int]
    PROVE  \E L : PlanLayers(L)
<1> DEFINE X == [Vars -> SUBSET Int]
           first == [v \in Vars |-> {Seed[v]}]
           acts(k) == IF k \in 1..layer THEN PlanActs[k] ELSE {}
           step == [k \in Nat |-> [D \in X |-> NextLayer(task, D, acts(k))]]
<1>1. first \in X
  BY DEF Seed, Assignment
<1>2. ASSUME NEW D \in X, NEW A PROVE NextLayer(task, D, A) \in X
  <2>1. ASSUME NEW v \in Vars
        PROVE  D[v] \cup {x \in task.values[v] : <<v, x>> \in AtomsFrom(task, D, A)} \in SUBSET Int
    <3>1. task.values[v] \subseteq Int /\ D[v] \subseteq Int
      OBVIOUS
    <3> QED BY <3>1
  <2> QED BY <2>1 DEF NextLayer
<1> HIDE DEF X, first, acts
<1>3. step \in [Nat -> [X -> X]]
  BY <1>2
<1>4. PICK L \in [0..layer -> X] : Iterates(L, first, step, layer)
  <2> HIDE DEF step
  <2> QED BY <1>1, <1>3, Recursion
<1>5. ASSUME NEW k \in 1..layer PROVE L[k] = NextLayer(task, L[k-1], PlanActs[k])
  <2>1. k \in Nat /\ k - 1 \in 0..layer
    OBVIOUS
  <2>2. L[k-1] \in X
    BY <1>4, <2>1
  <2>3. L[k] = step[k][L[k-1]]
    BY <1>4 DEF Iterates
  <2>4. acts(k) = PlanActs[k]
    BY DEF acts
  <2> QED BY <2>1, <2>2, <2>3, <2>4
<1>6. L[0] = first
  BY <1>4 DEF Iterates
<1> QED BY <1>5, <1>6 DEF PlanLayers, first

\* The state that has the values of a support, and the seed's elsewhere.
SupportState(S) ==
    [v \in Vars |-> IF \E x : <<v, x>> \in S THEN CHOOSE x : <<v, x>> \in S ELSE Seed[v]]

LEMMA SupportStateHas ==
    ASSUME NEW S, Functional(S), NEW v \in Vars, NEW x, <<v, x>> \in S
    PROVE  SupportState(S)[v] = x
<1>1. <<v, SupportState(S)[v]>> \in S
  BY DEF SupportState
<1>2. <<v, SupportState(S)[v]>>[1] = <<v, x>>[1]
  OBVIOUS
<1> QED BY <1>1, <1>2 DEF Functional

\* Once an atom's support is in the layers, its action reaches the atom.
LEMMA AtomReplayed ==
    ASSUME task \in Tasks, GraphInv, SupportOK(task, effects), ExtractOK, pending = {},
           NEW D, \A v \in Vars : Seed[v] \in D[v], NEW k \in Nat,
           \A b \in processed : effects[b].layer <= k => b[2] \in D[b[1]],
           NEW b \in processed, effects[b].layer = k + 1
    PROVE  b \in AtomsFrom(task, D, {task.actions[effects[b].action]})
<1> DEFINE S == effects[b].support
           a == task.actions[effects[b].action]
           s == SupportState(S)
<1>1. b \in DOMAIN effects /\ AtomsOK(task, effects, layer) /\ effects[b].layer > 0
  BY DEF ExtractOK, GraphInv
<1>2. Functional(S) /\ Sufficient(task, a, S, b)
  BY <1>1 DEF SupportOK
<1>3. ASSUME NEW c \in S
      PROVE  \E v \in Vars : \E x \in task.values[v] : c = <<v, x>> /\ x \in D[v] /\ s[v] = x
  <2>1. c \in DOMAIN effects /\ effects[c].layer < k + 1
    BY <1>1 DEF SupportOK
  <2>9. PICK v \in Vars : \E x \in task.values[v] : c = <<v, x>>
    BY <1>1, <2>1, LayerZero
  <2>2. PICK x \in task.values[v] : c = <<v, x>>
    BY <2>9
  <2>3. effects[c].layer <= k
    <3>1. effects[c].layer \in Nat
      BY <1>1, <2>1, LayerZero
    <3> QED BY <2>1, <3>1
  <2>4. InSeed(c) \/ c \in processed
    BY DEF ExtractOK, Covered
  <2>5. c[1] = v /\ c[2] = x
    BY <2>2
  <2>6. x \in D[v]
    BY <2>3, <2>4, <2>5 DEF InSeed
  <2>7. s[v] = x
    BY <1>2, <2>2, SupportStateHas
  <2> QED BY <2>2, <2>6, <2>7
<1>4. s = [v \in Vars |-> s[v]]
  BY DEF SupportState
<1>5. ASSUME NEW v \in Vars PROVE s[v] \in D[v] /\ s[v] \in task.values[v]
  <2>1. CASE \E x : <<v, x>> \in S
    <3>1. PICK x : <<v, x>> \in S
      BY <2>1
    <3>2. PICK u \in Vars : \E y \in task.values[u] : <<v, x>> = <<u, y>> /\ y \in D[u] /\ s[u] = y
      BY <1>3, <3>1
    <3> QED BY <3>2
  <2>2. CASE ~ \E x : <<v, x>> \in S
    <3>1. s[v] = Seed[v]
      BY <2>2 DEF SupportState
    <3> QED BY <3>1, TaskFacts DEF Seed
  <2> QED BY <2>1, <2>2
<1>6. \A c \in S : s[c[1]] = c[2]
  BY <1>3
<1> HIDE DEF s
<1>7. s \in Within(D) /\ s \in Within(task.values)
  BY <1>4, <1>5, WithinMember
<1> HIDE DEF a, S
<1>8. CanApply(task, a, s) /\ b \in Assigned(a, s)
  BY <1>2, <1>6, <1>7 DEF Sufficient
<1>9. b \in AtomsFrom(task, D, {a})
  BY <1>7, <1>8 DEF AtomsFrom
<1> QED BY <1>9 DEF a

LEMMA PlanReplayed ==
    ASSUME task \in Tasks, GraphInv, SupportOK(task, effects), ExtractOK, CauseInv, pc = "done"
    PROVE  \A c \in causes : c[2] \in DeleteRelaxed(layer, PlanActs)[c[1]]
<1>1. pending = {} /\ AtomsOK(task, effects, layer) /\ layer \in Nat
  BY DEF ExtractOK, GraphInv, AtomsOK
<1>2. PICK L : PlanLayers(L)
  BY <1>1, TaskFacts, PlanLayersExist
<1>3. L[0] = [v \in Vars |-> {Seed[v]}] /\ \A k \in 1..layer : L[k] = NextLayer(task, L[k-1], PlanActs[k])
  BY <1>2 DEF PlanLayers
<1>4. DeleteRelaxed(layer, PlanActs) = L[layer]
  BY <1>1, <1>3, LayersAre
<1> DEFINE Reached(k) ==
              /\ \A v \in Vars : Seed[v] \in L[k][v]
              /\ \A b \in processed : effects[b].layer <= k => b[2] \in L[k][b[1]]
           N == {k \in Nat : k <= layer => Reached(k)}
<1>5. 0 \in N
  <2>1. ASSUME NEW b \in processed PROVE ~ (effects[b].layer <= 0)
    <3>1. b \in DOMAIN effects /\ ~ InSeed(b)
      BY DEF ExtractOK
    <3>2. effects[b].layer \in Nat /\ effects[b].layer # 0
      BY <1>1, <3>1, LayerZero DEF InSeed, Seed
    <3> QED BY <3>2
  <2> QED BY <1>3, <2>1
<1>6. ASSUME NEW k \in N PROVE k + 1 \in N
  <2> SUFFICES ASSUME k + 1 <= layer PROVE Reached(k + 1)
    OBVIOUS
  <2>1. k \in Nat /\ k <= layer /\ k + 1 \in 1..layer /\ (k + 1) - 1 = k /\ Reached(k)
    BY <1>1
  <2>2. L[k+1] = NextLayer(task, L[k], PlanActs[k+1])
    BY <1>3, <2>1
  <2>3. ASSUME NEW v \in Vars PROVE L[k][v] \subseteq L[k+1][v]
    BY <2>2 DEF NextLayer
  <2>4. ASSUME NEW b \in processed, effects[b].layer <= k + 1 PROVE b[2] \in L[k+1][b[1]]
    <3>1. b \in DOMAIN effects
      BY DEF ExtractOK
    <3>2. effects[b].layer \in Nat
      BY <1>1, <3>1, LayerZero
    <3>3. PICK v \in Vars : \E x \in task.values[v] : b = <<v, x>>
      BY <1>1, <3>1, LayerZero
    <3>4. PICK x \in task.values[v] : b = <<v, x>>
      BY <3>3
    <3>5. b[1] = v /\ b[2] = x
      BY <3>4
    <3>6. CASE effects[b].layer <= k
      BY <2>1, <2>3, <3>5, <3>6
    <3>7. CASE ~ (effects[b].layer <= k)
      <4> DEFINE a == task.actions[effects[b].action]
      <4>1. effects[b].layer = k + 1
        BY <2>1, <2>4, <3>2, <3>7
      <4>2. b \in AtomsFrom(task, L[k], {a})
        <5>1. \A u \in Vars : Seed[u] \in L[k][u]
          BY <2>1
        <5>2. \A c \in processed : effects[c].layer <= k => c[2] \in L[k][c[1]]
          BY <2>1
        <5> QED BY <1>1, <2>1, <4>1, <5>1, <5>2, AtomReplayed
      <4>3. a \in PlanActs[k+1]
        BY <2>1, <4>1 DEF PlanActs, Actions
      <4> HIDE DEF a
      <4>4. b \in AtomsFrom(task, L[k], PlanActs[k+1])
        BY <4>2, <4>3, AtomsFromIs
      <4>5. x \in L[k+1][v]
        BY <2>2, <3>4, <4>4 DEF NextLayer
      <4> QED BY <3>5, <4>5
    <3> QED BY <3>6, <3>7
  <2> QED BY <2>1, <2>3, <2>4
<1>7. N = Nat
  <2> HIDE DEF N
  <2>1. N \in SUBSET Nat
    BY DEF N
  <2> QED BY <1>5, <1>6, <2>1, Induction
<1>8. Reached(layer)
  <2> HIDE DEF Reached
  <2> QED BY <1>1, <1>7
<1>9. ASSUME NEW c \in causes PROVE c[2] \in L[layer][c[1]]
  <2>1. c \in DOMAIN effects
    BY CausesReached
  <2>2. effects[c].layer <= layer /\ \E v \in Vars : \E x \in task.values[v] : c = <<v, x>>
    BY <1>1, <2>1, LayerZero
  <2>3. PICK v \in Vars : \E x \in task.values[v] : c = <<v, x>>
    BY <2>2
  <2>4. c[1] = v
    BY <2>3
  <2>5. InSeed(c) \/ c \in processed
    BY <1>1 DEF ExtractOK, Covered
  <2>6. CASE InSeed(c)
    BY <1>8, <2>4, <2>6 DEF InSeed
  <2>7. CASE c \in processed
    BY <1>8, <2>2, <2>7
  <2> QED BY <2>5, <2>6, <2>7
<1> QED BY <1>4, <1>9

\* The relaxed plan that DirectRPGBuilder and the extractor find is one: the
\* goal causes that extractGoalCauses selects, written over the seed, are a
\* goal state, unless the propagation of a selected value failed; and the
\* actions registered by processAtom, applied layer by layer without deletes,
\* reach all of these causes.  So no support is forgotten, none is taken from a
\* layer that is not there yet, and no selected value breaks the goal.
THEOREM RelaxedPlansAreValid == Spec => [](Regular(task) => RelaxedPlanValid)
<1>1. PInv => (Regular(task) => RelaxedPlanValid)
  <2> SUFFICES ASSUME PInv, Regular(task) PROVE RelaxedPlanValid
    OBVIOUS
  <2>1. task \in Tasks /\ GraphInv /\ SupportOK(task, effects) /\ CauseInv /\ ExtractOK
    BY DEF PInv, SInv, GInv, Regular
  <2>2. CausesReachGoal
    BY <2>1 DEF CauseInv
  <2>3. pc = "done" => \A c \in causes : c[2] \in DeleteRelaxed(layer, PlanActs)[c[1]]
    BY <2>1, PlanReplayed
  <2> QED BY <2>2, <2>3 DEF RelaxedPlanValid
<1> QED BY <1>1, PlansAlways, PTL
=============================================================================
