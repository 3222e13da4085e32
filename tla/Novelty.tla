------------------------------ MODULE Novelty -------------------------------
(***************************************************************************)
(* Novelty tables.  A search keeps one table per novelty type; the table   *)
(* of type ty holds the k-tuples of atoms seen so far in the states        *)
(* evaluated under ty.  All tables of one family (one map from types to    *)
(* evaluators in the code) are one set of pairs <<type, tuple>>: a table   *)
(* that was never created is simply empty.                                 *)
(***************************************************************************)
EXTENDS PlanningTask

CONSTANT NoveltyAtoms   \* the atoms the evaluator looks at (it may ignore negated ones)

ASSUME NoveltyAtomsAssumption == NoveltyAtoms \subseteq Atom

\* The size-k sets of atoms true in s that the evaluator looks at.
Tuples(k, s) == {x \in SUBSET (AtomsOf(s) \cap NoveltyAtoms) : Cardinality(x) = k}

(***************************************************************************)
(* The tuples one evaluation runs through.  Against the state of a parent  *)
(* of the same type only the tuples with an atom new in s are considered.  *)
(***************************************************************************)
TuplesToCheck(k, s, ps, incremental) ==
    IF incremental THEN Tuples(k, s) \ Tuples(k, ps) ELSE Tuples(k, s)

\* The entries a non-incremental evaluation of s under type ty would look up.
Entries(k, ty, s) == {<<ty, x>> : x \in Tuples(k, s)}
=============================================================================
