--------------------------- MODULE RelevantAtoms ----------------------------
(***************************************************************************)
(* RelevantAtomSet: which of the relevant atoms R were reached since the   *)
(* set was last initialised, and how many.  rel is the AtomsetHelper the   *)
(* set refers to, num the counter the code keeps beside the bit vector.    *)
(***************************************************************************)
EXTENDS PlanningTask

RelevantAtomSet == [rel : SUBSET Atom, reached : SUBSET Atom, num : Nat]

\* RelevantAtomSet(helper): nothing is reached yet.
EmptyAtomSet(R) == [rel |-> R, reached |-> {}, num |-> 0]

\* update(state, nullptr): reach the relevant atoms of the state.
CountDown(r, s) ==   \* slip: the counter goes the wrong way
    LET new == (AtomsOf(s) \cap r.rel) \ r.reached
    IN  [r EXCEPT !.reached = @ \cup new, !.num = @ - Cardinality(new)]

UpdateAtomSet(r, s) ==
    LET new == (AtomsOf(s) \cap r.rel) \ r.reached
    IN  [r EXCEPT !.reached = @ \cup new, !.num = @ + Cardinality(new)]

\* init(state): start again from the state; its own atoms do not count.
InitKeepingCount(r, s) ==   \* slip: _num_reached is not reset at the end
    UpdateAtomSet(EmptyAtomSet(r.rel), s)

InitAtomSet(r, s) == [UpdateAtomSet(EmptyAtomSet(r.rel), s) EXCEPT !.num = 0]
=============================================================================
