---------------------------- MODULE Applicability ----------------------------
(***************************************************************************)
(* When a ground action is applicable, and the three ways the planner      *)
(* narrows the actions it tests in a state down: not at all                *)
(* (NaiveActionManager), by an index of atoms (SmartActionManager), and by *)
(* a decision tree over the indexed preconditions (MatchTreeActionManager).*)
(*                                                                         *)
(* A formula appears by its extension (the states where it holds), an      *)
(* effect by its condition and by the variable and value it yields in each *)
(* state; what the indexes read off the syntax is part of the action.      *)
(***************************************************************************)
EXTENDS Integers, FiniteSets, Sequences

CONSTANTS
    Places,  \* the state variables, in the order of their numbers
    Domain   \* the values each of them can take

Vals == UNION {Domain[v] : v \in Places}
States == {s \in [Places -> Vals] : \A v \in Places : s[v] \in Domain[v]}

ASSUME PlacesAssumption == Places \subseteq Nat /\ IsFiniteSet(Places)

\* An indexed precondition is of the form v = val or v != val.
IndexEntry == [var : Places, val : Int, eq : BOOLEAN]

EffectOK(e) ==
    /\ e.when \subseteq States
    /\ e.var \in [States -> Places] /\ e.val \in [States -> Int]

\* shape: what kind of formula the precondition is; legible: whether the
\* index can read it ("refused" by an exception, "undefined" when the code
\* dereferences a null pointer).
ActionOK(a) ==
    /\ a.pre \subseteq States
    /\ a.shape \in {"tautology", "conjunction", "other"}
    /\ a.legible \in {"yes", "refused", "undefined"}
    /\ \A k \in DOMAIN a.index : a.index[k] \in IndexEntry
    /\ \E n \in Nat : DOMAIN a.effects = 1..n
    /\ \A k \in DOMAIN a.effects : EffectOK(a.effects[k])
    /\ a.affected \subseteq Places

\* A state constraint and the variables it is indexed under.
ConstraintOK(c) == c.holds \subseteq States /\ c.scope \subseteq Places

ProblemOK(p) ==
    /\ p.init \in States
    /\ p.limits \in {"atoms", "conjunction", "other"}
    /\ p.unindexed \subseteq Places \X Int
    /\ \E n \in Nat : DOMAIN p.actions = 1..n
    /\ \A i \in DOMAIN p.actions : ActionOK(p.actions[i])
    /\ \A j \in DOMAIN p.constraints : ConstraintOK(p.constraints[j])

Ids(p) == DOMAIN p.actions

-----------------------------------------------------------------------------
(* Applying an action: later effects overwrite earlier ones. *)

Fires(a, s) == {i \in DOMAIN a.effects : s \in a.effects[i].when}
Writers(a, s, v) == {i \in Fires(a, s) : a.effects[i].var[s] = v}
Latest(I) == CHOOSE i \in I : \A j \in I : j <= i

NextState(a, s) ==
    [v \in Places |-> IF Writers(a, s, v) = {} THEN s[v] ELSE a.effects[Latest(Writers(a, s, v))].val[s]]

AtomsWithinBounds(a, s) == \A i \in Fires(a, s) : a.effects[i].val[s] \in Domain[a.effects[i].var[s]]

-----------------------------------------------------------------------------
(* Applicability *)

AllConstraints(p) == DOMAIN p.constraints
Hold(p, J, s) == \A j \in J : s \in p.constraints[j].holds

\* The definition: the precondition holds, no value leaves its bounds, and
\* the successor satisfies every state constraint.
IsApplicable(p, i, s) ==
    /\ s \in p.actions[i].pre
    /\ AtomsWithinBounds(p.actions[i], s)
    /\ Hold(p, AllConstraints(p), NextState(p.actions[i], s))

\* The constraints that mention a variable the action may change (_sc_index).
Affecting(p, i) ==
    {j \in AllConstraints(p) : p.actions[i].affected \cap p.constraints[j].scope # {}}

\* The constraints each manager checks after an action.
CheckedConstraints(p, manager, i) ==
    IF manager = "functional_aware" THEN Affecting(p, i) ELSE AllConstraints(p)

Accepts(p, manager, i, s) ==
    /\ s \in p.actions[i].pre
    /\ AtomsWithinBounds(p.actions[i], s)
    /\ Hold(p, CheckedConstraints(p, manager, i), NextState(p.actions[i], s))

-----------------------------------------------------------------------------
(* The index of potentially applicable actions (BasicApplicabilityAnalyzer) *)

Entries(a) == {a.index[k] : k \in DOMAIN a.index}
Referenced(a) == {e.var : e \in Entries(a)}

\* slip: a negated precondition is indexed as if it were positive.
AllowedAsEqual(e) == {n \in Domain[e.var] : n = e.val}

\* The values of a variable that an entry allows.
AllowedValues(e) == {n \in Domain[e.var] : (n = e.val) <=> e.eq}

PotentiallyApplicable(a, v, n) ==
    \/ a.shape # "conjunction"
    \/ v \notin Referenced(a)
    \/ \E e \in Entries(a) : e.var = v /\ n \in AllowedValues(e)

\* The action lists of all the atoms of the state, intersected.
IndexWhitelist(p, s) == {i \in Ids(p) : \A v \in Places : PotentiallyApplicable(p.actions[i], v, s[v])}

-----------------------------------------------------------------------------
(* The match tree *)

\* The atoms the tree requires of an action (_rev_applicable).
RequiredAtoms(a) ==
    IF a.shape # "conjunction" THEN {}
    ELSE UNION {{<<e.var, n>> : n \in AllowedValues(e)} : e \in Entries(a)}

\* How many actions mention the variable (_variable_relevance).
Relevance(p, v) == Cardinality({i \in Ids(p) : p.actions[i].shape = "conjunction" /\ v \in Referenced(p.actions[i])})

RelevantVars(p) == {v \in Places : Relevance(p, v) > 0}

\* Most relevant first, and the larger number first among equals: the code
\* sorts ascending and reads the result backwards.
Before(p, v, w) ==
    \/ Relevance(p, v) > Relevance(p, w)
    \/ Relevance(p, v) = Relevance(p, w) /\ v > w

SortedVariables(p) ==
    [k \in 1..Cardinality(RelevantVars(p)) |->
        CHOOSE v \in RelevantVars(p) : Cardinality({w \in RelevantVars(p) : Before(p, w, v)}) = k - 1]

\* An action is done once every variable it depends on has been a pivot.
ActionDone(p, i, seen) == \A atom \in RequiredAtoms(p.actions[i]) : atom[1] \in seen

\* slip: actions that do not depend on the pivot are not passed on.
MatchWithoutDefault(p, s) ==
    LET order == SortedVariables(p)
        seen(k) == {order[m] : m \in 1..(k - 1)}
        done(k, A) == {i \in A : ActionDone(p, i, seen(k))}
        collect[k \in 1..(Len(order) + 1), A \in SUBSET Ids(p)] ==
            IF done(k, A) = A THEN A
            ELSE LET open == A \ done(k, A)
                     child == {i \in open : <<order[k], s[order[k]]>> \in RequiredAtoms(p.actions[i])}
                 IN  done(k, A) \cup collect[k + 1, child]
    IN  collect[1, Ids(p)]

\* What the node made for the actions A at depth k contributes in state s.
\* The root is a switch node whatever its actions; below it a node without
\* open actions is a leaf.
MatchWhitelist(p, s) ==
    LET order == SortedVariables(p)
        seen(k) == {order[m] : m \in 1..(k - 1)}
        done(k, A) == {i \in A : ActionDone(p, i, seen(k))}
        collect[k \in 1..(Len(order) + 1), A \in SUBSET Ids(p)] ==
            IF done(k, A) = A THEN A
            ELSE LET open == A \ done(k, A)
                     pivot == order[k]
                     cares == {i \in open : \E atom \in RequiredAtoms(p.actions[i]) : atom[1] = pivot}
                     child == {i \in open : <<pivot, s[pivot]>> \in RequiredAtoms(p.actions[i])}
                 IN  done(k, A) \cup collect[k + 1, child] \cup collect[k + 1, open \ cares]
    IN  collect[1, Ids(p)]

-----------------------------------------------------------------------------
(* What a manager is built from and what it does with a state *)

Whitelist(p, manager, s) ==
    CASE manager = "naive" -> Ids(p)
      [] manager = "functional_aware" -> IndexWhitelist(p, s)
      [] manager = "match_tree" -> MatchWhitelist(p, s)

\* The match tree's actions are not tested any more.
GuaranteesApplicability(manager) == manager = "match_tree"

Managers == {"naive", "functional_aware", "match_tree"}

TwiceReferenced(a) ==
    a.shape = "conjunction" /\ \E k, m \in DOMAIN a.index : k < m /\ a.index[k].var = a.index[m].var

\* A manager refuses a problem by an exception: state constraints that are
\* no conjunction (for the index: of atoms), preconditions with parts that
\* are no atoms or with two parts on one variable, variables that are not
\* Boolean and, in the match tree, nothing to branch on.
Refuses(p, manager) ==
    \/ p.limits = "other"
    \/ manager # "naive" /\ \E i \in Ids(p) : TwiceReferenced(p.actions[i]) \/ p.actions[i].legible = "refused"
    \/ manager = "functional_aware" /\ p.limits # "atoms"
    \/ manager = "match_tree" /\ (RelevantVars(p) = {} \/ \E v \in Places : Domain[v] # {0, 1})

\* It reads beyond its tables: a right-hand side that is no constant, or an
\* atom that is not indexed because no precondition is negated.
ReadsOutside(p, manager) ==
    \/ manager # "naive" /\ \E i \in Ids(p) : p.actions[i].legible = "undefined"
    \/ manager = "functional_aware" /\ p.unindexed # {}
    \/ manager = "match_tree" /\ \E i \in Ids(p) : RequiredAtoms(p.actions[i]) \cap p.unindexed # {}
=============================================================================
