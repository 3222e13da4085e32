----------------------------- MODULE GroundModel -----------------------------
(***************************************************************************)
(* The ground state model (SimpleStateModel, GroundStateModel): the setup  *)
(* of Grounding, then an action manager built over the ground actions and  *)
(* a search that moves with it.                                            *)
(***************************************************************************)
EXTENDS Grounding, ActionManagers

mvars == <<gvars, avars>>

NoProblem ==
    [init |-> CHOOSE s \in State : TRUE, actions |-> << >>, constraints |-> << >>, limits |-> "atoms", unindexed |-> {}]

Extension(f) == {s \in State : Holds(f, s, NoBinding, heap)}

-----------------------------------------------------------------------------
(* What the indexes read off the ground actions. *)

\* A conjunct v = .. or v != .. that mentions no other variable.
Indexable(c) ==
    /\ c.kind = "atom" /\ c.op \in {"=", "!="}
    /\ \A i \in DOMAIN c.args : Nestedness(c.args[i]) = 0
    /\ Cardinality(DirectScope(c)) = 1
    /\ c.args[1].kind = "var"

Entry(c) == [var |-> c.args[1].var, val |-> c.args[2].value, eq |-> c.op = "="]

Legible(pre) ==
    IF pre.kind # "and" THEN "yes"
    ELSE IF \E k \in DOMAIN pre.parts : pre.parts[k].kind # "atom" THEN "refused"
    ELSE IF \E k \in DOMAIN pre.parts : Indexable(pre.parts[k]) /\ pre.parts[k].args[2].kind # "const"
         THEN "undefined" ELSE "yes"

IndexOf(pre) ==
    IF pre.kind # "and" \/ Legible(pre) # "yes" THEN << >>
    ELSE LET parts == SelectSeq(pre.parts, Indexable)
         IN  [k \in DOMAIN parts |-> Entry(parts[k])]

Shape(pre) == IF pre.kind = "true" THEN "tautology" ELSE IF pre.kind = "and" THEN "conjunction" ELSE "other"

\* The variables an effect may write (compute_affected).
Affected(effs) == UNION {ScopeOf(SubTerms(effs[i].lhs)) : i \in DOMAIN effs}

AsAction(g) ==
    [pre |-> Extension(g.pre), shape |-> Shape(g.pre), legible |-> Legible(g.pre), index |-> IndexOf(g.pre),
     effects |-> [i \in DOMAIN g.effs |->
                    [when |-> Extension(g.effs[i].cond),
                     var |-> [s \in State |-> Target(g.effs[i].lhs, s, NoBinding, heap)],
                     val |-> [s \in State |-> Value(g.effs[i].rhs, s, NoBinding, heap)]]],
     affected |-> Affected(g.effs)]

LimitParts == IF limits.kind = "and" THEN limits.parts ELSE << >>

AsConstraint(f) == [holds |-> Extension(f), scope |-> FullScope(f)]

LimitShape ==
    IF limits.kind \notin {"true", "and"} THEN "other"
    ELSE IF \A i \in DOMAIN LimitParts : LimitParts[i].kind = "atom" THEN "atoms" ELSE "conjunction"

\* The test for negated preconditions, on the schemas as they were loaded.
RECURSIVE Atoms(_)
Atoms(f) ==
    CASE f.kind = "atom" -> {f}
      [] f.kind \in Open -> UNION {Atoms(f.parts[i]) : i \in DOMAIN f.parts}
      [] f.kind \in Quantified -> Atoms(f.sub)
      [] OTHER -> {}

Negated(f) == \E c \in Atoms(f) : c.op = "=" /\ c.args[2].kind = "const" /\ c.args[2].value = 0

\* The atoms the index of atoms leaves out.
Unindexed ==
    IF \E i \in DOMAIN schemas : Negated(schemas[i].pre) THEN {}
    ELSE {<<v, 0>> : v \in {w \in Vars : Predicative(w)}}

GroundProblem ==
    [init |-> task.init,
     actions |-> [i \in DOMAIN ground |-> AsAction(ground[i])],
     constraints |-> [j \in DOMAIN LimitParts |-> AsConstraint(LimitParts[j])],
     limits |-> LimitShape,
     unindexed |-> Unindexed]

-----------------------------------------------------------------------------

MInit ==
    /\ Init
    /\ problem = NoProblem /\ state = NoProblem.init
    /\ manager = "naive" /\ stage = "setup" /\ waiting = {} /\ yielded = << >>

Setup == stage = "setup" /\ Next /\ UNCHANGED avars

\* A state model is built over the ground task.
BuildModel ==
    /\ stage = "setup" /\ step = "ready"
    /\ problem' = GroundProblem
    /\ state' = task.init
    /\ manager' \in Managers
    /\ stage' = "build"
    /\ UNCHANGED <<waiting, yielded, gvars>>

Search == AMNext /\ UNCHANGED gvars

\* The setup or the manager has given up, or no action is applicable.
Stopped ==
    /\ \/ stage = "setup" /\ step \in {"failed", "undefined"}
       \/ stage \in {"refused", "undefined"}
       \/ stage = "done" /\ yielded = << >>
    /\ UNCHANGED mvars

MNext == Setup \/ BuildModel \/ Search \/ Stopped
MSpec == MInit /\ [][MNext]_mvars

-----------------------------------------------------------------------------

\* The set of constraints that a state has to satisfy, read from the task.
TaskConstraintsHold(s) == Holds(task.constraints, s, NoBinding, SourceHeap(task))

\* Every state the search reaches satisfies the state constraints of the
\* task, provided the initial state does, which nothing in the code checks.
\* The match tree does not test constraints at all (match_tree.hxx:137); the
\* instances give it tasks without.  For the index this rests on the scopes
\* and the entries it reads off the formulas.
StatesSatisfyConstraints ==
    /\ stage \notin {"setup", "build", "refused", "undefined"} => TaskConstraintsHold(state)
    /\ stage = "build" => IndexesFaithful(problem)
=============================================================================
