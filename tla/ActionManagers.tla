---------------------------- MODULE ActionManagers ---------------------------
(***************************************************************************)
(* A search over the states of a ground problem, as an action manager      *)
(* shows them: the manager computes a whitelist for the state, the         *)
(* iterator of GroundApplicableSet walks over it and yields the actions    *)
(* that are applicable, and the state model applies one of those.          *)
(***************************************************************************)
EXTENDS Applicability

VARIABLES
    problem,
    manager,
    state,     \* the state the search is at
    stage,     \* build, refused, undefined, idle, iterating or done
    waiting,   \* the rest of the whitelist
    yielded    \* the actions the iterator has yielded, in order

avars == <<problem, manager, state, stage, waiting, yielded>>

AMInit ==
    /\ ProblemOK(problem)
    /\ manager \in Managers
    /\ state = problem.init
    /\ stage = "build" /\ waiting = {} /\ yielded = << >>

\* The constructors of the managers.
BuildManager ==
    /\ stage = "build"
    /\ stage' = CASE Refuses(problem, manager) -> "refused"
                  [] ~Refuses(problem, manager) /\ ReadsOutside(problem, manager) -> "undefined"
                  [] OTHER -> "idle"
    /\ UNCHANGED <<problem, manager, state, waiting, yielded>>

ComputeWhitelist ==
    /\ stage = "idle"
    /\ waiting' = Whitelist(problem, manager, state)
    /\ stage' = "iterating" /\ yielded' = << >>
    /\ UNCHANGED <<problem, manager, state>>

\* The index belongs to an analyzer that died when the manager was built
\* (simple_state_model.cxx:138): as long as nothing reuses the memory, the
\* whitelist is the one above, and anything may happen afterwards.
IndexOverwritten ==
    /\ stage = "idle" /\ manager = "functional_aware"
    /\ stage' = "undefined"
    /\ UNCHANGED <<problem, manager, state, waiting, yielded>>

Yields(i) == GuaranteesApplicability(manager) \/ Accepts(problem, manager, i, state)

\* The iterator moves over one action of the whitelist.
Advance(i) ==
    /\ stage = "iterating" /\ \A j \in waiting : i <= j
    /\ waiting' = waiting \ {i}
    /\ yielded' = IF Yields(i) THEN Append(yielded, i) ELSE yielded
    /\ UNCHANGED <<problem, manager, state, stage>>

Ended ==
    /\ stage = "iterating" /\ waiting = {}
    /\ stage' = "done"
    /\ UNCHANGED <<problem, manager, state, waiting, yielded>>

\* The search goes on with one of the yielded actions.
Apply(i) ==
    /\ stage = "done" /\ \E k \in DOMAIN yielded : yielded[k] = i
    /\ state' = NextState(problem.actions[i], state)
    /\ stage' = "idle" /\ yielded' = << >>
    /\ UNCHANGED <<problem, manager, waiting>>

AMNext ==
    \/ BuildManager \/ ComputeWhitelist \/ IndexOverwritten \/ Ended
    \/ \E i \in waiting : Advance(i)
    \/ \E i \in Ids(problem) : Apply(i)

AMSpec == AMInit /\ [][AMNext]_avars

-----------------------------------------------------------------------------

AMTypeOK ==
    /\ ProblemOK(problem) /\ manager \in Managers
    /\ state \in States
    /\ stage \in {"build", "refused", "undefined", "idle", "iterating", "done"}
    /\ waiting \subseteq Ids(problem)
    /\ \A k \in DOMAIN yielded : yielded[k] \in Ids(problem)

Yielded(i) == \E k \in DOMAIN yielded : yielded[k] = i

\* What the managers read off the syntax says no less than it should: an
\* action that writes a variable of a constraint's scope is indexed as
\* affecting it, a constraint depends on its scope only, and a precondition
\* entails its entries.
IndexesFaithful(p) ==
    /\ \A i \in Ids(p) : \A j \in AllConstraints(p) \ Affecting(p, i) : \A s \in States :
          \A k \in DOMAIN p.actions[i].effects : p.actions[i].effects[k].var[s] \notin p.constraints[j].scope
    /\ \A j \in AllConstraints(p) : \A s, t \in States :
          (\A v \in p.constraints[j].scope : s[v] = t[v]) =>
              (s \in p.constraints[j].holds <=> t \in p.constraints[j].holds)
    /\ \A i \in Ids(p) : \A e \in Entries(p.actions[i]) : \A s \in p.actions[i].pre :
          p.actions[i].shape = "conjunction" => ((s[e.var] = e.val) <=> e.eq)

\* Nothing is left to test after the match tree: there are no state
\* constraints, the variables cannot leave their domains, and each
\* precondition says no more than the entries the tree was built from.
TreeCovers(p) ==
    /\ DOMAIN p.constraints = {}
    /\ \A i \in Ids(p) : \A s \in States :
          LET a == p.actions[i]
          IN  AtomsWithinBounds(a, s) /\ (s \in a.pre <=> \A atom \in RequiredAtoms(a) : s[atom[1]] = atom[2])

\* The iterator yields exactly the applicable actions, each once, whichever
\* manager is used: no index, tree or partial check of the constraints may
\* hide or invent one (action_managers.hxx:170-238).  The match tree owes
\* this only to the problems it covers.
ApplicableExact ==
    stage = "done" /\ (manager = "match_tree" => TreeCovers(problem)) =>
        /\ \A i \in Ids(problem) : IsApplicable(problem, i, state) <=> Yielded(i)
        /\ \A k, m \in DOMAIN yielded : yielded[k] = yielded[m] => k = m

\* Every state that is reached satisfies the state constraints.  The indexed
\* manager relies on this to check only the constraints an action affects.
ConstraintsHold == Hold(problem, AllConstraints(problem), state)
=============================================================================
