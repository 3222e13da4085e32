# A verification project for the Functional STRIPS planner

The planner (`src/`) is a C++ program that reads a planning task, grounds it and
runs one of several heuristic searches on it; a preprocessor in Python
(`src/python`) translates PDDL into what it reads. This directory holds TLA+ models
of its parts, TLC configurations that check them on small instances, and proofs
that TLAPS checks for every instance.

Contents: [system](#1-the-system), [modules](#2-the-modules),
[runs](#3-what-the-runs-check), [proofs](#4-what-is-proved),
[findings](#5-findings), [limits](#6-what-is-not-modelled),
[plan](#7-plan), [how to run](#8-how-to-run).

## 1. The system

One process, one thread. `main` (planners/generic) hands the options to the
`Runner`, which loads the task (`utils/loader.cxx`, `problem*.cxx`), picks a
driver from the registry and calls `do_search`; the driver grounds the actions,
builds a state model with an action manager, a heuristic and a search algorithm,
the search returns a plan or gives up, and `do_search` checks the plan and maps
the outcome to an exit code. The parts call each other synchronously; what is
hard is not concurrency but the order in which lazily evaluated data (novelty,
relevant atoms, heuristic values, supports, domains) is produced and consumed,
bookkeeping spread over several open lists, indexes that read syntax and are
trusted in place of it, and answers that are wrong without any crash.

| Component | State it keeps | Operations | Hard behaviour | What makes it correct | Module |
|---|---|---|---|---|---|
| Functional STRIPS language (`languages/fstrips/`) | syntax trees | interpret, bind, replace axioms, scopes | a formula that resolves to a constant; a term under another term | binding keeps the meaning; the scope names every variable that is read | FStrips |
| Loading and grounding (`utils/loader.cxx`, `problem.cxx`, `actions/`, `utils/binding_iterator.*`) | schemas, axioms, iterator | load, consolidate axioms, bind every schema | axiom objects are replaced while others point to them; schemas and effects are dropped | a ground action for every binding that matters, with the same meaning | Grounding |
| Action applicability (`applicability/`) | whitelists, index of constraints, match tree | applicable actions of a state | three strategies; one skips the test, one tests only some constraints | the same actions as the definition | Applicability, ActionManagers |
| Ground and lifted models (`models/`) | state, iterator position | iterate, successor | several iterators; CSPs instead of tests | exact action sets | GroundModel, LiftedModel |
| SBFWS (`search/drivers/sbfws/sbfws.hxx`) | nodes, four open lists, closed list, three families of novelty tables, cached relevant sets | create, process, expand nodes, evaluate novelty, compute R, extract the plan | a node sits in up to four queues; novelty and #r are computed lazily and incrementally | nothing lost, nothing expanded twice, exact tables, sound plans, certified failure | SBFWS |
| IW simulation (`iw_run.hxx`) | nodes, two levels of two queues, a novelty table, reached subgoals | run IW(k), mark atoms on the paths | no closed list; up to two runs with one evaluator; walks cut short | reaches what IW(k) guarantees, on shortest paths; marks all path atoms | IWRun |
| Relevant atom sets (`relevant_atomset.hxx`) | reached bits and their count | init, update, copy | count cleared but bits kept | count = atoms newly reached on the path | RelevantAtoms |
| EHC, its fallback, node events, runner (`search/algorithms/`, `search/events.hxx`, `search/nodes/`, `search/utils.hxx`) | nodes, open and closed lists, the bound of an episode, the exit code | episodes, best-first search, eager and delayed evaluation, `do_search` | dead-end value below every bound; values inherited; an uninitialised flag; memory may run out anywhere | connected plans, truthful exit codes, one evaluation per expanded node | HeuristicSearch |
| Native relaxed plan heuristic (`direct_crpg.*`, `rpg_data.*`, `relaxed_plan_extractor.hxx`, `constraints/direct/action_manager.*`, `direct_rpg_builder.*`) | relaxed state, new atoms of the layer, one support per atom, goal causes | process an action, close a layer, check the goal, choose causes, extract | new atoms invisible until the layer ends; one support out of many; causes chosen without backtracking | exact layers, real dead ends, sufficient supports, a relaxed plan that works | DirectCRPG |
| Gecode relaxed plan heuristics (`heuristics/relaxed_plan/`, `constraints/gecode/`) | the graph, extensions, domains, caches of a layer | create handlers, build layers, check the goal, extract | failures, achieved atoms and managed symbols are skipped or cached; a value is visible to `is_true` at once | exact layers, real dead ends, replayable plans, helpful atoms | LiftedTask, LiftedRPG |
| Direct constraints (`constraints/direct/`) | domains, arc worklist | translate formulas; unary, AC3, global filtering | fixpoint loop with a shared worklist; bounds kept while domains shrink | filtering never removes a solution and fails only without one | DirectConstraints, DirectCSPHandler, DirectCSP |
| Atom index and state packing (`utils/atom_index.*`, `state.cxx`) | bijection atom-index | look up, pack | negated atoms not indexed | nothing reads an unindexed atom | in GroundModel |
| IDW simulation, iterated width driver, standalone validator | - | - | not used, asserts, prints | - | - |
| Python preprocessor (`python/parser/`) | syntax trees, the task index, the ground program | parse, normalise, rename, ground effects, split statics, or: parse, ground by a logic program, link, convert | meaning lost in rewriting: captured names, moved quantifiers, effects in text order, parts taken for static | source and planner agree in every state, on actions, effects and goal | Pddl, FdTranslation, AspTranslation, Preprocessor |
| rapidjson, LAPKT | - | - | external | - | - |

Every component with its sources and status is in `PROJECT.json`; so are the
hazards, each at its line, with the properties that cover it or the reason why
none does.

## 2. The modules

```
PlanningTask ─┬─ PlanningTask_proofs (used by all proofs about searches)
              ├─ Novelty, RelevantAtoms ── SBFWS ── SBFWSInvariants ─┬─ MCSBFWS
              ├─ ForwardSearch ◄── SBFWS (refinement)                └─ SBFWS_proofs
              ├─ Novelty ── IWRun ─┬─ MCIWRun
              │                    └─ IWRun_proofs
              └─ HeuristicSearch ─┬─ MCHeuristicSearch
                                  └─ HeuristicSearch_proofs

DirectConstraints ── DirectCSPHandler ─┬─ DirectCSP ──┬─ MCDirectCSP
                                       │              └─ DirectCRPG_proofs ─┐
                                       └─ DirectCRPG ─┬─────────────────────┘
                                                      └─ MCDirectCRPG

FStrips ── Grounding ─────────────┐
                                  ├─ GroundModel ── MCGroundModel
Applicability ── ActionManagers ──┤
                                  └─ ActionManagers_proofs

LiftedTask ── LiftedModel ── LiftedRPG ─┬─ MCLiftedRPG
                                        └─ LiftedModel_proofs ── LiftedRPG_proofs

Pddl ── FdTranslation ── AspTranslation ── Preprocessor ── MCPreprocessor
```

* **PlanningTask** - tasks, states, applicability, successors, goals, and what a
  plan and a proof of unsolvability are. Preconditions, effects and goals are
  partial assignments.
* **Novelty** - the k-tuples of atoms a novelty evaluator looks up; a family of
  tables is one set of pairs `<<type, tuple>>`. `NoveltyAtoms` are the atoms an
  evaluator looks at (`ignore_neg_literals` leaves out negated ones).
* **RelevantAtoms** - `RelevantAtomSet`: `init`, `update`.
* **SBFWS** - the search. A node is its generation number; `node[n]` holds the
  fields that never change, `w_gr`, `relevant` and `processed` those that do.
  The queues are sets of nodes. Correspondence:

  | Action | Code |
  |---|---|
  | `CreateRoot` | `search()` up to its loop, with the late reset of `_solution` |
  | `PopQ1`, `PopQrest` | those branches of `process_one_node` |
  | `PopQwgr1` / `EvaluateWgr1`, `PopQwgr2` / `EvaluateWgr2` | those branches; between the two come the recursive `compute_R` calls |
  | `ComputeR` | the innermost frame of the recursive `compute_R`; `stack` holds the frames |
  | `ProcessNode` (in the above), `Generate` | `process_node`, `expand_node`; one `Generate` per applicable action, which creates the successor, discards it, or finds the goal and breaks |
  | `NoPlan`, `StartExtraction`, `ExtractAction`, `PlanExtracted` | the end of the loop and `extract_plan` |

  Which of several equally good nodes a queue returns is left open (`Best`), as
  the comparer is no strict weak order below `<#g, g>`; so is the order of the
  applicable actions. `simulate` is modelled by any of `RelevantSets`; IWRun
  models what it does.
* **ForwardSearch** - the abstract specification: states are opened from
  successors of closed ones, closed at most once, dropped only when pruning, and
  "no plan" needs a certificate. `SBFWS!FS` instantiates it.
* **SBFWSInvariants** - the layers of the inductive invariant (section 4). Those of
  IWRun and HeuristicSearch are in the modules of their proofs.
* **IWRun** - `IWRun::compute_R` with every method (`sim.r_all`,
  `sim.r_g_prime`, `sim.hybrid`, plain), the breadth-first runs with their
  swapped queues, and the extraction of R. `Expand`, `Generate` and `NextLevel`
  are the three loops of `run()`; `Extract` is what each method does with a
  finished run, including the second run of width 2.
* **HeuristicSearch** - what the Gecode drivers run: enhanced hill climbing
  (`StartEpisode`, `EHCOpen`, `EHCGenerate`, `EHCSkip`, ...), the best-first
  search (`GBFSOpen`, `GBFSGenerate`, `GBFSUpdate`, ...) that follows it or runs
  alone, the two observers that the creation and expansion events reach in a
  fixed order (`NotifyCreation`, `OnExpansion`), and `do_search` around them
  (`OutOfMemory`, `Report`). Heuristics are functions from states to estimates
  and relevant atoms, sound about dead ends and zero only in goals; the uninitialised flag of
  `EHCSearchNode` is a free choice between `EHCSkip` and `EHCGenerate`.
* **DirectConstraints** - the stateless half of the constraint layer: how
  `DirectTranslator` turns a formula into a constraint, what it throws on
  (`Supported`), and how each class of constraint filters a domain. Nested terms
  over one or two variables are the *extension* they are compiled to. A filter is
  a function from domains to what it leaves; only alldiff, whose sort breaks ties
  in any order, gives a set of outcomes.
* **DirectCSPHandler** - `DirectCSPHandler::filter` as a machine: `StartFilter`
  is the call, `UnaryFilter` / `UnaryDone` the node-consistency pass,
  `ArcReduce` / `ArcsDone` AC3 (any arc may be next: the worklist is ordered by
  addresses), `GlobalFilter` / `GlobalsDone` the global pass, `Refilter` /
  `LeaveLoop` the fixpoint loop, which is entered with an empty worklist as in
  the code. After a failure no caller reads the domains; the model leaves them.
* **DirectCSP** - one call of the handler on a set of formulas, and its promises.
* **DirectCRPG** - the heuristic the native driver uses, with the handler inside
  it. `ProcessAction` is `DirectActionManager::process`, `LayerDone` the end of a
  layer in `evaluate`, `GoalChecked` the answer of `checkGoal`, `SelectValue`,
  `Propagated`, `AllSelected` the recursion of `extractGoalCauses`, `ProcessAtom`
  and `BuildRelaxedPlan` the extractor; both extraction types give the same
  count, as both sets contain the per-atom pointer. `hmax` is the layer that
  `DirectCHMax` would return.
* **FStrips** - terms and formulas as records, their values under a binding and a
  heap of axiom objects (`Value`, `Holds`), what `bind` makes of them and when it
  throws (`Bind`, `BindTerm`; `False` and `Error` are results), `ProcessAxioms`,
  and the two scopes (`DirectScope`, `FullScope`).
* **Grounding** - `Loader::loadProblem`, `Problem::consolidateAxioms` and
  `ActionGrounder::fully_ground` as one machine: `LoadSchema`, `LoadFormulas`,
  `ConsolidateAxiom` (one name at a time, in the order of a hash table, the old
  object being deleted), `RewriteFormulas`, then `StartSchema` / `GroundBinding`,
  whose `odometer` is the binding iterator.
* **Applicability** - the semantics of ground actions and what the naive,
  the functional-aware and the match-tree manager are built from, refuse and
  misread. Formulas appear by their extensions, so that the definitions can be
  proved about; what an index reads off the syntax is part of the action.
* **ActionManagers** - a search that moves through states by way of one manager:
  `ComputeWhitelist`, `Advance` (one potentially applicable action at a time),
  `Ended`, `Apply`.
* **GroundModel** - composes the two halves: `AsAction` and `AsConstraint`
  compute from the syntax of Grounding's result what the managers read off it.
* **LiftedTask** - tasks with parameters and the CSP of an action, an effect or
  the goal: the variables and constraints that the Gecode handlers post. A Gecode
  space is the set of its solutions (`Solutions`) over a view of the reached
  atoms. State variables that several terms name are one CSP variable
  (`SharedVariables`), nested fluents each have their own. `EffectSupport` is what
  `Supports::extract_support` reads off a solution, `RecordedSupports` what
  `BaseActionCSP` keeps of it. `Typed`, `TypedConds` and `TypedEffect` say which terms the loader builds.
* **LiftedModel** - `LiftedStateModel` and `LiftedActionIterator`:
  `InstantiateCSP`, `NextSolution`, `Exhausted`, `EndIteration`, `ApplyAction`.
* **LiftedRPG** - one evaluation of SmartRPG, GecodeCRPG, GecodeCHMax or
  UnreachedAtomRPG, in the states the lifted search or the plain semantics
  reaches: `CreateHandlers`, the `FullLayer`s of the reachability analysis,
  `ProcessHandler` / `ProcessAtom` for the handlers and the unreached atoms of a
  layer, `NextLayer`, `GoalReached`, `ProcessTuple` and `BuildRelaxedPlan` of the
  plan extractor. `SupportsOf` tells how a kind of handler records a support;
  `relevant` is the vector the caller passes, which only SmartRPG fills
  (`ReportsRelevant`; the others call the overload at `relaxed_plan.cxx:26`).
* **Pddl** - the tasks of the preprocessor as abstract syntax, and their usual
  meaning (deletes before adds), the reference for the translations.
* **FdTranslation** - the default route: negation normal form and simplification
  (`ParseCondition`, `Simplified`), renaming apart (`Uniquified`), normal form and
  resolution of effects (`Normalized`, `AddEffect`), prenex form (`Prenex`),
  quantified effects over the objects (`GroundedEffects`), types, statics and
  initial values (`FdIndex`); `Parsable`, `Processable`, ... say what each stage
  refuses.
* **AspTranslation** - the route of `--asp`: flat junctions and the variables of
  each node (`AspParse`), the logic program by what its rules derive (`Reached`,
  `ReachedLits`, `LeastModel`; gringo is external), static atoms (`WithStatics`),
  linking (`LinkCondition`, `LinkEffect`, `LinkAction`) and conversion
  (`AspIndex`). `Crash` stands for an exception.
* **Preprocessor** - the two routes as a machine (`FdParse`, `FdTaskIndex`;
  `AspSimplify`, `AspGrounding`, `AspLinking`, `AspTaskIndex`; `Load`), after
  which `Step` takes every action the source allows in the source's state and in
  the planner's state together. A translation may also end refused ("failed"),
  with the goal out of reach ("hopeless": then `SourceStep` goes on in the source
  alone), or with a value the planner never initialises ("undefined").

Definitions that carry the remark *slip* are alternatives a plausible mistake in
the code would turn a definition into; `PROJECT.json` pairs each with the
property that detects it. No specification uses them.

## 3. What the runs check

| Run | Instance | Checks |
|---|---|---|
| `sbfws_complete` | three novelty levels, R from the root only, no pruning | `TypeOK`, `NoveltyTablesComplete`, `NothingLost`, `NoPlanIsCertified`, `PlanSolvesTask`, `NeverExpandedTwice`, `Termination`, `ImplementsForwardSearch` |
| `sbfws_pruned` | pruning, R anew whenever #g decreases | `PruningIsStrict`, `OneNodePerState`, `RelevantCountExact` |
| `sbfws_empty_plan` | tasks that may be solved at once | `EmptyPlanFound` is violated: finding 1 |
| `iwrun_all` | every method, widths 1 and 2 | `RunOK`, `OptimalIsFirst`, `WidthGuarantee`, `RelevantPaths`, `Termination` |
| `heuristic_search` | forty-one tasks, up to five estimates and two relevant sets for each, every combination of driver and options | `PlanIsCorrect`, `UnsolvableIsTrue`, `PathsConsistent`, `EvaluatedOnce`, `Termination` |
| `csp_filter` | pairs and triples of formulas; every assignment; every alldiff over intervals | `FilteringSound`, `FilteringComplete` |
| `crpg` | two or three actions of six, six goals, three seeds | `LayersExact`, `EstimatesSafe`, `SupportSufficient`, `RelaxedPlanValid`, `Termination` |
| `crpg_minus` | the effect `x := 2 - x` | `SafeDeadEnds` is violated: finding 2 |
| `ground_model` | seven tasks with types, axioms, quantifiers, conditional effects, nested heads, state constraints | `GroundingExact`, `ApplicableExact`, `StatesSatisfyConstraints` |
| `match_tree` | Boolean tasks without constraints | `ApplicableExact` |
| `lifted_rpg` | twenty-four tasks, the four kinds of handlers, with and without novelty constraints and reachability analysis | `LayersExact`, `SafeDeadEnds`, `RelaxedPlanReachesGoal`, `HelpfulAtomsExist`, `LiftedApplicableExact` |
| `preprocessor` | seventeen tasks, both routes | `FaithfulStates`, `FaithfulActions`, `FaithfulGoal` |

Four more configurations are tasks that the passing runs leave out; TLC is
expected to find the named property violated for each of them, as section 5
explains. Those of the preprocessor are run with `tlc -continue`, so that TLC goes
on after the first:

| Configuration | Task | Violates |
|---|---|---|
| `MCGroundModel_nested.cfg` | a predicate nested in the head of an effect, and in a state constraint | `ApplicableExact`: finding 3 |
| `MCLiftedRPG_repeated.cfg` | an action with `in(x) = 1` and `in(y) = 2` as preconditions, lifted handlers | `RelaxedPlanReachesGoal`: finding 12 |
| `MCPreprocessor_first_divergences.cfg` | `addFirst`: a move whose positive effect is listed first | `FaithfulStates`: finding 4 |
| | `emptyType`: a quantifier over a type without objects in a disjunction | `FaithfulActions`: finding 5 |
| | `capture`: a quantified effect under a condition on a variable of the same name | `FaithfulStates`: finding 6 |
| `MCPreprocessor_second_divergences.cfg` | `staticPart`: a condition of an effect with a static part | `FaithfulStates`: finding 7 |
| | `constant`: an effect on an object of the domain | `FaithfulActions`: finding 8 |
| | `otherType`: a static existential condition over a type | `FaithfulActions`: finding 9 |
| | `typedGoal`: a goal for all objects of a type | `FaithfulGoal`: finding 10 |
| | `staticOnly`: an action that needs a static fact only | `Translated`: finding 11 |

The properties compare what the code computes incrementally with a definition
that does not:

* `WidthGuarantee` compares the run with what IW(k) guarantees, defined without
  queues and tables: the cost of a tuple over chains in which *every* state that
  makes one tuple true has an action that makes the next one true.
  `RelevantCountExact` compares the lazily cached #r with a count along the path.
* `LayersExact`, `EstimatesSafe` and `RelaxedPlanValid` (direct heuristic) compare
  with layers and reachability over whole states, without projections, constraints
  or supports; those of LiftedRPG with layers without novelty, caches, pruning or
  managed symbols; `RelaxedPlanReachesGoal` replays the plan. `HelpfulAtomsExist`
  is about the smart drivers, whose searches read the relevant atoms; with the
  others the caller gets none, and the claim does not hold
  (`heuristic_search_node.hxx:82`).
* `FilteringSound` and `FilteringComplete` compare with the set of solutions and
  with the largest locally consistent domains: a filter keeps every value of every
  solution, fails only without a solution, decides assignments, is arc consistent
  for binary constraints and tight in the bounds of intervals.
* `GroundingExact` compares the ground task with the task of the files, state by
  state; `ApplicableExact` the yielded actions with the definition of
  applicability; `StatesSatisfyConstraints` the states a manager leads to with the
  constraints as the task states them.
* `FaithfulStates`, `FaithfulActions` and `FaithfulGoal` compare the translated
  task with the one in the file, executed side by side: what the translation
  leaves out of the state never changes, and a task it gives up has no plan.
* `UnsolvableIsTrue` and `PlanIsCorrect` compare the exit code with the task.

**Bounds.** The state of a search grows with the reachable states of the task, so
the tasks are the bound; nothing else is capped. SBFWS runs on every task over
three Boolean variables with four actions out of a pool of ten and three goals,
IWRun on tasks over three variables with up to three values and three to five
actions. The pools contain chains (goal at depth 3), actions that destroy a
subgoal on the way to another (so #g both decreases and increases), detours and
shortcuts (the same state reached at two depths), solvable and unsolvable tasks.
With these, every queue gets nodes of every novelty, duplicates meet open and
closed originals, relevant sets are computed along chains of uncached ancestors,
and IW(1) fails where IW(2) succeeds. All action orders and queue ties are
explored. `heuristic_search` has tasks over three Boolean variables with
estimates that mislead, plateaus, dead ends and episodes that end in them, so
that hill climbing succeeds, fails in mid-course and never starts, and paths are
improved in the open list.

The constraint runs use three variables with values 0..2 (0..3 for alldiff):
enough for a Hall interval of two variables inside three, for a value that
becomes unsupported only through a third variable, for domains with gaps and for
failures in every pass; all orders of arcs are explored. In `crpg` the actions
are chained (an action enables another only in a later layer, up to hmax 4),
use every arithmetic operator, set several variables and depend on values in
bounds; goals range over unary, binary, compiled and global constraints, among
them one that is locally consistent but unsatisfiable in early layers, so that
the propagation of selected values fails. The passing run leaves out what
finding 2 and the remarks of section 5 on sums and bounds are about; also a
relation of a variable with itself (`x < x`), whose second arc the handler never
puts back.

`ground_model` goes through every order of the axioms and every manager; its
tasks have parameters of empty types, preconditions that binding makes false,
heads that resolve to no variable, axioms that mention axioms. `lifted_rpg` has
tasks with nested heads, predicates without arguments, conditional and delete
effects, constraints over several symbols, goals that are reached in layers 0 to
3 or never. Its instances keep every nested term over symbols that the drivers
manage (`Fit` in MCLiftedRPG): the others have no extension, and the code looks
them up in an empty table (section 5). Three actions have two nested terms
of one symbol: two fluents of which one or none is a state variable, and two
predicates. GecodeCRPG gets only those whose supports it records whole
(`NestedOnce`), in the lifted and, with parameters bound, in the ground form;
finding 12 is about the rest, and `MCLiftedRPG_repeated.cfg` is one of
them. Each property is broken by its slip on
the same instance.

`preprocessor` has three objects in a hierarchy of up to three types, one of them
empty, and one task for each group of constructs: quantifiers that shadow a
parameter in conditions and effects, contradictory and nested conditional
effects, axioms over axioms, state constraints, disjunctive preconditions, statics
in every position, actions out of reach, goals that need deletes, and each
construct that a route refuses. The constructs of findings 4 to 11 are kept out
of it, and shown to break a property in configurations of their own.

**Fairness.** `WF_vars(Next)`, and nothing stronger: the code is one thread that
never waits, so some next step is always taken. No fairness between actions is
assumed; `Termination` holds because of what the steps do. GroundModel,
LiftedRPG and Preprocessor walk through all states of a task for ever and have safety properties
only.

**Deadlock** is checked wherever the end of a run is a state of its own that
stutters (`Terminating`, `Stopped`). It is not checked in `csp_filter`, where a
call returns once, in `heuristic_search`, which stops after the report, and for
the preprocessor, where a translation may be refused and a state may have no
applicable action.

## 4. What is proved

**SBFWS.** For every finite set of variables and values, all tasks, both numbers of
novelty levels, with and without pruning and R:

| Theorem | Statement |
|---|---|
| `TypeCorrect` | `Spec => []TypeOK` |
| `OneNodePerStateAlways` | `Spec => []OneNodePerState` |
| `NothingIsLost` | `Spec => []NothingLost` |
| `GivingUpIsCertified` | `Spec => []NoPlanIsCertified` |
| `GivingUpIsRight` | when the search gives up without pruning, no sequence of actions of any length is a plan |
| `NoStateExpandedTwice` | `Spec => NeverExpandedTwice` |
| `PlanIsSolution` | `Spec => []PlanSolvesTask` |
| `Refinement` | `Spec => ImplementsForwardSearch`, if the search may prune or no task is solved by the empty plan (without that premise it is false: finding 1) |
| `TablesAreComplete` | `Spec => []NoveltyTablesComplete` |
| `CountersAreExact` | `Spec => []RelevantCountExact` |
| `PruningAlwaysStrict` | `Spec => []PruningIsStrict` |

None of these properties is inductive. The strengthening is built in layers, each
proved from the ones before and together one invariant, `SearchInv`:

1. `Bookkeeping` = `TypeOK` + `NodesOK` (a node comes from an older parent by an
   applicable action) + `CursorOK` (`cur` is a node whenever it is used, the
   loops do not overlap) + `CallsOK` (what an evaluation reads was computed or
   a call for it is pending). Without `CallsOK` the evaluation could read a
   missing set, and types would be lost.
2. `QueuesOK` - queues of earlier tests are contained in the queues of later
   ones, and the closed states are those of processed nodes. This is what makes
   `OneNodePerState` and `NothingLost` inductive: a node that leaves one queue
   is still in the next, in evaluation, or processed.
3. `ExploredOK` and `AnswerOK` - until there is a solution each successor of an
   expanded node is known or pending. At the answer nothing is pending and no
   queue holds a node, hence the certificate.

   `PlanIsSolution` adds that the suffix extracted so far leads from the current
   node to the goal; `Refinement` maps each action to a step of ForwardSearch or
   to a stutter.
4. `NoveltyInv` - the tables hold what every queued node
   must have left there (`TablesOK`), for the tests it has already had
   (`TestsOK`). It is not inductive without the order in time: an evaluator looks
   only at the tuples a node does not share with its parent when the two have
   the same type, so the parent must have been tested before (`ParentsFirst`, by
   `DepthsOK`). `AtomSetsOK` says that a cached relevant set is the one its
   path defines, however the lazy calls derived it.

**The task.** `PlanningTask_proofs`: `Solvable` is defined by sets of states;
`SolvableMeansPlan` says that these are the states from which a *sequence of
actions* leads to a goal, and `CertificateRefutes` that the certificate of a
search that gives up refutes every such sequence.

**Heuristic search.** For every task, every estimate whose -1 is right, every
driver and option (`HeuristicSearch_proofs`):

| Theorem | Statement |
|---|---|
| `PlansAreCorrect` | `Spec => []PlanIsCorrect`: RUNTIME_ERROR is unreachable |
| `UnsolvableIsProof` | `Spec => []UnsolvableIsTrue` |
| `UnsolvableMeansNoPlan` | after UNSOLVABLE no sequence of actions of any length is a plan |
| `PathsAreConsistent` | `Spec => []PathsConsistent` |
| `ExpandedAreEvaluatedOnce` | `Spec => []EvaluatedOnce` |
| `TypeCorrect` | types, and that the cursor and the queues are nodes |

The invariant: parent links go to nodes of smaller `g` by an applicable action
(`Links`), and in the best-first search only to nodes that are not open and whose
state is closed (`PhasesOK`). The second half is why an update in the open list,
which gives a node another parent and length, cannot leave a child with a stale
length. A plan is then read off the links by induction over `g`. For UNSOLVABLE,
every successor of a closed state is closed, open, or not solvable (`ExploredOK`);
the third case needs that an estimate of -1 is right although a node may carry
the one *inherited* from its parent (`DeadEndsOK`).

**IW simulation.** For every task and every setting of the options
(`IWRun_proofs`):

| Theorem | Statement |
|---|---|
| `IWGuarantee` | `Spec => []WidthGuarantee`: a subgoal to which a chain of tuples of size at most k leads is reached, on a shortest path |
| `BookkeepingIsRight` | `Spec => []RunOK` |
| `OptimalNodesAreFirst` | `Spec => []OptimalIsFirst` |
| `PathsAreRelevant` | `Spec => []RelevantPaths` |

The invariant `IInv` adds to the types the tree of nodes (`NodesOK`), that nodes
which were not pruned have different states (`KeptOnce`: two equal states have the
same tuples, and the second was not novel), what is recorded for each subgoal
(`GoalsOK`), that depths grow with the order of generation (`DepthsGrow`), and
`LevelsOK`: there is a depth L such that the current queues hold nodes of depth L
and the next ones of depth L+1, and every *novel* node - one that is the first
with some tuple of at most `width` atoms - is open or was fully expanded, unless
the run stopped first. The guarantee then follows by induction over the depth:
the first node with a guaranteed tuple of depth d is novel, so it was expanded,
so its successor with the next tuple was generated, and `DepthsGrow` makes the
first node with that tuple one of depth d+1.

**The action managers.** For every set of variables and domains, every problem and any number
of actions and constraints (`ActionManagers_proofs`):

| Theorem | Statement |
|---|---|
| `ManagersExact` | while `Covered`, the actions yielded at the end of an iteration are exactly the applicable ones (`ApplicableExact`) |
| `ConstraintsPreserved` | while `Covered`, every state the search reaches satisfies every state constraint |

`Covered` says what the managers rely on: the initial state satisfies the
constraints (the code never checks it), the indexes are faithful to the formulas
(`IndexesFaithful`), and the manager is the naive or the functional-aware one.
Neither statement is inductive alone. The functional-aware manager tests only
the constraints that mention a variable the action affects; that is exact only in
states that satisfy the others already (`UnaffectedConstraint`), and the states
satisfy them only because the test was exact (`TestIsExact`). The invariant has
both, and that the actions neither yielded nor waiting are not applicable, for
which the whitelist must be complete (`WhitelistComplete`). The successor is a
state because the values stay within bounds (`SuccessorIsState`, over
`LatestWriter`: the last effect that writes a variable wins). The premise
`IndexesFaithful` is what `ground_model` checks of the indexes that are read off
the formulas, in `StatesSatisfyConstraints`; finding 3 is a task where it fails.
The match tree stays with TLC: its whitelist is a recursive function over the
order of the variables, and no theorem states what it computes.

**Direct constraints.** For any number of variables, any finite domains of integers
and any sequence of supported formulas (`DirectCRPG_proofs`, first part):

| Theorem | Statement |
|---|---|
| `FilteringIsSound` | if sums are written in the order of the variables: `FilteringSound`, no solution is lost and Failure is returned only without one |
| `DomainsStayNonempty` | always: domains only shrink, and none is empty while `filter` runs |
| `FilteringIsComplete` | if `PlainOnly` the formulas, and `OnIntervals`: `FilteringComplete`, success leaves exactly the largest locally consistent domains (no global constraints), decides assignments, and leaves a single alldiff bounds consistent |

The premise `SumsInOrder` is necessary: the scope of a sum is a sorted set, and
the filter takes its last variable for the total (section 5). For all other
formulas nothing is assumed beyond `Supported`; a relation of a variable with
itself is included.

The invariant says that the constraints are the translations of the formulas, that
the unary and global passes and the worklist hold constraints of their own class
(what a filter may read of its scope depends on it), that no domain is empty, and
`SolutionsStay`, stated for the solutions within the *original* domains. Each filter has
a lemma of its own (`UnaryKeeps`, `ArcKeeps`, `AlldiffFacts`, `SumFacts`) against
the meaning of the *formula*, so the translation is part of what is proved: `c < X`
posted as `X > c`, scopes as sorted sets, tables over them. Two need an argument:

* alldiff: if `u[j]` exceeds `max[i]`, the variables that were counted into `u[j]`
  are a crowd of more variables than there are values between `min[j]` and
  `max[i]` (`CrowdFits`); when it equals `max[i]` they use up every value of that
  interval, so a variable outside the crowd lies above it (`RaisedRoom`,
  `RaisedValue`). The second pass is the first one over negated domains
  (`InvertFacts`).
* sum: a sum of lower bounds is at most the sum of any values, and no term
  exceeds its lower bound by more than the whole sum does (`SumsCompare`).

`PlainOnly` says which formulas translate without loss: no sums, of which only lower
bounds are filtered, so that single values are not decided; no relation `X op X`,
whose two arcs prune the same variable; and in an alldiff no constant and no
variable twice, because a scope is a set of variables. That filtering prunes
enough rests on `LocalInv`: while no failure was reported, all values satisfy the
unary constraints already filtered, and every value that an arc *outside the
worklist* prunes has a partner. A step keeps this although it leaves out
arcs: pruning a variable takes partners only from the other variable of a
constraint, and for the constraint just used the values that went were nobody's
partners. With globals in the call it is kept only if nothing is pruned at
all (`Tame`), which is so on single values. There every alldiff that was filtered
holds (`GlobalInv`, over `PassDecides`: of two equal single values the second has no
room). That nothing else is pruned is `ConsistentStays`: locally consistent
subdomains survive every step.

That a single alldiff leaves bounds that belong to assignments (`AlldiffBounds`) is the
converse of the counting argument, Hall's theorem for intervals. If no crowd
is overfull, no interval has more members, variables whose values all lie in it, than
values (`RoomyIs`, `CrowdOf`). Then some value of each variable is *free*, in no
interval that its members fill and the variable is no member of: two
filled intervals that touch fill their union (`TightUnion`), so the value after the
last of them is free (`FreeExists`). Fixing variables to free values one after the other
keeps the room (`FixKeeps`) and ends in an assignment (`FitsExists`). What the pass leaves as
the least value is free: `incrMin` is called for each filled interval
that the variable starts in (`TightRaises`), although only crowds counted at their
last variable are looked at. The second pass keeps the assignments of the first, so it
cannot undo the minima. `OnIntervals`, no gaps in the domains of an alldiff that is
called alone, is necessary: over {0}, {2}, {0,2,3} the pass sees bounds only and leaves 2 in
the third domain (section 5).

**The native relaxed plan heuristic.** For any number of variables with finite
domains, any actions and goals that `check_supported` accepts (`DirectCRPG_proofs`,
second part, on top of the proofs about the handler):

| Theorem | Statement | Premises |
|---|---|---|
| `GraphIsExact` | `LayersExact`: an atom enters in layer k exactly if some state within layer k-1 has an applicable action that makes it true | `FromVariables` |
| `SupportsSuffice` | `SupportSufficient`: a support is from earlier layers and all that its action needs | `FromVariables`, `BoundsSupported` |
| `EstimatesAreSafe` | `EstimatesSafe`: from a dead end no sequence of steps reaches a goal, and hmax is a lower bound on the steps to a goal | `FromVariables`, `SumsInOrder` of the goal |
| `RelaxedPlansAreValid` | `RelaxedPlanValid`: the goal causes reach the goal, unless a propagation failed, and the extracted actions reach the causes | `Regular`: `FromVariables`, `BoundsSupported`, `PlainOnly` of the goal |

The premises name the places where the code departs from the formulas:
`FromVariables` excludes `c - X` (finding 2), `SumsInOrder` is
as above, and `BoundsSupported` excludes an effect that could leave its bounds and
reads a variable that neither the precondition nor the supported effect mentions
(section 5, `completeAtomSupport`). Every instance of run `crpg` satisfies them.

An action is applied to the *domains* of single variables. That this is the same
as applying it to states rests on two facts: each constraint of an action has one
variable, so that a state is accepted exactly if each of its values is
(`ApplicableExact`), and a value of a filtered domain extends to an accepted state
if no domain is empty (`StateWith`, `OutcomesExact`; an empty one means that no
state is). The invariant, `GraphInv`, says that the layers completed so far are
those of the definition, that the relaxed state is the last of them (`Accumulated`
is applied only at the end of a layer), and that in the middle of a layer what is
new was reached from the *previous* one by the actions before `idx`, and all of
that is in. `SupportOK` adds the supports: the least value of the first effect and
the least values of the precondition's variables are chosen independently of each
other, and are enough together because no constraint relates two variables.

For the estimates, `EstimateInv` says that no layer but the last contains a goal
state: while the goal is checked, the handler's own invariant holds of the goal's
formulas and the layer (`FilterInv`), so that Failure or an empty domain means no
solution. A layer that adds nothing is closed under all actions (`SuccessorWithin`), so
the states that can be reached never leave it; otherwise the states reached in k
steps are within layer k (`ReachedWithin`).

For the relaxed plan, `CauseInv` says that the domains from which values are selected
come from calls of the handler on the goal that succeeded, each starting
from what the last one left with one more variable reduced to a single value
(`Selecting`). When all goal variables are set, the last call was on single
values and decided the goal (`AllSelectedReach`): this is where filtering has to be
complete. A cause left out because the seed has the value changes nothing, as the state
compared is the seed with the causes written over it. `ExtractOK` says that the
causes and the supports of all processed atoms are processed, pending, or hold in the
seed. At the end nothing is pending, and the replay (`PlanReplayed`) goes by induction
over the layers: the support of an atom of layer k+1 is in the domains of layer k, gives
no variable two values (`Functional`), and so extends by the seed's values to a state in
which the recorded action applies and makes the atom true (`AtomReplayed`).

**The lifted action iterator.** For every language, every set of typed tasks with
any number of actions, and every state the lifted search reaches
(`LiftedModel_proofs`):

| Theorem | Statement |
|---|---|
| `IteratorIsExact` | `LiftedApplicableExact`: at the end of an iteration the iterator has yielded exactly the applicable actions, each once |
| `LiftedStatesTyped` | every state reached gives each variable a value of its type |

The iterator never interprets a precondition: it takes the solutions of a CSP. The
first half of the proof is that, in a typed state, the solutions of an action CSP
and the bindings under which the action is feasible correspond one to one
(`SolutionsAre`). A CSP has a variable for each fluent, nested or not, so a solution
could disagree with the state; it does not, because each fluent is posted with the
extension of its symbol or its domain, which has one value in a state: by induction
over the nesting of terms (`TermInduction`) every CSP variable has the value of its
term (`SolutionReads`). Preconditions then hold in the solution exactly when they
hold in the state (`ConditionsHold`), predicates being checked by their atoms alone
(`PredicatesPosted`), and the bounds of the add effects are those of all effects,
because deletes are always within theirs (`BoundsHold`).

The second half is the iteration (`IterationInv`): what is yielded are the actions of
the handlers left so far and, of the open one, those of the solutions it has
returned; nothing is yielded twice because solutions with the same parameters are
equal and actions have different names. It needs that states stay typed, and they do
because only applicable actions are applied (`ResultTyped`, over `ApplyTyped`), so
both theorems come from one invariant.

**The Gecode relaxed plan heuristics.** For every language, every set of typed tasks,
and each of the four kinds of handlers, with or without novelty constraints and
reachability analysis (`LiftedRPG_proofs`, over the facts about CSPs in
`LiftedModel_proofs`):

| Theorem | Statement | Premises |
|---|---|---|
| `DeadEndsAreSafe` | `SafeDeadEnds`: no goal state is reached from a seed with value -1 | `SymbolsManaged` |
| `GraphLayersExact` | `LayersExact`: the layers are those of the relaxed planning graph | `SymbolsManaged` |
| `HelpfulActionsExist` | `HelpfulAtomsExist`: with a positive value the smart drivers get an atom of the plan that is in the first layer, and that an applicable action of the seed adds | `SymbolsManaged` |
| `RelaxedPlansReachGoal` | `RelaxedPlanReachesGoal`: the actions of the plan, replayed without deletes, reach the goal | `SymbolsManaged`, `EffectsStayInBounds`, `SupportsWhole` |
| `RelaxationSound` | a set of atoms that is closed under the handlers has the atoms of every state reached | typed task |
| `GraphInvariant` | `Spec => []BuildInv`, the inductive invariant below | |

The premises again name places where the code departs from the definition.
`SymbolsManaged`: every symbol that a CSP looks up in an extension is one that
`compute_managed_symbols` collects, which looks at effects and the goal only
(section 5). `EffectsStayInBounds`: where the effects of an action are processed
together (by GecodeCRPG), none of them can leave its bounds if there are several; the
recorded support of an atom leaves out what only the *other* effects read, and it
is not enough when these decide whether the action applies (section 5).
`SupportsWhole`: with GecodeCRPG, no effect depends on two nested fluents of one
function, so that none is dropped from the support (finding 12; `RecordedFacts`).
Every instance of run `lifted_rpg` satisfies all three. The invariant itself needs
only the first: it says that each support is one the handler records
(`SupportsOf`), whole or not.

The first part is that the four ways to make handlers derive the same atoms as the
states do. A solution of a CSP over a set of atoms is a choice of values (`Meets`) and
the atoms it reads (`Reading`), so more atoms have more solutions (`CSPFacts`), and
the state in which an action is applied is such a set (`RelaxationStep`): whatever the
compilation of nested heads or the binding of parameters makes of an effect, some
handler produces the atom the effect writes. Hence `RelaxationSound`, by induction
over the states that are reached.

`BuildInv` is what holds of the graph in the middle of a layer. `Pool`: the
handlers are there, confined to a set F that is closed and has the seed's atoms, but
for those that have no solution over F; pruning after the reachability analysis
(`PruneUnreachable`) makes F the full graph. `Layers`: what the layers, the domains and
the extensions are. `Explained`: each atom has a solution that accounts for its
action and its support, and what it looked up is from earlier layers (a predicate
without arguments may be from the same one). `Grounded`: two principles of induction,
over derivations and over supports; they are stated with sets of atoms because
within a layer an atom may support another. `Complete`: each
closed layer has all that the one before derives. `Progressing`: the
handlers (or atoms) already processed have nothing to add, although a
handler may be skipped because its one atom is there (`Skips`), its solutions are
filtered by novelty, or its CSP is cached as failed: in the last case because the
domains do not change within a layer, and a predicate without arguments
that appears meanwhile is reconsidered in the next (`AtomStep`). So a layer that
adds nothing is closed (`LayerDone`), and `SafeDeadEnds` follows from `RelaxationSound`.

The plan: `ExtractInv` says that the atoms processed, those pending and the seed
contain the causes of the goal and the supports of all atoms processed. At the end
nothing is pending, so by the second principle of `Grounded` some processed atom is
supported by the seed alone, and by the same principle the replay, which is closed
under the actions of the plan (`ReplayEnds`), has them all. A support is not what
the recorded solution read; that *another* solution with the same action reads only
the support, and the seed for the rest, is `Resupport`: each term the effect
does not depend on takes the value it has in the seed, unless it names a state
variable that a term of the effect names too, and then it keeps that one's.

**Assumptions.** Those named `ASSUME` in the modules, which TLC evaluates in every
run: finite sets of variables and values, tasks well typed, legal options,
estimates that are zero exactly in goals and -1 only in dead ends, fewer than
2^16 atoms (`IndexAssumption`: `#r` has 16 bits in the key of a novelty table), and,
for the lifted tasks, a finite language (`LanguageAssumption`), terms that the loader
accepts and no negated atoms, which the handlers refuse (`TasksAssumption`).

**Induction.** The library's induction theorems take an operator as a parameter
and cannot be instantiated here. Statements about all depths, all plans or all
nodes are proved by taking the *least* counterexample in a set of numbers
(`Induction` in PlanningTask_proofs) and unrolling the recursive function once
(`Recursion`); sets are enumerated the same way.

**Model-checked only.** Every `Termination` (liveness). Grounding, GroundModel and
Preprocessor, which translate syntax by `RECURSIVE` operators, out of reach of the
prover.

## 5. Findings

Shown by a run (1 and 2) or by a further configuration of section 3 (4 to 6 by
`MCPreprocessor_first_divergences.cfg`, 7 to 11 by
`MCPreprocessor_second_divergences.cfg`, each on the task named):

1. **The empty plan is missed** (`sbfws.hxx:551`). When the initial state is a
   goal, `create_node` stores the root in `_solution` and queues nothing; then
   `search()` resets `_solution` and finds all queues empty: UNSOLVABLE.
   Run `sbfws_empty_plan`.
2. **`c - X` is translated as `X - c`** (`translators/effects.cxx:54`); the class
   made for it is never used. Reachable goals become dead ends. Run `crpg_minus`.
3. **The scope of an effect misses nested variables** (`scopes.cxx:139`). The
   variables an effect on `p(q(c))` may write are not among those the index of
   constraints looks up, so the functional-aware manager leaves the constraint
   on them untested and yields inapplicable actions. Shown by `MCGroundModel_nested.cfg`.
4. **An effect that adds before one that deletes** (`effects.py:65`). Effects that
   contradict each other only after binding are applied in the order of the
   file, so that the delete may win; `effects.py:74` says "add-after-delete
   semantics". Shown by task `addFirst`.
5. **Prenex form over an empty type** (`fstrips.py:274`). A disjunction with an
   existential part becomes false altogether; `fstrips.py:251` calls the result
   "a built-in equivalent". Shown by task `emptyType`.
6. **A condition captured by a quantified effect** (`effects.py:207`). The
   quantifier is moved over the condition before variables are renamed apart.
   Shown by task `capture`.
7. **ASP route: static parts of an effect's condition are lost**
   (`asp/problem.py:1407`), although the comment at 1405 says that they "are
   always preserved". Shown by task `staticPart`.
8. **ASP route: effects on objects of the domain are overlooked**
   (`asp/problem.py:296`). An atom counts as never true, and preconditions on it
   are removed. Shown by task `constant`.
9. **ASP route: existential conditions ignore the type** (`grounder.py:153`). Shown by
   task `otherType`.
10. **ASP route: universal goals ignore the type** (`asp/problem.py:922`). Shown by
    task `typedGoal`.
11. **ASP route: a precondition that is all static** (`asp/problem.py:1598`) ends
    the translation with an error. Shown by task `staticOnly`.
12. **GecodeCRPG drops supports** (`base_action_csp.cxx:279`). Of several nested
    fluents that a solution resolves to one state variable only the first goes
    into the support, although they may have different values in a relaxed layer;
    the comment, "Don't push twice the support the same atom", means the atom. With
    `in(x) = 1`, `in(y) = 2` and x = y the plan can miss the action that makes one
    of them true, and the value is too small. Which fluent is first depends on
    addresses (the terms are in a `std::set` of pointers), so either may be lost
    (`OneOfEach`). SmartRPG and UnreachedAtomRPG record every term. Shown
    by `MCLiftedRPG_repeated.cfg`.

Noticed while modelling, modelled as the code has it, and not shown by a configuration:

* *IW*: R_G of IW(2) is always empty (`iw_run.hxx:324`): the marking reads
  `_nov2_pairs`, which nothing in this class fills.
* *Direct constraints*: the fixpoint loop does nothing (`csp_handler.cxx:90`), as
  AC3 has emptied the worklist it is called with; a sum loses the order of its
  arguments (`registry.cxx:48`), so its last variable by number is taken for the
  total; a compiled binary constraint reads a missing index entry for a value
  without a partner (`compiled.cxx:147`, the model's state `aborted`); an
  alldiff over a domain with a gap is not bounds consistent ({0}, {2}, {0,2,3}
  leaves 2 in the third domain); `p = 0` throws (`base_csp.cxx:225`).
* *Direct heuristic*: the relaxed plan counts atoms, not actions
  (`action_manager.cxx:182`): the sets that should unify actions hold one fresh
  pointer per atom; supports leave out variables that only decide whether an
  effect stays in bounds (`action_manager.cxx:165`); the value may be 0 in a
  state that is no goal, when the goal is only locally consistent.
* *Gecode heuristics*: `compute_managed_symbols` looks at effects and the goal,
  not at preconditions or state constraints (`support.cxx:24`); `is_true`
  (`rpg_index.cxx:145`) sees a predicate without arguments in the layer that adds
  it; the failure cache is then order dependent; `GecodeCHMax` returns one more
  than the number of layers; hmax, GecodeCRPG and UnreachedAtomRPG never fill the
  set of relevant atoms (`relaxed_plan.cxx:26`), which is why the assertion at
  `heuristic_search_node.hxx:84` is commented out; GecodeCRPG records for an atom the support of its own effect
  (`base_action_csp.cxx:246`), although its solution also satisfied the bounds of the
  action's other effects, which may read more; `FormulaCSP::index` takes `all_atoms` for a conjunction
  (`formula_csp.cxx:83`); the value selector may keep a pointer to a dead graph.
* *Applicability*: the match tree's actions are not tested
  (`match_tree.cxx:300`), although what it indexes ignores quantified and nested
  parts (`action_managers.hxx:184`); the functional-aware manager reads atoms
  `X = 0` that are not indexed when no precondition is negated (`loader.cxx:40`,
  `atom_index.cxx:82`); `_extract_constant_val` dereferences a null pointer when
  the right-hand side is no constant (`action_managers.cxx:135`); the initial
  state is never checked against the state constraints.
* *Loading*: which axiom objects are alive when a formula is rewritten depends on
  a hash order (`problem.cxx:125`); `fully_lifted` stores the null pointer of a
  contradictory schema, which its readers dereference (`grounding.cxx:102`).
* *Preprocessor*: `ground_atom` throws for an atom that has the quantified
  variable twice (`fstrips_components.py:57`); a static predicate without
  arguments that is false is written as an empty file, from which the planner
  reads an integer it never initialised (`serializer.cxx:54`). On the ASP route
  a disjunction of which anything changes raises a `NameError`
  (`asp/problem.py`, `ground_condtions`), and deleting an atom that is never
  reached a `KeyError`.
* *SBFWS*: `_index` packs #g and #r into 32 bits (`base.hxx:14`), which the
  assumption `#r < 2^16` excludes; `width.search=1` with three novelty levels
  asks for a table that does not exist (`base.cxx:65`).
* *Events*: the evaluation observer runs before the helpfulness observer
  (`smart_effect_driver.cxx:73`), so "delayed for unhelpful" evaluates a node
  late although it is helpful; `src/README.md:186` and `events.hxx:150` describe
  it otherwise.

## 6. What is not modelled

Within the modelled parts: conditional effects, nested terms, bounds and state
constraints in SBFWS, IWRun and HeuristicSearch (they see a task through its
successor function; GroundModel has all of these); novelty features other than
atoms; the choice between specialised and generic evaluators, which answer
alike; the packing of a state into bits; statistics, logging and time; the
`assert`s that the production build (`NDEBUG`) compiles out, except those stated
as properties; node counters of 32 bits, which no run can reach. The open lists,
the closed list, the evaluators and Gecode's solver are libraries: they are
modelled from how the planner uses them and marked external in the map.

In the constraint layer: state constraints in the direct heuristic (conjoined
with the goal, and the code that prunes layers with them is commented out),
conditional effects there, effects compiled from static terms, `nvalues` (it has
no direct translation), actions left out by a caller's whitelist, binary effects
(the native driver refuses them), and overflow (values are small integers by
their bounds). In the Gecode layer: arithmetic, static symbols and element
constraints; approximate resolution, which throws; value selectors, which only
order solutions.

In the preprocessor: functions, assignments, `increase` and action costs, bounded
types, initial facts that are negative, externally defined procedures, axioms and
state constraints on the ASP route, the code generator and the format of the files.
The types form a tree (PDDL's `either` is left out).

Not used by any driver at this commit: `idw_run.hxx` and its `__extra` copy,
`lite_csp_handler.*`, the second ("light") language, `gecode_analyzer.*`,
`ground_effect_csp.*`, `bfws_node.hxx`; the iterated-width driver asserts.

The map covers about an eighth of the lines of `src/`. Of the rest, rapidjson, the
copies under `_build/prod` and the Python code that is no part of the two routes
(functions, generators, plotting and test scripts) are more than half; of the
planner's own C++ more than a third is mapped, and what remains is the unused code
above, construction and option parsing, loading and printing, and declarations.

## 7. Plan

Done: SBFWS with its abstract specification and proofs, IWRun, the direct
constraints and the heuristic on them, language and grounding, the action
managers with their proofs, hill climbing with its fallback and the runner, with
proofs, the lifted model and the Gecode heuristics, both routes of the
preprocessor; proofs of the guarantee of IW, of all invariants of SBFWS, of the soundness
and completeness of the direct constraints, of the layers, supports, estimates and relaxed
plans of the native heuristic, of the lifted action iterator, and of all invariants of
the Gecode heuristics. Left, in this order:

1. Grounding and the index of constraints without `RECURSIVE` operators, so that
   `IndexesFaithful` could be proved and not only checked.
2. The choice of evaluators by the width options (`base.cxx:65`), and the
   packing of states by the StateAtomIndexer.
3. Axioms on the ASP route, and functions on the default route.

## 8. How to run

```
tlc -workers 2 -config MCSBFWS_complete.cfg MCSBFWS
tlapm SBFWS_proofs.tla
```

Each `MC*_*.cfg` belongs to the module before the underscore; no run takes longer
than a few minutes.
