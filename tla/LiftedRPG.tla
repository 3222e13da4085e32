------------------------------ MODULE LiftedRPG ------------------------------
(***************************************************************************)
(* One evaluation of the Gecode relaxed plan heuristics on a seed state,   *)
(* after the drivers' reachability analysis where it is asked for:         *)
(*   "smart"      SmartRPG over LiftedEffectCSPs, one per grounded head,   *)
(*   "unreached"  UnreachedAtomRPG over LiftedEffectUnreachedCSPs,         *)
(*   "lifted"     GecodeCRPG over LiftedActionCSPs,                        *)
(*   "ground"     GecodeCRPG and GecodeCHMax over GroundActionCSPs.        *)
(* The unreached and the lifted heuristic belong to drivers that search    *)
(* with the lifted state model.                                            *)
(* All of them build an RPGIndex and share the goal check and the          *)
(* LiftedPlanExtractor.  Approximate resolution, which the code does not   *)
(* implement, and value selectors, which only order solutions, are left    *)
(* out: any solution may come first.                                       *)
(***************************************************************************)
EXTENDS LiftedModel

CONSTANT Instances   \* records [task, config]

ConfigType ==
    [mode : {"smart", "unreached", "ground", "lifted"}, novelty : BOOLEAN, reachability : BOOLEAN, hmax : BOOLEAN]

\* Only the driver with ground actions has hmax, only the smart drivers have
\* the reachability analysis, and only these take conditional effects.
Unconditional(t) == \A i \in DOMAIN t.actions : \A j \in DOMAIN t.actions[i].effs : t.actions[i].effs[j].cond = {}

ASSUME ConfigsAssumption ==
    \A n \in Instances :
        /\ n.config \in ConfigType
        /\ n.config.hmax => n.config.mode = "ground"
        /\ n.config.mode # "smart" => Unconditional(n.task)
        /\ n.config.reachability => n.config.mode = "smart"

ASSUME TasksAssumption ==
    \A t \in {n.task : n \in Instances} :
        /\ t.init \in [Vars -> Int] /\ \A v \in Vars : t.init[v] \in Values[v[1]]
        /\ t.goal = [params |-> t.goal.params, conds |-> t.goal.conds]
        /\ SupportedConds(t.goal.conds) /\ TypedConds(t.goal.params, t.goal.conds)
        /\ SupportedConds(t.constraints) /\ TypedConds(<< >>, t.constraints)
        /\ t.actions \in Seq(ToSet(t.actions))
        /\ \A i, j \in DOMAIN t.actions : t.actions[i].name = t.actions[j].name => i = j
        /\ \A i \in DOMAIN t.actions :
            LET a == t.actions[i]
            IN  /\ IsFiniteSet(DOMAIN a.params) /\ \A p \in DOMAIN a.params : IsFiniteSet(a.params[p])
                /\ SupportedConds(a.pre) /\ TypedConds(a.params, a.pre)
                /\ a.effs \in Seq(ToSet(a.effs))
                /\ \A e \in ToSet(a.effs) :
                    /\ e = [cond |-> e.cond, lhs |-> e.lhs, rhs |-> e.rhs]
                    /\ SupportedConds(e.cond) /\ TypedConds(a.params, e.cond) /\ TypedEffect(a.params, e)
                    /\ IsPredicate(e.lhs) => e.rhs \in {Const(0), Const(1)}

VARIABLES
    config, pc,
    seed,         \* the state to evaluate
    managers,     \* the handlers, in order
    reached,      \* _reached: the support of each atom in the graph
    novel,        \* _novel_tuples
    layer,        \* _current_layer
    domains,      \* _domains, those of the last advance
    extension,    \* the extension handler, which outlives the graph
    idx,          \* the next manager or the next atom to process
    cache,        \* what each effect CSP instantiated to in this layer
    causes, pending, processed,
    relevant,     \* what the caller's vector gets
    h

graph == <<reached, novel, layer, domains, extension>>
extraction == <<causes, pending, processed, relevant>>
evaluation == <<config, pc, seed, managers, graph, idx, cache, extraction, h>>
vars == <<task, mvars, evaluation>>

Mode == config.mode

-----------------------------------------------------------------------------
(* The handlers *)

\* The members of a set in some fixed order.
Ordered(S) ==
    LET ordered[T \in SUBSET S] ==
            IF T = {} THEN << >> ELSE LET m == CHOOSE m \in T : TRUE IN <<m>> \o ordered[T \ {m}]
    IN  ordered[S]

\* compile_nested_fluents_away: one effect for each value of a subterm of
\* the head that is not constant, under the condition that it has it.
CompiledEffects(b, e) ==
    IF IsStateVar(b, e.lhs) THEN {e}
    ELSE {[e EXCEPT !.lhs.sub = <<Const(n)>>, !.cond = @ \cup {Cond("=", e.lhs.sub[1], Const(n))}]
             : n \in Values[e.lhs.sub[1].name]}

\* compile_action_parameters_away: the parameters of the head are bound.
HeadBindings(a, e) ==
    LET heads == {t.name : t \in {u \in SubTerms(e.lhs) : u.kind = "param"}}
    IN  Bindings([p \in heads |-> a.params[p]])

EffectCSP(a, bound, e) == CSP(a, bound, a.pre \cup e.cond, <<e>>)

\* create_smart, create of LiftedEffectUnreachedCSP and of GroundActionCSP.
SmartCSPs(a, e) ==
    UNION {{EffectCSP(a, b, f) : f \in CompiledEffects(b, e)} : b \in HeadBindings(a, e)}

HandlersOf(a) ==
    CASE Mode = "smart"     -> FlattenSeq([i \in DOMAIN AddEffects(a) |-> Ordered(SmartCSPs(a, AddEffects(a)[i]))])
      [] Mode = "unreached" -> [i \in DOMAIN AddEffects(a) |-> EffectCSP(a, << >>, AddEffects(a)[i])]
      [] Mode = "lifted"    -> <<LiftedCSP(a)>>
      [] Mode = "ground"    -> Ordered({CSP(a, b, a.pre, AddEffects(a)) : b \in Bindings(a.params)})

Handlers == FlattenSeq([i \in DOMAIN task.actions |-> HandlersOf(task.actions[i])])

\* compute_managed_symbols looks at the effects, as the driver has them, and
\* at the goal: not at preconditions, effect conditions or state constraints.
NestedSymbols(terms, constants) ==
    {t.name : t \in {u \in terms : IsFluent(u) /\ \E i \in DOMAIN u.sub : u.sub[i].kind \notin constants}}

\* The kinds of terms that are constants for a driver's handlers.
ConstantKinds(mode) == IF mode = "ground" THEN {"const", "param"} ELSE {"const"}

ManagedSymbols(t, mode) ==
    LET effects == UNION {ToSet(t.actions[i].effs) : i \in DOMAIN t.actions}
        terms == UNION {SubTerms(e.lhs) \cup SubTerms(e.rhs) : e \in effects}
    IN  {e.lhs.name : e \in {f \in effects : IsPredicate(f.lhs)}}
        \cup NestedSymbols(terms, ConstantKinds(mode))
        \cup NestedSymbols(CondTerms(t.goal.conds), {"const"})

Managed(A) == {a \in A : a[1][1] \in ManagedSymbols(task, Mode)}

-----------------------------------------------------------------------------
(* RPGIndex *)

Reaching(l, action, support) == [layer |-> l, action |-> action, support |-> support]
SeedSupport == Reaching(0, << >>, {})

DomainsOf(A) == [v \in Vars |-> {a[2] : a \in {b \in A : b[1] = v}}]

ResetExtensions(A) == Managed(A)

\* The constructor: the seed is layer 0, and layer 1 is open.
NewGraph(s) ==
    LET A == AtomsOf(s)
    IN  /\ reached' = [a \in A |-> SeedSupport]
        /\ novel' = {} /\ layer' = 1
        /\ domains' = DomainsOf(A)
        /\ extension' = ResetExtensions(A)

StaleDomains == domains   \* slip: the domains are not updated
AllDomains == DomainsOf(DOMAIN reached)

AdvanceGraph ==
    /\ extension' = extension \cup Managed(novel)
    /\ domains' = AllDomains
    /\ novel' = {} /\ layer' = layer + 1
    /\ UNCHANGED reached

\* The extensions and domains of the last advance, but is_true looks at the
\* values reached so far.
CurrentView == View(domains, extension, DOMAIN reached)

\* add keeps the first support of an atom: news maps new atoms to theirs.
AddAll(news) ==
    /\ reached' = [a \in DOMAIN reached \cup DOMAIN news |-> IF a \in DOMAIN reached THEN reached[a] ELSE news[a]]
    /\ novel' = novel \cup (DOMAIN news \ DOMAIN reached)
    /\ UNCHANGED <<layer, domains, extension>>

-----------------------------------------------------------------------------
(* The novelty constraints *)

IsFlat(c) == \A i \in DOMAIN c.effs : IsStateVar(c.bound, c.effs[i].lhs)

\* Not all values that the effects give were there when the layer began.
IsNovel(c, x) ==
    \E i \in DOMAIN c.effs : LET a == Produced(c, x, i) IN a[2] \notin domains[a[1]]

LayerSolutions(c) ==
    {x \in Solutions(c, CurrentView) : config.novelty /\ IsFlat(c) => IsNovel(c, x)}

-----------------------------------------------------------------------------

Init ==
    /\ \E n \in Instances : task = n.task /\ config = n.config
    /\ MInit
    /\ pc = "start" /\ h = 0
    /\ seed = task.init
    /\ managers = << >>
    /\ reached = << >> /\ novel = {} /\ layer = 0 /\ domains = DomainsOf({}) /\ extension = {}
    /\ idx = 1 /\ cache = << >>
    /\ causes = {} /\ pending = << >> /\ processed = {} /\ relevant = {}

NewLayer == idx' = 1 /\ cache' = [i \in DOMAIN managers' |-> "none"]

\* The driver creates the handlers, and the full graph of the initial state.
CreateHandlers ==
    /\ pc = "start"
    /\ managers' = Handlers
    /\ NewLayer
    /\ IF config.reachability THEN pc' = "full" /\ NewGraph(task.init) ELSE pc' = "evaluate" /\ UNCHANGED graph
    /\ UNCHANGED <<task, config, seed, extraction, h>>

LiftedSearch == Mode \in {"unreached", "lifted"}

\* Meanwhile the search moves through the states.
SearchStep ==
    /\ pc = "evaluate" /\ LiftedSearch /\ MNext
    /\ UNCHANGED <<task, evaluation>>

\* The states the other drivers reach, and the one the lifted search is at.
Evaluable == IF LiftedSearch THEN IF stage = "idle" THEN {state} ELSE {} ELSE ReachedFrom(task, task.init)

\* The search evaluates a state.
Evaluate ==
    /\ pc = "evaluate"
    /\ seed' \in Evaluable
    /\ IF Satisfied(task.goal, seed') THEN pc' = "done" /\ UNCHANGED graph
       ELSE pc' = "layer" /\ NewGraph(seed')
    /\ UNCHANGED <<task, config, managers, extraction, h>> /\ NewLayer

-----------------------------------------------------------------------------
(* SmartRPG and GecodeCRPG process every handler *)

\* detect_achievable_tuple: the atom of an add effect or of a constant.
HasFixedAtom(c) == IsPredicate(c.effs[1].lhs) \/ c.effs[1].rhs.kind = "const"
FixedAtom(c) == <<VarIn(c, << >>, c.effs[1].lhs), c.effs[1].rhs.val>>
Skips(c) == Mode = "smart" /\ HasFixedAtom(c) /\ FixedAtom(c) \in DOMAIN reached

\* BaseActionCSP extracts supports in its own way.
SupportsOf(c, x, i) ==
    IF Mode \in {"lifted", "ground"} THEN RecordedSupports(c, x, i) ELSE {EffectSupport(c, x, i)}

\* Each new atom gets the support of the first solution that produces it.
Supporting(c, X) ==
    LET atoms == (UNION {{Produced(c, x, i) : i \in DOMAIN c.effs} : x \in X}) \ DOMAIN reached
        ways(a) == UNION {{Reaching(layer, ActionOf(c, p[1]), s) : s \in SupportsOf(c, p[1], p[2])}
                             : p \in {q \in X \X DOMAIN c.effs : Produced(c, q[1], q[2]) = a}}
    IN  {news \in [atoms -> UNION {ways(a) : a \in atoms}] : \A a \in atoms : news[a] \in ways(a)}

ProcessHandler ==
    /\ pc \in {"full", "layer"} /\ Mode # "unreached" /\ idx <= Len(managers)
    /\ idx' = idx + 1
    /\ LET c == managers[idx]
       IN  IF Skips(c) THEN UNCHANGED graph
           ELSE \E news \in Supporting(c, LayerSolutions(c)) : AddAll(news)
    /\ UNCHANGED <<task, config, pc, seed, managers, cache, extraction, h>>

-----------------------------------------------------------------------------
(* UnreachedAtomRPG processes every atom that is not achieved *)

AtomSequence == Ordered(AllAtoms)

\* compute_affected_atoms: any variable of the symbol if the head is nested.
Affects(c, a) ==
    LET e == c.effs[1]
    IN  /\ IF IsStateVar(c.bound, e.lhs) THEN VarIn(c, << >>, e.lhs) = a[1] ELSE e.lhs.name = a[1][1]
        /\ e.rhs.kind = "const" => e.rhs.val = a[2]

FreshCache == [i \in DOMAIN managers |-> "none"]

\* A CSP is instantiated once in a layer; if that fails, so it is for the
\* rest of the layer.
Instantiated(i) ==
    IF cache[i] # "none" THEN cache[i]
    ELSE IF NullaryTrue(managers[i], CurrentView) THEN "ok" ELSE "failed"

Achieves(i, a) ==
    /\ Instantiated(i) = "ok"
    /\ \E x \in LayerSolutions(managers[i]) : Produced(managers[i], x, 1) = a

Achievers(a) == {i \in DOMAIN managers : Affects(managers[i], a)}
FirstAchiever(a) == {i \in Achievers(a) : Achieves(i, a) /\ \A j \in Achievers(a) : j < i => ~Achieves(j, a)}
Tried(a) == {i \in Achievers(a) : \A j \in FirstAchiever(a) : i <= j}

ProcessAtom ==
    /\ pc = "layer" /\ Mode = "unreached" /\ idx <= Len(AtomSequence)
    /\ idx' = idx + 1
    /\ LET a == AtomSequence[idx]
       IN  IF a \in DOMAIN reached THEN UNCHANGED <<graph, cache>>
           ELSE /\ cache' = [i \in DOMAIN cache |-> IF i \in Tried(a) THEN Instantiated(i) ELSE cache[i]]
                /\ IF FirstAchiever(a) = {} THEN UNCHANGED graph
                   ELSE \E i \in FirstAchiever(a) : \E x \in LayerSolutions(managers[i]) :
                          /\ Produced(managers[i], x, 1) = a
                          /\ AddAll([b \in {a} |-> Reaching(layer, ActionOf(managers[i], x), EffectSupport(managers[i], x, 1))])
    /\ UNCHANGED <<task, config, pc, seed, managers, extraction, h>>

-----------------------------------------------------------------------------

LayerProcessed == idx > IF Mode = "unreached" THEN Len(AtomSequence) ELSE Len(managers)

\* No new atom: the seed is a dead end.
NextLayer ==
    /\ pc = "layer" /\ LayerProcessed
    /\ IF novel = {} THEN pc' = "done" /\ h' = -1 /\ UNCHANGED <<graph, idx, cache>>
       ELSE pc' = "goal" /\ AdvanceGraph /\ idx' = 1 /\ cache' = FreshCache /\ UNCHANGED h
    /\ UNCHANGED <<task, config, seed, managers, extraction>>

\* slip: CSPs are confined to the initial state.
ConfinedToInit(c) == [c EXCEPT !.within = AtomsOf(task.init)]
Confined(c) == [c EXCEPT !.within = DOMAIN reached]

\* Drops the handlers without a solution and confines the others.
PruneUnreachable(hs) ==
    FoldLeft(LAMBDA kept, c : IF Solutions(c, CurrentView) = {} THEN kept ELSE Append(kept, Confined(c)), << >>, hs)

\* compute_full_graph goes on to the fixpoint and then prunes the handlers.
FullLayer ==
    /\ pc = "full" /\ LayerProcessed
    /\ IF novel # {}
       THEN pc' = "full" /\ AdvanceGraph /\ UNCHANGED managers
       ELSE /\ pc' = "evaluate" /\ UNCHANGED graph
            /\ managers' = PruneUnreachable(managers)
    /\ NewLayer /\ UNCHANGED <<task, config, seed, extraction, h>>

-----------------------------------------------------------------------------
(* The goal CSP and the relaxed plan *)

GoalCSP == FormulaCSP([task.goal EXCEPT !.conds = @ \cup task.constraints])

GoalUnreached ==
    /\ pc = "goal" /\ Solutions(GoalCSP, CurrentView) = {}
    /\ pc' = "layer"
    /\ UNCHANGED <<task, config, seed, managers, graph, idx, cache, extraction, h>>

\* compute_hmax_cost, or the causes of compute_rpg_cost.
GoalReached ==
    /\ pc = "goal"
    /\ \E x \in Solutions(GoalCSP, CurrentView) :
        LET support == Support(GoalCSP, x, GoalCSP.nullary \cup GoalCSP.looked)
        IN  IF config.hmax THEN pc' = "done" /\ h' = layer /\ UNCHANGED extraction
            ELSE /\ pc' = "extract" /\ causes' = support /\ pending' = Ordered(support)
                 /\ UNCHANGED <<processed, relevant, h>>
    /\ UNCHANGED <<task, config, seed, managers, graph, idx, cache>>

\* slip: only one atom of the support is queued.
EnqueuedOne(a) == IF reached[a].support = {} THEN << >> ELSE <<CHOOSE b \in reached[a].support : TRUE>>
Enqueued(a) == Ordered(reached[a].support)

RelevantInSeed(a) == reached[a].layer = 0   \* slip: the seed is taken for the first layer
IsRelevant(a) == reached[a].layer = 1

\* The others discard the relevant atoms: their caller gets none.
ReportsRelevant == Mode = "smart"

ProcessTuple ==
    /\ pc = "extract" /\ pending # << >>
    /\ LET a == Head(pending)
       IN  IF a \in AtomsOf(seed) \cup processed
           THEN pending' = Tail(pending) /\ UNCHANGED <<processed, relevant>>
           ELSE /\ pending' = Tail(pending) \o Enqueued(a)
                /\ processed' = processed \cup {a}
                /\ relevant' = relevant \cup {b \in {a} : ReportsRelevant /\ IsRelevant(b)}
    /\ UNCHANGED <<task, config, pc, seed, managers, graph, idx, cache, causes, h>>

\* Each atom of the graph has an ActionID of its own, and they are counted
\* by address.
BuildRelaxedPlan ==
    /\ pc = "extract" /\ pending = << >>
    /\ pc' = "done" /\ h' = Cardinality(processed)
    /\ UNCHANGED <<task, config, seed, managers, graph, idx, cache, extraction>>

Heuristic ==
    /\ \/ CreateHandlers \/ Evaluate \/ ProcessHandler \/ ProcessAtom
       \/ NextLayer \/ FullLayer \/ GoalUnreached \/ GoalReached
       \/ ProcessTuple \/ BuildRelaxedPlan
    /\ UNCHANGED mvars

Next == SearchStep \/ Heuristic

\* The evaluation is over, or no action is applicable.
Terminating ==
    /\ pc = "done" \/ (stage = "done" /\ yielded = << >>)
    /\ UNCHANGED vars

Spec == Init /\ [][Next \/ Terminating]_vars

-----------------------------------------------------------------------------
(* What the graph should be *)

\* All that the handlers hs derive in one layer from the atoms A, without
\* novelty, caches, fixed atoms, pruning or unmanaged symbols.
Derived(hs, A) ==
    A \cup UNION {UNION {{Produced(c, x, i) : i \in DOMAIN c.effs} : x \in Solutions(c, ViewOf(A))} : c \in hs}

\* The atoms derived from the seed within k layers.
Layer(hs, k) ==
    LET layers[n \in Nat] == IF n = 0 THEN AtomsOf(seed) ELSE Derived(hs, layers[n - 1])
    IN  layers[k]

\* The layers are those of the relaxed planning graph, whichever handlers
\* build it and whatever they skip.  A predicate without arguments is seen in
\* the layer that adds it, and then atoms may only come too early
\* (rpg_index.cxx:145).
LayersExact ==
    pc = "goal" \/ (pc = "done" /\ h # 0) =>
        LET hs == ToSet(Handlers)
            UpTo(k) == {a \in DOMAIN reached : reached[a].layer <= k}
        IN  \A k \in 0..(layer - 1) :
                /\ Layer(hs, k) \subseteq UpTo(k)
                /\ UpTo(k) \subseteq Layer(hs, IF \A c \in hs : c.nullary = {} THEN k ELSE Cardinality(AllAtoms))

\* "Returns the length of a relaxed plan, if exists, or -1 otherwise"
\* (relaxed_plan.hxx:11): no goal state that satisfies the state constraints
\* is reached from a seed with value -1.
SafeDeadEnds ==
    pc = "done" /\ h = -1 =>
        \A s \in ReachedFrom(task, seed) : ~Satisfied(task.goal, s)

\* The actions of the relaxed plan, applied without their deletes as often as
\* they can add something, reach the goal from the seed.  GecodeCRPG breaks
\* it when the support of an action lacks the second of two nested fluents
\* (base_action_csp.cxx:279).
RelaxedPlanReachesGoal ==
    pc = "done" /\ h > 0 /\ ~config.hmax =>
        LET hs == ToSet(Handlers)
            plan == {reached[a].action : a \in processed}
            Replayed(A) == A \cup UNION {UNION {{Produced(c, x, i) : i \in DOMAIN c.effs}
                                                   : x \in {y \in Solutions(c, ViewOf(A)) : ActionOf(c, y) \in plan}}
                                            : c \in hs}
            replay[k \in Nat] == IF k = 0 THEN AtomsOf(seed) ELSE Replayed(replay[k - 1])
        IN  Solutions(GoalCSP, ViewOf(replay[Cardinality(AllAtoms)])) # {}

\* "If the heuristic is > 0, then we must have a relaxed plan and at least
\* some atoms in the 1st layer of it" (ehc.hxx:59), and each of them is what
\* an action applicable in the seed adds: helpful actions exist.  The smart
\* drivers rely on it, the others get no atom (heuristic_search_node.hxx:82).
HelpfulAtomsExist ==
    pc = "done" /\ h > 0 /\ Mode = "smart" =>
        relevant \cap Derived(ToSet(Handlers), AtomsOf(seed)) # {}
=============================================================================
