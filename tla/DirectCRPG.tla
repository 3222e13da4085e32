----------------------------- MODULE DirectCRPG -----------------------------
(***************************************************************************)
(* DirectCRPG::evaluate, the relaxed plan heuristic of the native driver,  *)
(* on one seed state: the layers of the relaxed planning graph built by    *)
(* the DirectActionManagers, the goal check and the choice of goal causes  *)
(* of DirectRPGBuilder with its calls to the constraint handler, and the   *)
(* extraction of a relaxed plan.  hmax is what DirectCHMax returns.        *)
(*                                                                         *)
(* A task is what check_supported accepts: preconditions over one variable *)
(* each, effects var := rhs with at most one variable in rhs, a goal of    *)
(* direct formulas.  values gives the values, and so the bounds, of each   *)
(* variable.  Conditional effects, state constraints and actions a caller  *)
(* leaves out of its whitelist are not modelled.                           *)
(***************************************************************************)
EXTENDS DirectCSPHandler, SequencesExt

CONSTANT Tasks   \* records [seed, values, actions, goal]

Arithmetic == {"+", "-", "*"}

\* The value of a right-hand side in state s.
Interpret(rhs, s) ==
    LET a == ValueOf(rhs.args[1], s)
        b == ValueOf(rhs.args[2], s)
    IN  CASE rhs.op = "="  -> a
          [] rhs.op = "+"  -> a + b
          [] rhs.op = "-"  -> a - b
          [] rhs.op = "*"  -> a * b

-----------------------------------------------------------------------------
(***************************************************************************)
(* Translation of effects.  scope is empty for an assignment of a constant *)
(* and holds the one variable otherwise.                                   *)
(***************************************************************************)
DirectEffect(e, op, scope, par) == [var |-> e.var, op |-> op, scope |-> scope, par |-> par]

TranslateEffect(e) ==
    LET l == e.rhs.args[1]
        r == e.rhs.args[2]
    IN  IF e.rhs.op \in Arithmetic
        THEN IF l.var THEN DirectEffect(e, e.rhs.op, <<l.idx>>, r.idx)
             ELSE DirectEffect(e, e.rhs.op, <<r.idx>>, l.idx)
        ELSE IF l.var THEN DirectEffect(e, "=", <<l.idx>>, 0)
        ELSE DirectEffect(e, "value", << >>, l.idx)

\* apply: the value that effect d gives to its variable, from value x of its scope.
Apply(d, x) ==
    CASE d.op = "value" -> d.par
      [] d.op = "="     -> x
      [] d.op = "+"     -> x + d.par
      [] d.op = "-"     -> x - d.par
      [] d.op = "*"     -> x * d.par

\* Exactly one term of arithmetic is a variable, and constants are in bounds.
SupportedEffect(t, e) ==
    IF e.rhs.op \in Arithmetic THEN e.rhs.args[1].var # e.rhs.args[2].var
    ELSE e.rhs.args[1].var \/ e.rhs.args[1].idx \in t.values[e.var]

EffectType ==
    {e \in [var : Vars, rhs : [op : Arithmetic \cup {"="}, args : Seq(Term)]] :
        Len(e.rhs.args) = 2 /\ VarsOf(e.rhs) \subseteq Vars}

ASSUME TasksAssumption ==
    \A t \in Tasks :
        /\ t.seed \in [Vars -> Int] /\ t.values \in [Vars -> SUBSET Int]
        /\ \A v \in Vars : IsFiniteSet(t.values[v]) /\ t.seed[v] \in t.values[v]
        /\ t.actions \in Seq([pre : Seq(FormulaType), eff : Seq(EffectType)])
        /\ \A i \in DOMAIN t.actions :
            /\ \A j \in DOMAIN t.actions[i].pre :
                LET f == t.actions[i].pre[j]
                IN  Supported(f) /\ Translate(f).type = "unary" /\ VarsOf(f) \subseteq Vars
            /\ \A j \in DOMAIN t.actions[i].eff : SupportedEffect(t, t.actions[i].eff[j])
        /\ t.goal \in Seq(FormulaType)
        /\ \A i \in DOMAIN t.goal : Supported(t.goal[i]) /\ VarsOf(t.goal[i]) \subseteq Vars

VARIABLES
    task, pc,
    relaxed,     \* the relaxed state: a set of values for each variable
    layer,       \* RPGData::_current_layer
    novel,       \* the atoms <<variable, value>> first reached in this layer
    effects,     \* _effects: how each reached atom was reached
    idx,         \* the next action to process
    clone,       \* the goal domains before values are selected
    set,         \* the goal variables whose value was selected
    causes, pending, processed,
    h, hmax

graph == <<relaxed, layer, novel, effects, idx>>
extraction == <<clone, set, causes, pending, processed>>
vars == <<task, pc, graph, extraction, h, hmax, handler>>

Seed == task.seed
Actions == task.actions
InSeed(atom) == Seed[atom[1]] = atom[2]
SeedAtoms == {<<v, Seed[v]>> : v \in Vars}
GoalConstraints == [i \in DOMAIN task.goal |-> Translate(task.goal[i])]
GoalVars == UNION {VarsOf(task.goal[i]) : i \in DOMAIN task.goal}
IsGoal(s) == \A i \in DOMAIN task.goal : Satisfied(task.goal[i], s)

AtomSupport(l, a, s) == [layer |-> l, action |-> a, support |-> s]

Init ==
    /\ task \in Tasks
    /\ pc = "start" /\ h = 0 /\ hmax = 0
    /\ relaxed = [v \in Vars |-> {Seed[v]}]
    /\ layer = 0 /\ novel = {} /\ idx = 1
    /\ effects = [a \in SeedAtoms |-> AtomSupport(0, 0, {})]
    /\ clone = relaxed /\ set = {} /\ causes = {} /\ pending = {} /\ processed = {}
    /\ constraints = << >> /\ dom = relaxed
    /\ csp = "idle" /\ todo = {} /\ worklist = {} /\ round = "first"
    /\ b_result = "Unpruned" /\ g_result = "Unpruned" /\ result = "Unpruned"

\* The seed itself is checked first; the constructor of RPGData advances to
\* layer 1.
Begin ==
    /\ pc = "start"
    /\ IF IsGoal(Seed) THEN pc' = "done" /\ UNCHANGED layer ELSE pc' = "process" /\ layer' = 1
    /\ UNCHANGED <<task, relaxed, novel, effects, idx, extraction, h, hmax, handler>>

-----------------------------------------------------------------------------
(***************************************************************************)
(* DirectActionManager.  The constraints of an action are its precondition *)
(* and, for each effect with a variable, that its value stays in bounds.   *)
(* All are unary, so filter is node consistency.                           *)
(***************************************************************************)
Effects(a) == [j \in DOMAIN a.eff |-> TranslateEffect(a.eff[j])]

Bounded(a) == {j \in DOMAIN a.eff : Effects(a)[j].scope # << >>}

Accepts(a, v, x) ==
    /\ \A j \in DOMAIN a.pre :
        LET c == Translate(a.pre[j]) IN c.scope[1] = v => x \in UnaryKept(c, {x})
    /\ \A j \in Bounded(a) :
        LET d == Effects(a)[j] IN d.scope[1] = v => Apply(d, x) \in task.values[d.var]

Projection(a) == [v \in Vars |-> {x \in relaxed[v] : Accepts(a, v, x)}]

\* Every way in which a reaches an atom: <<atom, effect, value of its scope>>;
\* an effect without a variable counts with value 0.
Outcomes(a, P) ==
    UNION {LET d == Effects(a)[j]
           IN  {<<<<d.var, Apply(d, x)>>, j, x>> : x \in IF d.scope = << >> THEN {0} ELSE P[d.scope[1]]}
              : j \in DOMAIN a.eff}

\* The first effect that reaches atom, with its least value, becomes the
\* support: that value and, by completeAtomSupport, the least value of each
\* other variable of the precondition.
NoPrecondition(a) == {}   \* slip: completeAtomSupport is not called
ActionScope(a) == UNION {VarsOf(a.pre[j]) : j \in DOMAIN a.pre}

SupportOf(a, P, atom) ==
    LET ways == {w \in Outcomes(a, P) : w[1] = atom}
        j == Min({w[2] : w \in ways})
        x == Min({w[3] : w \in {u \in ways : u[2] = j}})
        scope == Effects(a)[j].scope
    IN  {<<scope[i], x>> : i \in DOMAIN scope} \cup
        {<<v, Min(P[v])>> : v \in ActionScope(a) \ ToSet(scope)}

ProcessAction ==
    /\ pc = "process" /\ idx <= Len(Actions)
    /\ LET a == Actions[idx]
           P == Projection(a)
           new == IF \E v \in Vars : P[v] = {} THEN {}
                  ELSE {w[1] : w \in Outcomes(a, P)} \ DOMAIN effects
       IN  /\ effects' = [atom \in DOMAIN effects \cup new |->
                            IF atom \in new THEN AtomSupport(layer, idx, SupportOf(a, P, atom))
                            ELSE effects[atom]]
           /\ novel' = novel \cup new
    /\ idx' = idx + 1
    /\ UNCHANGED <<task, pc, relaxed, layer, extraction, h, hmax, handler>>

ForgetsLayer ==   \* slip: a new value replaces the older ones
    [v \in Vars |-> IF \E n \in novel : n[1] = v
                    THEN {atom[2] : atom \in {n \in novel : n[1] = v}} ELSE relaxed[v]]

\* RelaxedState::accumulate
Accumulated == [v \in Vars |-> relaxed[v] \cup {atom[2] : atom \in {n \in novel : n[1] = v}}]

\* All actions processed: a fixpoint is a dead end, otherwise the goal is
\* checked on the new layer.
LayerDone ==
    /\ pc = "process" /\ idx > Len(Actions)
    /\ relaxed' = Accumulated
    /\ IF novel = {}
       THEN pc' = "done" /\ h' = -1 /\ UNCHANGED handler
       ELSE pc' = "goal" /\ StartFilter(GoalConstraints, Accumulated) /\ UNCHANGED h
    /\ UNCHANGED <<task, layer, novel, effects, idx, extraction, hmax>>

-----------------------------------------------------------------------------
\* The handler filters the goal domains.
FilterGoal ==
    /\ pc \in {"goal", "propagate"} /\ FilterStep
    /\ UNCHANGED <<task, pc, graph, extraction, h, hmax>>

Consistent == result # "Failure" /\ CheckConsistency

NotAdvanced == idx' = 1 /\ UNCHANGED <<layer, novel>>   \* slip: advanceLayer is not called
AdvanceLayer == layer' = layer + 1 /\ novel' = {} /\ idx' = 1

GoalChecked ==
    /\ pc = "goal" /\ csp = "done"
    /\ IF Consistent
       THEN /\ pc' = "select" /\ clone' = dom /\ hmax' = layer
            /\ UNCHANGED <<layer, novel, idx>>
       ELSE /\ pc' = "process" /\ AdvanceLayer /\ UNCHANGED <<clone, hmax>>
    /\ UNCHANGED <<task, relaxed, effects, set, causes, pending, processed, h, handler>>

\* extractGoalCauses: the variable with the smallest domain, the first such
\* one, gets its seed value if it may, else its least value.
SmallestDomain ==
    LET unset == GoalVars \ set
    IN  Min({v \in unset : \A w \in unset : Cardinality(dom[v]) <= Cardinality(dom[w])})

SelectedValue(v, D) == IF Seed[v] \in D THEN Seed[v] ELSE Min(D)

NoPropagation(v, x) == StartFilter(<< >>, [dom EXCEPT ![v] = {x}])   \* slip: no filtering
Propagate(v, x) == StartFilter(GoalConstraints, [dom EXCEPT ![v] = {x}])

SelectValue ==
    /\ pc = "select" /\ set # GoalVars
    /\ LET v == SmallestDomain
           x == SelectedValue(v, dom[v])
       IN  /\ causes' = causes \cup ({<<v, x>>} \ SeedAtoms)
           /\ set' = set \cup {v}
           /\ Propagate(v, x)
    /\ pc' = "propagate"
    /\ UNCHANGED <<task, graph, clone, pending, processed, h, hmax>>

\* extractGoalCausesArbitrarily, when the selection was a dead end.
ArbitraryCauses ==
    {<<v, SelectedValue(v, clone[v])>> : v \in GoalVars \ set} \ SeedAtoms

Propagated ==
    /\ pc = "propagate" /\ csp = "done"
    /\ IF Consistent
       THEN pc' = "select" /\ UNCHANGED <<causes, pending>>
       ELSE /\ pc' = "extract" /\ causes' = causes \cup ArbitraryCauses
            /\ pending' = causes'
    /\ UNCHANGED <<task, graph, clone, set, processed, h, hmax, handler>>

AllSelected ==
    /\ pc = "select" /\ set = GoalVars
    /\ pc' = "extract" /\ pending' = causes
    /\ UNCHANGED <<task, graph, clone, set, causes, processed, h, hmax, handler>>

-----------------------------------------------------------------------------
(***************************************************************************)
(* The relaxed plan extractor: processAtom for each queued atom.  The      *)
(* order of the queue does not matter for what is registered.              *)
(***************************************************************************)
Enqueued(atom) == effects[atom].support

ProcessAtom ==
    /\ pc = "extract"
    /\ \E atom \in pending :
        IF InSeed(atom) \/ atom \in processed
        THEN pending' = pending \ {atom} /\ UNCHANGED processed
        ELSE /\ processed' = processed \cup {atom}
             /\ pending' = (pending \ {atom}) \cup Enqueued(atom)
    /\ UNCHANGED <<task, pc, graph, clone, set, causes, h, hmax, handler>>

\* buildRelaxedPlan counts the registered ActionID pointers of each layer;
\* each atom that an action added to the graph carries a pointer of its own.
BuildRelaxedPlan ==
    /\ pc = "extract" /\ pending = {}
    /\ pc' = "done" /\ h' = Cardinality(processed)
    /\ UNCHANGED <<task, graph, extraction, hmax, handler>>

Next ==
    \/ Begin \/ ProcessAction \/ LayerDone
    \/ FilterGoal \/ GoalChecked
    \/ SelectValue \/ Propagated \/ AllSelected
    \/ ProcessAtom \/ BuildRelaxedPlan

Terminating == pc = "done" /\ UNCHANGED vars

\* evaluate is plain sequential code.
Spec == Init /\ [][Next \/ Terminating]_vars /\ WF_vars(Next)

-----------------------------------------------------------------------------
(***************************************************************************)
(* What the graph should be: layers defined over whole states, without     *)
(* projections, constraints or supports.                                   *)
(***************************************************************************)
Applicable(a, s) ==
    /\ \A j \in DOMAIN a.pre : Satisfied(a.pre[j], s)
    /\ \A j \in DOMAIN a.eff : Interpret(a.eff[j].rhs, s) \in task.values[a.eff[j].var]

Assigned(a, s) == {<<a.eff[j].var, Interpret(a.eff[j].rhs, s)>> : j \in DOMAIN a.eff}

Successor(a, s) ==
    [v \in Vars |-> IF \E x \in task.values[v] : <<v, x>> \in Assigned(a, s)
                    THEN CHOOSE x \in task.values[v] : <<v, x>> \in Assigned(a, s) ELSE s[v]]

\* The states reached in at most k steps.
ReachedIn(n) ==
    LET reached[k \in 0..n] ==
            IF k = 0 THEN {Seed}
            ELSE LET S == reached[k - 1]
                 IN  S \cup UNION {{Successor(a, s) : s \in {t \in S : Applicable(a, t)}} : a \in Range(Actions)}
    IN  reached[n]

\* The domains after n layers in which layer k applies the actions acts[k].
DeleteRelaxed(n, acts) ==
    LET layers[k \in 0..n] ==
            IF k = 0 THEN [v \in Vars |-> {Seed[v]}]
            ELSE LET D == layers[k - 1]
                     new == UNION {UNION {Assigned(a, s) : s \in {t \in Within(D) : Applicable(a, t)}} : a \in acts[k]}
                 IN  [v \in Vars |-> D[v] \cup {x \in task.values[v] : <<v, x>> \in new}]
    IN  layers[n]

AllActs == [k \in 1..layer |-> Range(Actions)]
PlanActs ==
    [k \in 1..layer |-> {Actions[effects[a].action] : a \in {b \in processed : effects[b].layer = k}}]

\* Each atom enters the graph exactly at the first layer at which some state
\* within the layer before has an applicable action that makes it true:
\* projecting on the action's variables, filtering them one by one and taking
\* each effect alone neither adds atoms nor delays them.
LayersExact ==
    pc # "process" => \A k \in 0..layer : LET D == DeleteRelaxed(k, AllActs) IN
        \A v \in Vars : D[v] = {a[2] : a \in {b \in DOMAIN effects : b[1] = v /\ effects[b].layer <= k}}

\* A dead end (h = -1) is one: no goal state can be reached from the seed.
SafeDeadEnds ==
    pc = "done" /\ h = -1 =>
        \A s \in ReachedIn(Cardinality(Within(task.values))) : ~IsGoal(s)

\* Dead ends are real, and what DirectCHMax returns never exceeds the distance
\* to the goal.
EstimatesSafe == SafeDeadEnds /\ (hmax > 0 => \A s \in ReachedIn(hmax - 1) : ~IsGoal(s))

\* The support recorded for an atom is all that its action needs: it was
\* reached in earlier layers, so that extraction descends, and in every state
\* that contains it the action is applicable and makes the atom true ("all the
\* atoms that support the achievement of atom X=x").  Not so if another effect
\* of the action could leave its bounds and reads a variable that is not in the
\* precondition; no action of the instances is like that.
SupportSufficient ==
    \A a \in {b \in DOMAIN effects : effects[b].layer > 0} :
        /\ \A b \in effects[a].support : b \in DOMAIN effects /\ effects[b].layer < effects[a].layer
        /\ \A s \in Within(task.values) :
            (\A b \in effects[a].support : s[b[1]] = b[2]) =>
                LET act == Actions[effects[a].action]
                IN  Applicable(act, s) /\ a \in Assigned(act, s)

\* The goal causes are what the goal needs: the seed with the causes written
\* over it is a goal state, if the propagation of selected values did not fail.
CausesReachGoal ==
    pc = "extract" /\ result # "Failure" =>
        /\ \A a, b \in causes : a[1] = b[1] => a = b
        /\ IsGoal([v \in Vars |-> IF \E a \in causes : a[1] = v
                                  THEN (CHOOSE a \in causes : a[1] = v)[2] ELSE Seed[v]])

\* The extracted actions, layer by layer and ignoring deletes, reach all goal
\* causes from the seed, and the causes reach the goal.
RelaxedPlanValid ==
    /\ CausesReachGoal
    /\ pc = "done" /\ h >= 0 =>
        \A a \in causes : a[2] \in DeleteRelaxed(layer, PlanActs)[a[1]]

\* Every evaluation ends: each layer but the last adds an atom.
Termination == <>(pc = "done")
=============================================================================
