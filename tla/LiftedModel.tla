------------------------------ MODULE LiftedModel -----------------------------
(***************************************************************************)
(* The lifted state model: a search over states whose actions are never    *)
(* grounded.  LiftedActionIterator goes through the action CSPs one by     *)
(* one, reads the solutions of each off a Gecode engine, and yields the    *)
(* actions whose successor satisfies the state constraints; the model      *)
(* grounds an action when it is applied.                                   *)
(*                                                                         *)
(* The order of the solutions of a CSP is one fixed order.                 *)
(***************************************************************************)
EXTENDS LiftedTask

VARIABLES
    task,
    state,       \* the state the search is at
    handlers,    \* _handlers, the action CSPs
    current,     \* _current_handler_idx
    csp,         \* "none", or "open" while there is an engine
    solutions,   \* those the engine has not returned yet
    yielded,     \* the actions the iterator has yielded, in order
    stage        \* setup, idle, iterating or done

iterator == <<current, csp, solutions, yielded, stage>>
mvars == <<state, handlers, iterator>>

-----------------------------------------------------------------------------
(* Applying an action *)

\* The value of a term under a binding, read in a state.
Interpret(t, s, b) ==
    LET flat(u) == IF u.kind = "const" THEN u.val ELSE IF u.kind = "param" THEN b[u.name] ELSE s[<<u.name, << >>>>]
        inner(u) == IF IsFluent(u) THEN s[<<u.name, [i \in DOMAIN u.sub |-> flat(u.sub[i])]>>] ELSE flat(u)
    IN  IF IsFluent(t) THEN s[<<t.name, [i \in DOMAIN t.sub |-> inner(t.sub[i])]>>] ELSE flat(t)

Target(e, s, b) == <<e.lhs.name, [i \in DOMAIN e.lhs.sub |-> Interpret(e.lhs.sub[i], s, b)]>>

\* The effects are computed in the old state and written in their order.
Apply(a, s, b) == FoldLeft(LAMBDA u, e : [u EXCEPT ![Target(e, s, b)] = Interpret(e.rhs, s, b)], s, a.effs)

Interpreted(conds, s, b) == \A c \in conds : Compare(c.op, Interpret(c.lhs, s, b), Interpret(c.rhs, s, b))

Schema(t, name) == CHOOSE a \in ToSet(t.actions) : a.name = name

\* LiftedActionID::generate, and the model's next.
Result(t, id, s) == Apply(Schema(t, id[1]), s, id[2])

ConstraintsHold(t, s) == Interpreted(t.constraints, s, << >>)

-----------------------------------------------------------------------------
(* The iterator *)

AddEffects(a) == FoldLeft(LAMBDA kept, e : IF IsDel(e) THEN kept ELSE Append(kept, e), << >>, a.effs)

\* create_derived of LiftedActionCSP: nothing is bound.
LiftedCSP(a) == CSP(a, << >>, a.pre, AddEffects(a))
LiftedCSPs(t) == [i \in DOMAIN t.actions |-> LiftedCSP(t.actions[i])]

NoIteration == current = 1 /\ csp = "none" /\ solutions = {} /\ yielded = << >>

MInit ==
    /\ state = task.init /\ handlers = << >>
    /\ NoIteration /\ stage = "setup"

\* GroundingSetup::fully_lifted_model and LiftedStateModel::build.
BuildLiftedModel ==
    /\ stage = "setup"
    /\ handlers' = LiftedCSPs(task)
    /\ stage' = "idle"
    /\ UNCHANGED <<state, current, csp, solutions, yielded>>

BeginIteration ==
    /\ stage = "idle"
    /\ stage' = "iterating" /\ current' = 1 /\ yielded' = << >>
    /\ UNCHANGED <<state, handlers, csp, solutions>>

\* A CSP without a solution is left at once, or by Exhausted.
InstantiateCSP ==
    /\ stage = "iterating" /\ current <= Len(handlers) /\ csp = "none"
    /\ csp' = "open"
    /\ solutions' = Solutions(handlers[current], ViewOf(AtomsOf(state)))
    /\ UNCHANGED <<state, handlers, current, yielded, stage>>

KeepFirstOnly(S, x) == {}   \* slip: the handler is left with its first solution
RestAfter(S, x) == S \ {x}

NextSolution ==
    /\ csp = "open" /\ solutions # {}
    /\ LET x == CHOOSE x \in solutions : TRUE
           id == ActionOf(handlers[current], x)
       IN  /\ solutions' = RestAfter(solutions, x)
           /\ yielded' = IF ConstraintsHold(task, Result(task, id, state)) THEN Append(yielded, id) ELSE yielded
    /\ UNCHANGED <<state, handlers, current, csp, stage>>

Exhausted ==
    /\ csp = "open" /\ solutions = {}
    /\ csp' = "none" /\ current' = current + 1
    /\ UNCHANGED <<state, handlers, solutions, yielded, stage>>

EndIteration ==
    /\ stage = "iterating" /\ current > Len(handlers)
    /\ stage' = "done"
    /\ UNCHANGED <<state, handlers, current, csp, solutions, yielded>>

\* The search goes on with one of the yielded actions.
ApplyAction ==
    /\ stage = "done"
    /\ \E k \in DOMAIN yielded : state' = Result(task, yielded[k], state)
    /\ stage' = "idle" /\ yielded' = << >> /\ current' = 1
    /\ UNCHANGED <<handlers, csp, solutions>>

MNext ==
    \/ BuildLiftedModel \/ BeginIteration \/ InstantiateCSP
    \/ NextSolution \/ Exhausted \/ EndIteration \/ ApplyAction

-----------------------------------------------------------------------------

\* NaiveApplicabilityManager::isApplicable on the ground action.
ApplicableIn(t, s, a, b) ==
    /\ Interpreted(a.pre, s, b)
    /\ \A i \in DOMAIN a.effs : Interpret(a.effs[i].rhs, s, b) \in Values[a.effs[i].lhs.name]
    /\ ConstraintsHold(t, Apply(a, s, b))

ApplicableActions(t, s) ==
    UNION {{<<a.name, b>> : b \in {c \in Bindings(a.params) : ApplicableIn(t, s, a, c)}} : a \in ToSet(t.actions)}

\* The iterator yields exactly the actions that the ground semantics takes for
\* applicable, each once, although it reads preconditions and bounds off the
\* solutions of a CSP and only the state constraints off the successor
\* (lifted_action_iterator.cxx:32).
LiftedApplicableExact ==
    stage = "done" =>
        /\ ToSet(yielded) = ApplicableActions(task, state)
        /\ Cardinality(ToSet(yielded)) = Len(yielded)
=============================================================================
