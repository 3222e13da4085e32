------------------------------ MODULE Grounding ------------------------------
(***************************************************************************)
(* How a task becomes ground: the schemas, axioms, goal and state          *)
(* constraints are loaded and bound once with no parameters                *)
(* (Loader::loadProblem), the terms that turn out to be axioms are         *)
(* replaced (Problem::consolidateAxioms), and every schema is bound with   *)
(* every binding of its parameters (ActionGrounder::fully_ground).         *)
(*                                                                         *)
(* The file of precomputed groundings, when there is one, is not modelled. *)
(***************************************************************************)
EXTENDS FStrips

CONSTANT Tasks
\* Each task has schemas (a sequence of [params, pre, effs]), axioms (a
\* function from names to [params, def]), goal, constraints and init; an
\* effect is [cond, lhs, rhs].  Parameter k of a schema has the id k - 1.

VARIABLES
    task,      \* the task, as the files describe it
    step,      \* the phase of the setup
    schemas,   \* the schemas loaded so far (_action_data)
    heap,      \* the axiom objects that are alive
    table,     \* the axiom object each name refers to (_axioms)
    pending,   \* the names consolidateAxioms has not visited yet
    goal,      \* _goal_formula
    limits,    \* _state_constraint_formula
    at,        \* the schema at hand
    odometer,  \* the position of the binding iterator
    ground     \* the ground actions so far

gvars == <<task, step, schemas, heap, table, pending, goal, limits, at, odometer, ground>>

-----------------------------------------------------------------------------
(* Binding schemas *)

\* An effect is dropped when its condition resolves to false or when its
\* head is no state variable; only the exception of the head is caught.
Dropped(e, b) ==
    \/ Bind(e.cond, b) = False
    \/ Bind(e.cond, b) # Error /\ BindTerm(e.lhs, b) = Error

Throws(e, b) ==
    \/ Bind(e.cond, b) = Error
    \/ ~Dropped(e, b) /\ BindTerm(e.rhs, b) = Error

BindEffects(effs, b) ==
    LET kept == SelectSeq(effs, LAMBDA e : ~Dropped(e, b))
    IN  [i \in DOMAIN kept |-> [cond |-> Bind(kept[i].cond, b),
                                lhs  |-> BindTerm(kept[i].lhs, b),
                                rhs  |-> BindTerm(kept[i].rhs, b)]]

\* Binding the precondition or, if that is not false, an effect throws.
BindingThrows(sch, b) ==
    \/ Bind(sch.pre, b) = Error
    \/ Bind(sch.pre, b) # False /\ \E i \in DOMAIN sch.effs : Throws(sch.effs[i], b)

EmptyParameter(params) == \E i \in DOMAIN params : TypeObjects[params[i].type] = << >>

-----------------------------------------------------------------------------
(* Loading *)

Init ==
    /\ task \in Tasks
    /\ step = "schemas" /\ at = 1
    /\ schemas = << >> /\ ground = << >> /\ odometer = << >>
    /\ heap = << >> /\ table = << >> /\ pending = {}
    /\ goal = True /\ limits = True

Processed(i) ==
    LET sch == task.schemas[i]
    IN  [id |-> i, params |-> sch.params, pre |-> Bind(sch.pre, NoBinding), effs |-> BindEffects(sch.effs, NoBinding)]

\* One schema is read, bound with no parameters, and kept unless it has a
\* parameter of an empty type or no effect is left.
LoadSchema ==
    /\ step = "schemas" /\ at <= Len(task.schemas)
    /\ LET sch == task.schemas[at]
           discarded == EmptyParameter(sch.params) \/ Processed(at).effs = << >>
           aborts == /\ ~EmptyParameter(sch.params)
                     /\ Bind(sch.pre, NoBinding) = False \/ BindingThrows(sch, NoBinding)
       IN  /\ step' = IF aborts THEN "failed" ELSE step
           /\ schemas' = IF aborts \/ discarded THEN schemas ELSE Append(schemas, Processed(at))
    /\ at' = at + 1
    /\ UNCHANGED <<task, heap, table, pending, goal, limits, odometer, ground>>

\* The axioms, the goal and the state constraints.  An axiom without
\* arguments in an empty type is kept under its name; its condition must
\* not resolve to false.
LoadFormulas ==
    /\ step = "schemas" /\ at > Len(task.schemas)
    /\ LET names == {n \in DOMAIN task.axioms : ~EmptyParameter(task.axioms[n].params)}
           bound == [n \in names |-> Bind(task.axioms[n].def, NoBinding)]
       IN  /\ heap' = [p \in {<<n, 0>> : n \in names} |-> [params |-> task.axioms[p[1]].params, def |-> bound[p[1]]]]
           /\ table' = [n \in names |-> <<n, 0>>]
           /\ pending' = names
           /\ goal' = Bind(task.goal, NoBinding)
           /\ limits' = Bind(task.constraints, NoBinding)
           /\ step' = IF \/ \E n \in names : bound[n] \in {False, Error}
                         \/ goal' = Error \/ limits' = Error
                      THEN "failed" ELSE "axioms"
    /\ UNCHANGED <<task, schemas, at, odometer, ground>>

\* The axioms are replaced one by one, in the order of a hash table, and the
\* replaced object is deleted: its copies elsewhere keep pointing to it.
ConsolidateAxiom(n) ==
    LET old == table[n]
        new == <<n, old[2] + 1>>
        processed == [heap[old] EXCEPT !.def = ProcessAxioms(heap[old].def, table)]
    IN  /\ step = "axioms" /\ n \in pending
        /\ heap' = [p \in (DOMAIN heap \ {old}) \cup {new} |-> IF p = new THEN processed ELSE heap[p]]
        /\ table' = [table EXCEPT ![n] = new]
        /\ pending' = pending \ {n}
        /\ UNCHANGED <<task, step, schemas, goal, limits, at, odometer, ground>>

Rewritten(sch) ==
    [sch EXCEPT !.pre = ProcessAxioms(sch.pre, table),
                !.effs = [i \in DOMAIN sch.effs |-> [cond |-> ProcessAxioms(sch.effs[i].cond, table),
                                                     lhs  |-> ProcessTerm(sch.effs[i].lhs, table),
                                                     rhs  |-> ProcessTerm(sch.effs[i].rhs, table)]]]

\* A term that cannot be evaluated: it points to a deleted axiom, or it is
\* headed by the name of an axiom and was never replaced.
Broken(f) ==
    \E t \in AllTerms(f) : \/ t.kind = "axiom" /\ t.ptr \notin DOMAIN heap
                           \/ t.kind = "static" /\ t.sym \in DOMAIN table

\* The goal, the constraints and the schemas follow.
RewriteFormulas ==
    /\ step = "axioms" /\ pending = {}
    /\ goal' = ProcessAxioms(goal, table)
    /\ limits' = ProcessAxioms(limits, table)
    /\ schemas' = [i \in DOMAIN schemas |-> Rewritten(schemas[i])]
    /\ step' = IF \/ Broken(goal') \/ Broken(limits')
                  \/ \E i \in DOMAIN schemas' : Broken(schemas'[i].pre)
                  \/ \E i \in DOMAIN schemas' : \E j \in DOMAIN schemas'[i].effs : Broken(schemas'[i].effs[j].cond)
                  \/ \E p \in DOMAIN heap : Broken(heap[p].def)
               THEN "undefined" ELSE "schema"
    /\ at' = 1
    /\ UNCHANGED <<task, heap, table, pending, odometer, ground>>

-----------------------------------------------------------------------------
(* Grounding *)

First(params) == [k \in DOMAIN params |-> 1]
Size(params, k) == Len(TypeObjects[params[k].type])
CurrentBinding(params) ==
    [id \in {k - 1 : k \in DOMAIN params} |-> TypeObjects[params[id + 1].type][odometer[id + 1]]]

\* The iterator at position k moves on; those to its right start again.
CanAdvance(params) == {k \in DOMAIN params : odometer[k] < Size(params, k)}

\* slip: the positions to the right keep their places.
AdvanceNoReset(params) ==
    LET k == CHOOSE k \in CanAdvance(params) : \A j \in CanAdvance(params) : j <= k
    IN  [i \in DOMAIN params |-> IF i = k THEN odometer[i] + 1 ELSE odometer[i]]

AdvanceIterator(params) ==
    LET k == CHOOSE k \in CanAdvance(params) : \A j \in CanAdvance(params) : j <= k
    IN  [i \in DOMAIN params |-> IF i < k THEN odometer[i] ELSE IF i = k THEN odometer[i] + 1 ELSE 1]

StartSchema ==
    /\ step = "schema" /\ at <= Len(schemas)
    /\ odometer' = First(schemas[at].params)
    /\ step' = "binding"
    /\ UNCHANGED <<task, schemas, heap, table, pending, goal, limits, at, ground>>

\* _full_binding: no action for a precondition that resolves to false, nor
\* when no effect is left.
FullBinding(sch, b) ==
    LET pre == Bind(sch.pre, b)
        effs == BindEffects(sch.effs, b)
    IN  IF pre = False \/ effs = << >> THEN << >>
        ELSE <<[schema |-> sch.id, binding |-> b, pre |-> pre, effs |-> effs]>>

GroundBinding ==
    /\ step = "binding"
    /\ LET sch == schemas[at]
           b == CurrentBinding(sch.params)
           last == CanAdvance(sch.params) = {}
       IN  IF BindingThrows(sch, b)
           THEN step' = "failed" /\ UNCHANGED <<ground, at, odometer>>
           ELSE /\ ground' = ground \o FullBinding(sch, b)
                /\ step' = IF last THEN "schema" ELSE "binding"
                /\ at' = IF last THEN at + 1 ELSE at
                /\ odometer' = IF last THEN << >> ELSE AdvanceIterator(sch.params)
    /\ UNCHANGED <<task, schemas, heap, table, pending, goal, limits>>

AllGrounded ==
    /\ step = "schema" /\ at > Len(schemas)
    /\ step' = "ready"
    /\ UNCHANGED <<task, schemas, heap, table, pending, goal, limits, at, odometer, ground>>

Next ==
    \/ LoadSchema \/ LoadFormulas
    \/ \E n \in pending : ConsolidateAxiom(n)
    \/ RewriteFormulas
    \/ StartSchema \/ GroundBinding \/ AllGrounded

-----------------------------------------------------------------------------
(* What the task means, without any of the above. *)

SourceHeap(t) == [p \in {<<n, 0>> : n \in DOMAIN t.axioms} |-> t.axioms[p[1]]]

\* The variable an effect writes.
Target(lhs, s, b, ax) ==
    IF lhs.kind = "var" THEN lhs.var
    ELSE VarOf(lhs.sym, [i \in DOMAIN lhs.args |-> Value(lhs.args[i], s, b, ax)])

\* The atoms the effects make true in s, in their order.
EffectAtoms(effs, s, b, ax) ==
    LET fire == SelectSeq(effs, LAMBDA e : Holds(e.cond, s, b, ax) /\ Target(e.lhs, s, b, ax) # 0)
    IN  [i \in DOMAIN fire |-> <<Target(fire[i].lhs, s, b, ax), Value(fire[i].rhs, s, b, ax)>>]

\* Grounding loses nothing and adds nothing: for each binding of each schema
\* there is at most one ground action, it has the precondition and the
\* effects the schema has under the binding, in every state, and if there is
\* none, the schema under this binding never changes a state.  The goal and
\* the constraints are unchanged, too.
GroundingExact ==
    step = "ready" =>
        LET source == SourceHeap(task)
            Same(f, g, b, s) == Holds(f, s, b, source) = Holds(g, s, NoBinding, heap)
            Made(i, b) == {k \in DOMAIN ground : ground[k].schema = i /\ ground[k].binding = b}
        IN  /\ \A s \in State : Same(task.goal, goal, NoBinding, s) /\ Same(task.constraints, limits, NoBinding, s)
            /\ \A i \in DOMAIN task.schemas : \A b \in BindingsOf(task.schemas[i].params) :
                  /\ Cardinality(Made(i, b)) <= 1
                  /\ \A s \in State :
                        LET sch == task.schemas[i]
                            atoms == EffectAtoms(sch.effs, s, b, source)
                        IN  IF Made(i, b) = {}
                            THEN ~Holds(sch.pre, s, b, source) \/ atoms = << >>
                            ELSE \A k \in Made(i, b) :
                                    /\ Same(sch.pre, ground[k].pre, b, s)
                                    /\ atoms = EffectAtoms(ground[k].effs, s, NoBinding, heap)
=============================================================================
