---------------------------- MODULE Preprocessor ----------------------------
(***************************************************************************)
(* The preprocessor at work on a task, and the task it stands for: a task  *)
(* is translated step by step into the index that the planner loads, and   *)
(* once it is loaded every action the source allows is taken in both, so   *)
(* that the two states can be compared.                                    *)
(***************************************************************************)
EXTENDS AspTranslation

CONSTANTS
    Tasks,    \* the tasks: a function from their names
    Routes    \* the routes: "fd" (the default), "asp"

\* What is modelled of the second route knows neither axioms nor constraints.
TakesRoute(t, r) == r = "asp" => t.derived = << >> /\ t.constraints = And(<< >>)

VARIABLES
    name,     \* the task being translated
    route,    \* the route it takes
    phase,    \* the step to take next, or how the translation ended
    parsed,   \* what the parser returned
    index,    \* the task index
    state,    \* a state of the source task
    loaded    \* the state of the planner

vars == <<name, route, phase, parsed, index, state, loaded>>

Languages == [n \in DOMAIN Tasks |-> Language(Tasks[n])]
Task == Tasks[name]
Source == Languages[name]
Target == [types |-> index.types, derived |-> index.derived]
None == << >>

Init ==
    /\ name \in DOMAIN Tasks
    /\ route \in {r \in Routes : TakesRoute(Tasks[name], r)}
    /\ phase = "parse"
    /\ parsed = None /\ index = None
    /\ state = Tasks[name].init /\ loaded = {}

Go(done, next, otherwise) == phase' = IF done THEN next ELSE otherwise

FdParse ==
    /\ route = "fd" /\ phase = "parse"
    /\ Go(Parsable(Task), "index", "failed")
    /\ parsed' = IF Parsable(Task) THEN ParseTask(Task) ELSE None
    /\ UNCHANGED <<name, route, index, state, loaded>>

FdTaskIndex ==
    /\ route = "fd" /\ phase = "index"
    /\ Go(FdIndexable(Task, parsed), "load", "failed")
    /\ index' = IF FdIndexable(Task, parsed) THEN FdIndex(Task, parsed) ELSE None
    /\ UNCHANGED <<name, route, parsed, state, loaded>>

AspSimplify ==
    /\ route = "asp" /\ phase = "parse"
    /\ Go(AspParsable(Task), "ground", "failed")
    /\ parsed' = IF AspParsable(Task) THEN AspParse(Task) ELSE None
    /\ UNCHANGED <<name, route, index, state, loaded>>

\* A goal that is not reached ends the translation with an error.
AspGrounding ==
    /\ phase = "ground"
    /\ LET ground == AspGround(Task, parsed)
           done == AspGroundable(Task, parsed) /\ Reached(ground, parsed.goal, << >>)
       IN  /\ Go(done, "link", IF AspGroundable(Task, parsed) THEN "hopeless" ELSE "failed")
           /\ index' = IF done THEN WithStatics(Task, parsed, ground) ELSE None
    /\ UNCHANGED <<name, route, parsed, state, loaded>>

AspLinking ==
    /\ phase = "link"
    /\ LET linked == AspLink(index, parsed)
       IN  Go(AspLinkable(linked), "index", "failed") /\ parsed' = linked
    /\ UNCHANGED <<name, route, index, state, loaded>>

AspTaskIndex ==
    /\ route = "asp" /\ phase = "index"
    /\ LET done == AspIndexable(Task, index, parsed)
       IN  Go(done, "load", "failed") /\ index' = IF done THEN AspIndex(Task, index, parsed) ELSE None
    /\ UNCHANGED <<name, route, parsed, state, loaded>>

Load ==
    /\ phase = "load"
    /\ Go(Writable(Task, index) /\ (route = "asp" => Resolvable(index)),
          IF Readable(Task, index) THEN "run" ELSE "undefined", "failed")
    /\ loaded' = index.init
    /\ UNCHANGED <<name, route, parsed, index, state>>

-----------------------------------------------------------------------------
(* The loaded task *)

Holds(f, b) == Sat(Target, loaded \cup index.static, f, b)

\* The planner's action of this name, if the binding is one it grounds.
Schema(a) == SelectSeq(index.actions, LAMBDA c : c.name = a.name)
IsGrounded(a, b) == Schema(a) # << >> /\ Values(b, VarNames(a.params)) \in index.groundings[a.name]
LoadedApplicable(a, b) == IsGrounded(a, b) /\ Holds(Schema(a)[1].pre, b)

\* The effects that hold are applied in their order, the last one counts;
\* one on what is no state variable was dropped.
Accumulate(a, b) ==
    LET Apply(s, e) == LET at == <<e.lit.pred, Values(b, e.lit.args)>>
                       IN  IF at \notin index.variables \/ ~ Holds(e.cond, b) THEN s
                           ELSE IF e.lit.neg THEN s \ {at} ELSE s \cup {at}
    IN  FoldLeft(Apply, loaded, Schema(a)[1].effs)

Step(a, b) ==
    /\ phase = "run"
    /\ Applicable(Source, state, a, b)
    /\ LoadedApplicable(a, b)
    /\ state' = Successor(Source, state, a, b)
    /\ loaded' = Accumulate(a, b)
    /\ UNCHANGED <<name, route, phase, parsed, index>>

\* The source alone, to see whether a task that was given up is unsolvable.
SourceStep(a, b) ==
    /\ phase = "hopeless"
    /\ Applicable(Source, state, a, b)
    /\ state' = Successor(Source, state, a, b)
    /\ UNCHANGED <<name, route, phase, parsed, index, loaded>>

Next ==
    \/ FdParse
    \/ FdTaskIndex
    \/ AspSimplify
    \/ AspGrounding
    \/ AspLinking
    \/ AspTaskIndex
    \/ Load
    \/ \E i \in DOMAIN Task.actions : \E b \in Bindings(Source.types, Task.actions[i].params) :
            Step(Task.actions[i], b) \/ SourceStep(Task.actions[i], b)

Spec == Init /\ [][Next]_vars

-----------------------------------------------------------------------------
(* Properties *)

\* After any sequence of actions the source's state is the planner's together
\* with the initial atoms that are no state variables: what the effects become
\* (normalisation, renaming, grounding) is at stake, and that a static never
\* changes, nor, where the groundings are precomputed, an atom out of reach.
FaithfulStates ==
    phase = "run" =>
        /\ loaded \subseteq index.variables
        /\ state = loaded \cup (Task.init \ index.variables)

\* The planner can apply only the actions the source allows, and all of those
\* that change the state: normal form, simplification, renaming, prenex form,
\* the pruning of actions and the removal of static conditions keep their
\* meaning.
FaithfulActions ==
    phase = "run" =>
        \A i \in DOMAIN Task.actions : \A b \in Bindings(Source.types, Task.actions[i].params) :
            LET a == Task.actions[i]
                allowed == Applicable(Source, state, a, b)
            IN  /\ LoadedApplicable(a, b) => allowed
                /\ allowed /\ Successor(Source, state, a, b) # state => LoadedApplicable(a, b)

\* The goal and the state constraints hold in the planner's state exactly when
\* they do in the source's; and a task is given up as unsolvable only if no
\* state its actions lead to is a goal: the logic program reaches no less.
FaithfulGoal ==
    LET isGoal == Sat(Source, state, Task.goal, << >>)
    IN  /\ phase = "hopeless" => ~ isGoal
        /\ phase = "run" =>
            /\ Holds(index.goal, << >>) <=> isGoal
            /\ Holds(index.constraints, << >>) <=> Sat(Source, state, Task.constraints, << >>)

\* The translation of a task that both parsers accept comes to an end.
Translated == phase # "failed"
=============================================================================
