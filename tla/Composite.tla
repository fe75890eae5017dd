----------------------------- MODULE Composite -----------------------------
(***************************************************************************)
(* Composite capabilities (composite/): definitions made of steps whose    *)
(* inputs are bound to inputs of the call or to outputs of steps, a        *)
(* registry of them, and the engine that carries out a definition step by  *)
(* step, each step as a workflow of its own in WorkflowEngine.             *)
(*                                                                         *)
(* invoke() suspends only where the workflow engine does. From the return  *)
(* of one run to the first suspension of the next it keeps the event loop: *)
(* busy is the call that does.                                             *)
(***************************************************************************)
EXTENDS Integers, Sequences, FiniteSets, Functions

CONSTANTS
    Invocation,   \* calls of invoke() (bound on their number)
    CapabilityId, \* ids of composite capabilities
    MostSteps,     \* length of the longest definition
    Definition,   \* what somebody may try to define: see IsDefinition
    Key,          \* keys of dicts
    Offer,        \* what a call may give: functions from input names to values
    Product,      \* what an executor may return: values
    None

\* All a binding can tell of a value is which keys it has; what is no dict has
\* none.
Value == SUBSET Key

\* Binding: where a field's value comes from. key is None or the key of the
\* source's value to extract.
Binding == [source : {"input", "step"}, id : STRING, key : Key \cup {None}]

\* CompositeStep, CompositeCapability. The fields of a step, and the outputs,
\* are numbered.
CompositeStep == [id : STRING, bindings : Seq(Binding)]

IsDefinition(d) ==
    /\ d \in [inputs : SUBSET STRING, steps : Seq(CompositeStep), outputs : Seq(Binding)]
    /\ Len(d.steps) <= MostSteps

ASSUME CompositeAssumption ==
    /\ MostSteps \in Nat \ {0}
    /\ \A d \in Definition : IsDefinition(d)
    /\ \A f \in Offer : DOMAIN f \subseteq STRING /\ Range(f) \subseteq Value
    /\ Product \subseteq Value

\* The states a call may return, and the errors it may raise.
Answer == {"COMPLETED", "FAILED", "CANCELLED", "not found", "missing input",
           "unavailable", "mismatch"}

ASSUME NoneAssumption ==
    /\ None \notin Invocation /\ None \notin Definition
    /\ None \notin Answer /\ \A v \in Value : v # None

VARIABLES
    registry,    \* CompositeCapabilityRegistry._composites
    busy,        \* the call that has the event loop, or None
    place,       \* where a call is: idle, between, running or ended
    composite,   \* its local variable of that name
    inputs,      \* context.composite_inputs
    values,      \* context.step_outputs
    product,     \* the output of the step that has just been executed
    reported,    \* all_step_results: the states of the steps
    outputs,     \* the outputs returned
    answer,      \* the state returned, or the error raised
    begun        \* history: the steps begun, with the sources of their inputs

\* The variables of WorkflowEngine.
VARIABLES work, pc, results, failed, token, outcome, events, active

callVars == <<busy, place, composite, inputs, values, product, reported,
              outputs, answer, begun>>
engineVars == <<work, pc, results, failed, token, outcome, events, active>>
vars == <<registry, callVars, engineVars>>

\* Every step of every call has a workflow of its own, with one step.
Run == Invocation \X (1 .. MostSteps)
Engine == INSTANCE WorkflowEngine WITH
              Run <- Run, Workflow <- Run,
              StepCount <- [w \in Run |-> 1], Plan <- {[r \in Run |-> r]}

Nothing == [x \in {} |-> x]

-----------------------------------------------------------------------------
(* Definitions.                                                            *)

IdsUpTo(steps, n) == {steps[m].id : m \in 1 .. n}

\* Mutant: the ids of all steps are collected first.
ValidateStepReferencesLate(d) ==
    /\ IsInjective([n \in DOMAIN d.steps |-> d.steps[n].id])
    /\ \A n \in DOMAIN d.steps : \A b \in Range(d.steps[n].bindings) :
          b.id \in IF b.source = "input" THEN d.inputs
                   ELSE IdsUpTo(d.steps, Len(d.steps))
    /\ \A b \in Range(d.outputs) :
          b.id \in IF b.source = "input" THEN d.inputs
                   ELSE IdsUpTo(d.steps, Len(d.steps))

\* validate_step_references: no id twice; a step binds to declared inputs and
\* to steps up to itself, since its id is added before its bindings are
\* looked at; an output binds to declared inputs and to any step.
ValidateStepReferences(d) ==
    /\ IsInjective([n \in DOMAIN d.steps |-> d.steps[n].id])
    /\ \A n \in DOMAIN d.steps : \A b \in Range(d.steps[n].bindings) :
          b.id \in IF b.source = "input" THEN d.inputs ELSE IdsUpTo(d.steps, n)
    /\ \A b \in Range(d.outputs) :
          b.id \in IF b.source = "input" THEN d.inputs
                   ELSE IdsUpTo(d.steps, Len(d.steps))

-----------------------------------------------------------------------------
(* _resolve_binding_value.                                                 *)

\* The values a binding of call i may name.
Sources(i, b) == IF b.source = "input" THEN inputs[i] ELSE values[i]

\* The error a binding raises, or "none".
BindingError(i, b) ==
    IF b.id \notin DOMAIN Sources(i, b) THEN "unavailable"
    ELSE IF b.key # None /\ b.key \notin Sources(i, b)[b.id].keys THEN "mismatch"
    ELSE "none"

\* The first error of a sequence of bindings, or "none".
FirstError(i, bindings) ==
    LET wrong == {n \in DOMAIN bindings : BindingError(i, bindings[n]) # "none"}
    IN  IF wrong = {} THEN "none"
        ELSE BindingError(i, bindings[CHOOSE n \in wrong : \A m \in wrong : n <= m])

\* What the bindings are resolved to: where each value was made.
Resolve(i, bindings) ==
    [n \in DOMAIN bindings |-> Sources(i, bindings[n])[bindings[n].id].from]

-----------------------------------------------------------------------------

Init ==
    /\ registry = [c \in CapabilityId |-> None]
    /\ busy = None
    /\ place = [i \in Invocation |-> "idle"]
    /\ composite = [i \in Invocation |-> None]
    /\ inputs = [i \in Invocation |-> Nothing]
    /\ values = [i \in Invocation |-> Nothing]
    /\ product = [i \in Invocation |-> None]
    /\ reported = [i \in Invocation |-> <<>>]
    /\ outputs = [i \in Invocation |-> <<>>]
    /\ answer = [i \in Invocation |-> None]
    /\ begun = [i \in Invocation |-> <<>>]
    /\ Engine!Init

\* A definition that is valid is registered, over another one only if the
\* caller says so.
Register(c, d, overwrite) ==
    /\ busy = None
    /\ ValidateStepReferences(d)
    /\ registry[c] = None \/ overwrite
    /\ registry' = [registry EXCEPT ![c] = d]
    /\ UNCHANGED <<callVars, engineVars>>

Unregister(c) ==
    /\ busy = None
    /\ registry[c] # None
    /\ registry' = [registry EXCEPT ![c] = None]
    /\ UNCHANGED <<callVars, engineVars>>

\* The caller's token is the one all steps of the call look at.
Cancel(i) ==
    /\ busy = None
    /\ place[i] # "ended"
    /\ \E r \in Run : r[1] = i /\ ~token[r]
    /\ token' = [r \in Run |-> token[r] \/ r[1] = i]
    /\ UNCHANGED <<registry, callVars, work, pc, results, failed, outcome, events, active>>

IsCancelled(i) == token[<<i, 1>>]

\* The call returns a state, or raises an error.
End(i, x) ==
    /\ place' = [place EXCEPT ![i] = "ended"]
    /\ answer' = [answer EXCEPT ![i] = x]
    /\ busy' = None

\* invoke() of an id that is not registered, ...
InvokeUnknown(i, c) ==
    /\ busy = None
    /\ place[i] = "idle"
    /\ registry[c] = None
    /\ End(i, "not found")
    /\ UNCHANGED <<registry, composite, inputs, values, product, reported, outputs,
                   begun, engineVars>>

\* ... or without all the inputs, ...
InvokeWithout(i, c, given) ==
    /\ busy = None
    /\ place[i] = "idle"
    /\ registry[c] # None
    /\ ~(registry[c].inputs \subseteq DOMAIN given)
    /\ End(i, "missing input")
    /\ UNCHANGED <<registry, composite, inputs, values, product, reported, outputs,
                   begun, engineVars>>

\* ... or with them.
Invoke(i, c, given) ==
    /\ busy = None
    /\ place[i] = "idle"
    /\ registry[c] # None
    /\ registry[c].inputs \subseteq DOMAIN given
    /\ composite' = [composite EXCEPT ![i] = registry[c]]
    /\ inputs' = [inputs EXCEPT ![i] =
                     [n \in DOMAIN given |-> [from |-> <<i, n>>, keys |-> given[n]]]]
    /\ place' = [place EXCEPT ![i] = "between"]
    /\ busy' = i
    /\ UNCHANGED <<registry, values, product, reported, outputs, answer, begun, engineVars>>

\* Mutant: the definition is looked up again for every step.
CurrentAgain(i) ==
    IF \E c \in CapabilityId : registry[c] # None
    THEN registry[CHOOSE c \in CapabilityId : registry[c] # None]
    ELSE composite[i]

\* The definition the call goes by.
Current(i) == composite[i]

StepsOf(i) == Current(i).steps
AtStep(i) == Len(reported[i]) + 1
Under(i) == <<i, AtStep(i)>>      \* the run of the step that is being executed

\* The loop of invoke() finds the token set before the next step.
StopBetween(i) ==
    /\ busy = i
    /\ AtStep(i) <= Len(StepsOf(i))
    /\ IsCancelled(i)
    /\ End(i, "CANCELLED")
    /\ UNCHANGED <<registry, composite, inputs, values, product, reported, outputs,
                   begun, engineVars>>

\* A binding of the step does not resolve: invoke() raises.
StepBindingFails(i) ==
    /\ busy = i
    /\ AtStep(i) <= Len(StepsOf(i))
    /\ ~IsCancelled(i)
    /\ LET error == FirstError(i, StepsOf(i)[AtStep(i)].bindings)
       IN  error # "none" /\ End(i, error)
    /\ UNCHANGED <<registry, composite, inputs, values, product, reported, outputs,
                   begun, engineVars>>

\* The step is handed to the workflow engine, whose run begins and suspends.
StartStep(i) ==
    /\ busy = i
    /\ AtStep(i) <= Len(StepsOf(i))
    /\ ~IsCancelled(i)
    /\ LET step == StepsOf(i)[AtStep(i)]
       IN  /\ FirstError(i, step.bindings) = "none"
           /\ begun' = [begun EXCEPT ![i] =
                           Append(@, [step |-> step, got |-> Resolve(i, step.bindings)])]
    /\ Engine!Begin(Under(i))
    /\ place' = [place EXCEPT ![i] = "running"]
    /\ busy' = None
    /\ UNCHANGED <<registry, composite, inputs, values, product, reported, outputs,
                   answer>>

\* Navigation and execution of the step, in WorkflowEngine; what the executor
\* returns is the output of the step.
RunStep(i) ==
    /\ busy = None
    /\ place[i] = "running"
    /\ \/ /\ \/ Engine!StopCancelled(Under(i))
             \/ Engine!StartStep(Under(i))
             \/ Engine!ResolveStep(Under(i))
             \/ Engine!FailStep(Under(i))
             \/ Engine!EndLoop(Under(i))
          /\ UNCHANGED product
       \/ /\ Engine!CompleteStep(Under(i))
          /\ \E v \in Product : product' = [product EXCEPT ![i] = v]
    /\ UNCHANGED <<registry, busy, place, composite, inputs, values, reported, outputs,
                   answer, begun>>

StepState(i) == results[Under(i)][1]

\* The workflow engine returns a step that failed or was cancelled: so has
\* the call, with the state of that workflow.
StepFailed(i) ==
    /\ busy = None
    /\ place[i] = "running"
    /\ Engine!Return(Under(i))
    /\ StepState(i) # "COMPLETED"
    /\ reported' = [reported EXCEPT ![i] = Append(@, StepState(i))]
    /\ End(i, outcome[Under(i)])
    /\ UNCHANGED <<registry, composite, inputs, values, product, outputs, begun>>

\* ... or one that succeeded: its output is kept for later bindings and the
\* loop goes on.
StepSucceeded(i) ==
    /\ busy = None
    /\ place[i] = "running"
    /\ Engine!Return(Under(i))
    /\ StepState(i) = "COMPLETED"
    /\ reported' = [reported EXCEPT ![i] = Append(@, StepState(i))]
    /\ LET id == begun[i][AtStep(i)].step.id
       IN  values' = [values EXCEPT ![i] =
                         [s \in DOMAIN @ \cup {id} |->
                             IF s = id THEN [from |-> <<i, id>>, keys |-> product[i]]
                             ELSE @[s]]]
    /\ place' = [place EXCEPT ![i] = "between"]
    /\ busy' = i
    /\ UNCHANGED <<registry, composite, inputs, product, outputs, answer, begun>>

\* All steps are done, and the outputs resolve ...
Finish(i) ==
    /\ busy = i
    /\ AtStep(i) > Len(StepsOf(i))
    /\ FirstError(i, Current(i).outputs) = "none"
    /\ outputs' = [outputs EXCEPT ![i] = Resolve(i, Current(i).outputs)]
    /\ End(i, "COMPLETED")
    /\ UNCHANGED <<registry, composite, inputs, values, product, reported, begun,
                   engineVars>>

\* ... or do not: invoke() raises, and what the steps returned is lost.
OutputBindingFails(i) ==
    /\ busy = i
    /\ AtStep(i) > Len(StepsOf(i))
    /\ LET error == FirstError(i, Current(i).outputs)
       IN  error # "none" /\ End(i, error)
    /\ UNCHANGED <<registry, composite, inputs, values, product, reported, outputs,
                   begun, engineVars>>

-----------------------------------------------------------------------------

Progress(i) ==
    \/ StopBetween(i) \/ StepBindingFails(i) \/ StartStep(i)
    \/ RunStep(i) \/ StepFailed(i) \/ StepSucceeded(i)
    \/ Finish(i) \/ OutputBindingFails(i)

Next ==
    \/ \E c \in CapabilityId : Unregister(c)
    \/ \E c \in CapabilityId, d \in Definition, overwrite \in BOOLEAN :
          Register(c, d, overwrite)
    \/ \E i \in Invocation :
          \/ Cancel(i)
          \/ \E c \in CapabilityId : InvokeUnknown(i, c)
          \/ \E c \in CapabilityId, given \in Offer :
                InvokeWithout(i, c, given) \/ Invoke(i, c, given)
          \/ Progress(i)

\* As in WorkflowEngine: navigation and executors return or raise.
Fairness == \A i \in Invocation : WF_vars(Progress(i))

Spec == Init /\ [][Next]_vars /\ Fairness

-----------------------------------------------------------------------------
(* Properties.                                                             *)

Sourced == [from : Invocation \X STRING, keys : Value]

TypeOK ==
    /\ \A c \in CapabilityId : registry[c] # None => registry[c] \in Definition
    /\ busy \in Invocation \cup {None}
    /\ place \in [Invocation -> {"idle", "between", "running", "ended"}]
    /\ \A i \in Invocation :
          /\ composite[i] # None => composite[i] \in Definition
          /\ Range(inputs[i]) \cup Range(values[i]) \subseteq Sourced
          /\ product[i] # None => product[i] \in Value
          /\ reported[i] \in Seq({"COMPLETED", "FAILED", "CANCELLED"})
          /\ Len(reported[i]) <= Len(begun[i])
          /\ Len(begun[i]) <= MostSteps
          /\ answer[i] # None => answer[i] \in Answer
          /\ (answer[i] # None) <=> (place[i] = "ended")
    /\ Engine!TypeOK

\* The steps of a call, in the order begun, are those of the definition that
\* was registered when it was made, whatever happens to the registry meanwhile
\* (composite/engine.py 89-182). What it answers tells what was done: COMPLETED
\* that all steps were, FAILED and CANCELLED that the last one begun was not,
\* or that the token was set before the next, an error that each step begun was
\* and the next was not begun. The step results tell the same, and nothing goes
\* on after the answer.
ResultTellsSteps ==
    \A i \in Invocation : place[i] = "ended" =>
        LET n == Len(begun[i])
            steps == IF composite[i] = None THEN <<>> ELSE composite[i].steps
            AllButLast(state) ==
                /\ n > 0
                /\ results[<<i, n>>] = <<state>>
                /\ \A m \in 1 .. n - 1 : results[<<i, m>>] = <<"COMPLETED">>
            All == \A m \in 1 .. n : results[<<i, m>>] = <<"COMPLETED">>
        IN  /\ n <= Len(steps)
            /\ \A m \in 1 .. n : begun[i][m].step = steps[m] /\ pc[<<i, m>>] = "returned"
            /\ \A m \in n + 1 .. MostSteps : pc[<<i, m>>] = "idle"
            /\ reported[i] = [m \in 1 .. n |-> results[<<i, m>>][1]]
            /\ CASE answer[i] = "COMPLETED" -> All /\ n = Len(steps)
                 [] answer[i] = "FAILED"    -> AllButLast("FAILED")
                 [] answer[i] = "CANCELLED" ->
                       IsCancelled(i) /\ (AllButLast("CANCELLED") \/ (All /\ n < Len(steps)))
                 [] answer[i] \in {"not found", "missing input"} -> n = 0
                 [] OTHER -> All

\* A binding gets the value it names: an input of its own call or the output of
\* an earlier completed step of its own call (composite/engine.py 214-283). The
\* engine looks in vain only for what a step expects of itself, or for a key
\* that the value does not have: the definition was validated for the rest
\* (composite/models.py 204-246).
Made(i, b, n) ==
    \/ b.source = "input" /\ b.id \in composite[i].inputs
    \/ \E m \in 1 .. n : /\ composite[i].steps[m].id = b.id
                         /\ results[<<i, m>>] = <<"COMPLETED">>

Delivered(i, bindings, got, n) ==
    /\ Len(got) = Len(bindings)
    /\ \A k \in DOMAIN bindings : /\ got[k] = <<i, bindings[k].id>>
                                 /\ Made(i, bindings[k], n)

BindingsDeliver ==
    \A i \in Invocation :
        /\ \A n \in DOMAIN begun[i] :
              Delivered(i, begun[i][n].step.bindings, begun[i][n].got, n - 1)
        /\ answer[i] = "COMPLETED" =>
              Delivered(i, composite[i].outputs, outputs[i], Len(begun[i]))
        /\ answer[i] = "unavailable" =>
              /\ Len(begun[i]) < Len(composite[i].steps)
              /\ LET step == composite[i].steps[Len(begun[i]) + 1]
                 IN  \E b \in Range(step.bindings) : b.source = "step" /\ b.id = step.id

\* Every call ends, whatever fails and whoever cancels.
EveryInvocationEnds == \A i \in Invocation : place[i] # "idle" ~> place[i] = "ended"

=============================================================================
