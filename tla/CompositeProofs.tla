--------------------------- MODULE CompositeProofs ---------------------------
(***************************************************************************)
(* What Composite guarantees for any number of calls and definitions, with *)
(* any number of steps: the invariants of the run "composite".             *)
(***************************************************************************)
EXTENDS Composite, NaturalsInduction, WellFoundedInduction, SequenceTheorems, TLAPS

USE CompositeAssumption, NoneAssumption

-----------------------------------------------------------------------------
(* The inductive invariant.                                                *)

Valid == {d \in Definition : ValidateStepReferences(d)}
DoneState == {"COMPLETED", "FAILED", "CANCELLED"}
Origin == Invocation \X STRING
BegunStep == [step : CompositeStep, got : Seq(Origin)]

\* The registry holds nothing that has not been validated, and so a call
\* carries out nothing else.
Types ==
    /\ registry \in [CapabilityId -> Valid \cup {None}]
    /\ busy \in Invocation \cup {None}
    /\ place \in [Invocation -> {"idle", "between", "running", "ended"}]
    /\ composite \in [Invocation -> Valid \cup {None}]
    /\ DOMAIN inputs = Invocation
    /\ DOMAIN values = Invocation
    /\ product \in [Invocation -> Value \cup {None}]
    /\ reported \in [Invocation -> Seq(DoneState)]
    /\ outputs \in [Invocation -> Seq(Origin)]
    /\ answer \in [Invocation -> Answer \cup {None}]
    /\ begun \in [Invocation -> Seq(BegunStep)]
    /\ Engine!TypeOK
    /\ work = [r \in Run |-> r]

\* The steps of the definition that call i carries out.
Todo(i) == IF composite[i] = None THEN <<>> ELSE composite[i].steps

\* Where a call is, and how far it has come.
ControlInv(i) ==
    /\ place[i] = "between" <=> busy = i
    /\ answer[i] # None <=> place[i] = "ended"
    /\ Len(begun[i]) = IF place[i] = "running" THEN Len(reported[i]) + 1 ELSE Len(reported[i])
    /\ place[i] = "idle" => composite[i] = None /\ begun[i] = <<>>
    /\ place[i] \in {"between", "running"} => composite[i] # None
    /\ Len(begun[i]) <= Len(Todo(i))
    /\ \A m \in 1 .. Len(begun[i]) : begun[i][m].step = Todo(i)[m]

\* The workflow of a step that has not begun, and of the one that is carried
\* out.
Unused(r) == pc[r] = "idle" /\ results[r] = <<>> /\ ~failed[r]

UnderWay(r) ==
    /\ pc[r] \in {"loop", "resolving", "executing", "ending"}
    /\ pc[r] \in {"resolving", "executing"} => results[r] = <<>> /\ ~failed[r]
    /\ pc[r] = "loop" => \/ results[r] = <<>> /\ ~failed[r]
                         \/ results[r] = <<"COMPLETED">> /\ ~failed[r]
                         \/ results[r] = <<"FAILED">> /\ failed[r]
    /\ pc[r] = "ending" => \/ results[r] = <<"COMPLETED">> /\ outcome[r] = "COMPLETED"
                           \/ results[r] = <<"FAILED">> /\ outcome[r] = "FAILED"
                           \/ results[r] = <<"CANCELLED">> /\ outcome[r] = "CANCELLED" /\ token[r]

\* The workflows of a call's steps, in the three parts of the definition.
RunsInv(i) ==
    /\ \A m \in 1 .. Len(reported[i]) :
          pc[<<i, m>>] = "returned" /\ results[<<i, m>>] = <<reported[i][m]>>
    /\ \A m \in Len(begun[i]) + 1 .. MostSteps : Unused(<<i, m>>)
    /\ place[i] = "running" =>
          /\ UnderWay(<<i, Len(begun[i])>>)
          /\ results[<<i, Len(begun[i])>>] = <<"COMPLETED">> => product[i] # None
    /\ \A m \in 1 .. MostSteps : token[<<i, m>>] <=> token[<<i, 1>>]

AllDone(i) == \A m \in 1 .. Len(reported[i]) : reported[i][m] = "COMPLETED"

\* What may be bound to: inputs and outputs that are what their names say, all
\* the inputs declared, and the outputs of just the steps done.
DataInv(i) ==
    /\ \A x \in DOMAIN inputs[i] : inputs[i][x] \in Sourced /\ inputs[i][x].from = <<i, x>>
    /\ \A x \in DOMAIN values[i] : values[i][x] \in Sourced /\ values[i][x].from = <<i, x>>
    /\ composite[i] # None => composite[i].inputs \subseteq DOMAIN inputs[i]
    /\ place[i] # "ended" => /\ AllDone(i)
                             /\ DOMAIN values[i] = IdsUpTo(Todo(i), Len(reported[i]))

\* Delivered, in terms of what the steps have returned to the call.
Gets(i, bindings, got, n) ==
    /\ Len(got) = Len(bindings)
    /\ \A k \in DOMAIN bindings :
          /\ got[k] = <<i, bindings[k].id>>
          /\ \/ bindings[k].source = "input" /\ bindings[k].id \in composite[i].inputs
             \/ \E m \in 1 .. n : /\ m <= Len(reported[i])
                                  /\ reported[i][m] = "COMPLETED"
                                  /\ Todo(i)[m].id = bindings[k].id

BoundInv(i) ==
    \A n \in 1 .. Len(begun[i]) :
        Gets(i, begun[i][n].step.bindings, begun[i][n].got, n - 1)

\* What the answer tells.
LastIs(i, state) ==
    /\ Len(reported[i]) > 0
    /\ reported[i][Len(reported[i])] = state
    /\ \A m \in 1 .. Len(reported[i]) - 1 : reported[i][m] = "COMPLETED"

EndInv(i) ==
    /\ answer[i] = "COMPLETED" =>
          /\ AllDone(i) /\ Len(reported[i]) = Len(Todo(i))
          /\ composite[i] # None
          /\ Gets(i, composite[i].outputs, outputs[i], Len(reported[i]))
    /\ answer[i] = "FAILED" => LastIs(i, "FAILED")
    /\ answer[i] = "CANCELLED" =>
          /\ token[<<i, 1>>]
          /\ LastIs(i, "CANCELLED") \/ (AllDone(i) /\ Len(reported[i]) < Len(Todo(i)))
    /\ answer[i] \in {"not found", "missing input"} => reported[i] = <<>>
    /\ answer[i] \in {"unavailable", "mismatch"} => AllDone(i)
    /\ answer[i] = "unavailable" =>
          /\ composite[i] # None
          /\ Len(reported[i]) < Len(Todo(i))
          /\ \E b \in Range(Todo(i)[Len(reported[i]) + 1].bindings) :
                b.source = "step" /\ b.id = Todo(i)[Len(reported[i]) + 1].id

CallInv(i) == ControlInv(i) /\ RunsInv(i) /\ DataInv(i) /\ BoundInv(i) /\ EndInv(i)

IInv == Types /\ \A i \in Invocation : CallInv(i)

-----------------------------------------------------------------------------
(* Definitions and what is left of them to do.                             *)

LEMMA ValidDefinition ==
    ASSUME NEW d \in Valid
    PROVE  /\ d # None
           /\ d \in Definition
           /\ d \in [inputs : SUBSET STRING, steps : Seq(CompositeStep), outputs : Seq(Binding)]
           /\ Len(d.steps) <= MostSteps
           /\ ValidateStepReferences(d)
  BY DEF Valid, IsDefinition

\* The last two parts of ValidateStepReferences, and what the first comes to.
LEMMA ValidReferences ==
    ASSUME NEW d \in Valid
    PROVE  /\ \A n \in 1 .. Len(d.steps) : \A k \in DOMAIN d.steps[n].bindings :
                LET b == d.steps[n].bindings[k]
                IN  /\ b.source = "input" => b.id \in d.inputs
                    /\ b.source # "input" => \E m \in 1 .. n : b.id = d.steps[m].id
           /\ \A k \in DOMAIN d.outputs :
                LET b == d.outputs[k]
                IN  /\ b.source = "input" => b.id \in d.inputs
                    /\ b.source # "input" =>
                          \E m \in 1 .. Len(d.steps) : b.id = d.steps[m].id
<1>1. /\ d.steps \in Seq(CompositeStep)
      /\ ValidateStepReferences(d)
  BY ValidDefinition
<1>2. DOMAIN d.steps = 1 .. Len(d.steps)
  BY <1>1
<1>3. /\ \A n \in DOMAIN d.steps : \A b \in Range(d.steps[n].bindings) :
            b.id \in IF b.source = "input" THEN d.inputs ELSE IdsUpTo(d.steps, n)
      /\ \A b \in Range(d.outputs) :
            b.id \in IF b.source = "input" THEN d.inputs ELSE IdsUpTo(d.steps, Len(d.steps))
  BY <1>1 DEF ValidateStepReferences
<1>4. ASSUME NEW n \in 1 .. Len(d.steps), NEW k \in DOMAIN d.steps[n].bindings
      PROVE  LET b == d.steps[n].bindings[k]
             IN  /\ b.source = "input" => b.id \in d.inputs
                 /\ b.source # "input" => \E m \in 1 .. n : b.id = d.steps[m].id
  <2>1. d.steps[n].bindings[k] \in Range(d.steps[n].bindings)
    BY DEF Range
  <2>2. PICK b : b = d.steps[n].bindings[k]
    OBVIOUS
  <2>3. b.id \in IF b.source = "input" THEN d.inputs ELSE IdsUpTo(d.steps, n)
    BY <1>2, <1>3, <2>1, <2>2
  <2>4. /\ b.source = "input" => b.id \in d.inputs
        /\ b.source # "input" => \E m \in 1 .. n : b.id = d.steps[m].id
    BY <2>3 DEF IdsUpTo
  <2> QED
    BY <2>2, <2>4
<1>5. ASSUME NEW k \in DOMAIN d.outputs
      PROVE  LET b == d.outputs[k]
             IN  /\ b.source = "input" => b.id \in d.inputs
                 /\ b.source # "input" =>
                       \E m \in 1 .. Len(d.steps) : b.id = d.steps[m].id
  <2>1. d.outputs[k] \in Range(d.outputs)
    BY DEF Range
  <2> QED
    BY <1>3, <2>1 DEF IdsUpTo
<1> QED
  BY <1>4, <1>5

LEMMA TodoSteps ==
    ASSUME Types, NEW i \in Invocation
    PROVE  /\ Todo(i) \in Seq(CompositeStep)
           /\ Len(Todo(i)) <= MostSteps
           /\ composite[i] # None => composite[i] \in Valid /\ Todo(i) = composite[i].steps
<1>1. CASE composite[i] = None
  BY <1>1 DEF Todo
<1>2. CASE composite[i] # None
  <2>1. composite[i] \in Valid
    BY <1>2 DEF Types
  <2> QED
    BY <1>2, <2>1, ValidDefinition DEF Todo
<1> QED
  BY <1>1, <1>2

LEMMA StepFields ==
    ASSUME NEW steps \in Seq(CompositeStep), NEW n \in 1 .. Len(steps)
    PROVE  /\ steps[n] \in CompositeStep
           /\ steps[n].id \in STRING
           /\ steps[n].bindings \in Seq(Binding)
<1>1. steps[n] \in CompositeStep
  BY ElementOfSeq
<1> QED
  BY <1>1 DEF CompositeStep

-----------------------------------------------------------------------------
(* The workflow of a step.                                                 *)

Untouched(q) ==
    pc'[q] = pc[q] /\ results'[q] = results[q] /\ failed'[q] = failed[q]
    /\ outcome'[q] = outcome[q]

\* What every step of run r leaves alone.
OnlyMoves(r) ==
    /\ Engine!TypeOK'
    /\ work' = work
    /\ token' = token
    /\ \A q \in Run \ {r} : Untouched(q)

LEMMA OneStepEach ==
    ASSUME Types, NEW r \in Run
    PROVE  Engine!Steps(r) = {1} /\ Engine!Remaining(r) = 1 - Len(results[r])
<1>1. work[r] = r
  BY DEF Types
<1> QED
  BY <1>1 DEF Engine!Steps, Engine!Remaining

LEMMA BeginEffect ==
    ASSUME Types, NEW r \in Run, Unused(r), Engine!Begin(r)
    PROVE  OnlyMoves(r) /\ UnderWay(r)' /\ results'[r] = <<>>
<1> USE DEF Engine!Begin, Engine!Publish, Engine!Goto
<1>1. Engine!TypeOK /\ work = [q \in Run |-> q]
  BY DEF Types
<1>2. Engine!TypeOK'
  BY <1>1 DEF Engine!TypeOK
<1>3. pc' = [pc EXCEPT ![r] = "loop"]
  OBVIOUS
<1>4. UnderWay(r)' /\ results'[r] = <<>>
  BY <1>1, <1>3 DEF Engine!TypeOK, UnderWay, Unused
<1> QED
  BY <1>1, <1>2, <1>3, <1>4 DEF OnlyMoves, Untouched, Engine!TypeOK

\* The steps of WorkflowEngine that RunStep allows, but for the completion of
\* the step.
Proceeds(r) ==
    \/ Engine!StopCancelled(r) \/ Engine!StartStep(r) \/ Engine!ResolveStep(r)
    \/ Engine!FailStep(r) \/ Engine!EndLoop(r)

\* Results of a workflow with one step.
LEMMA OneResult ==
    /\ Append(<<>>, "COMPLETED") = <<"COMPLETED">>
    /\ Append(<<>>, "FAILED") = <<"FAILED">>
    /\ <<>> \o [k \in 1 .. 1 |-> "CANCELLED"] = <<"CANCELLED">>
    /\ <<"COMPLETED">> # <<"FAILED">>
    /\ <<"COMPLETED">> # <<"CANCELLED">>
    /\ \A x : <<x>>[1] = x /\ Len(<<x>>) = 1 /\ <<x>> # <<>>
  OBVIOUS

LEMMA ProceedEffect ==
    ASSUME Types, NEW r \in Run, UnderWay(r), Proceeds(r)
    PROVE  /\ OnlyMoves(r)
           /\ UnderWay(r)'
           /\ results'[r] = <<"COMPLETED">> => results[r] = <<"COMPLETED">>
<1> USE DEF Engine!Publish, Engine!Goto, Engine!Conclude
<1>1. Engine!TypeOK /\ work = [q \in Run |-> q] /\ Engine!Remaining(r) = 1 - Len(results[r])
  BY OneStepEach DEF Types
<1>2. CASE Engine!StopCancelled(r)
  <2>1. results[r] = <<>> /\ Engine!Remaining(r) = 1
    BY <1>1, <1>2, OneResult DEF Engine!StopCancelled, UnderWay
  <2>2. results' = [results EXCEPT ![r] = <<"CANCELLED">>]
    BY <1>2, <2>1, OneResult DEF Engine!StopCancelled, Engine!CancelRemaining
  <2>3. Engine!TypeOK'
    BY <1>1, <1>2, <2>2 DEF Engine!StopCancelled, Engine!TypeOK, Engine!StepState, Engine!WorkflowState
  <2>4. UnderWay(r)' /\ results'[r] # <<"COMPLETED">>
    BY <1>1, <1>2, <2>2, OneResult DEF Engine!StopCancelled, Engine!TypeOK, UnderWay
  <2> QED
    BY <1>1, <1>2, <2>2, <2>3, <2>4 DEF Engine!StopCancelled, OnlyMoves, Untouched, Engine!TypeOK
<1>3. CASE Engine!StartStep(r)
  <2> USE DEF Engine!StartStep
  <2>1. Engine!TypeOK'
    BY <1>1, <1>3 DEF Engine!TypeOK
  <2>2. results[r] = <<>>
    BY <1>1, <1>3, OneResult DEF UnderWay
  <2>3. UnderWay(r)'
    BY <1>1, <1>3, <2>2 DEF Engine!TypeOK, UnderWay
  <2> QED
    BY <1>1, <1>3, <2>1, <2>3 DEF OnlyMoves, Untouched, Engine!TypeOK
<1>4. CASE Engine!ResolveStep(r)
  <2> USE DEF Engine!ResolveStep
  <2>1. Engine!TypeOK'
    BY <1>1, <1>4 DEF Engine!TypeOK
  <2>2. UnderWay(r)'
    BY <1>1, <1>4 DEF Engine!TypeOK, UnderWay
  <2> QED
    BY <1>1, <1>4, <2>1, <2>2 DEF OnlyMoves, Untouched, Engine!TypeOK
<1>5. CASE Engine!FailStep(r)
  <2> USE DEF Engine!FailStep, Engine!Record
  <2>1. results' = [results EXCEPT ![r] = <<"FAILED">>]
    BY <1>5, OneResult DEF UnderWay
  <2>2. Engine!TypeOK'
    BY <1>1, <1>5, <2>1 DEF Engine!TypeOK, Engine!StepState
  <2>3. UnderWay(r)' /\ results'[r] # <<"COMPLETED">>
    BY <1>1, <1>5, <2>1, OneResult DEF Engine!TypeOK, UnderWay
  <2> QED
    BY <1>1, <1>5, <2>1, <2>2, <2>3 DEF OnlyMoves, Untouched, Engine!TypeOK
<1>6. CASE Engine!EndLoop(r)
  <2> USE DEF Engine!EndLoop
  <2>1. results[r] # <<>>
    <3>1. Engine!Remaining(r) = 0
      BY <1>6
    <3>2. Len(results[r]) # 0
      BY <1>1, <3>1
    <3> QED
      BY <3>2
  <2>2. Engine!TypeOK'
    <3>1. \/ events' = events /\ active' = active
          \/ /\ events' = [events EXCEPT ![r] = Append(@, "completed")]
             /\ active' = active \ {work[r]}
      BY <1>6
    <3>2. outcome' \in [Run -> Engine!WorkflowState \cup {"none"}]
      BY <1>1, <1>6 DEF Engine!TypeOK, Engine!WorkflowState
    <3>3. /\ events' \in [Run -> Seq({"started", "completed", "failed", "cancelled"})]
          /\ active' \subseteq Run
      <4> DEFINE Kind == {"started", "completed", "failed", "cancelled"}
      <4>1. events \in [Run -> Seq(Kind)] /\ active \subseteq Run /\ "completed" \in Kind
        BY <1>1 DEF Engine!TypeOK
      <4> HIDE DEF Kind
      <4>2. events' \in [Run -> Seq(Kind)] /\ active' \subseteq Run
        <5>1. CASE events' = events /\ active' = active
          BY <4>1, <5>1
        <5>2. CASE /\ events' = [events EXCEPT ![r] = Append(@, "completed")]
                   /\ active' = active \ {work[r]}
          <6>1. Append(events[r], "completed") \in Seq(Kind)
            BY <4>1, AppendProperties
          <6> QED
            BY <4>1, <5>2, <6>1
        <5> QED
          BY <3>1, <5>1, <5>2
      <4> QED
        BY <4>2 DEF Kind
    <3> QED
      BY <1>1, <1>6, <3>2, <3>3 DEF Engine!TypeOK
  <2>3. UnderWay(r)'
    BY <1>1, <1>6, <2>1, OneResult DEF Engine!TypeOK, UnderWay
  <2> QED
    BY <1>1, <1>6, <2>2, <2>3 DEF OnlyMoves, Untouched, Engine!TypeOK
<1> QED
  BY <1>2, <1>3, <1>4, <1>5, <1>6 DEF Proceeds

LEMMA CompleteEffect ==
    ASSUME Types, NEW r \in Run, UnderWay(r), Engine!CompleteStep(r)
    PROVE  OnlyMoves(r) /\ UnderWay(r)'
<1> USE DEF Engine!CompleteStep, Engine!Record, Engine!Goto
<1>1. Engine!TypeOK /\ work = [q \in Run |-> q]
  BY DEF Types
<1>2. results' = [results EXCEPT ![r] = <<"COMPLETED">>]
  BY OneResult DEF UnderWay
<1>3. Engine!TypeOK'
  BY <1>1, <1>2 DEF Engine!TypeOK, Engine!StepState
<1>4. UnderWay(r)'
  BY <1>1, <1>2 DEF Engine!TypeOK, UnderWay
<1> QED
  BY <1>1, <1>2, <1>3, <1>4 DEF OnlyMoves, Untouched, Engine!TypeOK

LEMMA ReturnEffect ==
    ASSUME Types, NEW r \in Run, UnderWay(r), Engine!Return(r)
    PROVE  /\ OnlyMoves(r)
           /\ pc'[r] = "returned" /\ results'[r] = results[r]
           /\ \E x \in DoneState : /\ results[r] = <<x>> /\ outcome[r] = x
                                   /\ x = "CANCELLED" => token[r]
<1> USE DEF Engine!Return, Engine!Goto
<1>1. Engine!TypeOK /\ work = [q \in Run |-> q]
  BY DEF Types
<1>2. Engine!TypeOK'
  BY <1>1 DEF Engine!TypeOK
<1>3. \E x \in DoneState : /\ results[r] = <<x>> /\ outcome[r] = x
                           /\ x = "CANCELLED" => token[r]
  BY DEF UnderWay, DoneState
<1> QED
  BY <1>1, <1>2, <1>3 DEF OnlyMoves, Untouched, Engine!TypeOK

-----------------------------------------------------------------------------
(* The initial state, and the calls that a step leaves alone.              *)

LEMMA InvInit == Init => IInv
<1> SUFFICES ASSUME Init PROVE IInv
  OBVIOUS
<1> USE DEF Init
<1>1. Engine!TypeOK /\ work = [r \in Run |-> r]
  BY DEF Engine!Init, Engine!TypeOK
<1>2. Types
  BY <1>1 DEF Types
<1>3. ASSUME NEW i \in Invocation PROVE CallInv(i)
  <2>1. composite[i] = None /\ Todo(i) = <<>> /\ reported[i] = <<>> /\ begun[i] = <<>>
    BY DEF Todo
  <2>2. place[i] = "idle" /\ busy = None /\ answer[i] = None
    OBVIOUS
  <2>3. ControlInv(i)
    BY <2>1, <2>2 DEF ControlInv
  <2>4. RunsInv(i)
    <3>1. \A m \in 1 .. MostSteps : Unused(<<i, m>>) /\ ~token[<<i, m>>]
      BY DEF Engine!Init, Unused, Run
    <3>2. 1 \in 1 .. MostSteps
      OBVIOUS
    <3> QED
      BY <2>1, <2>2, <3>1, <3>2 DEF RunsInv
  <2>5. DataInv(i)
    BY <2>1, <2>2 DEF DataInv, Nothing, AllDone, IdsUpTo
  <2>6. BoundInv(i)
    BY <2>1 DEF BoundInv
  <2>7. EndInv(i)
    <3>1. \A x \in Answer : answer[i] # x
      BY <2>2
    <3> QED
      BY <3>1 DEF EndInv, Answer
  <2> QED
    BY <2>3, <2>4, <2>5, <2>6, <2>7 DEF CallInv
<1> QED
  BY <1>2, <1>3 DEF IInv

\* What a call has is as before.
Same(j) ==
    /\ place'[j] = place[j] /\ composite'[j] = composite[j] /\ inputs'[j] = inputs[j]
    /\ values'[j] = values[j] /\ product'[j] = product[j] /\ reported'[j] = reported[j]
    /\ outputs'[j] = outputs[j] /\ answer'[j] = answer[j] /\ begun'[j] = begun[j]
    /\ \A m \in 1 .. MostSteps :
          Untouched(<<j, m>>) /\ (token'[<<j, m>>] <=> token[<<j, m>>])

OthersSame(i) == \A j \in Invocation \ {i} : Same(j)

\* How far a call has come is within the bound.
LEMMA Lengths ==
    ASSUME Types, NEW i \in Invocation, ControlInv(i)
    PROVE  /\ reported[i] \in Seq(DoneState) /\ begun[i] \in Seq(BegunStep)
           /\ Len(reported[i]) \in Nat /\ Len(begun[i]) \in Nat
           /\ Len(reported[i]) <= Len(begun[i]) /\ Len(begun[i]) <= MostSteps
           /\ Len(Todo(i)) \in Nat
<1>1. reported[i] \in Seq(DoneState) /\ begun[i] \in Seq(BegunStep)
  BY DEF Types
<1>2. Len(reported[i]) \in Nat /\ Len(begun[i]) \in Nat /\ Len(Todo(i)) \in Nat
  BY <1>1, TodoSteps, LenProperties
<1>3. Len(reported[i]) <= Len(begun[i])
  BY <1>2 DEF ControlInv
<1> QED
  BY <1>1, <1>2, <1>3, TodoSteps DEF ControlInv

LEMMA SameKeeps ==
    ASSUME Types, NEW j \in Invocation, CallInv(j), Same(j), busy' = j <=> busy = j
    PROVE  CallInv(j)'
<1>1. ControlInv(j) /\ RunsInv(j) /\ DataInv(j) /\ BoundInv(j) /\ EndInv(j)
  BY DEF CallInv
<1>2. Todo(j)' = Todo(j)
  BY DEF Same, Todo
<1>3. ControlInv(j)'
  BY <1>1, <1>2 DEF Same, ControlInv
<1>4. RunsInv(j)'
  <2>1. /\ Len(reported[j]) \in Nat /\ Len(begun[j]) \in Nat
        /\ Len(reported[j]) <= Len(begun[j]) /\ Len(begun[j]) <= MostSteps
    BY <1>1, Lengths
  <2>2. \A m \in 1 .. MostSteps : /\ Unused(<<j, m>>)' <=> Unused(<<j, m>>)
                                  /\ UnderWay(<<j, m>>)' <=> UnderWay(<<j, m>>)
    BY DEF Same, Unused, UnderWay, Untouched
  <2>3. /\ \A m \in 1 .. Len(reported[j]) : m \in 1 .. MostSteps
        /\ \A m \in Len(begun[j]) + 1 .. MostSteps : m \in 1 .. MostSteps
        /\ 1 \in 1 .. MostSteps
    BY <2>1
  <2>4. place[j] = "running" => Len(begun[j]) \in 1 .. MostSteps
    BY <1>1, <2>1 DEF ControlInv
  <2>5. \A m \in 1 .. Len(reported[j]) :
           pc'[<<j, m>>] = "returned" /\ results'[<<j, m>>] = <<reported[j][m]>>
    BY <1>1, <2>3 DEF RunsInv, Same, Untouched
  <2>6. \A m \in Len(begun[j]) + 1 .. MostSteps : Unused(<<j, m>>)'
    BY <1>1, <2>2, <2>3 DEF RunsInv
  <2>7. place[j] = "running" =>
           /\ UnderWay(<<j, Len(begun[j])>>)'
           /\ results'[<<j, Len(begun[j])>>] = <<"COMPLETED">> => product[j] # None
    BY <1>1, <2>2, <2>4 DEF RunsInv, Same, Untouched
  <2>8. \A m \in 1 .. MostSteps : token'[<<j, m>>] <=> token'[<<j, 1>>]
    BY <1>1, <2>3 DEF RunsInv, Same
  <2> QED
    BY <2>5, <2>6, <2>7, <2>8 DEF RunsInv, Same
<1>5. DataInv(j)'
  BY <1>1, <1>2 DEF DataInv, Same, AllDone
<1>6. BoundInv(j)'
  BY <1>1, <1>2 DEF BoundInv, Gets, Same
<1>7. EndInv(j)'
  <2>1. 1 \in 1 .. MostSteps
    OBVIOUS
  <2>2. token'[<<j, 1>>] <=> token[<<j, 1>>]
    BY <2>1 DEF Same
  <2>3. LastIs(j, "FAILED")' <=> LastIs(j, "FAILED")
    BY DEF Same, LastIs
  <2>4. LastIs(j, "CANCELLED")' <=> LastIs(j, "CANCELLED")
    BY DEF Same, LastIs
  <2>5. AllDone(j)' <=> AllDone(j)
    BY DEF Same, AllDone
  <2>6. Gets(j, composite[j].outputs, outputs[j], Len(reported[j]))' <=>
        Gets(j, composite[j].outputs, outputs[j], Len(reported[j]))
    BY <1>2 DEF Same, Gets
  <2> QED
    BY <1>1, <1>2, <2>2, <2>3, <2>4, <2>5, <2>6 DEF EndInv, Same
<1> QED
  BY <1>3, <1>4, <1>5, <1>6, <1>7 DEF CallInv

\* A step of call i has to be looked at for i only.
LEMMA OneCallMoves ==
    ASSUME IInv, NEW i \in Invocation, Types', CallInv(i)',
           OthersSame(i),
           busy \in {i, None}, busy' \in {i, None}
    PROVE  IInv' /\ OthersSame(i)
<1>1. ASSUME NEW j \in Invocation, j # i PROVE CallInv(j)'
  <2>1. busy' = j <=> busy = j
    BY <1>1
  <2> QED
    BY <1>1, <2>1, SameKeeps DEF IInv, OthersSame
<1> QED
  BY <1>1 DEF IInv

-----------------------------------------------------------------------------
(* Bindings.                                                               *)

LEMMA LeastNatural ==
    ASSUME NEW S \in SUBSET Nat, S # {}
    PROVE  \E n \in S : \A m \in S : n <= m
<1>1. PICK n \in S : \A m \in S : ~(<<m, n>> \in OpToRel(<, Nat))
  BY NatLessThanWellFounded, WFMin
<1>2. \A m \in S : ~(m < n)
  BY <1>1 DEF OpToRel
<1> QED
  BY <1>2

\* What FirstError returns is the error of a binding that has one.
LEMMA FirstIsAnError ==
    ASSUME NEW i, NEW bindings, DOMAIN bindings \subseteq Nat,
           NEW k \in DOMAIN bindings, BindingError(i, bindings[k]) # "none"
    PROVE  \E n \in DOMAIN bindings :
              /\ FirstError(i, bindings) = BindingError(i, bindings[n])
              /\ BindingError(i, bindings[n]) # "none"
<1> DEFINE wrong == {m \in DOMAIN bindings : BindingError(i, bindings[m]) # "none"}
           first == CHOOSE n \in wrong : \A m \in wrong : n <= m
<1>1. wrong # {}
  OBVIOUS
<1>2. FirstError(i, bindings) = BindingError(i, bindings[first])
  BY <1>1 DEF FirstError
<1>3. first \in wrong
  <2>1. \E n \in wrong : \A m \in wrong : n <= m
    BY <1>1, LeastNatural
  <2> QED
    BY <2>1
<1> QED
  BY <1>2, <1>3

LEMMA NoErrorResolves ==
    ASSUME NEW i, NEW bindings, DOMAIN bindings \subseteq Nat,
           FirstError(i, bindings) = "none"
    PROVE  \A n \in DOMAIN bindings : bindings[n].id \in DOMAIN Sources(i, bindings[n])
<1>1. \A n \in DOMAIN bindings : BindingError(i, bindings[n]) = "none"
  BY FirstIsAnError
<1> QED
  BY <1>1 DEF BindingError

LEMMA ErrorIsOfBinding ==
    ASSUME NEW i, NEW bindings, DOMAIN bindings \subseteq Nat,
           FirstError(i, bindings) # "none"
    PROVE  /\ FirstError(i, bindings) \in {"unavailable", "mismatch"}
           /\ FirstError(i, bindings) = "unavailable" =>
                 \E n \in DOMAIN bindings :
                    bindings[n].id \notin DOMAIN Sources(i, bindings[n])
<1>1. \E k \in DOMAIN bindings : BindingError(i, bindings[k]) # "none"
  BY DEF FirstError
<1>2. PICK n \in DOMAIN bindings : /\ FirstError(i, bindings) = BindingError(i, bindings[n])
                                   /\ BindingError(i, bindings[n]) # "none"
  BY <1>1, FirstIsAnError
<1>3. /\ BindingError(i, bindings[n]) \in {"unavailable", "mismatch"}
      /\ BindingError(i, bindings[n]) = "unavailable" =>
            bindings[n].id \notin DOMAIN Sources(i, bindings[n])
  BY <1>2 DEF BindingError
<1> QED
  BY <1>2, <1>3

\* A source that is there has the name it is looked up by.
LEMMA SourceIsNamed ==
    ASSUME NEW i \in Invocation, DataInv(i), NEW b \in Binding, b.id \in DOMAIN Sources(i, b)
    PROVE  Sources(i, b)[b.id].from = <<i, b.id>>
  BY DEF DataInv, Sources

\* Bindings that resolve get what they name. The inputs they name have been
\* declared, since the definition was validated.
LEMMA ResolvedIsDelivered ==
    ASSUME Types, NEW i \in Invocation, CallInv(i), place[i] = "between",
           NEW bindings \in Seq(Binding),
           \A k \in DOMAIN bindings :
              bindings[k].source = "input" => bindings[k].id \in composite[i].inputs,
           FirstError(i, bindings) = "none"
    PROVE  /\ Resolve(i, bindings) \in Seq(Origin)
           /\ Gets(i, bindings, Resolve(i, bindings), Len(reported[i]))
<1>1. DOMAIN bindings = 1 .. Len(bindings) /\ Len(bindings) \in Nat
  OBVIOUS
<1>2. DataInv(i) /\ ControlInv(i) /\ Len(reported[i]) \in Nat
  BY Lengths DEF CallInv
<1>3. ASSUME NEW k \in DOMAIN bindings
      PROVE  /\ bindings[k] \in Binding
             /\ Resolve(i, bindings)[k] = <<i, bindings[k].id>>
             /\ bindings[k].id \in DOMAIN Sources(i, bindings[k])
  <2>1. bindings[k] \in Binding
    BY <1>1, ElementOfSeq
  <2>2. bindings[k].id \in DOMAIN Sources(i, bindings[k])
    BY <1>1, NoErrorResolves
  <2>3. Resolve(i, bindings)[k] = Sources(i, bindings[k])[bindings[k].id].from
    BY DEF Resolve
  <2> QED
    BY <1>2, <2>1, <2>2, <2>3, SourceIsNamed
<1>4. /\ DOMAIN Resolve(i, bindings) = 1 .. Len(bindings)
      /\ \A k \in 1 .. Len(bindings) : Resolve(i, bindings)[k] \in Origin
  <2>1. \A k \in DOMAIN bindings : bindings[k].id \in STRING
    BY <1>3 DEF Binding
  <2>2. DOMAIN Resolve(i, bindings) = 1 .. Len(bindings)
    BY <1>1 DEF Resolve
  <2>3. \A k \in DOMAIN bindings : <<i, bindings[k].id>> \in Origin
    BY <2>1 DEF Origin
  <2> QED
    BY <1>1, <1>3, <2>2, <2>3
<1>5. Resolve(i, bindings) \in Seq(Origin) /\ Len(Resolve(i, bindings)) = Len(bindings)
  <2>1. Resolve(i, bindings) \in [1 .. Len(bindings) -> Origin]
    BY <1>4 DEF Resolve
  <2> QED
    BY <1>1, <2>1, SeqDef
<1>6. ASSUME NEW k \in DOMAIN bindings, bindings[k].source # "input"
      PROVE  \E m \in 1 .. Len(reported[i]) :
                /\ m <= Len(reported[i])
                /\ reported[i][m] = "COMPLETED"
                /\ Todo(i)[m].id = bindings[k].id
  <2>1. bindings[k].id \in DOMAIN values[i]
    BY <1>3, <1>6 DEF Sources
  <2>2. bindings[k].id \in IdsUpTo(Todo(i), Len(reported[i])) /\ AllDone(i)
    BY <1>2, <2>1 DEF DataInv
  <2>3. PICK m \in 1 .. Len(reported[i]) : bindings[k].id = Todo(i)[m].id
    BY <2>2 DEF IdsUpTo
  <2> QED
    BY <1>2, <2>2, <2>3 DEF AllDone
<1> QED
  BY <1>3, <1>5, <1>6 DEF Gets

\* A binding of the step at which a call is that names nothing there is names
\* the step itself.
LEMMA OnlySelfIsMissing ==
    ASSUME Types, NEW i \in Invocation, CallInv(i), place[i] = "between",
           Len(reported[i]) < Len(Todo(i)),
           NEW k \in DOMAIN Todo(i)[Len(reported[i]) + 1].bindings,
           LET b == Todo(i)[Len(reported[i]) + 1].bindings[k] IN b.id \notin DOMAIN Sources(i, b)
    PROVE  LET b == Todo(i)[Len(reported[i]) + 1].bindings[k]
           IN  b.source = "step" /\ b.id = Todo(i)[Len(reported[i]) + 1].id
<1> DEFINE n == Len(reported[i]) + 1
           b == Todo(i)[n].bindings[k]
<1>1. DataInv(i) /\ ControlInv(i) /\ Len(reported[i]) \in Nat /\ Len(Todo(i)) \in Nat
  BY Lengths DEF CallInv
<1>2. composite[i] \in Valid /\ Todo(i) = composite[i].steps /\ n \in 1 .. Len(Todo(i))
  BY <1>1, TodoSteps DEF ControlInv
<1>3. b \in Binding
  <2>1. Todo(i)[n].bindings \in Seq(Binding)
    BY <1>2, TodoSteps, StepFields
  <2> QED
    BY <2>1, ElementOfSeq
<1>4. /\ b.source = "input" => b.id \in composite[i].inputs
      /\ b.source # "input" => \E m \in 1 .. n : b.id = Todo(i)[m].id
  BY <1>2, ValidReferences
<1>5. b.source # "input"
  <2>1. composite[i].inputs \subseteq DOMAIN inputs[i]
    BY <1>1, <1>2, ValidDefinition DEF DataInv
  <2> QED
    BY <1>4, <2>1 DEF Sources
<1>6. b.id \notin IdsUpTo(Todo(i), Len(reported[i]))
  BY <1>1, <1>5 DEF Sources, DataInv
<1>7. b.id = Todo(i)[n].id
  <2>1. PICK m \in 1 .. n : b.id = Todo(i)[m].id
    BY <1>4, <1>5
  <2>2. m \notin 1 .. Len(reported[i])
    BY <1>6, <2>1 DEF IdsUpTo
  <2>3. m = n
    BY <1>1, <2>2
  <2> QED
    BY <2>1, <2>3
<1> QED
  BY <1>3, <1>5, <1>7 DEF Binding

-----------------------------------------------------------------------------
(* The registry, cancellation, and how a call begins and ends.             *)

LEMMA NothingToldYet ==
    ASSUME NEW i, answer[i] = None
    PROVE  EndInv(i)
<1>1. \A x \in Answer : answer[i] # x
  OBVIOUS
<1> QED
  BY <1>1 DEF EndInv, Answer

LEMMA StepRegistry ==
    ASSUME IInv,
           \/ \E c \in CapabilityId : Unregister(c)
           \/ \E c \in CapabilityId, d \in Definition, overwrite \in BOOLEAN :
                 Register(c, d, overwrite)
    PROVE  IInv'
<1>1. UNCHANGED <<callVars, engineVars>>
  BY DEF Register, Unregister
<1>2. registry' \in [CapabilityId -> Valid \cup {None}]
  BY DEF Register, Unregister, IInv, Types, Valid
<1>3. Types'
  BY <1>1, <1>2 DEF IInv, Types, callVars, engineVars, Engine!TypeOK
<1>4. ASSUME NEW j \in Invocation PROVE CallInv(j)'
  <2>1. Same(j) /\ (busy' = j <=> busy = j)
    BY <1>1 DEF Same, Untouched, callVars, engineVars
  <2> QED
    BY <2>1, SameKeeps DEF IInv
<1> QED
  BY <1>3, <1>4 DEF IInv

LEMMA StepCancel == ASSUME IInv, NEW i \in Invocation, Cancel(i) PROVE IInv' /\ OthersSame(i)
<1>1. Types /\ CallInv(i) /\ place[i] # "ended"
  BY DEF IInv, Cancel
<1>2. /\ UNCHANGED <<registry, callVars, work, pc, results, failed, outcome, events, active>>
      /\ token' = [r \in Run |-> token[r] \/ r[1] = i]
  BY DEF Cancel
<1>3. token' \in [Run -> BOOLEAN]
  BY <1>2
<1>4. Types'
  BY <1>1, <1>2, <1>3 DEF Types, callVars, Engine!TypeOK
<1>5. OthersSame(i)
  <2>1. \A j \in Invocation \ {i}, m \in 1 .. MostSteps : token'[<<j, m>>] <=> token[<<j, m>>]
    BY <1>2 DEF Run
  <2> QED
    BY <1>2, <2>1 DEF OthersSame, Same, Untouched, callVars
<1>6. \A m \in 1 .. MostSteps : token'[<<i, m>>]
  BY <1>2 DEF Run
<1>7. Todo(i)' = Todo(i)
  BY <1>2 DEF Todo, callVars
<1>8. CallInv(i)'
  <2>1. ControlInv(i)'
    BY <1>1, <1>2, <1>7 DEF CallInv, ControlInv, callVars
  <2>2. RunsInv(i)'
    <3>1. 1 \in 1 .. MostSteps
      OBVIOUS
    <3>2. \A r : Unused(r)' <=> Unused(r)
      BY <1>2 DEF Unused
    <3>3. place[i] = "running" => UnderWay(<<i, Len(begun[i])>>)'
      <4>1. SUFFICES ASSUME place[i] = "running" PROVE UnderWay(<<i, Len(begun[i])>>)'
        OBVIOUS
      <4>2. Len(begun[i]) \in 1 .. MostSteps
        BY <1>1, <4>1, Lengths DEF CallInv, ControlInv
      <4>3. begun' = begun /\ token'[<<i, Len(begun[i])>>]
        BY <1>2, <1>6, <4>2 DEF callVars
      <4>4. UnderWay(<<i, Len(begun[i])>>)
        BY <1>1, <4>1 DEF CallInv, RunsInv
      <4> QED
        BY <1>2, <4>3, <4>4 DEF UnderWay
    <3> QED
      BY <1>1, <1>2, <1>6, <3>1, <3>2, <3>3 DEF CallInv, RunsInv, callVars
  <2>3. DataInv(i)'
    BY <1>1, <1>2, <1>7 DEF CallInv, DataInv, AllDone, callVars
  <2>4. BoundInv(i)'
    BY <1>1, <1>2, <1>7 DEF CallInv, BoundInv, Gets, callVars
  <2>5. EndInv(i)'
    <3>1. answer[i] = None
      BY <1>1 DEF CallInv, ControlInv
    <3> QED
      BY <1>2, <3>1, NothingToldYet DEF EndInv, callVars, Answer
  <2> QED
    BY <2>1, <2>2, <2>3, <2>4, <2>5 DEF CallInv
<1>9. busy = None /\ busy' = None
  BY <1>2 DEF Cancel, callVars
<1> QED
  BY <1>4, <1>5, <1>8, <1>9, OneCallMoves

\* A call ends where no step of it is under way.
LEMMA EndKeeps ==
    ASSUME IInv, NEW i \in Invocation, NEW x \in Answer, End(i, x),
           place[i] \in {"idle", "between"}, busy \in {i, None},
           UNCHANGED <<registry, composite, inputs, values, product, reported, begun, engineVars>>,
           outputs' \in [Invocation -> Seq(Origin)],
           \A j \in Invocation \ {i} : outputs'[j] = outputs[j],
           EndInv(i)'
    PROVE  IInv' /\ OthersSame(i)
<1> USE DEF End
<1>1. Types /\ CallInv(i)
  BY DEF IInv
<1>2. /\ place' = [place EXCEPT ![i] = "ended"] /\ answer' = [answer EXCEPT ![i] = x]
      /\ busy' = None
      /\ composite' = composite /\ inputs' = inputs /\ values' = values /\ product' = product
      /\ reported' = reported /\ begun' = begun /\ work' = work /\ pc' = pc
      /\ results' = results /\ failed' = failed /\ token' = token /\ outcome' = outcome
      /\ events' = events /\ active' = active /\ registry' = registry
  BY DEF engineVars
<1>3. Types'
  BY <1>1, <1>2 DEF Types, Engine!TypeOK
<1>4. OthersSame(i)
  BY <1>1, <1>2 DEF OthersSame, Same, Untouched, Types
<1>5. place'[i] = "ended" /\ answer'[i] = x /\ Todo(i)' = Todo(i) /\ x # None /\ busy' # i
  BY <1>1, <1>2 DEF Types, Todo
<1>6. ControlInv(i)'
  BY <1>1, <1>2, <1>5 DEF CallInv, ControlInv
<1>7. RunsInv(i)'
  BY <1>1, <1>2, <1>5 DEF CallInv, RunsInv, Unused
<1>8. DataInv(i)' /\ BoundInv(i)'
  BY <1>1, <1>2, <1>5 DEF CallInv, DataInv, BoundInv, Gets
<1> QED
  BY <1>2, <1>3, <1>4, <1>6, <1>7, <1>8, OneCallMoves DEF CallInv

\* The calls that never get under way.
LEMMA NeverUnderWay ==
    ASSUME IInv, NEW i \in Invocation, NEW x \in {"not found", "missing input"}, End(i, x),
           place[i] = "idle", busy = None,
           UNCHANGED <<registry, composite, inputs, values, product, reported, outputs,
                       begun, engineVars>>
    PROVE  IInv' /\ OthersSame(i)
<1>1. Types /\ CallInv(i)
  BY DEF IInv
<1>2. x \in Answer /\ outputs' \in [Invocation -> Seq(Origin)]
  BY <1>1 DEF Answer, Types
<1>3. reported'[i] = <<>>
  <2>1. Len(reported[i]) = 0 /\ reported[i] \in Seq(DoneState)
    BY <1>1 DEF CallInv, ControlInv, Types
  <2> QED
    BY <2>1, EmptySeq
<1>4. EndInv(i)'
  <2>1. answer'[i] = x
    BY <1>1 DEF End, Types
  <2> QED
    BY <1>3, <2>1 DEF EndInv
<1> QED
  BY <1>2, <1>4, EndKeeps

LEMMA StepUnknown ==
    ASSUME IInv, NEW i \in Invocation, NEW c \in CapabilityId, InvokeUnknown(i, c)
    PROVE  IInv' /\ OthersSame(i)
  BY NeverUnderWay DEF InvokeUnknown

LEMMA StepWithout ==
    ASSUME IInv, NEW i \in Invocation, NEW c \in CapabilityId, NEW given \in Offer,
           InvokeWithout(i, c, given)
    PROVE  IInv' /\ OthersSame(i)
  BY NeverUnderWay DEF InvokeWithout

LEMMA StepInvoke ==
    ASSUME IInv, NEW i \in Invocation, NEW c \in CapabilityId, NEW given \in Offer,
           Invoke(i, c, given)
    PROVE  IInv' /\ OthersSame(i)
<1> DEFINE offered == [n \in DOMAIN given |-> [from |-> <<i, n>>, keys |-> given[n]]]
<1>1. Types /\ CallInv(i)
  BY DEF IInv
<1>2. /\ place[i] = "idle" /\ busy = None /\ registry[c] # None
      /\ registry[c].inputs \subseteq DOMAIN given
      /\ composite' = [composite EXCEPT ![i] = registry[c]]
      /\ inputs' = [inputs EXCEPT ![i] = offered]
      /\ place' = [place EXCEPT ![i] = "between"]
      /\ busy' = i
      /\ registry' = registry /\ values' = values /\ product' = product
      /\ reported' = reported /\ outputs' = outputs /\ answer' = answer /\ begun' = begun
      /\ work' = work /\ pc' = pc
      /\ results' = results /\ failed' = failed /\ token' = token /\ outcome' = outcome
      /\ events' = events /\ active' = active
  BY DEF Invoke, engineVars
<1>3. /\ composite'[i] = registry[c] /\ registry[c] \in Valid /\ registry[c] # None
      /\ inputs'[i] = offered /\ place'[i] = "between"
  BY <1>1, <1>2 DEF Types
<1>4. Types'
  BY <1>1, <1>2, <1>3 DEF Types, Engine!TypeOK
<1>5. OthersSame(i)
  BY <1>1, <1>2 DEF OthersSame, Same, Untouched, Types
<1>6. /\ reported[i] = <<>> /\ begun[i] = <<>> /\ answer[i] = None
      /\ Len(reported[i]) = 0 /\ Len(begun[i]) = 0
  <2>1. /\ Len(reported[i]) = 0 /\ reported[i] \in Seq(DoneState)
        /\ begun[i] = <<>> /\ answer[i] = None
    BY <1>1, <1>2 DEF CallInv, ControlInv, Types
  <2> QED
    BY <2>1, EmptySeq
<1>7. Len(Todo(i)') \in Nat
  BY <1>3, ValidDefinition, LenProperties DEF Todo
<1>8. ControlInv(i)'
  <2>1. /\ place'[i] = "between" /\ busy' = i /\ answer'[i] = None /\ composite'[i] # None
        /\ begun'[i] = <<>> /\ reported'[i] = <<>>
    BY <1>2, <1>3, <1>6
  <2> QED
    BY <1>7, <2>1 DEF ControlInv
<1>9. RunsInv(i)'
  BY <1>1, <1>2, <1>3 DEF CallInv, RunsInv, Unused
<1>10. DataInv(i)'
  <2>1. \A x \in DOMAIN offered : offered[x] \in Sourced /\ offered[x].from = <<i, x>>
    <3>1. DOMAIN given \subseteq STRING /\ \A x \in DOMAIN given : given[x] \in Value
      BY DEF Range
    <3> QED
      BY <3>1 DEF Sourced
  <2>2. composite'[i].inputs \subseteq DOMAIN offered
    BY <1>2, <1>3
  <2>3. DOMAIN values[i] = {}
    <3>1. DOMAIN values[i] = IdsUpTo(Todo(i), 0)
      BY <1>1, <1>2, <1>6 DEF CallInv, DataInv
    <3> QED
      BY <3>1 DEF IdsUpTo
  <2>4. AllDone(i)' /\ IdsUpTo(Todo(i)', 0) = {}
    BY <1>2, <1>6 DEF AllDone, IdsUpTo
  <2> QED
    BY <1>2, <1>3, <1>6, <2>1, <2>2, <2>3, <2>4 DEF DataInv
<1>11. BoundInv(i)'
  BY <1>2, <1>6 DEF BoundInv
<1>12. EndInv(i)'
  <2>1. \A x \in Answer : answer'[i] # x
    BY <1>2, <1>6
  <2> QED
    BY <2>1 DEF EndInv, Answer
<1> QED
  BY <1>2, <1>4, <1>5, <1>8, <1>9, <1>10, <1>11, <1>12, OneCallMoves DEF CallInv

-----------------------------------------------------------------------------
(* What a call does between two steps.                                     *)

LEMMA BetweenSteps ==
    ASSUME IInv, NEW i \in Invocation, busy = i
    PROVE  /\ Types /\ CallInv(i) /\ place[i] = "between" /\ answer[i] = None
           /\ composite[i] \in Valid /\ composite[i] # None
           /\ Todo(i) = StepsOf(i) /\ Todo(i) \in Seq(CompositeStep)
           /\ Len(begun[i]) = Len(reported[i]) /\ AllDone(i)
           /\ Len(reported[i]) \in Nat /\ Len(Todo(i)) \in Nat
           /\ Len(reported[i]) <= Len(Todo(i)) /\ Len(Todo(i)) <= MostSteps
           /\ AtStep(i) <= Len(StepsOf(i)) => AtStep(i) \in 1 .. Len(Todo(i))
           /\ Under(i) = <<i, Len(reported[i]) + 1>>
<1>1. Types /\ CallInv(i) /\ ControlInv(i) /\ DataInv(i)
  BY DEF IInv, CallInv
<1>2. place[i] = "between" /\ answer[i] = None /\ composite[i] # None
  BY <1>1 DEF ControlInv
<1>3. composite[i] \in Valid /\ Todo(i) = StepsOf(i) /\ Todo(i) \in Seq(CompositeStep)
  BY <1>1, <1>2, TodoSteps DEF StepsOf, Current
<1>4. Len(begun[i]) = Len(reported[i]) /\ AllDone(i) /\ Len(begun[i]) <= Len(Todo(i))
  BY <1>1, <1>2 DEF ControlInv, DataInv
<1> QED
  BY <1>1, <1>2, <1>3, <1>4, Lengths, TodoSteps DEF AtStep, Under

LEMMA StepStopBetween == ASSUME IInv, NEW i \in Invocation, StopBetween(i) PROVE IInv' /\ OthersSame(i)
<1>1. /\ busy = i /\ End(i, "CANCELLED") /\ token[<<i, 1>>]
      /\ UNCHANGED <<registry, composite, inputs, values, product, reported, outputs,
                     begun, engineVars>>
  BY DEF StopBetween, IsCancelled
<1>2. /\ Types /\ place[i] = "between" /\ AllDone(i)
      /\ Len(reported[i]) < Len(Todo(i))
  BY <1>1, BetweenSteps DEF StopBetween, AtStep
<1>3. "CANCELLED" \in Answer /\ outputs' \in [Invocation -> Seq(Origin)]
  BY <1>1, <1>2 DEF Answer, Types
<1>4. answer'[i] = "CANCELLED" /\ token' = token /\ Todo(i)' = Todo(i) /\ AllDone(i)'
  BY <1>1, <1>2 DEF End, Types, engineVars, Todo, AllDone
<1>5. EndInv(i)'
  BY <1>1, <1>2, <1>4 DEF EndInv
<1> QED
  BY <1>1, <1>2, <1>3, <1>5, EndKeeps

LEMMA StepBindingFailure == ASSUME IInv, NEW i \in Invocation, StepBindingFails(i) PROVE IInv' /\ OthersSame(i)
<1> DEFINE bindings == StepsOf(i)[AtStep(i)].bindings
           error == FirstError(i, bindings)
<1>1. /\ busy = i /\ End(i, error) /\ error # "none" /\ AtStep(i) <= Len(StepsOf(i))
      /\ UNCHANGED <<registry, composite, inputs, values, product, reported, outputs,
                     begun, engineVars>>
  BY DEF StepBindingFails
<1>2. /\ Types /\ CallInv(i) /\ place[i] = "between" /\ AllDone(i)
      /\ Len(reported[i]) < Len(Todo(i)) /\ composite[i] # None
      /\ Todo(i) = StepsOf(i) /\ AtStep(i) \in 1 .. Len(Todo(i))
      /\ Todo(i) \in Seq(CompositeStep)
  BY <1>1, BetweenSteps DEF AtStep
<1>3. bindings \in Seq(Binding) /\ DOMAIN bindings \subseteq Nat
  BY <1>2, StepFields
<1>4. /\ error \in {"unavailable", "mismatch"}
      /\ error = "unavailable" =>
            \E n \in DOMAIN bindings : bindings[n].id \notin DOMAIN Sources(i, bindings[n])
  <2> HIDE DEF bindings
  <2> QED
    BY <1>1, <1>3, ErrorIsOfBinding
<1>5. error \in Answer /\ outputs' \in [Invocation -> Seq(Origin)]
  BY <1>1, <1>2, <1>4 DEF Answer, Types
<1>6. /\ answer'[i] = error /\ Todo(i)' = Todo(i) /\ AllDone(i)'
      /\ composite'[i] # None /\ reported' = reported
  BY <1>1, <1>2 DEF End, Types, Todo, AllDone
<1>7. error = "unavailable" =>
         \E b \in Range(Todo(i)[Len(reported[i]) + 1].bindings) :
            b.source = "step" /\ b.id = Todo(i)[Len(reported[i]) + 1].id
  <2>1. SUFFICES ASSUME error = "unavailable"
                 PROVE  \E b \in Range(Todo(i)[Len(reported[i]) + 1].bindings) :
                           b.source = "step" /\ b.id = Todo(i)[Len(reported[i]) + 1].id
    OBVIOUS
  <2>2. bindings = Todo(i)[Len(reported[i]) + 1].bindings
    BY <1>2 DEF AtStep
  <2>3. PICK k \in DOMAIN Todo(i)[Len(reported[i]) + 1].bindings :
              LET b == Todo(i)[Len(reported[i]) + 1].bindings[k]
              IN  b.id \notin DOMAIN Sources(i, b)
    BY <1>4, <2>1, <2>2
  <2>4. LET b == Todo(i)[Len(reported[i]) + 1].bindings[k]
        IN  b.source = "step" /\ b.id = Todo(i)[Len(reported[i]) + 1].id
    BY <1>2, <2>3, OnlySelfIsMissing
  <2> QED
    BY <2>4 DEF Range
<1>8. EndInv(i)'
  <2> HIDE DEF error
  <2>1. answer'[i] # "COMPLETED" /\ answer'[i] # "FAILED" /\ answer'[i] # "CANCELLED"
        /\ answer'[i] \notin {"not found", "missing input"}
    BY <1>4, <1>6
  <2> QED
    BY <1>2, <1>6, <1>7, <2>1 DEF EndInv
<1> QED
  BY <1>1, <1>2, <1>5, <1>8, EndKeeps

LEMMA StepFinish == ASSUME IInv, NEW i \in Invocation, Finish(i) PROVE IInv' /\ OthersSame(i)
<1> DEFINE bindings == composite[i].outputs
<1>1. /\ busy = i /\ End(i, "COMPLETED") /\ FirstError(i, bindings) = "none"
      /\ AtStep(i) > Len(StepsOf(i))
      /\ outputs' = [outputs EXCEPT ![i] = Resolve(i, bindings)]
      /\ UNCHANGED <<registry, composite, inputs, values, product, reported,
                     begun, engineVars>>
  BY DEF Finish, Current
<1>2. /\ Types /\ CallInv(i) /\ place[i] = "between" /\ AllDone(i)
      /\ Len(reported[i]) = Len(Todo(i)) /\ composite[i] # None /\ composite[i] \in Valid
  BY <1>1, BetweenSteps DEF AtStep
<1>3. /\ bindings \in Seq(Binding)
      /\ \A k \in DOMAIN bindings :
            bindings[k].source = "input" => bindings[k].id \in composite[i].inputs
  BY <1>2, ValidDefinition, ValidReferences
<1>4. /\ Resolve(i, bindings) \in Seq(Origin)
      /\ Gets(i, bindings, Resolve(i, bindings), Len(reported[i]))
  <2> HIDE DEF bindings
  <2> QED
    BY <1>1, <1>2, <1>3, ResolvedIsDelivered
<1>5. "COMPLETED" \in Answer /\ outputs' \in [Invocation -> Seq(Origin)]
  BY <1>1, <1>2, <1>4 DEF Answer, Types
<1>6. /\ answer'[i] = "COMPLETED" /\ Todo(i)' = Todo(i) /\ AllDone(i)'
      /\ composite' = composite /\ reported' = reported
      /\ outputs'[i] = Resolve(i, bindings)
  BY <1>1, <1>2 DEF End, Types, Todo, AllDone
<1>7. Gets(i, composite[i].outputs, outputs[i], Len(reported[i]))'
  BY <1>4, <1>6 DEF Gets
<1>8. EndInv(i)'
  BY <1>2, <1>6, <1>7 DEF EndInv
<1>9. \A j \in Invocation \ {i} : outputs'[j] = outputs[j]
  BY <1>1, <1>2 DEF Types
<1> QED
  BY <1>1, <1>2, <1>5, <1>8, <1>9, EndKeeps

\* Every step has been done, and so an output cannot be missing.
LEMMA StepOutputFailure == ASSUME IInv, NEW i \in Invocation, OutputBindingFails(i) PROVE IInv' /\ OthersSame(i)
<1> DEFINE bindings == composite[i].outputs
           error == FirstError(i, bindings)
<1>1. /\ busy = i /\ End(i, error) /\ error # "none" /\ AtStep(i) > Len(StepsOf(i))
      /\ UNCHANGED <<registry, composite, inputs, values, product, reported, outputs,
                     begun, engineVars>>
  BY DEF OutputBindingFails, Current
<1>2. /\ Types /\ CallInv(i) /\ place[i] = "between" /\ AllDone(i)
      /\ Len(reported[i]) = Len(Todo(i)) /\ composite[i] # None /\ composite[i] \in Valid
      /\ Todo(i) = composite[i].steps
  BY <1>1, BetweenSteps, TodoSteps DEF AtStep
<1>3. bindings \in Seq(Binding) /\ DOMAIN bindings \subseteq Nat
  BY <1>2, ValidDefinition
<1>4. \A k \in DOMAIN bindings : bindings[k].id \in DOMAIN Sources(i, bindings[k])
  <2>1. SUFFICES ASSUME NEW k \in DOMAIN bindings
                 PROVE  bindings[k].id \in DOMAIN Sources(i, bindings[k])
    OBVIOUS
  <2>2. /\ bindings[k].source = "input" => bindings[k].id \in composite[i].inputs
        /\ bindings[k].source # "input" =>
              \E m \in 1 .. Len(Todo(i)) : bindings[k].id = Todo(i)[m].id
    BY <1>2, ValidReferences
  <2>3. /\ composite[i].inputs \subseteq DOMAIN inputs[i]
        /\ DOMAIN values[i] = IdsUpTo(Todo(i), Len(Todo(i)))
    BY <1>2 DEF CallInv, DataInv
  <2> QED
    BY <2>2, <2>3 DEF Sources, IdsUpTo
<1>5. error = "mismatch"
  <2> HIDE DEF bindings
  <2> QED
    BY <1>1, <1>3, <1>4, ErrorIsOfBinding
<1>6. error \in Answer /\ outputs' \in [Invocation -> Seq(Origin)]
  BY <1>1, <1>2, <1>5 DEF Answer, Types
<1>7. answer'[i] = "mismatch" /\ AllDone(i)'
  BY <1>1, <1>2, <1>5 DEF End, Types, AllDone
<1>8. EndInv(i)'
  BY <1>7 DEF EndInv
<1> QED
  BY <1>1, <1>2, <1>6, <1>8, EndKeeps

-----------------------------------------------------------------------------
(* A step of the call, from its beginning to its end.                      *)

LEMMA Longer ==
    ASSUME NEW S, NEW s \in Seq(S), NEW x \in S
    PROVE  /\ Append(s, x) \in Seq(S)
           /\ Len(s) \in Nat /\ Len(Append(s, x)) = Len(s) + 1
           /\ \A m \in 1 .. Len(s) : Append(s, x)[m] = s[m]
           /\ Append(s, x)[Len(s) + 1] = x
  OBVIOUS

\* What moves one workflow of call i leaves the others alone.
LEMMA OtherWorkflows ==
    ASSUME NEW i \in Invocation, NEW n \in 1 .. MostSteps, OnlyMoves(<<i, n>>)
    PROVE  /\ \A m \in 1 .. MostSteps : m # n => Untouched(<<i, m>>)
           /\ \A j \in Invocation \ {i}, m \in 1 .. MostSteps : Untouched(<<j, m>>)
           /\ token' = token
<1>1. \A j \in Invocation, m \in 1 .. MostSteps : <<j, m>> \in Run
  BY DEF Run
<1> QED
  BY <1>1 DEF OnlyMoves

LEMMA StepStart == ASSUME IInv, NEW i \in Invocation, StartStep(i) PROVE IInv' /\ OthersSame(i)
<1> DEFINE n == Len(reported[i]) + 1
           step == Todo(i)[n]
           got == Resolve(i, step.bindings)
           next == [step |-> step, got |-> got]
<1>1. busy = i /\ AtStep(i) <= Len(StepsOf(i))
  BY DEF StartStep
<1>2. /\ Types /\ CallInv(i) /\ place[i] = "between" /\ answer[i] = None
      /\ composite[i] # None /\ composite[i] \in Valid /\ Todo(i) = composite[i].steps
      /\ Todo(i) = StepsOf(i) /\ Todo(i) \in Seq(CompositeStep)
      /\ Len(begun[i]) = Len(reported[i]) /\ AllDone(i) /\ Len(reported[i]) \in Nat
      /\ AtStep(i) = n /\ n \in 1 .. Len(Todo(i)) /\ n \in 1 .. MostSteps
      /\ Under(i) = <<i, n>>
  BY <1>1, BetweenSteps, TodoSteps DEF AtStep
<1>3. /\ Engine!Begin(<<i, n>>) /\ FirstError(i, step.bindings) = "none"
      /\ begun' = [begun EXCEPT ![i] = Append(begun[i], next)]
      /\ place' = [place EXCEPT ![i] = "running"] /\ busy' = None
      /\ registry' = registry /\ composite' = composite /\ inputs' = inputs
      /\ values' = values /\ product' = product /\ reported' = reported
      /\ outputs' = outputs /\ answer' = answer
  BY <1>2 DEF StartStep
<1>4. <<i, n>> \in Run /\ Unused(<<i, n>>)
  BY <1>2 DEF Run, CallInv, RunsInv
<1>5. OnlyMoves(<<i, n>>) /\ UnderWay(<<i, n>>)' /\ results'[<<i, n>>] = <<>>
  BY <1>2, <1>3, <1>4, BeginEffect
<1>6. step.bindings \in Seq(Binding) /\ step \in CompositeStep
  BY <1>2, StepFields
<1>7. got \in Seq(Origin) /\ Gets(i, step.bindings, got, Len(reported[i]))
  <2>1. \A k \in DOMAIN step.bindings :
           step.bindings[k].source = "input" => step.bindings[k].id \in composite[i].inputs
    BY <1>2, ValidReferences
  <2> HIDE DEF step
  <2> QED
    BY <1>2, <1>3, <1>6, <2>1, ResolvedIsDelivered
<1>8. next \in BegunStep
  BY <1>6, <1>7 DEF BegunStep
<1>9. /\ Append(begun[i], next) \in Seq(BegunStep)
      /\ Len(Append(begun[i], next)) = n
      /\ \A m \in 1 .. Len(begun[i]) : Append(begun[i], next)[m] = begun[i][m]
      /\ Append(begun[i], next)[n] = next
  <2>1. begun[i] \in Seq(BegunStep)
    BY <1>2 DEF Types
  <2> HIDE DEF next, n
  <2> QED
    BY <1>2, <1>8, <2>1, Longer DEF n
<1>10. begun' \in [Invocation -> Seq(BegunStep)] /\ begun'[i] = Append(begun[i], next)
  BY <1>2, <1>3, <1>9 DEF Types
<1>11. Types'
  BY <1>2, <1>3, <1>5, <1>10 DEF Types, OnlyMoves
<1>12. OthersSame(i)
  <2>1. \A j \in Invocation \ {i}, m \in 1 .. MostSteps :
           Untouched(<<j, m>>) /\ (token'[<<j, m>>] <=> token[<<j, m>>])
    BY <1>2, <1>5, OtherWorkflows
  <2> QED
    BY <1>2, <1>3, <2>1 DEF OthersSame, Same, Types
<1>13. place'[i] = "running" /\ Todo(i)' = Todo(i) /\ Len(begun'[i]) = n /\ AllDone(i)'
  BY <1>2, <1>3, <1>9, <1>10 DEF Types, Todo, AllDone
<1>14. ControlInv(i)'
  <2>1. \A m \in 1 .. n : begun'[i][m].step = Todo(i)[m]
    <3>1. \A m \in 1 .. Len(begun[i]) : begun'[i][m].step = Todo(i)[m]
      BY <1>2, <1>9, <1>10 DEF CallInv, ControlInv
    <3>2. begun'[i][n].step = Todo(i)[n]
      BY <1>9, <1>10
    <3>3. \A m \in 1 .. n : m \in 1 .. Len(begun[i]) \/ m = n
      BY <1>2
    <3> QED
      BY <3>1, <3>2, <3>3
  <2>2. i # None
    OBVIOUS
  <2> QED
    BY <1>2, <1>3, <1>13, <2>1, <2>2 DEF ControlInv
<1>15. RunsInv(i)'
  <2>1. \A m \in 1 .. MostSteps : m # n => Untouched(<<i, m>>)
    BY <1>2, <1>5, OtherWorkflows
  <2>2. \A m \in 1 .. Len(reported[i]) :
           pc'[<<i, m>>] = "returned" /\ results'[<<i, m>>] = <<reported[i][m]>>
    BY <1>2, <2>1 DEF CallInv, RunsInv, Untouched
  <2>3. \A m \in n + 1 .. MostSteps : Unused(<<i, m>>)'
    BY <1>2, <2>1 DEF CallInv, RunsInv, Untouched, Unused
  <2>4. token' = token
    BY <1>5 DEF OnlyMoves
  <2>5. \A m \in 1 .. MostSteps : token[<<i, m>>] <=> token[<<i, 1>>]
    BY <1>2 DEF CallInv, RunsInv
  <2> QED
    BY <1>3, <1>5, <1>13, <2>2, <2>3, <2>4, <2>5, OneResult DEF RunsInv
<1>16. DataInv(i)'
  BY <1>2, <1>3, <1>13 DEF CallInv, DataInv
<1>17. BoundInv(i)'
  <2>1. ASSUME NEW m \in 1 .. n
        PROVE  Gets(i, begun'[i][m].step.bindings, begun'[i][m].got, m - 1)
    <3>1. CASE m = n
      <4>1. begun'[i][n].step = step /\ begun'[i][n].got = got /\ n - 1 = Len(reported[i])
        BY <1>2, <1>9, <1>10
      <4> QED
        BY <1>7, <3>1, <4>1
    <3>2. CASE m # n
      <4>1. m \in 1 .. Len(begun[i])
        BY <1>2, <3>2
      <4> QED
        BY <1>2, <1>9, <1>10, <4>1 DEF CallInv, BoundInv
    <3> QED
      BY <3>1, <3>2
  <2>2. \A b, g, k : Gets(i, b, g, k)' <=> Gets(i, b, g, k)
    BY <1>3, <1>13 DEF Gets
  <2> QED
    BY <1>13, <2>1, <2>2 DEF BoundInv
<1>18. EndInv(i)'
  <2>1. \A x \in Answer : answer'[i] # x
    BY <1>2, <1>3
  <2> QED
    BY <2>1 DEF EndInv, Answer
<1> QED
  BY <1>1, <1>3, <1>11, <1>12, <1>14, <1>15, <1>16, <1>17, <1>18, OneCallMoves DEF CallInv

LEMMA RunningStep ==
    ASSUME IInv, NEW i \in Invocation, place[i] = "running"
    PROVE  /\ Types /\ CallInv(i) /\ answer[i] = None /\ busy # i /\ composite[i] # None
           /\ Todo(i) \in Seq(CompositeStep)
           /\ Len(reported[i]) \in Nat /\ Len(begun[i]) = Len(reported[i]) + 1
           /\ Len(begun[i]) \in 1 .. MostSteps /\ Len(begun[i]) \in 1 .. Len(Todo(i))
           /\ Under(i) = <<i, Len(begun[i])>> /\ <<i, Len(begun[i])>> \in Run
           /\ AtStep(i) = Len(begun[i])
           /\ UnderWay(<<i, Len(begun[i])>>) /\ AllDone(i)
<1>1. Types /\ CallInv(i) /\ ControlInv(i) /\ RunsInv(i) /\ DataInv(i)
  BY DEF IInv, CallInv
<1>2. answer[i] = None /\ busy # i /\ composite[i] # None
  BY <1>1 DEF ControlInv
<1>3. Len(reported[i]) \in Nat /\ Len(begun[i]) = Len(reported[i]) + 1
  BY <1>1, Lengths DEF ControlInv
<1>4. Len(begun[i]) \in 1 .. MostSteps /\ Len(begun[i]) \in 1 .. Len(Todo(i))
  BY <1>1, <1>3, Lengths DEF ControlInv
<1>5. Under(i) = <<i, Len(begun[i])>> /\ AtStep(i) = Len(begun[i])
  BY <1>3 DEF Under, AtStep
<1>6. <<i, Len(begun[i])>> \in Run
  BY <1>4 DEF Run
<1> QED
  BY <1>1, <1>2, <1>3, <1>4, <1>5, <1>6, TodoSteps DEF RunsInv, DataInv

\* While the workflow engine is busy with the step.
LEMMA StepRun == ASSUME IInv, NEW i \in Invocation, RunStep(i) PROVE IInv' /\ OthersSame(i)
<1> DEFINE n == Len(begun[i])
           r == <<i, n>>
<1>1. place[i] = "running" /\ busy = None
  BY DEF RunStep
<1>2. /\ Types /\ CallInv(i) /\ answer[i] = None /\ busy # i
      /\ Len(reported[i]) \in Nat /\ n = Len(reported[i]) + 1
      /\ n \in 1 .. MostSteps /\ Under(i) = r /\ r \in Run /\ UnderWay(r)
  BY <1>1, RunningStep
<1>3. /\ registry' = registry /\ busy' = busy /\ place' = place /\ composite' = composite
      /\ inputs' = inputs /\ values' = values /\ reported' = reported /\ outputs' = outputs
      /\ answer' = answer /\ begun' = begun
  BY DEF RunStep
<1>4. \/ Proceeds(r) /\ product' = product
      \/ Engine!CompleteStep(r) /\ \E v \in Product : product' = [product EXCEPT ![i] = v]
  BY <1>2 DEF RunStep, Proceeds
<1>5. OnlyMoves(r) /\ UnderWay(r)'
  <2>1. PICK q \in Run : q = r
    BY <1>2
  <2>2. Proceeds(q) \/ Engine!CompleteStep(q)
    BY <1>4, <2>1
  <2>3. OnlyMoves(q) /\ UnderWay(q)'
    <3>1. UnderWay(q)
      BY <1>2, <2>1
    <3>2. CASE Proceeds(q)
      BY <1>2, <3>1, <3>2, ProceedEffect
    <3>3. CASE Engine!CompleteStep(q)
      BY <1>2, <3>1, <3>3, CompleteEffect
    <3> QED
      BY <2>2, <3>2, <3>3
  <2>4. begun' = begun
    BY <1>3
  <2> QED
    BY <2>1, <2>3, <2>4
<1>6. /\ product' \in [Invocation -> Value \cup {None}]
      /\ \A j \in Invocation \ {i} : product'[j] = product[j]
      /\ results'[r] = <<"COMPLETED">> => product'[i] # None
  <2>1. CASE Proceeds(r) /\ product' = product
    <3>1. results'[r] = <<"COMPLETED">> => results[r] = <<"COMPLETED">>
      <4> HIDE DEF r
      <4> QED
        BY <1>2, <2>1, ProceedEffect
    <3>2. results[r] = <<"COMPLETED">> => product[i] # None
      BY <1>1, <1>2 DEF CallInv, RunsInv
    <3> QED
      BY <1>2, <2>1, <3>1, <3>2 DEF Types
  <2>2. CASE \E v \in Product : product' = [product EXCEPT ![i] = v]
    <3>1. PICK v \in Value : product' = [product EXCEPT ![i] = v]
      BY <2>2
    <3>2. v # None
      OBVIOUS
    <3> QED
      BY <1>2, <3>1, <3>2 DEF Types
  <2> QED
    BY <1>4, <2>1, <2>2
<1>7. Types'
  BY <1>2, <1>3, <1>5, <1>6 DEF Types, OnlyMoves
<1>8. /\ \A m \in 1 .. MostSteps : m # n => Untouched(<<i, m>>)
      /\ \A j \in Invocation \ {i}, m \in 1 .. MostSteps : Untouched(<<j, m>>)
      /\ token' = token
  BY <1>2, <1>5, OtherWorkflows
<1>9. OthersSame(i)
  BY <1>3, <1>6, <1>8 DEF OthersSame, Same
<1>10. Todo(i)' = Todo(i)
  BY <1>3 DEF Todo
<1>11. ControlInv(i)'
  BY <1>2, <1>3, <1>10 DEF CallInv, ControlInv
<1>12. RunsInv(i)'
  <2>1. \A m \in 1 .. Len(reported[i]) :
           pc'[<<i, m>>] = "returned" /\ results'[<<i, m>>] = <<reported[i][m]>>
    BY <1>2, <1>8 DEF CallInv, RunsInv, Untouched
  <2>2. \A m \in n + 1 .. MostSteps : Unused(<<i, m>>)'
    BY <1>2, <1>8 DEF CallInv, RunsInv, Untouched, Unused
  <2>3. \A m \in 1 .. MostSteps : token[<<i, m>>] <=> token[<<i, 1>>]
    BY <1>2 DEF CallInv, RunsInv
  <2> QED
    BY <1>3, <1>5, <1>6, <1>8, <2>1, <2>2, <2>3 DEF RunsInv
<1>13. DataInv(i)'
  BY <1>2, <1>3, <1>10 DEF CallInv, DataInv, AllDone
<1>14. BoundInv(i)'
  BY <1>2, <1>3, <1>10 DEF CallInv, BoundInv, Gets
<1>15. EndInv(i)'
  <2>1. \A x \in Answer : answer'[i] # x
    BY <1>2, <1>3
  <2> QED
    BY <2>1 DEF EndInv, Answer
<1> QED
  BY <1>1, <1>3, <1>7, <1>9, <1>11, <1>12, <1>13, <1>14, <1>15, OneCallMoves DEF CallInv

\* The workflow of a step returns: what that changes of call i, whatever the
\* step has come to.
LEMMA ReturnOfStep ==
    ASSUME IInv, NEW i \in Invocation, place[i] = "running", Engine!Return(Under(i)),
           reported' = [reported EXCEPT ![i] = Append(@, StepState(i))],
           composite' = composite, begun' = begun
    PROVE  /\ StepState(i) \in DoneState /\ outcome[Under(i)] = StepState(i)
           /\ StepState(i) = "CANCELLED" => token[<<i, 1>>]
           /\ StepState(i) = "COMPLETED" => product[i] # None
           /\ OnlyMoves(Under(i))
           /\ reported' \in [Invocation -> Seq(DoneState)]
           /\ Len(reported'[i]) = Len(begun[i])
           /\ \A m \in 1 .. Len(reported[i]) : reported'[i][m] = reported[i][m]
           /\ reported'[i][Len(begun[i])] = StepState(i)
           /\ \A j \in Invocation \ {i} : reported'[j] = reported[j]
           /\ \A j \in Invocation \ {i}, m \in 1 .. MostSteps : Untouched(<<j, m>>)
           /\ token' = token
           /\ place'[i] # "running" => RunsInv(i)'
           /\ BoundInv(i)'
<1> DEFINE n == Len(begun[i])
           x == StepState(i)
<1>1. /\ Types /\ CallInv(i)
      /\ Len(reported[i]) \in Nat /\ n = Len(reported[i]) + 1
      /\ n \in 1 .. MostSteps /\ Under(i) = <<i, n>> /\ <<i, n>> \in Run /\ UnderWay(<<i, n>>)
  BY RunningStep
<1>2. /\ OnlyMoves(<<i, n>>) /\ pc'[<<i, n>>] = "returned"
      /\ results'[<<i, n>>] = results[<<i, n>>]
      /\ \E y \in DoneState : /\ results[<<i, n>>] = <<y>> /\ outcome[<<i, n>>] = y
                              /\ y = "CANCELLED" => token[<<i, n>>]
  <2>1. PICK r \in Run : r = <<i, n>>
    BY <1>1
  <2> QED
    BY <1>1, <2>1, ReturnEffect
<1>3. /\ x \in DoneState /\ results[<<i, n>>] = <<x>> /\ outcome[<<i, n>>] = x
      /\ x = "CANCELLED" => token[<<i, n>>]
  BY <1>1, <1>2, OneResult DEF StepState
<1>4. /\ token[<<i, n>>] <=> token[<<i, 1>>]
      /\ results[<<i, n>>] = <<"COMPLETED">> => product[i] # None
  BY <1>1 DEF CallInv, RunsInv
<1>5. reported[i] \in Seq(DoneState) /\ reported'[i] = Append(reported[i], x)
  BY <1>1 DEF Types
<1>6. /\ reported'[i] \in Seq(DoneState) /\ Len(reported'[i]) = n
      /\ \A m \in 1 .. Len(reported[i]) : reported'[i][m] = reported[i][m]
      /\ reported'[i][n] = x
  <2> HIDE DEF x, n
  <2> QED
    BY <1>1, <1>3, <1>5, Longer
<1>7. /\ reported' \in [Invocation -> Seq(DoneState)]
      /\ \A j \in Invocation \ {i} : reported'[j] = reported[j]
  BY <1>1, <1>5, <1>6 DEF Types
<1>8. /\ \A m \in 1 .. MostSteps : m # n => Untouched(<<i, m>>)
      /\ \A j \in Invocation \ {i}, m \in 1 .. MostSteps : Untouched(<<j, m>>)
      /\ token' = token
  BY <1>1, <1>2, OtherWorkflows
<1>9. ASSUME place'[i] # "running" PROVE RunsInv(i)'
  <2>1. ASSUME NEW m \in 1 .. n
        PROVE  pc'[<<i, m>>] = "returned" /\ results'[<<i, m>>] = <<reported'[i][m]>>
    <3>1. CASE m = n
      BY <1>2, <1>3, <1>6, <3>1
    <3>2. CASE m # n
      <4>1. m \in 1 .. Len(reported[i]) /\ m \in 1 .. MostSteps
        BY <1>1, <3>2
      <4> QED
        BY <1>1, <1>6, <1>8, <3>2, <4>1 DEF CallInv, RunsInv, Untouched
    <3> QED
      BY <3>1, <3>2
  <2>2. \A m \in n + 1 .. MostSteps : Unused(<<i, m>>)'
    BY <1>1, <1>8 DEF CallInv, RunsInv, Untouched, Unused
  <2>3. \A m \in 1 .. MostSteps : token[<<i, m>>] <=> token[<<i, 1>>]
    BY <1>1 DEF CallInv, RunsInv
  <2> QED
    BY <1>6, <1>8, <1>9, <2>1, <2>2, <2>3 DEF RunsInv
<1>10. BoundInv(i)'
  <2>1. Todo(i)' = Todo(i)
    BY DEF Todo
  <2>2. \A b, g, k : Gets(i, b, g, k) => Gets(i, b, g, k)'
    <3>1. \A m \in Nat : m >= 1 /\ m <= Len(reported[i]) => /\ m <= Len(reported'[i])
                                                  /\ reported'[i][m] = reported[i][m]
      BY <1>1, <1>6
    <3> SUFFICES ASSUME NEW b, NEW g, NEW k, Gets(i, b, g, k) PROVE Gets(i, b, g, k)'
      OBVIOUS
    <3> QED
      BY <2>1, <3>1 DEF Gets
  <2> QED
    BY <1>1, <2>2 DEF CallInv, BoundInv
<1> QED
  BY <1>1, <1>2, <1>3, <1>4, <1>6, <1>7, <1>8, <1>9, <1>10

LEMMA StepFailure == ASSUME IInv, NEW i \in Invocation, StepFailed(i) PROVE IInv' /\ OthersSame(i)
<1> DEFINE n == Len(begun[i])
           x == StepState(i)
<1>1. /\ busy = None /\ place[i] = "running" /\ Engine!Return(Under(i))
      /\ x # "COMPLETED"
      /\ reported' = [reported EXCEPT ![i] = Append(@, StepState(i))]
      /\ place' = [place EXCEPT ![i] = "ended"]
      /\ answer' = [answer EXCEPT ![i] = outcome[Under(i)]]
      /\ busy' = None
      /\ registry' = registry /\ composite' = composite /\ inputs' = inputs
      /\ values' = values /\ product' = product /\ outputs' = outputs /\ begun' = begun
  BY DEF StepFailed, End
<1>2. /\ Types /\ CallInv(i) /\ composite[i] # None /\ AllDone(i)
      /\ Len(reported[i]) \in Nat /\ n = Len(reported[i]) + 1
  BY <1>1, RunningStep
<1>3. /\ x \in DoneState /\ outcome[Under(i)] = x
      /\ x = "CANCELLED" => token[<<i, 1>>]
      /\ OnlyMoves(Under(i))
      /\ reported' \in [Invocation -> Seq(DoneState)]
      /\ Len(reported'[i]) = n
      /\ \A m \in 1 .. Len(reported[i]) : reported'[i][m] = reported[i][m]
      /\ reported'[i][n] = x
      /\ \A j \in Invocation \ {i} : reported'[j] = reported[j]
      /\ \A j \in Invocation \ {i}, m \in 1 .. MostSteps : Untouched(<<j, m>>)
      /\ token' = token
      /\ place'[i] # "running" => RunsInv(i)'
      /\ BoundInv(i)'
  BY <1>1, ReturnOfStep
<1>4. x \in {"FAILED", "CANCELLED"}
  BY <1>1, <1>3 DEF DoneState
<1>5. /\ place'[i] = "ended" /\ answer'[i] = x /\ x \in Answer /\ x # None
      /\ Todo(i)' = Todo(i)
  BY <1>1, <1>2, <1>3, <1>4 DEF Types, Answer, Todo
<1>6. Types'
  BY <1>1, <1>2, <1>3, <1>5 DEF Types, OnlyMoves
<1>7. OthersSame(i)
  BY <1>1, <1>2, <1>3 DEF OthersSame, Same, Types
<1>8. ControlInv(i)'
  BY <1>1, <1>2, <1>3, <1>5 DEF CallInv, ControlInv
<1>9. RunsInv(i)' /\ BoundInv(i)'
  BY <1>3, <1>5
<1>10. DataInv(i)'
  BY <1>1, <1>2, <1>5 DEF CallInv, DataInv
<1>11. PICK y \in {"FAILED", "CANCELLED"} : y = x
  BY <1>4
<1>12. LastIs(i, y)'
  <2>1. \A m \in 1 .. n - 1 : reported'[i][m] = "COMPLETED"
    BY <1>2, <1>3 DEF AllDone
  <2>2. Len(reported'[i]) > 0 /\ reported'[i][Len(reported'[i])] = y
    BY <1>2, <1>3, <1>11
  <2> QED
    BY <1>3, <2>1, <2>2 DEF LastIs
<1>13. EndInv(i)'
  <2>1. answer'[i] = y /\ (y = "CANCELLED" => token'[<<i, 1>>])
    BY <1>3, <1>5, <1>11
  <2>2. CASE y = "FAILED"
    BY <1>12, <2>1, <2>2 DEF EndInv
  <2>3. CASE y = "CANCELLED"
    BY <1>12, <2>1, <2>3 DEF EndInv
  <2> QED
    BY <2>2, <2>3
<1> QED
  BY <1>1, <1>6, <1>7, <1>8, <1>9, <1>10, <1>13, OneCallMoves DEF CallInv

LEMMA StepSuccess == ASSUME IInv, NEW i \in Invocation, StepSucceeded(i) PROVE IInv' /\ OthersSame(i)
<1> DEFINE n == Len(begun[i])
           id == begun[i][n].step.id
           new == [from |-> <<i, id>>, keys |-> product[i]]
           kept == [s \in DOMAIN values[i] \cup {id} |-> IF s = id THEN new ELSE values[i][s]]
<1>1. /\ busy = None /\ place[i] = "running" /\ Engine!Return(Under(i))
      /\ StepState(i) = "COMPLETED"
      /\ reported' = [reported EXCEPT ![i] = Append(@, StepState(i))]
      /\ place' = [place EXCEPT ![i] = "between"]
      /\ busy' = i
      /\ registry' = registry /\ composite' = composite /\ inputs' = inputs
      /\ product' = product /\ outputs' = outputs /\ begun' = begun /\ answer' = answer
  BY DEF StepSucceeded
<1>2. /\ Types /\ CallInv(i) /\ composite[i] # None /\ AllDone(i) /\ answer[i] = None
      /\ Len(reported[i]) \in Nat /\ n = Len(reported[i]) + 1
      /\ n \in 1 .. Len(Todo(i)) /\ Todo(i) \in Seq(CompositeStep) /\ AtStep(i) = n
  BY <1>1, RunningStep
<1>3. values' = [values EXCEPT ![i] = kept]
  BY <1>2 DEF StepSucceeded
<1>4. /\ product[i] # None
      /\ OnlyMoves(Under(i))
      /\ reported' \in [Invocation -> Seq(DoneState)]
      /\ Len(reported'[i]) = n
      /\ \A m \in 1 .. Len(reported[i]) : reported'[i][m] = reported[i][m]
      /\ reported'[i][n] = "COMPLETED"
      /\ \A j \in Invocation \ {i} : reported'[j] = reported[j]
      /\ \A j \in Invocation \ {i}, m \in 1 .. MostSteps : Untouched(<<j, m>>)
      /\ token' = token
      /\ place'[i] # "running" => RunsInv(i)'
      /\ BoundInv(i)'
  BY <1>1, ReturnOfStep
<1>5. /\ place'[i] = "between" /\ Todo(i)' = Todo(i) /\ i # None
      /\ values'[i] = kept
  BY <1>1, <1>2, <1>3 DEF Types, Todo
<1>6. Types'
  BY <1>1, <1>2, <1>3, <1>4 DEF Types, OnlyMoves
<1>7. OthersSame(i)
  BY <1>1, <1>2, <1>3, <1>4 DEF OthersSame, Same, Types
<1>8. ControlInv(i)'
  BY <1>1, <1>2, <1>4, <1>5 DEF CallInv, ControlInv
<1>9. RunsInv(i)' /\ BoundInv(i)'
  BY <1>4, <1>5
<1>10. AllDone(i)'
  <2>1. \A m \in 1 .. n : m = n \/ m \in 1 .. Len(reported[i])
    BY <1>2
  <2> QED
    BY <1>2, <1>4, <2>1 DEF AllDone
<1>11. id = Todo(i)[n].id /\ id \in STRING
  <2>1. begun[i][n].step = Todo(i)[n]
    BY <1>2 DEF CallInv, ControlInv
  <2> QED
    BY <1>2, <2>1, StepFields
<1>12. \A s \in DOMAIN kept : kept[s] \in Sourced /\ kept[s].from = <<i, s>>
  <2>1. new \in Sourced /\ new.from = <<i, id>>
    BY <1>2, <1>4, <1>11 DEF Types, Sourced
  <2>2. \A s \in DOMAIN values[i] : values[i][s] \in Sourced /\ values[i][s].from = <<i, s>>
    BY <1>2 DEF CallInv, DataInv
  <2> HIDE DEF new, id
  <2> QED
    BY <2>1, <2>2
<1>13. DOMAIN kept = IdsUpTo(Todo(i), n)
  <2>1. DOMAIN values[i] = IdsUpTo(Todo(i), Len(reported[i]))
    BY <1>1, <1>2 DEF CallInv, DataInv
  <2>2. 1 .. n = (1 .. Len(reported[i])) \cup {n}
    BY <1>2
  <2>3. IdsUpTo(Todo(i), n) = IdsUpTo(Todo(i), Len(reported[i])) \cup {Todo(i)[n].id}
    BY <2>2 DEF IdsUpTo
  <2> QED
    BY <1>11, <2>1, <2>3
<1>14. DataInv(i)'
  <2> HIDE DEF kept
  <2> QED
    BY <1>1, <1>2, <1>4, <1>5, <1>10, <1>12, <1>13 DEF CallInv, DataInv
<1>15. EndInv(i)'
  <2>1. \A x \in Answer : answer'[i] # x
    BY <1>1, <1>2
  <2> QED
    BY <2>1 DEF EndInv, Answer
<1> QED
  BY <1>1, <1>6, <1>7, <1>8, <1>9, <1>14, <1>15, OneCallMoves DEF CallInv

LEMMA InvStep == IInv /\ [Next]_vars => IInv'
<1> SUFFICES ASSUME IInv, [Next]_vars PROVE IInv'
  OBVIOUS
<1>1. CASE UNCHANGED vars
  <2>1. UNCHANGED <<registry, callVars, engineVars>>
    BY <1>1 DEF vars
  <2>2. Types'
    BY <2>1 DEF IInv, Types, callVars, engineVars, Engine!TypeOK
  <2>3. ASSUME NEW j \in Invocation PROVE CallInv(j)'
    <3>1. Same(j) /\ (busy' = j <=> busy = j)
      BY <2>1 DEF Same, Untouched, callVars, engineVars
    <3> QED
      BY <3>1, SameKeeps DEF IInv
  <2> QED
    BY <2>2, <2>3 DEF IInv
<1>2. ASSUME NEW i \in Invocation, Progress(i) PROVE IInv'
  BY <1>2, StepStopBetween, StepBindingFailure, StepStart, StepRun, StepFailure,
     StepSuccess, StepFinish, StepOutputFailure DEF Progress
<1>3. ASSUME NEW i \in Invocation,
             \/ Cancel(i)
             \/ \E c \in CapabilityId : InvokeUnknown(i, c)
             \/ \E c \in CapabilityId, given \in Offer :
                   InvokeWithout(i, c, given) \/ Invoke(i, c, given)
      PROVE  IInv'
  <2>1. CASE Cancel(i)
    BY <2>1, StepCancel
  <2>2. CASE \E c \in CapabilityId : InvokeUnknown(i, c)
    BY <2>2, StepUnknown
  <2>3. ASSUME NEW c \in CapabilityId, NEW given \in Offer, InvokeWithout(i, c, given)
        PROVE  IInv'
    BY <2>3, StepWithout
  <2>4. ASSUME NEW c \in CapabilityId, NEW given \in Offer, Invoke(i, c, given)
        PROVE  IInv'
    BY <2>4, StepInvoke
  <2> QED
    BY <1>3, <2>1, <2>2, <2>3, <2>4
<1>4. CASE \/ \E c \in CapabilityId : Unregister(c)
           \/ \E c \in CapabilityId, d \in Definition, overwrite \in BOOLEAN :
                 Register(c, d, overwrite)
  BY <1>4, StepRegistry
<1> QED
  BY <1>1, <1>2, <1>3, <1>4 DEF Next

\* The invariant holds in every reachable state of the registry, the calls and
\* the workflows of their steps (composite/registry.py, composite/engine.py,
\* workflow/engine.py).
THEOREM Invariant == Spec => []IInv
  BY InvInit, InvStep, PTL DEF Spec

-----------------------------------------------------------------------------
(* What the invariant says.                                                *)

LEMMA InvType == IInv => TypeOK
<1> SUFFICES ASSUME IInv PROVE TypeOK
  OBVIOUS
<1>1. Types
  BY DEF IInv
<1>2. \A c \in CapabilityId : registry[c] # None => registry[c] \in Definition
  BY <1>1 DEF Types, Valid
<1>3. ASSUME NEW i \in Invocation
      PROVE  /\ composite[i] # None => composite[i] \in Definition
             /\ Range(inputs[i]) \cup Range(values[i]) \subseteq Sourced
             /\ product[i] # None => product[i] \in Value
             /\ reported[i] \in Seq({"COMPLETED", "FAILED", "CANCELLED"})
             /\ Len(reported[i]) <= Len(begun[i])
             /\ Len(begun[i]) <= MostSteps
             /\ answer[i] # None => answer[i] \in Answer
             /\ (answer[i] # None) <=> (place[i] = "ended")
  <2>1. ControlInv(i) /\ DataInv(i)
    BY DEF IInv, CallInv
  <2>2. composite[i] # None => composite[i] \in Definition
    BY <1>1 DEF Types, Valid
  <2>3. Range(inputs[i]) \cup Range(values[i]) \subseteq Sourced
    BY <2>1 DEF DataInv, Range
  <2>4. /\ product[i] # None => product[i] \in Value
        /\ reported[i] \in Seq({"COMPLETED", "FAILED", "CANCELLED"})
        /\ answer[i] # None => answer[i] \in Answer
    BY <1>1 DEF Types, DoneState
  <2>5. Len(reported[i]) <= Len(begun[i]) /\ Len(begun[i]) <= MostSteps
    BY <1>1, <2>1, Lengths
  <2>6. (answer[i] # None) <=> (place[i] = "ended")
    BY <2>1 DEF ControlInv
  <2> QED
    BY <2>2, <2>3, <2>4, <2>5, <2>6
<1> QED
  BY <1>1, <1>2, <1>3 DEF TypeOK, Types

LEMMA InvResult == IInv => ResultTellsSteps
<1> SUFFICES ASSUME IInv, NEW i \in Invocation, place[i] = "ended"
             PROVE  LET n == Len(begun[i])
                        steps == IF composite[i] = None THEN <<>> ELSE composite[i].steps
                        AllButLast(state) ==
                            /\ n > 0
                            /\ results[<<i, n>>] = <<state>>
                            /\ \A m \in 1 .. n - 1 : results[<<i, m>>] = <<"COMPLETED">>
                        All == \A m \in 1 .. n : results[<<i, m>>] = <<"COMPLETED">>
                    IN  /\ n <= Len(steps)
                        /\ \A m \in 1 .. n : begun[i][m].step = steps[m] /\ pc[<<i, m>>] = "returned"
                        /\ \A m \in n + 1 .. MostSteps : pc[<<i, m>>] = "idle"
                        /\ reported[i] = [m \in 1 .. n |-> results[<<i, m>>][1]]
                        /\ CASE answer[i] = "COMPLETED" -> All /\ n = Len(steps)
                             [] answer[i] = "FAILED"    -> AllButLast("FAILED")
                             [] answer[i] = "CANCELLED" ->
                                   IsCancelled(i) /\ (AllButLast("CANCELLED") \/ (All /\ n < Len(steps)))
                             [] answer[i] \in {"not found", "missing input"} -> n = 0
                             [] OTHER -> All
  BY DEF ResultTellsSteps
<1> DEFINE n == Len(begun[i])
           steps == IF composite[i] = None THEN <<>> ELSE composite[i].steps
           AllButLast(state) ==
               /\ n > 0
               /\ results[<<i, n>>] = <<state>>
               /\ \A m \in 1 .. n - 1 : results[<<i, m>>] = <<"COMPLETED">>
           All == \A m \in 1 .. n : results[<<i, m>>] = <<"COMPLETED">>
<1>1. Types /\ CallInv(i) /\ ControlInv(i) /\ RunsInv(i) /\ EndInv(i)
  BY DEF IInv, CallInv
<1>2. /\ Len(reported[i]) = n /\ n \in Nat /\ steps = Todo(i) /\ Len(Todo(i)) \in Nat
      /\ reported[i] \in Seq(DoneState) /\ answer[i] \in Answer
  BY <1>1, Lengths DEF ControlInv, Types, Todo
<1>3. n <= Len(steps) /\ \A m \in 1 .. n : begun[i][m].step = steps[m]
  BY <1>1, <1>2 DEF ControlInv
<1>4. \A m \in 1 .. n : pc[<<i, m>>] = "returned" /\ results[<<i, m>>] = <<reported[i][m]>>
  BY <1>1, <1>2 DEF RunsInv
<1>5. \A m \in n + 1 .. MostSteps : pc[<<i, m>>] = "idle"
  BY <1>1 DEF RunsInv, Unused
<1>6. reported[i] = [m \in 1 .. n |-> results[<<i, m>>][1]]
  <2>1. \A m \in 1 .. n : results[<<i, m>>][1] = reported[i][m]
    BY <1>4, OneResult
  <2>2. reported[i] = [m \in 1 .. n |-> reported[i][m]]
    BY <1>2
  <2> QED
    BY <2>1, <2>2
<1>7. AllDone(i) => All
  BY <1>2, <1>4 DEF AllDone
<1>8. /\ LastIs(i, "FAILED") => AllButLast("FAILED")
      /\ LastIs(i, "CANCELLED") => AllButLast("CANCELLED")
  BY <1>2, <1>4 DEF LastIs
<1>9. answer[i] = "COMPLETED" => All /\ n = Len(steps)
  BY <1>1, <1>2, <1>7 DEF EndInv
<1>10. answer[i] = "FAILED" => AllButLast("FAILED")
  BY <1>1, <1>8 DEF EndInv
<1>11. answer[i] = "CANCELLED" =>
          IsCancelled(i) /\ (AllButLast("CANCELLED") \/ (All /\ n < Len(steps)))
  BY <1>1, <1>2, <1>7, <1>8 DEF EndInv, IsCancelled
<1>12. answer[i] \in {"not found", "missing input"} => n = 0
  BY <1>1, <1>2 DEF EndInv
<1>13. answer[i] \in {"unavailable", "mismatch"} => All
  BY <1>1, <1>7 DEF EndInv
<1> HIDE DEF n, steps, AllButLast, All
<1>14. (CASE answer[i] = "COMPLETED" -> All /\ n = Len(steps)
          [] answer[i] = "FAILED"    -> AllButLast("FAILED")
          [] answer[i] = "CANCELLED" ->
                IsCancelled(i) /\ (AllButLast("CANCELLED") \/ (All /\ n < Len(steps)))
          [] answer[i] \in {"not found", "missing input"} -> n = 0
          [] OTHER -> All)
  BY <1>2, <1>9, <1>10, <1>11, <1>12, <1>13 DEF Answer
<1> QED
  BY <1>3, <1>4, <1>5, <1>6, <1>14 DEF n, steps, AllButLast, All

\* What the steps have returned to the call is what the workflow engine holds.
LEMMA GetsIsDelivered ==
    ASSUME Types, NEW i \in Invocation, CallInv(i), composite[i] # None,
           NEW bindings, NEW got, NEW n \in Nat, Gets(i, bindings, got, n)
    PROVE  Delivered(i, bindings, got, n)
<1>1. Len(reported[i]) \in Nat /\ Todo(i) = composite[i].steps
  BY Lengths DEF CallInv, Todo
<1>2. \A m \in 1 .. Len(reported[i]) : results[<<i, m>>] = <<reported[i][m]>>
  BY DEF CallInv, RunsInv
<1>3. ASSUME NEW k \in DOMAIN bindings PROVE Made(i, bindings[k], n)
  <2>1. CASE bindings[k].source = "input" /\ bindings[k].id \in composite[i].inputs
    BY <2>1 DEF Made
  <2>2. CASE \E m \in 1 .. n : /\ m <= Len(reported[i])
                               /\ reported[i][m] = "COMPLETED"
                               /\ Todo(i)[m].id = bindings[k].id
    <3>1. PICK m \in 1 .. n : /\ m <= Len(reported[i])
                              /\ reported[i][m] = "COMPLETED"
                              /\ Todo(i)[m].id = bindings[k].id
      BY <2>2
    <3>2. results[<<i, m>>] = <<"COMPLETED">> /\ composite[i].steps[m].id = bindings[k].id
      BY <1>1, <1>2, <3>1
    <3> QED
      BY <3>2 DEF Made
  <2> QED
    BY <2>1, <2>2 DEF Gets
<1> QED
  BY <1>3 DEF Gets, Delivered

LEMMA InvBindings == IInv => BindingsDeliver
<1> SUFFICES ASSUME IInv, NEW i \in Invocation
             PROVE  /\ \A n \in DOMAIN begun[i] :
                          Delivered(i, begun[i][n].step.bindings, begun[i][n].got, n - 1)
                    /\ answer[i] = "COMPLETED" =>
                          Delivered(i, composite[i].outputs, outputs[i], Len(begun[i]))
                    /\ answer[i] = "unavailable" =>
                          /\ Len(begun[i]) < Len(composite[i].steps)
                          /\ LET step == composite[i].steps[Len(begun[i]) + 1]
                             IN  \E b \in Range(step.bindings) :
                                    b.source = "step" /\ b.id = step.id
  BY DEF BindingsDeliver
<1>1. /\ Types /\ CallInv(i) /\ ControlInv(i) /\ BoundInv(i) /\ EndInv(i)
      /\ Len(begun[i]) \in Nat /\ begun[i] \in Seq(BegunStep)
  BY Lengths DEF IInv, CallInv
<1>2. ASSUME NEW n \in DOMAIN begun[i]
      PROVE  Delivered(i, begun[i][n].step.bindings, begun[i][n].got, n - 1)
  <2>1. n \in 1 .. Len(begun[i]) /\ n - 1 \in Nat
    BY <1>1
  <2>2. composite[i] # None
    <3>1. CASE composite[i] = None
      BY <1>1, <2>1, <3>1 DEF ControlInv, Todo
    <3> QED
      BY <3>1
  <2>3. Gets(i, begun[i][n].step.bindings, begun[i][n].got, n - 1)
    BY <1>1, <2>1 DEF BoundInv
  <2> QED
    BY <1>1, <2>1, <2>2, <2>3, GetsIsDelivered
<1>3. answer[i] # None => Len(begun[i]) = Len(reported[i])
  BY <1>1 DEF ControlInv
<1>4. ASSUME answer[i] = "COMPLETED"
      PROVE  Delivered(i, composite[i].outputs, outputs[i], Len(begun[i]))
  <2>1. "COMPLETED" # None
    BY DEF Answer
  <2> QED
    BY <1>1, <1>3, <1>4, <2>1, GetsIsDelivered DEF EndInv
<1>5. ASSUME answer[i] = "unavailable"
      PROVE  /\ Len(begun[i]) < Len(composite[i].steps)
             /\ LET step == composite[i].steps[Len(begun[i]) + 1]
                IN  \E b \in Range(step.bindings) : b.source = "step" /\ b.id = step.id
  <2>1. "unavailable" # None
    BY DEF Answer
  <2> QED
    BY <1>1, <1>3, <1>5, <2>1 DEF EndInv, Todo
<1> QED
  BY <1>2, <1>4, <1>5

\* The registry holds definitions, a call carries out one of them, and its
\* answer is there when it has ended (composite/models.py, composite/engine.py).
THEOREM TypeCorrect == Spec => []TypeOK
  BY Invariant, InvType, PTL

\* However many steps a definition has, whatever happens to the registry while
\* it is carried out, whichever step fails and whenever the call is cancelled,
\* invoke() answers what the workflows of the steps came to
\* (composite/engine.py 89-182).
THEOREM ResultAlwaysTellsSteps == Spec => []ResultTellsSteps
  BY Invariant, InvResult, PTL

\* A binding of a definition that validate_step_references let pass gets the
\* value it names, from its own call and from a step that has been done; only
\* what a step expects of itself is looked for in vain (composite/engine.py
\* 184-283, composite/models.py 204-246).
THEOREM BindingsAlwaysDeliver == Spec => []BindingsDeliver
  BY Invariant, InvBindings, PTL

-----------------------------------------------------------------------------
(* What a step may never do to a call.                                     *)

\* The definition and the inputs of a call that has been made do not change, and
\* nothing of it does once it has ended.
KeepsDefinition(i) ==
    place[i] # "idle" => composite'[i] = composite[i] /\ inputs'[i] = inputs[i]

AnswerStands(i) == place[i] = "ended" => Same(i)

LEMMA OwnStep ==
    ASSUME IInv, NEW i \in Invocation,
           \/ Cancel(i) \/ Progress(i)
           \/ \E c \in CapabilityId : InvokeUnknown(i, c)
           \/ \E c \in CapabilityId, given \in Offer :
                 InvokeWithout(i, c, given) \/ Invoke(i, c, given)
    PROVE  place[i] # "ended" /\ KeepsDefinition(i) /\ OthersSame(i)
<1>1. busy = i => place[i] = "between"
  BY DEF IInv, CallInv, ControlInv
<1>2. CASE Cancel(i)
  <2>1. place[i] # "ended" /\ KeepsDefinition(i)
    BY <1>2 DEF Cancel, KeepsDefinition, callVars
  <2> QED
    BY <1>2, <2>1, StepCancel
<1>3. CASE Progress(i)
  <2>1. OthersSame(i)
    BY <1>3, StepStopBetween, StepBindingFailure, StepStart, StepRun, StepFailure,
       StepSuccess, StepFinish, StepOutputFailure DEF Progress
  <2>2. CASE StopBetween(i) \/ StepBindingFails(i) \/ StartStep(i) \/ Finish(i)
             \/ OutputBindingFails(i)
    <3>1. busy = i /\ composite' = composite /\ inputs' = inputs
      BY <2>2 DEF StopBetween, StepBindingFails, StartStep, Finish, OutputBindingFails
    <3> QED
      BY <1>1, <2>1, <3>1 DEF KeepsDefinition
  <2>3. CASE RunStep(i) \/ StepFailed(i) \/ StepSucceeded(i)
    <3>1. place[i] = "running" /\ composite' = composite /\ inputs' = inputs
      BY <2>3 DEF RunStep, StepFailed, StepSucceeded
    <3> QED
      BY <2>1, <3>1 DEF KeepsDefinition
  <2> QED
    BY <1>3, <2>2, <2>3 DEF Progress
<1>4. ASSUME NEW c \in CapabilityId, InvokeUnknown(i, c)
      PROVE  place[i] # "ended" /\ KeepsDefinition(i) /\ OthersSame(i)
  <2>1. place[i] = "idle"
    BY <1>4 DEF InvokeUnknown
  <2> QED
    BY <1>4, <2>1, StepUnknown DEF KeepsDefinition
<1>5. ASSUME NEW c \in CapabilityId, NEW given \in Offer,
             InvokeWithout(i, c, given) \/ Invoke(i, c, given)
      PROVE  place[i] # "ended" /\ KeepsDefinition(i) /\ OthersSame(i)
  <2>1. place[i] = "idle"
    BY <1>5 DEF InvokeWithout, Invoke
  <2> QED
    BY <1>5, <2>1, StepWithout, StepInvoke DEF KeepsDefinition
<1> QED
  BY <1>2, <1>3, <1>4, <1>5

LEMMA CallsKept ==
    IInv /\ [Next]_vars =>
        [\A i \in Invocation : KeepsDefinition(i) /\ AnswerStands(i)]_vars
<1> SUFFICES ASSUME IInv, Next, NEW i \in Invocation
             PROVE  KeepsDefinition(i) /\ AnswerStands(i)
  OBVIOUS
<1> USE DEF KeepsDefinition, AnswerStands
<1>1. CASE Same(i)
  BY <1>1 DEF Same
<1>2. CASE \/ \E c \in CapabilityId : Unregister(c)
           \/ \E c \in CapabilityId, d \in Definition, overwrite \in BOOLEAN :
                 Register(c, d, overwrite)
  <2>1. UNCHANGED <<callVars, engineVars>>
    BY <1>2 DEF Register, Unregister
  <2>2. Same(i)
    BY <2>1 DEF Same, Untouched, callVars, engineVars
  <2> QED
    BY <1>1, <2>2
<1>3. ASSUME NEW j \in Invocation,
             \/ Cancel(j) \/ Progress(j)
             \/ \E c \in CapabilityId : InvokeUnknown(j, c)
             \/ \E c \in CapabilityId, given \in Offer :
                   InvokeWithout(j, c, given) \/ Invoke(j, c, given)
      PROVE  KeepsDefinition(i) /\ AnswerStands(i)
  <2>1. place[j] # "ended" /\ KeepsDefinition(j) /\ OthersSame(j)
    BY <1>3, OwnStep
  <2>2. CASE i = j
    BY <2>1, <2>2
  <2>3. CASE i # j
    BY <1>1, <2>1, <2>3 DEF OthersSame
  <2> QED
    BY <2>2, <2>3
<1> QED
  BY <1>2, <1>3 DEF Next

\* A call goes by the definition and the inputs it began with, whatever is
\* registered meanwhile (composite/engine.py 89), and its answer is final: no
\* step of it is carried out afterwards and no result of it changes.
THEOREM CallsStayWithIt ==
    Spec => [][\A i \in Invocation : KeepsDefinition(i) /\ AnswerStands(i)]_vars
  BY Invariant, CallsKept, PTL DEF Spec

-----------------------------------------------------------------------------
(* Calls come to an end.                                                   *)

\* The steps that the workflow of the step under way has still to take.
RunToGo(r) ==
    IF pc[r] = "loop" /\ results[r] = <<>> THEN 5
    ELSE IF pc[r] = "resolving" THEN 4
    ELSE IF pc[r] = "executing" THEN 3
    ELSE IF pc[r] = "loop" THEN 2
    ELSE 1

\* A bound on the steps a call has still to take: six for each step of its
\* definition, of which one begins it, and those before and after.
ToGo(i) ==
    IF place[i] = "idle" THEN 6 * MostSteps + 2
    ELSE IF place[i] = "between" THEN 6 * (Len(Todo(i)) - Len(reported[i])) + 1
    ELSE IF place[i] = "running"
         THEN 6 * (Len(Todo(i)) - Len(begun[i])) + 1 + RunToGo(<<i, Len(begun[i])>>)
    ELSE 0

\* Nothing is done for the call; at most its token is set.
Rests(i) ==
    /\ place'[i] = place[i] /\ composite'[i] = composite[i] /\ reported'[i] = reported[i]
    /\ outputs'[i] = outputs[i] /\ answer'[i] = answer[i] /\ begun'[i] = begun[i]
    /\ \A m \in 1 .. MostSteps : Untouched(<<i, m>>)

\* Every call is a number of steps from its end, and it is over when that is 0.
CallsCount ==
    \A i \in Invocation : /\ ToGo(i) \in 0 .. 6 * MostSteps + 2
                          /\ ToGo(i) = 0 <=> place[i] = "ended"

\* A step brings a call nearer to its end or does nothing for it.
CallsGetOn ==
    \A i \in Invocation : \/ ToGo(i)' < ToGo(i) /\ place[i] # "ended"
                          \/ Rests(i)

\* The workflow of a step gets on.
LEMMA RunGetsOn ==
    ASSUME Types, NEW r \in Run, UnderWay(r), Proceeds(r) \/ Engine!CompleteStep(r)
    PROVE  RunToGo(r)' < RunToGo(r)
<1>1. /\ Engine!TypeOK /\ UnderWay(r)'
      /\ Engine!Remaining(r) = 1 - Len(results[r])
  BY ProceedEffect, CompleteEffect, OneStepEach DEF Types
<1>2. DOMAIN pc = Run /\ DOMAIN results = Run
  BY <1>1 DEF Engine!TypeOK
<1>3. /\ results[r] = <<>> => Engine!Remaining(r) = 1
      /\ results[r] # <<>> /\ pc[r] = "loop" => Engine!Remaining(r) = 0
  BY <1>1, OneResult DEF UnderWay
<1>4. CASE Engine!StopCancelled(r)
  <2>1. pc[r] = "loop" /\ results[r] = <<>> /\ pc'[r] = "ending"
    BY <1>2, <1>3, <1>4 DEF Engine!StopCancelled, Engine!Goto
  <2> QED
    BY <2>1 DEF RunToGo
<1>5. CASE Engine!StartStep(r)
  <2>1. pc[r] = "loop" /\ results[r] = <<>> /\ pc'[r] = "resolving"
    BY <1>2, <1>3, <1>5 DEF Engine!StartStep, Engine!Goto
  <2> QED
    BY <2>1 DEF RunToGo
<1>6. CASE Engine!ResolveStep(r)
  <2>1. pc[r] = "resolving" /\ pc'[r] = "executing"
    BY <1>2, <1>6 DEF Engine!ResolveStep, Engine!Goto
  <2> QED
    BY <2>1 DEF RunToGo
<1>7. CASE Engine!FailStep(r) \/ Engine!CompleteStep(r)
  <2>1. pc[r] \in {"resolving", "executing"} /\ pc'[r] = "loop"
    BY <1>2, <1>7 DEF Engine!FailStep, Engine!CompleteStep, Engine!Goto
  <2>2. results[r] = <<>>
    BY <2>1 DEF UnderWay
  <2>3. \E x \in {"COMPLETED", "FAILED"} : results'[r] = Append(<<>>, x)
    BY <1>2, <1>7, <2>2 DEF Engine!FailStep, Engine!CompleteStep, Engine!Record
  <2>4. results'[r] # <<>>
    BY <2>3, OneResult
  <2> QED
    BY <2>1, <2>4 DEF RunToGo
<1>8. CASE Engine!EndLoop(r)
  <2>1. pc[r] = "loop" /\ results[r] # <<>> /\ pc'[r] = "ending"
    BY <1>2, <1>3, <1>8 DEF Engine!EndLoop, Engine!Goto
  <2> QED
    BY <2>1 DEF RunToGo
<1> QED
  BY <1>4, <1>5, <1>6, <1>7, <1>8 DEF Proceeds

\* The numbers that the bound is made of.
LEMMA CallCounts ==
    ASSUME IInv, NEW i \in Invocation
    PROVE  /\ Len(Todo(i)) \in 0 .. MostSteps /\ MostSteps \in Nat
           /\ Len(reported[i]) \in Nat /\ Len(begun[i]) \in Nat
           /\ Len(reported[i]) <= Len(begun[i]) /\ Len(begun[i]) <= Len(Todo(i))
           /\ place[i] \in {"idle", "between", "running", "ended"}
           /\ \A r \in Run : RunToGo(r) \in 1 .. 5
           /\ place[i] \in {"idle", "ended", "between"} => Len(begun[i]) = Len(reported[i])
<1>1. Types /\ ControlInv(i)
  BY DEF IInv, CallInv
<1>2. Len(Todo(i)) \in 0 .. MostSteps
  BY <1>1, TodoSteps, Lengths
<1>3. place[i] \in {"idle", "between", "running", "ended"}
  BY <1>1 DEF Types
<1> QED
  BY <1>1, <1>2, <1>3, Lengths DEF ControlInv, RunToGo

\* The bound of a call whose step is under way, before and after a step.
LEMMA RunningToGo ==
    ASSUME NEW i \in Invocation, NEW q
    PROVE  /\ place[i] = "running" /\ q = <<i, Len(begun[i])>> =>
                 ToGo(i) = 6 * (Len(Todo(i)) - Len(begun[i])) + 1 + RunToGo(q)
           /\ place'[i] = "running" /\ q = <<i, Len(begun'[i])>> =>
                 ToGo(i)' = 6 * (Len(Todo(i)') - Len(begun'[i])) + 1 + RunToGo(q)'
<1>1. ASSUME place[i] = "running", q = <<i, Len(begun[i])>>
      PROVE  ToGo(i) = 6 * (Len(Todo(i)) - Len(begun[i])) + 1 + RunToGo(q)
  BY <1>1 DEF ToGo
<1>2. ASSUME place'[i] = "running", q = <<i, Len(begun'[i])>>
      PROVE  ToGo(i)' = 6 * (Len(Todo(i)') - Len(begun'[i])) + 1 + RunToGo(q)'
  BY <1>2 DEF ToGo, RunToGo
<1> QED
  BY <1>1, <1>2

\* A call that gets on gets nearer to its end.
LEMMA CallAdvances ==
    ASSUME IInv, NEW i \in Invocation,
           \/ Progress(i)
           \/ \E c \in CapabilityId : InvokeUnknown(i, c)
           \/ \E c \in CapabilityId, given \in Offer :
                 InvokeWithout(i, c, given) \/ Invoke(i, c, given)
    PROVE  ToGo(i)' < ToGo(i) /\ place[i] # "ended"
<1> DEFINE k == Len(Todo(i))
           n == Len(reported[i])
<1>0. /\ Types /\ DOMAIN place = Invocation /\ DOMAIN composite = Invocation
      /\ DOMAIN reported = Invocation /\ DOMAIN begun = Invocation
      /\ busy = i => place[i] = "between"
  BY DEF IInv, Types, CallInv, ControlInv
<1>1. /\ k \in 0 .. MostSteps /\ MostSteps \in Nat /\ n \in Nat /\ n <= k
      /\ place[i] \in {"idle", "between", "ended"} => Len(begun[i]) = n
      /\ \A r \in Run : RunToGo(r) \in 1 .. 5
  BY CallCounts
<1>2. place[i] = "idle" => ToGo(i) = 6 * MostSteps + 2
  BY DEF ToGo
<1>3. place[i] = "between" => ToGo(i) = 6 * (k - n) + 1
  BY DEF ToGo
<1>4. place'[i] = "ended" => ToGo(i)' = 0
  BY DEF ToGo
<1>5. CASE place[i] = "idle" /\ place'[i] = "ended"
  BY <1>1, <1>2, <1>4, <1>5
<1>6. ASSUME NEW c \in CapabilityId, NEW given \in Offer, Invoke(i, c, given)
      PROVE  ToGo(i)' < ToGo(i) /\ place[i] # "ended"
  <2>1. /\ place[i] = "idle" /\ place'[i] = "between" /\ reported' = reported
    BY <1>0, <1>6 DEF Invoke
  <2>2. IInv'
    BY <1>6, StepInvoke
  <2>3. Todo(i)' = registry[c].steps /\ Len(registry[c].steps) \in 0 .. MostSteps
    <3>1. registry[c] # None /\ composite'[i] = registry[c]
      BY <1>0, <1>6 DEF Invoke
    <3>2. registry[c] \in Definition
      BY <1>0, <3>1 DEF Types, Valid
    <3>3. IsDefinition(registry[c])
      BY <3>2
    <3> QED
      BY <3>1, <3>3, LenProperties DEF Todo, IsDefinition
  <2>4. ToGo(i)' = 6 * (Len(registry[c].steps) - n) + 1
    BY <2>1, <2>3 DEF ToGo
  <2>5. n = 0
    <3>1. begun[i] = <<>>
      BY <2>1 DEF IInv, CallInv, ControlInv
    <3> QED
      BY <1>1, <2>1, <3>1
  <2> DEFINE l == Len(registry[c].steps)
  <2>6. 6 * (l - n) + 1 < 6 * MostSteps + 2
    BY <1>1, <2>3, <2>5
  <2> QED
    BY <1>2, <2>1, <2>4, <2>6
<1>7. CASE place[i] = "between" /\ place'[i] = "ended"
  <2>1. k - n \in Nat
    BY <1>1
  <2> QED
    BY <1>3, <1>4, <1>7, <2>1
<1>8. CASE StartStep(i)
  <2>1. /\ place[i] = "between" /\ place'[i] = "running" /\ composite' = composite
        /\ n + 1 <= k /\ n + 1 \in 1 .. MostSteps
        /\ Len(begun'[i]) = n + 1
    <3>1. busy = i /\ place'[i] = "running" /\ composite' = composite /\ AtStep(i) <= Len(StepsOf(i))
      BY <1>0, <1>8 DEF StartStep
    <3>2. Todo(i) = StepsOf(i)
      BY <3>1, BetweenSteps
    <3>3. \E x : begun'[i] = Append(begun[i], x)
      BY <1>0, <1>8 DEF StartStep
    <3>4. begun[i] \in Seq(BegunStep) /\ begun'[i] \in Seq(BegunStep)
      <4>1. IInv'
        BY <1>8, StepStart
      <4> QED
        BY <1>0, <4>1 DEF IInv, Types
    <3>5. Len(begun'[i]) = Len(begun[i]) + 1
      BY <3>3, <3>4
    <3> QED
      BY <1>0, <1>1, <3>1, <3>2, <3>5 DEF AtStep
  <2>2. Todo(i)' = Todo(i)
    BY <2>1 DEF Todo
  <2>3. PICK q \in Run : q = <<i, n + 1>>
    BY <2>1 DEF Run
  <2>4. ToGo(i)' = 6 * (k - (n + 1)) + 1 + RunToGo(q)'
    BY <2>1, <2>2, <2>3, RunningToGo
  <2>5. RunToGo(q)' \in 1 .. 5
    BY DEF RunToGo
  <2> QED
    BY <1>1, <1>3, <2>1, <2>4, <2>5
<1>9. CASE RunStep(i)
  <2>1. /\ place[i] = "running" /\ place' = place /\ composite' = composite /\ begun' = begun
        /\ Proceeds(Under(i)) \/ Engine!CompleteStep(Under(i))
    BY <1>9 DEF RunStep, Proceeds
  <2>2. Under(i) = <<i, Len(begun[i])>> /\ Under(i) \in Run /\ UnderWay(Under(i))
    BY <2>1, RunningStep
  <2>3. PICK q \in Run : /\ q = <<i, Len(begun[i])>> /\ UnderWay(q)
                         /\ Proceeds(q) \/ Engine!CompleteStep(q)
    BY <2>1, <2>2
  <2>4. RunToGo(q)' < RunToGo(q)
    BY <1>0, <2>3, RunGetsOn
  <2>5. RunToGo(q) \in 1 .. 5 /\ RunToGo(q)' \in 1 .. 5
    BY DEF RunToGo
  <2>6. Todo(i)' = Todo(i)
    BY <2>1 DEF Todo
  <2> DEFINE d == 6 * (Len(Todo(i)) - Len(begun[i])) + 1
  <2>7. ToGo(i) = d + RunToGo(q) /\ ToGo(i)' = d + RunToGo(q)'
    BY <2>1, <2>3, <2>6, RunningToGo
  <2>8. d \in Int
    BY <1>1, CallCounts
  <2> HIDE DEF d
  <2> QED
    BY <2>1, <2>4, <2>5, <2>7, <2>8
<1>10. CASE StepFailed(i) \/ StepSucceeded(i)
  <2>1. /\ place[i] = "running" /\ place'[i] \in {"between", "ended"}
        /\ composite' = composite /\ begun' = begun /\ Engine!Return(Under(i))
        /\ reported' = [reported EXCEPT ![i] = Append(@, StepState(i))]
    BY <1>0, <1>10 DEF StepFailed, StepSucceeded, End
  <2>2. Len(reported'[i]) = Len(begun[i]) /\ Len(begun[i]) \in 1 .. k
    BY <2>1, ReturnOfStep, RunningStep
  <2>3. Todo(i)' = Todo(i)
    BY <2>1 DEF Todo
  <2> DEFINE d == 6 * (k - Len(begun[i])) + 1
             q == <<i, Len(begun[i])>>
  <2>4. ToGo(i) = d + RunToGo(q) /\ RunToGo(q) \in 1 .. 5
    BY <2>1 DEF ToGo, RunToGo
  <2>5. ToGo(i)' \in {d, 0}
    BY <2>1, <2>2, <2>3 DEF ToGo
  <2>6. d \in Nat
    BY <1>1, <2>2
  <2> HIDE DEF d, q
  <2> QED
    BY <2>1, <2>4, <2>5, <2>6
<1>11. CASE \/ \E c \in CapabilityId : InvokeUnknown(i, c)
            \/ \E c \in CapabilityId, given \in Offer : InvokeWithout(i, c, given)
  BY <1>0, <1>5, <1>11 DEF InvokeUnknown, InvokeWithout, End
<1>12. CASE StopBetween(i) \/ StepBindingFails(i) \/ Finish(i) \/ OutputBindingFails(i)
  BY <1>0, <1>7, <1>12 DEF StopBetween, StepBindingFails, Finish, OutputBindingFails, End
<1> QED
  BY <1>6, <1>8, <1>9, <1>10, <1>11, <1>12 DEF Progress

\* No other step does anything for it.
LEMMA CallRests ==
    ASSUME IInv, [Next]_vars, NEW i \in Invocation
    PROVE  \/ ToGo(i)' < ToGo(i) /\ place[i] # "ended"
           \/ Rests(i)
<1>1. CASE UNCHANGED <<callVars, engineVars>>
  BY <1>1 DEF Rests, Untouched, callVars, engineVars
<1>2. CASE Cancel(i)
  BY <1>2 DEF Cancel, Rests, Untouched, callVars
<1>3. CASE \/ \E c \in CapabilityId : Unregister(c)
           \/ \E c \in CapabilityId, d \in Definition, overwrite \in BOOLEAN :
                 Register(c, d, overwrite)
  BY <1>1, <1>3 DEF Register, Unregister
<1>4. ASSUME NEW j \in Invocation,
             \/ Cancel(j) \/ Progress(j)
             \/ \E c \in CapabilityId : InvokeUnknown(j, c)
             \/ \E c \in CapabilityId, given \in Offer :
                   InvokeWithout(j, c, given) \/ Invoke(j, c, given)
      PROVE  \/ ToGo(i)' < ToGo(i) /\ place[i] # "ended"
             \/ Rests(i)
  <2>1. CASE j = i
    BY <1>2, <1>4, <2>1, CallAdvances
  <2>2. CASE j # i
    <3>1. Same(i)
      BY <1>4, <2>2, OwnStep DEF OthersSame
    <3> QED
      BY <3>1 DEF Same, Rests
  <2> QED
    BY <2>1, <2>2
<1> QED
  BY <1>1, <1>3, <1>4 DEF Next, vars

\* The first of them follows from where a call is.
LEMMA CallsAreCounted == IInv => CallsCount
<1> SUFFICES ASSUME IInv, NEW i \in Invocation
             PROVE  /\ ToGo(i) \in 0 .. 6 * MostSteps + 2
                    /\ ToGo(i) = 0 <=> place[i] = "ended"
  BY DEF CallsCount
<1> DEFINE k == Len(Todo(i))
           b == Len(begun[i])
           q == <<i, Len(begun[i])>>
<1>1. /\ k \in 0 .. MostSteps /\ MostSteps \in Nat /\ b \in Nat /\ b <= k
      /\ place[i] \in {"idle", "between", "running", "ended"}
      /\ place[i] = "between" => Len(reported[i]) = b
  BY CallCounts
<1>2. ASSUME place[i] = "running" PROVE b >= 1
  <2>1. b \in 1 .. MostSteps
    BY <1>2, RunningStep
  <2> HIDE DEF b
  <2> QED
    BY <2>1
<1>3. RunToGo(q) \in 1 .. 5
  BY DEF RunToGo
<1>4. /\ place[i] = "idle" => ToGo(i) = 6 * MostSteps + 2
      /\ place[i] = "between" => ToGo(i) = 6 * (k - b) + 1
      /\ place[i] = "running" => ToGo(i) = 6 * (k - b) + 1 + RunToGo(q)
      /\ place[i] = "ended" => ToGo(i) = 0
  BY <1>1 DEF ToGo
<1> HIDE DEF k, b, q
<1> QED
  BY <1>1, <1>2, <1>3, <1>4

\* An invoke() takes at most six steps for each step of the longest definition
\* and two more (composite/engine.py 68-199): what is registered meanwhile, whoever
\* sets its token and however many calls overlap, nothing adds to what it has
\* to do, and once it is over nothing is done for it. This is the part of
\* EveryInvocationEnds that needs no fairness.
THEOREM InvocationsAreBounded == Spec => []CallsCount /\ [][CallsGetOn]_vars
<1>1. IInv /\ [Next]_vars => CallsGetOn
  BY CallRests DEF CallsGetOn
<1> QED
  BY <1>1, Invariant, CallsAreCounted, PTL DEF Spec

=============================================================================
