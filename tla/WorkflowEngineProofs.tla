------------------------ MODULE WorkflowEngineProofs ------------------------
(***************************************************************************)
(* What WorkflowEngine guarantees for every number of runs and workflows   *)
(* with any number of steps: the invariants of the run "workflow", and     *)
(* that every step follows the map of transitions declared for it.         *)
(***************************************************************************)
EXTENDS WorkflowEngine, TLAPS

USE WorkflowAssumption

-----------------------------------------------------------------------------
(* The inductive invariant.                                                *)

\* What a run has recorded and published at each place it may be suspended at.
PlaceInv(r) ==
    /\ pc[r] \in {"idle", "empty"} =>
          results[r] = <<>> /\ ~failed[r] /\ outcome[r] = "none"
    /\ pc[r] = "idle" => events[r] = <<>>
    /\ pc[r] = "empty" => StepCount[work[r]] = 0 /\ events[r] = <<"started">>
    /\ pc[r] \in {"loop", "resolving", "executing"} =>
          /\ StepCount[work[r]] > 0
          /\ outcome[r] = "none"
          /\ ~Has(r, "CANCELLED")
          /\ failed[r] => Has(r, "FAILED") /\ events[r] = <<"started", "failed">>
          /\ ~failed[r] => AllAre(r, "COMPLETED") /\ events[r] = <<"started">>
    /\ pc[r] \in {"resolving", "executing"} =>
          ~failed[r] /\ Len(results[r]) < StepCount[work[r]]
    /\ pc[r] \in {"ending", "returned"} => outcome[r] # "none"

\* FailFast and OutcomeTellsSteps for one run.
StepsInOrder(r) ==
    /\ Len(results[r]) <= StepCount[work[r]]
    /\ \A k \in DOMAIN results[r] :
          /\ results[r][k] \in {"COMPLETED", "FAILED"} =>
                \A j \in 1 .. k - 1 : results[r][j] = "COMPLETED"
          /\ results[r][k] = "SKIPPED" =>
                \E j \in 1 .. k - 1 : results[r][j] = "FAILED"
          /\ results[r][k] = "CANCELLED" =>
                \A j \in k .. Len(results[r]) : results[r][j] = "CANCELLED"

OutcomeFits(r) ==
    outcome[r] # "none" =>
        /\ Len(results[r]) = StepCount[work[r]]
        /\ outcome[r] = "COMPLETED" => /\ AllAre(r, "COMPLETED")
                                       /\ events[r] = <<"started", "completed">>
        /\ outcome[r] = "FAILED"    => /\ Has(r, "FAILED") /\ ~Has(r, "CANCELLED")
                                       /\ events[r] = <<"started", "failed">>
        /\ outcome[r] = "CANCELLED" => /\ token[r] /\ Has(r, "CANCELLED")
                                       /\ Last(events[r]) = "cancelled"

RunInv(r) == PlaceInv(r) /\ StepsInOrder(r) /\ OutcomeFits(r)

IInv ==
    /\ TypeOK
    /\ \A r, q \in Run : work[r] = work[q] => r = q
    /\ \A r \in Run : RunInv(r)
    /\ ActiveIsRunning

-----------------------------------------------------------------------------
(* Sequences of results.                                                   *)

\* The tail that cancellation adds.
LEMMA CancelledTail ==
    ASSUME NEW n \in Nat
    PROVE  /\ [k \in 1 .. n |-> "CANCELLED"] \in Seq(StepState)
           /\ Len([k \in 1 .. n |-> "CANCELLED"]) = n
  BY DEF StepState

\* What Append and \o leave alone.
LEMMA Concatenation ==
    ASSUME NEW s \in Seq(StepState), NEW t \in Seq(StepState)
    PROVE  /\ s \o t \in Seq(StepState)
           /\ Len(s \o t) = Len(s) + Len(t)
           /\ DOMAIN (s \o t) = 1 .. Len(s) + Len(t)
           /\ \A k \in 1 .. Len(s) : (s \o t)[k] = s[k]
           /\ \A k \in Len(s) + 1 .. Len(s) + Len(t) : (s \o t)[k] = t[k - Len(s)]
  OBVIOUS

LEMMA Appending ==
    ASSUME NEW S, NEW s \in Seq(S), NEW x \in S
    PROVE  /\ Append(s, x) \in Seq(S)
           /\ Len(Append(s, x)) = Len(s) + 1
           /\ DOMAIN Append(s, x) = 1 .. Len(s) + 1
           /\ \A k \in 1 .. Len(s) : Append(s, x)[k] = s[k]
           /\ Append(s, x)[Len(s) + 1] = x
  OBVIOUS

LEMMA AppendToOne ==
    ASSUME NEW S, NEW x \in S, NEW y \in S
    PROVE  Append(<<x>>, y) = <<x, y>>
<1>1. /\ <<x>> \in Seq(S)
      /\ Len(<<x>>) = 1 /\ <<x>>[1] = x
  OBVIOUS
<1>2. PICK s \in Seq(S) : s = <<x>> /\ Len(s) = 1 /\ s[1] = x
  BY <1>1
<1>3. PICK t \in Seq(S) : t = Append(s, y)
  BY Appending
<1>4. Len(t) = 2 /\ t[1] = x /\ t[2] = y
  <2>1. 1 \in 1 .. Len(s)
    BY <1>2
  <2> QED
    BY <1>2, <1>3, <2>1, Appending
<1>5. t = <<x, y>>
  BY <1>4
<1> QED
  BY <1>2, <1>3, <1>5

\* The events of a run that is started and then ends.
LEMMA TwoEvents == /\ Append(<<"started">>, "completed") = <<"started", "completed">>
                   /\ Append(<<"started">>, "failed") = <<"started", "failed">>
<1> DEFINE Kind == {"started", "completed", "failed"}
<1>1. "started" \in Kind /\ "completed" \in Kind /\ "failed" \in Kind
  OBVIOUS
<1> HIDE DEF Kind
<1> QED
  BY <1>1, AppendToOne

-----------------------------------------------------------------------------
(* Each step preserves the invariant.                                      *)

LEMMA InvInit == Init => IInv
<1> SUFFICES ASSUME Init PROVE IInv
  OBVIOUS
<1> USE DEF Init
<1>1. TypeOK
  BY DEF TypeOK
<1>2. \A r \in Run : RunInv(r)
  BY DEF RunInv, PlaceInv, StepsInOrder, OutcomeFits
<1>3. ActiveIsRunning
  BY DEF ActiveIsRunning, IsRunning
<1>4. \A r, q \in Run : work[r] = work[q] => r = q
  OBVIOUS
<1> QED
  BY <1>1, <1>2, <1>3, <1>4 DEF IInv

\* Run q is where it was.
Untouched(q) ==
    /\ pc'[q] = pc[q] /\ results'[q] = results[q] /\ failed'[q] = failed[q]
    /\ token'[q] = token[q] /\ outcome'[q] = outcome[q] /\ events'[q] = events[q]

\* The list of active work follows run r.
ActiveFollows(r) ==
    \/ active' = active /\ (IsRunning(r)' <=> IsRunning(r))
    \/ active' = active \cup {work[r]} /\ IsRunning(r)'
    \/ active' = active \ {work[r]} /\ ~IsRunning(r)'

LEMMA OtherRuns ==
    ASSUME NEW q \in Run, RunInv(q), work' = work, Untouched(q)
    PROVE  RunInv(q)' /\ (IsRunning(q)' <=> IsRunning(q))
<1> USE DEF Untouched
<1>1. PlaceInv(q)'
  BY DEF RunInv, PlaceInv, Has, AllAre
<1>2. StepsInOrder(q)'
  BY DEF RunInv, StepsInOrder
<1>3. OutcomeFits(q)'
  BY DEF RunInv, OutcomeFits, Has, AllAre, Last
<1>4. IsRunning(q)' <=> IsRunning(q)
  BY DEF IsRunning
<1> QED
  BY <1>1, <1>2, <1>3, <1>4 DEF RunInv

\* A step of run r has to be looked at for r only, since every run has a
\* workflow of its own.
LEMMA OneRunMoves ==
    ASSUME IInv, NEW r \in Run, work' = work,
           \A q \in Run \ {r} : Untouched(q),
           TypeOK', RunInv(r)', ActiveFollows(r)
    PROVE  IInv'
<1>1. \A q \in Run \ {r} : RunInv(q)' /\ (IsRunning(q)' <=> IsRunning(q))
  BY OtherRuns DEF IInv
<1>2. \A q \in Run : RunInv(q)'
  BY <1>1
<1>3. active = {work[q] : q \in {p \in Run : IsRunning(p)}}
  BY DEF IInv, ActiveIsRunning
<1>4. active' = {work[q] : q \in {p \in Run : IsRunning(p)'}}
  <2>1. \A q \in Run \ {r} : work[q] # work[r]
    BY DEF IInv
  <2>2. CASE active' = active /\ (IsRunning(r)' <=> IsRunning(r))
    BY <1>1, <1>3, <2>2
  <2>3. CASE active' = active \cup {work[r]} /\ IsRunning(r)'
    BY <1>1, <1>3, <2>3
  <2>4. CASE active' = active \ {work[r]} /\ ~IsRunning(r)'
    BY <1>1, <1>3, <2>1, <2>4
  <2> QED
    BY <2>2, <2>3, <2>4 DEF ActiveFollows
<1>5. ActiveIsRunning'
  BY <1>4 DEF ActiveIsRunning
<1> QED
  BY <1>2, <1>5 DEF IInv

\* The steps that record no result.
Quiet(r) ==
    \/ Cancel(r) \/ BeginEmpty(r) \/ Begin(r) \/ EndEmpty(r)
    \/ StartStep(r) \/ ResolveStep(r) \/ EndLoop(r) \/ Return(r)

LEMMA StepQuiet == ASSUME IInv, NEW r \in Run, Quiet(r) PROVE IInv'
<1> USE DEF Publish, Goto, Conclude, Steps, Remaining
<1>1. TypeOK /\ PlaceInv(r) /\ StepsInOrder(r) /\ OutcomeFits(r) /\ StepCount[work[r]] \in Nat
  BY DEF IInv, TypeOK, RunInv
<1>2. work' = work /\ results' = results /\ \A q \in Run \ {r} : Untouched(q)
  BY <1>1 DEF TypeOK, Untouched, Quiet, Cancel, BeginEmpty, Begin, EndEmpty, StartStep,
              ResolveStep, EndLoop, Return
<1>3. StepsInOrder(r)'
  BY <1>1, <1>2 DEF StepsInOrder
<1>4. /\ results[r] \in Seq(StepState)
      /\ Append(<<"started">>, "completed") = <<"started", "completed">>
      /\ 1 .. StepCount[work[r]] = {} => StepCount[work[r]] = 0
  <2>1. StepCount[work[r]] > 0 => 1 \in 1 .. StepCount[work[r]]
    BY <1>1
  <2>2. 1 .. StepCount[work[r]] = {} => StepCount[work[r]] = 0
    BY <1>1, <2>1
  <2> QED
    BY <1>1, <2>2, TwoEvents DEF TypeOK
<1>5. ASSUME Cancel(r) PROVE TypeOK' /\ PlaceInv(r)' /\ OutcomeFits(r)' /\ ActiveFollows(r)
  <2>1. TypeOK'
    BY <1>1, <1>5 DEF Cancel, TypeOK, WorkflowState
  <2>2. PlaceInv(r)'
    BY <1>1, <1>2, <1>4, <1>5 DEF Cancel, TypeOK, PlaceInv, StepsInOrder, Has, AllAre
  <2>3. OutcomeFits(r)'
    BY <1>1, <1>2, <1>4, <1>5 DEF Cancel, TypeOK, PlaceInv, StepsInOrder, OutcomeFits, Has, AllAre, Last
  <2>4. ActiveFollows(r)
    BY <1>1, <1>5 DEF Cancel, TypeOK, PlaceInv, ActiveFollows, IsRunning
  <2> QED
    BY <2>1, <2>2, <2>3, <2>4
<1>6. ASSUME BeginEmpty(r) PROVE TypeOK' /\ PlaceInv(r)' /\ OutcomeFits(r)' /\ ActiveFollows(r)
  <2>1. TypeOK'
    BY <1>1, <1>6 DEF BeginEmpty, TypeOK, WorkflowState
  <2>2. PlaceInv(r)'
    BY <1>1, <1>2, <1>4, <1>6 DEF BeginEmpty, TypeOK, PlaceInv, StepsInOrder, Has, AllAre
  <2>3. OutcomeFits(r)'
    BY <1>1, <1>2, <1>4, <1>6 DEF BeginEmpty, TypeOK, PlaceInv, StepsInOrder, OutcomeFits, Has, AllAre, Last
  <2>4. ActiveFollows(r)
    BY <1>1, <1>6 DEF BeginEmpty, TypeOK, PlaceInv, ActiveFollows, IsRunning
  <2> QED
    BY <2>1, <2>2, <2>3, <2>4
<1>7. ASSUME Begin(r) PROVE TypeOK' /\ PlaceInv(r)' /\ OutcomeFits(r)' /\ ActiveFollows(r)
  <2>1. TypeOK'
    BY <1>1, <1>7 DEF Begin, TypeOK, WorkflowState
  <2>2. PlaceInv(r)'
    BY <1>1, <1>2, <1>4, <1>7 DEF Begin, TypeOK, PlaceInv, StepsInOrder, Has, AllAre
  <2>3. OutcomeFits(r)'
    BY <1>1, <1>2, <1>4, <1>7 DEF Begin, TypeOK, PlaceInv, StepsInOrder, OutcomeFits, Has, AllAre, Last
  <2>4. ActiveFollows(r)
    BY <1>1, <1>7 DEF Begin, TypeOK, PlaceInv, ActiveFollows, IsRunning
  <2> QED
    BY <2>1, <2>2, <2>3, <2>4
<1>8. ASSUME EndEmpty(r) PROVE TypeOK' /\ PlaceInv(r)' /\ OutcomeFits(r)' /\ ActiveFollows(r)
  <2>1. TypeOK'
    BY <1>1, <1>8 DEF EndEmpty, TypeOK, WorkflowState
  <2>2. PlaceInv(r)'
    BY <1>1, <1>2, <1>4, <1>8 DEF EndEmpty, TypeOK, PlaceInv, StepsInOrder, Has, AllAre
  <2>3. OutcomeFits(r)'
    <3>1. outcome'[r] = "COMPLETED" /\ events'[r] = <<"started", "completed">>
      BY <1>1, <1>4, <1>8 DEF EndEmpty, TypeOK, PlaceInv
    <3>2. results'[r] = <<>> /\ StepCount[work[r]] = 0
      BY <1>1, <1>2, <1>8 DEF EndEmpty, PlaceInv
    <3> QED
      BY <1>2, <3>1, <3>2 DEF OutcomeFits, AllAre
  <2>4. ActiveFollows(r)
    BY <1>1, <1>8 DEF EndEmpty, TypeOK, PlaceInv, ActiveFollows, IsRunning
  <2> QED
    BY <2>1, <2>2, <2>3, <2>4
<1>9. ASSUME StartStep(r) PROVE TypeOK' /\ PlaceInv(r)' /\ OutcomeFits(r)' /\ ActiveFollows(r)
  <2>1. TypeOK'
    BY <1>1, <1>9 DEF StartStep, TypeOK, WorkflowState
  <2>2. PlaceInv(r)'
    BY <1>1, <1>2, <1>4, <1>9 DEF StartStep, TypeOK, PlaceInv, StepsInOrder, Has, AllAre
  <2>3. OutcomeFits(r)'
    BY <1>1, <1>2, <1>4, <1>9 DEF StartStep, TypeOK, PlaceInv, StepsInOrder, OutcomeFits, Has, AllAre, Last
  <2>4. ActiveFollows(r)
    BY <1>1, <1>9 DEF StartStep, TypeOK, PlaceInv, ActiveFollows, IsRunning
  <2> QED
    BY <2>1, <2>2, <2>3, <2>4
<1>10. ASSUME ResolveStep(r) PROVE TypeOK' /\ PlaceInv(r)' /\ OutcomeFits(r)' /\ ActiveFollows(r)
  <2>1. TypeOK'
    BY <1>1, <1>10 DEF ResolveStep, TypeOK, WorkflowState
  <2>2. PlaceInv(r)'
    BY <1>1, <1>2, <1>4, <1>10 DEF ResolveStep, TypeOK, PlaceInv, StepsInOrder, Has, AllAre
  <2>3. OutcomeFits(r)'
    BY <1>1, <1>2, <1>4, <1>10 DEF ResolveStep, TypeOK, PlaceInv, StepsInOrder, OutcomeFits, Has, AllAre, Last
  <2>4. ActiveFollows(r)
    BY <1>1, <1>10 DEF ResolveStep, TypeOK, PlaceInv, ActiveFollows, IsRunning
  <2> QED
    BY <2>1, <2>2, <2>3, <2>4
<1>11. ASSUME Return(r) PROVE TypeOK' /\ PlaceInv(r)' /\ OutcomeFits(r)' /\ ActiveFollows(r)
  <2>1. TypeOK'
    BY <1>1, <1>11 DEF Return, TypeOK, WorkflowState
  <2>2. PlaceInv(r)'
    BY <1>1, <1>2, <1>4, <1>11 DEF Return, TypeOK, PlaceInv, StepsInOrder, Has, AllAre
  <2>3. OutcomeFits(r)'
    BY <1>1, <1>2, <1>4, <1>11 DEF Return, TypeOK, PlaceInv, StepsInOrder, OutcomeFits, Has, AllAre, Last
  <2>4. ActiveFollows(r)
    BY <1>1, <1>11 DEF Return, TypeOK, PlaceInv, ActiveFollows, IsRunning
  <2> QED
    BY <2>1, <2>2, <2>3, <2>4
<1>12. ASSUME EndLoop(r) PROVE TypeOK' /\ PlaceInv(r)' /\ OutcomeFits(r)' /\ ActiveFollows(r)
  <2>1. TypeOK'
    <3>1. CASE failed[r]
      BY <1>1, <1>12, <3>1 DEF EndLoop, TypeOK, WorkflowState
    <3>2. CASE ~failed[r]
      <4>1. /\ outcome' = [outcome EXCEPT ![r] = "COMPLETED"]
            /\ events' = [events EXCEPT ![r] = Append(@, "completed")]
            /\ active' = active \ {work[r]}
        BY <1>12, <3>2 DEF EndLoop
      <4> QED
        BY <1>1, <1>12, <4>1 DEF EndLoop, TypeOK, WorkflowState
    <3> QED
      BY <3>1, <3>2
  <2>2. PlaceInv(r)'
    BY <1>1, <1>2, <1>4, <1>12 DEF EndLoop, TypeOK, PlaceInv, StepsInOrder, Has, AllAre
  <2>3. OutcomeFits(r)'
    <3>1. Len(results[r]) = StepCount[work[r]]
      BY <1>1, <1>4, <1>12 DEF EndLoop, StepsInOrder
    <3>2. CASE failed[r]
      <4>1. outcome'[r] = "FAILED" /\ events'[r] = <<"started", "failed">>
        BY <1>1, <1>12, <3>2 DEF EndLoop, TypeOK, PlaceInv
      <4> QED
        BY <1>1, <1>2, <1>12, <3>1, <3>2, <4>1 DEF EndLoop, PlaceInv, OutcomeFits, Has
    <3>3. CASE ~failed[r]
      <4>1. outcome'[r] = "COMPLETED" /\ events'[r] = <<"started", "completed">>
        <5>1. /\ outcome' = [outcome EXCEPT ![r] = "COMPLETED"]
              /\ events' = [events EXCEPT ![r] = Append(@, "completed")]
          BY <1>12, <3>3 DEF EndLoop
        <5>2. events[r] = <<"started">>
          BY <1>1, <1>12, <3>3 DEF EndLoop, PlaceInv
        <5> QED
          BY <1>1, <1>4, <5>1, <5>2 DEF TypeOK
      <4> QED
        BY <1>1, <1>2, <1>12, <3>1, <3>3, <4>1 DEF EndLoop, PlaceInv, OutcomeFits, AllAre
    <3> QED
      BY <3>2, <3>3
  <2>4. ActiveFollows(r)
    BY <1>1, <1>12 DEF EndLoop, TypeOK, PlaceInv, ActiveFollows, IsRunning
  <2> QED
    BY <2>1, <2>2, <2>3, <2>4
<1>13. TypeOK' /\ PlaceInv(r)' /\ OutcomeFits(r)' /\ ActiveFollows(r)
  BY <1>5, <1>6, <1>7, <1>8, <1>9, <1>10, <1>11, <1>12 DEF Quiet
<1> QED
  BY <1>2, <1>3, <1>13, OneRunMoves DEF RunInv

\* The steps that record the result of one step.
LEMMA StepRecords ==
    ASSUME IInv, NEW r \in Run, SkipStep(r) \/ CompleteStep(r) \/ FailStep(r)
    PROVE  IInv'
<1>1. /\ TypeOK /\ PlaceInv(r) /\ StepsInOrder(r) /\ OutcomeFits(r)
      /\ StepCount[work[r]] \in Nat
  BY DEF IInv, TypeOK, RunInv
<1>2. PICK x \in {"SKIPPED", "COMPLETED", "FAILED"} :
          /\ results' = [results EXCEPT ![r] = Append(@, x)]
          /\ x = "SKIPPED" => failed[r]
          /\ x # "SKIPPED" => AllAre(r, "COMPLETED") /\ ~failed[r]
          /\ x = "FAILED" => /\ failed' = [failed EXCEPT ![r] = TRUE]
                             /\ events' = [events EXCEPT ![r] = Append(@, "failed")]
                             /\ active' = active \ {work[r]}
          /\ x # "FAILED" => UNCHANGED <<failed, events, active>>
  BY <1>1 DEF SkipStep, CompleteStep, FailStep, Publish, Goto, Record, PlaceInv
<1>3. /\ UNCHANGED <<work, token, outcome>>
      /\ pc[r] \in {"loop", "resolving", "executing"} /\ pc' = [pc EXCEPT ![r] = "loop"]
      /\ Len(results[r]) < StepCount[work[r]]
  BY <1>1 DEF SkipStep, CompleteStep, FailStep, Publish, Goto, Record, Remaining, PlaceInv, TypeOK
<1>4. /\ results[r] \in Seq(StepState) /\ x \in StepState
      /\ DOMAIN results[r] = 1 .. Len(results[r]) /\ Len(results[r]) \in Nat
  BY <1>1 DEF TypeOK, StepState
<1>5. PICK q \in Seq(StepState) :
          /\ q = results'[r]
          /\ Len(q) = Len(results[r]) + 1
          /\ DOMAIN q = 1 .. Len(results[r]) + 1
          /\ \A k \in 1 .. Len(results[r]) : q[k] = results[r][k]
          /\ q[Len(results[r]) + 1] = x
  <2>1. results'[r] = Append(results[r], x)
    BY <1>1, <1>2 DEF TypeOK
  <2>2. /\ results'[r] \in Seq(StepState)
        /\ Len(results'[r]) = Len(results[r]) + 1
        /\ DOMAIN results'[r] = 1 .. Len(results[r]) + 1
        /\ \A k \in 1 .. Len(results[r]) : results'[r][k] = results[r][k]
        /\ results'[r][Len(results[r]) + 1] = x
    BY <1>4, <2>1, Appending
  <2> QED
    BY <2>2
<1>6. \A p \in Run \ {r} : Untouched(p)
  BY <1>1, <1>2, <1>3 DEF TypeOK, Untouched
<1>7. TypeOK'
  <2>1. results' \in [Run -> Seq(StepState)] /\ pc' \in [Run -> {"idle", "empty", "loop",
            "resolving", "executing", "ending", "returned"}]
    BY <1>1, <1>2, <1>3, <1>5 DEF TypeOK
  <2>2. /\ failed' \in [Run -> BOOLEAN] /\ active' \subseteq Workflow
        /\ events' \in [Run -> Seq({"started", "completed", "failed", "cancelled"})]
    <3>1. CASE x = "FAILED"
      <4>1. Append(events[r], "failed") \in Seq({"started", "completed", "failed", "cancelled"})
        BY <1>1 DEF TypeOK
      <4>2. failed' \in [Run -> BOOLEAN]
        BY <1>1, <1>2, <3>1 DEF TypeOK
      <4>3. active' \subseteq Workflow
        BY <1>1, <1>2, <3>1 DEF TypeOK
      <4>4. events' \in [Run -> Seq({"started", "completed", "failed", "cancelled"})]
        <5>1. events' = [events EXCEPT ![r] = Append(events[r], "failed")]
          BY <1>2, <3>1
        <5> QED
          BY <1>1, <4>1, <5>1 DEF TypeOK
      <4> QED
        BY <4>2, <4>3, <4>4
    <3>2. CASE x # "FAILED"
      BY <1>1, <1>2, <3>2 DEF TypeOK
    <3> QED
      BY <3>1, <3>2
  <2> QED
    BY <1>1, <1>3, <2>1, <2>2 DEF TypeOK
<1>8. outcome[r] = "none" /\ ~Has(r, "CANCELLED") /\ (failed[r] => Has(r, "FAILED"))
      /\ (~failed[r] => AllAre(r, "COMPLETED"))
  BY <1>1, <1>3 DEF PlaceInv
<1>9. PlaceInv(r)'
  <2>1. failed'[r] => Has(r, "FAILED")'
    <3>1. CASE x = "FAILED"
      <4>1. Len(results[r]) + 1 \in DOMAIN q
        BY <1>4, <1>5
      <4> QED
        BY <1>5, <3>1, <4>1 DEF Has
    <3>2. CASE x # "FAILED"
      BY <1>2, <1>4, <1>5, <1>8, <3>2 DEF Has
    <3> QED
      BY <3>1, <3>2
  <2>2. ~Has(r, "CANCELLED")'
    <3>1. ASSUME NEW k \in DOMAIN q PROVE q[k] # "CANCELLED"
      BY <1>4, <1>5, <1>8 DEF Has
    <3> QED
      BY <1>5, <3>1 DEF Has
  <2>3. ~failed'[r] => AllAre(r, "COMPLETED")'
    <3> SUFFICES ASSUME ~failed'[r], NEW k \in DOMAIN q PROVE q[k] = "COMPLETED"
      BY <1>5 DEF AllAre
    <3>1. x = "COMPLETED" /\ AllAre(r, "COMPLETED")
      BY <1>1, <1>2 DEF TypeOK
    <3> QED
      BY <1>4, <1>5, <3>1 DEF AllAre
  <2>4. /\ failed'[r] => events'[r] = <<"started", "failed">>
        /\ ~failed'[r] => events'[r] = <<"started">>
    BY <1>1, <1>2, <1>3, TwoEvents DEF TypeOK, PlaceInv
  <2> QED
    BY <1>1, <1>3, <1>8, <2>1, <2>2, <2>3, <2>4 DEF TypeOK, PlaceInv
<1>10. StepsInOrder(r)'
  <2>1. ASSUME NEW k \in DOMAIN q
        PROVE  /\ q[k] \in {"COMPLETED", "FAILED"} => \A j \in 1 .. k - 1 : q[j] = "COMPLETED"
               /\ q[k] = "SKIPPED" => \E j \in 1 .. k - 1 : q[j] = "FAILED"
               /\ q[k] # "CANCELLED"
    <3>1. CASE k \in 1 .. Len(results[r])
      <4>1. results[r][k] # "CANCELLED"
        BY <1>4, <1>8, <3>1 DEF Has
      <4>2. \A j \in 1 .. k - 1 : q[j] = results[r][j]
        BY <1>4, <1>5, <3>1
      <4> QED
        <5>1. /\ results[r][k] \in {"COMPLETED", "FAILED"} =>
                    \A j \in 1 .. k - 1 : results[r][j] = "COMPLETED"
              /\ results[r][k] = "SKIPPED" =>
                    \E j \in 1 .. k - 1 : results[r][j] = "FAILED"
          BY <1>1, <1>4, <3>1 DEF StepsInOrder
        <5> QED
          BY <1>5, <3>1, <4>1, <4>2, <5>1
    <3>2. CASE k = Len(results[r]) + 1
      <4>1. CASE x = "SKIPPED"
        BY <1>2, <1>4, <1>5, <1>8, <3>2, <4>1 DEF Has
      <4>2. CASE x # "SKIPPED"
        <5>1. \A j \in 1 .. Len(results[r]) : q[j] = "COMPLETED"
          BY <1>2, <1>4, <1>5, <4>2 DEF AllAre
        <5>2. q[k] = x /\ k - 1 = Len(results[r])
          BY <1>4, <1>5, <3>2
        <5> QED
          BY <4>2, <5>1, <5>2
      <4> QED
        BY <4>1, <4>2
    <3> QED
      BY <1>4, <1>5, <3>1, <3>2
  <2>2. Len(q) <= StepCount[work[r]]
    BY <1>1, <1>3, <1>4, <1>5
  <2> QED
    BY <1>3, <1>5, <2>1, <2>2 DEF StepsInOrder
<1>11. OutcomeFits(r)'
  BY <1>3, <1>8 DEF OutcomeFits
<1>12. ActiveFollows(r)
  BY <1>1, <1>2, <1>3 DEF TypeOK, ActiveFollows, IsRunning
<1> QED
  BY <1>3, <1>6, <1>7, <1>9, <1>10, <1>11, <1>12, OneRunMoves DEF RunInv

\* The steps that record what is left as cancelled.
LEMMA StepCancels ==
    ASSUME IInv, NEW r \in Run, BeginCancelled(r) \/ StopCancelled(r)
    PROVE  IInv'
<1> DEFINE n == StepCount[work[r]] - Len(results[r])
           tail == [k \in 1 .. n |-> "CANCELLED"]
<1>1. /\ TypeOK /\ PlaceInv(r) /\ StepsInOrder(r) /\ StepCount[work[r]] \in Nat
      /\ results[r] \in Seq(StepState)
      /\ DOMAIN results[r] = 1 .. Len(results[r]) /\ Len(results[r]) \in Nat
      /\ events[r] \in Seq({"started", "completed", "failed", "cancelled"})
  BY DEF IInv, TypeOK, RunInv
<1>2. /\ results' = [results EXCEPT ![r] = @ \o tail]
      /\ outcome' = [outcome EXCEPT ![r] = "CANCELLED"]
      /\ events' = [events EXCEPT ![r] = Append(@, "cancelled")]
      /\ active' = active \ {work[r]}
      /\ pc' = [pc EXCEPT ![r] = "ending"]
      /\ token[r] /\ UNCHANGED <<work, failed, token>>
  BY DEF BeginCancelled, StopCancelled, CancelRemaining, Conclude, Publish, Goto, Remaining
<1>3. n \in Nat /\ n > 0 /\ ~Has(r, "CANCELLED")
  <2>1. CASE BeginCancelled(r)
    <3>1. results[r] = <<>> /\ 1 .. StepCount[work[r]] # {}
      BY <1>1, <2>1 DEF BeginCancelled, PlaceInv, Steps
    <3> QED
      BY <1>1, <3>1 DEF Has
  <2>2. CASE StopCancelled(r)
    BY <1>1, <2>2 DEF StopCancelled, PlaceInv, Remaining
  <2> QED
    BY <2>1, <2>2
<1>4. PICK t \in Seq(StepState) :
          t = tail /\ Len(t) = n /\ \A k \in 1 .. n : t[k] = "CANCELLED"
  BY <1>3, CancelledTail
<1>5. PICK q \in Seq(StepState) :
          /\ q = results'[r]
          /\ Len(q) = StepCount[work[r]]
          /\ DOMAIN q = 1 .. StepCount[work[r]]
          /\ \A k \in 1 .. Len(results[r]) : q[k] = results[r][k]
          /\ \A k \in Len(results[r]) + 1 .. StepCount[work[r]] : q[k] = "CANCELLED"
  <2>1. results'[r] = results[r] \o t
    BY <1>1, <1>2, <1>4 DEF TypeOK
  <2>2. Len(results[r]) + Len(t) = StepCount[work[r]]
    <3>1. Len(t) = StepCount[work[r]] - Len(results[r])
      BY <1>4
    <3> QED
      BY <1>1, <3>1
  <2>3. /\ results'[r] \in Seq(StepState)
        /\ Len(results'[r]) = StepCount[work[r]]
        /\ DOMAIN results'[r] = 1 .. StepCount[work[r]]
        /\ \A k \in 1 .. Len(results[r]) : results'[r][k] = results[r][k]
        /\ \A k \in Len(results[r]) + 1 .. StepCount[work[r]] :
               results'[r][k] = t[k - Len(results[r])]
    BY <1>1, <2>1, <2>2, Concatenation
  <2>4. \A k \in Len(results[r]) + 1 .. StepCount[work[r]] : k - Len(results[r]) \in 1 .. n
    BY <1>1
  <2> QED
    BY <1>4, <2>3, <2>4
<1> HIDE DEF tail
<1>6. \A p \in Run \ {r} : Untouched(p)
  BY <1>1, <1>2 DEF TypeOK, Untouched
<1>7. TypeOK'
  <2>1. results' \in [Run -> Seq(StepState)]
    BY <1>1, <1>2, <1>5 DEF TypeOK
  <2>2. events' \in [Run -> Seq({"started", "completed", "failed", "cancelled"})]
    <3>1. Append(events[r], "cancelled") \in Seq({"started", "completed", "failed", "cancelled"})
      BY <1>1
    <3>2. events' = [events EXCEPT ![r] = Append(events[r], "cancelled")]
      BY <1>2
    <3> QED
      BY <1>1, <3>1, <3>2 DEF TypeOK
  <2>3. pc' \in [Run -> {"idle", "empty", "loop", "resolving", "executing", "ending", "returned"}]
    BY <1>1, <1>2 DEF TypeOK
  <2>4. outcome' \in [Run -> WorkflowState \cup {"none"}]
    BY <1>1, <1>2 DEF TypeOK, WorkflowState
  <2>5. active' \subseteq Workflow
    BY <1>1, <1>2 DEF TypeOK
  <2> QED
    BY <1>1, <1>2, <2>1, <2>2, <2>3, <2>4, <2>5 DEF TypeOK
<1>8. pc'[r] = "ending" /\ outcome'[r] = "CANCELLED" /\ token'[r] /\ work'[r] = work[r]
  BY <1>1, <1>2 DEF TypeOK
<1>9. PlaceInv(r)'
  BY <1>8 DEF PlaceInv
<1>10. StepsInOrder(r)'
  <2>1. ASSUME NEW k \in DOMAIN q
        PROVE  /\ q[k] \in {"COMPLETED", "FAILED"} => \A j \in 1 .. k - 1 : q[j] = "COMPLETED"
               /\ q[k] = "SKIPPED" => \E j \in 1 .. k - 1 : q[j] = "FAILED"
               /\ q[k] = "CANCELLED" => \A j \in k .. Len(q) : q[j] = "CANCELLED"
    <3>1. CASE k \in 1 .. Len(results[r])
      <4>1. results[r][k] # "CANCELLED"
        BY <1>1, <1>3, <3>1 DEF Has
      <4>2. \A j \in 1 .. k - 1 : q[j] = results[r][j]
        BY <1>1, <1>5, <3>1
      <4>3. /\ results[r][k] \in {"COMPLETED", "FAILED"} =>
                  \A j \in 1 .. k - 1 : results[r][j] = "COMPLETED"
            /\ results[r][k] = "SKIPPED" =>
                  \E j \in 1 .. k - 1 : results[r][j] = "FAILED"
        BY <1>1, <3>1 DEF StepsInOrder
      <4> QED
        BY <1>5, <3>1, <4>1, <4>2, <4>3
    <3>2. CASE k \in Len(results[r]) + 1 .. StepCount[work[r]]
      <4>1. \A j \in k .. Len(q) : j \in Len(results[r]) + 1 .. StepCount[work[r]]
        BY <1>1, <1>5, <3>2
      <4> QED
        BY <1>5, <3>2, <4>1
    <3> QED
      BY <1>1, <1>5, <3>1, <3>2
  <2>2. Len(q) <= StepCount[work[r]]
    BY <1>1, <1>5
  <2> QED
    BY <1>5, <1>8, <2>1, <2>2 DEF StepsInOrder
<1>11. OutcomeFits(r)'
  <2>1. Last(events'[r]) = "cancelled"
    <3>1. events'[r] = Append(events[r], "cancelled")
      BY <1>1, <1>2 DEF TypeOK
    <3>2. Len(events[r]) \in Nat
      BY <1>1
    <3>3. /\ Len(Append(events[r], "cancelled")) = Len(events[r]) + 1
          /\ Append(events[r], "cancelled")[Len(events[r]) + 1] = "cancelled"
      BY <1>1, Appending
    <3> QED
      BY <3>1, <3>3 DEF Last
  <2>2. Has(r, "CANCELLED")'
    <3>1. StepCount[work[r]] \in Len(results[r]) + 1 .. StepCount[work[r]]
          /\ StepCount[work[r]] \in DOMAIN q
      BY <1>1, <1>3, <1>5
    <3> QED
      BY <1>5, <3>1 DEF Has
  <2> QED
    BY <1>5, <1>8, <2>1, <2>2 DEF OutcomeFits
<1>12. ActiveFollows(r)
  BY <1>2, <1>8 DEF ActiveFollows, IsRunning
<1> QED
  BY <1>2, <1>6, <1>7, <1>9, <1>10, <1>11, <1>12, OneRunMoves DEF RunInv

LEMMA InvStep == IInv /\ [Next]_vars => IInv'
<1> SUFFICES ASSUME IInv, [Next]_vars PROVE IInv'
  OBVIOUS
<1>1. CASE UNCHANGED vars
  <2>1. TypeOK' /\ \A r \in Run : Untouched(r) /\ work' = work
    BY <1>1 DEF IInv, TypeOK, vars, Untouched
  <2>2. \A r \in Run : RunInv(r)' /\ (IsRunning(r)' <=> IsRunning(r))
    BY <1>1, <2>1, OtherRuns DEF IInv, vars
  <2>3. ActiveIsRunning'
    BY <1>1, <2>2 DEF IInv, ActiveIsRunning, vars
  <2> QED
    BY <1>1, <2>1, <2>2, <2>3 DEF IInv, vars
<1>2. CASE Next
  <2>1. PICK r \in Run : Cancel(r) \/ Progress(r)
    BY <1>2 DEF Next
  <2>2. \/ Quiet(r)
        \/ SkipStep(r) \/ CompleteStep(r) \/ FailStep(r)
        \/ BeginCancelled(r) \/ StopCancelled(r)
    BY <2>1 DEF Progress, Quiet
  <2> QED
    BY <2>2, StepQuiet, StepRecords, StepCancels
<1> QED
  BY <1>1, <1>2

LEMMA InvAlways == Spec => []IInv
  BY InvInit, InvStep, PTL DEF Spec

-----------------------------------------------------------------------------
(* What follows from the invariant.                                        *)

\* The variables of WorkflowEngine.run (workflow/engine.py) and the list of
\* active work (context/store.py) always have their types.
THEOREM TypeCorrect == Spec => []TypeOK
<1>1. IInv => TypeOK
  BY DEF IInv
<1> QED
  BY <1>1, InvAlways, PTL

\* A run stops at the first step that does not succeed, accounts for every
\* step and tells the same in its outcome, its step results and its events
\* (engine.py 193-282), however many steps the workflow has and whenever it
\* is cancelled.
THEOREM StepsAlwaysAddUp == Spec => []StepsAddUp
<1>1. IInv => StepsAddUp
  <2> SUFFICES ASSUME IInv PROVE FailFast /\ OutcomeTellsSteps
    BY DEF StepsAddUp
  <2>1. \A r \in Run : PlaceInv(r) /\ StepsInOrder(r) /\ OutcomeFits(r)
    BY DEF IInv, RunInv
  <2>2. \A r \in Run : pc[r] \in {"resolving", "executing"} => AllAre(r, "COMPLETED")
    BY <2>1 DEF PlaceInv
  <2>3. FailFast
    BY <2>1, <2>2 DEF FailFast, StepsInOrder
  <2>4. OutcomeTellsSteps
    BY <2>1 DEF OutcomeTellsSteps, OutcomeFits
  <2> QED
    BY <2>3, <2>4
<1> QED
  BY <1>1, InvAlways, PTL

\* The list of active work that EcosystemStateStore keeps from the events of
\* the engine (context/store.py 84-150) is exactly the workflows under way,
\* as long as no two runs share a workflow.
THEOREM ActiveIsAlwaysRunning == Spec => []ActiveIsRunning
<1>1. IInv => ActiveIsRunning
  BY DEF IInv
<1> QED
  BY <1>1, InvAlways, PTL

-----------------------------------------------------------------------------
(* The steps follow their map.                                             *)

LEMMA StepMoves ==
    ASSUME IInv, [Next]_vars, NEW r \in Run, NEW k
    PROVE  StepOf(r, k)' \in ValidStepTransitions[StepOf(r, k)] \cup {StepOf(r, k)}
<1>1. TypeOK /\ PlaceInv(r) /\ TypeOK'
  BY InvStep DEF IInv, RunInv
<1>2. /\ ValidStepTransitions["PENDING"] = {"RUNNING", "SKIPPED", "CANCELLED"}
      /\ ValidStepTransitions["RUNNING"] = {"COMPLETED", "FAILED", "CANCELLED"}
  BY DEF ValidStepTransitions, StepState
<1>3. /\ results[r] \in Seq(StepState) /\ Len(results[r]) \in Nat
      /\ DOMAIN results[r] = 1 .. Len(results[r])
      /\ results'[r] \in Seq(StepState) /\ Len(results'[r]) \in Nat
      /\ DOMAIN results'[r] = 1 .. Len(results'[r])
  BY <1>1 DEF TypeOK
<1>4. CASE pc'[r] = pc[r] /\ results'[r] = results[r]
  BY <1>4 DEF StepOf
<1>5. CASE pc[r] \notin {"resolving", "executing"} /\ results'[r] = results[r]
  BY <1>2, <1>3, <1>5 DEF StepOf
<1>6. CASE ResolveStep(r)
  BY <1>1, <1>6 DEF ResolveStep, Goto, TypeOK, StepOf
<1>7. CASE SkipStep(r) \/ CompleteStep(r) \/ FailStep(r)
  <2>1. PICK x \in {"SKIPPED", "COMPLETED", "FAILED"} :
            /\ results'[r] = Append(results[r], x)
            /\ x = "SKIPPED" => pc[r] = "loop"
            /\ x # "SKIPPED" => pc[r] \in {"resolving", "executing"}
    BY <1>1, <1>7 DEF SkipStep, CompleteStep, FailStep, Record, TypeOK
  <2>2. pc'[r] = "loop"
    BY <1>1, <1>7 DEF SkipStep, CompleteStep, FailStep, Goto, TypeOK
  <2>3. x \in StepState
    BY DEF StepState
  <2>4. /\ DOMAIN results'[r] = 1 .. Len(results[r]) + 1
        /\ \A j \in 1 .. Len(results[r]) : results'[r][j] = results[r][j]
        /\ results'[r][Len(results[r]) + 1] = x
    BY <1>3, <2>1, <2>3, Appending
  <2>5. CASE k \in 1 .. Len(results[r])
    BY <1>3, <2>4, <2>5 DEF StepOf
  <2>6. CASE k = Len(results[r]) + 1
    <3>1. k \notin DOMAIN results[r] /\ k \in DOMAIN results'[r]
      BY <1>3, <2>4, <2>6
    <3>2. StepOf(r, k)' = x
      BY <2>4, <2>6, <3>1 DEF StepOf
    <3>3. StepOf(r, k) = IF x = "SKIPPED" THEN "PENDING" ELSE "RUNNING"
      BY <2>1, <2>6, <3>1 DEF StepOf
    <3> QED
      BY <1>2, <3>2, <3>3
  <2>7. CASE k \notin 1 .. Len(results[r]) /\ k # Len(results[r]) + 1
    <3>1. k \notin DOMAIN results'[r]
      BY <1>3, <2>4, <2>7
    <3> QED
      BY <1>3, <2>2, <2>7, <3>1 DEF StepOf
  <2> QED
    BY <2>5, <2>6, <2>7
<1>8. CASE BeginCancelled(r) \/ StopCancelled(r)
  <2> DEFINE n == StepCount[work[r]] - Len(results[r])
             tail == [j \in 1 .. n |-> "CANCELLED"]
  <2>1. pc[r] \in {"idle", "loop"} /\ pc'[r] = "ending" /\ results'[r] = results[r] \o tail
    BY <1>1, <1>8 DEF BeginCancelled, StopCancelled, CancelRemaining, Remaining, Goto, TypeOK
  <2>2. n \in Nat
    <3>1. StepCount[work[r]] \in Nat /\ StepsInOrder(r)
      BY <1>1 DEF TypeOK, IInv, RunInv
    <3> QED
      BY <1>3, <3>1 DEF StepsInOrder
  <2>3. PICK t \in Seq(StepState) :
            t = tail /\ Len(t) = n /\ \A j \in 1 .. n : t[j] = "CANCELLED"
    BY <2>2, CancelledTail
  <2>4. results'[r] = results[r] \o t
    BY <2>1, <2>3
  <2> HIDE DEF tail, n
  <2>5. /\ DOMAIN results'[r] = 1 .. Len(results[r]) + n
        /\ \A j \in 1 .. Len(results[r]) : results'[r][j] = results[r][j]
        /\ \A j \in Len(results[r]) + 1 .. Len(results[r]) + n :
               results'[r][j] = t[j - Len(results[r])]
    BY <1>3, <2>3, <2>4, Concatenation
  <2>6. CASE k \in 1 .. Len(results[r])
    BY <1>3, <2>2, <2>5, <2>6 DEF StepOf
  <2>7. CASE k \notin 1 .. Len(results[r])
    <3>1. StepOf(r, k) = "PENDING"
      BY <1>3, <2>1, <2>7 DEF StepOf
    <3>2. CASE k \in DOMAIN results'[r]
      <4>1. k \in Len(results[r]) + 1 .. Len(results[r]) + n
        BY <1>3, <2>2, <2>5, <2>7, <3>2
      <4>2. k - Len(results[r]) \in 1 .. n
        BY <1>3, <2>2, <4>1
      <4>3. StepOf(r, k)' = "CANCELLED"
        BY <2>3, <2>5, <3>2, <4>1, <4>2 DEF StepOf
      <4> QED
        BY <1>2, <3>1, <4>3
    <3>3. CASE k \notin DOMAIN results'[r]
      BY <2>1, <3>1, <3>3 DEF StepOf
    <3> QED
      BY <3>2, <3>3
  <2> QED
    BY <2>6, <2>7
<1>9. CASE UNCHANGED vars
  BY <1>4, <1>9 DEF vars
<1>10. ASSUME NEW q \in Run, Cancel(q) \/ Progress(q), q # r
       PROVE  pc'[r] = pc[r] /\ results'[r] = results[r]
  BY <1>1, <1>10 DEF TypeOK, Progress, Cancel, BeginEmpty, BeginCancelled, Begin, EndEmpty,
       StopCancelled, SkipStep, StartStep, ResolveStep, CompleteStep, FailStep, EndLoop, Return,
       Goto, Record, CancelRemaining
<1>11. ASSUME Quiet(r), ~ResolveStep(r)
       PROVE  results'[r] = results[r] /\ (pc'[r] = pc[r] \/ pc[r] \notin {"resolving", "executing"})
  BY <1>1, <1>11 DEF TypeOK, Quiet, Cancel, BeginEmpty, Begin, EndEmpty, StartStep, EndLoop,
       Return, Goto
<1>12. CASE Cancel(r) \/ Progress(r)
  <2>1. \/ Quiet(r)
        \/ SkipStep(r) \/ CompleteStep(r) \/ FailStep(r)
        \/ BeginCancelled(r) \/ StopCancelled(r)
    BY <1>12 DEF Progress, Quiet
  <2> QED
    BY <1>4, <1>5, <1>6, <1>7, <1>8, <1>11, <2>1
<1> QED
  <2>1. CASE Next
    <3>1. PICK q \in Run : Cancel(q) \/ Progress(q)
      BY <2>1 DEF Next
    <3> QED
      BY <1>4, <1>10, <1>12, <3>1
  <2> QED
    BY <1>9, <2>1

\* Every step of every workflow starts as PENDING and moves only along
\* VALID_STEP_TRANSITIONS (workflow/state.py 48-63), which the engine imports a
\* check of and never calls.
THEOREM StepsAlwaysFollowTheMap == Spec => StepsFollowTheMap
<1> DEFINE Things == Run \X (1 .. MaxSteps)
<1>1. Init => StepStates!Init
  <2> SUFFICES ASSUME Init, NEW r \in Run, NEW k \in 1 .. MaxSteps PROVE StepOf(r, k) = "PENDING"
    BY DEF StepStates!Init
  <2> QED
    BY DEF Init, StepOf
<1>2. IInv /\ [Next]_vars => StepStates!Next
  <2> SUFFICES ASSUME IInv, [Next]_vars PROVE StepStates!Next
    OBVIOUS
  <2>1. ASSUME NEW t \in Things
        PROVE  StepOf(t[1], t[2])' \in
                  ValidStepTransitions[StepOf(t[1], t[2])] \cup {StepOf(t[1], t[2])}
    <3>1. t[1] \in Run
      BY <2>1
    <3> QED
      BY <3>1, StepMoves
  <2> QED
    BY <2>1 DEF StepStates!Next
<1> QED
  BY <1>1, <1>2, InvAlways, PTL DEF Spec, StepsFollowTheMap, StepStates!Spec

-----------------------------------------------------------------------------
(* Runs come to an end.                                                    *)

\* A bound on the steps a run has still to take: three for each step of its
\* workflow, and those before and after.
ToGo(r) ==
    3 * Remaining(r) + (IF pc[r] = "idle" THEN 3
                        ELSE IF pc[r] \in {"empty", "loop"} THEN 2
                        ELSE IF pc[r] \in {"resolving", "ending"} THEN 1 ELSE 0)

Stays(r) ==
    /\ pc'[r] = pc[r] /\ results'[r] = results[r] /\ failed'[r] = failed[r]
    /\ outcome'[r] = outcome[r] /\ events'[r] = events[r]

\* What is recorded is not recorded otherwise later, and a result that has been
\* concluded is final.
Keeps(r) ==
    /\ Len(results[r]) <= Len(results'[r])
    /\ \A k \in DOMAIN results[r] : results'[r][k] = results[r][k]
    /\ outcome[r] # "none" =>
          /\ results'[r] = results[r] /\ outcome'[r] = outcome[r] /\ events'[r] = events[r]

\* The numbers that the bound is made of.
LEMMA Counts ==
    ASSUME IInv, NEW r \in Run
    PROVE  /\ results[r] \in Seq(StepState) /\ Len(results[r]) \in Nat
           /\ DOMAIN results[r] = 1 .. Len(results[r])
           /\ StepCount[work[r]] \in Nat /\ Remaining(r) \in 0 .. StepCount[work[r]]
           /\ Remaining(r) = StepCount[work[r]] - Len(results[r])
           /\ pc[r] \in {"ending", "returned"} => Remaining(r) = 0
           /\ pc[r] \in {"resolving", "executing"} => Remaining(r) >= 1
<1>1. TypeOK /\ PlaceInv(r) /\ StepsInOrder(r) /\ OutcomeFits(r)
  BY DEF IInv, RunInv
<1>2. results[r] \in Seq(StepState) /\ StepCount[work[r]] \in Nat
  BY <1>1 DEF TypeOK
<1>3. Len(results[r]) \in Nat /\ DOMAIN results[r] = 1 .. Len(results[r])
  BY <1>2
<1>4. Len(results[r]) <= StepCount[work[r]]
  BY <1>1 DEF StepsInOrder
<1>5. pc[r] \in {"ending", "returned"} => Len(results[r]) = StepCount[work[r]]
  BY <1>1 DEF PlaceInv, OutcomeFits
<1>6. pc[r] \in {"resolving", "executing"} => Len(results[r]) < StepCount[work[r]]
  BY <1>1 DEF PlaceInv
<1> QED
  BY <1>2, <1>3, <1>4, <1>5, <1>6 DEF Remaining

\* What a step does to the run that takes it.
LEMMA RunAdvances ==
    ASSUME IInv, NEW r \in Run, Progress(r)
    PROVE  ToGo(r)' < ToGo(r) /\ Keeps(r)
<1>1. TypeOK /\ PlaceInv(r) /\ work' = work
  BY DEF IInv, RunInv, Progress, BeginEmpty, BeginCancelled, Begin, EndEmpty, StopCancelled,
         SkipStep, StartStep, ResolveStep, CompleteStep, FailStep, EndLoop, Return
<1>2. IInv'
  BY InvStep DEF Next
<1>3. /\ results[r] \in Seq(StepState) /\ Len(results[r]) \in Nat
      /\ DOMAIN results[r] = 1 .. Len(results[r])
      /\ StepCount[work[r]] \in Nat
      /\ Remaining(r) = StepCount[work[r]] - Len(results[r]) /\ Remaining(r) \in Nat
      /\ pc[r] \in {"resolving", "executing"} => Remaining(r) >= 1
  BY Counts
<1>4. /\ Len(results'[r]) \in Nat /\ Remaining(r)' \in Nat
      /\ Remaining(r)' = StepCount[work[r]] - Len(results'[r])
      /\ pc'[r] \in {"ending", "returned"} => Remaining(r)' = 0
  <2>1. TypeOK' /\ PlaceInv(r)' /\ StepsInOrder(r)' /\ OutcomeFits(r)'
    BY <1>2 DEF IInv, RunInv
  <2>2. results'[r] \in Seq(StepState)
    BY <2>1 DEF TypeOK
  <2>3. Len(results'[r]) \in Nat /\ Len(results'[r]) <= StepCount[work[r]]
    BY <1>1, <2>1, <2>2 DEF StepsInOrder
  <2>4. pc'[r] \in {"ending", "returned"} => Len(results'[r]) = StepCount[work[r]]
    BY <1>1, <2>1 DEF PlaceInv, OutcomeFits
  <2> QED
    BY <1>1, <1>3, <2>3, <2>4 DEF Remaining
<1>5. CASE BeginEmpty(r) \/ Begin(r) \/ EndEmpty(r) \/ StartStep(r) \/ ResolveStep(r)
           \/ EndLoop(r) \/ Return(r)
  <2>1. /\ results'[r] = results[r]
        /\ outcome[r] # "none" => outcome'[r] = outcome[r] /\ events'[r] = events[r]
        /\ \/ pc[r] = "idle" /\ pc'[r] \in {"empty", "loop"}
           \/ pc[r] \in {"empty", "loop"} /\ pc'[r] = "ending"
           \/ pc[r] = "loop" /\ pc'[r] = "resolving"
           \/ pc[r] = "resolving" /\ pc'[r] = "executing"
           \/ pc[r] = "ending" /\ pc'[r] = "returned"
    BY <1>1, <1>5 DEF BeginEmpty, Begin, EndEmpty, StartStep, ResolveStep, EndLoop, Return,
         Goto, TypeOK, PlaceInv
  <2>2. Remaining(r)' = Remaining(r)
    BY <1>3, <1>4, <2>1
  <2>3. ToGo(r)' < ToGo(r)
    BY <1>3, <2>1, <2>2 DEF ToGo
  <2>4. Keeps(r)
    BY <1>3, <2>1 DEF Keeps
  <2> QED
    BY <2>3, <2>4
<1>6. CASE SkipStep(r) \/ CompleteStep(r) \/ FailStep(r)
  <2>1. PICK x \in {"SKIPPED", "COMPLETED", "FAILED"} : results'[r] = Append(results[r], x)
    BY <1>1, <1>6 DEF SkipStep, CompleteStep, FailStep, Record, TypeOK
  <2>2. outcome[r] = "none" /\ pc[r] \in {"loop", "resolving", "executing"} /\ pc'[r] = "loop"
    BY <1>1, <1>6 DEF SkipStep, CompleteStep, FailStep, Goto, TypeOK, PlaceInv
  <2>3. x \in StepState
    BY DEF StepState
  <2>4. /\ Len(results'[r]) = Len(results[r]) + 1
        /\ \A k \in 1 .. Len(results[r]) : results'[r][k] = results[r][k]
    BY <1>3, <2>1, <2>3, Appending
  <2>5. Remaining(r)' = Remaining(r) - 1
    BY <1>3, <1>4, <2>4
  <2>6. ToGo(r)' < ToGo(r)
    BY <1>3, <1>4, <2>2, <2>5 DEF ToGo
  <2>7. Keeps(r)
    BY <1>3, <2>2, <2>4 DEF Keeps
  <2> QED
    BY <2>6, <2>7
<1>7. CASE BeginCancelled(r) \/ StopCancelled(r)
  <2> DEFINE tail == [j \in 1 .. Remaining(r) |-> "CANCELLED"]
  <2>1. /\ results'[r] = results[r] \o tail
        /\ outcome[r] = "none" /\ pc[r] \in {"idle", "loop"} /\ pc'[r] = "ending"
    BY <1>1, <1>7 DEF BeginCancelled, StopCancelled, CancelRemaining, Goto, TypeOK, PlaceInv
  <2>2. tail \in Seq(StepState) /\ Len(tail) \in Nat
    BY <1>3, CancelledTail
  <2> HIDE DEF tail
  <2>3. \A k \in 1 .. Len(results[r]) : results'[r][k] = results[r][k]
    BY <1>3, <2>1, <2>2, Concatenation
  <2>4. Len(results[r]) <= Len(results'[r])
    BY <1>3, <2>1, <2>2, Concatenation
  <2>5. ToGo(r)' < ToGo(r)
    <3>1. Remaining(r)' = 0
      BY <1>4, <2>1
    <3>2. ToGo(r)' = 1
      BY <2>1, <3>1 DEF ToGo
    <3>3. ToGo(r) >= 2
      BY <1>3, <2>1 DEF ToGo
    <3>4. ToGo(r) \in Nat
      BY <1>3, <2>1 DEF ToGo
    <3> QED
      BY <3>2, <3>3, <3>4
  <2>6. Keeps(r)
    BY <1>3, <2>1, <2>3, <2>4 DEF Keeps
  <2> QED
    BY <2>5, <2>6
<1> QED
  BY <1>5, <1>6, <1>7 DEF Progress

\* What a step of another run, or a cancellation, does to it.
LEMMA RunStays ==
    ASSUME IInv, NEW r \in Run,
           UNCHANGED vars \/ Cancel(r) \/ \E q \in Run \ {r} : Cancel(q) \/ Progress(q)
    PROVE  Stays(r) /\ Keeps(r)
<1>1. Len(results[r]) \in Nat
  BY Counts
<1>2. TypeOK
  BY DEF IInv
<1>3. Stays(r)
  <2>1. CASE UNCHANGED vars
    BY <2>1 DEF vars, Stays
  <2>2. CASE Cancel(r)
    BY <2>2 DEF Cancel, Stays
  <2>3. ASSUME NEW q \in Run \ {r}, Cancel(q) \/ Progress(q)
        PROVE  Stays(r)
    BY <1>2, <2>3 DEF TypeOK, Stays, Cancel, Progress, BeginEmpty, BeginCancelled, Begin, EndEmpty,
         StopCancelled, SkipStep, StartStep, ResolveStep, CompleteStep, FailStep, EndLoop, Return,
         Goto, Record, CancelRemaining, Conclude, Publish
  <2> QED
    BY <2>1, <2>2, <2>3
<1> QED
  BY <1>1, <1>3 DEF Stays, Keeps

\* Whichever steps fail and whoever cancels, a call of run() takes at most three
\* steps for each step of its workflow and three more (engine.py 139-282), for
\* each of its own brings it nearer to its end and nobody else's throws it
\* back: the part of EveryRunReturns that needs no fairness.
THEOREM RunsAreBounded ==
    Spec => /\ [](\A r \in Run : /\ ToGo(r) \in 0 .. 3 * StepCount[work[r]] + 3
                                 /\ ToGo(r) = 0 <=> pc[r] = "returned")
            /\ [][\A r \in Run : ToGo(r)' < ToGo(r) \/ Stays(r)]_vars
<1>1. ASSUME IInv
      PROVE  \A r \in Run : /\ ToGo(r) \in 0 .. 3 * StepCount[work[r]] + 3
                            /\ ToGo(r) = 0 <=> pc[r] = "returned"
  <2> SUFFICES ASSUME NEW r \in Run
               PROVE  /\ ToGo(r) \in 0 .. 3 * StepCount[work[r]] + 3
                      /\ ToGo(r) = 0 <=> pc[r] = "returned"
    OBVIOUS
  <2>1. /\ StepCount[work[r]] \in Nat /\ Remaining(r) \in 0 .. StepCount[work[r]]
        /\ pc[r] \in {"ending", "returned"} => Remaining(r) = 0
        /\ pc[r] \in {"resolving", "executing"} => Remaining(r) >= 1
    BY <1>1, Counts
  <2>2. pc[r] \in {"idle", "empty", "loop", "resolving", "executing", "ending", "returned"}
    BY <1>1 DEF IInv, TypeOK
  <2>3. CASE pc[r] \in {"idle", "empty", "loop"}
    <3>1. ToGo(r) = 3 * Remaining(r) + 2 \/ ToGo(r) = 3 * Remaining(r) + 3
      BY <2>3 DEF ToGo
    <3> QED
      BY <2>1, <2>3, <3>1
  <2>4. CASE pc[r] \in {"resolving", "executing"}
    <3>1. ToGo(r) = 3 * Remaining(r) + 1 \/ ToGo(r) = 3 * Remaining(r)
      BY <2>1, <2>4 DEF ToGo
    <3> QED
      BY <2>1, <2>4, <3>1
  <2>5. CASE pc[r] = "ending"
    <3>1. ToGo(r) = 1
      BY <2>1, <2>5 DEF ToGo
    <3> QED
      BY <2>1, <2>5, <3>1
  <2>6. CASE pc[r] = "returned"
    <3>1. ToGo(r) = 0
      BY <2>1, <2>6 DEF ToGo
    <3> QED
      BY <2>1, <2>6, <3>1
  <2> QED
    BY <2>2, <2>3, <2>4, <2>5, <2>6
<1>2. IInv /\ [Next]_vars => [\A r \in Run : ToGo(r)' < ToGo(r) \/ Stays(r)]_vars
  BY RunAdvances, RunStays DEF Next
<1> QED
  BY <1>1, <1>2, InvAlways, PTL DEF Spec

\* The result of a step is recorded once and for all, and what a run has
\* concluded, recorded and published by its end is never revised, although its
\* token may still be cancelled afterwards (engine.py 193-282).
THEOREM RecordsAreKept == Spec => [][\A r \in Run : Keeps(r)]_vars
<1>1. IInv /\ [Next]_vars => [\A r \in Run : Keeps(r)]_vars
  BY RunAdvances, RunStays DEF Next
<1> QED
  BY <1>1, InvAlways, PTL DEF Spec

=============================================================================
