--------------------------- MODULE WorkflowEngine ---------------------------
(***************************************************************************)
(* WorkflowEngine.run (workflow/engine.py): each call walks through the    *)
(* steps of one workflow; navigation picks a target for a step, an         *)
(* executor runs it there, a failure skips what is left and a cancellation *)
(* token, which anybody may set at any time, is looked at between steps.   *)
(* The events of the run feed the list of active work kept by              *)
(* EcosystemStateStore (context/store.py).                                 *)
(*                                                                         *)
(* A run gives up the event loop where it publishes, navigates or          *)
(* executes. Each action is the code from one such point to the next. The  *)
(* store's handlers finish before publish() returns and run in the order   *)
(* of publication, so their effect is part of the action that publishes.   *)
(***************************************************************************)
EXTENDS Integers, Sequences, SequencesExt

CONSTANTS
    Run,          \* calls of run() (bound on their number)
    Workflow,     \* workflow ids
    StepCount,    \* number of steps of each workflow
    Plan          \* which workflow each call may be given: functions on Run

\* Every run has a workflow of its own: active work is kept by workflow id.
ASSUME WorkflowAssumption ==
    /\ StepCount \in [Workflow -> Nat]
    /\ Plan \subseteq [Run -> Workflow]
    /\ \A p \in Plan : \A r, q \in Run : p[r] = p[q] => r = q

VARIABLES
    work,       \* the workflow of each run
    pc,         \* where the run is suspended
    results,    \* step_results_list
    failed,     \* workflow_failed
    token,      \* the run's cancellation token
    outcome,    \* the final state of the WorkflowResult
    events,     \* what the run has published about the workflow
    active      \* EcosystemStateStore._active_work: ids of active workflows

vars == <<work, pc, results, failed, token, outcome, events, active>>

Steps(r) == 1 .. StepCount[work[r]]
Remaining(r) == StepCount[work[r]] - Len(results[r])

StepState == {"PENDING", "RUNNING", "COMPLETED", "FAILED", "SKIPPED", "CANCELLED"}
WorkflowState == {"PENDING", "RUNNING", "COMPLETED", "FAILED", "CANCELLED"}

\* VALID_STEP_TRANSITIONS
ValidStepTransitions ==
    [x \in StepState |->
        CASE x = "PENDING" -> {"RUNNING", "SKIPPED", "CANCELLED"}
          [] x = "RUNNING" -> {"COMPLETED", "FAILED", "CANCELLED"}
          [] OTHER -> {}]

Init ==
    /\ work \in Plan
    /\ pc = [r \in Run |-> "idle"]
    /\ results = [r \in Run |-> <<>>]
    /\ failed = [r \in Run |-> FALSE]
    /\ token = [r \in Run |-> FALSE]
    /\ outcome = [r \in Run |-> "none"]
    /\ events = [r \in Run |-> <<>>]
    /\ active = {}

-----------------------------------------------------------------------------

\* Mutant: a failed workflow remains active.
PublishKeepFailed(r, kind) ==
    /\ events' = [events EXCEPT ![r] = Append(@, kind)]
    /\ active' = IF kind \in {"started", "failed"} THEN active \cup {work[r]}
                 ELSE active \ {work[r]}

\* Publish an event about the workflow; the store keeps its list of active
\* work: on_workflow_started adds to it, the other handlers take away.
Publish(r, kind) ==
    /\ events' = [events EXCEPT ![r] = Append(@, kind)]
    /\ active' = IF kind = "started" THEN active \cup {work[r]} ELSE active \ {work[r]}

Goto(r, place) == pc' = [pc EXCEPT ![r] = place]

Record(r, step) == results' = [results EXCEPT ![r] = Append(@, step)]

\* The remaining steps are recorded as CANCELLED.
CancelRemaining(r) ==
    results' = [results EXCEPT ![r] = @ \o [k \in 1 .. Remaining(r) |-> "CANCELLED"]]

Conclude(r, final) == outcome' = [outcome EXCEPT ![r] = final]

\* Anybody who holds the token cancels the run.
Cancel(r) ==
    /\ ~token[r]
    /\ pc[r] # "returned"
    /\ token' = [token EXCEPT ![r] = TRUE]
    /\ UNCHANGED <<work, pc, results, failed, outcome, events, active>>

\* run() is called: with no steps to do, ...
BeginEmpty(r) ==
    /\ pc[r] = "idle"
    /\ Steps(r) = {}
    /\ Publish(r, "started")
    /\ Goto(r, "empty")
    /\ UNCHANGED <<work, results, failed, token, outcome>>

\* ... when it is cancelled already, ...
BeginCancelled(r) ==
    /\ pc[r] = "idle"
    /\ Steps(r) # {}
    /\ token[r]
    /\ CancelRemaining(r)
    /\ Conclude(r, "CANCELLED")
    /\ Publish(r, "cancelled")
    /\ Goto(r, "ending")
    /\ UNCHANGED <<work, failed, token>>

\* ... or to do the steps.
Begin(r) ==
    /\ pc[r] = "idle"
    /\ Steps(r) # {}
    /\ ~token[r]
    /\ Publish(r, "started")
    /\ Goto(r, "loop")
    /\ UNCHANGED <<work, results, failed, token, outcome>>

EndEmpty(r) ==
    /\ pc[r] = "empty"
    /\ Conclude(r, "COMPLETED")
    /\ Publish(r, "completed")
    /\ Goto(r, "ending")
    /\ UNCHANGED <<work, results, failed, token>>

\* The loop finds the token set: whatever was decided before, the run is now
\* cancelled, and so is every step not done.
StopCancelled(r) ==
    /\ pc[r] = "loop"
    /\ Remaining(r) > 0
    /\ token[r]
    /\ CancelRemaining(r)
    /\ Conclude(r, "CANCELLED")
    /\ Publish(r, "cancelled")
    /\ Goto(r, "ending")
    /\ UNCHANGED <<work, failed, token>>

\* An earlier step failed.
SkipStep(r) ==
    /\ pc[r] = "loop"
    /\ Remaining(r) > 0
    /\ ~token[r]
    /\ failed[r]
    /\ Record(r, "SKIPPED")
    /\ UNCHANGED <<work, pc, failed, token, outcome, events, active>>

\* Mutant: the steps after a failed one are tried as well.
StartStepAnyway(r) ==
    /\ pc[r] = "loop"
    /\ Remaining(r) > 0
    /\ ~token[r]
    /\ Goto(r, "resolving")
    /\ UNCHANGED <<work, results, failed, token, outcome, events, active>>

\* _execute_step: the start is published, then navigation is asked ...
StartStep(r) ==
    /\ pc[r] = "loop"
    /\ Remaining(r) > 0
    /\ ~token[r]
    /\ ~failed[r]
    /\ Goto(r, "resolving")
    /\ UNCHANGED <<work, results, failed, token, outcome, events, active>>

\* ... which selects a target with an executor, ...
ResolveStep(r) ==
    /\ pc[r] = "resolving"
    /\ Goto(r, "executing")
    /\ UNCHANGED <<work, results, failed, token, outcome, events, active>>

\* Mutant: a step that ends after the cancellation counts as skipped.
CompleteStepLate(r) ==
    /\ pc[r] = "executing"
    /\ Record(r, IF token[r] THEN "SKIPPED" ELSE "COMPLETED")
    /\ Goto(r, "loop")
    /\ UNCHANGED <<work, failed, token, outcome, events, active>>

\* ... and the executor returns.
CompleteStep(r) ==
    /\ pc[r] = "executing"
    /\ Record(r, "COMPLETED")
    /\ Goto(r, "loop")
    /\ UNCHANGED <<work, failed, token, outcome, events, active>>

\* Mutant: the exception leaves run().
FailStepUncaught(r) ==
    /\ pc[r] \in {"resolving", "executing"}
    /\ Goto(r, "lost")
    /\ UNCHANGED <<work, results, failed, token, outcome, events, active>>

\* Navigation raises or selects nothing, the provider has no executor, or the
\* executor raises.
FailStep(r) ==
    /\ pc[r] \in {"resolving", "executing"}
    /\ Record(r, "FAILED")
    /\ failed' = [failed EXCEPT ![r] = TRUE]
    /\ Publish(r, "failed")
    /\ Goto(r, "loop")
    /\ UNCHANGED <<work, token, outcome>>

\* All steps have a result. A failure has been published before; a success is
\* published now.
EndLoop(r) ==
    /\ pc[r] = "loop"
    /\ Remaining(r) = 0
    /\ \/ /\ failed[r]
          /\ Conclude(r, "FAILED")
          /\ UNCHANGED <<events, active>>
       \/ /\ ~failed[r]
          /\ Conclude(r, "COMPLETED")
          /\ Publish(r, "completed")
    /\ Goto(r, "ending")
    /\ UNCHANGED <<work, results, failed, token>>

Return(r) ==
    /\ pc[r] = "ending"
    /\ Goto(r, "returned")
    /\ UNCHANGED <<work, results, failed, token, outcome, events, active>>

-----------------------------------------------------------------------------

Progress(r) ==
    \/ BeginEmpty(r) \/ BeginCancelled(r) \/ Begin(r) \/ EndEmpty(r)
    \/ StopCancelled(r) \/ SkipStep(r)
    \/ StartStep(r) \/ ResolveStep(r) \/ CompleteStep(r) \/ FailStep(r)
    \/ EndLoop(r) \/ Return(r)

Next == \E r \in Run : Cancel(r) \/ Progress(r)

\* A run that has been called goes on: asyncio resumes it, and navigation and
\* the executors return or raise.
Fairness == \A r \in Run : WF_vars(pc[r] # "idle" /\ Progress(r))

Spec == Init /\ [][Next]_vars /\ Fairness

-----------------------------------------------------------------------------
(* Properties.                                                             *)

AllAre(r, x) == \A k \in DOMAIN results[r] : results[r][k] = x
Has(r, x) == \E k \in DOMAIN results[r] : results[r][k] = x
IsRunning(r) == pc[r] \in {"empty", "loop", "resolving", "executing"} /\ ~failed[r]

TypeOK ==
    /\ work \in [Run -> Workflow]
    /\ pc \in [Run -> {"idle", "empty", "loop", "resolving", "executing", "ending", "returned"}]
    /\ results \in [Run -> Seq(StepState)]
    /\ failed \in [Run -> BOOLEAN]
    /\ token \in [Run -> BOOLEAN]
    /\ outcome \in [Run -> WorkflowState \cup {"none"}]
    /\ events \in [Run -> Seq({"started", "completed", "failed", "cancelled"})]
    /\ active \subseteq Workflow

\* Fail-fast (engine.py 225-242): a step is done only when all before it
\* succeeded, a step is skipped only after a failure, and once a step is
\* cancelled so are the later ones.
FailFast ==
    \A r \in Run :
        /\ Len(results[r]) <= StepCount[work[r]]
        /\ pc[r] \in {"resolving", "executing"} => AllAre(r, "COMPLETED")
        /\ \A k \in DOMAIN results[r] :
              /\ results[r][k] \in {"COMPLETED", "FAILED"} =>
                    \A j \in 1 .. k - 1 : results[r][j] = "COMPLETED"
              /\ results[r][k] = "SKIPPED" =>
                    \E j \in 1 .. k - 1 : results[r][j] = "FAILED"
              /\ results[r][k] = "CANCELLED" =>
                    \A j \in k .. Len(results[r]) : results[r][j] = "CANCELLED"

\* The final state, the step results and the published events tell the same
\* story, and every step has a result (engine.py 260-282).
OutcomeTellsSteps ==
    \A r \in Run : outcome[r] # "none" =>
        /\ Len(results[r]) = StepCount[work[r]]
        /\ outcome[r] = "COMPLETED" => /\ AllAre(r, "COMPLETED")
                                       /\ events[r] = <<"started", "completed">>
        /\ outcome[r] = "FAILED"    => /\ Has(r, "FAILED") /\ ~Has(r, "CANCELLED")
                                       /\ events[r] = <<"started", "failed">>
        /\ outcome[r] = "CANCELLED" => /\ token[r] /\ Has(r, "CANCELLED")
                                       /\ Last(events[r]) = "cancelled"

\* A run stops at the first step that does not succeed and accounts for every
\* step (engine.py 193-282).
StepsAddUp == FailFast /\ OutcomeTellsSteps

\* The store's list of active work is exactly the workflows under way
\* (context/store.py 84-150), for workflows that are run once.
ActiveIsRunning == active = {work[r] : r \in {q \in Run : IsRunning(q)}}

\* Each step follows VALID_STEP_TRANSITIONS, which engine.py imports a check
\* of (state.py 48-63) and does not call.
StepOf(r, k) ==
    IF k \in DOMAIN results[r] THEN results[r][k]
    ELSE IF k = Len(results[r]) + 1 /\ pc[r] \in {"resolving", "executing"} THEN "RUNNING"
    ELSE "PENDING"

MaxSteps == CHOOSE n \in {StepCount[w] : w \in Workflow} :
                \A w \in Workflow : StepCount[w] <= n

StepStates ==
    INSTANCE TransitionMap WITH
        Thing <- Run \X (1 .. MaxSteps), Initial <- "PENDING",
        Follows <- ValidStepTransitions,
        state <- [t \in Run \X (1 .. MaxSteps) |-> StepOf(t[1], t[2])]

StepsFollowTheMap == StepStates!Spec

\* Every call of run() returns, whatever fails and whoever cancels.
EveryRunReturns == \A r \in Run : pc[r] # "idle" ~> pc[r] = "returned"

=============================================================================
