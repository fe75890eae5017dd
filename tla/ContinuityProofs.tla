-------------------------- MODULE ContinuityProofs --------------------------
(***************************************************************************)
(* What Continuity guarantees for every number of attempts, works and      *)
(* nodes, every set of requests and every behaviour of Flux, Zarya, trust  *)
(* and the ecosystem: the invariants of the run "continuity", and that     *)
(* the service implements ContinuityLifecycle.                             *)
(***************************************************************************)
EXTENDS Continuity, TLAPS

USE ContinuityAssumption

-----------------------------------------------------------------------------
(* The inductive invariant.                                                *)

\* An attempt does not run while it awaits a call.
LoopInv == NeverStranded /\ \A s \in Session : busy = s => call[s] = "none"

\* How far the artifacts and the work of an attempt have come in each stage.
HandoverInv ==
    \A s \in Session :
        /\ Len(flux[s]) <= request[s].artifacts
        /\ call[s] = "transfer" => Len(flux[s]) < request[s].artifacts
        /\ state[s] \in {"reconstructing", "continuing", "verifying"} =>
              Len(flux[s]) = request[s].artifacts
        /\ state[s] = "verifying" =>
              zarya[s] \in Verdict /\ result[s].zarya_outcome = zarya[s]

\* The stages before the trust check, and those after it.
Unchecked == {"absent", "requested", "validating", "target_selected", "authorized"}
Checked   == {"preparing", "transferring", "reconstructing", "continuing", "verifying"}

\* The trust check stands between the choice of a target and any contact.
TrustInv ==
    /\ \A n \in Node : trust[n] = "trusted" => n \in everTrusted
    /\ \A s \in Session :
          /\ state[s] = "authorized" => target[s] \in Node
          /\ state[s] \in Unchecked => ~verified[s]
          /\ state[s] \in Checked => verified[s]
          /\ verified[s] => target[s] \in everTrusted

IInv ==
    /\ TypeOK /\ OneAttemptPerWork
    /\ LoopInv /\ HandoverInv /\ TrustInv
    /\ ContactOnlyTrusted /\ CompletedIsVerified /\ OutcomeMatchesState

-----------------------------------------------------------------------------
(* Each step preserves it.                                                 *)

LEMMA StateValues ==
    Lifecycle!State = {"requested", "validating", "target_selected", "authorized",
                       "preparing", "transferring", "reconstructing", "continuing",
                       "verifying", "completed", "failed", "cancelled", "unsupported",
                       "unknown"}
BY DEF Lifecycle!State, Lifecycle!Active, Lifecycle!Stages, Lifecycle!Terminal

LEMMA InvInit == Init => IInv
<1> SUFFICES ASSUME Init PROVE IInv
  OBVIOUS
<1> USE DEF Init
<1>1. TypeOK
  BY DEF TypeOK, NoResult, Result, TrustStatus
<1>2. OneAttemptPerWork /\ LoopInv
  BY DEF OneAttemptPerWork, LoopInv, NeverStranded, IsActive
<1>3. HandoverInv
  <2>1. \A t \in Session : request[t].artifacts \in Nat
    BY DEF Init
  <2>2. \A t \in Session : flux[t] = <<>> /\ state[t] = "absent" /\ call[t] = "none"
    BY DEF Init
  <2>3. Len(<<>>) = 0
    OBVIOUS
  <2> HIDE DEF Init
  <2> QED
    BY <2>1, <2>2, <2>3 DEF HandoverInv
<1>4. TrustInv
  BY DEF TrustInv, Unchecked, Checked
<1>5. ContactOnlyTrusted /\ CompletedIsVerified /\ OutcomeMatchesState
  BY DEF ContactOnlyTrusted, CompletedIsVerified, OutcomeMatchesState
<1> QED
  BY <1>1, <1>2, <1>3, <1>4, <1>5 DEF IInv

\* The coroutine goes on to the next stage and nothing else changes.
LEMMA MoveInv ==
    ASSUME IInv, NEW s \in Session,
           NEW x \in {"requested", "validating", "preparing", "transferring", "reconstructing"},
           NEW y \in {"validating", "target_selected", "transferring", "reconstructing",
                      "continuing"},
           <<x, y>> \in {<<"requested", "validating">>, <<"validating", "target_selected">>,
                      <<"preparing", "transferring">>, <<"transferring", "reconstructing">>,
                      <<"reconstructing", "continuing">>},
           Runs(s, x), Advance(s, y),
           y = "reconstructing" => Len(flux[s]) = request[s].artifacts,
           UNCHANGED <<request, target, verified, result, attempt, busy, call, flux,
                       zarya, worldVars>>
    PROVE  IInv'
<1> USE DEF IInv, TypeOK, Runs, Advance, worldVars
<1>1. TypeOK'
  BY StateValues
<1>2. OneAttemptPerWork'
  BY DEF OneAttemptPerWork, IsActive, Terminal
<1>3. LoopInv'
  BY DEF LoopInv, NeverStranded, IsActive, Terminal
<1>4. HandoverInv'
  BY DEF HandoverInv
<1>5. TrustInv'
  BY DEF TrustInv, Unchecked, Checked
<1>6. ContactOnlyTrusted'
  BY DEF ContactOnlyTrusted
<1>7. CompletedIsVerified'
  BY DEF CompletedIsVerified
<1>8. OutcomeMatchesState'
  BY DEF OutcomeMatchesState
<1> QED
  BY <1>1, <1>2, <1>3, <1>4, <1>5, <1>6, <1>7, <1>8

\* The coroutine ends the attempt before it has contacted anybody.
LEMMA EndInv ==
    ASSUME IInv, NEW s \in Session,
           NEW x \in {"failed", "unsupported"},
           busy = s, Finish(s, x, Result(x, FALSE, "none")),
           UNCHANGED <<request, target, verified, attempt, call, flux, zarya,
                       worldVars>>
    PROVE  IInv'
<1> USE DEF IInv, TypeOK, Finish, Result, Outcome, worldVars
<1>1. TypeOK'
  BY StateValues
<1>2. OneAttemptPerWork'
  BY DEF OneAttemptPerWork, IsActive, Terminal
<1>3. LoopInv'
  BY DEF LoopInv, NeverStranded, IsActive, Terminal
<1>4. HandoverInv'
  BY DEF HandoverInv
<1>5. TrustInv'
  BY DEF TrustInv, Unchecked, Checked
<1>6. ContactOnlyTrusted'
  BY DEF ContactOnlyTrusted
<1>7. CompletedIsVerified'
  BY DEF CompletedIsVerified
<1>8. OutcomeMatchesState'
  BY DEF OutcomeMatchesState
<1> QED
  BY <1>1, <1>2, <1>3, <1>4, <1>5, <1>6, <1>7, <1>8

\* A request is accepted.
LEMMA AcceptInv ==
    ASSUME IInv, NEW s \in Session,
           Accept(s)
    PROVE  IInv'
<1> USE DEF IInv, TypeOK, Accept, worldVars
<1>1. TypeOK'
  BY StateValues
<1>2. OneAttemptPerWork'
  BY DEF OneAttemptPerWork, IsActive, Terminal, ActiveAttempt
<1>3. LoopInv'
  BY DEF LoopInv, NeverStranded, IsActive, Terminal
<1>4. HandoverInv'
  BY DEF HandoverInv
<1>5. TrustInv'
  BY DEF TrustInv, Unchecked, Checked
<1>6. ContactOnlyTrusted'
  BY DEF ContactOnlyTrusted
<1>7. CompletedIsVerified'
  BY DEF CompletedIsVerified
<1>8. OutcomeMatchesState'
  BY DEF OutcomeMatchesState
<1> QED
  BY <1>1, <1>2, <1>3, <1>4, <1>5, <1>6, <1>7, <1>8

\* A target is selected.
LEMMA SelectInv ==
    ASSUME IInv, NEW s \in Session, NEW n \in eligible,
           Runs(s, "target_selected"), Advance(s, "authorized"),
           target' = [target EXCEPT ![s] = n],
           UNCHANGED <<request, verified, result, attempt, busy, call, flux, zarya,
                       worldVars>>
    PROVE  IInv'
<1> USE DEF IInv, TypeOK, Runs, Advance, worldVars
<1>1. TypeOK'
  BY StateValues
<1>2. OneAttemptPerWork'
  BY DEF OneAttemptPerWork, IsActive, Terminal
<1>3. LoopInv'
  BY DEF LoopInv, NeverStranded, IsActive, Terminal
<1>4. HandoverInv'
  BY DEF HandoverInv
<1>5. TrustInv'
  BY DEF TrustInv, Unchecked, Checked
<1>6. ContactOnlyTrusted'
  BY DEF ContactOnlyTrusted, TrustInv, Unchecked, Checked
<1>7. CompletedIsVerified'
  BY DEF CompletedIsVerified
<1>8. OutcomeMatchesState'
  BY DEF OutcomeMatchesState
<1> QED
  BY <1>1, <1>2, <1>3, <1>4, <1>5, <1>6, <1>7, <1>8

\* The target is trusted.
LEMMA TrustedInv ==
    ASSUME IInv, NEW s \in Session,
           Runs(s, "authorized"), Advance(s, "preparing"),
           trust[target[s]] = "trusted",
           verified' = [verified EXCEPT ![s] = TRUE],
           UNCHANGED <<request, target, result, attempt, busy, call, flux, zarya,
                       worldVars>>
    PROVE  IInv'
<1> USE DEF IInv, TypeOK, Runs, Advance, worldVars
<1>1. TypeOK'
  BY StateValues
<1>2. OneAttemptPerWork'
  BY DEF OneAttemptPerWork, IsActive, Terminal
<1>3. LoopInv'
  BY DEF LoopInv, NeverStranded, IsActive, Terminal
<1>4. HandoverInv'
  BY DEF HandoverInv
<1>5. TrustInv'
  BY DEF TrustInv, Unchecked, Checked
<1>6. ContactOnlyTrusted'
  BY DEF ContactOnlyTrusted
<1>7. CompletedIsVerified'
  BY DEF CompletedIsVerified
<1>8. OutcomeMatchesState'
  BY DEF OutcomeMatchesState
<1> QED
  BY <1>1, <1>2, <1>3, <1>4, <1>5, <1>6, <1>7, <1>8

\* An executor call is made.
LEMMA CallInv ==
    ASSUME IInv, NEW s \in Session,
           StartTransfer(s) \/ StartContinuation(s)
    PROVE  IInv'
<1> USE DEF IInv, TypeOK, StartTransfer, StartContinuation, Runs, sessionVars, worldVars
<1>1. TypeOK'
  BY StateValues
<1>2. OneAttemptPerWork'
  BY DEF OneAttemptPerWork, IsActive, Terminal
<1>3. LoopInv'
  BY DEF LoopInv, NeverStranded, IsActive, Terminal
<1>4. HandoverInv'
  BY DEF HandoverInv
<1>5. TrustInv'
  BY DEF TrustInv, Unchecked, Checked
<1>6. ContactOnlyTrusted'
  BY DEF ContactOnlyTrusted
<1>7. CompletedIsVerified'
  BY DEF CompletedIsVerified
<1>8. OutcomeMatchesState'
  BY DEF OutcomeMatchesState
<1> QED
  BY <1>1, <1>2, <1>3, <1>4, <1>5, <1>6, <1>7, <1>8

\* There is nothing to transfer.
LEMMA SkipInv ==
    ASSUME IInv, NEW s \in Session,
           SkipTransfer(s)
    PROVE  IInv'
<1> USE DEF IInv, TypeOK, SkipTransfer, Runs, Advance, Result, Outcome, worldVars
<1>1. TypeOK'
  BY StateValues
<1>2. OneAttemptPerWork'
  BY DEF OneAttemptPerWork, IsActive, Terminal
<1>3. LoopInv'
  BY DEF LoopInv, NeverStranded, IsActive, Terminal
<1>4. HandoverInv'
  BY DEF HandoverInv
<1>5. TrustInv'
  BY DEF TrustInv, Unchecked, Checked
<1>6. ContactOnlyTrusted'
  BY DEF ContactOnlyTrusted
<1>7. CompletedIsVerified'
  BY DEF CompletedIsVerified
<1>8. OutcomeMatchesState'
  BY DEF OutcomeMatchesState
<1> QED
  BY <1>1, <1>2, <1>3, <1>4, <1>5, <1>6, <1>7, <1>8

\* A transfer call ends the attempt, whether or not Flux has the transfer.
LEMMA TransferEndsInv ==
    ASSUME IInv, NEW s \in Session, NEW x \in FluxStatus,
           busy = NoSession, call[s] = "transfer",
           call' = [call EXCEPT ![s] = "none"], Fail(s),
           flux' \in {flux, [flux EXCEPT ![s] = Append(@, x)]},
           UNCHANGED <<request, target, verified, attempt, zarya, worldVars>>
    PROVE  IInv'
<1> USE DEF IInv, TypeOK, Fail, Finish, Result, Outcome, worldVars
<1>1. TypeOK'
  <2>1. state' \in [Session -> Lifecycle!State \cup {"absent"}]
    BY StateValues
  <2>2. result' \in [Session -> [outcome : Outcome \cup {"none"},
                                transfer_completed : BOOLEAN,
                                zarya_outcome : Verdict \cup {"none"}]]
    OBVIOUS
  <2>3. flux' \in [Session -> Seq(FluxStatus)]
    <3>1. Append(flux[s], x) \in Seq(FluxStatus)
      OBVIOUS
    <3>2. CASE flux' = flux
      BY <3>2
    <3>3. CASE flux' = [flux EXCEPT ![s] = Append(@, x)]
      BY <3>1, <3>3
    <3> QED
      BY <3>2, <3>3
  <2> QED
    BY <2>1, <2>2, <2>3
<1>2. OneAttemptPerWork'
  BY DEF OneAttemptPerWork, IsActive, Terminal, LoopInv, NeverStranded
<1>3. LoopInv'
  BY DEF LoopInv, NeverStranded, IsActive, Terminal
<1>4. HandoverInv'
  BY DEF HandoverInv, LoopInv, NeverStranded, IsActive, Terminal
<1>5. TrustInv'
  BY DEF TrustInv, Unchecked, Checked, LoopInv, NeverStranded, IsActive, Terminal
<1>6. ContactOnlyTrusted'
  BY DEF ContactOnlyTrusted, TrustInv, Unchecked, Checked, LoopInv, NeverStranded, IsActive, Terminal
<1>7. CompletedIsVerified'
  BY DEF CompletedIsVerified, LoopInv, NeverStranded, IsActive, Terminal
<1>8. OutcomeMatchesState'
  BY DEF OutcomeMatchesState, LoopInv, NeverStranded, IsActive, Terminal
<1> QED
  BY <1>1, <1>2, <1>3, <1>4, <1>5, <1>6, <1>7, <1>8

\* Flux has a further transfer and the coroutine goes on.
LEMMA TransferInv ==
    ASSUME IInv, NEW s \in Session, NEW x \in FluxStatus,
           busy = NoSession, call[s] = "transfer",
           call' = [call EXCEPT ![s] = "none"],
           flux' = [flux EXCEPT ![s] = Append(@, x)],
           busy' = s,
           UNCHANGED <<state, result, request, target, verified, attempt, zarya,
                       worldVars>>
    PROVE  IInv'
<1> USE DEF IInv, TypeOK, worldVars
<1>1. TypeOK'
  BY StateValues
<1>2. OneAttemptPerWork'
  BY DEF OneAttemptPerWork, IsActive, Terminal, LoopInv, NeverStranded
<1>3. LoopInv'
  BY DEF LoopInv, NeverStranded, IsActive, Terminal
<1>4. HandoverInv'
  BY DEF HandoverInv, LoopInv, NeverStranded, IsActive, Terminal
<1>5. TrustInv'
  BY DEF TrustInv, Unchecked, Checked, LoopInv, NeverStranded, IsActive, Terminal
<1>6. ContactOnlyTrusted'
  BY DEF ContactOnlyTrusted, TrustInv, Unchecked, Checked, LoopInv, NeverStranded, IsActive, Terminal
<1>7. CompletedIsVerified'
  BY DEF CompletedIsVerified, LoopInv, NeverStranded, IsActive, Terminal
<1>8. OutcomeMatchesState'
  BY DEF OutcomeMatchesState, LoopInv, NeverStranded, IsActive, Terminal
<1> QED
  BY <1>1, <1>2, <1>3, <1>4, <1>5, <1>6, <1>7, <1>8

\* The continuation call fails.
LEMMA ContinuationFailsInv ==
    ASSUME IInv, NEW s \in Session,
           ContinuationFails(s)
    PROVE  IInv'
<1> USE DEF IInv, TypeOK, ContinuationFails, Fail, Finish, Result, Outcome, worldVars
<1>1. TypeOK'
  BY StateValues
<1>2. OneAttemptPerWork'
  BY DEF OneAttemptPerWork, IsActive, Terminal, LoopInv, NeverStranded
<1>3. LoopInv'
  BY DEF LoopInv, NeverStranded, IsActive, Terminal
<1>4. HandoverInv'
  BY DEF HandoverInv, LoopInv, NeverStranded, IsActive, Terminal
<1>5. TrustInv'
  BY DEF TrustInv, Unchecked, Checked, LoopInv, NeverStranded, IsActive, Terminal
<1>6. ContactOnlyTrusted'
  BY DEF ContactOnlyTrusted, TrustInv, Unchecked, Checked, LoopInv, NeverStranded, IsActive, Terminal
<1>7. CompletedIsVerified'
  BY DEF CompletedIsVerified, LoopInv, NeverStranded, IsActive, Terminal
<1>8. OutcomeMatchesState'
  BY DEF OutcomeMatchesState, LoopInv, NeverStranded, IsActive, Terminal
<1> QED
  BY <1>1, <1>2, <1>3, <1>4, <1>5, <1>6, <1>7, <1>8

\* Zarya answers.
LEMMA ContinuationReturnsInv ==
    ASSUME IInv, NEW s \in Session,
           ContinuationReturns(s)
    PROVE  IInv'
<1> USE DEF IInv, TypeOK, ContinuationReturns, Advance, Result, Outcome, Verdict, worldVars
<1>1. TypeOK'
  BY StateValues
<1>2. OneAttemptPerWork'
  BY DEF OneAttemptPerWork, IsActive, Terminal, NeverStranded, LoopInv
<1>3. LoopInv'
  BY DEF LoopInv, NeverStranded, IsActive, Terminal
<1>4. HandoverInv'
  BY DEF HandoverInv, LoopInv, NeverStranded, IsActive, Terminal
<1>5. TrustInv'
  BY DEF TrustInv, Unchecked, Checked, LoopInv, NeverStranded, IsActive, Terminal
<1>6. ContactOnlyTrusted'
  BY DEF ContactOnlyTrusted
<1>7. CompletedIsVerified'
  BY DEF CompletedIsVerified
<1>8. OutcomeMatchesState'
  BY DEF OutcomeMatchesState
<1> QED
  BY <1>1, <1>2, <1>3, <1>4, <1>5, <1>6, <1>7, <1>8

\* The answer is judged.
LEMMA VerifyResultInv ==
    ASSUME IInv, NEW s \in Session,
           VerifyResult(s)
    PROVE  IInv'
<1> USE DEF IInv, TypeOK, VerifyResult, FinalOf, Runs, Finish, Outcome, Verdict, worldVars
<1>1. TypeOK'
  <2>1. state' \in [Session -> Lifecycle!State \cup {"absent"}]
    BY StateValues
  <2>2. result' \in [Session -> [outcome : Outcome \cup {"none"},
                                transfer_completed : BOOLEAN,
                                zarya_outcome : Verdict \cup {"none"}]]
    <3>1. result[s] \in [outcome : Outcome \cup {"none"},
                         transfer_completed : BOOLEAN,
                         zarya_outcome : Verdict \cup {"none"}]
      OBVIOUS
    <3>2. \A o \in Outcome : [result[s] EXCEPT !.outcome = o] \in
              [outcome : Outcome \cup {"none"},
               transfer_completed : BOOLEAN,
               zarya_outcome : Verdict \cup {"none"}]
      BY <3>1
    <3>3. FinalOf(result[s].zarya_outcome).outcome \in Outcome
      OBVIOUS
    <3> QED
      BY <3>2, <3>3
  <2>3. flux' \in [Session -> Seq(FluxStatus)]
    OBVIOUS
  <2> QED
    BY <2>1, <2>2, <2>3
<1>2. OneAttemptPerWork'
  BY DEF OneAttemptPerWork, IsActive, Terminal
<1>3. LoopInv'
  BY DEF LoopInv, NeverStranded, IsActive, Terminal
<1>4. HandoverInv'
  BY DEF HandoverInv
<1>5. TrustInv'
  BY DEF TrustInv, Unchecked, Checked
<1>6. ContactOnlyTrusted'
  BY DEF ContactOnlyTrusted
<1>7. CompletedIsVerified'
  BY DEF CompletedIsVerified, HandoverInv
<1>8. OutcomeMatchesState'
  BY DEF OutcomeMatchesState, HandoverInv
<1> QED
  BY <1>1, <1>2, <1>3, <1>4, <1>5, <1>6, <1>7, <1>8

\* Flux carries a transfer on.
LEMMA FluxInv ==
    ASSUME IInv, NEW s \in Session, NEW k \in 1 .. Len(flux[s]),
           FluxProgress(s, k)
    PROVE  IInv'
<1> USE DEF IInv, TypeOK, FluxProgress, FluxStatus, sessionVars, worldVars
<1>1. TypeOK'
  BY StateValues
<1>2. OneAttemptPerWork'
  BY DEF OneAttemptPerWork, IsActive, Terminal
<1>3. LoopInv'
  BY DEF LoopInv, NeverStranded, IsActive, Terminal
<1>4. HandoverInv'
  BY DEF HandoverInv
<1>5. TrustInv'
  BY DEF TrustInv, Unchecked, Checked
<1>6. ContactOnlyTrusted'
  BY DEF ContactOnlyTrusted
<1>7. CompletedIsVerified'
  BY DEF CompletedIsVerified
<1>8. OutcomeMatchesState'
  BY DEF OutcomeMatchesState
<1> QED
  BY <1>1, <1>2, <1>3, <1>4, <1>5, <1>6, <1>7, <1>8

\* Zarya receives the work.
LEMMA ZaryaReceivesInv ==
    ASSUME IInv, NEW s \in Session,
           ZaryaReceives(s)
    PROVE  IInv'
<1> USE DEF IInv, TypeOK, ZaryaReceives, Verdict, sessionVars, worldVars
<1>1. TypeOK'
  BY StateValues
<1>2. OneAttemptPerWork'
  BY DEF OneAttemptPerWork, IsActive, Terminal
<1>3. LoopInv'
  BY DEF LoopInv, NeverStranded, IsActive, Terminal
<1>4. HandoverInv'
  BY DEF HandoverInv
<1>5. TrustInv'
  BY DEF TrustInv, Unchecked, Checked
<1>6. ContactOnlyTrusted'
  BY DEF ContactOnlyTrusted, TrustInv, Unchecked, Checked, LoopInv, NeverStranded, IsActive, Terminal
<1>7. CompletedIsVerified'
  BY DEF CompletedIsVerified
<1>8. OutcomeMatchesState'
  BY DEF OutcomeMatchesState
<1> QED
  BY <1>1, <1>2, <1>3, <1>4, <1>5, <1>6, <1>7, <1>8

\* Zarya finishes the work.
LEMMA ZaryaFinishesInv ==
    ASSUME IInv, NEW s \in Session, NEW x \in Verdict,
           ZaryaFinishes(s, x)
    PROVE  IInv'
<1> USE DEF IInv, TypeOK, ZaryaFinishes, Verdict, sessionVars, worldVars
<1>1. TypeOK'
  BY StateValues
<1>2. OneAttemptPerWork'
  BY DEF OneAttemptPerWork, IsActive, Terminal
<1>3. LoopInv'
  BY DEF LoopInv, NeverStranded, IsActive, Terminal
<1>4. HandoverInv'
  BY DEF HandoverInv
<1>5. TrustInv'
  BY DEF TrustInv, Unchecked, Checked
<1>6. ContactOnlyTrusted'
  BY DEF ContactOnlyTrusted
<1>7. CompletedIsVerified'
  BY DEF CompletedIsVerified
<1>8. OutcomeMatchesState'
  BY DEF OutcomeMatchesState
<1> QED
  BY <1>1, <1>2, <1>3, <1>4, <1>5, <1>6, <1>7, <1>8

\* Trust changes.
LEMMA ChangeTrustInv ==
    ASSUME IInv, NEW n \in Node, NEW x \in {"trusted", "revoked"},
           ChangeTrust(n, x)
    PROVE  IInv'
<1> USE DEF IInv, TypeOK, ChangeTrust, TrustStatus, sessionVars
<1>1. TypeOK'
  BY StateValues
<1>2. OneAttemptPerWork'
  BY DEF OneAttemptPerWork, IsActive, Terminal
<1>3. LoopInv'
  BY DEF LoopInv, NeverStranded, IsActive, Terminal
<1>4. HandoverInv'
  BY DEF HandoverInv
<1>5. TrustInv'
  BY DEF TrustInv, Unchecked, Checked
<1>6. ContactOnlyTrusted'
  BY DEF ContactOnlyTrusted
<1>7. CompletedIsVerified'
  BY DEF CompletedIsVerified
<1>8. OutcomeMatchesState'
  BY DEF OutcomeMatchesState
<1> QED
  BY <1>1, <1>2, <1>3, <1>4, <1>5, <1>6, <1>7, <1>8

\* The ecosystem changes.
LEMMA ChangeEligibleInv ==
    ASSUME IInv, NEW n \in Node,
           ChangeEligible(n)
    PROVE  IInv'
<1> USE DEF IInv, TypeOK, ChangeEligible, sessionVars
<1>1. TypeOK'
  BY StateValues
<1>2. OneAttemptPerWork'
  BY DEF OneAttemptPerWork, IsActive, Terminal
<1>3. LoopInv'
  BY DEF LoopInv, NeverStranded, IsActive, Terminal
<1>4. HandoverInv'
  BY DEF HandoverInv
<1>5. TrustInv'
  BY DEF TrustInv, Unchecked, Checked
<1>6. ContactOnlyTrusted'
  BY DEF ContactOnlyTrusted
<1>7. CompletedIsVerified'
  BY DEF CompletedIsVerified
<1>8. OutcomeMatchesState'
  BY DEF OutcomeMatchesState
<1> QED
  BY <1>1, <1>2, <1>3, <1>4, <1>5, <1>6, <1>7, <1>8

-----------------------------------------------------------------------------
(* The invariant holds.                                                    *)

\* Every action of the specification preserves the invariant.
LEMMA InvStep == IInv /\ [Next]_vars => IInv'
<1> SUFFICES ASSUME IInv, [Next]_vars PROVE IInv'
  OBVIOUS
<1>1. CASE UNCHANGED vars
  BY <1>1 DEF IInv, vars, TypeOK, OneAttemptPerWork, IsActive, LoopInv, NeverStranded,
     HandoverInv, TrustInv, ContactOnlyTrusted, CompletedIsVerified, OutcomeMatchesState
<1>2. ASSUME NEW s \in Session, Accept(s) PROVE IInv'
  BY <1>2, AcceptInv
<1>3. ASSUME NEW s \in Session, Pipeline(s) PROVE IInv'
  <2>1. CASE BeginValidating(s)
    BY <2>1, MoveInv DEF BeginValidating
  <2>2. CASE Validate(s)
    <3>1. CASE Fail(s)
      BY <2>2, <3>1, EndInv DEF Validate, Fail, Runs
    <3>2. CASE Finish(s, "unsupported", Result("unsupported", FALSE, "none"))
      BY <2>2, <3>2, EndInv DEF Validate, Runs
    <3>3. CASE Advance(s, "target_selected") /\ UNCHANGED <<result, busy>>
      BY <2>2, <3>3, MoveInv DEF Validate
    <3> QED
      BY <2>2, <3>1, <3>2, <3>3 DEF Validate
  <2>3. CASE SelectTarget(s)
    <3>1. CASE Fail(s) /\ UNCHANGED target
      BY <2>3, <3>1, EndInv DEF SelectTarget, Fail, Runs
    <3>2. ASSUME NEW n \in eligible, target' = [target EXCEPT ![s] = n],
                 Advance(s, "authorized"), UNCHANGED <<result, busy>>
          PROVE  IInv'
      BY <2>3, <3>2, SelectInv DEF SelectTarget
    <3> QED
      BY <2>3, <3>1, <3>2 DEF SelectTarget
  <2>4. CASE VerifyTrust(s)
    <3>1. CASE Fail(s) /\ UNCHANGED verified
      BY <2>4, <3>1, EndInv DEF VerifyTrust, Fail, Runs
    <3>2. CASE /\ trust[target[s]] = "trusted"
               /\ verified' = [verified EXCEPT ![s] = TRUE]
               /\ Advance(s, "preparing")
               /\ UNCHANGED <<result, busy>>
      BY <2>4, <3>2, TrustedInv DEF VerifyTrust
    <3> QED
      BY <2>4, <3>1, <3>2 DEF VerifyTrust
  <2>5. CASE Prepare(s)
    BY <2>5, MoveInv DEF Prepare
  <2>6. CASE SkipTransfer(s)
    BY <2>6, SkipInv
  <2>7. CASE StartTransfer(s)
    BY <2>7, CallInv
  <2>8. CASE EndTransfer(s)
    BY <2>8, MoveInv DEF EndTransfer
  <2>9. ASSUME NEW x \in FluxStatus, TransferReturns(s, x) PROVE IInv'
    <3>1. CASE x \in {"FAILED", "CANCELLED"}
      BY <2>9, <3>1, TransferEndsInv DEF TransferReturns
    <3>2. CASE x \notin {"FAILED", "CANCELLED"}
      BY <2>9, <3>2, TransferInv DEF TransferReturns
    <3> QED
      BY <3>1, <3>2
  <2>10. CASE TransferFails(s)
    BY <2>10, TransferEndsInv DEF TransferFails, FluxStatus
  <2>11. CASE BeginContinuing(s)
    BY <2>11, MoveInv DEF BeginContinuing
  <2>12. CASE StartContinuation(s)
    BY <2>12, CallInv
  <2>13. CASE ContinuationReturns(s)
    BY <2>13, ContinuationReturnsInv
  <2>14. CASE ContinuationFails(s)
    BY <2>14, ContinuationFailsInv
  <2>15. CASE VerifyResult(s)
    BY <2>15, VerifyResultInv
  <2> QED
    BY <1>3, <2>1, <2>2, <2>3, <2>4, <2>5, <2>6, <2>7, <2>8, <2>9, <2>10, <2>11, <2>12,
       <2>13, <2>14, <2>15 DEF Pipeline
<1>4. CASE External
  BY <1>4, FluxInv, ZaryaReceivesInv, ZaryaFinishesInv, ChangeTrustInv, ChangeEligibleInv
     DEF External
<1> QED
  BY <1>1, <1>2, <1>3, <1>4 DEF Next, RefuseDuplicate

\* The invariant of the proofs below.
LEMMA Invariance == Spec => []IInv
  BY InvInit, InvStep, PTL DEF Spec

\* Type correctness.
THEOREM TypeCorrect == Spec => []TypeOK
<1>1. IInv => TypeOK
  BY DEF IInv
<1> QED
  BY <1>1, Invariance, PTL

\* However many requests for however many works interleave, a work id never has
\* two attempts under way (service.py 104-117).
THEOREM NoTwoAttempts == Spec => []OneAttemptPerWork
<1>1. IInv => OneAttemptPerWork
  BY DEF IInv
<1> QED
  BY <1>1, Invariance, PTL

\* An attempt under way runs or awaits exactly one call of its own stage.
THEOREM NoneStranded == Spec => []NeverStranded
<1>1. IInv => NeverStranded
  BY DEF IInv, LoopInv
<1> QED
  BY <1>1, Invariance, PTL

\* Neither an artifact nor the work ever reaches a node that this node had not
\* trusted by then, whatever the order of grants, revocations and requests
\* (service.py 171-175).
THEOREM TrustBeforeContact == Spec => []ContactOnlyTrusted
<1>1. IInv => ContactOnlyTrusted
  BY DEF IInv
<1> QED
  BY <1>1, Invariance, PTL

\* What a session reports is what became of it: success is earned by the
\* target's own verdict and every artifact handed over, and every other end is
\* reported as the end it was (models.py 32-43, service.py 472-485).
THEOREM HonestOutcome == Spec => []OutcomeIsHonest
<1>1. IInv => OutcomeIsHonest
  BY DEF IInv, OutcomeIsHonest
<1> QED
  BY <1>1, Invariance, PTL
-----------------------------------------------------------------------------
(* Continuity implements ContinuityLifecycle.                              *)

\* The moves the pipeline makes are declared in state.py 42-96.
LEMMA DeclaredMoves ==
    /\ "validating" \in Lifecycle!ValidTransitions("requested")
    /\ {"target_selected", "failed", "unsupported"} \subseteq
          Lifecycle!ValidTransitions("validating")
    /\ {"authorized", "failed"} \subseteq Lifecycle!ValidTransitions("target_selected")
    /\ {"preparing", "failed"} \subseteq Lifecycle!ValidTransitions("authorized")
    /\ "transferring" \in Lifecycle!ValidTransitions("preparing")
    /\ {"reconstructing", "failed"} \subseteq Lifecycle!ValidTransitions("transferring")
    /\ "continuing" \in Lifecycle!ValidTransitions("reconstructing")
    /\ {"verifying", "failed"} \subseteq Lifecycle!ValidTransitions("continuing")
    /\ {"completed", "failed", "unknown"} \subseteq Lifecycle!ValidTransitions("verifying")
<1> DEFINE stage == Lifecycle!Stages
           named == {"requested", "validating", "target_selected", "authorized",
                     "preparing", "transferring", "reconstructing", "continuing",
                     "verifying"}
<1>1. /\ stage[1] = "requested" /\ stage[2] = "validating" /\ stage[3] = "target_selected"
      /\ stage[4] = "authorized" /\ stage[5] = "preparing" /\ stage[6] = "transferring"
      /\ stage[7] = "reconstructing" /\ stage[8] = "continuing" /\ stage[9] = "verifying"
  BY DEF Lifecycle!Stages
<1>2. Lifecycle!Active = named
  BY <1>1 DEF Lifecycle!Active
<1> HIDE DEF stage
<1>3. \A k \in 1 .. 8 : stage[k + 1] \in {stage[j + 1] : j \in {i \in 1 .. 8 : stage[i] = stage[k]}}
  OBVIOUS
<1>4. ASSUME NEW k \in 1 .. 8, stage[k] \in named \ {"verifying"}
      PROVE  {stage[k + 1], "failed"} \subseteq Lifecycle!ValidTransitions(stage[k])
  <2>1. CASE stage[k] \in {"requested", "validating"}
    BY <1>3, <2>1 DEF Lifecycle!ValidTransitions, stage
  <2>2. CASE stage[k] \notin {"requested", "validating"}
    BY <1>2, <1>3, <1>4, <2>2 DEF Lifecycle!ValidTransitions, stage
  <2> QED
    BY <2>1, <2>2
<1>5. "unsupported" \in Lifecycle!ValidTransitions("validating")
  BY DEF Lifecycle!ValidTransitions
<1>6. {"completed", "failed", "unknown"} \subseteq Lifecycle!ValidTransitions("verifying")
  BY DEF Lifecycle!ValidTransitions
<1>7. \A k \in 1 .. 8 : {stage[k + 1], "failed"} \subseteq Lifecycle!ValidTransitions(stage[k])
  BY <1>1, <1>4
<1>8. /\ {stage[2], "failed"} \subseteq Lifecycle!ValidTransitions(stage[1])
      /\ {stage[3], "failed"} \subseteq Lifecycle!ValidTransitions(stage[2])
      /\ {stage[4], "failed"} \subseteq Lifecycle!ValidTransitions(stage[3])
      /\ {stage[5], "failed"} \subseteq Lifecycle!ValidTransitions(stage[4])
      /\ {stage[6], "failed"} \subseteq Lifecycle!ValidTransitions(stage[5])
      /\ {stage[7], "failed"} \subseteq Lifecycle!ValidTransitions(stage[6])
      /\ {stage[8], "failed"} \subseteq Lifecycle!ValidTransitions(stage[7])
      /\ {stage[9], "failed"} \subseteq Lifecycle!ValidTransitions(stage[8])
  BY <1>7
<1> QED
  BY <1>1, <1>5, <1>6, <1>8

\* Every step is a declared transition of one attempt or leaves all states alone.
LEMMA LifecycleStep == IInv /\ [Next]_vars => [Lifecycle!Next]_state
<1> SUFFICES ASSUME IInv, Next, state' # state PROVE Lifecycle!Next
  BY DEF vars
<1>1. ASSUME NEW s \in Session, NEW y \in Lifecycle!State,
             y \in Lifecycle!ValidTransitions(state[s]), Advance(s, y)
      PROVE  Lifecycle!Next
  BY <1>1 DEF Advance, Lifecycle!Next, Lifecycle!Transition
<1>2. ASSUME NEW s \in Session, Accept(s) PROVE Lifecycle!Next
  BY <1>2 DEF Accept, Lifecycle!Next, Lifecycle!Create
<1>3. ASSUME NEW s \in Session, Pipeline(s) PROVE Lifecycle!Next
  <2>1. CASE BeginValidating(s)
    BY <2>1, <1>1, DeclaredMoves, StateValues DEF BeginValidating, Runs
  <2>2. CASE Validate(s)
    BY <2>2, <1>1, DeclaredMoves, StateValues DEF Validate, Runs, Fail, Finish, Advance
  <2>3. CASE SelectTarget(s)
    BY <2>3, <1>1, DeclaredMoves, StateValues DEF SelectTarget, Runs, Fail, Finish, Advance
  <2>4. CASE VerifyTrust(s)
    BY <2>4, <1>1, DeclaredMoves, StateValues DEF VerifyTrust, Runs, Fail, Finish, Advance
  <2>5. CASE Prepare(s)
    BY <2>5, <1>1, DeclaredMoves, StateValues DEF Prepare, Runs
  <2>6. CASE SkipTransfer(s) \/ EndTransfer(s)
    BY <2>6, <1>1, DeclaredMoves, StateValues DEF SkipTransfer, EndTransfer, Runs
  <2>7. CASE StartTransfer(s) \/ StartContinuation(s)
    BY <2>7 DEF StartTransfer, StartContinuation, sessionVars
  <2>8. ASSUME NEW x \in FluxStatus, TransferReturns(s, x) PROVE Lifecycle!Next
    <3>1. state[s] = "transferring" /\ Advance(s, "failed")
      BY <2>8 DEF TransferReturns, Fail, Finish, Advance, IInv, LoopInv, NeverStranded
    <3> QED
      BY <3>1, <1>1, DeclaredMoves, StateValues
  <2>9. CASE TransferFails(s)
    <3>1. state[s] = "transferring" /\ Advance(s, "failed")
      BY <2>9 DEF TransferFails, Fail, Finish, Advance, IInv, LoopInv, NeverStranded
    <3> QED
      BY <3>1, <1>1, DeclaredMoves, StateValues
  <2>10. CASE BeginContinuing(s)
    BY <2>10, <1>1, DeclaredMoves, StateValues DEF BeginContinuing, Runs
  <2>11. CASE ContinuationReturns(s)
    BY <2>11, <1>1, DeclaredMoves, StateValues
       DEF ContinuationReturns, IInv, LoopInv, NeverStranded
  <2>12. CASE ContinuationFails(s)
    <3>1. state[s] = "continuing" /\ Advance(s, "failed")
      BY <2>12 DEF ContinuationFails, Fail, Finish, Advance, IInv, LoopInv, NeverStranded
    <3> QED
      BY <3>1, <1>1, DeclaredMoves, StateValues
  <2>13. CASE VerifyResult(s)
    <3>1. PICK y \in {"completed", "failed", "unknown"} : Advance(s, y)
      BY <2>13 DEF VerifyResult, FinalOf, Finish, Advance
    <3> QED
      BY <2>13, <3>1, <1>1, DeclaredMoves, StateValues DEF VerifyResult, Runs
  <2> QED
    BY <1>3, <2>1, <2>2, <2>3, <2>4, <2>5, <2>6, <2>7, <2>8, <2>9, <2>10, <2>11, <2>12,
       <2>13 DEF Pipeline
<1>4. ~External
  BY DEF External, FluxProgress, ZaryaReceives, ZaryaFinishes, ChangeTrust,
     ChangeEligible, sessionVars
<1> QED
  BY <1>2, <1>3, <1>4 DEF Next, RefuseDuplicate, vars

\* The service implements the transition map it declares: every attempt starts
\* as REQUESTED, moves along declared transitions and never leaves a terminal
\* state, whatever interleaves (state.py 42-96, service.py 516-520).
THEOREM Implements == Spec => ImplementsLifecycle
<1>1. Init => Lifecycle!Init
  BY DEF Init, Lifecycle!Init
<1> QED
  BY <1>1, Invariance, LifecycleStep, PTL DEF Spec, ImplementsLifecycle, Lifecycle!Spec

-----------------------------------------------------------------------------
(* Attempts come to an end.                                                *)

\* A bound on the steps an attempt has still to take: two for each artifact that
\* is to be handed over, and one or two for each of the other stages.
ToGo(s) ==
    LET left  == request[s].artifacts - Len(flux[s])
        free == IF call[s] = "none" THEN 1 ELSE 0
    IN  IF state[s] = "absent" THEN 2 * left + 12
        ELSE IF state[s] = "requested" THEN 2 * left + 11
        ELSE IF state[s] = "validating" THEN 2 * left + 10
        ELSE IF state[s] = "target_selected" THEN 2 * left + 9
        ELSE IF state[s] = "authorized" THEN 2 * left + 8
        ELSE IF state[s] = "preparing" THEN 2 * left + 7
        ELSE IF state[s] = "transferring" THEN 2 * left + 5 + free
        ELSE IF state[s] = "reconstructing" THEN 4
        ELSE IF state[s] = "continuing" THEN 2 + free
        ELSE IF state[s] = "verifying" THEN 1
        ELSE 0

Stays(s) ==
    /\ state'[s] = state[s] /\ result'[s] = result[s] /\ target'[s] = target[s]
    /\ call'[s] = call[s] /\ Len(flux'[s]) = Len(flux[s])

\* What the counters of an attempt are bounded by.
LEMMA Numbers ==
    ASSUME IInv, NEW s \in Session
    PROVE  /\ request[s].artifacts \in Nat /\ Len(flux[s]) \in Nat
           /\ request[s].artifacts - Len(flux[s]) \in 0 .. request[s].artifacts
           /\ call[s] = "transfer" => Len(flux[s]) < request[s].artifacts
           /\ state[s] \in {"absent", "requested", "validating", "target_selected",
                            "authorized", "preparing", "transferring", "reconstructing",
                            "continuing", "verifying"} \cup Terminal
<1>1. TypeOK /\ HandoverInv
  BY DEF IInv
<1>2. flux[s] \in Seq(FluxStatus) /\ request[s].artifacts \in Nat
  BY <1>1 DEF TypeOK
<1>3. Len(flux[s]) \in Nat /\ Len(flux[s]) <= request[s].artifacts
  BY <1>1, <1>2 DEF HandoverInv
<1>4. state[s] \in Lifecycle!State \cup {"absent"}
  BY <1>1 DEF TypeOK
<1> QED
  BY <1>1, <1>2, <1>3, <1>4, StateValues DEF HandoverInv, Terminal

\* An attempt that has the loop or is answered gets on.
LEMMA AttemptAdvances ==
    ASSUME IInv, NEW s \in Session, Accept(s) \/ Pipeline(s)
    PROVE  ToGo(s)' < ToGo(s) /\ state[s] \notin Terminal
<1> DEFINE n == request[s].artifacts - Len(flux[s])
<1>1. TypeOK /\ request' = request
  BY DEF IInv, Accept, Pipeline, BeginValidating, Validate, SelectTarget, VerifyTrust, Prepare,
         SkipTransfer, StartTransfer, EndTransfer, TransferReturns, TransferFails,
         BeginContinuing, StartContinuation, ContinuationReturns, ContinuationFails,
         VerifyResult, sessionVars
<1>2. n \in Nat /\ request[s].artifacts \in Nat /\ Len(flux[s]) \in Nat
  BY Numbers
<1>3. busy = s => call[s] = "none"
  BY DEF IInv, LoopInv
<1>4. /\ call[s] = "transfer" => state[s] = "transferring"
      /\ call[s] = "continue" => state[s] = "continuing"
  BY DEF IInv, LoopInv, NeverStranded
\* Steps that only change the state.
<1>5. ASSUME flux' = flux, call' = call,
             \/ state[s] = "absent" /\ state'[s] = "requested"
             \/ state[s] = "requested" /\ state'[s] = "validating"
             \/ state[s] = "validating" /\ state'[s] \in {"target_selected", "failed", "unsupported"}
             \/ state[s] = "target_selected" /\ state'[s] \in {"authorized", "failed"}
             \/ state[s] = "authorized" /\ state'[s] \in {"preparing", "failed"}
             \/ state[s] = "preparing" /\ state'[s] = "transferring"
             \/ state[s] = "transferring" /\ state'[s] = "reconstructing"
             \/ state[s] = "reconstructing" /\ state'[s] = "continuing"
             \/ state[s] = "verifying" /\ state'[s] \in {"completed", "failed", "unknown"}
      PROVE  ToGo(s)' < ToGo(s) /\ state[s] \notin Terminal
  <2>1. n' = n
    BY <1>1, <1>5
  <2> HIDE DEF n
  <2> QED
    BY <1>2, <1>5, <2>1 DEF ToGo, Terminal, n
<1>6. CASE Accept(s) \/ BeginValidating(s) \/ Validate(s) \/ SelectTarget(s)
  BY <1>1, <1>5, <1>6 DEF TypeOK, Accept, BeginValidating, Validate, SelectTarget, Runs, Advance,
     Fail, Finish
<1>7. CASE VerifyTrust(s) \/ Prepare(s) \/ SkipTransfer(s) \/ EndTransfer(s) \/ BeginContinuing(s)
  BY <1>1, <1>5, <1>7 DEF TypeOK, VerifyTrust, Prepare, SkipTransfer, EndTransfer,
     BeginContinuing, Runs, Advance, Fail, Finish
<1>8. CASE VerifyResult(s)
  <2>1. FinalOf(result[s].zarya_outcome).state \in {"completed", "failed", "unknown"}
    BY DEF FinalOf
  <2>2. /\ state[s] = "verifying" /\ state'[s] \in {"completed", "failed", "unknown"}
        /\ flux' = flux /\ call' = call
    BY <1>1, <1>8, <2>1 DEF TypeOK, VerifyResult, Runs, Finish
  <2> QED
    BY <1>5, <2>2
<1>9. CASE StartTransfer(s) \/ StartContinuation(s)
  <2>1. /\ state' = state /\ flux' = flux /\ call[s] = "none" /\ call'[s] # "none"
        /\ state[s] \in {"transferring", "continuing"}
    BY <1>1, <1>3, <1>9 DEF TypeOK, StartTransfer, StartContinuation, Runs, sessionVars
  <2>2. CASE state[s] = "transferring"
    <3>1. ToGo(s) = 2 * n + 6
      BY <1>2, <2>1, <2>2 DEF ToGo
    <3>2. ToGo(s)' = 2 * n + 5
      BY <1>1, <1>2, <2>1, <2>2 DEF ToGo
    <3> QED
      BY <1>2, <2>2, <3>1, <3>2 DEF Terminal
  <2>3. CASE state[s] = "continuing"
    <3>1. ToGo(s) = 3 /\ ToGo(s)' = 2
      BY <2>1, <2>3 DEF ToGo
    <3> QED
      BY <2>3, <3>1 DEF Terminal
  <2> QED
    BY <2>1, <2>2, <2>3
<1>10. ASSUME NEW status \in FluxStatus, TransferReturns(s, status)
       PROVE  ToGo(s)' < ToGo(s) /\ state[s] \notin Terminal
  <2>1. /\ state[s] = "transferring" /\ call[s] = "transfer" /\ call'[s] = "none"
        /\ state'[s] \in {"transferring", "failed"}
    BY <1>1, <1>4, <1>10 DEF TypeOK, TransferReturns, Fail, Finish
  <2>2. Len(flux'[s]) = Len(flux[s]) + 1
    BY <1>1, <1>10 DEF TypeOK, TransferReturns
  <2>3. n >= 1 /\ request[s].artifacts - Len(flux'[s]) = n - 1
    BY <1>2, <2>1, <2>2, Numbers
  <2>4. ToGo(s) = 2 * n + 5
    BY <1>2, <2>1 DEF ToGo
  <2>5. ToGo(s)' = 2 * (n - 1) + 6 \/ ToGo(s)' = 0
    <3>1. request'[s].artifacts - Len(flux'[s]) = n - 1
      BY <1>1, <2>3
    <3> HIDE DEF n
    <3> QED
      BY <1>2, <2>1, <3>1 DEF ToGo
  <2> QED
    BY <1>2, <2>1, <2>4, <2>5 DEF Terminal
<1>11. CASE TransferFails(s) \/ ContinuationFails(s)
  <2>1. state[s] \in {"transferring", "continuing"} /\ state'[s] = "failed"
    BY <1>1, <1>4, <1>11 DEF TypeOK, TransferFails, ContinuationFails, Fail, Finish
  <2>2. ToGo(s)' = 0
    BY <2>1 DEF ToGo
  <2>3. ToGo(s) \in {2 * n + 5, 2 * n + 6, 2, 3}
    BY <1>2, <2>1 DEF ToGo
  <2> QED
    BY <1>2, <2>1, <2>2, <2>3 DEF Terminal
<1>12. CASE ContinuationReturns(s)
  <2>1. state[s] = "continuing" /\ state'[s] = "verifying"
    BY <1>1, <1>4, <1>12 DEF TypeOK, ContinuationReturns, Advance
  <2> QED
    BY <2>1 DEF ToGo, Terminal
<1> QED
  BY <1>6, <1>7, <1>8, <1>9, <1>10, <1>11, <1>12 DEF Pipeline

\* Whatever else happens leaves it where it is.
LEMMA AttemptStays ==
    ASSUME IInv, NEW s \in Session,
           \/ UNCHANGED vars \/ External
           \/ \E r \in Request : RefuseDuplicate(r)
           \/ \E q \in Session \ {s} : Accept(q) \/ Pipeline(q)
    PROVE  Stays(s)
<1>1. TypeOK
  BY DEF IInv
<1>2. CASE UNCHANGED vars \/ \E r \in Request : RefuseDuplicate(r)
  BY <1>2 DEF vars, RefuseDuplicate, Stays
<1>3. CASE External
  <2>1. UNCHANGED <<sessionVars, call>>
    BY <1>3 DEF External, FluxProgress, ZaryaReceives, ZaryaFinishes, ChangeTrust, ChangeEligible
  <2>2. Len(flux'[s]) = Len(flux[s])
    <3>1. CASE flux' = flux
      BY <3>1
    <3>2. CASE \E q \in Session : \E k \in 1 .. Len(flux[q]) : FluxProgress(q, k)
      <4>1. PICK q \in Session : \E k \in 1 .. Len(flux[q]) : FluxProgress(q, k)
        BY <3>2
      <4>2. PICK k \in 1 .. Len(flux[q]) : FluxProgress(q, k)
        BY <4>1
      <4>3. PICK next \in FluxStatus : flux' = [flux EXCEPT ![q][k] = next]
        BY <4>2 DEF FluxProgress, FluxStatus
      <4>4. flux[s] \in Seq(FluxStatus) /\ flux[q] \in Seq(FluxStatus)
        BY <1>1 DEF TypeOK
      <4>5. CASE q = s
        <5>1. flux'[s] = [flux[s] EXCEPT ![k] = next]
          BY <1>1, <4>3, <4>5 DEF TypeOK
        <5> QED
          BY <4>4, <5>1
      <4>6. CASE q # s
        BY <1>1, <4>3, <4>6 DEF TypeOK
      <4> QED
        BY <4>5, <4>6
    <3> QED
      BY <1>3, <3>1, <3>2 DEF External, ZaryaReceives, ZaryaFinishes, ChangeTrust, ChangeEligible
  <2> QED
    BY <2>1, <2>2 DEF sessionVars, Stays
<1>4. ASSUME NEW q \in Session \ {s}, Accept(q) \/ Pipeline(q)
      PROVE  Stays(s)
  <2>1. CASE Accept(q) \/ BeginValidating(q) \/ Validate(q) \/ SelectTarget(q) \/ VerifyTrust(q)
              \/ Prepare(q) \/ SkipTransfer(q) \/ StartTransfer(q) \/ EndTransfer(q)
    BY <1>1, <2>1 DEF TypeOK, Stays, Accept, BeginValidating, Validate, SelectTarget, VerifyTrust,
       Prepare, SkipTransfer, StartTransfer, EndTransfer, Runs, Advance, Fail, Finish, sessionVars
  <2>2. ASSUME NEW status \in FluxStatus, TransferReturns(q, status)
        PROVE  Stays(s)
    BY <1>1, <2>2 DEF TypeOK, Stays, TransferReturns, Fail, Finish
  <2>3. CASE TransferFails(q)
    BY <1>1, <2>3 DEF TypeOK, Stays, TransferFails, Fail, Finish
  <2>4. CASE BeginContinuing(q) \/ StartContinuation(q) \/ ContinuationReturns(q)
              \/ ContinuationFails(q) \/ VerifyResult(q)
    BY <1>1, <2>4 DEF TypeOK, Stays, BeginContinuing, StartContinuation, ContinuationReturns,
       ContinuationFails, VerifyResult, Runs, Advance, Fail, Finish, sessionVars
  <2> QED
    BY <1>4, <2>1, <2>2, <2>3, <2>4 DEF Pipeline
<1> QED
  BY <1>2, <1>3, <1>4

\* Whatever Flux and Zarya answer and whatever becomes of trust and of the nodes,
\* an attempt takes at most two steps for each of its artifacts and twelve more
\* (service.py 78-514): each of its own brings it nearer to its end and nobody
\* else's throws it back. It is over exactly when its state is terminal. This is
\* the part of EveryAttemptEnds that needs no fairness.
THEOREM AttemptsAreBounded ==
    Spec => /\ [](\A s \in Session : /\ ToGo(s) \in 0 .. 2 * request[s].artifacts + 12
                                     /\ ToGo(s) = 0 <=> state[s] \in Terminal)
            /\ [][\A s \in Session : ToGo(s)' < ToGo(s) \/ Stays(s)]_vars
<1>1. ASSUME IInv
      PROVE  \A s \in Session : /\ ToGo(s) \in 0 .. 2 * request[s].artifacts + 12
                                /\ ToGo(s) = 0 <=> state[s] \in Terminal
  <2> SUFFICES ASSUME NEW s \in Session
               PROVE  /\ ToGo(s) \in 0 .. 2 * request[s].artifacts + 12
                      /\ ToGo(s) = 0 <=> state[s] \in Terminal
    OBVIOUS
  <2> DEFINE n == request[s].artifacts - Len(flux[s])
  <2>1. request[s].artifacts \in Nat /\ n \in 0 .. request[s].artifacts
    BY <1>1, Numbers
  <2>2. CASE state[s] \in {"absent", "requested", "validating", "target_selected",
                           "authorized", "preparing", "transferring"}
    <3>1. ToGo(s) \in {2 * n + 12, 2 * n + 11, 2 * n + 10, 2 * n + 9, 2 * n + 8, 2 * n + 7,
                       2 * n + 6, 2 * n + 5}
      BY <2>1, <2>2 DEF ToGo
    <3>2. n \in Nat /\ n <= request[s].artifacts
      BY <2>1
    <3>3. ToGo(s) \in Nat /\ ToGo(s) >= 1 /\ ToGo(s) <= 2 * request[s].artifacts + 12
      <4> HIDE DEF n
      <4> QED
        BY <2>1, <3>1, <3>2
    <3> QED
      BY <2>1, <2>2, <3>3 DEF Terminal
  <2>3. CASE state[s] \in {"reconstructing", "continuing", "verifying"}
    <3>1. ToGo(s) \in 1 .. 4
      BY <2>3 DEF ToGo
    <3> QED
      BY <2>1, <2>3, <3>1 DEF Terminal
  <2>4. CASE state[s] \in Terminal
    <3>1. ToGo(s) = 0
      BY <2>4 DEF ToGo, Terminal
    <3> QED
      BY <2>1, <2>4, <3>1
  <2> QED
    BY <1>1, <2>2, <2>3, <2>4, Numbers
<1>2. IInv /\ [Next]_vars => [\A s \in Session : ToGo(s)' < ToGo(s) \/ Stays(s)]_vars
  BY AttemptAdvances, AttemptStays DEF Next
<1> QED
  BY <1>1, <1>2, Invariance, PTL DEF Spec

\* What a session that has ended reports is final: a late answer, a verdict the
\* caller no longer waits for or a change of trust revises neither its state
\* nor its result (service.py 448-571), whatever other attempts do.
THEOREM OutcomesAreFinal ==
    Spec => [][\A s \in Session : state[s] \in Terminal => Stays(s)]_vars
<1>1. IInv /\ [Next]_vars => [\A s \in Session : state[s] \in Terminal => Stays(s)]_vars
  BY AttemptAdvances, AttemptStays DEF Next
<1> QED
  BY <1>1, Invariance, PTL DEF Spec

=============================================================================
