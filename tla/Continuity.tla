----------------------------- MODULE Continuity -----------------------------
(***************************************************************************)
(* ContinuityService (continuity/service.py): every accepted request is a  *)
(* coroutine that walks one attempt through select, authorize, transfer,   *)
(* continue and verify. Several run on one event loop. The pipeline yields *)
(* to other coroutines only where it awaits run_in_executor, for each Flux *)
(* transfer and for the Zarya continuation; "busy" is the attempt whose    *)
(* coroutine has the loop, and while there is one nothing else happens on  *)
(* this node: trust and the ecosystem registry change only between.        *)
(*                                                                         *)
(* Flux and Zarya are external: a transfer is only initiated by            *)
(* FluxProvider.transfer and goes on by itself, and Zarya may run the work *)
(* although the answer is lost or late (the HTTP client times out).        *)
(***************************************************************************)
EXTENDS Integers, Sequences

CONSTANTS
    Session,      \* attempts (bound on the number of accepted requests)
    Work,         \* work ids
    Node,         \* nodes of the ecosystem
    NoNode,       \* target = None
    NoSession,    \* nobody: no attempt for a work id, no coroutine on the loop
    Request,      \* the requests that may come
    Trusted,      \* nodes the trust store holds as TRUSTED at the start
    MaxChanges    \* bound: changes of trust and of the ecosystem

ASSUME ContinuityAssumption ==
    /\ Trusted \subseteq Node
    /\ NoNode \notin Node
    /\ NoSession \notin Session
    /\ Request \subseteq [work : Work, artifacts : Nat, empty : BOOLEAN,
                          migration : BOOLEAN]
    /\ MaxChanges \in Nat

VARIABLES
    state,        \* session.state, "absent" before the attempt exists
    request,      \* session.request
    target,       \* session.target.node_id
    verified,     \* session.target.trust_verified
    result,       \* session.result
    attempt,      \* _work_continuities: the last attempt of a work id
    busy,         \* the attempt whose coroutine runs, or NoSession
    call,         \* the executor call an attempt awaits
    flux,         \* external: the state of each transfer an attempt initiated
    zarya,        \* external: what happened to the attempt's work at Zarya
    trust,        \* TrustService: status per node
    eligible,     \* nodes whose Zarya provider the navigator may select
    everTrusted,  \* history: nodes that were TRUSTED at some time
    changes       \* counts changes of trust and eligibility, for MaxChanges

sessionVars == <<state, request, target, verified, result, attempt>>
worldVars   == <<trust, eligible, everTrusted, changes>>
vars == <<state, request, target, verified, result, attempt, busy, call, flux,
          zarya, trust, eligible, everTrusted, changes>>

Lifecycle == INSTANCE ContinuityLifecycle

Terminal == {"completed", "failed", "cancelled", "unsupported", "unknown"}
IsActive(s) == state[s] \notin Terminal \cup {"absent"}

FluxStatus  == {"CREATED", "RUNNING", "COMPLETED", "FAILED", "CANCELLED"}
Verdict     == {"VERIFIED_SUCCESS", "VERIFIED_FAILURE", "UNKNOWN"}
Outcome     == {"success", "failed", "unsupported", "unknown"}
TrustStatus == {"unknown", "trusted", "revoked"}

\* ContinuityResult; NoResult is None.
Result(outcome, transferred, verdict) ==
    [outcome |-> outcome, transfer_completed |-> transferred, zarya_outcome |-> verdict]
NoResult == Result("none", FALSE, "none")

Init ==
    /\ state = [s \in Session |-> "absent"]
    /\ request \in [Session -> Request]
    /\ target = [s \in Session |-> NoNode]
    /\ verified = [s \in Session |-> FALSE]
    /\ result = [s \in Session |-> NoResult]
    /\ attempt = [w \in Work |-> NoSession]
    /\ busy = NoSession
    /\ call = [s \in Session |-> "none"]
    /\ flux = [s \in Session |-> <<>>]
    /\ zarya = [s \in Session |-> "none"]
    /\ trust = [n \in Node |-> IF n \in Trusted THEN "trusted" ELSE "unknown"]
    /\ eligible = Node
    /\ everTrusted = Trusted
    /\ changes = 0

-----------------------------------------------------------------------------
(* The coroutine of attempt s. Runs(s, x): it has the loop in state x.     *)

Runs(s, x) == busy = s /\ state[s] = x

\* _transition to a state that does not end the attempt, the result kept.
Advance(s, next) == state' = [state EXCEPT ![s] = next]

\* _transition to a terminal state with a result; the coroutine returns.
Finish(s, final, res) ==
    /\ state' = [state EXCEPT ![s] = final]
    /\ result' = [result EXCEPT ![s] = res]
    /\ busy' = NoSession

\* _fail
Fail(s) == Finish(s, "failed", Result("failed", FALSE, "none"))

\* request_continuity, the duplicate check under the lock: an active attempt
\* for the same work is refused with DuplicateContinuityError ...
ActiveAttempt(w) == attempt[w] # NoSession /\ IsActive(attempt[w])

RefuseDuplicate(r) ==
    /\ busy = NoSession
    /\ ActiveAttempt(r.work)
    /\ UNCHANGED vars

\* Mutant: the index of attempts is not consulted.
AcceptUnchecked(s) ==
    /\ busy = NoSession
    /\ state[s] = "absent"
    /\ state' = [state EXCEPT ![s] = "requested"]
    /\ attempt' = [attempt EXCEPT ![request[s].work] = s]
    /\ busy' = s
    /\ UNCHANGED <<request, target, verified, result, call, flux, zarya, worldVars>>

\* ... and a new attempt is recorded otherwise.
Accept(s) ==
    /\ busy = NoSession
    /\ state[s] = "absent"
    /\ ~ActiveAttempt(request[s].work)
    /\ state' = [state EXCEPT ![s] = "requested"]
    /\ attempt' = [attempt EXCEPT ![request[s].work] = s]
    /\ busy' = s
    /\ UNCHANGED <<request, target, verified, result, call, flux, zarya, worldVars>>

BeginValidating(s) ==
    /\ Runs(s, "requested")
    /\ Advance(s, "validating")
    /\ UNCHANGED <<request, target, verified, result, attempt, busy, call, flux, zarya,
                   worldVars>>

\* _validate
Validate(s) ==
    /\ Runs(s, "validating")
    /\ \/ /\ request[s].empty
          /\ Fail(s)
       \/ /\ ~request[s].empty /\ request[s].migration
          /\ Finish(s, "unsupported", Result("unsupported", FALSE, "none"))
       \/ /\ ~request[s].empty /\ ~request[s].migration
          /\ Advance(s, "target_selected")
          /\ UNCHANGED <<result, busy>>
    /\ UNCHANGED <<request, target, verified, attempt, call, flux, zarya, worldVars>>

\* _select_target: the navigator's choice among the eligible nodes.
SelectTarget(s) ==
    /\ Runs(s, "target_selected")
    /\ \/ /\ eligible = {}
          /\ Fail(s)
          /\ UNCHANGED target
       \/ /\ \E n \in eligible : target' = [target EXCEPT ![s] = n]
          /\ Advance(s, "authorized")
          /\ UNCHANGED <<result, busy>>
    /\ UNCHANGED <<request, verified, attempt, call, flux, zarya, worldVars>>

\* Mutant: only a revoked target is refused.
VerifyTrustLax(s) ==
    /\ Runs(s, "authorized")
    /\ \/ /\ trust[target[s]] = "revoked"
          /\ Fail(s)
          /\ UNCHANGED verified
       \/ /\ trust[target[s]] # "revoked"
          /\ verified' = [verified EXCEPT ![s] = TRUE]
          /\ Advance(s, "preparing")
          /\ UNCHANGED <<result, busy>>
    /\ UNCHANGED <<request, target, attempt, call, flux, zarya, worldVars>>

\* Mutant: the preparing stage is skipped.
VerifyTrustSkip(s) ==
    /\ Runs(s, "authorized")
    /\ \/ /\ trust[target[s]] # "trusted"
          /\ Fail(s)
          /\ UNCHANGED verified
       \/ /\ trust[target[s]] = "trusted"
          /\ verified' = [verified EXCEPT ![s] = TRUE]
          /\ Advance(s, "transferring")
          /\ UNCHANGED <<result, busy>>
    /\ UNCHANGED <<request, target, attempt, call, flux, zarya, worldVars>>

\* _verify_trust
VerifyTrust(s) ==
    /\ Runs(s, "authorized")
    /\ \/ /\ trust[target[s]] # "trusted"
          /\ Fail(s)
          /\ UNCHANGED verified
       \/ /\ trust[target[s]] = "trusted"
          /\ verified' = [verified EXCEPT ![s] = TRUE]
          /\ Advance(s, "preparing")
          /\ UNCHANGED <<result, busy>>
    /\ UNCHANGED <<request, target, attempt, call, flux, zarya, worldVars>>

\* _prepare_artifacts does nothing yet.
Prepare(s) ==
    /\ Runs(s, "preparing")
    /\ Advance(s, "transferring")
    /\ UNCHANGED <<request, target, verified, result, attempt, busy, call, flux, zarya,
                   worldVars>>

\* _transfer_artifacts without artifacts.
SkipTransfer(s) ==
    /\ Runs(s, "transferring")
    /\ request[s].artifacts = 0
    /\ result' = [result EXCEPT ![s] = Result("success", TRUE, "none")]
    /\ Advance(s, "reconstructing")
    /\ UNCHANGED <<request, target, verified, attempt, busy, call, flux, zarya, worldVars>>

\* The next artifact is handed to an executor thread; the loop is free.
StartTransfer(s) ==
    /\ Runs(s, "transferring")
    /\ Len(flux[s]) < request[s].artifacts
    /\ call' = [call EXCEPT ![s] = "transfer"]
    /\ busy' = NoSession
    /\ UNCHANGED <<sessionVars, flux, zarya, worldVars>>

\* Flux answers with the status the new transfer has by then ...
TransferReturns(s, status) ==
    /\ busy = NoSession
    /\ call[s] = "transfer"
    /\ call' = [call EXCEPT ![s] = "none"]
    /\ flux' = [flux EXCEPT ![s] = Append(@, status)]
    /\ \/ /\ status \in {"FAILED", "CANCELLED"}
          /\ Fail(s)
       \/ /\ status \notin {"FAILED", "CANCELLED"}
          /\ busy' = s
          /\ UNCHANGED <<state, result>>
    /\ UNCHANGED <<request, target, verified, attempt, zarya, worldVars>>

\* ... or the provider raises; the gateway may have started the transfer.
TransferFails(s) ==
    /\ busy = NoSession
    /\ call[s] = "transfer"
    /\ call' = [call EXCEPT ![s] = "none"]
    /\ Fail(s)
    /\ flux' \in {flux, [flux EXCEPT ![s] = Append(@, "CREATED")]}
    /\ UNCHANGED <<request, target, verified, attempt, zarya, worldVars>>

\* Every artifact has been handed over.
EndTransfer(s) ==
    /\ Runs(s, "transferring")
    /\ request[s].artifacts > 0
    /\ Len(flux[s]) = request[s].artifacts
    /\ Advance(s, "reconstructing")
    /\ UNCHANGED <<request, target, verified, result, attempt, busy, call, flux, zarya,
                   worldVars>>

BeginContinuing(s) ==
    /\ Runs(s, "reconstructing")
    /\ Advance(s, "continuing")
    /\ UNCHANGED <<request, target, verified, result, attempt, busy, call, flux, zarya,
                   worldVars>>

\* _continue_on_target
StartContinuation(s) ==
    /\ Runs(s, "continuing")
    /\ call' = [call EXCEPT ![s] = "continue"]
    /\ busy' = NoSession
    /\ UNCHANGED <<sessionVars, flux, zarya, worldVars>>

\* Mutant: Zarya's verdict is stored as the outcome.
ContinuationReturnsRaw(s) ==
    /\ busy = NoSession
    /\ call[s] = "continue"
    /\ zarya[s] \in Verdict
    /\ call' = [call EXCEPT ![s] = "none"]
    /\ result' = [result EXCEPT ![s] = Result(zarya[s], TRUE, zarya[s])]
    /\ Advance(s, "verifying")
    /\ busy' = s
    /\ UNCHANGED <<request, target, verified, attempt, flux, zarya, worldVars>>

\* Zarya's answer, its verdict mapped by _map_zarya_outcome.
ContinuationReturns(s) ==
    /\ busy = NoSession
    /\ call[s] = "continue"
    /\ zarya[s] \in Verdict
    /\ call' = [call EXCEPT ![s] = "none"]
    /\ result' = [result EXCEPT ![s] =
                    Result(CASE zarya[s] = "VERIFIED_SUCCESS" -> "success"
                             [] zarya[s] = "VERIFIED_FAILURE" -> "failed"
                             [] OTHER -> "unknown",
                           TRUE, zarya[s])]
    /\ Advance(s, "verifying")
    /\ busy' = s
    /\ UNCHANGED <<request, target, verified, attempt, flux, zarya, worldVars>>

\* Mutant: the exception ends the coroutine.
ContinuationFailsUncaught(s) ==
    /\ busy = NoSession
    /\ call[s] = "continue"
    /\ call' = [call EXCEPT ![s] = "none"]
    /\ UNCHANGED <<sessionVars, busy, flux, zarya, worldVars>>

\* A refused or broken connection, or the client's timeout.
ContinuationFails(s) ==
    /\ busy = NoSession
    /\ call[s] = "continue"
    /\ call' = [call EXCEPT ![s] = "none"]
    /\ Fail(s)
    /\ UNCHANGED <<request, target, verified, attempt, flux, zarya, worldVars>>

\* Mutant: no bad news is good news.
FinalOfOptimistic(verdict) ==
    IF verdict = "VERIFIED_FAILURE" THEN [state |-> "failed", outcome |-> "failed"]
    ELSE [state |-> "completed", outcome |-> "success"]

\* _verify_result; the result it inspects is the one just stored.
FinalOf(verdict) ==
    CASE verdict = "VERIFIED_SUCCESS" -> [state |-> "completed", outcome |-> "success"]
      [] verdict = "VERIFIED_FAILURE" -> [state |-> "failed",    outcome |-> "failed"]
      [] OTHER                        -> [state |-> "unknown",   outcome |-> "unknown"]

VerifyResult(s) ==
    /\ Runs(s, "verifying")
    /\ LET final == FinalOf(result[s].zarya_outcome)
       IN  Finish(s, final.state, [result[s] EXCEPT !.outcome = final.outcome])
    /\ UNCHANGED <<request, target, verified, attempt, call, flux, zarya, worldVars>>

-----------------------------------------------------------------------------
(* The surroundings.                                                       *)

\* Flux carries an initiated transfer on.
FluxProgress(s, k) ==
    /\ flux[s][k] \in {"CREATED", "RUNNING"}
    /\ \E next \in IF flux[s][k] = "CREATED" THEN {"RUNNING"}
                   ELSE {"COMPLETED", "FAILED", "CANCELLED"} :
          flux' = [flux EXCEPT ![s][k] = next]
    /\ UNCHANGED <<sessionVars, busy, call, zarya, worldVars>>

\* The continuation request reaches Zarya ...
ZaryaReceives(s) ==
    /\ call[s] = "continue"
    /\ zarya[s] = "none"
    /\ zarya' = [zarya EXCEPT ![s] = "running"]
    /\ UNCHANGED <<sessionVars, busy, call, flux, worldVars>>

\* ... which runs the work to a verdict, whether or not the caller still waits.
ZaryaFinishes(s, verdict) ==
    /\ zarya[s] = "running"
    /\ zarya' = [zarya EXCEPT ![s] = verdict]
    /\ UNCHANGED <<sessionVars, busy, call, flux, worldVars>>

\* grant_trust and revoke_trust
ChangeTrust(n, status) ==
    /\ busy = NoSession
    /\ changes < MaxChanges
    /\ trust[n] # status
    /\ changes' = changes + 1
    /\ trust' = [trust EXCEPT ![n] = status]
    /\ everTrusted' = IF status = "trusted" THEN everTrusted \cup {n} ELSE everTrusted
    /\ UNCHANGED <<sessionVars, busy, call, flux, zarya, eligible>>

\* Nodes come and go in the ecosystem registry.
ChangeEligible(n) ==
    /\ busy = NoSession
    /\ changes < MaxChanges
    /\ changes' = changes + 1
    /\ eligible' = (eligible \cup {n}) \ (eligible \cap {n})
    /\ UNCHANGED <<sessionVars, busy, call, flux, zarya, trust, everTrusted>>

-----------------------------------------------------------------------------

\* What the loop and its executor threads do for attempt s.
Pipeline(s) ==
    \/ BeginValidating(s)   \/ Validate(s)
    \/ SelectTarget(s)      \/ VerifyTrust(s)       \/ Prepare(s)
    \/ SkipTransfer(s)      \/ StartTransfer(s)     \/ EndTransfer(s)
    \/ \E status \in FluxStatus : TransferReturns(s, status)
    \/ TransferFails(s)
    \/ BeginContinuing(s)   \/ StartContinuation(s)
    \/ ContinuationReturns(s) \/ ContinuationFails(s)
    \/ VerifyResult(s)

External ==
    \/ \E s \in Session : \E k \in 1 .. Len(flux[s]) : FluxProgress(s, k)
    \/ \E s \in Session : ZaryaReceives(s)
    \/ \E s \in Session, verdict \in Verdict : ZaryaFinishes(s, verdict)
    \/ \E n \in Node, status \in {"trusted", "revoked"} : ChangeTrust(n, status)
    \/ \E n \in Node : ChangeEligible(n)

Next ==
    \/ \E r \in Request : RefuseDuplicate(r)
    \/ \E s \in Session : Accept(s) \/ Pipeline(s)
    \/ External

\* asyncio resumes every ready coroutine, and the blocking clients return or
\* time out (10 s), so a pipeline that can go on does.
Fairness == \A s \in Session : WF_vars(Pipeline(s))

Spec == Init /\ [][Next]_vars /\ Fairness

-----------------------------------------------------------------------------
(* Properties.                                                             *)

TypeOK ==
    /\ state \in [Session -> Lifecycle!State \cup {"absent"}]
    /\ request \in [Session -> Request]
    /\ target \in [Session -> Node \cup {NoNode}]
    /\ verified \in [Session -> BOOLEAN]
    /\ result \in [Session -> [outcome : Outcome \cup {"none"},
                               transfer_completed : BOOLEAN,
                               zarya_outcome : Verdict \cup {"none"}]]
    /\ attempt \in [Work -> Session \cup {NoSession}]
    /\ busy \in Session \cup {NoSession}
    /\ call \in [Session -> {"none", "transfer", "continue"}]
    /\ flux \in [Session -> Seq(FluxStatus)]
    /\ zarya \in [Session -> Verdict \cup {"none", "running"}]
    /\ trust \in [Node -> TrustStatus]
    /\ eligible \subseteq Node
    /\ everTrusted \subseteq Node
    /\ changes \in Nat

\* service.py:104 and the idempotency check (109-117): however the coroutines
\* interleave, a work id never has two attempts under way, and the attempt
\* under way is the one a duplicate is refused for.
OneAttemptPerWork ==
    \A s \in Session : IsActive(s) => attempt[request[s].work] = s

\* The loop and the executor: an attempt under way is either running or awaits
\* exactly one executor call, of its own stage; none is ever forgotten with
\* its work id blocked.
NeverStranded ==
    \A s \in Session :
        /\ IsActive(s) <=> (busy = s \/ call[s] # "none")
        /\ call[s] = "transfer" => state[s] = "transferring"
        /\ call[s] = "continue" => state[s] = "continuing"

\* No node is contacted, with an artifact or with the work, unless this node
\* trusted it (service.py 171-175; the validation report of S17.2: "zero Flux
\* or Zarya calls made").
ContactOnlyTrusted ==
    \A s \in Session :
        (flux[s] # <<>> \/ zarya[s] # "none") =>
            /\ verified[s]
            /\ target[s] \in everTrusted

\* COMPLETED is earned: the target verified success for this attempt, after
\* every artifact had been handed over (service.py 472-485, 560-561).
CompletedIsVerified ==
    \A s \in Session :
        state[s] = "completed" =>
            /\ zarya[s] = "VERIFIED_SUCCESS"
            /\ result[s].outcome = "success"
            /\ Len(flux[s]) = request[s].artifacts

\* The terminal state and the reported outcome agree, and UNKNOWN is reported
\* exactly when the target answered without a verdict.
OutcomeMatchesState ==
    \A s \in Session :
        /\ state[s] = "failed"      => result[s].outcome = "failed"
        /\ state[s] = "unsupported" => result[s].outcome = "unsupported"
        /\ state[s] = "unknown"     => result[s].outcome = "unknown" /\ zarya[s] = "UNKNOWN"
        /\ state[s] = "absent"      => result[s] = NoResult

\* What a session reports of an attempt is what became of it: success is
\* earned, and every other end is reported as the end it was (service.py
\* 448-514, 560-571).
OutcomeIsHonest == CompletedIsVerified /\ OutcomeMatchesState

\* Every attempt follows the transition map of state.py and never leaves a
\* terminal state.
ImplementsLifecycle == Lifecycle!Spec

\* service.py:102 "Returns: ContinuitySession in a terminal state": whatever
\* Flux, Zarya, trust and the ecosystem do, an accepted attempt ends.
EveryAttemptEnds ==
    \A s \in Session : (state[s] # "absent") ~> (state[s] \in Terminal)

=============================================================================
