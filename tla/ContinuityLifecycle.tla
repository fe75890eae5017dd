------------------------- MODULE ContinuityLifecycle -------------------------
(***************************************************************************)
(* What continuity/state.py promises of a continuity attempt: it starts as *)
(* REQUESTED, moves only along the declared transitions and stays in the   *)
(* terminal state it reaches. Continuity implements this specification.    *)
(***************************************************************************)
EXTENDS Naturals

CONSTANT Session    \* identities of attempts (continuity_id)

VARIABLE state      \* state[s]: the attempt's state, "absent" before it exists

\* TERMINAL_STATES
Terminal == {"completed", "failed", "cancelled", "unsupported", "unknown"}

\* The path an attempt takes when nothing goes wrong.
Stages == <<"requested", "validating", "target_selected", "authorized", "preparing",
            "transferring", "reconstructing", "continuing", "verifying">>

Active == {Stages[k] : k \in 1 .. 9}

State == Active \cup Terminal

\* _VALID_TRANSITIONS
ValidTransitions(s) ==
    CASE s \in {"requested", "validating"} ->
            {Stages[k + 1] : k \in {j \in 1 .. 8 : Stages[j] = s}}
                \cup {"failed", "cancelled", "unsupported"}
      [] s = "verifying" -> {"completed", "failed", "unknown"}
      [] s \in Active \ {"requested", "validating", "verifying"} ->
            {Stages[k + 1] : k \in {j \in 1 .. 8 : Stages[j] = s}}
                \cup {"failed", "cancelled"}
      [] OTHER -> {}

Init == state = [s \in Session |-> "absent"]

Create(s) ==
    /\ state[s] = "absent"
    /\ state' = [state EXCEPT ![s] = "requested"]

\* _transition, guarded by is_valid_transition
Transition(s, next) ==
    /\ next \in ValidTransitions(state[s])
    /\ state' = [state EXCEPT ![s] = next]

Next == \E s \in Session : Create(s) \/ \E next \in State : Transition(s, next)

Spec == Init /\ [][Next]_state

=============================================================================
