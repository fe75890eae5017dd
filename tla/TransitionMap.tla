---------------------------- MODULE TransitionMap ----------------------------
(***************************************************************************)
(* A state machine declared as a map from each state to the states that    *)
(* may follow it, as in workflow/state.py. Every thing that has such a     *)
(* state starts in the same one and moves only along the map; several may  *)
(* move at once.                                                           *)
(***************************************************************************)
CONSTANTS
    Thing,      \* what has a state
    Initial,    \* the state everything starts in
    Follows     \* Follows[x]: the states allowed after x

VARIABLE state  \* state[t]

Init == state = [t \in Thing |-> Initial]

Next == \A t \in Thing : state'[t] \in Follows[state[t]] \cup {state[t]}

Spec == Init /\ [][Next]_state

=============================================================================
