-------------------------- MODULE MCProviderFabric --------------------------
(* A small instance of ProviderFabric for TLC. The provider ids are those  *)
(* of the code in their alphabetical order: 1 flux.connectivity, 2         *)
(* local.filesystem, 3 local.index (a second provider as the tests inject  *)
(* them), 4 zarya.agent. The node with id 2 is this one.                   *)
EXTENDS ProviderFabric, TLC

Capabilities == {"file.read", "file.index", "zarya.work.continue", "connectivity.transfer"}

\* The second provider is first in the list, and defines nothing.
Listed == <<3, 2>>

Described ==
    1 :> <<"connectivity.transfer">> @@ 2 :> <<"file.read">>
    @@ 3 :> <<"file.read", "file.index">> @@ 4 :> <<"zarya.work.continue", "zarya.work.continue">>

Defined ==
    1 :> ("connectivity.transfer" :> "available") @@ 2 :> ("file.read" :> "available")
    @@ 3 :> <<>> @@ 4 :> ("zarya.work.continue" :> "available")

\* How Flux and Zarya map what they report (their mapper.py).
Mapped == 1 :> {"available", "unavailable"} @@ 4 :> AvailabilityStatus

\* A Shyam node with Zarya, as announcements make it known.
Peer(node, state) ==
    [node |-> node, provider |-> 4, capability |-> "zarya.work.continue",
     is_local |-> FALSE, node_state |-> state,
     provider_status |-> "available", availability |-> "available"]

PeerState == {"available", "unavailable", "stale"}

\* Up to two of them, in either order.
Peers ==
    {<<>>} \cup {<<Peer(n, s)>> : n \in {1, 3}, s \in PeerState}
    \cup {<<Peer(n[1], s), Peer(n[2], t)>> :
             n \in {<<1, 3>>, <<3, 1>>}, s \in PeerState, t \in PeerState}

Wishes ==
    {NoConstraints,
     [NoConstraints EXCEPT !.preferred_node = 3],
     [NoConstraints EXCEPT !.preferred_provider = 3],
     [NoConstraints EXCEPT !.preferred_node = 2, !.preferred_provider = 3],
     [NoConstraints EXCEPT !.local_only = TRUE],
     [NoConstraints EXCEPT !.remote_allowed = FALSE],
     [NoConstraints EXCEPT !.remote_allowed = FALSE, !.preferred_node = 1],
     [NoConstraints EXCEPT !.required_node_state = "available"],
     [NoConstraints EXCEPT !.required_provider_status = "available"]}

Requests == [capability : Capabilities, constraints : Wishes]
=============================================================================
