-------------------------- MODULE EcosystemDiscovery --------------------------
(***************************************************************************)
(* One view of the ecosystem from four sources: discover()                 *)
(* (discovery/ecosystem_service.py) writes the local node and the peers of *)
(* the Flux gateway into the EcosystemRegistry                             *)
(* (discovery/ecosystem_registry.py), UDP peers and direct calls write to  *)
(* it as well, and the EcosystemContextService (context/service.py) copies *)
(* the registry into the EcosystemStateStore (context/store.py) after each *)
(* of the registry's events.                                               *)
(*                                                                         *)
(* The registry changes first and publishes afterwards, outside its lock.  *)
(* publish() starts a handler task and suspends the publisher until it has *)
(* run, so that a discover() is suspended once per node it registers, and  *)
(* several of them interleave there. Handlers run first in, first out, and *)
(* without suspending: no lock they take is ever held across an await.     *)
(*                                                                         *)
(* Left out: timestamps (which nodes have aged is any choice), the store's *)
(* version number and feed of activities, and the one provider every       *)
(* remote node comes with.                                                 *)
(***************************************************************************)
EXTENDS Integers, Sequences, FiniteSets

CONSTANTS
    Local,        \* the id of the local node
    FluxPeer,     \* ids of nodes the Flux gateway may list
    UdpPeer,      \* ids of nodes that announce themselves
    Provider,     \* what a node may offer
    Adapter,      \* the providers that are connected rather than registered
    Flux,         \* the adapter that is the gateway
    Task,         \* calls of discover()
    Nobody,       \* a publisher nobody waits for
    Reconciler,   \* the task that runs reconcile_stale
    MaxEvents     \* bound: changes of the surroundings, announcements of UDP
                  \* peers and direct calls of the registry

Node == {Local} \cup FluxPeer \cup UdpPeer

ASSUME EcosystemAssumption ==
    /\ Local \notin FluxPeer \cup UdpPeer
    /\ FluxPeer \cap UdpPeer = {}
    /\ Flux \in Adapter
    /\ Adapter \subseteq Provider
    /\ Nobody \notin Task
    /\ Reconciler \notin Task \cup {Nobody}
    /\ MaxEvents \in Nat

VARIABLES
    registered,  \* external: the ProviderRegistry of the local node
    connected,   \* external: the adapters that are connected
    gateway,     \* external: how the gateway sees each of its peers
    nodes,       \* EcosystemRegistry._nodes
    events,      \* handler tasks of node events: the node and who waits
    store,       \* EcosystemStateStore._discovery
    unreported,  \* nodes reconcile_stale has marked and not published yet
    pc,          \* where each call of discover() is
    fetched,     \* flux_peers: the list the call got from the gateway
    left,        \* the peers of that list it has still to register
    offered,     \* the local providers it collected
    result,      \* the snapshot it returned
    before,      \* the calls that had returned when it began
    edited,      \* nodes that direct calls have touched
    happened     \* number of changes, announcements and direct calls

outside == <<registered, connected, gateway>>
direct  == <<unreported, edited>>
tasks   == <<pc, fetched, left, offered, result, before>>
vars    == <<outside, happened, nodes, events, store, direct, tasks>>

NodeState == {"known", "available", "unavailable", "stale"}
Connectivity == {"reachable", "unreachable", "other"}
Absent == [state |-> "absent", providers |-> {}]
Registered == {n \in Node : nodes[n] # Absent}

LocalProviders == registered \cup connected
LocalNode(ps) == [state |-> "available", providers |-> ps]
Remote(state) == [state |-> state, providers |-> {}]

\* Mutant: the gateway's word is the state.
PeerStateRaw(c) == c

\* How a gateway's word for a peer becomes a state.
PeerState(c) ==
    CASE c = "reachable"   -> "available"
      [] c = "unreachable" -> "unavailable"
      [] OTHER             -> "known"

\* create_snapshot
Snapshot == nodes

\* update_discovery: the snapshot replaces the last one.
UpdateDiscovery(snapshot) == store' = snapshot

\* EcosystemContextService.start: the registry is copied, then the service
\* subscribes; nothing suspends in between.
ContextStarted == store = Snapshot /\ events = <<>>

\* ShyamRuntime.start: the local node is registered, then the context service
\* starts.
Init ==
    /\ registered = Provider \ Adapter
    /\ connected \in SUBSET Adapter
    /\ gateway = [p \in FluxPeer |-> "absent"]
    /\ nodes = [n \in Node |-> IF n = Local THEN LocalNode(LocalProviders) ELSE Absent]
    /\ ContextStarted
    /\ unreported = {}
    /\ pc = [t \in Task |-> "idle"]
    /\ fetched = [t \in Task |-> [p \in FluxPeer |-> "absent"]]
    /\ left = [t \in Task |-> {}]
    /\ offered = [t \in Task |-> {}]
    /\ result = [t \in Task |-> [n \in Node |-> Absent]]
    /\ before = [t \in Task |-> {}]
    /\ edited = {}
    /\ happened = 0

-----------------------------------------------------------------------------
(* The registry: every change is published to the context service.         *)

Publish(n, by) == events' = Append(events, [node |-> n, by |-> by])
Happens == happened < MaxEvents /\ happened' = happened + 1

Awaits(by) == \E k \in DOMAIN events : events[k].by = by

\* Mutant: only nodes that are new are published.
RegisterNodeQuietly(n, record, by) ==
    /\ nodes' = [nodes EXCEPT ![n] = record]
    /\ IF nodes[n] = Absent THEN Publish(n, by) ELSE UNCHANGED events

\* Mutant: a node that is known already is left as it is.
RegisterNodeOnce(n, record, by) ==
    /\ nodes' = IF nodes[n] = Absent THEN [nodes EXCEPT ![n] = record] ELSE nodes
    /\ Publish(n, by)

\* register_node, overwriting.
RegisterNode(n, record, by) ==
    /\ nodes' = [nodes EXCEPT ![n] = record]
    /\ Publish(n, by)

\* Mutant: the context service asks discovery for a snapshot, which registers
\* the local node again.
RunHandlerDiscovering ==
    /\ events # <<>>
    /\ nodes' = [nodes EXCEPT ![Local] = LocalNode(LocalProviders)]
    /\ events' = Append(Tail(events), [node |-> Local, by |-> Nobody])
    /\ store' = nodes'
    /\ UNCHANGED <<outside, happened, direct, tasks>>

\* _on_node_discovered, _updated, _stale, _lost: the store takes the registry
\* as it is by now.
RunHandler ==
    /\ events # <<>>
    /\ events' = Tail(events)
    /\ UpdateDiscovery(Snapshot)
    /\ UNCHANGED <<outside, happened, nodes, direct, tasks>>

-----------------------------------------------------------------------------
(* discover().                                                             *)

\* discover_local_node
Discover(t) ==
    /\ pc[t] = "idle"
    /\ pc' = [pc EXCEPT ![t] = "local"]
    /\ before' = [before EXCEPT ![t] = {u \in Task : pc[u] = "returned"}]
    /\ offered' = [offered EXCEPT ![t] = LocalProviders]
    /\ RegisterNode(Local, LocalNode(LocalProviders), t)
    /\ UNCHANGED <<outside, happened, store, direct, fetched, left, result>>

\* discover returns its snapshot, which get_ecosystem_state and _context store.
Return(t) ==
    /\ pc' = [pc EXCEPT ![t] = "returned"]
    /\ result' = [result EXCEPT ![t] = Snapshot]
    /\ UpdateDiscovery(Snapshot) \/ UNCHANGED store
    /\ UNCHANGED <<outside, happened, nodes, events, direct, fetched, left, offered, before>>

\* No gateway, a gateway that fails, or one with nobody to list.
NothingToIngest(t) ==
    /\ pc[t] = "local" /\ ~Awaits(t)
    /\ Return(t)

\* ingest_flux_peers: the next peer is registered as the list has it.
IngestPeers(t, list, remaining) ==
  \E p \in remaining :
    /\ pc' = [pc EXCEPT ![t] = "peers"]
    /\ left' = [left EXCEPT ![t] = remaining \ {p}]
    /\ fetched' = [fetched EXCEPT ![t] = list]
    /\ RegisterNode(p, Remote(PeerState(list[p])), t)
    /\ UNCHANGED <<outside, happened, store, direct, offered, result, before>>

\* The list is fetched and its first peer registered without suspending.
FetchPeers(t) ==
    /\ pc[t] = "local" /\ ~Awaits(t)
    /\ Flux \in connected
    /\ IngestPeers(t, gateway, {p \in FluxPeer : gateway[p] # "absent"})

IngestNext(t) ==
    /\ pc[t] = "peers" /\ ~Awaits(t)
    /\ IngestPeers(t, fetched[t], left[t])

AllIngested(t) ==
    /\ pc[t] = "peers" /\ ~Awaits(t)
    /\ left[t] = {}
    /\ Return(t)

DiscoverContinues(t) ==
    NothingToIngest(t) \/ FetchPeers(t) \/ IngestNext(t) \/ AllIngested(t)

-----------------------------------------------------------------------------
(* The other writers of the registry.                                      *)

\* ingest_udp_peer
IngestUdpPeer(p) ==
    /\ Happens
    /\ RegisterNode(p, Remote("available"), Nobody)
    /\ UNCHANGED <<outside, store, direct, tasks>>

\* handle_udp_peer_lost
HandleUdpPeerLost(p) ==
    /\ Happens
    /\ nodes[p] # Absent
    /\ RegisterNode(p, [nodes[p] EXCEPT !.state = "unavailable"], Nobody)
    /\ UNCHANGED <<outside, store, direct, tasks>>

\* A direct call about the registered nodes ns.
Called(ns) ==
    /\ Happens
    /\ ns \subseteq Registered
    /\ edited' = edited \cup ns

\* update_node_state, add_provider, remove_provider: nothing is published when
\* nothing changes, except that adding a provider always counts as a change.
Update(n) ==
    /\ Called({n})
    /\ \/ \E s \in NodeState \ {nodes[n].state} :
              RegisterNode(n, [nodes[n] EXCEPT !.state = s], Nobody)
       \/ \E p \in Provider :
              RegisterNode(n, [nodes[n] EXCEPT !.providers = @ \cup {p}], Nobody)
       \/ \E p \in nodes[n].providers :
              RegisterNode(n, [nodes[n] EXCEPT !.providers = @ \ {p}], Nobody)
    /\ UNCHANGED <<outside, store, unreported, tasks>>

\* remove_node
RemoveNode(n) ==
    /\ Called({n})
    /\ RegisterNode(n, Absent, Nobody)
    /\ UNCHANGED <<outside, store, unreported, tasks>>

\* touch_node: a stale node is available again, and nobody is told.
TouchNode(n) ==
    /\ Called({n})
    /\ nodes[n].state = "stale"
    /\ nodes' = [nodes EXCEPT ![n].state = "available"]
    /\ UNCHANGED <<outside, events, store, unreported, tasks>>

\* reconcile_stale: all aged nodes are marked at once ...
ReconcileStale(aged) ==
    /\ Called(aged)
    /\ unreported = {} /\ ~Awaits(Reconciler)
    /\ \A n \in aged : n # Local /\ nodes[n].state \in {"available", "known"}
    /\ nodes' = [n \in Node |-> IF n \in aged THEN [nodes[n] EXCEPT !.state = "stale"]
                                ELSE nodes[n]]
    /\ \E n \in aged :
           /\ Publish(n, Reconciler)
           /\ unreported' = aged \ {n}
    /\ UNCHANGED <<outside, store, tasks>>

\* ... and reported one by one.
ReportStale ==
    /\ ~Awaits(Reconciler)
    /\ \E n \in unreported :
           /\ Publish(n, Reconciler)
           /\ unreported' = unreported \ {n}
    /\ UNCHANGED <<outside, happened, nodes, store, edited, tasks>>

-----------------------------------------------------------------------------
(* The surroundings: the readiness tracker registers and connects          *)
(* providers, and the gateway finds and loses peers.                       *)

OffersChange ==
    /\ Happens
    /\ \/ \E p \in Provider \ registered :
              registered' = registered \cup {p} /\ UNCHANGED connected
       \/ \E a \in Adapter :
              /\ connected' = IF a \in connected THEN connected \ {a} ELSE connected \cup {a}
              /\ UNCHANGED registered
    /\ UNCHANGED <<gateway, nodes, events, store, direct, tasks>>

GatewayChanges ==
    /\ Happens
    /\ gateway' \in [FluxPeer -> Connectivity \cup {"absent"}] \ {gateway}
    /\ UNCHANGED <<registered, connected, nodes, events, store, direct, tasks>>

-----------------------------------------------------------------------------
Next ==
    \/ RunHandler
    \/ \E t \in Task : Discover(t) \/ DiscoverContinues(t)
    \/ \E p \in UdpPeer : IngestUdpPeer(p) \/ HandleUdpPeerLost(p)
    \/ \E n \in Node : Update(n) \/ RemoveNode(n) \/ TouchNode(n)
    \/ \E aged \in SUBSET Node \ {{}} : ReconcileStale(aged)
    \/ ReportStale
    \/ OffersChange
    \/ GatewayChanges

\* The event loop resumes every task that can go on.
Fairness ==
    /\ WF_vars(RunHandler)
    /\ WF_vars(ReportStale)
    /\ \A t \in Task : WF_vars(DiscoverContinues(t))

Spec == Init /\ [][Next]_vars /\ Fairness

-----------------------------------------------------------------------------
(* Properties.                                                             *)

Record == [state : NodeState, providers : SUBSET Provider] \cup {Absent}

TypeOK ==
    /\ registered \subseteq Provider
    /\ connected \subseteq Adapter
    /\ gateway \in [FluxPeer -> Connectivity \cup {"absent"}]
    /\ nodes \in [Node -> Record]
    /\ events \in Seq([node : Node, by : Task \cup {Nobody, Reconciler}])
    /\ store \in [Node -> Record]
    /\ unreported \subseteq Node
    /\ pc \in [Task -> {"idle", "local", "peers", "returned"}]
    /\ fetched \in [Task -> [FluxPeer -> Connectivity \cup {"absent"}]]
    /\ left \in [Task -> SUBSET FluxPeer]
    /\ offered \in [Task -> SUBSET Provider]
    /\ result \in [Task -> [Node -> Record]]
    /\ before \in [Task -> SUBSET Task]
    /\ edited \subseteq Node
    /\ happened \in 0 .. MaxEvents

\* "observes and indexes state derived from existing subsystems"
\* (context/store.py:6): unless an event about it is still to come, the store
\* has of a node what the registry has, whoever wrote it last and whatever
\* overtook what. The exception is a stale node that was touched
\* (ecosystem_registry.py 114-117), of which no event tells.
StoreFollowsRegistry ==
    \A n \in Node :
        (n \notin unreported /\ \A k \in DOMAIN events : events[k].node # n) =>
            \/ store[n] = nodes[n]
            \/ /\ n \in edited /\ store[n].state = "stale"
               /\ nodes[n] = [store[n] EXCEPT !.state = "available"]

\* What a discover() returns is no older than the call, up to the calls that
\* overlap it (ecosystem_service.py 292-304): the local node has the providers,
\* and each peer the gateway listed has the state, that this call or one that
\* was not over when it began has collected. (Nodes that direct calls edit
\* are exempt.)
DiscoverIsFresh ==
    \A t \in {u \in Task : pc[u] = "returned"} :
        /\ Local \notin edited =>
               \E u \in Task \ before[t] : result[t][Local] = LocalNode(offered[u])
        /\ \A p \in FluxPeer \ edited :
               fetched[t][p] # "absent" =>
                   \E u \in Task \ before[t] :
                       /\ fetched[u][p] # "absent"
                       /\ result[t][p] = Remote(PeerState(fetched[u][p]))

\* Every discover() returns, and the events die down: following the registry
\* causes no events of its own (context/service.py 91-110).
EverySettles ==
    /\ \A t \in Task : pc[t] = "local" ~> pc[t] = "returned"
    /\ []<>(events = <<>>)

=============================================================================
