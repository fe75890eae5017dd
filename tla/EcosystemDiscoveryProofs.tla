---------------------- MODULE EcosystemDiscoveryProofs ----------------------
(***************************************************************************)
(* What EcosystemDiscovery guarantees for any number of nodes, providers   *)
(* and overlapping calls of discover(): the context store follows the      *)
(* registry, and what a call returns is as recent as the calls it overlaps.*)
(***************************************************************************)
EXTENDS EcosystemDiscovery, FiniteSetTheorems, TLAPS

USE EcosystemAssumption

-----------------------------------------------------------------------------
(* The inductive invariant.                                                *)

\* The local node in view has what a call that was not over when t began has
\* collected.
FreshLocal(t, view) ==
    \E u \in Task \ before[t] :
        pc[u] # "idle" /\ view[Local] = LocalNode(offered[u])

\* The same of a peer that the gateway listed.
FreshPeer(t, p, view) ==
    \E u \in Task \ before[t] :
        /\ fetched[u][p] # "absent"
        /\ view[p] = Remote(PeerState(fetched[u][p]))

\* A call has a list only after it fetched it, and what is left of it is part
\* of it. The calls that were over when it began still are.
TaskInv ==
    \A t \in Task :
        /\ pc[t] \in {"idle", "local"} => \A p \in FluxPeer : fetched[t][p] = "absent"
        /\ pc[t] # "peers" => left[t] = {}
        /\ \A p \in left[t] : fetched[t][p] # "absent"
        /\ t \notin before[t]
        /\ \A u \in before[t] : pc[u] = "returned"

\* The registry is fresh for every call under way, apart from the peers the
\* call has still to register, and stays so because another call that
\* overwrites it was not over when this one began.
RegistryFresh ==
    \A t \in Task :
        /\ pc[t] \in {"local", "peers"} /\ Local \notin edited => FreshLocal(t, nodes)
        /\ pc[t] = "peers" =>
              \A p \in FluxPeer \ edited :
                  fetched[t][p] # "absent" /\ p \notin left[t] => FreshPeer(t, p, nodes)

\* So are the snapshots that calls have returned.
ResultFresh ==
    \A t \in Task : pc[t] = "returned" =>
        /\ Local \notin edited => FreshLocal(t, result[t])
        /\ \A p \in FluxPeer \ edited : fetched[t][p] # "absent" => FreshPeer(t, p, result[t])

IInv == TypeOK /\ StoreFollowsRegistry /\ TaskInv /\ RegistryFresh /\ ResultFresh

-----------------------------------------------------------------------------
(* Types.                                                                  *)

Writer == Task \cup {Nobody, Reconciler}

\* What may be written to the registry.
LEMMA RecordTypes ==
    /\ Absent \in Record
    /\ \A ps \in SUBSET Provider : LocalNode(ps) \in Record
    /\ \A x \in NodeState : Remote(x) \in Record
    /\ \A c : PeerState(c) \in NodeState
    /\ \A r \in Record \ {Absent} : r \in [state : NodeState, providers : SUBSET Provider]
  BY DEF Absent, Record, LocalNode, Remote, PeerState, NodeState

LEMMA RegisterTypes ==
    ASSUME TypeOK, NEW n \in Node, NEW r \in Record, NEW by \in Writer, RegisterNode(n, r, by)
    PROVE  /\ nodes' \in [Node -> Record]
           /\ events' \in Seq([node : Node, by : Writer])
<1>1. events \in Seq([node : Node, by : Writer]) /\ [node |-> n, by |-> by] \in [node : Node, by : Writer]
  BY DEF TypeOK, Writer
<1>2. events' = Append(events, [node |-> n, by |-> by])
  BY DEF RegisterNode, Publish
<1>3. nodes' \in [Node -> Record]
  BY DEF RegisterNode, TypeOK
<1> QED
  BY <1>1, <1>2, <1>3

\* Changing one field of a record.
LEMMA FieldTypes ==
    ASSUME NEW r \in Record \ {Absent}
    PROVE  /\ \A x \in NodeState : [r EXCEPT !.state = x] \in Record
           /\ \A ps \in SUBSET Provider : [r EXCEPT !.providers = ps] \in Record
<1>1. r \in [state : NodeState, providers : SUBSET Provider]
  BY RecordTypes
<1>2. \A x \in NodeState : [r EXCEPT !.state = x] \in [state : NodeState, providers : SUBSET Provider]
  BY <1>1
<1>3. \A ps \in SUBSET Provider :
          [r EXCEPT !.providers = ps] \in [state : NodeState, providers : SUBSET Provider]
  BY <1>1
<1> QED
  BY <1>2, <1>3 DEF Record

LEMMA InitTypes == Init => TypeOK
<1> SUFFICES ASSUME Init PROVE TypeOK
  OBVIOUS
<1>1. Local \in Node /\ LocalProviders \subseteq Provider
  BY DEF Init, Node, LocalProviders
<1>2. nodes \in [Node -> Record]
  BY <1>1, RecordTypes DEF Init
<1>3. store \in [Node -> Record] /\ events = <<>>
  BY <1>2 DEF Init, ContextStarted, Snapshot
<1>4. result \in [Task -> [Node -> Record]]
  BY RecordTypes DEF Init
<1>5. events \in Seq([node : Node, by : Task \cup {Nobody, Reconciler}])
  BY <1>3
<1> QED
  BY <1>2, <1>3, <1>4, <1>5 DEF Init, TypeOK, Connectivity

LEMMA TypeStep == TypeOK /\ [Next]_vars => TypeOK'
<1> SUFFICES ASSUME TypeOK, [Next]_vars PROVE TypeOK'
  OBVIOUS
<1> USE DEF outside, direct, tasks
<1>0. /\ Local \in Node /\ FluxPeer \subseteq Node /\ UdpPeer \subseteq Node
      /\ Task \subseteq Writer /\ Nobody \in Writer /\ Reconciler \in Writer
      /\ LocalProviders \subseteq Provider
  BY DEF Node, Writer, LocalProviders, TypeOK
<1>1. CASE RunHandler
  <2>1. events' \in Seq([node : Node, by : Writer])
    BY <1>1 DEF RunHandler, TypeOK, Writer
  <2> QED
    BY <1>1, <2>1 DEF RunHandler, UpdateDiscovery, Snapshot, TypeOK, Writer
<1>2. ASSUME NEW t \in Task, Discover(t) PROVE TypeOK'
  <2>1. /\ nodes' \in [Node -> Record] /\ events' \in Seq([node : Node, by : Writer])
    BY <1>0, <1>2, RecordTypes, RegisterTypes DEF Discover
  <2>2. pc' \in [Task -> {"idle", "local", "peers", "returned"}]
    BY <1>2 DEF Discover, TypeOK
  <2>3. before' \in [Task -> SUBSET Task] /\ offered' \in [Task -> SUBSET Provider]
    BY <1>0, <1>2 DEF Discover, TypeOK
  <2> QED
    BY <1>2, <2>1, <2>2, <2>3 DEF Discover, TypeOK, Writer
<1>3. ASSUME NEW t \in Task, NothingToIngest(t) \/ AllIngested(t) PROVE TypeOK'
  <2>1. Return(t)
    BY <1>3 DEF NothingToIngest, AllIngested
  <2>2. pc' \in [Task -> {"idle", "local", "peers", "returned"}]
    BY <2>1 DEF Return, TypeOK
  <2>3. result' \in [Task -> [Node -> Record]] /\ store' \in [Node -> Record]
    BY <2>1 DEF Return, UpdateDiscovery, Snapshot, TypeOK
  <2> QED
    BY <2>1, <2>2, <2>3 DEF Return, TypeOK
<1>4. ASSUME NEW t \in Task, FetchPeers(t) \/ IngestNext(t) PROVE TypeOK'
  <2>1. PICK list \in [FluxPeer -> Connectivity \cup {"absent"}], remaining \in SUBSET FluxPeer :
            IngestPeers(t, list, remaining)
    <3>1. CASE FetchPeers(t)
      BY <3>1 DEF FetchPeers, TypeOK
    <3>2. CASE IngestNext(t)
      BY <3>2 DEF IngestNext, TypeOK
    <3> QED
      BY <1>4, <3>1, <3>2
  <2>2. PICK p \in remaining :
            /\ pc' = [pc EXCEPT ![t] = "peers"]
            /\ left' = [left EXCEPT ![t] = remaining \ {p}]
            /\ fetched' = [fetched EXCEPT ![t] = list]
            /\ RegisterNode(p, Remote(PeerState(list[p])), t)
            /\ UNCHANGED <<outside, happened, store, direct, offered, result, before>>
    BY <2>1 DEF IngestPeers
  <2>3. nodes' \in [Node -> Record] /\ events' \in Seq([node : Node, by : Writer])
    BY <1>0, <2>2, RecordTypes, RegisterTypes
  <2>4. pc' \in [Task -> {"idle", "local", "peers", "returned"}]
    BY <2>2 DEF TypeOK
  <2>5. left' \in [Task -> SUBSET FluxPeer]
    BY <2>2 DEF TypeOK
  <2>6. fetched' \in [Task -> [FluxPeer -> Connectivity \cup {"absent"}]]
    BY <2>2 DEF TypeOK
  <2> QED
    BY <2>2, <2>3, <2>4, <2>5, <2>6 DEF TypeOK, Writer
<1>5. Happens => happened' \in 0 .. MaxEvents
  BY DEF Happens, TypeOK
<1>6. ASSUME NEW p \in UdpPeer, IngestUdpPeer(p) \/ HandleUdpPeerLost(p) PROVE TypeOK'
  <2>1. PICK r \in Record : RegisterNode(p, r, Nobody)
    <3>1. CASE IngestUdpPeer(p)
      BY <3>1, RecordTypes DEF IngestUdpPeer, NodeState
    <3>2. CASE HandleUdpPeerLost(p)
      <4>1. nodes[p] \in Record \ {Absent}
        BY <1>0, <3>2 DEF HandleUdpPeerLost, TypeOK
      <4> QED
        BY <3>2, <4>1, FieldTypes DEF HandleUdpPeerLost, NodeState
    <3> QED
      BY <1>6, <3>1, <3>2
  <2>2. nodes' \in [Node -> Record] /\ events' \in Seq([node : Node, by : Writer])
    BY <1>0, <2>1, RegisterTypes
  <2> QED
    BY <1>5, <1>6, <2>2 DEF IngestUdpPeer, HandleUdpPeerLost, TypeOK, Writer
<1>7. ASSUME NEW n \in Node, Update(n) \/ RemoveNode(n) PROVE TypeOK'
  <2>1. Called({n})
    BY <1>7 DEF Update, RemoveNode
  <2>2. nodes[n] \in Record \ {Absent}
    BY <2>1 DEF Called, Registered, TypeOK
  <2>3. PICK r \in Record : RegisterNode(n, r, Nobody)
    <3>1. CASE RemoveNode(n)
      BY <3>1, RecordTypes DEF RemoveNode
    <3>2. CASE Update(n)
      <4>1. nodes[n].providers \subseteq Provider
        BY <2>2, RecordTypes
      <4> QED
        BY <2>2, <3>2, <4>1, FieldTypes DEF Update
    <3> QED
      BY <1>7, <3>1, <3>2
  <2>4. nodes' \in [Node -> Record] /\ events' \in Seq([node : Node, by : Writer])
    BY <1>0, <2>3, RegisterTypes
  <2> QED
    BY <1>5, <1>7, <2>1, <2>4 DEF Update, RemoveNode, Called, TypeOK, Writer
<1>8. ASSUME NEW n \in Node, TouchNode(n) PROVE TypeOK'
  <2>1. nodes[n] \in Record \ {Absent}
    BY <1>8 DEF TouchNode, Called, Registered, TypeOK
  <2>2. [nodes[n] EXCEPT !.state = "available"] \in Record
    BY <2>1, FieldTypes DEF NodeState
  <2>3. nodes' = [nodes EXCEPT ![n] = [nodes[n] EXCEPT !.state = "available"]]
    BY <1>8 DEF TouchNode
  <2>4. nodes' \in [Node -> Record]
    BY <2>2, <2>3 DEF TypeOK
  <2> QED
    BY <1>5, <1>8, <2>4 DEF TouchNode, Called, TypeOK
<1>9. ASSUME NEW aged \in SUBSET Node \ {{}}, ReconcileStale(aged) PROVE TypeOK'
  <2>1. \A n \in aged : [nodes[n] EXCEPT !.state = "stale"] \in Record
    <3> SUFFICES ASSUME NEW n \in aged PROVE [nodes[n] EXCEPT !.state = "stale"] \in Record
      OBVIOUS
    <3>1. nodes[n] \in Record \ {Absent}
      BY <1>9 DEF ReconcileStale, Called, Registered, TypeOK
    <3> QED
      BY <3>1, FieldTypes DEF NodeState
  <2>2. nodes' \in [Node -> Record]
    BY <1>9, <2>1 DEF ReconcileStale, TypeOK
  <2>3. PICK n \in aged : Publish(n, Reconciler) /\ unreported' = aged \ {n}
    BY <1>9 DEF ReconcileStale
  <2>4. events' \in Seq([node : Node, by : Writer])
    BY <1>0, <2>3 DEF Publish, TypeOK, Writer
  <2> QED
    BY <1>5, <1>9, <2>2, <2>3, <2>4 DEF ReconcileStale, Called, TypeOK, Writer
<1>10. CASE ReportStale
  <2>1. PICK n \in unreported : Publish(n, Reconciler) /\ unreported' = unreported \ {n}
    BY <1>10 DEF ReportStale
  <2>2. events' \in Seq([node : Node, by : Writer])
    BY <1>0, <2>1 DEF Publish, TypeOK, Writer
  <2> QED
    BY <1>10, <2>1, <2>2 DEF ReportStale, TypeOK, Writer
<1>11. CASE OffersChange \/ GatewayChanges
  <2>1. /\ registered' \subseteq Provider /\ connected' \subseteq Adapter
        /\ gateway' \in [FluxPeer -> Connectivity \cup {"absent"}]
    BY <1>11 DEF OffersChange, GatewayChanges, TypeOK
  <2> QED
    BY <1>5, <1>11, <2>1 DEF OffersChange, GatewayChanges, TypeOK
<1>12. CASE UNCHANGED vars
  BY <1>12 DEF vars, TypeOK
<1> QED
  BY <1>1, <1>2, <1>3, <1>4, <1>6, <1>7, <1>8, <1>9, <1>10, <1>11, <1>12
     DEF Next, DiscoverContinues

-----------------------------------------------------------------------------
(* The store follows the registry.                                         *)

\* An event about n has yet to be handled.
About(n) == \E k \in DOMAIN events : events[k].node = n

\* StoreFollowsRegistry for one node.
Follows(n) ==
    (n \notin unreported /\ ~About(n)) =>
        \/ store[n] = nodes[n]
        \/ /\ n \in edited /\ store[n].state = "stale"
           /\ nodes[n] = [store[n] EXCEPT !.state = "available"]

LEMMA FollowsAll == StoreFollowsRegistry <=> \A n \in Node : Follows(n)
  BY DEF StoreFollowsRegistry, Follows, About

\* After a publication there is an event about the node, and there are those
\* there were.
LEMMA PublishAbout ==
    ASSUME TypeOK, NEW n, NEW by, n \in Node, by \in Writer, Publish(n, by)
    PROVE  About(n)' /\ \A m : About(m) => About(m)'
<1>1. events \in Seq([node : Node, by : Writer]) /\ Len(events) \in Nat
  BY DEF TypeOK, Writer
<1>2. events' = Append(events, [node |-> n, by |-> by])
  BY DEF Publish
<1>3. /\ DOMAIN events' = 1 .. Len(events) + 1
      /\ events'[Len(events) + 1].node = n
      /\ \A k \in 1 .. Len(events) : events'[k] = events[k]
  BY <1>1, <1>2
<1>4. About(n)'
  BY <1>1, <1>3 DEF About
<1>5. ASSUME NEW m, About(m) PROVE About(m)'
  BY <1>1, <1>3, <1>5 DEF About
<1> QED
  BY <1>4, <1>5

\* A write that is published breaks nothing.
LEMMA WriteFollowed ==
    ASSUME TypeOK, StoreFollowsRegistry,
           NEW n \in Node, NEW r, NEW by \in Writer, RegisterNode(n, r, by),
           store' = store, unreported' = unreported, edited \subseteq edited'
    PROVE  StoreFollowsRegistry'
<1> SUFFICES ASSUME NEW m \in Node PROVE Follows(m)'
  BY FollowsAll DEF StoreFollowsRegistry, Follows, About
<1>1. About(n)' /\ (About(m) => About(m)')
  BY PublishAbout DEF RegisterNode
<1>2. CASE m = n
  BY <1>1, <1>2 DEF Follows
<1>3. CASE m # n
  <2>1. nodes'[m] = nodes[m]
    BY <1>3 DEF RegisterNode, TypeOK
  <2> QED
    BY <1>1, <2>1, FollowsAll DEF Follows
<1> QED
  BY <1>2, <1>3

LEMMA StoreStep == TypeOK /\ StoreFollowsRegistry /\ [Next]_vars => StoreFollowsRegistry'
<1> SUFFICES ASSUME TypeOK, StoreFollowsRegistry, [Next]_vars PROVE StoreFollowsRegistry'
  OBVIOUS
<1>0. /\ Local \in Node /\ FluxPeer \subseteq Node /\ UdpPeer \subseteq Node
      /\ Task \subseteq Writer /\ Nobody \in Writer /\ Reconciler \in Writer
  BY DEF Node, Writer
<1>1. CASE RunHandler
  BY <1>1 DEF RunHandler, UpdateDiscovery, Snapshot, StoreFollowsRegistry
<1>2. ASSUME NEW t \in Task, Discover(t) PROVE StoreFollowsRegistry'
  BY <1>0, <1>2, WriteFollowed DEF Discover, direct
<1>3. ASSUME NEW t \in Task, NothingToIngest(t) \/ AllIngested(t) PROVE StoreFollowsRegistry'
  BY <1>3 DEF NothingToIngest, AllIngested, Return, UpdateDiscovery, Snapshot, direct,
              StoreFollowsRegistry
<1>4. ASSUME NEW t \in Task, FetchPeers(t) \/ IngestNext(t) PROVE StoreFollowsRegistry'
  <2>1. PICK p \in FluxPeer : \E list :
            /\ RegisterNode(p, Remote(PeerState(list[p])), t)
            /\ UNCHANGED <<store, direct>>
    BY <1>4 DEF FetchPeers, IngestNext, IngestPeers, TypeOK
  <2> QED
    BY <1>0, <2>1, WriteFollowed DEF direct
<1>5. ASSUME NEW p \in UdpPeer, IngestUdpPeer(p) \/ HandleUdpPeerLost(p)
      PROVE  StoreFollowsRegistry'
  BY <1>0, <1>5, WriteFollowed DEF IngestUdpPeer, HandleUdpPeerLost, direct
<1>6. ASSUME NEW n \in Node, Update(n) \/ RemoveNode(n) PROVE StoreFollowsRegistry'
  BY <1>0, <1>6, WriteFollowed DEF Update, RemoveNode, Called
<1>7. ASSUME NEW n \in Node, TouchNode(n) PROVE StoreFollowsRegistry'
  \* The one silent write is the exception that the property makes.
  <2> SUFFICES ASSUME NEW m \in Node PROVE Follows(m)'
    BY FollowsAll DEF StoreFollowsRegistry, Follows, About
  <2>1. Follows(m)
    BY FollowsAll
  <2>2. /\ nodes[n].state = "stale" /\ n \in edited' /\ edited \subseteq edited'
        /\ nodes' = [nodes EXCEPT ![n] = [nodes[n] EXCEPT !.state = "available"]]
        /\ UNCHANGED <<events, store, unreported>>
    BY <1>7 DEF TouchNode, Called
  <2>3. CASE m = n
    <3>1. nodes'[n] = [nodes[n] EXCEPT !.state = "available"]
      BY <2>2 DEF TypeOK
    <3>2. store[n].state = "stale" /\ nodes[n] = [store[n] EXCEPT !.state = "available"] => FALSE
      <4>1. store[n].state = "stale" => [store[n] EXCEPT !.state = "available"].state = "available"
        BY RecordTypes DEF TypeOK, Record, Absent
      <4> QED
        BY <2>2, <4>1
    <3> QED
      BY <2>1, <2>2, <2>3, <3>1, <3>2 DEF Follows, About
  <2>4. CASE m # n
    BY <2>1, <2>2, <2>4 DEF Follows, About, TypeOK
  <2> QED
    BY <2>3, <2>4
<1>8. ASSUME NEW aged \in SUBSET Node \ {{}}, ReconcileStale(aged) PROVE StoreFollowsRegistry'
  <2> SUFFICES ASSUME NEW m \in Node PROVE Follows(m)'
    BY FollowsAll DEF StoreFollowsRegistry, Follows, About
  <2>1. PICK n \in aged : Publish(n, Reconciler) /\ unreported' = aged \ {n}
    BY <1>8 DEF ReconcileStale
  <2>2. About(n)' /\ (About(m) => About(m)')
    BY <1>0, <2>1, PublishAbout
  <2>3. m \notin aged => nodes'[m] = nodes[m]
    BY <1>8 DEF ReconcileStale
  <2>4. unreported = {} /\ store' = store /\ edited \subseteq edited'
    BY <1>8 DEF ReconcileStale, Called
  <2>5. Follows(m)
    BY FollowsAll
  <2> QED
    BY <2>1, <2>2, <2>3, <2>4, <2>5 DEF Follows
<1>9. CASE ReportStale
  <2> SUFFICES ASSUME NEW m \in Node PROVE Follows(m)'
    BY FollowsAll DEF StoreFollowsRegistry, Follows, About
  <2>1. PICK n \in unreported : Publish(n, Reconciler) /\ unreported' = unreported \ {n}
    BY <1>9 DEF ReportStale
  <2>2. About(n)' /\ (About(m) => About(m)')
    BY <1>0, <2>1, PublishAbout DEF TypeOK
  <2>3. Follows(m) /\ UNCHANGED <<nodes, store, edited>>
    BY <1>9, FollowsAll DEF ReportStale
  <2> QED
    BY <2>1, <2>2, <2>3 DEF Follows
<1>10. CASE OffersChange \/ GatewayChanges \/ UNCHANGED vars
  BY <1>10 DEF OffersChange, GatewayChanges, vars, direct, StoreFollowsRegistry
<1> QED
  BY <1>1, <1>2, <1>3, <1>4, <1>5, <1>6, <1>7, <1>8, <1>9, <1>10
     DEF Next, DiscoverContinues

-----------------------------------------------------------------------------
(* Snapshots are fresh.                                                    *)

FreshInv == TaskInv /\ RegistryFresh /\ ResultFresh

\* Whatever is no part of discover() leaves the local node and the peers of the
\* gateway alone, unless it is a direct call.
LEMMA OthersKeep ==
    ASSUME TypeOK, [Next]_vars,
           \A t \in Task : ~Discover(t) /\ ~DiscoverContinues(t)
    PROVE  /\ UNCHANGED tasks
           /\ edited \subseteq edited'
           /\ \A n \in ({Local} \cup FluxPeer) \ edited' : nodes'[n] = nodes[n]
<1>0. Local \notin UdpPeer /\ FluxPeer \cap UdpPeer = {} /\ {Local} \cup FluxPeer \subseteq Node
  BY DEF Node
<1>1. CASE RunHandler \/ ReportStale \/ OffersChange \/ GatewayChanges \/ UNCHANGED vars
  BY <1>1 DEF RunHandler, ReportStale, OffersChange, GatewayChanges, vars, direct
<1>2. ASSUME NEW p \in UdpPeer, IngestUdpPeer(p) \/ HandleUdpPeerLost(p)
      PROVE  UNCHANGED tasks /\ edited' = edited
             /\ \A n \in Node \ {p} : nodes'[n] = nodes[n]
  BY <1>2 DEF IngestUdpPeer, HandleUdpPeerLost, RegisterNode, direct, TypeOK
<1>3. ASSUME NEW n \in Node, Update(n) \/ RemoveNode(n) \/ TouchNode(n)
      PROVE  UNCHANGED tasks /\ edited' = edited \cup {n}
             /\ \A m \in Node \ {n} : nodes'[m] = nodes[m]
  BY <1>3 DEF Update, RemoveNode, TouchNode, Called, RegisterNode, TypeOK
<1>4. ASSUME NEW aged \in SUBSET Node \ {{}}, ReconcileStale(aged)
      PROVE  UNCHANGED tasks /\ edited' = edited \cup aged
             /\ \A m \in Node \ aged : nodes'[m] = nodes[m]
  BY <1>4 DEF ReconcileStale, Called, TypeOK
<1> QED
  BY <1>0, <1>1, <1>2, <1>3, <1>4 DEF Next

LEMMA OthersStep ==
    ASSUME TypeOK, FreshInv, [Next]_vars,
           \A t \in Task : ~Discover(t) /\ ~DiscoverContinues(t)
    PROVE  FreshInv'
<1>1. /\ UNCHANGED tasks
      /\ edited \subseteq edited'
      /\ \A n \in ({Local} \cup FluxPeer) \ edited' : nodes'[n] = nodes[n]
  BY OthersKeep
<1> USE DEF tasks, FreshInv
<1>2. TaskInv'
  BY <1>1 DEF TaskInv
<1>3. RegistryFresh'
  BY <1>1 DEF RegistryFresh, FreshLocal, FreshPeer
<1>4. ResultFresh'
  BY <1>1 DEF ResultFresh, FreshLocal, FreshPeer
<1> QED
  BY <1>2, <1>3, <1>4

\* A call begins: it registers the local node, and it is over for no call that
\* is under way.
LEMMA DiscoverStep ==
    ASSUME TypeOK, FreshInv, NEW t \in Task, Discover(t)
    PROVE  FreshInv'
<1>1. /\ pc[t] = "idle" /\ pc' = [pc EXCEPT ![t] = "local"]
      /\ before' = [before EXCEPT ![t] = {u \in Task : pc[u] = "returned"}]
      /\ offered' = [offered EXCEPT ![t] = LocalProviders]
      /\ nodes' = [nodes EXCEPT ![Local] = LocalNode(LocalProviders)]
      /\ UNCHANGED <<edited, fetched, left, result>>
  BY DEF Discover, RegisterNode, direct
<1>2. /\ pc'[t] = "local" /\ offered'[t] = LocalProviders
      /\ nodes'[Local] = LocalNode(LocalProviders)
      /\ before'[t] = {u \in Task : pc[u] = "returned"}
      /\ \A u \in Task \ {t} : pc'[u] = pc[u] /\ before'[u] = before[u] /\ offered'[u] = offered[u]
      /\ \A p \in FluxPeer : nodes'[p] = nodes[p]
  BY <1>1 DEF TypeOK, Node
<1>3. TaskInv'
  BY <1>1, <1>2 DEF FreshInv, TaskInv
<1>4. \A u \in Task : FreshLocal(u, nodes)'
  BY <1>1, <1>2 DEF FreshInv, TaskInv, FreshLocal
<1>5. RegistryFresh'
  <2> SUFFICES ASSUME NEW u \in Task, pc'[u] = "peers", NEW p \in FluxPeer \ edited',
                      fetched'[u][p] # "absent", p \notin left'[u]
               PROVE  FreshPeer(u, p, nodes)'
    BY <1>4 DEF RegistryFresh
  <2>1. u # t
    BY <1>2
  <2>2. FreshPeer(u, p, nodes)
    BY <1>1, <1>2, <2>1 DEF FreshInv, RegistryFresh
  <2> QED
    BY <1>1, <1>2, <2>1, <2>2 DEF FreshPeer
<1>6. ResultFresh'
  <2> SUFFICES ASSUME NEW u \in Task, pc'[u] = "returned"
               PROVE  /\ Local \notin edited' => FreshLocal(u, result[u])'
                      /\ \A p \in FluxPeer \ edited' :
                            fetched'[u][p] # "absent" => FreshPeer(u, p, result[u])'
    BY DEF ResultFresh
  <2>1. u # t /\ pc[u] = "returned"
    BY <1>2
  <2>2. Local \notin edited' => FreshLocal(u, result[u])'
    BY <1>1, <1>2, <2>1 DEF FreshInv, ResultFresh, FreshLocal
  <2>3. \A p \in FluxPeer \ edited' : fetched'[u][p] # "absent" => FreshPeer(u, p, result[u])'
    BY <1>1, <1>2, <2>1 DEF FreshInv, ResultFresh, FreshPeer
  <2> QED
    BY <2>2, <2>3
<1> QED
  BY <1>3, <1>5, <1>6 DEF FreshInv

\* A call registers a peer of its list.
LEMMA IngestStep ==
    ASSUME TypeOK, FreshInv, NEW t \in Task, FetchPeers(t) \/ IngestNext(t)
    PROVE  FreshInv'
<1>1. PICK list \in [FluxPeer -> Connectivity \cup {"absent"}], remaining \in SUBSET FluxPeer :
          /\ IngestPeers(t, list, remaining)
          /\ \A q \in remaining : list[q] # "absent"
          /\ \/ pc[t] = "local" /\ \A q \in FluxPeer : list[q] # "absent" => q \in remaining
             \/ pc[t] = "peers" /\ list = fetched[t] /\ remaining = left[t]
  <2>1. CASE FetchPeers(t)
    <3> DEFINE listed == {p \in FluxPeer : gateway[p] # "absent"}
    <3>1. /\ gateway \in [FluxPeer -> Connectivity \cup {"absent"}]
          /\ listed \in SUBSET FluxPeer
      BY DEF TypeOK
    <3>2. pc[t] = "local" /\ IngestPeers(t, gateway, listed)
      BY <2>1 DEF FetchPeers
    <3>3. /\ \A q \in listed : gateway[q] # "absent"
          /\ \A q \in FluxPeer : gateway[q] # "absent" => q \in listed
      OBVIOUS
    <3> HIDE DEF listed
    <3> QED
      BY <3>1, <3>2, <3>3
  <2>2. CASE IngestNext(t)
    BY <2>2 DEF IngestNext, TypeOK, FreshInv, TaskInv
  <2> QED
    BY <2>1, <2>2
<1>2. PICK p \in remaining :
          /\ pc' = [pc EXCEPT ![t] = "peers"]
          /\ left' = [left EXCEPT ![t] = remaining \ {p}]
          /\ fetched' = [fetched EXCEPT ![t] = list]
          /\ nodes' = [nodes EXCEPT ![p] = Remote(PeerState(list[p]))]
          /\ UNCHANGED <<edited, offered, result, before>>
  BY <1>1 DEF IngestPeers, RegisterNode, direct
<1>3. /\ pc'[t] = "peers" /\ fetched'[t] = list /\ left'[t] = remaining \ {p}
      /\ \A u \in Task \ {t} : pc'[u] = pc[u] /\ fetched'[u] = fetched[u] /\ left'[u] = left[u]
      /\ nodes'[p] = Remote(PeerState(list[p])) /\ p # Local
      /\ nodes'[Local] = nodes[Local] /\ \A q \in FluxPeer \ {p} : nodes'[q] = nodes[q]
  BY <1>2 DEF TypeOK, Node
<1>4. TaskInv'
  <2> SUFFICES ASSUME NEW u \in Task
               PROVE  /\ pc'[u] \in {"idle", "local"} => \A q \in FluxPeer : fetched'[u][q] = "absent"
                      /\ pc'[u] # "peers" => left'[u] = {}
                      /\ \A q \in left'[u] : fetched'[u][q] # "absent"
                      /\ u \notin before'[u]
                      /\ \A v \in before'[u] : pc'[v] = "returned"
    BY DEF TaskInv
  <2>1. \A v \in before[u] : v # t /\ v \in Task
    BY <1>1 DEF FreshInv, TaskInv, TypeOK
  <2> QED
    BY <1>1, <1>2, <1>3, <2>1 DEF FreshInv, TaskInv
<1>5. \A u \in Task : t \notin before[u]
  BY <1>1 DEF FreshInv, TaskInv
\* The list of t is in place of the one it had, unless it had none.
<1>6. \A u \in Task, q \in FluxPeer : fetched[u][q] # "absent" => fetched'[u][q] = fetched[u][q]
  BY <1>1, <1>3 DEF FreshInv, TaskInv
<1>7. \A u \in Task : /\ \A v : FreshLocal(u, v) => FreshLocal(u, v)'
                      /\ \A v, q \in FluxPeer : FreshPeer(u, q, v) => FreshPeer(u, q, v)'
  <2>1. \A u \in Task : pc[u] # "idle" => pc'[u] # "idle"
    BY <1>3
  <2> QED
    BY <1>2, <1>6, <2>1 DEF FreshLocal, FreshPeer
<1>8. RegistryFresh'
  <2>1. ASSUME NEW u \in Task, pc'[u] \in {"local", "peers"}, Local \notin edited'
        PROVE  FreshLocal(u, nodes)'
    <3>1. pc[u] \in {"local", "peers"} /\ Local \notin edited
      BY <1>1, <1>2, <1>3, <2>1
    <3>2. FreshLocal(u, nodes)
      BY <3>1 DEF FreshInv, RegistryFresh
    <3> QED
      BY <1>2, <1>3, <3>2 DEF FreshLocal
  <2>2. ASSUME NEW u \in Task, pc'[u] = "peers", NEW q \in FluxPeer \ edited',
               fetched'[u][q] # "absent", q \notin left'[u]
        PROVE  FreshPeer(u, q, nodes)'
    <3>1. CASE q = p
      BY <1>1, <1>2, <1>3, <1>5, <3>1 DEF FreshPeer
    <3>2. CASE q # p
      <4>1. pc[u] = "peers" /\ fetched[u][q] # "absent" /\ q \notin left[u]
        BY <1>1, <1>3, <2>2, <3>2
      <4>2. FreshPeer(u, q, nodes)
        BY <1>2, <2>2, <4>1 DEF FreshInv, RegistryFresh
      <4> QED
        BY <1>2, <1>3, <1>6, <3>2, <4>2 DEF FreshPeer
    <3> QED
      BY <3>1, <3>2
  <2> QED
    BY <2>1, <2>2 DEF RegistryFresh
<1>9. ResultFresh'
  <2> SUFFICES ASSUME NEW u \in Task, pc'[u] = "returned"
               PROVE  /\ Local \notin edited' => FreshLocal(u, result[u])'
                      /\ \A q \in FluxPeer \ edited' :
                            fetched'[u][q] # "absent" => FreshPeer(u, q, result[u])'
    BY DEF ResultFresh
  <2>1. u # t /\ pc[u] = "returned" /\ fetched'[u] = fetched[u]
    BY <1>3
  <2>2. Local \notin edited' => FreshLocal(u, result[u])'
    BY <1>2, <1>3, <2>1 DEF FreshInv, ResultFresh, FreshLocal
  <2>3. \A q \in FluxPeer \ edited' : fetched'[u][q] # "absent" => FreshPeer(u, q, result[u])'
    BY <1>2, <1>6, <2>1 DEF FreshInv, ResultFresh, FreshPeer
  <2> QED
    BY <2>2, <2>3
<1> QED
  BY <1>4, <1>8, <1>9 DEF FreshInv

\* A call returns when nothing of its list is left.
LEMMA ReturnStep ==
    ASSUME TypeOK, FreshInv, NEW t \in Task, NothingToIngest(t) \/ AllIngested(t)
    PROVE  FreshInv'
<1>1. /\ pc[t] \in {"local", "peers"} /\ left[t] = {}
      /\ pc[t] = "local" => \A p \in FluxPeer : fetched[t][p] = "absent"
      /\ pc' = [pc EXCEPT ![t] = "returned"]
      /\ result' = [result EXCEPT ![t] = nodes]
      /\ UNCHANGED <<nodes, edited, fetched, left, offered, before>>
  BY DEF NothingToIngest, AllIngested, Return, Snapshot, direct, FreshInv, TaskInv
<1>2. /\ pc'[t] = "returned" /\ result'[t] = nodes
      /\ \A u \in Task \ {t} : pc'[u] = pc[u] /\ result'[u] = result[u]
  BY <1>1 DEF TypeOK
<1>3. TaskInv'
  BY <1>1, <1>2 DEF FreshInv, TaskInv, TypeOK
<1>4. RegistryFresh'
  BY <1>1, <1>2 DEF FreshInv, RegistryFresh, FreshLocal, FreshPeer
<1>5. ResultFresh'
  <2> SUFFICES ASSUME NEW u \in Task, pc'[u] = "returned"
               PROVE  /\ Local \notin edited' => FreshLocal(u, result[u])'
                      /\ \A p \in FluxPeer \ edited' :
                            fetched'[u][p] # "absent" => FreshPeer(u, p, result[u])'
    BY DEF ResultFresh
  <2>1. CASE u = t
    <3>1. Local \notin edited => FreshLocal(t, nodes)
      BY <1>1 DEF FreshInv, RegistryFresh
    <3>2. \A p \in FluxPeer \ edited : fetched[t][p] # "absent" => FreshPeer(t, p, nodes)
      BY <1>1 DEF FreshInv, RegistryFresh
    <3>3. Local \notin edited' => FreshLocal(u, result[u])'
      BY <1>1, <1>2, <2>1, <3>1 DEF FreshLocal
    <3>4. \A p \in FluxPeer \ edited' : fetched'[u][p] # "absent" => FreshPeer(u, p, result[u])'
      BY <1>1, <1>2, <2>1, <3>2 DEF FreshPeer
    <3> QED
      BY <3>3, <3>4
  <2>2. CASE u # t
    BY <1>1, <1>2, <2>2 DEF FreshInv, ResultFresh, FreshLocal, FreshPeer
  <2> QED
    BY <2>1, <2>2
<1> QED
  BY <1>3, <1>4, <1>5 DEF FreshInv

LEMMA FreshStep == TypeOK /\ FreshInv /\ [Next]_vars => FreshInv'
  BY OthersStep, DiscoverStep, IngestStep, ReturnStep DEF DiscoverContinues

-----------------------------------------------------------------------------
(* The invariant, and what follows from it.                                *)

LEMMA InvInit == Init => IInv
<1> SUFFICES ASSUME Init PROVE IInv
  OBVIOUS
<1>1. StoreFollowsRegistry
  BY DEF Init, ContextStarted, Snapshot, StoreFollowsRegistry
<1>2. TaskInv /\ RegistryFresh /\ ResultFresh
  BY DEF Init, TaskInv, RegistryFresh, ResultFresh
<1> QED
  BY <1>1, <1>2, InitTypes DEF IInv

LEMMA InvStep == IInv /\ [Next]_vars => IInv'
  BY TypeStep, StoreStep, FreshStep DEF IInv, FreshInv

LEMMA InvAlways == Spec => []IInv
  BY InvInit, InvStep, PTL DEF Spec

\* The registry, the context store and the calls of discover() (discovery/
\* ecosystem_registry.py, ecosystem_service.py, context/store.py) always have
\* their types.
THEOREM TypeCorrect == Spec => []TypeOK
<1>1. IInv => TypeOK
  BY DEF IInv
<1> QED
  BY <1>1, InvAlways, PTL

\* The context store observes the registry (context/store.py 6): of a node that
\* no event is still to tell of it has what the registry has, whoever wrote
\* last. The one exception is a stale node that touch_node made available.
THEOREM StoreAlwaysFollowsRegistry == Spec => []StoreFollowsRegistry
<1>1. IInv => StoreFollowsRegistry
  BY DEF IInv
<1> QED
  BY <1>1, InvAlways, PTL

\* What discover() returns (ecosystem_service.py 292-304) is no older than the
\* call, up to the calls that overlap it, for any number of them.
THEOREM DiscoverIsAlwaysFresh == Spec => []DiscoverIsFresh
<1>1. IInv => DiscoverIsFresh
  BY DEF IInv, ResultFresh, FreshLocal, FreshPeer, DiscoverIsFresh
<1> QED
  BY <1>1, InvAlways, PTL

-----------------------------------------------------------------------------
(* The registry keeps what it has.                                         *)

\* The registry keeps every node, and the local one is available, unless a
\* direct call has been about it.
KeepsNodes == \A n \in Node : nodes[n] # Absent => nodes'[n] # Absent \/ n \in edited'
LocalOffered == Local \in edited \/ nodes[Local].state = "available"

\* What is written to the registry, except by direct calls.
LEMMA WritesKeep ==
    ASSUME TypeOK, NEW n \in Node, NEW r, r.state # "absent", NEW by, RegisterNode(n, r, by),
           edited \subseteq edited', LocalOffered, n = Local => r.state = "available"
    PROVE  KeepsNodes /\ LocalOffered'
<1>1. /\ nodes'[n] = r /\ r # Absent
      /\ \A m \in Node \ {n} : nodes'[m] = nodes[m]
  BY DEF RegisterNode, TypeOK, Absent
<1>2. Local \in Node
  BY DEF Node
<1> QED
  BY <1>1, <1>2 DEF KeepsNodes, LocalOffered

\* Direct calls are about the nodes they name.
LEMMA CallsKeep ==
    ASSUME TypeOK, LocalOffered, NEW ns \in SUBSET Node, edited' = edited \cup ns,
           \A m \in Node \ ns : nodes'[m] = nodes[m]
    PROVE  KeepsNodes /\ LocalOffered'
<1>1. Local \in Node
  BY DEF Node
<1> QED
  BY <1>1 DEF KeepsNodes, LocalOffered

LEMMA KeepStep == ASSUME TypeOK, LocalOffered, [Next]_vars PROVE KeepsNodes /\ LocalOffered'
<1>0. /\ Local \in Node /\ FluxPeer \subseteq Node /\ UdpPeer \subseteq Node
      /\ Local \notin FluxPeer /\ Local \notin UdpPeer
  BY DEF Node
<1>1. CASE RunHandler \/ ReportStale \/ OffersChange \/ GatewayChanges \/ UNCHANGED vars
  <2>1. UNCHANGED <<nodes, edited>>
    BY <1>1 DEF RunHandler, ReportStale, OffersChange, GatewayChanges, vars, direct
  <2> QED
    BY <2>1 DEF KeepsNodes, LocalOffered
<1>2. ASSUME NEW t \in Task, Discover(t)
      PROVE  KeepsNodes /\ LocalOffered'
  <2>1. LocalNode(LocalProviders).state = "available" /\ edited' = edited
    BY <1>2 DEF LocalNode, Discover, direct
  <2> QED
    BY <1>0, <1>2, <2>1, WritesKeep DEF Discover
<1>3. ASSUME NEW t \in Task, NothingToIngest(t) \/ AllIngested(t)
      PROVE  KeepsNodes /\ LocalOffered'
  <2>1. UNCHANGED <<nodes, edited>>
    BY <1>3 DEF NothingToIngest, AllIngested, Return, direct
  <2> QED
    BY <2>1 DEF KeepsNodes, LocalOffered
<1>4. ASSUME NEW t \in Task, FetchPeers(t) \/ IngestNext(t)
      PROVE  KeepsNodes /\ LocalOffered'
  <2>1. PICK p \in FluxPeer : \E list :
            /\ RegisterNode(p, Remote(PeerState(list[p])), t)
            /\ UNCHANGED direct
    BY <1>4 DEF FetchPeers, IngestNext, IngestPeers, TypeOK
  <2>2. PICK list : /\ RegisterNode(p, Remote(PeerState(list[p])), t)
                    /\ UNCHANGED direct
    BY <2>1
  <2>3. Remote(PeerState(list[p])).state # "absent"
    BY DEF Remote, PeerState
  <2> QED
    BY <1>0, <2>2, <2>3, WritesKeep DEF direct
<1>5. ASSUME NEW p \in UdpPeer, IngestUdpPeer(p)
      PROVE  KeepsNodes /\ LocalOffered'
  <2>1. Remote("available").state # "absent" /\ edited' = edited
    BY <1>5 DEF Remote, IngestUdpPeer, direct
  <2> QED
    BY <1>0, <1>5, <2>1, WritesKeep DEF IngestUdpPeer
<1>6. ASSUME NEW p \in UdpPeer, HandleUdpPeerLost(p)
      PROVE  KeepsNodes /\ LocalOffered'
  <2>1. nodes[p] \in Record \ {Absent} /\ edited' = edited
    BY <1>0, <1>6 DEF HandleUdpPeerLost, TypeOK, direct
  <2>2. nodes[p] \in [state : NodeState, providers : SUBSET Provider]
    BY <2>1, RecordTypes
  <2>3. [nodes[p] EXCEPT !.state = "unavailable"].state # "absent"
    BY <2>2
  <2> QED
    BY <1>0, <1>6, <2>1, <2>3, WritesKeep DEF HandleUdpPeerLost
<1>7. ASSUME NEW n \in Node, Update(n) \/ RemoveNode(n) \/ TouchNode(n)
      PROVE  KeepsNodes /\ LocalOffered'
  <2>1. edited' = edited \cup {n} /\ \A m \in Node \ {n} : nodes'[m] = nodes[m]
    BY <1>7 DEF Update, RemoveNode, TouchNode, Called, RegisterNode, TypeOK
  <2> QED
    BY <2>1, CallsKeep
<1>8. ASSUME NEW aged \in SUBSET Node \ {{}}, ReconcileStale(aged)
      PROVE  KeepsNodes /\ LocalOffered'
  <2>1. edited' = edited \cup aged /\ \A m \in Node \ aged : nodes'[m] = nodes[m]
    BY <1>8 DEF ReconcileStale, Called, TypeOK
  <2> QED
    BY <2>1, CallsKeep
<1> QED
  BY <1>1, <1>2, <1>3, <1>4, <1>5, <1>6, <1>7, <1>8 DEF Next, DiscoverContinues

\* A node that has been discovered is never forgotten, it only changes its state
\* (ecosystem_registry.py 52-101, ecosystem_service.py 280-286): only
\* remove_node, a direct call, takes one away. And the local node is offered at
\* all times, whatever peers, gateway and other calls are doing.
THEOREM NodesAreKept == Spec => [][KeepsNodes]_vars /\ []LocalOffered
<1>1. Init => LocalOffered
  BY DEF Init, LocalOffered, LocalNode, Node
<1>2. IInv /\ LocalOffered /\ [Next]_vars => KeepsNodes /\ LocalOffered'
  BY KeepStep DEF IInv
<1> QED
  BY <1>1, <1>2, InvAlways, PTL DEF Spec

-----------------------------------------------------------------------------
(* Calls come to an end.                                                   *)

\* A bound on the steps a call has still to take: the local node, the peers that
\* are left to register or may be listed, and the end.
ToGo(t) ==
    IF pc[t] = "idle" THEN Cardinality(FluxPeer) + 2
    ELSE IF pc[t] = "local" THEN Cardinality(FluxPeer) + 1
    ELSE IF pc[t] = "peers" THEN Cardinality(left[t]) + 1
    ELSE 0

Stays(t) ==
    /\ pc'[t] = pc[t] /\ fetched'[t] = fetched[t] /\ left'[t] = left[t]
    /\ offered'[t] = offered[t] /\ result'[t] = result[t] /\ before'[t] = before[t]

\* A call that gets on gets nearer to its end.
LEMMA CallAdvances ==
    ASSUME IsFiniteSet(FluxPeer), IInv, NEW t \in Task, Discover(t) \/ DiscoverContinues(t)
    PROVE  ToGo(t)' < ToGo(t) /\ pc[t] # "returned"
<1>1. TypeOK /\ Cardinality(FluxPeer) \in Nat
  BY FS_CardinalityType DEF IInv
<1>2. CASE Discover(t)
  <2>1. pc[t] = "idle" /\ pc'[t] = "local"
    BY <1>1, <1>2 DEF Discover, TypeOK
  <2> QED
    BY <1>1, <2>1 DEF ToGo
<1>3. left[t] \subseteq FluxPeer
  BY <1>1 DEF TypeOK
<1>4. \A S \in SUBSET FluxPeer : IsFiniteSet(S) /\ Cardinality(S) \in 0 .. Cardinality(FluxPeer)
  BY FS_Subset, FS_CardinalityType
<1>5. CASE NothingToIngest(t) \/ AllIngested(t)
  <2>1. pc[t] \in {"local", "peers"} /\ pc'[t] = "returned"
    BY <1>1, <1>5 DEF NothingToIngest, AllIngested, Return, TypeOK
  <2> QED
    BY <1>1, <1>3, <1>4, <2>1 DEF ToGo
<1>6. CASE FetchPeers(t) \/ IngestNext(t)
  <2> DEFINE S == IF pc[t] = "local" THEN {p \in FluxPeer : gateway[p] # "absent"} ELSE left[t]
  <2>1. /\ pc[t] \in {"local", "peers"} /\ pc'[t] = "peers"
        /\ \E p \in S : left'[t] = S \ {p}
    BY <1>1, <1>6 DEF FetchPeers, IngestNext, IngestPeers, TypeOK
  <2>2. S \subseteq FluxPeer
    BY <1>3
  <2>3. pc[t] = "peers" => S = left[t]
    OBVIOUS
  <2> HIDE DEF S
  <2>4. PICK p \in S : left'[t] = S \ {p}
    BY <2>1
  <2>5. IsFiniteSet(S) /\ Cardinality(S) \in 0 .. Cardinality(FluxPeer)
    BY <1>4, <2>2
  <2>6. Cardinality(S \ {p}) = Cardinality(S) - 1
    BY <2>5, FS_RemoveElement
  <2>7. ToGo(t)' = Cardinality(S)
    <3>1. ToGo(t)' = Cardinality(left'[t]) + 1
      BY <2>1 DEF ToGo
    <3>2. Cardinality(left'[t]) = Cardinality(S) - 1
      BY <2>4, <2>6
    <3> QED
      BY <2>5, <3>1, <3>2
  <2>8. ToGo(t) >= Cardinality(S) + 1
    BY <1>1, <2>1, <2>3, <2>5 DEF ToGo
  <2>9. ToGo(t) \in Nat
    BY <1>1, <1>3, <1>4, <2>1 DEF ToGo
  <2> QED
    BY <2>1, <2>5, <2>7, <2>8, <2>9
<1> QED
  BY <1>2, <1>5, <1>6 DEF DiscoverContinues

\* No other step touches it.
LEMMA CallStays ==
    ASSUME IInv, [Next]_vars, NEW t \in Task, ~Discover(t), ~DiscoverContinues(t)
    PROVE  Stays(t)
<1>1. TypeOK
  BY DEF IInv
<1>2. CASE \A u \in Task : ~Discover(u) /\ ~DiscoverContinues(u)
  BY <1>1, <1>2, OthersKeep DEF tasks, Stays
<1>3. ASSUME NEW u \in Task \ {t}, Discover(u) \/ DiscoverContinues(u)
      PROVE  Stays(t)
  BY <1>1, <1>3 DEF TypeOK, Stays, Discover, DiscoverContinues, NothingToIngest, AllIngested,
     FetchPeers, IngestNext, IngestPeers, Return
<1> QED
  BY <1>2, <1>3

\* Every call is a number of steps from its end, and it is over when that is 0.
CallsCount ==
    \A t \in Task : /\ ToGo(t) \in 0 .. Cardinality(FluxPeer) + 2
                    /\ ToGo(t) = 0 <=> pc[t] = "returned"

\* A step brings a call nearer to its end or does not touch it.
CallsGetOn ==
    \A t \in Task : \/ ToGo(t)' < ToGo(t) /\ pc[t] # "returned"
                    \/ Stays(t)

\* The first of them follows from the types.
LEMMA CallsAreCounted ==
    ASSUME IsFiniteSet(FluxPeer), IInv, NEW t \in Task
    PROVE  /\ ToGo(t) \in 0 .. Cardinality(FluxPeer) + 2
           /\ ToGo(t) = 0 <=> pc[t] = "returned"
<1>1. /\ pc[t] \in {"idle", "local", "peers", "returned"} /\ left[t] \in SUBSET FluxPeer
  BY DEF IInv, TypeOK
<1>2. /\ Cardinality(FluxPeer) \in Nat
      /\ Cardinality(left[t]) \in 0 .. Cardinality(FluxPeer)
  BY <1>1, FS_Subset, FS_CardinalityType
<1> QED
  BY <1>1, <1>2 DEF ToGo

\* However many calls overlap, a discover() takes at most a step for each peer
\* the gateway lists and two more (ecosystem_service.py 292-304): nobody's
\* changes of the registry add to what it has to do, and what it has returned
\* stays as it is. This is the part of EverySettles about calls that needs no
\* fairness.
THEOREM CallsAreBounded ==
    ASSUME IsFiniteSet(FluxPeer)
    PROVE  Spec => []CallsCount /\ [][CallsGetOn]_vars
<1>1. IInv => CallsCount
  BY CallsAreCounted DEF CallsCount
<1>2. IInv /\ [Next]_vars => CallsGetOn
  BY CallAdvances, CallStays DEF CallsGetOn
<1> QED
  BY <1>1, <1>2, InvAlways, PTL DEF Spec

=============================================================================
