---------------------------- MODULE PeerDiscovery ----------------------------
(***************************************************************************)
(* How a node learns of others over UDP: DiscoveryService                  *)
(* (discovery/service.py) keeps the table of live peers and publishes peer *)
(* events on the EventBus (events/bus.py); the runtime's subscribers       *)
(* (core/runtime.py) turn them into entries of the EcosystemRegistry       *)
(* (discovery/ecosystem_service.py, ecosystem_registry.py), from which     *)
(* navigation picks nodes.                                                 *)
(*                                                                         *)
(* publish() starts a task per handler and suspends the publisher until    *)
(* they end. Tasks are resumed first in, first out: "handlers" is that     *)
(* queue. Handlers themselves run to their registry update without         *)
(* suspending. The service has at most two publishers at a time, one       *)
(* _update_peer task, which holds the table's lock, and the reap loop,     *)
(* which does not.                                                         *)
(*                                                                         *)
(* UDP is external: "sent" keeps every announcement ever made, and any of  *)
(* them may be received, late, repeatedly, or never.                       *)
(***************************************************************************)
EXTENDS Integers, Sequences, SequencesExt, FiniteSets

CONSTANTS
    Peer,          \* node ids, Self among them
    Self,          \* the id of the node itself
    Info,          \* what a node announces of itself (name, address, metadata)
    NoInfo,        \* not in the table, or not in the registry
    NoPeer,        \* nobody
    MaxTasks,      \* bound: datagrams received and not processed yet
    MaxAnnounced   \* bound: distinct announcements on the network

ASSUME DiscoveryAssumption ==
    /\ Self \in Peer
    /\ NoPeer \notin Peer
    /\ NoInfo \notin Info
    /\ MaxTasks \in Nat \ {0}
    /\ MaxAnnounced \in Nat

VARIABLES
    phase,      \* of the service: created, running, stopping (between the two
                \* awaits of stop), stopped
    sent,       \* external: the announcements that may arrive
    tasks,      \* _update_peer tasks, in the order they get _peers_lock
    holder,     \* the peer whose event is published with _peers_lock held
    peers,      \* _peers: what was last recorded of each tracked peer
    silent,     \* peers not heard of for longer than the expiry interval
    lost,       \* peers the reap loop has removed and not reported yet
    reporting,  \* the peer whose PeerLostEvent the reap loop is publishing
    handlers,   \* the handler tasks that publish() has started
    nodes       \* EcosystemRegistry._nodes: state and info of each node

tableVars == <<tasks, holder, peers, silent>>
reapVars  == <<lost, reporting>>
vars == <<phase, sent, tableVars, reapVars, handlers, nodes>>

Announcement == [peer : Peer, info : Info]
Event == [kind : {"discovered", "updated", "lost"}, peer : Peer, info : Info \cup {NoInfo}]
NodeState == {"available", "unavailable", "local"}

DatagramEvent(kind, a) == [kind |-> kind, peer |-> a.peer, info |-> a.info]
LostEvent(p) == [kind |-> "lost", peer |-> p, info |-> NoInfo]

Tracked == {p \in Peer : peers[p] # NoInfo}
Absent == [state |-> "absent", info |-> NoInfo]

Publishing(kinds) == \E k \in DOMAIN handlers : handlers[k].kind \in kinds

\* ShyamRuntime.start has registered the local node and subscribed the
\* handlers before it starts discovery.
Init ==
    /\ phase = "created"
    /\ sent = {}
    /\ tasks = <<>>
    /\ holder = NoPeer
    /\ peers = [p \in Peer |-> NoInfo]
    /\ silent = Peer
    /\ lost = {}
    /\ reporting = NoPeer
    /\ handlers = <<>>
    /\ nodes = [p \in Peer |-> IF p = Self THEN [state |-> "local", info |-> NoInfo]
                                           ELSE Absent]

-----------------------------------------------------------------------------
(* Starting and stopping.                                                  *)

Start ==
    /\ phase = "created"
    /\ phase' = "running"
    /\ UNCHANGED <<sent, tableVars, reapVars, handlers, nodes>>

\* The first half of stop(): the loops are cancelled, and with the reap loop
\* the handler it waits for, unless that has run.
BeginStop ==
    /\ phase = "running"
    /\ phase' = "stopping"
    /\ lost' = {}
    /\ reporting' = NoPeer
    /\ \/ /\ ~Publishing({"lost"})
          /\ UNCHANGED handlers
       \/ \E k \in DOMAIN handlers :
             /\ handlers[k].kind = "lost"
             /\ handlers' = RemoveAt(handlers, k)
    /\ UNCHANGED <<sent, tableVars, nodes>>

\* The second half: the socket is closed and, under the lock, the table emptied.
FinishStop ==
    /\ phase = "stopping"
    /\ holder = NoPeer
    /\ phase' = "stopped"
    /\ peers' = [p \in Peer |-> NoInfo]
    /\ UNCHANGED <<sent, tasks, holder, silent, reapVars, handlers, nodes>>

-----------------------------------------------------------------------------
(* Announcements.                                                          *)

\* _announce_loop of this node and of the others; the broadcast reaches the
\* sender too.
Announce(p, info) ==
    /\ p = Self => phase = "running"
    /\ Cardinality(sent \cup {[peer |-> p, info |-> info]}) <= MaxAnnounced
    /\ sent' = sent \cup {[peer |-> p, info |-> info]}
    /\ UNCHANGED <<phase, tableVars, reapVars, handlers, nodes>>

\* handle_datagram: a task per announcement, except the node's own.
HandleDatagram(a) ==
    /\ phase \in {"running", "stopping"}
    /\ a.peer # Self
    /\ Len(tasks) < MaxTasks
    /\ tasks' = Append(tasks, a)
    /\ UNCHANGED <<phase, sent, holder, peers, silent, reapVars, handlers, nodes>>

\* Mutant: a change of what a tracked peer announces is recorded silently.
UpdatePeerNewOnly ==
    /\ tasks # <<>>
    /\ holder = NoPeer
    /\ LET a == Head(tasks)
       IN  /\ peers' = [peers EXCEPT ![a.peer] = a.info]
           /\ silent' = silent \ {a.peer}
           /\ \/ /\ a.peer \in Tracked
                 /\ UNCHANGED <<holder, handlers>>
              \/ /\ a.peer \notin Tracked
                 /\ holder' = a.peer
                 /\ handlers' = Append(handlers, DatagramEvent("discovered", a))
    /\ tasks' = Tail(tasks)
    /\ UNCHANGED <<phase, sent, reapVars, nodes>>

\* _update_peer up to the publication: only a new peer or a change of what it
\* announces is published, with the lock held.
UpdatePeer ==
    /\ tasks # <<>>
    /\ holder = NoPeer
    /\ LET a == Head(tasks)
       IN  /\ peers' = [peers EXCEPT ![a.peer] = a.info]
           /\ silent' = silent \ {a.peer}
           /\ \/ /\ peers[a.peer] = a.info
                 /\ UNCHANGED <<holder, handlers>>
              \/ /\ peers[a.peer] # a.info
                 /\ holder' = a.peer
                 /\ handlers' = Append(handlers,
                        DatagramEvent(IF a.peer \in Tracked THEN "updated" ELSE "discovered", a))
    /\ tasks' = Tail(tasks)
    /\ UNCHANGED <<phase, sent, reapVars, nodes>>

\* The handlers have ended, publish() returns and the lock is released.
ReleaseTable ==
    /\ holder # NoPeer
    /\ ~Publishing({"discovered", "updated"})
    /\ holder' = NoPeer
    /\ UNCHANGED <<phase, sent, tasks, peers, silent, reapVars, handlers, nodes>>

-----------------------------------------------------------------------------
(* The reap loop.                                                          *)

\* More than the expiry interval passes without a word from p.
FallSilent(p) ==
    /\ p \notin silent
    /\ silent' = silent \cup {p}
    /\ UNCHANGED <<phase, sent, tasks, holder, peers, reapVars, handlers, nodes>>

\* Report one of the peers in gone; the others wait their turn.
Report(gone) ==
    \E p \in gone :
        /\ lost' = gone \ {p}
        /\ reporting' = p
        /\ handlers' = Append(handlers, LostEvent(p))

\* Under the lock the silent peers are removed; the first is reported at once.
Reap ==
    /\ phase = "running"
    /\ lost = {} /\ reporting = NoPeer
    /\ holder = NoPeer
    /\ silent \cap Tracked # {}
    /\ peers' = [p \in Peer |-> IF p \in silent THEN NoInfo ELSE peers[p]]
    /\ Report(silent \cap Tracked)
    /\ UNCHANGED <<phase, sent, tasks, holder, silent, nodes>>

\* Mutant: only the first of several expired peers is reported.
ReapContinuesOnce ==
    /\ reporting # NoPeer
    /\ ~Publishing({"lost"})
    /\ reporting' = NoPeer
    /\ lost' = {}
    /\ UNCHANGED <<phase, sent, tableVars, handlers, nodes>>

\* publish() returns to the reap loop, which reports the next peer or sleeps.
ReapContinues ==
    /\ reporting # NoPeer
    /\ ~Publishing({"lost"})
    /\ \/ /\ lost # {}
          /\ Report(lost)
       \/ /\ lost = {}
          /\ reporting' = NoPeer
          /\ UNCHANGED <<lost, handlers>>
    /\ UNCHANGED <<phase, sent, tableVars, nodes>>

-----------------------------------------------------------------------------
(* The registry.                                                           *)

\* ingest_udp_peer: the announcement becomes a node that is AVAILABLE.
IngestUdpPeer(e) == nodes' = [nodes EXCEPT ![e.peer] = [state |-> "available", info |-> e.info]]

\* Mutant: the node is left to the reconciliation of stale nodes.
HandleUdpPeerLostStale(e) ==
    nodes' = IF nodes[e.peer].state \in {"absent", "local"} THEN nodes
             ELSE [nodes EXCEPT ![e.peer].state = "stale"]

\* handle_udp_peer_lost: a known remote node becomes UNAVAILABLE.
HandleUdpPeerLost(e) ==
    nodes' = IF nodes[e.peer].state \in {"absent", "local"} THEN nodes
             ELSE [nodes EXCEPT ![e.peer].state = "unavailable"]

\* The next handler task runs.
RunHandler ==
    /\ handlers # <<>>
    /\ handlers' = Tail(handlers)
    /\ LET e == Head(handlers)
       IN  \/ e.kind \in {"discovered", "updated"} /\ IngestUdpPeer(e)
           \/ e.kind = "lost" /\ HandleUdpPeerLost(e)
    /\ UNCHANGED <<phase, sent, tableVars, reapVars>>

-----------------------------------------------------------------------------

Service == UpdatePeer \/ ReleaseTable \/ Reap \/ ReapContinues \/ RunHandler

Next ==
    \/ Start \/ BeginStop \/ FinishStop
    \/ \E p \in Peer, info \in Info : Announce(p, info)
    \/ \E a \in sent : HandleDatagram(a)
    \/ \E p \in Peer : FallSilent(p)
    \/ Service

\* asyncio runs every ready task. The reap loop competes for the lock with
\* the update tasks, and asyncio.Lock serves its waiters in order.
Fairness ==
    /\ WF_vars(UpdatePeer) /\ WF_vars(ReleaseTable) /\ WF_vars(RunHandler)
    /\ WF_vars(ReapContinues) /\ SF_vars(Reap)

Spec == Init /\ [][Next]_vars /\ Fairness

-----------------------------------------------------------------------------
(* Properties.                                                             *)

TypeOK ==
    /\ phase \in {"created", "running", "stopping", "stopped"}
    /\ sent \subseteq Announcement
    /\ tasks \in Seq(Announcement)
    /\ holder \in Peer \cup {NoPeer}
    /\ peers \in [Peer -> Info \cup {NoInfo}]
    /\ silent \subseteq Peer
    /\ lost \subseteq Peer
    /\ reporting \in Peer \cup {NoPeer}
    /\ handlers \in Seq(Event)
    /\ nodes \in [Peer -> [state : NodeState \cup {"absent"}, info : Info \cup {NoInfo}]]

\* Whatever overtakes what on the network and on the loop, the registry says
\* of a tracked peer what the table says as soon as no event about it is under
\* way (service.py 217-239).
RegistryFollowsTable ==
    \A p \in Tracked :
        (\A k \in DOMAIN handlers : handlers[k].peer = p => handlers[k].kind = "lost")
            => nodes[p].info = peers[p]

\* While discovery runs, navigation is offered no peer that has expired:
\* a node is AVAILABLE only if it is tracked or the reap loop is about to
\* report it (service.py 268-293, ecosystem_service.py 280-286).
NoGhosts ==
    phase = "running" =>
        \A p \in Peer :
            nodes[p].state = "available" => p \in Tracked \cup lost \cup {reporting}

\* What the registry has of peers agrees with the table in both directions:
\* nothing tracked is unknown or outdated, nothing expired is offered
\* (service.py 191-293).
RegistryAgrees == RegistryFollowsTable /\ NoGhosts

\* A peer that falls silent is UNAVAILABLE in the end, however busy the
\* others keep the table (service.py 268-293).
SilentPeersLost ==
    \A p \in Peer :
        (p \in silent /\ p \in Tracked) ~>
            (p \notin silent \/ nodes[p].state = "unavailable" \/ phase # "running")

\* ADR-008:62, UNAVAILABLE: "previously known or reached but is currently
\* unreachable". Once all events are handled, no peer that is being heard of
\* is UNAVAILABLE.
UnavailableIsUnreachable ==
    (phase = "running" /\ holder = NoPeer /\ reporting = NoPeer /\ handlers = <<>>) =>
        \A p \in Tracked \ silent : nodes[p].state # "unavailable"

=============================================================================
