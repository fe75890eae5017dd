-------------------------- MODULE PeerDiscoveryProofs --------------------------
(***************************************************************************)
(* What PeerDiscovery guarantees for any number of peers, announcements    *)
(* and datagrams under way.                                                *)
(***************************************************************************)
EXTENDS PeerDiscovery, SequenceTheorems, TLAPS

USE DiscoveryAssumption

-----------------------------------------------------------------------------
(* The inductive invariant.                                                *)

\* What _update_peer publishes is about the peer it holds the lock for, and is
\* what the table says of it; the table has that peer while the lock is held.
DatagramInv ==
    /\ \A k \in DOMAIN handlers : handlers[k].kind # "lost" =>
          handlers[k].peer = holder /\ handlers[k].info = peers[holder]
    /\ holder # NoPeer => peers[holder] # NoInfo

\* The reap loop has one event under way at most, about the peer it reports.
LostInv ==
    \A k \in DOMAIN handlers : handlers[k].kind = "lost" =>
        /\ handlers[k].peer = reporting
        /\ \A l \in DOMAIN handlers : handlers[l].kind = "lost" => l = k

\* The peer that the reap loop has reported is no longer offered, unless it
\* has come back.
ReportInv ==
    (phase = "running" /\ reporting # NoPeer /\ ~Publishing({"lost"})
     /\ nodes[reporting].state = "available")
        => reporting \in Tracked \cup lost

\* Nothing happens before discovery is started.
CreatedInv ==
    phase = "created" =>
        /\ tasks = <<>> /\ handlers = <<>> /\ reporting = NoPeer
        /\ \A p \in Peer : nodes[p].state # "available"

Inv == RegistryFollowsTable /\ NoGhosts /\ DatagramInv /\ LostInv /\ ReportInv /\ CreatedInv

IInv == TypeOK /\ Inv

-----------------------------------------------------------------------------
(* The queue of handler tasks.                                             *)

LEMMA Appended ==
    ASSUME NEW S, NEW h \in Seq(S), NEW e \in S
    PROVE  /\ Append(h, e) \in Seq(S)
           /\ \A l \in DOMAIN h : l \in DOMAIN Append(h, e) /\ Append(h, e)[l] = h[l]
           /\ Len(h) + 1 \in DOMAIN Append(h, e) /\ Append(h, e)[Len(h) + 1] = e
           /\ \A l \in DOMAIN Append(h, e) : l \in DOMAIN h \/ (l = Len(h) + 1 /\ l \notin DOMAIN h)
<1>1. /\ Append(h, e) \in Seq(S) /\ Len(Append(h, e)) = Len(h) + 1
      /\ \A l \in 1 .. Len(h) : Append(h, e)[l] = h[l]
      /\ Append(h, e)[Len(h) + 1] = e
  BY AppendProperties
<1>2. DOMAIN h = 1 .. Len(h) /\ DOMAIN Append(h, e) = 1 .. Len(h) + 1 /\ Len(h) \in Nat
  BY <1>1, LenProperties
<1> QED
  BY <1>1, <1>2

LEMMA Resumed ==
    ASSUME NEW S, NEW h \in Seq(S), h # <<>>
    PROVE  /\ Tail(h) \in Seq(S) /\ Head(h) \in S
           /\ 1 \in DOMAIN h /\ Head(h) = h[1]
           /\ \A l \in DOMAIN Tail(h) : l \in Nat /\ l + 1 \in DOMAIN h /\ Tail(h)[l] = h[l + 1]
           /\ \A l \in DOMAIN h : l = 1 \/ (l - 1 \in DOMAIN Tail(h) /\ Tail(h)[l - 1] = h[l])
<1>1. /\ Tail(h) \in Seq(S) /\ Head(h) \in S /\ Len(Tail(h)) = Len(h) - 1
      /\ \A l \in 1 .. Len(Tail(h)) : Tail(h)[l] = h[l + 1]
  BY HeadTailProperties
<1>2. /\ DOMAIN h = 1 .. Len(h) /\ DOMAIN Tail(h) = 1 .. Len(h) - 1
      /\ Len(h) \in Nat /\ Len(h) # 0 /\ Head(h) = h[1]
  BY <1>1, LenProperties, EmptySeq
<1> QED
  BY <1>1, <1>2

LEMMA Cancelled ==
    ASSUME NEW S, NEW h \in Seq(S), NEW k \in DOMAIN h
    PROVE  /\ RemoveAt(h, k) \in Seq(S)
           /\ \A l \in DOMAIN RemoveAt(h, k) : \E m \in DOMAIN h \ {k} : RemoveAt(h, k)[l] = h[m]
           /\ \A m \in DOMAIN h \ {k} : \E l \in DOMAIN RemoveAt(h, k) : RemoveAt(h, k)[l] = h[m]
<1> DEFINE a == SubSeq(h, 1, k - 1)
           b == SubSeq(h, k + 1, Len(h))
           r == RemoveAt(h, k)
<1>1. DOMAIN h = 1 .. Len(h) /\ Len(h) \in Nat /\ \A l \in 1 .. Len(h) : h[l] \in S
  BY LenProperties, ElementOfSeq
<1>2. /\ a \in Seq(S) /\ Len(a) = k - 1
      /\ \A l \in 1 .. k - 1 : a[l] = h[l]
  <2>1. \A l \in 1 .. k - 1 : h[l] \in S
    BY <1>1
  <2>2. /\ a \in Seq(S) /\ Len(a) = (IF 1 <= k - 1 THEN k - 1 - 1 + 1 ELSE 0)
        /\ \A l \in 1 .. k - 1 - 1 + 1 : a[l] = h[1 + l - 1]
    BY <1>1, <2>1, SubSeqProperties
  <2> HIDE DEF a
  <2> QED
    BY <1>1, <2>2
<1>3. /\ b \in Seq(S) /\ Len(b) = Len(h) - k
      /\ \A l \in 1 .. Len(h) - k : b[l] = h[k + l]
  <2>1. \A l \in k + 1 .. Len(h) : h[l] \in S
    BY <1>1
  <2>2. /\ b \in Seq(S) /\ Len(b) = (IF k + 1 <= Len(h) THEN Len(h) - (k + 1) + 1 ELSE 0)
        /\ \A l \in 1 .. Len(h) - (k + 1) + 1 : b[l] = h[k + 1 + l - 1]
    BY <1>1, <2>1, SubSeqProperties
  <2> HIDE DEF b
  <2>3. \A l \in 1 .. Len(h) - k : b[l] = h[k + l]
    <3> SUFFICES ASSUME NEW l \in 1 .. Len(h) - k PROVE b[l] = h[k + l]
      OBVIOUS
    <3>1. l \in 1 .. Len(h) - (k + 1) + 1 /\ k + 1 + l - 1 = k + l
      BY <1>1
    <3> QED
      BY <2>2, <3>1
  <2> QED
    BY <1>1, <2>2, <2>3
<1>4. r = a \o b
  BY DEF RemoveAt
<1> HIDE DEF a, b, r
<1>5. /\ r \in Seq(S) /\ Len(r) = Len(h) - 1
      /\ \A l \in 1 .. Len(h) - 1 : r[l] = IF l <= k - 1 THEN a[l] ELSE b[l - (k - 1)]
  <2>1. /\ r \in Seq(S) /\ Len(r) = Len(a) + Len(b)
        /\ \A l \in 1 .. Len(a) + Len(b) : r[l] = IF l <= Len(a) THEN a[l] ELSE b[l - Len(a)]
    BY <1>2, <1>3, <1>4, ConcatProperties
  <2>2. Len(a) + Len(b) = Len(h) - 1
    BY <1>1, <1>2, <1>3
  <2> QED
    BY <1>2, <2>1, <2>2
<1>6. \A l \in 1 .. Len(h) - 1 : r[l] = IF l < k THEN h[l] ELSE h[l + 1]
  <2> SUFFICES ASSUME NEW l \in 1 .. Len(h) - 1 PROVE r[l] = IF l < k THEN h[l] ELSE h[l + 1]
    OBVIOUS
  <2>1. CASE l < k
    BY <1>1, <1>2, <1>5, <2>1
  <2>2. CASE ~(l < k)
    <3>1. r[l] = b[l - (k - 1)] /\ l - (k - 1) \in 1 .. Len(h) - k
      BY <1>1, <1>5, <2>2
    <3>2. k + (l - (k - 1)) = l + 1
      BY <1>1
    <3> QED
      BY <1>3, <2>2, <3>1, <3>2
  <2> QED
    BY <2>1, <2>2
<1>7. DOMAIN r = 1 .. Len(h) - 1
  BY <1>5, LenProperties
<1>8. \A l \in DOMAIN r : \E m \in DOMAIN h \ {k} : r[l] = h[m]
  <2> SUFFICES ASSUME NEW l \in 1 .. Len(h) - 1 PROVE \E m \in DOMAIN h \ {k} : r[l] = h[m]
    BY <1>7
  <2>1. CASE l < k
    BY <1>1, <1>6, <2>1
  <2>2. CASE ~(l < k)
    <3>1. l + 1 \in DOMAIN h \ {k} /\ r[l] = h[l + 1]
      BY <1>1, <1>6, <2>2
    <3> QED
      BY <3>1
  <2> QED
    BY <2>1, <2>2
<1>9. \A m \in DOMAIN h \ {k} : \E l \in DOMAIN r : r[l] = h[m]
  <2> SUFFICES ASSUME NEW m \in DOMAIN h \ {k} PROVE \E l \in DOMAIN r : r[l] = h[m]
    OBVIOUS
  <2>1. CASE m < k
    <3>1. m \in 1 .. Len(h) - 1
      BY <1>1, <2>1
    <3> QED
      BY <1>6, <1>7, <2>1, <3>1
  <2>2. CASE ~(m < k)
    <3>1. m - 1 \in 1 .. Len(h) - 1 /\ ~(m - 1 < k) /\ (m - 1) + 1 = m
      BY <1>1, <2>2
    <3>2. r[m - 1] = h[m]
      BY <1>6, <3>1
    <3> QED
      BY <1>7, <3>1, <3>2
  <2> QED
    BY <2>1, <2>2
<1> QED
  BY <1>5, <1>8, <1>9 DEF r

-----------------------------------------------------------------------------
(* Types.                                                                  *)

Node == [state : NodeState \cup {"absent"}, info : Info \cup {NoInfo}]

LEMMA NodeFields ==
    ASSUME NEW x \in Node
    PROVE  /\ [x EXCEPT !.state = "unavailable"] \in Node
           /\ [x EXCEPT !.state = "unavailable"].info = x.info
           /\ [x EXCEPT !.state = "unavailable"].state = "unavailable"
  BY DEF Node, NodeState

\* What a handler does to the registry.
LEMMA HandlerEffect ==
    ASSUME TypeOK, RunHandler
    PROVE  /\ handlers # <<>> /\ handlers' = Tail(handlers) /\ Head(handlers) \in Event
           /\ UNCHANGED <<phase, sent, tableVars, reapVars>>
           /\ nodes' \in [Peer -> Node]
           /\ \A p \in Peer \ {Head(handlers).peer} : nodes'[p] = nodes[p]
           /\ \/ /\ Head(handlers).kind \in {"discovered", "updated"}
                 /\ nodes'[Head(handlers).peer] = [state |-> "available", info |-> Head(handlers).info]
              \/ /\ Head(handlers).kind = "lost"
                 /\ nodes'[Head(handlers).peer].state # "available"
                 /\ nodes'[Head(handlers).peer].info = nodes[Head(handlers).peer].info
<1> DEFINE e == Head(handlers)
<1>1. /\ handlers # <<>> /\ handlers' = Tail(handlers)
      /\ UNCHANGED <<phase, sent, tableVars, reapVars>>
      /\ \/ e.kind \in {"discovered", "updated"} /\ IngestUdpPeer(e)
         \/ e.kind = "lost" /\ HandleUdpPeerLost(e)
  BY DEF RunHandler
<1>2. e \in Event
  BY <1>1, Resumed DEF TypeOK
<1>3. nodes \in [Peer -> Node]
  BY DEF TypeOK, Node
<1>4. e.peer \in Peer /\ e.info \in Info \cup {NoInfo}
  BY <1>2 DEF Event
<1> HIDE DEF e
<1>5. CASE e.kind \in {"discovered", "updated"} /\ IngestUdpPeer(e)
  <2>1. [state |-> "available", info |-> e.info] \in Node
    BY <1>4 DEF Node, NodeState
  <2>2. nodes' = [nodes EXCEPT ![e.peer] = [state |-> "available", info |-> e.info]]
    BY <1>5 DEF IngestUdpPeer
  <2>3. /\ nodes' \in [Peer -> Node] /\ \A p \in Peer \ {e.peer} : nodes'[p] = nodes[p]
        /\ nodes'[e.peer] = [state |-> "available", info |-> e.info]
    BY <1>3, <1>4, <2>1, <2>2
  <2> QED
    BY <1>1, <1>2, <1>5, <2>3 DEF e
<1>6. CASE e.kind = "lost" /\ HandleUdpPeerLost(e)
  <2> DEFINE x == [nodes[e.peer] EXCEPT !.state = "unavailable"]
  <2>1. x \in Node /\ x.info = nodes[e.peer].info /\ x.state = "unavailable"
    BY <1>3, <1>4, NodeFields
  <2>2. nodes' = (IF nodes[e.peer].state \in {"absent", "local"} THEN nodes
                  ELSE [nodes EXCEPT ![e.peer] = x])
    BY <1>6 DEF HandleUdpPeerLost
  <2> HIDE DEF x
  <2>3. /\ nodes' \in [Peer -> Node] /\ \A p \in Peer \ {e.peer} : nodes'[p] = nodes[p]
        /\ nodes'[e.peer].state # "available" /\ nodes'[e.peer].info = nodes[e.peer].info
    <3>1. CASE nodes[e.peer].state \in {"absent", "local"}
      BY <1>3, <2>2, <3>1
    <3>2. CASE nodes[e.peer].state \notin {"absent", "local"}
      BY <1>3, <1>4, <2>1, <2>2, <3>2
    <3> QED
      BY <3>1, <3>2
  <2> QED
    BY <1>1, <1>2, <1>6, <2>3 DEF e
<1> QED
  BY <1>1, <1>5, <1>6

\* What _update_peer does with the datagram it takes.
LEMMA UpdateEffect ==
    ASSUME TypeOK, UpdatePeer
    PROVE  \E a \in Announcement :
              /\ tasks # <<>> /\ tasks' = Tail(tasks) /\ holder = NoPeer
              /\ peers' = [peers EXCEPT ![a.peer] = a.info] /\ silent' = silent \ {a.peer}
              /\ UNCHANGED <<phase, sent, reapVars, nodes>>
              /\ \/ peers[a.peer] = a.info /\ UNCHANGED <<holder, handlers>>
                 \/ /\ holder' = a.peer
                    /\ \E kind \in {"discovered", "updated"} :
                          handlers' = Append(handlers, DatagramEvent(kind, a))
<1>1. tasks # <<>> /\ tasks \in Seq(Announcement)
  BY DEF UpdatePeer, TypeOK
<1>2. Head(tasks) \in Announcement
  BY <1>1, Resumed
<1> QED
  BY <1>1, <1>2 DEF UpdatePeer

LEMMA EventTypes ==
    /\ \A kind \in {"discovered", "updated"}, a \in Announcement :
          /\ DatagramEvent(kind, a) \in Event
          /\ DatagramEvent(kind, a).kind # "lost"
          /\ DatagramEvent(kind, a).peer = a.peer /\ DatagramEvent(kind, a).info = a.info
    /\ \A p \in Peer : LostEvent(p) \in Event /\ LostEvent(p).kind = "lost" /\ LostEvent(p).peer = p
    /\ \A a \in Announcement : a.peer \in Peer /\ a.info \in Info
    /\ \A e \in Event : e.peer \in Peer /\ e.kind \in {"discovered", "updated", "lost"}
  BY DEF Event, Announcement, DatagramEvent, LostEvent

LEMMA InitTypes == Init => TypeOK
<1> SUFFICES ASSUME Init PROVE TypeOK
  OBVIOUS
<1>1. tasks \in Seq(Announcement) /\ handlers \in Seq(Event)
  BY EmptySeq DEF Init
<1>2. nodes \in [Peer -> Node]
  BY DEF Init, Node, NodeState, Absent
<1> QED
  BY <1>1, <1>2 DEF Init, TypeOK, Node

LEMMA TypeStep == TypeOK /\ [Next]_vars => TypeOK'
<1> SUFFICES ASSUME TypeOK, [Next]_vars PROVE TypeOK'
  OBVIOUS
<1> USE DEF tableVars, reapVars
<1>0. /\ tasks \in Seq(Announcement) /\ handlers \in Seq(Event) /\ nodes \in [Peer -> Node]
  BY DEF TypeOK, Node
<1>1. CASE Start
  BY <1>1 DEF Start, TypeOK
<1>2. CASE BeginStop
  <2>1. handlers' \in Seq(Event)
    BY <1>0, <1>2, Cancelled DEF BeginStop
  <2> QED
    BY <1>2, <2>1 DEF BeginStop, TypeOK
<1>3. CASE FinishStop
  BY <1>3 DEF FinishStop, TypeOK
<1>4. ASSUME NEW p \in Peer, NEW info \in Info, Announce(p, info) PROVE TypeOK'
  <2>1. [peer |-> p, info |-> info] \in Announcement
    BY DEF Announcement
  <2> QED
    BY <1>4, <2>1 DEF Announce, TypeOK
<1>5. ASSUME NEW a \in sent, HandleDatagram(a) PROVE TypeOK'
  <2>1. a \in Announcement
    BY DEF TypeOK
  <2>2. tasks' \in Seq(Announcement)
    BY <1>0, <1>5, <2>1, Appended DEF HandleDatagram
  <2> QED
    BY <1>5, <2>2 DEF HandleDatagram, TypeOK
<1>6. ASSUME NEW p \in Peer, FallSilent(p) PROVE TypeOK'
  BY <1>6 DEF FallSilent, TypeOK
<1>7. CASE UpdatePeer
  <2>1. PICK a \in Announcement :
            /\ tasks # <<>> /\ tasks' = Tail(tasks) /\ holder = NoPeer
            /\ peers' = [peers EXCEPT ![a.peer] = a.info] /\ silent' = silent \ {a.peer}
            /\ UNCHANGED <<phase, sent, reapVars, nodes>>
            /\ \/ peers[a.peer] = a.info /\ UNCHANGED <<holder, handlers>>
               \/ /\ holder' = a.peer
                  /\ \E kind \in {"discovered", "updated"} :
                        handlers' = Append(handlers, DatagramEvent(kind, a))
    BY <1>7, UpdateEffect
  <2>2. tasks' \in Seq(Announcement)
    BY <1>0, <2>1, Resumed
  <2>3. handlers' \in Seq(Event)
    <3>1. CASE UNCHANGED handlers
      BY <1>0, <3>1
    <3>2. ASSUME NEW kind \in {"discovered", "updated"},
                 handlers' = Append(handlers, DatagramEvent(kind, a))
          PROVE  handlers' \in Seq(Event)
      <4>1. DatagramEvent(kind, a) \in Event
        BY EventTypes
      <4> QED
        BY <1>0, <3>2, <4>1, Appended
    <3> QED
      BY <2>1, <3>1, <3>2
  <2>4. a.peer \in Peer /\ a.info \in Info
    BY EventTypes
  <2> QED
    BY <2>1, <2>2, <2>3, <2>4 DEF TypeOK
<1>8. CASE ReleaseTable
  BY <1>8 DEF ReleaseTable, TypeOK
<1>9. ASSUME NEW gone \in SUBSET Peer, Report(gone)
      PROVE  lost' \subseteq Peer /\ reporting' \in Peer /\ handlers' \in Seq(Event)
  BY <1>0, <1>9, EventTypes, Appended DEF Report
<1>10. CASE Reap
  <2>1. peers' \in [Peer -> Info \cup {NoInfo}]
    BY <1>10 DEF Reap, TypeOK
  <2>2. silent \cap Tracked \in SUBSET Peer
    BY DEF TypeOK
  <2> QED
    BY <1>9, <1>10, <2>1, <2>2 DEF Reap, TypeOK
<1>11. CASE ReapContinues
  <2>1. lost \in SUBSET Peer
    BY DEF TypeOK
  <2> QED
    BY <1>9, <1>11, <2>1 DEF ReapContinues, TypeOK
<1>12. CASE RunHandler
  <2>1. handlers' \in Seq(Event) /\ nodes' \in [Peer -> Node]
    BY <1>0, <1>12, HandlerEffect, Resumed
  <2> QED
    BY <1>12, <2>1, HandlerEffect DEF TypeOK, Node
<1>13. CASE UNCHANGED vars
  BY <1>13 DEF vars, TypeOK
<1> QED
  BY <1>1, <1>2, <1>3, <1>4, <1>5, <1>6, <1>7, <1>8, <1>10, <1>11, <1>12, <1>13
  DEF Next, Service

-----------------------------------------------------------------------------
(* The steps.                                                              *)

\* The network, the clock and the start of discovery change nothing that the
\* invariant is about.
LEMMA QuietStep ==
    ASSUME TypeOK, Inv,
           UNCHANGED <<holder, peers, reapVars, handlers, nodes>>,
           \/ phase' = phase /\ (phase = "created" => tasks' = tasks)
           \/ Start
    PROVE  Inv'
<1> USE DEF reapVars
<1>1. Tracked' = Tracked /\ Publishing({"lost"})' = Publishing({"lost"})
  BY DEF Tracked, Publishing
<1>2. RegistryFollowsTable' /\ DatagramInv' /\ LostInv'
  BY <1>1 DEF Inv, RegistryFollowsTable, DatagramInv, LostInv
<1>3. CASE phase' = phase /\ (phase = "created" => tasks' = tasks)
  BY <1>1, <1>2, <1>3 DEF Inv, NoGhosts, ReportInv, CreatedInv
<1>4. CASE Start
  <2>1. phase = "created" /\ phase' = "running"
    BY <1>4 DEF Start
  <2>2. \A p \in Peer : nodes'[p].state # "available"
    BY <2>1 DEF Inv, CreatedInv
  <2> QED
    BY <1>2, <2>1, <2>2 DEF Inv, NoGhosts, ReportInv, CreatedInv, TypeOK
<1> QED
  BY <1>3, <1>4

\* With the loop that waits for it the handler of a lost peer is cancelled.
LEMMA BeginStopStep ==
    ASSUME TypeOK, Inv, BeginStop
    PROVE  Inv'
<1>1. /\ phase' = "stopping" /\ reporting' = NoPeer /\ UNCHANGED <<holder, peers, nodes>>
  BY DEF BeginStop, tableVars
<1>2. /\ \A l \in DOMAIN handlers' : /\ handlers'[l].kind # "lost"
                                    /\ \E m \in DOMAIN handlers : handlers'[l] = handlers[m]
      /\ \A m \in DOMAIN handlers : handlers[m].kind # "lost" =>
            \E l \in DOMAIN handlers' : handlers'[l] = handlers[m]
  <2>1. CASE ~Publishing({"lost"}) /\ UNCHANGED handlers
    BY <2>1 DEF Publishing
  <2>2. CASE \E k \in DOMAIN handlers :
                handlers[k].kind = "lost" /\ handlers' = RemoveAt(handlers, k)
    <3>1. PICK k \in DOMAIN handlers :
              handlers[k].kind = "lost" /\ handlers' = RemoveAt(handlers, k)
      BY <2>2
    <3>2. handlers \in Seq(Event)
      BY DEF TypeOK
    <3>3. /\ \A l \in DOMAIN handlers' : \E m \in DOMAIN handlers \ {k} : handlers'[l] = handlers[m]
          /\ \A m \in DOMAIN handlers \ {k} : \E l \in DOMAIN handlers' : handlers'[l] = handlers[m]
      BY <3>1, <3>2, Cancelled
    <3>4. \A m \in DOMAIN handlers \ {k} : handlers[m].kind # "lost"
      BY <3>1 DEF Inv, LostInv
    <3> QED
      BY <3>1, <3>3, <3>4
  <2> QED
    BY <2>1, <2>2 DEF BeginStop
<1>3. RegistryFollowsTable'
  BY <1>1, <1>2 DEF Inv, RegistryFollowsTable, Tracked
<1>4. DatagramInv'
  BY <1>1, <1>2 DEF Inv, DatagramInv
<1> QED
  BY <1>1, <1>2, <1>3, <1>4 DEF Inv, NoGhosts, LostInv, ReportInv, CreatedInv

\* The table is emptied when nothing of it is being published.
LEMMA FinishStopStep ==
    ASSUME TypeOK, Inv, FinishStop
    PROVE  Inv'
<1>1. /\ phase' = "stopped" /\ holder = NoPeer
      /\ UNCHANGED <<holder, reapVars, handlers, nodes>>
      /\ peers' = [p \in Peer |-> NoInfo]
  BY DEF FinishStop
<1>2. \A k \in DOMAIN handlers : handlers[k].kind = "lost"
  <2>1. \A k \in DOMAIN handlers : handlers[k] \in Event
    BY ElementOfSeq, LenProperties DEF TypeOK
  <2> QED
    BY <1>1, <2>1, EventTypes DEF Inv, DatagramInv
<1>3. RegistryFollowsTable'
  BY <1>1 DEF RegistryFollowsTable, Tracked
<1>4. DatagramInv' /\ LostInv'
  BY <1>1, <1>2 DEF Inv, DatagramInv, LostInv, reapVars
<1> QED
  BY <1>1, <1>3, <1>4 DEF Inv, NoGhosts, ReportInv, CreatedInv

\* While the lock is not held no datagram's event is under way.
LEMMA NoDatagramEvent ==
    ASSUME TypeOK, DatagramInv, holder = NoPeer
    PROVE  \A k \in DOMAIN handlers : handlers[k].kind = "lost"
<1>1. \A k \in DOMAIN handlers : handlers[k] \in Event
  BY ElementOfSeq, LenProperties DEF TypeOK
<1> QED
  BY <1>1, EventTypes DEF DatagramInv

\* _update_peer: the registry lags behind only while the event is under way.
LEMMA UpdateStep ==
    ASSUME TypeOK, Inv, UpdatePeer
    PROVE  Inv'
<1>1. PICK a \in Announcement :
          /\ tasks # <<>> /\ tasks' = Tail(tasks) /\ holder = NoPeer
          /\ peers' = [peers EXCEPT ![a.peer] = a.info] /\ silent' = silent \ {a.peer}
          /\ UNCHANGED <<phase, sent, reapVars, nodes>>
          /\ \/ peers[a.peer] = a.info /\ UNCHANGED <<holder, handlers>>
             \/ /\ holder' = a.peer
                /\ \E kind \in {"discovered", "updated"} :
                      handlers' = Append(handlers, DatagramEvent(kind, a))
  BY UpdateEffect
<1>2. a.peer \in Peer /\ a.info \in Info /\ peers \in [Peer -> Info \cup {NoInfo}]
  BY EventTypes DEF TypeOK
<1>3. phase # "created"
  BY <1>1 DEF Inv, CreatedInv
<1>4. CASE peers[a.peer] = a.info /\ UNCHANGED <<holder, handlers>>
  <2>1. peers' = peers
    BY <1>1, <1>2, <1>4
  <2> QED
    BY <1>1, <1>3, <1>4, <2>1, QuietStep
<1>5. ASSUME NEW kind \in {"discovered", "updated"},
             holder' = a.peer, handlers' = Append(handlers, DatagramEvent(kind, a))
      PROVE  Inv'
  <2> DEFINE e == DatagramEvent(kind, a)
  <2>1. e \in Event /\ e.kind # "lost" /\ e.peer = a.peer /\ e.info = a.info
    BY EventTypes
  <2>2. /\ \A l \in DOMAIN handlers : l \in DOMAIN handlers' /\ handlers'[l] = handlers[l]
        /\ \A l \in DOMAIN handlers' : l \in DOMAIN handlers \/ handlers'[l] = e
        /\ \E l \in DOMAIN handlers' : handlers'[l] = e
    <3>1. handlers \in Seq(Event)
      BY DEF TypeOK
    <3> HIDE DEF e
    <3>2. handlers' = Append(handlers, e)
      BY <1>5 DEF e
    <3> QED
      BY <2>1, <3>1, <3>2, Appended
  <2> HIDE DEF e
  <2>3. \A k \in DOMAIN handlers : handlers[k].kind = "lost"
    BY <1>1, NoDatagramEvent DEF Inv
  <2>4. /\ peers'[a.peer] = a.info /\ a.info # NoInfo
        /\ \A p \in Peer \ {a.peer} : peers'[p] = peers[p]
    BY <1>1, <1>2
  <2>5. /\ Tracked' = Tracked \cup {a.peer}
        /\ Publishing({"lost"})' = Publishing({"lost"})
    BY <1>2, <2>1, <2>2, <2>4 DEF Tracked, Publishing
  <2>6. RegistryFollowsTable'
    BY <1>1, <1>2, <2>1, <2>2, <2>4 DEF Inv, RegistryFollowsTable, Tracked
  <2>7. DatagramInv'
    BY <1>5, <2>1, <2>2, <2>3, <2>4, <1>2 DEF DatagramInv
  <2>8. LostInv'
    BY <1>1, <2>1, <2>2 DEF Inv, LostInv, reapVars
  <2>9. NoGhosts' /\ ReportInv'
    BY <1>1, <2>5 DEF Inv, NoGhosts, ReportInv, reapVars
  <2> QED
    BY <1>1, <1>3, <2>6, <2>7, <2>8, <2>9 DEF Inv, CreatedInv
<1> QED
  BY <1>1, <1>4, <1>5

\* The lock is released when the event is handled.
LEMMA ReleaseStep ==
    ASSUME TypeOK, Inv, ReleaseTable
    PROVE  Inv'
<1>1. /\ holder' = NoPeer /\ ~Publishing({"discovered", "updated"})
      /\ UNCHANGED <<phase, tasks, peers, reapVars, handlers, nodes>>
  BY DEF ReleaseTable
<1>2. \A k \in DOMAIN handlers : handlers[k].kind = "lost"
  <2>1. \A k \in DOMAIN handlers : handlers[k] \in Event
    BY ElementOfSeq, LenProperties DEF TypeOK
  <2> QED
    BY <1>1, <2>1, EventTypes DEF Publishing
<1>3. Tracked' = Tracked /\ Publishing({"lost"})' = Publishing({"lost"})
  BY <1>1 DEF Tracked, Publishing
<1>4. RegistryFollowsTable' /\ DatagramInv' /\ LostInv'
  BY <1>1, <1>2, <1>3 DEF Inv, RegistryFollowsTable, DatagramInv, LostInv, reapVars
<1> QED
  BY <1>1, <1>3, <1>4 DEF Inv, NoGhosts, ReportInv, CreatedInv, reapVars

\* What Report adds to the queue.
LEMMA ReportEffect ==
    ASSUME TypeOK, Inv, NEW gone \in SUBSET Peer, Report(gone),
           reporting = NoPeer \/ ~Publishing({"lost"})
    PROVE  /\ reporting' \in gone /\ lost' = gone \ {reporting'}
           /\ \A l \in DOMAIN handlers : /\ l \in DOMAIN handlers' /\ handlers'[l] = handlers[l]
                                         /\ handlers[l].kind # "lost"
           /\ \A l \in DOMAIN handlers' : l \in DOMAIN handlers \/ handlers'[l] = LostEvent(reporting')
           /\ LostInv' /\ Publishing({"lost"})'
<1>1. PICK p \in gone : /\ lost' = gone \ {p} /\ reporting' = p
                        /\ handlers' = Append(handlers, LostEvent(p))
  BY DEF Report
<1> DEFINE e == LostEvent(p)
<1>2. e \in Event /\ e.kind = "lost" /\ e.peer = p
  BY EventTypes
<1>3. handlers \in Seq(Event)
  BY DEF TypeOK
<1>4. handlers' = Append(handlers, e)
  BY <1>1
<1> HIDE DEF e
<1>5. /\ \A l \in DOMAIN handlers : l \in DOMAIN handlers' /\ handlers'[l] = handlers[l]
      /\ Len(handlers) + 1 \in DOMAIN handlers' /\ handlers'[Len(handlers) + 1] = e
      /\ \A l \in DOMAIN handlers' : l \in DOMAIN handlers \/ l = Len(handlers) + 1
  BY <1>2, <1>3, <1>4, Appended
\* A lost event is about the peer that is being reported, so there was none.
<1>6. \A l \in DOMAIN handlers : handlers[l].kind # "lost"
  <2>1. \A k \in DOMAIN handlers : handlers[k] \in Event
    BY <1>3, ElementOfSeq, LenProperties
  <2>2. CASE reporting = NoPeer
    BY <2>1, <2>2, EventTypes DEF Inv, LostInv
  <2>3. CASE ~Publishing({"lost"})
    BY <2>3 DEF Publishing
  <2> QED
    BY <2>2, <2>3
<1>7. LostInv' /\ Publishing({"lost"})'
  BY <1>1, <1>2, <1>5, <1>6 DEF LostInv, Publishing
<1> QED
  BY <1>1, <1>5, <1>6, <1>7 DEF e

\* The reap loop takes the expired peers from the table, nothing of which is
\* being published, and reports each of them.
LEMMA ReapStep ==
    ASSUME TypeOK, Inv, Reap
    PROVE  Inv'
<1>1. /\ phase = "running" /\ reporting = NoPeer /\ lost = {} /\ holder = NoPeer
      /\ UNCHANGED <<phase, tasks, holder, nodes>>
      /\ peers' = [p \in Peer |-> IF p \in silent THEN NoInfo ELSE peers[p]]
      /\ Report(silent \cap Tracked)
  BY DEF Reap
<1>2. silent \cap Tracked \in SUBSET Peer
  BY DEF Tracked
<1>3. /\ reporting' \in silent \cap Tracked /\ lost' = (silent \cap Tracked) \ {reporting'}
      /\ \A l \in DOMAIN handlers : /\ l \in DOMAIN handlers' /\ handlers'[l] = handlers[l]
                                    /\ handlers[l].kind # "lost"
      /\ \A l \in DOMAIN handlers' : l \in DOMAIN handlers \/ handlers'[l] = LostEvent(reporting')
      /\ LostInv' /\ Publishing({"lost"})'
  BY <1>1, <1>2, ReportEffect
<1>4. Tracked' = Tracked \ silent /\ \A p \in Tracked' : peers'[p] = peers[p]
  BY <1>1 DEF Tracked
<1>5. RegistryFollowsTable'
  BY <1>1, <1>3, <1>4 DEF Inv, RegistryFollowsTable, Tracked
<1>6. DatagramInv'
  <2>1. \A k \in DOMAIN handlers : handlers[k].kind = "lost"
    BY <1>1, NoDatagramEvent DEF Inv
  <2>2. LostEvent(reporting').kind = "lost"
    BY DEF LostEvent
  <2> QED
    BY <1>1, <1>3, <2>1, <2>2 DEF DatagramInv
<1>7. NoGhosts'
  <2>1. Tracked' \cup lost' \cup {reporting'} = Tracked
    BY <1>3, <1>4
  <2>2. \A p \in Peer : nodes[p].state = "available" => p \in Tracked \/ p = NoPeer
    BY <1>1 DEF Inv, NoGhosts
  <2> QED
    BY <1>1, <2>1, <2>2 DEF NoGhosts
<1> QED
  BY <1>1, <1>3, <1>5, <1>6, <1>7 DEF Inv, ReportInv, CreatedInv

\* The peer it has reported is not offered, and the next one is about to be.
LEMMA ReapContinuesStep ==
    ASSUME TypeOK, Inv, ReapContinues
    PROVE  Inv'
<1>1. /\ reporting # NoPeer /\ ~Publishing({"lost"})
      /\ UNCHANGED <<phase, sent, tasks, holder, peers, nodes>>
  BY DEF ReapContinues, tableVars
<1>2. Tracked' = Tracked
  BY <1>1 DEF Tracked
<1>3. phase = "running" =>
          \A p \in Peer : nodes[p].state = "available" => p \in Tracked \cup lost
  BY <1>1 DEF Inv, NoGhosts, ReportInv
<1>4. CASE lost # {} /\ Report(lost)
  <2>1. lost \in SUBSET Peer
    BY DEF TypeOK
  <2>2. /\ reporting' \in lost /\ lost' = lost \ {reporting'}
        /\ \A l \in DOMAIN handlers : /\ l \in DOMAIN handlers' /\ handlers'[l] = handlers[l]
                                      /\ handlers[l].kind # "lost"
        /\ \A l \in DOMAIN handlers' : l \in DOMAIN handlers \/ handlers'[l] = LostEvent(reporting')
        /\ LostInv' /\ Publishing({"lost"})'
    BY <1>1, <1>4, <2>1, ReportEffect
  <2>3. LostEvent(reporting').kind = "lost"
    BY DEF LostEvent
  <2>4. RegistryFollowsTable'
    BY <1>1, <1>2, <2>2 DEF Inv, RegistryFollowsTable
  <2>5. DatagramInv'
    BY <1>1, <2>2, <2>3 DEF Inv, DatagramInv
  <2>6. NoGhosts'
    BY <1>1, <1>2, <1>3, <2>2 DEF NoGhosts
  <2>7. CreatedInv'
    <3>1. phase # "created"
      BY <1>1 DEF Inv, CreatedInv
    <3> QED
      BY <1>1, <3>1 DEF CreatedInv
  <2> QED
    BY <2>2, <2>4, <2>5, <2>6, <2>7 DEF Inv, ReportInv
<1>5. CASE lost = {} /\ reporting' = NoPeer /\ UNCHANGED <<lost, handlers>>
  <2>1. RegistryFollowsTable' /\ DatagramInv'
    BY <1>1, <1>2, <1>5 DEF Inv, RegistryFollowsTable, DatagramInv
  <2>2. LostInv'
    BY <1>1, <1>5 DEF LostInv, Publishing
  <2>3. NoGhosts'
    BY <1>1, <1>2, <1>3, <1>5 DEF NoGhosts
  <2> QED
    BY <1>1, <1>5, <2>1, <2>2, <2>3 DEF Inv, ReportInv, CreatedInv
<1> QED
  BY <1>1, <1>4, <1>5 DEF ReapContinues

\* A handler brings the registry in line with its event.
LEMMA HandlerStep ==
    ASSUME TypeOK, Inv, RunHandler
    PROVE  Inv'
<1> DEFINE e == Head(handlers)
<1>1. /\ handlers # <<>> /\ handlers' = Tail(handlers) /\ e \in Event
      /\ UNCHANGED <<phase, sent, tableVars, reapVars>>
      /\ \A p \in Peer \ {e.peer} : nodes'[p] = nodes[p]
      /\ \/ /\ e.kind \in {"discovered", "updated"}
            /\ nodes'[e.peer] = [state |-> "available", info |-> e.info]
         \/ /\ e.kind = "lost" /\ nodes'[e.peer].state # "available"
            /\ nodes'[e.peer].info = nodes[e.peer].info
  BY HandlerEffect
<1>2. handlers \in Seq(Event)
  BY DEF TypeOK
<1>3. /\ 1 \in DOMAIN handlers /\ e = handlers[1]
      /\ \A l \in DOMAIN handlers' : l \in Nat /\ l + 1 \in DOMAIN handlers /\ handlers'[l] = handlers[l + 1]
      /\ \A l \in DOMAIN handlers : l = 1 \/ (l - 1 \in DOMAIN handlers' /\ handlers'[l - 1] = handlers[l])
  BY <1>1, <1>2, Resumed
<1> HIDE DEF e
<1>4. e.peer \in Peer
  BY <1>1, EventTypes
<1>5. /\ phase' = phase /\ tasks' = tasks /\ holder' = holder /\ peers' = peers
      /\ lost' = lost /\ reporting' = reporting /\ Tracked' = Tracked
  BY <1>1 DEF tableVars, reapVars, Tracked
<1>6. DatagramInv'
  BY <1>3, <1>5 DEF Inv, DatagramInv
<1>7. LostInv'
  <2> SUFFICES ASSUME NEW k \in DOMAIN handlers', handlers'[k].kind = "lost"
               PROVE  /\ handlers'[k].peer = reporting'
                      /\ \A l \in DOMAIN handlers' : handlers'[l].kind = "lost" => l = k
    BY DEF LostInv
  <2>1. handlers[k + 1].kind = "lost" /\ k + 1 \in DOMAIN handlers /\ k \in Nat
    BY <1>3
  <2>2. handlers'[k].peer = reporting'
    BY <1>3, <1>5, <2>1 DEF Inv, LostInv
  <2>3. \A l \in DOMAIN handlers' : handlers'[l].kind = "lost" => l + 1 = k + 1 /\ l \in Nat
    BY <1>3, <2>1 DEF Inv, LostInv
  <2> QED
    BY <2>1, <2>2, <2>3
<1>8. CreatedInv'
  <2>1. phase # "created"
    BY <1>1 DEF Inv, CreatedInv
  <2> QED
    BY <1>5, <2>1 DEF CreatedInv
<1>9. CASE /\ e.kind \in {"discovered", "updated"}
           /\ nodes'[e.peer] = [state |-> "available", info |-> e.info]
  <2>1. e.peer = holder /\ e.info = peers[holder] /\ e.peer \in Tracked
    BY <1>3, <1>4, <1>9 DEF Inv, DatagramInv, Tracked
  <2>2. \A l \in DOMAIN handlers : l # 1 => l - 1 \in DOMAIN handlers' /\ handlers'[l - 1] = handlers[l]
    BY <1>3
  <2>3. RegistryFollowsTable'
    <3> SUFFICES ASSUME NEW p \in Tracked,
                        \A k \in DOMAIN handlers' : handlers'[k].peer = p => handlers'[k].kind = "lost"
                 PROVE  nodes'[p].info = peers[p]
      BY <1>5 DEF RegistryFollowsTable
    <3>1. CASE p = e.peer
      BY <1>9, <2>1, <3>1
    <3>2. CASE p # e.peer
      <4>1. \A k \in DOMAIN handlers : handlers[k].peer = p => handlers[k].kind = "lost"
        BY <1>3, <2>2, <3>2
      <4> QED
        BY <1>1, <3>2, <4>1 DEF Inv, RegistryFollowsTable, Tracked
    <3> QED
      BY <3>1, <3>2
  <2>4. NoGhosts'
    BY <1>1, <1>5, <2>1 DEF Inv, NoGhosts
  <2>5. ReportInv'
    <3>1. Publishing({"lost"})' = Publishing({"lost"})
      BY <1>3, <1>9 DEF Publishing
    <3> QED
      BY <1>1, <1>5, <2>1, <3>1 DEF Inv, ReportInv, TypeOK
  <2> QED
    BY <1>6, <1>7, <1>8, <2>3, <2>4, <2>5 DEF Inv
<1>10. CASE /\ e.kind = "lost" /\ nodes'[e.peer].state # "available"
            /\ nodes'[e.peer].info = nodes[e.peer].info
  <2>1. e.peer = reporting
    BY <1>3, <1>10 DEF Inv, LostInv
  <2>2. RegistryFollowsTable'
    <3> SUFFICES ASSUME NEW p \in Tracked,
                        \A k \in DOMAIN handlers' : handlers'[k].peer = p => handlers'[k].kind = "lost"
                 PROVE  nodes'[p].info = peers[p]
      BY <1>5 DEF RegistryFollowsTable
    <3>1. \A k \in DOMAIN handlers : handlers[k].peer = p => handlers[k].kind = "lost"
      BY <1>3, <1>10
    <3>2. nodes'[p].info = nodes[p].info
      BY <1>1, <1>10 DEF Tracked
    <3> QED
      BY <3>1, <3>2 DEF Inv, RegistryFollowsTable
  <2>3. NoGhosts'
    BY <1>1, <1>5, <1>10 DEF Inv, NoGhosts
  <2>4. ReportInv'
    BY <1>5, <1>10, <2>1 DEF ReportInv
  <2> QED
    BY <1>6, <1>7, <1>8, <2>2, <2>3, <2>4 DEF Inv
<1> QED
  BY <1>1, <1>9, <1>10

-----------------------------------------------------------------------------
(* The theorems.                                                           *)

LEMMA InitInv == Init => IInv
<1> SUFFICES ASSUME Init PROVE IInv
  OBVIOUS
<1>1. TypeOK
  BY InitTypes
<1>2. /\ handlers = <<>> /\ tasks = <<>> /\ holder = NoPeer /\ reporting = NoPeer
      /\ phase = "created" /\ Tracked = {}
      /\ \A p \in Peer : nodes[p].state # "available"
  BY DEF Init, Tracked, Absent
<1>3. DOMAIN handlers = {}
  BY <1>2, LenProperties DEF TypeOK
<1> QED
  BY <1>1, <1>2, <1>3
  DEF IInv, Inv, RegistryFollowsTable, NoGhosts, DatagramInv, LostInv, ReportInv, CreatedInv

LEMMA StepInv == IInv /\ [Next]_vars => IInv'
<1> SUFFICES ASSUME TypeOK, Inv, [Next]_vars PROVE Inv'
  BY TypeStep DEF IInv
<1> USE DEF tableVars
<1>1. ASSUME NEW p \in Peer, NEW info \in Info, Announce(p, info) PROVE Inv'
  BY <1>1, QuietStep DEF Announce
<1>2. ASSUME NEW a \in sent, HandleDatagram(a) PROVE Inv'
  <2>1. /\ phase' = phase /\ phase # "created"
        /\ UNCHANGED <<holder, peers, reapVars, handlers, nodes>>
    BY <1>2 DEF HandleDatagram
  <2> QED
    BY <2>1, QuietStep
<1>3. ASSUME NEW p \in Peer, FallSilent(p) PROVE Inv'
  BY <1>3, QuietStep DEF FallSilent
<1>4. CASE Start
  BY <1>4, QuietStep DEF Start
<1>5. CASE UNCHANGED vars
  BY <1>5, QuietStep DEF vars
<1> QED
  BY <1>1, <1>2, <1>3, <1>4, <1>5, BeginStopStep, FinishStopStep, UpdateStep, ReleaseStep,
     ReapStep, ReapContinuesStep, HandlerStep
  DEF Next, Service

\* The inductive invariant holds of the peer table, the tasks, the queue of
\* handlers and the registry that follows (discovery/service.py, events/bus.py,
\* core/runtime.py).
THEOREM Invariant == Spec => []IInv
  BY InitInv, StepInv, PTL DEF Spec

\* The types hold (discovery/service.py, discovery/ecosystem_registry.py).
THEOREM TypeCorrect == Spec => []TypeOK
<1>1. IInv => TypeOK
  BY DEF IInv
<1> QED
  BY <1>1, Invariant, PTL

\* Whatever overtakes what on the network and on the loop, what
\* core/runtime.py has made of the peer events agrees with DiscoveryService:
\* nothing tracked is outdated in the registry once its event is handled, and
\* nothing that _reap_loop has reported is offered.
THEOREM RegistryAlwaysAgrees == Spec => []RegistryAgrees
<1>1. IInv => RegistryAgrees
  BY DEF IInv, Inv, RegistryAgrees
<1> QED
  BY <1>1, Invariant, PTL

=============================================================================
