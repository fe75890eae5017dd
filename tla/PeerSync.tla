------------------------------ MODULE PeerSync ------------------------------
(***************************************************************************)
(* The replicated ecosystem facts of shyam.sync: every node runs a         *)
(* SyncService (sync/service.py) that stamps its own edits with a version  *)
(* vector, signs its whole state into envelopes and merges the envelopes   *)
(* of peers its TrustService (trust/service.py) trusts.                    *)
(*                                                                         *)
(* No code holds SyncService._lock or TrustService._lock across an await,  *)
(* so every operation below is one atomic step of the node's event loop.   *)
(* The network may lose an envelope (it is never received), deliver it     *)
(* again, late or out of order (envelopes stay in "network"), or damage    *)
(* the copy it delivers.                                                   *)
(*                                                                         *)
(* A dict without a key is a function with the default value at that key:  *)
(* version 0 (models.py get_version), no capabilities, NoStatus.           *)
(***************************************************************************)
EXTENDS Integers, Sequences

CONSTANTS
    Node,            \* node ids
    Capability,      \* capability ids a node may be reported to have
    Status,          \* availability strings
    NoStatus,        \* "no availability known"
    Key,             \* public keys
    NoKey,           \* TrustRecord.public_key = None
    Update,          \* Update[i]: the facts node i may observe and edit in
    Trusting,        \* pairs <<i, j>>: i's trust store loads j as TRUSTED
    Window,          \* max_tracked_messages, 1000 in the code
    MaxVersion,      \* bound: local edits of one node
    MaxSent,         \* bound: envelopes created
    MaxTrustChanges, \* bound: grants and revocations
    MaxRestarts      \* bound: process restarts

Capabilities == [Node -> SUBSET Capability]
Availability == [Node -> Status \cup {NoStatus}]
Versions     == [Node -> Nat]
NoFacts      == [caps |-> [n \in Node |-> {}], avail |-> [n \in Node |-> NoStatus]]

ASSUME BoundsAssumption ==
    /\ Window \in Nat \ {0}
    /\ MaxVersion \in Nat
    /\ MaxSent \in Nat
    /\ MaxTrustChanges \in Nat
    /\ MaxRestarts \in Nat

ASSUME ValueAssumption ==
    /\ NoStatus \notin Status
    /\ NoKey \notin Key
    /\ Update \in [Node -> SUBSET [caps : Capabilities, avail : Availability]]
    /\ Trusting \subseteq Node \X Node

\* What the network may do to the copy of an envelope it delivers: nothing,
\* show another protocol version, or break the signature, which is over the
\* canonical bytes of everything else (sync/serializer.py).
Fault == {"none", "protocol", "signature"}

TrustStatus == {"unknown", "trusted", "revoked"}

Envelope == [id : Nat, sender : Node, key : Key, versions : Versions,
             caps : Capabilities, avail : Availability]

VARIABLES
    versions,   \* _version_map of every node
    caps,       \* _synced_capabilities
    avail,      \* _synced_availability
    processed,  \* _processed_message_ids
    key,        \* the public key of the node's KeyPair
    trust,      \* the trust record each node keeps of each node
    network,    \* every envelope created so far
    sent,       \* their number; the next envelope gets id sent + 1
    published,  \* history: the capability facts edited in, with their stamps
    granted,    \* history: the pairs <<i, j>> for which i ever trusted j
    seen,       \* history: the envelopes processed since the last restart
    changes,    \* counts grants and revocations, for MaxTrustChanges
    restarts    \* counts restarts, for MaxRestarts

replicaVars == <<versions, caps, avail, processed, seen>>
trustVars   == <<trust, granted, changes>>
vars == <<versions, caps, avail, processed, key, trust, network, sent,
          published, granted, seen, changes, restarts>>

-----------------------------------------------------------------------------
(* Mistakes the properties below tell apart from the code; each is the     *)
(* mutated form of the definition whose name it starts with.               *)

\* A vector ahead at one node counts as ahead, concurrency is not noticed.
CompareAnyGreater(local, remote) ==
    IF \E n \in Node : local[n] > remote[n] THEN "ahead"
    ELSE IF local = remote THEN "equal" ELSE "behind"

\* The incoming vector replaces the local one.
MergeVersionsReplace(v, w) == w

\* The dict is assigned instead of updated.
MergeAvailAssign(mine, theirs) ==
    [n \in {o \in Node : theirs[o] # NoStatus} |-> theirs[n]]

\* A valid signature is enough, an unknown sender is not looked at.
AuthenticateKnownKey(i, m, fault) ==
    IF fault = "none" /\ trust[i][m.sender].status # "revoked"
    THEN "applied" ELSE "rejected_invalid_signature"

-----------------------------------------------------------------------------
(* Version vectors: sync/versions.py.                                      *)

HasGreater(v, w) == \E n \in Node : v[n] > w[n]

\* compare_versions(local, remote)
Compare(local, remote) ==
    IF HasGreater(remote, local)
    THEN IF HasGreater(local, remote) THEN "concurrent" ELSE "behind"
    ELSE IF HasGreater(local, remote) THEN "ahead" ELSE "equal"

\* merge_version_maps(v1, v2)
MergeVersions(v, w) == [n \in Node |-> IF v[n] >= w[n] THEN v[n] ELSE w[n]]

\* The capability union and the availability overwrite shared by
\* update_local_facts and process_incoming_envelope.
MergeCaps(mine, theirs)  == [n \in Node |-> mine[n] \cup theirs[n]]
MergeAvail(mine, theirs) ==
    [n \in Node |-> IF theirs[n] = NoStatus THEN mine[n] ELSE theirs[n]]

\* deque(maxlen = Window).append
Remember(queue, id) ==
    LET longer == Append(queue, id)
    IN  IF Len(longer) > Window THEN Tail(longer) ELSE longer

Remembers(queue, id) == \E k \in 1 .. Len(queue) : queue[k] = id

-----------------------------------------------------------------------------
(* SyncAuthenticator.authenticate_incoming: the outcome for node i of the  *)
(* copy of envelope m that the network delivered with the given fault.     *)

Authenticate(i, m, fault) ==
    LET record == trust[i][m.sender]
    IN  IF fault = "protocol" THEN "rejected_protocol_mismatch"
        ELSE IF record.status = "revoked" THEN "rejected_revoked"
        ELSE IF record.status # "trusted" THEN "rejected_untrusted"
        ELSE IF record.key \notin {NoKey, m.key} THEN "rejected_invalid_signature"
        ELSE IF fault = "signature" THEN "rejected_invalid_signature"
        ELSE "applied"

Init ==
    /\ key \in [Node -> Key]
    /\ trust = [i \in Node |-> [j \in Node |->
                  IF <<i, j>> \in Trusting
                  THEN [status |-> "trusted", key |-> key[j]]
                  ELSE [status |-> "unknown", key |-> NoKey]]]
    /\ versions = [i \in Node |-> [j \in Node |-> 0]]
    /\ caps = [i \in Node |-> NoFacts.caps]
    /\ avail = [i \in Node |-> NoFacts.avail]
    /\ processed = [i \in Node |-> <<>>]
    /\ network = {}
    /\ sent = 0
    /\ published = {}
    /\ granted = Trusting
    /\ seen = [i \in Node |-> {}]
    /\ changes = 0
    /\ restarts = 0

-----------------------------------------------------------------------------
(* SyncService operations of node i.                                       *)

\* The capability facts of edit u of node i, stamped (history only).
FactsOf(i, stamp, u) ==
    {f \in [origin : {i}, version : {stamp}, subject : Node, cap : Capability] :
        f.cap \in u.caps[f.subject]}

\* update_local_facts; with no facts it is increment_local_version.
UpdateLocalFacts(i, u) ==
    LET stamp == versions[i][i] + 1
    IN  /\ stamp <= MaxVersion
        /\ caps' = [caps EXCEPT ![i] = MergeCaps(@, u.caps)]
        /\ avail' = [avail EXCEPT ![i] = MergeAvail(@, u.avail)]
        /\ versions' = [versions EXCEPT ![i][i] = stamp]
        /\ published' = published \cup FactsOf(i, stamp, u)
        /\ UNCHANGED <<processed, seen, key, network, sent, restarts, trustVars>>

\* create_sync_envelope: the whole state, signed, with a fresh message id.
CreateSyncEnvelope(i) ==
    /\ sent < MaxSent
    /\ sent' = sent + 1
    /\ network' = network \cup
         {[id |-> sent + 1, sender |-> i, key |-> key[i], versions |-> versions[i],
           caps |-> caps[i], avail |-> avail[i]]}
    /\ UNCHANGED <<replicaVars, key, published, restarts, trustVars>>

\* process_incoming_envelope, the copies it ignores: the node's own, one that
\* fails authentication, one whose id it still remembers.
Ignored(i, m, fault) ==
    \/ m.sender = i
    \/ Authenticate(i, m, fault) # "applied"
    \/ Remembers(processed[i], m.id)

IgnoreEnvelope(i, m, fault) ==
    /\ Ignored(i, m, fault)
    /\ UNCHANGED vars

\* ... the ones it already covers: only the id is recorded ...
AlreadyCurrent(i, m, fault) ==
    /\ ~Ignored(i, m, fault)
    /\ Compare(versions[i], m.versions) \in {"equal", "ahead"}
    /\ processed' = [processed EXCEPT ![i] = Remember(@, m.id)]
    /\ seen' = [seen EXCEPT ![i] = @ \cup {m}]
    /\ UNCHANGED <<versions, caps, avail, key, network, sent, published, restarts,
                   trustVars>>

\* ... and the ones it merges (outcome APPLIED or CONFLICT).
ApplyEnvelope(i, m, fault) ==
    /\ ~Ignored(i, m, fault)
    /\ Compare(versions[i], m.versions) \in {"behind", "concurrent"}
    /\ caps' = [caps EXCEPT ![i] = MergeCaps(@, m.caps)]
    /\ avail' = [avail EXCEPT ![i] = MergeAvail(@, m.avail)]
    /\ versions' = [versions EXCEPT ![i] = MergeVersions(@, m.versions)]
    /\ processed' = [processed EXCEPT ![i] = Remember(@, m.id)]
    /\ seen' = [seen EXCEPT ![i] = @ \cup {m}]
    /\ UNCHANGED <<key, network, sent, published, restarts, trustVars>>

ProcessIncomingEnvelope(i, m, fault) ==
    \/ IgnoreEnvelope(i, m, fault)
    \/ AlreadyCurrent(i, m, fault)
    \/ ApplyEnvelope(i, m, fault)

(* TrustService operations of node i.                                      *)

\* grant_trust(j, public_key = k): without a key the pinned one is kept.
GrantTrust(i, j, k) ==
    /\ changes < MaxTrustChanges
    /\ changes' = changes + 1
    /\ trust' = [trust EXCEPT ![i][j] =
                   [status |-> "trusted", key |-> IF k = NoKey THEN @.key ELSE k]]
    /\ granted' = granted \cup {<<i, j>>}
    /\ UNCHANGED <<replicaVars, key, network, sent, published, restarts>>

\* revoke_trust(j)
RevokeTrust(i, j) ==
    /\ changes < MaxTrustChanges
    /\ changes' = changes + 1
    /\ trust' = [trust EXCEPT ![i][j] = [status |-> "revoked", key |-> @.key]]
    /\ UNCHANGED <<replicaVars, key, network, sent, published, restarts, granted>>

\* The process ends and the runtime builds a new SyncService: nothing of the
\* replica is persisted and its own version starts at 0 again; the trust store
\* is on disk. load_or_create_keypair may have had to generate another key.
Restart(i, k) ==
    /\ restarts < MaxRestarts
    /\ restarts' = restarts + 1
    /\ versions' = [versions EXCEPT ![i] = [n \in Node |-> 0]]
    /\ caps' = [caps EXCEPT ![i] = NoFacts.caps]
    /\ avail' = [avail EXCEPT ![i] = NoFacts.avail]
    /\ processed' = [processed EXCEPT ![i] = <<>>]
    /\ seen' = [seen EXCEPT ![i] = {}]
    /\ key' = [key EXCEPT ![i] = k]
    /\ UNCHANGED <<network, sent, published, trustVars>>

-----------------------------------------------------------------------------

SyncStep(i) ==
    \/ \E u \in Update[i] : UpdateLocalFacts(i, u)
    \/ CreateSyncEnvelope(i)
    \/ \E m \in network, fault \in Fault : ProcessIncomingEnvelope(i, m, fault)

TrustStep(i) ==
    \E j \in Node :
        \/ \E k \in Key \cup {NoKey} : GrantTrust(i, j, k)
        \/ RevokeTrust(i, j)

\* While no process restarts ...
RunningNext == \E i \in Node : SyncStep(i) \/ TrustStep(i)
RunningSpec == Init /\ [][RunningNext]_vars

\* ... and with restarts.
Next == RunningNext \/ \E i \in Node, k \in Key : Restart(i, k)
Spec == Init /\ [][Next]_vars

-----------------------------------------------------------------------------
(* Properties.                                                             *)

TypeOK ==
    /\ versions \in [Node -> Versions]
    /\ caps \in [Node -> Capabilities]
    /\ avail \in [Node -> Availability]
    /\ processed \in [Node -> Seq(Nat)]
    /\ key \in [Node -> Key]
    /\ trust \in [Node -> [Node -> [status : TrustStatus, key : Key \cup {NoKey}]]]
    /\ network \subseteq Envelope
    /\ sent \in Nat
    /\ published \subseteq [origin : Node, version : Nat, subject : Node, cap : Capability]
    /\ granted \subseteq Node \X Node
    /\ seen \in [Node -> SUBSET network]
    /\ changes \in Nat
    /\ restarts \in Nat

\* One of the facts says that s has c, under a stamp v covers.
KnownBy(facts, v, s, c) ==
    \E f \in facts : f.subject = s /\ f.cap = c /\ f.version <= v[f.origin]

\* A vector v stands for the facts stamped no later than v says: the
\* capability sets cs hold exactly those.
HoldsExactly(v, cs) ==
    \A s \in Node, c \in Capability :
        c \in cs[s] <=> KnownBy(published, v, s, c)

\* No vector, kept or travelling, is ahead of a node's own counter: a node
\* never claims a version its owner has not reached (models.py:41 "I've seen
\* node X through version N").
OwnVersionLeads ==
    \A j \in Node :
        /\ \A i \in Node : versions[i][j] <= versions[j][j]
        /\ \A m \in network : m.versions[j] <= versions[j][j]

\* The capability union and the component-wise maximum stay in step: what a
\* replica or an envelope holds is exactly what its vector says, so that a
\* comparison of vectors may decide to skip a merge (service.py 190-200).
VersionsCoverFacts ==
    /\ \A i \in Node : HoldsExactly(versions[i], caps[i])
    /\ \A m \in network : HoldsExactly(m.versions, m.caps)

\* Strong convergence of capabilities (service.py:136): two replicas with the
\* same vector know the same capabilities, however they got there.
EqualVersionsEqualCapabilities ==
    \A i, j \in Node : versions[i] = versions[j] => caps[i] = caps[j]

\* versions.py:18 "AHEAD: Local has all remote facts plus more": an envelope
\* dismissed as already current carries no capability the replica lacks.
AheadHasAllFacts ==
    \A i \in Node, m \in network :
        Compare(versions[i], m.versions) \in {"equal", "ahead"}
            => \A n \in Node : m.caps[n] \subseteq caps[i][n]

\* The comparison of two vectors may stand for the comparison of what the
\* replicas know (service.py 190-200): equal vectors, equal capabilities; ahead,
\* nothing to learn.
DismissalsAreSafe == EqualVersionsEqualCapabilities /\ AheadHasAllFacts

\* Vectors stand for facts: they cover exactly what is held, and may therefore
\* be compared in its place (service.py 186-234).
VectorsStandForFacts == VersionsCoverFacts /\ DismissalsAreSafe

\* Versions v and capabilities cs stem from nodes of S only.
StemsFrom(S, v, cs) ==
    /\ \A j \in Node \ S : v[j] = 0
    /\ \A s \in Node : \A c \in cs[s] :
           \E f \in published : f.origin \in S /\ f.subject = s /\ f.cap = c

\* No node of S ever trusted a node outside S.
Closed(S) == granted \cap (S \X (Node \ S)) = {}

\* Trust is a boundary for facts, relays included: when no node of S ever
\* trusted a node outside S, nothing that originates outside S is known in S
\* (service.py:132), neither as a version nor as a capability.
Quarantine ==
    \A S \in SUBSET Node :
        Closed(S) => \A i \in S : StemsFrom(S, versions[i], caps[i])

\* service.py:133 "Duplicate delivery is idempotent": an envelope processed
\* since the restart changes nothing when it comes again, also when its id has
\* already left the bounded deque of remembered ids.
ReplayIdempotent ==
    [][\A i \in Node : \A m \in seen[i], fault \in Fault :
          ProcessIncomingEnvelope(i, m, fault) => UNCHANGED <<versions, caps, avail>>]_vars

\* Without a restart a replica never forgets: versions and capabilities only
\* grow, whatever arrives in whatever order (service.py:135).
NeverForgets ==
    [][\A i, j \in Node :
          /\ versions[i][j] <= versions'[i][j]
          /\ caps[i][j] \subseteq caps'[i][j]]_vars

\* service.py:135 "Vector clock evaluation prevents state regressions": an
\* envelope made before the receiver's latest own edit does not replace what
\* the receiver says about itself. (In the run nobody else reports on that node,
\* so what replaces its status is its own earlier report, come back.)
OwnStatusKept ==
    [][\A i \in Node, m \in network, fault \in Fault :
          (/\ m.versions[i] < versions[i][i]
           /\ avail[i][i] # NoStatus
           /\ ProcessIncomingEnvelope(i, m, fault))
              => avail'[i][i] = avail[i][i]]_vars

=============================================================================
