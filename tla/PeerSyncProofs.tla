--------------------------- MODULE PeerSyncProofs ---------------------------
(***************************************************************************)
(* What PeerSync guarantees for every set of nodes, capabilities, keys and *)
(* edits and every bound: type correctness, the agreement of vectors and   *)
(* capabilities (VersionsCoverFacts) with its two consequences, that a     *)
(* replica never forgets, that a repeated envelope changes nothing, and    *)
(* that trust bounds the spread of facts (Quarantine).                     *)
(***************************************************************************)
EXTENDS PeerSync, TLAPS

USE BoundsAssumption, ValueAssumption

-----------------------------------------------------------------------------
(* Operators.                                                              *)

\* The bounded deque of ids stays a sequence of ids (service.py:57).
LEMMA RememberType ==
    ASSUME NEW q \in Seq(Nat), NEW id \in Nat
    PROVE  Remember(q, id) \in Seq(Nat)
<1>1. Append(q, id) \in Seq(Nat) /\ Len(Append(q, id)) = Len(q) + 1
  OBVIOUS
<1>2. Tail(Append(q, id)) \in Seq(Nat)
  BY <1>1
<1> QED
  BY <1>1, <1>2 DEF Remember

\* merge_version_maps is the least upper bound of two vectors (versions.py 58-65).
LEMMA MergeIsSupremum ==
    ASSUME NEW v \in Versions, NEW w \in Versions
    PROVE  /\ MergeVersions(v, w) \in Versions
           /\ \A n \in Node, k \in Nat :
                 k <= MergeVersions(v, w)[n] <=> (k <= v[n] \/ k <= w[n])
           /\ \A n \in Node : MergeVersions(v, w)[n] \in {v[n], w[n]}
           /\ \A n \in Node : v[n] <= MergeVersions(v, w)[n] /\ w[n] <= MergeVersions(v, w)[n]
BY DEF MergeVersions, Versions

\* compare_versions answers "equal" or "ahead" exactly when the remote vector
\* is nowhere greater (versions.py 40-55).
LEMMA CurrentIsDominating ==
    ASSUME NEW v \in Versions, NEW w \in Versions
    PROVE  Compare(v, w) \in {"equal", "ahead"} <=> \A n \in Node : w[n] <= v[n]
BY DEF Compare, HasGreater, Versions

-----------------------------------------------------------------------------
(* Type correctness.                                                       *)

LEMMA TypeInit == Init => TypeOK
<1> SUFFICES ASSUME Init PROVE TypeOK
  OBVIOUS
<1>1. versions \in [Node -> Versions] /\ caps \in [Node -> Capabilities]
  BY DEF Init, Versions, NoFacts, Capabilities
<1>2. avail \in [Node -> Availability] /\ processed \in [Node -> Seq(Nat)]
  BY DEF Init, NoFacts, Availability
<1>3. trust \in [Node -> [Node -> [status : TrustStatus, key : Key \cup {NoKey}]]]
  BY DEF Init, TrustStatus
<1> QED
  BY <1>1, <1>2, <1>3 DEF Init, TypeOK

LEMMA TypeStep == TypeOK /\ [Next]_vars => TypeOK'
<1> SUFFICES ASSUME TypeOK, [Next]_vars PROVE TypeOK'
  OBVIOUS
<1> USE DEF TypeOK
<1>1. ASSUME NEW i \in Node, NEW u \in Update[i], UpdateLocalFacts(i, u)
      PROVE  TypeOK'
  <2>1. u.caps \in Capabilities /\ u.avail \in Availability
    BY <1>1
  <2>2. versions[i][i] + 1 \in Nat
    BY DEF Versions
  <2>3. versions' \in [Node -> Versions]
    BY <1>1, <2>2 DEF UpdateLocalFacts, Versions
  <2>4. caps' \in [Node -> Capabilities]
    BY <1>1, <2>1 DEF UpdateLocalFacts, Capabilities, MergeCaps
  <2>5. avail' \in [Node -> Availability]
    BY <1>1, <2>1 DEF UpdateLocalFacts, Availability, MergeAvail
  <2>6. published' \subseteq [origin : Node, version : Nat, subject : Node, cap : Capability]
    BY <1>1, <2>2 DEF UpdateLocalFacts, FactsOf
  <2> QED
    BY <1>1, <2>3, <2>4, <2>5, <2>6 DEF UpdateLocalFacts, trustVars
<1>2. ASSUME NEW i \in Node, CreateSyncEnvelope(i)
      PROVE  TypeOK'
  <2> DEFINE e == [id |-> sent + 1, sender |-> i, key |-> key[i],
                   versions |-> versions[i], caps |-> caps[i], avail |-> avail[i]]
  <2>1. e \in Envelope
    BY DEF Envelope
  <2>2. network' = network \cup {e} /\ sent' \in Nat
    BY <1>2 DEF CreateSyncEnvelope
  <2> QED
    BY <1>2, <2>1, <2>2 DEF CreateSyncEnvelope, replicaVars, trustVars
<1>3. ASSUME NEW i \in Node, NEW m \in network, NEW fault \in Fault,
             ProcessIncomingEnvelope(i, m, fault)
      PROVE  TypeOK'
  <2> USE DEF Envelope
  <2>1. Remember(processed[i], m.id) \in Seq(Nat)
    BY RememberType
  <2>2. CASE IgnoreEnvelope(i, m, fault)
    BY <2>2 DEF IgnoreEnvelope, vars
  <2>3. CASE AlreadyCurrent(i, m, fault)
    BY <2>1, <2>3 DEF AlreadyCurrent, trustVars
  <2>4. CASE ApplyEnvelope(i, m, fault)
    <3>1. versions' \in [Node -> Versions]
      BY <2>4, MergeIsSupremum DEF ApplyEnvelope
    <3>2. caps' \in [Node -> Capabilities]
      BY <2>4 DEF ApplyEnvelope, Capabilities, MergeCaps
    <3>3. avail' \in [Node -> Availability]
      BY <2>4 DEF ApplyEnvelope, Availability, MergeAvail
    <3> QED
      BY <2>1, <2>4, <3>1, <3>2, <3>3 DEF ApplyEnvelope, trustVars
  <2> QED
    BY <1>3, <2>2, <2>3, <2>4 DEF ProcessIncomingEnvelope
<1>4. ASSUME NEW i \in Node, TrustStep(i)
      PROVE  TypeOK'
  <2>1. ASSUME NEW j \in Node, NEW k \in Key \cup {NoKey}, GrantTrust(i, j, k)
        PROVE  TypeOK'
    BY <2>1 DEF GrantTrust, replicaVars, TrustStatus
  <2>2. ASSUME NEW j \in Node, RevokeTrust(i, j)
        PROVE  TypeOK'
    BY <2>2 DEF RevokeTrust, replicaVars, TrustStatus
  <2> QED
    BY <1>4, <2>1, <2>2 DEF TrustStep
<1>5. ASSUME NEW i \in Node, NEW k \in Key, Restart(i, k)
      PROVE  TypeOK'
  <2>1. [n \in Node |-> 0] \in Versions
    BY DEF Versions
  <2>2. NoFacts.caps \in Capabilities /\ NoFacts.avail \in Availability
    BY DEF NoFacts, Capabilities, Availability
  <2> QED
    BY <1>5, <2>1, <2>2 DEF Restart, trustVars
<1>6. CASE UNCHANGED vars
  BY <1>6 DEF vars
<1> QED
  BY <1>1, <1>2, <1>3, <1>4, <1>5, <1>6 DEF Next, RunningNext, SyncStep

\* Every reachable state is well typed, restarts included.
THEOREM TypeCorrect == Spec => []TypeOK
BY TypeInit, TypeStep, PTL DEF Spec

-----------------------------------------------------------------------------
(* Vectors and capabilities agree while no process restarts.               *)

\* No fact carries a stamp its origin has not reached, so the next edit's
\* stamp is new.
StampsReached ==
    \A f \in published : f.version <= versions[f.origin][f.origin]

\* The inductive invariant: VersionsCoverFacts alone is not inductive, because
\* an edit could add a fact under a stamp that some vector already covers.
CoverInv == TypeOK /\ OwnVersionLeads /\ StampsReached /\ VersionsCoverFacts

LEMMA CoverInit == Init => CoverInv
<1> SUFFICES ASSUME Init PROVE CoverInv
  OBVIOUS
<1>1. TypeOK
  BY TypeInit
<1>2. OwnVersionLeads
  BY DEF Init, OwnVersionLeads
<1>3. StampsReached
  BY DEF Init, StampsReached
<1>4. VersionsCoverFacts
  BY DEF Init, VersionsCoverFacts, HoldsExactly, KnownBy, NoFacts
<1> QED
  BY <1>1, <1>2, <1>3, <1>4 DEF CoverInv

\* Facts stamped later than a vector covers do not change what it stands for.
LEMMA LaterFactsUnknown ==
    ASSUME NEW facts, NEW more, NEW v, NEW s, NEW c,
           \A f \in more : ~(f.version <= v[f.origin])
    PROVE  KnownBy(facts \cup more, v, s, c) <=> KnownBy(facts, v, s, c)
BY DEF KnownBy

\* An edit of node i (service.py 81-95).
LEMMA CoverUpdate ==
    ASSUME CoverInv, NEW i \in Node, NEW u \in Update[i], UpdateLocalFacts(i, u), TypeOK'
    PROVE  CoverInv'
<1> DEFINE stamp == versions[i][i] + 1
           new == FactsOf(i, stamp, u)
<1>0. TypeOK /\ OwnVersionLeads /\ StampsReached /\ VersionsCoverFacts
  BY DEF CoverInv
<1>1. /\ stamp \in Nat
      /\ \A n \in Node : versions[n] \in Versions
      /\ \A n, j \in Node : versions'[n][j] = IF n = i /\ j = i THEN stamp ELSE versions[n][j]
      /\ \A n \in Node : n # i => versions'[n] = versions[n] /\ caps'[n] = caps[n]
      /\ caps'[i] = MergeCaps(caps[i], u.caps)
      /\ published' = published \cup new
      /\ network' = network
  BY <1>0 DEF UpdateLocalFacts, TypeOK, Versions
<1>2. \A m \in network : m.versions \in Versions
  BY <1>0 DEF TypeOK, Envelope
<1>3. OwnVersionLeads'
  BY <1>0, <1>1, <1>2 DEF OwnVersionLeads, Versions
<1>4. \A f \in new : /\ f.origin = i /\ f.version = stamp
                     /\ f.subject \in Node /\ f.cap \in u.caps[f.subject]
  BY DEF FactsOf
<1>5. \A f \in published : f.origin \in Node /\ f.version \in Nat
  BY <1>0 DEF TypeOK
<1>6. StampsReached'
  <2> SUFFICES ASSUME NEW f \in published' PROVE f.version <= versions'[f.origin][f.origin]
    BY DEF StampsReached
  <2>1. CASE f \in published
    BY <2>1, <1>0, <1>1, <1>5 DEF StampsReached, Versions
  <2>2. CASE f \in new
    BY <2>2, <1>1, <1>4
  <2> QED
    BY <1>1, <2>1, <2>2
<1>7. ASSUME NEW v \in Versions, NEW s, NEW c, v[i] <= versions[i][i]
      PROVE  KnownBy(published', v, s, c) <=> KnownBy(published, v, s, c)
  <2>1. \A f \in new : ~(f.version <= v[f.origin])
    BY <1>1, <1>4, <1>7 DEF Versions
  <2> QED
    BY <1>1, <2>1, LaterFactsUnknown
<1>8. ASSUME NEW n \in Node PROVE HoldsExactly(versions[n], caps[n])'
  <2>0. HoldsExactly(versions[n], caps[n])
    BY <1>0 DEF VersionsCoverFacts
  <2> SUFFICES ASSUME NEW s \in Node, NEW c \in Capability
               PROVE  c \in caps'[n][s] <=> KnownBy(published', versions'[n], s, c)
    BY DEF HoldsExactly
  <2>1. CASE n # i
    <3>1. versions[n][i] <= versions[i][i]
      BY <1>0 DEF OwnVersionLeads
    <3> QED
      BY <1>1, <1>7, <2>0, <2>1, <3>1 DEF HoldsExactly
  <2>2. CASE n = i
    <3>1. c \in caps'[i][s] <=> c \in caps[i][s] \/ c \in u.caps[s]
      BY <1>1 DEF MergeCaps
    <3>2. c \in caps[i][s] <=> KnownBy(published, versions'[i], s, c)
      <4>1. \A f \in published : f.version <= versions'[i][f.origin]
                                   <=> f.version <= versions[i][f.origin]
        BY <1>0, <1>1, <1>5 DEF StampsReached, Versions
      <4> QED
        BY <2>0, <2>2, <4>1 DEF HoldsExactly, KnownBy
    <3>3. c \in u.caps[s] <=> KnownBy(new, versions'[i], s, c)
      <4>1. ASSUME c \in u.caps[s] PROVE KnownBy(new, versions'[i], s, c)
        <5> DEFINE g == [origin |-> i, version |-> stamp, subject |-> s, cap |-> c]
        <5>1. g \in new
          BY <4>1 DEF FactsOf
        <5>2. g.version <= versions'[i][g.origin]
          BY <1>1
        <5> QED
          BY <5>1, <5>2 DEF KnownBy
      <4> QED
        BY <1>4, <4>1 DEF KnownBy
    <3>4. KnownBy(published', versions'[i], s, c)
            <=> KnownBy(published, versions'[i], s, c) \/ KnownBy(new, versions'[i], s, c)
      BY <1>1 DEF KnownBy
    <3> QED
      BY <2>2, <3>1, <3>2, <3>3, <3>4
  <2> QED
    BY <2>1, <2>2
<1>9. ASSUME NEW m \in network PROVE HoldsExactly(m.versions, m.caps)'
  <2>1. m.versions \in Versions /\ m.versions[i] <= versions[i][i]
    BY <1>0, <1>2 DEF OwnVersionLeads
  <2>2. HoldsExactly(m.versions, m.caps)
    BY <1>0 DEF VersionsCoverFacts
  <2> QED
    BY <1>7, <2>1, <2>2 DEF HoldsExactly
<1>10. VersionsCoverFacts'
  BY <1>1, <1>8, <1>9 DEF VersionsCoverFacts
<1> QED
  BY <1>3, <1>6, <1>10 DEF CoverInv

\* A merge of envelope m into node i (service.py 202-211).
LEMMA CoverApply ==
    ASSUME CoverInv, NEW i \in Node, NEW m \in network, NEW fault \in Fault,
           ApplyEnvelope(i, m, fault), TypeOK'
    PROVE  CoverInv'
<1>0. TypeOK /\ OwnVersionLeads /\ StampsReached /\ VersionsCoverFacts
  BY DEF CoverInv
<1>1. /\ m.versions \in Versions
      /\ \A n \in Node : versions[n] \in Versions
      /\ \A e \in network : e.versions \in Versions
      /\ versions' = [versions EXCEPT ![i] = MergeVersions(@, m.versions)]
      /\ caps' = [caps EXCEPT ![i] = MergeCaps(@, m.caps)]
      /\ published' = published
      /\ network' = network
  BY <1>0 DEF ApplyEnvelope, TypeOK, Envelope
<1>2. /\ versions'[i] = MergeVersions(versions[i], m.versions)
      /\ caps'[i] = MergeCaps(caps[i], m.caps)
      /\ \A n \in Node : n # i => versions'[n] = versions[n] /\ caps'[n] = caps[n]
  BY <1>0, <1>1 DEF TypeOK
<1>3. \A n \in Node : versions'[n][n] = versions[n][n]
  <2>1. m.versions[i] <= versions[i][i] /\ versions[i][i] \in Nat /\ m.versions[i] \in Nat
    BY <1>0, <1>1 DEF OwnVersionLeads, Versions
  <2>2. versions'[i][i] = versions[i][i]
    BY <1>2, <2>1 DEF MergeVersions
  <2> QED
    BY <1>2, <2>2
<1>4. OwnVersionLeads'
  <2>1. \A n, j \in Node : versions'[n][j] <= versions[j][j]
    BY <1>0, <1>1, <1>2, MergeIsSupremum DEF OwnVersionLeads
  <2> QED
    BY <1>0, <1>1, <1>3, <2>1 DEF OwnVersionLeads
<1>5. StampsReached'
  BY <1>0, <1>1, <1>3 DEF StampsReached, TypeOK
<1>6. HoldsExactly(versions[i], caps[i])'
  <2>1. /\ HoldsExactly(versions[i], caps[i])
        /\ HoldsExactly(m.versions, m.caps)
    BY <1>0 DEF VersionsCoverFacts
  <2> SUFFICES ASSUME NEW s \in Node, NEW c \in Capability
               PROVE  c \in caps'[i][s] <=> KnownBy(published, versions'[i], s, c)
    BY <1>1 DEF HoldsExactly
  <2>2. c \in caps'[i][s] <=> c \in caps[i][s] \/ c \in m.caps[s]
    BY <1>2 DEF MergeCaps
  <2>3. \A f \in published : f.version <= versions'[i][f.origin]
          <=> f.version <= versions[i][f.origin] \/ f.version <= m.versions[f.origin]
    BY <1>0, <1>1, <1>2, MergeIsSupremum DEF TypeOK
  <2>4. KnownBy(published, versions'[i], s, c)
          <=> KnownBy(published, versions[i], s, c) \/ KnownBy(published, m.versions, s, c)
    BY <2>3 DEF KnownBy
  <2> QED
    BY <2>1, <2>2, <2>4 DEF HoldsExactly
<1>7. ASSUME NEW n \in Node, n # i PROVE HoldsExactly(versions[n], caps[n])'
  BY <1>0, <1>1, <1>2, <1>7 DEF VersionsCoverFacts, HoldsExactly
<1>8. \A e \in network' : HoldsExactly(e.versions, e.caps)'
  BY <1>0, <1>1 DEF VersionsCoverFacts, HoldsExactly
<1>9. VersionsCoverFacts'
  BY <1>6, <1>7, <1>8 DEF VersionsCoverFacts
<1> QED
  BY <1>4, <1>5, <1>9 DEF CoverInv

\* A new envelope copies the sender's vector and capabilities (service.py 102-126).
LEMMA CoverCreate ==
    ASSUME CoverInv, NEW i \in Node, CreateSyncEnvelope(i), TypeOK'
    PROVE  CoverInv'
<1>0. TypeOK /\ OwnVersionLeads /\ StampsReached /\ VersionsCoverFacts
  BY DEF CoverInv
<1>1. versions' = versions /\ caps' = caps /\ published' = published
  BY DEF CreateSyncEnvelope, replicaVars
<1>2. \A m \in network' : m \in network \/ (m.versions = versions[i] /\ m.caps = caps[i])
  BY DEF CreateSyncEnvelope
<1>3. OwnVersionLeads'
  BY <1>0, <1>1, <1>2 DEF OwnVersionLeads
<1>4. StampsReached'
  BY <1>0, <1>1 DEF StampsReached
<1>5. VersionsCoverFacts'
  BY <1>0, <1>1, <1>2 DEF VersionsCoverFacts, HoldsExactly
<1> QED
  BY <1>3, <1>4, <1>5 DEF CoverInv

\* Steps that touch neither vectors, capabilities, envelopes nor facts.
LEMMA CoverOther ==
    ASSUME CoverInv, TypeOK', UNCHANGED <<versions, caps, network, published>>
    PROVE  CoverInv'
BY DEF CoverInv, OwnVersionLeads, StampsReached, VersionsCoverFacts, HoldsExactly

LEMMA CoverStep == CoverInv /\ [RunningNext]_vars => CoverInv'
<1> SUFFICES ASSUME CoverInv, [RunningNext]_vars PROVE CoverInv'
  OBVIOUS
<1>1. TypeOK'
  BY TypeStep DEF CoverInv, Next
<1>2. ASSUME NEW i \in Node, SyncStep(i) PROVE CoverInv'
  <2>1. ASSUME NEW u \in Update[i], UpdateLocalFacts(i, u) PROVE CoverInv'
    BY <1>1, <2>1, CoverUpdate
  <2>2. CASE CreateSyncEnvelope(i)
    BY <1>1, <2>2, CoverCreate
  <2>3. ASSUME NEW m \in network, NEW fault \in Fault, ProcessIncomingEnvelope(i, m, fault)
        PROVE  CoverInv'
    <3>1. CASE ApplyEnvelope(i, m, fault)
      BY <1>1, <3>1, CoverApply
    <3>2. CASE IgnoreEnvelope(i, m, fault) \/ AlreadyCurrent(i, m, fault)
      BY <1>1, <3>2, CoverOther DEF IgnoreEnvelope, AlreadyCurrent, vars
    <3> QED
      BY <2>3, <3>1, <3>2 DEF ProcessIncomingEnvelope
  <2> QED
    BY <1>2, <2>1, <2>2, <2>3 DEF SyncStep
<1>3. ASSUME NEW i \in Node, TrustStep(i) PROVE CoverInv'
  BY <1>1, <1>3, CoverOther DEF TrustStep, GrantTrust, RevokeTrust, replicaVars
<1>4. CASE UNCHANGED vars
  BY <1>1, <1>4, CoverOther DEF vars
<1> QED
  BY <1>2, <1>3, <1>4 DEF RunningNext

\* No vector runs ahead of its owner's counter, and the capabilities of a
\* replica or envelope are exactly those its vector stands for.
THEOREM VersionsAreExact == RunningSpec => [](OwnVersionLeads /\ VersionsCoverFacts)
<1>1. RunningSpec => []CoverInv
  BY CoverInit, CoverStep, PTL DEF RunningSpec
<1>2. CoverInv => OwnVersionLeads /\ VersionsCoverFacts
  BY DEF CoverInv
<1> QED
  BY <1>1, <1>2, PTL

\* Vectors stand for facts: replicas and envelopes hold exactly what their
\* vectors cover, equal vectors mean equal capabilities, and an envelope dismissed
\* as already current holds nothing new (service.py 186-234).
THEOREM VectorsDecide == RunningSpec => []VectorsStandForFacts
<1>1. CoverInv => EqualVersionsEqualCapabilities
  <2> SUFFICES ASSUME CoverInv, NEW i \in Node, NEW j \in Node, versions[i] = versions[j]
               PROVE  caps[i] = caps[j]
    BY DEF EqualVersionsEqualCapabilities
  <2>1. HoldsExactly(versions[i], caps[i]) /\ HoldsExactly(versions[i], caps[j])
    BY DEF CoverInv, VersionsCoverFacts
  <2>2. caps[i] \in Capabilities /\ caps[j] \in Capabilities
    BY DEF CoverInv, TypeOK
  <2>3. ASSUME NEW s \in Node PROVE caps[i][s] = caps[j][s]
    <3>1. caps[i][s] \subseteq Capability /\ caps[j][s] \subseteq Capability
      BY <2>2 DEF Capabilities
    <3> QED
      BY <2>1, <3>1 DEF HoldsExactly
  <2> QED
    BY <2>2, <2>3 DEF Capabilities
<1>2. CoverInv => AheadHasAllFacts
  <2> SUFFICES ASSUME CoverInv, NEW i \in Node, NEW m \in network,
                      Compare(versions[i], m.versions) \in {"equal", "ahead"},
                      NEW n \in Node, NEW c \in m.caps[n]
               PROVE  c \in caps[i][n]
    BY DEF AheadHasAllFacts
  <2>1. HoldsExactly(versions[i], caps[i]) /\ HoldsExactly(m.versions, m.caps)
    BY DEF CoverInv, VersionsCoverFacts
  <2>2. versions[i] \in Versions /\ m.versions \in Versions /\ c \in Capability
    BY DEF CoverInv, TypeOK, Envelope, Capabilities
  <2>3. \A o \in Node : m.versions[o] <= versions[i][o]
    BY <2>2, CurrentIsDominating
  <2>4. PICK f \in published : f.subject = n /\ f.cap = c /\ f.version <= m.versions[f.origin]
    BY <2>1, <2>2 DEF HoldsExactly, KnownBy
  <2>5. f.version \in Nat /\ f.origin \in Node
    BY DEF CoverInv, TypeOK
  <2>6. f.version <= versions[i][f.origin]
    BY <2>2, <2>3, <2>4, <2>5 DEF Versions
  <2> QED
    BY <2>1, <2>2, <2>4, <2>6 DEF HoldsExactly, KnownBy
<1>3. RunningSpec => []CoverInv
  BY CoverInit, CoverStep, PTL DEF RunningSpec
<1>4. CoverInv => VectorsStandForFacts
  BY <1>1, <1>2 DEF CoverInv, DismissalsAreSafe, VectorsStandForFacts
<1> QED
  BY <1>3, <1>4, PTL

\* Without a restart, no delivery, in any order and any number of times, makes
\* a replica forget a version or a capability.
THEOREM ReplicasNeverForget == RunningSpec => NeverForgets
<1>1. TypeOK /\ [RunningNext]_vars =>
        [\A i, j \in Node : /\ versions[i][j] <= versions'[i][j]
                            /\ caps[i][j] \subseteq caps'[i][j]]_vars
  <2> SUFFICES ASSUME TypeOK, [RunningNext]_vars, NEW n \in Node, NEW j \in Node
               PROVE  versions[n][j] <= versions'[n][j] /\ caps[n][j] \subseteq caps'[n][j]
    OBVIOUS
  <2>0. versions[n] \in Versions /\ versions[n][j] \in Nat
    BY DEF TypeOK, Versions
  <2>1. ASSUME versions' = versions, caps' = caps
        PROVE  versions[n][j] <= versions'[n][j] /\ caps[n][j] \subseteq caps'[n][j]
    BY <2>0, <2>1
  <2>2. ASSUME NEW i \in Node, NEW u \in Update[i], UpdateLocalFacts(i, u)
        PROVE  versions[n][j] <= versions'[n][j] /\ caps[n][j] \subseteq caps'[n][j]
    BY <2>0, <2>2 DEF UpdateLocalFacts, MergeCaps, TypeOK, Versions
  <2>3. ASSUME NEW i \in Node, NEW m \in network, NEW fault \in Fault,
               ApplyEnvelope(i, m, fault)
        PROVE  versions[n][j] <= versions'[n][j] /\ caps[n][j] \subseteq caps'[n][j]
    <3>1. m.versions \in Versions
      BY DEF TypeOK, Envelope
    <3>2. CASE n = i
      <4>1. versions'[n] = MergeVersions(versions[n], m.versions)
            /\ caps'[n] = MergeCaps(caps[n], m.caps)
        BY <2>3, <3>2 DEF ApplyEnvelope, TypeOK
      <4> QED
        BY <2>0, <3>1, <4>1, MergeIsSupremum DEF MergeCaps
    <3>3. CASE n # i
      BY <2>0, <2>3, <3>3 DEF ApplyEnvelope, TypeOK
    <3> QED
      BY <3>2, <3>3
  <2> QED
    BY <2>1, <2>2, <2>3 DEF RunningNext, SyncStep, TrustStep, ProcessIncomingEnvelope,
       CreateSyncEnvelope, IgnoreEnvelope, AlreadyCurrent, GrantTrust, RevokeTrust,
       replicaVars, vars
<1>2. RunningSpec => Spec
  <2>1. [RunningNext]_vars => [Next]_vars
    BY DEF Next
  <2> QED
    BY <2>1, PTL DEF RunningSpec, Spec
<1> QED
  BY <1>1, <1>2, TypeCorrect, PTL DEF RunningSpec, NeverForgets

-----------------------------------------------------------------------------
(* Repeated delivery.                                                      *)

\* A replica covers every envelope it has processed since its last restart.
SeenCovered ==
    \A i \in Node : \A m \in seen[i] : \A n \in Node : m.versions[n] <= versions[i][n]

LEMMA SeenInit == Init => SeenCovered
BY DEF Init, SeenCovered

LEMMA SeenStep == TypeOK /\ TypeOK' /\ SeenCovered /\ [Next]_vars => SeenCovered'
<1> SUFFICES ASSUME TypeOK, TypeOK', SeenCovered, [Next]_vars,
                    NEW n \in Node, NEW e \in seen'[n], NEW o \in Node
             PROVE  e.versions[o] <= versions'[n][o]
  BY DEF SeenCovered
<1>0. /\ versions[n] \in Versions
      /\ \A m \in network : m.versions \in Versions
      /\ \A m \in seen[n] : m \in network
  BY DEF TypeOK, Envelope
<1>1. CASE e \in seen[n] /\ versions'[n] = versions[n]
  BY <1>1 DEF SeenCovered
<1>2. ASSUME NEW i \in Node, NEW u \in Update[i], UpdateLocalFacts(i, u)
      PROVE  e.versions[o] <= versions'[n][o]
  <2>1. e \in seen[n] /\ e.versions \in Versions
    BY <1>0, <1>2 DEF UpdateLocalFacts
  <2>2. e.versions[o] <= versions[n][o] /\ e.versions[o] \in Nat /\ versions[n][o] \in Nat
    BY <1>0, <2>1 DEF SeenCovered, Versions
  <2> QED
    BY <1>2, <2>2 DEF UpdateLocalFacts, TypeOK
<1>3. ASSUME NEW i \in Node, NEW m \in network, NEW fault \in Fault,
             AlreadyCurrent(i, m, fault)
      PROVE  e.versions[o] <= versions'[n][o]
  <2>1. versions' = versions /\ (e \in seen[n] \/ (e = m /\ n = i))
    BY <1>3 DEF AlreadyCurrent, TypeOK
  <2>2. CASE e \in seen[n]
    BY <1>1, <2>1, <2>2
  <2>3. CASE e = m /\ n = i
    BY <1>0, <1>3, <2>1, <2>3, CurrentIsDominating DEF AlreadyCurrent
  <2> QED
    BY <2>1, <2>2, <2>3
<1>4. ASSUME NEW i \in Node, NEW m \in network, NEW fault \in Fault,
             ApplyEnvelope(i, m, fault)
      PROVE  e.versions[o] <= versions'[n][o]
  <2>1. CASE n # i
    <3>1. e \in seen[n] /\ versions'[n] = versions[n]
      BY <1>4, <2>1 DEF ApplyEnvelope, TypeOK
    <3> QED
      BY <1>1, <3>1
  <2>2. CASE n = i
    <3>1. versions'[n] = MergeVersions(versions[n], m.versions)
      BY <1>4, <2>2 DEF ApplyEnvelope, TypeOK
    <3>2. e \in seen[n] \/ e = m
      BY <1>4, <2>2 DEF ApplyEnvelope, TypeOK
    <3>3. e.versions[o] \in Nat /\ (e.versions[o] <= versions[n][o] \/ e = m)
      BY <1>0, <3>2 DEF SeenCovered, Versions
    <3> QED
      BY <1>0, <3>1, <3>3, MergeIsSupremum
  <2> QED
    BY <2>1, <2>2
<1>5. ASSUME NEW i \in Node, NEW k \in Key, Restart(i, k)
      PROVE  e.versions[o] <= versions'[n][o]
  <2>1. e \in seen[n] /\ versions'[n] = versions[n]
    BY <1>5 DEF Restart, TypeOK
  <2> QED
    BY <1>1, <2>1
<1>6. CASE UNCHANGED <<versions, seen>>
  BY <1>1, <1>6
<1> QED
  BY <1>2, <1>3, <1>4, <1>5, <1>6 DEF Next, RunningNext, SyncStep, TrustStep,
     ProcessIncomingEnvelope, CreateSyncEnvelope, IgnoreEnvelope, GrantTrust,
     RevokeTrust, replicaVars, vars

\* Delivering an envelope again changes no fact, whether or not the bounded
\* deque still remembers its id, and also after trust changed in between.
THEOREM ReplaysChangeNothing == Spec => ReplayIdempotent
<1>1. Spec => [](TypeOK /\ SeenCovered)
  <2>1. TypeOK /\ SeenCovered /\ [Next]_vars => TypeOK' /\ SeenCovered'
    BY TypeStep, SeenStep
  <2> QED
    BY TypeInit, SeenInit, <2>1, PTL DEF Spec
<1>2. TypeOK /\ SeenCovered =>
        [\A i \in Node : \A m \in seen[i], fault \in Fault :
           ProcessIncomingEnvelope(i, m, fault) => UNCHANGED <<versions, caps, avail>>]_vars
  <2> SUFFICES ASSUME TypeOK, SeenCovered, NEW i \in Node, NEW m \in seen[i],
                      NEW fault \in Fault, ProcessIncomingEnvelope(i, m, fault)
               PROVE  UNCHANGED <<versions, caps, avail>>
    OBVIOUS
  <2>1. m.versions \in Versions /\ versions[i] \in Versions
    BY DEF TypeOK, Envelope
  <2>2. Compare(versions[i], m.versions) \in {"equal", "ahead"}
    BY <2>1, CurrentIsDominating DEF SeenCovered
  <2>3. ~ApplyEnvelope(i, m, fault)
    BY <2>2 DEF ApplyEnvelope
  <2> QED
    BY <2>3 DEF ProcessIncomingEnvelope, IgnoreEnvelope, AlreadyCurrent, vars
<1> QED
  BY <1>1, <1>2, PTL DEF ReplayIdempotent

-----------------------------------------------------------------------------
(* Trust bounds the spread of facts.                                       *)

\* The envelopes of a closed set of nodes carry its own facts only, and a node
\* trusts only whom it ever granted trust.
QuarantineInv ==
    /\ Quarantine
    /\ \A S \in SUBSET Node : Closed(S) =>
          \A m \in network : m.sender \in S => StemsFrom(S, m.versions, m.caps)
    /\ \A i, j \in Node : trust[i][j].status = "trusted" => <<i, j>> \in granted

LEMMA QuarantineInit == Init => QuarantineInv
<1> SUFFICES ASSUME Init PROVE QuarantineInv
  OBVIOUS
<1>1. Quarantine
  BY DEF Init, Quarantine, StemsFrom, NoFacts
<1>2. \A i, j \in Node : trust[i][j].status = "trusted" => <<i, j>> \in granted
  BY DEF Init
<1> QED
  BY <1>1, <1>2 DEF Init, QuarantineInv

LEMMA QuarantineStep == TypeOK /\ TypeOK' /\ QuarantineInv /\ [Next]_vars => QuarantineInv'
<1> SUFFICES ASSUME TypeOK, TypeOK', QuarantineInv, [Next]_vars PROVE QuarantineInv'
  OBVIOUS
<1>0. /\ published \subseteq published'
      /\ \A S \in SUBSET Node : Closed(S)' => Closed(S)
  BY DEF Next, RunningNext, SyncStep, TrustStep, UpdateLocalFacts, ProcessIncomingEnvelope,
     CreateSyncEnvelope, IgnoreEnvelope, AlreadyCurrent, ApplyEnvelope, GrantTrust,
     RevokeTrust, Restart, replicaVars, trustVars, vars, Closed
\* It is enough to look at one closed set, the replicas in it and its envelopes.
<1>1. ASSUME \A S \in SUBSET Node : \A i \in S :
                Closed(S) /\ Closed(S)' => StemsFrom(S, versions[i], caps[i])'
      PROVE  Quarantine'
  BY <1>0, <1>1 DEF Quarantine
<1>2. ASSUME NEW S \in SUBSET Node, NEW i \in S, Closed(S),
             versions'[i] = versions[i], caps'[i] = caps[i]
      PROVE  StemsFrom(S, versions[i], caps[i])'
  <2>1. StemsFrom(S, versions[i], caps[i])
    BY <1>2 DEF QuarantineInv, Quarantine
  <2> QED
    BY <1>0, <1>2, <2>1 DEF StemsFrom
<1>3. ASSUME NEW S \in SUBSET Node, NEW m \in network, m.sender \in S, Closed(S)
      PROVE  StemsFrom(S, m.versions, m.caps)'
  <2>1. StemsFrom(S, m.versions, m.caps)
    BY <1>3 DEF QuarantineInv
  <2> QED
    BY <1>0, <2>1 DEF StemsFrom
<1>4. ASSUME network' = network
      PROVE  \A S \in SUBSET Node : Closed(S)' =>
               \A m \in network' : m.sender \in S => StemsFrom(S, m.versions, m.caps)'
  BY <1>0, <1>3, <1>4
<1>5. ASSUME trust' = trust, granted' = granted
      PROVE  \A i, j \in Node : trust'[i][j].status = "trusted" => <<i, j>> \in granted'
  BY <1>5 DEF QuarantineInv
<1>6. ASSUME NEW i \in Node, NEW u \in Update[i], UpdateLocalFacts(i, u)
      PROVE  QuarantineInv'
  <2>1. ASSUME NEW S \in SUBSET Node, NEW n \in S, Closed(S)
        PROVE  StemsFrom(S, versions[n], caps[n])'
    <3>1. CASE n # i
      BY <1>2, <1>6, <2>1, <3>1 DEF UpdateLocalFacts, TypeOK
    <3>2. CASE n = i
      <4>1. StemsFrom(S, versions[n], caps[n])
        BY <2>1 DEF QuarantineInv, Quarantine
      <4>2. \A j \in Node \ S : versions'[n][j] = 0
        BY <1>6, <2>1, <3>2, <4>1 DEF UpdateLocalFacts, TypeOK, Versions, StemsFrom
      <4>3. ASSUME NEW s \in Node, NEW c \in caps'[n][s]
            PROVE  \E f \in published' : f.origin \in S /\ f.subject = s /\ f.cap = c
        <5>1. c \in caps[n][s] \/ c \in u.caps[s]
          BY <1>6, <3>2, <4>3 DEF UpdateLocalFacts, TypeOK, MergeCaps
        <5>2. CASE c \in caps[n][s]
          BY <1>0, <4>1, <5>2 DEF StemsFrom
        <5>3. CASE c \in u.caps[s]
          <6> DEFINE g == [origin |-> i, version |-> versions[i][i] + 1,
                           subject |-> s, cap |-> c]
          <6>1. c \in Capability
            BY <5>3 DEF Capabilities
          <6>2. g \in FactsOf(i, versions[i][i] + 1, u)
            BY <5>3, <6>1 DEF FactsOf
          <6>3. g \in published'
            BY <1>6, <6>2 DEF UpdateLocalFacts
          <6> QED
            BY <2>1, <3>2, <6>3
        <5> QED
          BY <5>1, <5>2, <5>3
      <4> QED
        BY <4>2, <4>3 DEF StemsFrom
    <3> QED
      BY <3>1, <3>2
  <2>2. network' = network /\ trust' = trust /\ granted' = granted
    BY <1>6 DEF UpdateLocalFacts, trustVars
  <2> QED
    BY <1>1, <1>4, <1>5, <2>1, <2>2 DEF QuarantineInv
<1>7. ASSUME NEW i \in Node, CreateSyncEnvelope(i) PROVE QuarantineInv'
  <2>1. /\ versions' = versions /\ caps' = caps /\ trust' = trust /\ granted' = granted
        /\ \A m \in network' : m \in network \/
              (m.sender = i /\ m.versions = versions[i] /\ m.caps = caps[i])
    BY <1>7 DEF CreateSyncEnvelope, replicaVars, trustVars
  <2>2. Quarantine'
    BY <1>1, <1>2, <2>1
  <2>3. ASSUME NEW S \in SUBSET Node, Closed(S)', NEW m \in network', m.sender \in S
        PROVE  StemsFrom(S, m.versions, m.caps)'
    <3>1. CASE m \in network
      BY <1>0, <1>3, <2>3, <3>1
    <3>2. CASE m.sender = i /\ m.versions = versions[i] /\ m.caps = caps[i]
      <4>1. StemsFrom(S, versions[i], caps[i])
        BY <1>0, <2>3, <3>2 DEF QuarantineInv, Quarantine
      <4> QED
        BY <1>0, <3>2, <4>1 DEF StemsFrom
    <3> QED
      BY <2>1, <3>1, <3>2
  <2> QED
    BY <1>5, <2>1, <2>2, <2>3 DEF QuarantineInv
<1>8. ASSUME NEW i \in Node, NEW m \in network, NEW fault \in Fault,
             ApplyEnvelope(i, m, fault)
      PROVE  QuarantineInv'
  <2>1. <<i, m.sender>> \in granted
    <3>1. trust[i][m.sender].status = "trusted"
      BY <1>8 DEF ApplyEnvelope, Ignored, Authenticate
    <3> QED
      BY <3>1 DEF QuarantineInv, TypeOK, Envelope
  <2>2. ASSUME NEW S \in SUBSET Node, NEW n \in S, Closed(S)
        PROVE  StemsFrom(S, versions[n], caps[n])'
    <3>1. CASE n # i
      BY <1>2, <1>8, <2>2, <3>1 DEF ApplyEnvelope, TypeOK
    <3>2. CASE n = i
      <4>1. m.sender \in S
        BY <2>1, <2>2, <3>2 DEF Closed, TypeOK, Envelope
      <4>2. StemsFrom(S, versions[i], caps[i]) /\ StemsFrom(S, m.versions, m.caps)
        BY <2>2, <3>2, <4>1 DEF QuarantineInv, Quarantine
      <4>3. /\ versions'[i] = MergeVersions(versions[i], m.versions)
            /\ caps'[i] = MergeCaps(caps[i], m.caps)
            /\ published' = published
        BY <1>8 DEF ApplyEnvelope, TypeOK
      <4> QED
        BY <3>2, <4>2, <4>3 DEF StemsFrom, MergeVersions, MergeCaps
    <3> QED
      BY <3>1, <3>2
  <2>3. network' = network /\ trust' = trust /\ granted' = granted
    BY <1>8 DEF ApplyEnvelope, trustVars
  <2> QED
    BY <1>1, <1>4, <1>5, <2>2, <2>3 DEF QuarantineInv
<1>9. ASSUME NEW i \in Node, NEW k \in Key, Restart(i, k) PROVE QuarantineInv'
  <2>1. ASSUME NEW S \in SUBSET Node, NEW n \in S, Closed(S)
        PROVE  StemsFrom(S, versions[n], caps[n])'
    <3>1. CASE n # i
      BY <1>2, <1>9, <2>1, <3>1 DEF Restart, TypeOK
    <3>2. CASE n = i
      <4>1. versions'[n] = [o \in Node |-> 0] /\ caps'[n] = [o \in Node |-> {}]
        BY <1>9, <3>2 DEF Restart, TypeOK, NoFacts
      <4> QED
        BY <4>1 DEF StemsFrom
    <3> QED
      BY <3>1, <3>2
  <2>2. network' = network /\ trust' = trust /\ granted' = granted
    BY <1>9 DEF Restart, trustVars
  <2> QED
    BY <1>1, <1>4, <1>5, <2>1, <2>2 DEF QuarantineInv
<1>10. ASSUME UNCHANGED <<versions, caps, network>>,
              \A i, j \in Node : trust'[i][j].status = "trusted" => <<i, j>> \in granted'
       PROVE  QuarantineInv'
  BY <1>1, <1>2, <1>4, <1>10 DEF QuarantineInv
<1>11. ASSUME NEW i \in Node, TrustStep(i) PROVE QuarantineInv'
  <2>1. ASSUME NEW j \in Node, NEW k \in Key \cup {NoKey}, GrantTrust(i, j, k)
        PROVE  QuarantineInv'
    <3>1. \A n, o \in Node : trust'[n][o].status = "trusted" => <<n, o>> \in granted'
      BY <2>1 DEF GrantTrust, QuarantineInv, TypeOK
    <3> QED
      BY <1>10, <2>1, <3>1 DEF GrantTrust, replicaVars
  <2>2. ASSUME NEW j \in Node, RevokeTrust(i, j) PROVE QuarantineInv'
    <3>1. \A n, o \in Node : trust'[n][o].status = "trusted" => <<n, o>> \in granted'
      BY <2>2 DEF RevokeTrust, QuarantineInv, TypeOK
    <3> QED
      BY <1>10, <2>2, <3>1 DEF RevokeTrust, replicaVars
  <2> QED
    BY <1>11, <2>1, <2>2 DEF TrustStep
<1>12. CASE UNCHANGED <<versions, caps, network, trust, granted>>
  BY <1>5, <1>10, <1>12
<1> QED
  BY <1>6, <1>7, <1>8, <1>9, <1>11, <1>12 DEF Next, RunningNext, SyncStep,
     ProcessIncomingEnvelope, IgnoreEnvelope, AlreadyCurrent, trustVars, vars

\* Nothing known in a group of nodes stems from outside the group unless one of
\* them granted trust across its border, however envelopes were relayed, and
\* whoever restarted or was revoked since.
THEOREM TrustBoundsFacts == Spec => []Quarantine
<1>1. TypeOK /\ QuarantineInv /\ [Next]_vars => TypeOK' /\ QuarantineInv'
  BY TypeStep, QuarantineStep
<1>2. QuarantineInv => Quarantine
  BY DEF QuarantineInv
<1> QED
  BY TypeInit, QuarantineInit, <1>1, <1>2, PTL DEF Spec

=============================================================================
