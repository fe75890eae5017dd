------------------------- MODULE DeviceBootstrapProofs -------------------------
(***************************************************************************)
(* What DeviceBootstrap guarantees for any number of devices, authorities, *)
(* attempts, recoveries and interrupted starts.                            *)
(***************************************************************************)
EXTENDS DeviceBootstrap, TLAPS

USE OwnersAssumption, CallsAssumption, BoundAssumption, NoneAssumption

-----------------------------------------------------------------------------
(* The inductive invariant.                                                *)

\* An id that n made.
MadeBy(n, i) == i = None \/ (i[1] = n /\ i[2] <= ids[n])

\* Who a node is: by ids it made, the next one being new to it; and when the
\* file still names the id of its last process, the keys of that process are
\* the ones in the files. A node that runs is somebody.
IdentityOf(n) ==
    /\ MadeBy(n, disk[n].id) /\ MadeBy(n, ident[n]) /\ MadeBy(n, syncId[n])
    /\ up[n] => ident[n] # None /\ syncId[n] # None /\ keyPair[n] # None
    /\ syncId[n] # None /\ syncId[n] = disk[n].id =>
          /\ disk[n].private = keyPair[n] /\ keyPair[n] # None
          /\ disk[n].public.id = disk[n].id

IdentityInv == \A n \in Node : WithinBounds(n) /\ IdentityOf(n)

\* A session shows the device when the request is sent and the authority when
\* the answer is taken: what it has shown it goes on showing. It is under way in
\* a process that runs.
SessionInv ==
    \A s \in Session :
        /\ session[s].state = "unused" => session[s].asked = Nobody /\ session[s].answers = {}
        /\ session[s].state \in {"unused", "AUTHENTICATING"} => session[s].told = Nobody
        /\ session[s].state \in {"AUTHENTICATING", "SYNCING"} => up[Device(s)]

\* A node that calls nobody keeps what its owner revoked, in the file and,
\* while it runs, in memory.
RevokedInv ==
    \A n \in Node : (\A c \in Calls : c[1] # n) =>
        \A i \in Id : owner[n][i] = "revoked" =>
            /\ i[1] # n
            /\ disk[n].trust[i].status = "REVOKED"
            /\ up[n] => records[n][i].status = "REVOKED"

Shown(i, k) ==
    \E s \in Session : [id |-> i, key |-> k] \in {session[s].asked, session[s].told}

\* Every key pinned for another was shown, in the file as in memory.
PinInv ==
    \A n \in Node, i \in Id : i[1] # n =>
        /\ records[n][i].key # None => Shown(i, records[n][i].key)
        /\ disk[n].trust[i].key # None => Shown(i, disk[n].trust[i].key)

\* n trusts i, and a restart does not change it, unless its owner objects.
Settled(n, i) ==
    owner[n][i] = "silent" =>
        /\ disk[n].trust[i].status = "TRUSTED"
        /\ up[n] => records[n][i].status = "TRUSTED"

\* The authority trusts a device from the moment it accepts it, the device the
\* authority from the moment it takes the answer.
TrustInv ==
    \A s \in Session, i \in Id :
        /\ i = session[s].asked.id =>
              /\ session[s].state \in {"SYNCING", "READY"} => Settled(Authority(s), i)
              /\ session[s].state = "AUTHENTICATING" /\ session[s].answers \ {Nobody} # {}
                    => Settled(Authority(s), i)
        /\ i = session[s].told.id /\ session[s].state \in {"SYNCING", "READY"}
              => Settled(Device(s), i)

IInv == TypeOK /\ IdentityInv /\ SessionInv /\ RevokedInv /\ PinInv /\ TrustInv

-----------------------------------------------------------------------------
(* Types.                                                                  *)

Disk == [id : Id \cup {None}, public : Card, private : Key \cup {None},
         trust : [Id -> TrustRecord]]
Records == [Id -> TrustRecord]
Sess == [state : SessionState, call : Calls, asked : Card, answers : SUBSET Card, told : Card]

\* Writing one file.
LEMMA DiskFields ==
    ASSUME NEW d \in Disk
    PROVE  /\ \A i \in Id \cup {None} : [d EXCEPT !.id = i] \in Disk
           /\ \A c \in Card : [d EXCEPT !.public = c] \in Disk
           /\ \A k \in Key \cup {None} : [d EXCEPT !.private = k] \in Disk
           /\ \A r \in [Id -> TrustRecord] : [d EXCEPT !.trust = r] \in Disk
           /\ d.id \in Id \cup {None} /\ d.public \in Card
           /\ d.private \in Key \cup {None} /\ d.trust \in [Id -> TrustRecord]
<1>1. \A i \in Id \cup {None} : [d EXCEPT !.id = i] \in Disk
  BY DEF Disk
<1>2. \A c \in Card : [d EXCEPT !.public = c] \in Disk
  BY DEF Disk
<1>3. \A k \in Key \cup {None} : [d EXCEPT !.private = k] \in Disk
  BY DEF Disk
<1>4. \A r \in [Id -> TrustRecord] : [d EXCEPT !.trust = r] \in Disk
  BY DEF Disk
<1> QED
  BY <1>1, <1>2, <1>3, <1>4 DEF Disk

\* A name belongs to the node that made it, and the next one fits its bound.
LEMMA Names ==
    /\ \A i \in Id : /\ i[1] \in Node /\ i[2] \in 1 .. MaxId[i[1]] /\ i = <<i[1], i[2]>>
    /\ \A n \in Node : \A j \in 1 .. MaxId[n] : <<n, j>> \in Id /\ <<n, j>> # None
    /\ \A n \in Node : \A j \in 1 .. MaxKey[n] : <<n, j>> \in Key /\ <<n, j>> # None
  BY DEF Id, Key

\* The kinds of trust record that are written.
LEMMA RecordTypes ==
    /\ Unknown \in TrustRecord /\ Nobody \in Card
    /\ \A i \in Id \cup {None}, k \in Key \cup {None} : [id |-> i, key |-> k] \in Card
    /\ \A c \in Card : c.id \in Id \cup {None} /\ c.key \in Key \cup {None}
                       /\ c = [id |-> c.id, key |-> c.key]
  BY DEF Unknown, Nobody, TrustRecord, TrustStatus, Card

\* Granting trust to one id touches its record only; the key that is pinned is
\* the one given, or the one that was.
LEMMA Grants ==
    ASSUME NEW recs \in [Id -> TrustRecord], NEW i, NEW k \in Key \cup {None}
    PROVE  /\ Granted(recs, i, k) \in [Id -> TrustRecord]
           /\ i \in Id => /\ Granted(recs, i, k)[i].status = "TRUSTED"
                          /\ Granted(recs, i, k)[i].key = IF k = None THEN recs[i].key ELSE k
           /\ \A j \in Id \ {i} : Granted(recs, i, k)[j] = recs[j]
<1> DEFINE r == [status |-> "TRUSTED", key |-> IF k = None THEN recs[i].key ELSE k]
<1>1. Granted(recs, i, k) = [recs EXCEPT ![i] = r]
  BY DEF Granted
<1>2. i \in Id => r \in TrustRecord
  BY DEF TrustRecord, TrustStatus
<1>3. r.status = "TRUSTED" /\ r.key = IF k = None THEN recs[i].key ELSE k
  OBVIOUS
<1> HIDE DEF r
<1> QED
  BY <1>1, <1>2, <1>3

\* So does revoking it, which leaves the key pinned.
LEMMA Revokes ==
    ASSUME NEW recs \in [Id -> TrustRecord], NEW i \in Id
    PROVE  LET r == [recs EXCEPT ![i].status = "REVOKED"]
           IN  /\ r \in [Id -> TrustRecord]
               /\ r[i].status = "REVOKED" /\ r[i].key = recs[i].key
               /\ \A j \in Id \ {i} : r[j] = recs[j]
<1> DEFINE q == [recs[i] EXCEPT !.status = "REVOKED"]
           r == [recs EXCEPT ![i].status = "REVOKED"]
<1>1. q \in TrustRecord /\ q.status = "REVOKED" /\ q.key = recs[i].key
  BY DEF TrustRecord, TrustStatus
<1>2. r = [recs EXCEPT ![i] = q]
  OBVIOUS
<1> HIDE DEF q
<1> QED
  BY <1>1, <1>2

-----------------------------------------------------------------------------
(* What the actions do to the files, the memory and the history.           *)

Files(n) == <<disk[n].id, disk[n].public, disk[n].private>>

\* Persist() changes trust records only: those in memory, and the file unless
\* the write failed.
LEMMA PersistEffect ==
    ASSUME TypeOK, NEW n \in Node, NEW recs \in [Id -> TrustRecord], NEW saved \in BOOLEAN,
           Persist(n, recs, saved)
    PROVE  /\ records' \in [Node -> [Id -> TrustRecord]] /\ disk' \in [Node -> Disk]
           /\ records'[n] = recs
           /\ disk'[n].trust = IF saved THEN recs ELSE disk[n].trust
           /\ \A m \in Node \ {n} : records'[m] = records[m] /\ disk'[m] = disk[m]
           /\ \A m \in Node : Files(m)' = Files(m)
<1>1. disk \in [Node -> Disk] /\ records \in [Node -> [Id -> TrustRecord]]
  BY DEF TypeOK, Disk
<1> DEFINE d == [disk[n] EXCEPT !.trust = recs]
<1>2. d \in Disk
  BY <1>1, DiskFields
<1>3. /\ d.trust = recs /\ d.id = disk[n].id
      /\ d.public = disk[n].public /\ d.private = disk[n].private
  <2>1. disk[n] \in Disk
    BY <1>1
  <2> QED
    BY <2>1 DEF Disk
<1>4. disk' = IF saved THEN [disk EXCEPT ![n] = d] ELSE disk
  BY DEF Persist
<1> HIDE DEF d
<1> QED
  BY <1>1, <1>2, <1>3, <1>4 DEF Persist, Files

LEMMA Counters ==
    ASSUME TypeOK, NEW n \in Node
    PROVE  /\ ids[n] \in Nat /\ keys[n] \in Nat /\ MaxId[n] \in Nat /\ MaxKey[n] \in Nat
           /\ ids[n] <= MaxId[n] /\ keys[n] <= MaxKey[n]
<1>1. ids[n] \in 0 .. MaxId[n] /\ keys[n] \in 0 .. MaxKey[n]
  BY DEF TypeOK
<1>2. MaxId[n] \in Nat /\ MaxKey[n] \in Nat
  OBVIOUS
<1> QED
  BY <1>1, <1>2

\* The files a start leaves: an id, keys for this id, and the trust file it
\* found.
LEMMA FilesOfStart ==
    ASSUME TypeOK, NEW n \in Node, WithinBounds(n)
    PROVE  /\ MakesId(n) => NewId(n) \in Id
           /\ MakesKeys(n) => NewKey(n) \in Key
           /\ WithId(n) \in Disk /\ WithPublic(n) \in Disk /\ WithKeys(n) \in Disk
           /\ WithId(n).id = IF MakesId(n) THEN NewId(n) ELSE disk[n].id
           /\ WithId(n).id # None
           /\ WithId(n).private = disk[n].private
           /\ WithPublic(n).id = WithId(n).id /\ WithKeys(n).id = WithId(n).id
           /\ WithPublic(n).public.id = WithId(n).id /\ WithKeys(n).public.id = WithId(n).id
           /\ WithPublic(n).private = disk[n].private
           /\ WithKeys(n).private = (IF MakesKeys(n) THEN NewKey(n) ELSE disk[n].private)
           /\ WithKeys(n).private # None
           /\ \A d \in {WithId(n), WithPublic(n), WithKeys(n)} : d.trust = disk[n].trust
<1>1. disk[n] \in Disk
  BY DEF TypeOK, Disk
<1>2. MakesId(n) => NewId(n) \in Id /\ NewId(n) # None
  <2>1. MakesId(n) => ids[n] + 1 \in 1 .. MaxId[n]
    BY Counters DEF WithinBounds
  <2> QED
    BY <2>1, Names DEF NewId
<1>3. MakesKeys(n) => NewKey(n) \in Key /\ NewKey(n) # None
  <2>1. MakesKeys(n) => keys[n] + 1 \in 1 .. MaxKey[n]
    BY Counters DEF WithinBounds
  <2> QED
    BY <2>1, Names DEF NewKey
<1>4. /\ WithId(n) \in Disk /\ WithId(n).id = (IF MakesId(n) THEN NewId(n) ELSE disk[n].id)
      /\ WithId(n).public = disk[n].public /\ WithId(n).private = disk[n].private
      /\ WithId(n).trust = disk[n].trust
  BY <1>1, <1>2, DiskFields DEF WithId, Disk
<1>5. WithId(n).id \in Id /\ WithId(n).id # None
  BY <1>1, <1>2, <1>4, DiskFields DEF MakesId
<1> DEFINE c == [id |-> WithId(n).id, key |-> NewKey(n)]
<1>6. MakesKeys(n) => c \in Card /\ c.id = WithId(n).id
  BY <1>3, <1>5, RecordTypes
<1>7. /\ WithPublic(n) \in Disk /\ WithPublic(n).id = WithId(n).id
      /\ WithPublic(n).private = disk[n].private /\ WithPublic(n).trust = disk[n].trust
      /\ WithPublic(n).public.id = WithId(n).id
  <2>1. CASE MakesKeys(n)
    <3>1. WithPublic(n) = [WithId(n) EXCEPT !.public = c]
      BY <2>1 DEF WithPublic
    <3>2. c \in Card /\ c.id = WithId(n).id
      BY <1>6, <2>1
    <3> HIDE DEF c
    <3>3. WithPublic(n).public = c
      BY <1>4, <3>1 DEF Disk
    <3> QED
      BY <1>4, <3>1, <3>2, <3>3, DiskFields DEF Disk
  <2>2. CASE ~MakesKeys(n)
    BY <1>4, <2>2 DEF WithPublic, MakesKeys
  <2> QED
    BY <2>1, <2>2
<1>8. /\ WithKeys(n) \in Disk /\ WithKeys(n).id = WithId(n).id
      /\ WithKeys(n).public.id = WithId(n).id /\ WithKeys(n).trust = disk[n].trust
      /\ WithKeys(n).private = (IF MakesKeys(n) THEN NewKey(n) ELSE disk[n].private)
      /\ WithKeys(n).private # None
  <2>1. CASE MakesKeys(n)
    <3>1. WithKeys(n) = [WithPublic(n) EXCEPT !.private = NewKey(n)]
      BY <2>1 DEF WithKeys
    <3> QED
      BY <1>3, <1>7, <2>1, <3>1, DiskFields DEF Disk
  <2>2. CASE ~MakesKeys(n)
    BY <1>4, <2>2 DEF WithKeys, MakesKeys
  <2> QED
    BY <2>1, <2>2
<1> QED
  BY <1>2, <1>3, <1>4, <1>5, <1>7, <1>8

\* start() of n: the files made complete, trust in its own id, and the memory
\* taken from the files.
LEMMA StartEffect ==
    ASSUME TypeOK, NEW n \in Node, WithinBounds(n), Start(n)
    PROVE  /\ disk' \in [Node -> Disk] /\ records' \in [Node -> [Id -> TrustRecord]]
           /\ Files(n)' = <<WithKeys(n).id, WithKeys(n).public, WithKeys(n).private>>
           /\ records'[n] = Granted(disk[n].trust, WithKeys(n).id, WithKeys(n).public.key)
           /\ disk'[n].trust = records'[n]
           /\ WithKeys(n).public.key \in Key \cup {None}
           /\ ident' = [ident EXCEPT ![n] = WithKeys(n).id]
           /\ syncId' = [syncId EXCEPT ![n] = WithKeys(n).id]
           /\ keyPair' = [keyPair EXCEPT ![n] = WithKeys(n).private]
           /\ up' = [up EXCEPT ![n] = TRUE]
           /\ \A m \in Node \ {n} : disk'[m] = disk[m] /\ records'[m] = records[m]
<1> DEFINE d == WithKeys(n)
           recs == Granted(disk[n].trust, d.id, d.public.key)
<1>1. disk \in [Node -> Disk] /\ records \in [Node -> [Id -> TrustRecord]]
  BY DEF TypeOK, Disk
<1>2. d \in Disk /\ d.trust = disk[n].trust
  BY FilesOfStart
<1>3. d.public.key \in Key \cup {None} /\ d.trust \in [Id -> TrustRecord]
  BY <1>2, DiskFields, RecordTypes
<1>4. recs \in [Id -> TrustRecord]
  BY <1>2, <1>3, Grants
<1>5. records' = [records EXCEPT ![n] = recs]
  BY <1>2 DEF Start, Load
<1>6. disk' = [disk EXCEPT ![n] = [d EXCEPT !.trust = recs]]
  BY <1>1, <1>5 DEF Start
<1>7. keyPair' = [keyPair EXCEPT ![n] = d.private]
  BY FilesOfStart DEF Start, WithKeys
<1> HIDE DEF recs
<1>8. /\ [d EXCEPT !.trust = recs] \in Disk
      /\ [d EXCEPT !.trust = recs].trust = recs
      /\ [d EXCEPT !.trust = recs].id = d.id /\ [d EXCEPT !.trust = recs].public = d.public
      /\ [d EXCEPT !.trust = recs].private = d.private
  <2> HIDE DEF d
  <2>1. [d EXCEPT !.trust = recs] \in Disk
    BY <1>2, <1>4, DiskFields
  <2> QED
    BY <1>2, <2>1 DEF Disk
<1>9. /\ ident' = [ident EXCEPT ![n] = d.id] /\ syncId' = [syncId EXCEPT ![n] = d.id]
      /\ up' = [up EXCEPT ![n] = TRUE]
  BY DEF Start
<1>10. records'[n] = recs /\ disk'[n] = [d EXCEPT !.trust = recs]
  BY <1>1, <1>5, <1>6
<1>11. /\ records' \in [Node -> [Id -> TrustRecord]]
       /\ \A m \in Node \ {n} : records'[m] = records[m]
  BY <1>1, <1>4, <1>5
<1>12. disk' \in [Node -> Disk] /\ \A m \in Node \ {n} : disk'[m] = disk[m]
  BY <1>1, <1>6, <1>8
<1>13. Files(n)' = <<d.id, d.public, d.private>> /\ disk'[n].trust = records'[n]
  BY <1>8, <1>10 DEF Files
<1> QED
  BY <1>3, <1>7, <1>9, <1>10, <1>11, <1>12, <1>13 DEF recs

\* An interrupted one leaves some of the files of a start and touches no trust.
LEMMA InterruptedEffect ==
    ASSUME TypeOK, NEW n \in Node, StartInterrupted(n)
    PROVE  /\ disk' \in [Node -> Disk]
           /\ \A m \in Node : disk'[m].trust = disk[m].trust
           /\ \A m \in Node \ {n} : disk'[m] = disk[m]
           /\ \/ MakesId(n) /\ disk'[n] = WithId(n)
              \/ MakesKeys(n) /\ disk'[n] \in {WithPublic(n), WithKeys(n)}
           /\ UNCHANGED <<process, records, session, owner>>
<1>1. disk \in [Node -> Disk]
  BY DEF TypeOK, Disk
<1>2. PICK d \in {WithId(n), WithPublic(n), WithKeys(n)} :
          /\ disk' = [disk EXCEPT ![n] = d]
          /\ \/ MakesId(n) /\ d = WithId(n)
             \/ MakesKeys(n) /\ d \in {WithPublic(n), WithKeys(n)}
  BY DEF StartInterrupted
<1>3. d \in Disk /\ d.trust = disk[n].trust
  BY FilesOfStart DEF StartInterrupted
<1>4. disk'[n] = d /\ \A m \in Node \ {n} : disk'[m] = disk[m]
  BY <1>1, <1>2
<1>5. disk' \in [Node -> Disk]
  BY <1>1, <1>2, <1>3
<1> QED
  BY <1>2, <1>3, <1>4, <1>5 DEF StartInterrupted

\* What a request, an answer or the end of an attempt does to its session.
LEMMA SessionFields ==
    ASSUME NEW x \in Sess
    PROVE  /\ \A q \in SessionState : [x EXCEPT !.state = q, !.answers = {}] \in Sess
           /\ \A c \in Card : [x EXCEPT !.state = "AUTHENTICATING", !.asked = c] \in Sess
           /\ \A c \in Card : [x EXCEPT !.answers = @ \cup {c}] \in Sess
           /\ \A q \in SessionState, c \in Card :
                  [x EXCEPT !.state = q, !.told = c, !.answers = {}] \in Sess
  BY DEF Sess, SessionState

\* A node counts what it makes, and makes it while its bounds allow it.
LEMMA MadeTypes ==
    ASSUME TypeOK, NEW n \in Node, WithinBounds(n),
           \/ Made(n)
           \/ MakesId(n) /\ ids' = [ids EXCEPT ![n] = @ + 1] /\ UNCHANGED keys
    PROVE  /\ ids' \in [Node -> Nat] /\ keys' \in [Node -> Nat]
           /\ \A m \in Node : ids'[m] \in 0 .. MaxId[m] /\ keys'[m] \in 0 .. MaxKey[m]
           /\ ids'[n] = (IF MakesId(n) THEN ids[n] + 1 ELSE ids[n])
           /\ \A m \in Node \ {n} : ids'[m] = ids[m] /\ keys'[m] = keys[m]
<1>1. /\ ids \in [Node -> Nat] /\ keys \in [Node -> Nat]
      /\ \A m \in Node : ids[m] \in 0 .. MaxId[m] /\ keys[m] \in 0 .. MaxKey[m]
  BY DEF TypeOK
<1>2. ids' = IF MakesId(n) THEN [ids EXCEPT ![n] = ids[n] + 1] ELSE ids
  BY DEF Made
<1>3. keys' = (IF MakesKeys(n) THEN [keys EXCEPT ![n] = keys[n] + 1] ELSE keys) \/ keys' = keys
  BY DEF Made
<1>4. (MakesId(n) => ids[n] < MaxId[n]) /\ (MakesKeys(n) => keys[n] < MaxKey[n])
  BY DEF WithinBounds
<1>5. /\ ids' \in [Node -> Nat] /\ ids'[n] = (IF MakesId(n) THEN ids[n] + 1 ELSE ids[n])
      /\ \A m \in Node \ {n} : ids'[m] = ids[m]
  BY <1>1, <1>2
<1>6. /\ keys' \in [Node -> Nat] /\ \A m \in Node \ {n} : keys'[m] = keys[m]
      /\ keys'[n] = keys[n] \/ (MakesKeys(n) /\ keys'[n] = keys[n] + 1)
  <2>1. CASE keys' = keys
    BY <1>1, <2>1
  <2>2. CASE MakesKeys(n) /\ keys' = [keys EXCEPT ![n] = keys[n] + 1]
    <3>1. keys[n] + 1 \in Nat
      BY <1>1
    <3>2. keys'[n] = keys[n] + 1 /\ \A m \in Node \ {n} : keys'[m] = keys[m]
      BY <1>1, <2>2
    <3>3. keys' \in [Node -> Nat]
      BY <1>1, <2>2, <3>1
    <3> QED
      BY <2>2, <3>2, <3>3
  <2> QED
    BY <1>3, <2>1, <2>2
<1>7. \A m \in Node : ids'[m] \in 0 .. MaxId[m]
  BY <1>1, <1>4, <1>5
<1>8. \A m \in Node : keys'[m] \in 0 .. MaxKey[m]
  BY <1>1, <1>4, <1>6
<1> QED
  BY <1>5, <1>6, <1>7, <1>8

\* What a change of trust leaves: the memory of n, its file if it could be
\* saved, and everything else as it was.
TrustStep(n, recs, file) ==
    /\ recs \in Records /\ file \in Records /\ file \in {recs, disk[n].trust}
    /\ disk' \in [Node -> Disk] /\ records' \in [Node -> [Id -> TrustRecord]]
    /\ records'[n] = recs /\ disk'[n].trust = file
    /\ \A m \in Node \ {n} : records'[m] = records[m] /\ disk'[m] = disk[m]
    /\ \A m \in Node : Files(m)' = Files(m)

LEMMA TypesOfNode ==
    ASSUME TypeOK, NEW n \in Node
    PROVE  /\ disk \in [Node -> Disk] /\ records \in [Node -> [Id -> TrustRecord]]
           /\ disk[n] \in Disk /\ disk[n].trust \in [Id -> TrustRecord]
           /\ disk[n].id \in Id \cup {None} /\ disk[n].private \in Key \cup {None}
           /\ ident[n] \in Id \cup {None} /\ syncId[n] \in Id \cup {None}
           /\ keyPair[n] \in Key \cup {None}
<1>1. disk \in [Node -> Disk]
  BY DEF TypeOK, Disk
<1> QED
  BY <1>1, DiskFields DEF TypeOK

LEMMA StepRecords ==
    \A n, recs, file : TrustStep(n, recs, file) => recs \in Records /\ file \in Records
  BY DEF TrustStep

LEMMA PersistSteps ==
    ASSUME TypeOK, NEW n \in Node, NEW recs \in [Id -> TrustRecord], NEW saved \in BOOLEAN,
           Persist(n, recs, saved)
    PROVE  TrustStep(n, recs, recs) \/ (~saved /\ TrustStep(n, recs, disk[n].trust))
<1>1. CASE saved
  BY <1>1, PersistEffect DEF TrustStep, Records
<1>2. CASE ~saved
  BY <1>2, PersistEffect, TypesOfNode DEF TrustStep, Records
<1> QED
  BY <1>1, <1>2

\* Only the record of i differs from what n had in memory.
Touches(recs, n, i) == \A j \in Id \ {i} : recs[j] = records[n][j]

\* The owner grants or revokes.
OwnerEffect(n, i, x, recs, file) ==
    /\ up[n] /\ i[1] # n
    /\ TrustStep(n, recs, file) /\ Touches(recs, n, i)
    /\ recs[i].key = records[n][i].key
    /\ owner' = [owner EXCEPT ![n][i] = x]
    /\ \/ x = "tried"
       \/ x = "silent" /\ file = recs /\ recs[i].status = "TRUSTED"
       \/ x = "revoked" /\ file = recs /\ recs[i].status = "REVOKED"
    /\ UNCHANGED <<process, session, made>>

LEMMA OwnerSteps ==
    ASSUME TypeOK, NEW n \in Node, OwnerGrants(n) \/ OwnerRevokes(n)
    PROVE  \E i \in Id, x \in {"silent", "tried", "revoked"},
            recs \in Records, file \in Records :
              OwnerEffect(n, i, x, recs, file)
<1>1. records[n] \in [Id -> TrustRecord]
  BY DEF TypeOK
<1>2. CASE OwnerGrants(n)
  <2>1. PICK i \in Id, saved \in BOOLEAN :
            /\ up[n] /\ i[1] # n
            /\ Persist(n, Granted(records[n], i, None), saved)
            /\ owner' = [owner EXCEPT ![n][i] = IF saved THEN "silent" ELSE "tried"]
            /\ UNCHANGED <<process, session, made>>
    BY <1>2 DEF OwnerGrants, MadeId
  <2> DEFINE recs == Granted(records[n], i, None)
  <2>2. /\ recs \in [Id -> TrustRecord] /\ Touches(recs, n, i)
        /\ recs[i].key = records[n][i].key /\ recs[i].status = "TRUSTED"
    BY <1>1, Grants DEF Touches
  <2> HIDE DEF recs
  <2>3. CASE saved
    <3>1. TrustStep(n, recs, recs)
      BY <2>1, <2>2, <2>3, PersistSteps DEF recs
    <3>2. owner' = [owner EXCEPT ![n][i] = "silent"]
      BY <2>1, <2>3
    <3> QED
      BY <2>1, <2>2, <3>1, <3>2, StepRecords DEF OwnerEffect
  <2>4. CASE ~saved
    <3>1. \E file : TrustStep(n, recs, file)
      BY <2>1, <2>2, <2>4, PersistSteps DEF recs
    <3>2. owner' = [owner EXCEPT ![n][i] = "tried"]
      BY <2>1, <2>4
    <3> QED
      BY <2>1, <2>2, <3>1, <3>2, StepRecords DEF OwnerEffect
  <2> QED
    BY <2>3, <2>4
<1>3. CASE OwnerRevokes(n)
  <2>1. PICK i \in Id, saved \in BOOLEAN :
            /\ up[n] /\ i[1] # n
            /\ Persist(n, [records[n] EXCEPT ![i].status = "REVOKED"], saved)
            /\ owner' = [owner EXCEPT ![n][i] = IF saved THEN "revoked" ELSE "tried"]
            /\ UNCHANGED <<process, session, made>>
    BY <1>3 DEF OwnerRevokes, MadeId
  <2> DEFINE recs == [records[n] EXCEPT ![i].status = "REVOKED"]
  <2>2. /\ recs \in [Id -> TrustRecord] /\ Touches(recs, n, i)
        /\ recs[i].key = records[n][i].key /\ recs[i].status = "REVOKED"
    BY <1>1, Revokes DEF Touches
  <2> HIDE DEF recs
  <2>3. CASE saved
    <3>1. TrustStep(n, recs, recs)
      BY <2>1, <2>2, <2>3, PersistSteps DEF recs
    <3>2. owner' = [owner EXCEPT ![n][i] = "revoked"]
      BY <2>1, <2>3
    <3> QED
      BY <2>1, <2>2, <3>1, <3>2, StepRecords DEF OwnerEffect
  <2>4. CASE ~saved
    <3>1. \E file : TrustStep(n, recs, file)
      BY <2>1, <2>2, <2>4, PersistSteps DEF recs
    <3>2. owner' = [owner EXCEPT ![n][i] = "tried"]
      BY <2>1, <2>4
    <3> QED
      BY <2>1, <2>2, <3>1, <3>2, StepRecords DEF OwnerEffect
  <2> QED
    BY <2>3, <2>4
<1> QED
  BY <1>2, <1>3

\* An authority that lets a device in grants it trust and pins its key. It
\* answers when the file is written, and it turns away who is revoked.
AdmitEffect(s, i, k, recs, file) ==
    /\ session[s].asked = [id |-> i, key |-> k]
    /\ records[Authority(s)][i].status # "REVOKED"
    /\ TrustStep(Authority(s), recs, file) /\ Touches(recs, Authority(s), i)
    /\ recs[i].status = "TRUSTED" /\ recs[i].key = k
    /\ \/ UNCHANGED session
       \/ file = recs /\ \E c \in Card : Answers(s, c)

LEMMA HandleSteps ==
    ASSUME TypeOK, NEW s \in Session, HandleRequest(s)
    PROVE  /\ Authority(s) \in Node /\ up[Authority(s)]
           /\ UNCHANGED <<process, owner, made>>
           /\ \/ UNCHANGED <<disk, records>> /\ Answers(s, Nobody)
              \/ \E i \in Id, k \in Key,
                 recs \in Records, file \in Records : AdmitEffect(s, i, k, recs, file)
<1> DEFINE a == Authority(s)
<1>1. a \in Node
  BY DEF TypeOK, Authority
<1>2. /\ records[a] \in [Id -> TrustRecord]
      /\ [id |-> ident[a], key |-> keyPair[a]] \in Card
  BY <1>1, RecordTypes DEF TypeOK
<1>3. PICK i \in Id, k \in Key :
          LET request == [id |-> i, key |-> k]
          IN  IF Welcome(a, s, request)
              THEN \E saved \in BOOLEAN :
                     /\ Persist(a, Granted(records[a], i, k), saved)
                     /\ IF saved THEN Answers(s, [id |-> ident[a], key |-> keyPair[a]])
                                 ELSE UNCHANGED session
              ELSE Answers(s, Nobody) /\ UNCHANGED <<records, disk>>
  BY DEF HandleRequest, MadeId, MadeKey
<1>4. up[a] /\ UNCHANGED <<process, owner, made>>
  BY DEF HandleRequest
<1>5. CASE Welcome(a, s, [id |-> i, key |-> k])
  <2>1. PICK saved \in BOOLEAN :
            /\ Persist(a, Granted(records[a], i, k), saved)
            /\ IF saved THEN Answers(s, [id |-> ident[a], key |-> keyPair[a]])
                        ELSE UNCHANGED session
    BY <1>3, <1>5
  <2> DEFINE recs == Granted(records[a], i, k)
  <2>2. k # None
    OBVIOUS
  <2>3. /\ recs \in [Id -> TrustRecord] /\ Touches(recs, a, i)
        /\ recs[i].status = "TRUSTED" /\ recs[i].key = k
    BY <1>2, <2>2, Grants DEF Touches
  <2>4. session[s].asked = [id |-> i, key |-> k] /\ records[a][i].status # "REVOKED"
    BY <1>5 DEF Welcome, SignatureHolds
  <2> HIDE DEF recs
  <2>5. CASE saved
    <3>1. TrustStep(a, recs, recs) /\ \E c \in Card : Answers(s, c)
      BY <1>1, <1>2, <2>1, <2>3, <2>5, PersistSteps DEF recs
    <3> QED
      BY <1>1, <1>4, <2>3, <2>4, <3>1, StepRecords DEF AdmitEffect
  <2>6. CASE ~saved
    <3>1. (\E file : TrustStep(a, recs, file)) /\ UNCHANGED session
      BY <1>1, <2>1, <2>3, <2>6, PersistSteps DEF recs
    <3> QED
      BY <1>1, <1>4, <2>3, <2>4, <3>1, StepRecords DEF AdmitEffect
  <2> QED
    BY <2>5, <2>6
<1>6. CASE ~Welcome(a, s, [id |-> i, key |-> k])
  BY <1>1, <1>3, <1>4, <1>6
<1> QED
  BY <1>5, <1>6

\* A device that is accepted grants trust to who answered; SYNCING means that
\* this is in its file.
AcceptEffect(s, c, x, recs, file) ==
    /\ TrustStep(Device(s), recs, file) /\ Touches(recs, Device(s), c.id)
    /\ c.id \in Id => /\ recs[c.id].status = "TRUSTED"
                      /\ recs[c.id].key \in {c.key, records[Device(s)][c.id].key}
    /\ session' = [session EXCEPT ![s] = [session[s] EXCEPT !.state = x, !.told = c, !.answers = {}]]
    /\ x = "RAISED" \/ (x = "SYNCING" /\ file = recs)

LEMMA AcceptSteps ==
    ASSUME TypeOK, NEW s \in Session, Accepted(s)
    PROVE  /\ Device(s) \in Node /\ session[s].state = "AUTHENTICATING"
           /\ UNCHANGED <<process, owner, made>>
           /\ \E c \in session[s].answers \ {Nobody}, x \in {"SYNCING", "RAISED"},
            recs \in Records, file \in Records :
                 AcceptEffect(s, c, x, recs, file)
<1> DEFINE d == Device(s)
<1>1. d \in Node /\ session[s].answers \subseteq Card
  BY DEF TypeOK, Device
<1>2. records[d] \in [Id -> TrustRecord]
  BY <1>1 DEF TypeOK
<1>3. PICK c \in session[s].answers \ {Nobody}, saved \in BOOLEAN :
          /\ Persist(d, Granted(records[d], c.id, c.key), saved)
          /\ session' = [session EXCEPT ![s].state = IF saved THEN "SYNCING" ELSE "RAISED",
                                        ![s].told = c, ![s].answers = {}]
  BY DEF Accepted
<1>4. c.key \in Key \cup {None}
  BY <1>1, RecordTypes
<1> DEFINE recs == Granted(records[d], c.id, c.key)
<1>5. /\ recs \in [Id -> TrustRecord] /\ Touches(recs, d, c.id)
      /\ c.id \in Id => /\ recs[c.id].status = "TRUSTED"
                        /\ recs[c.id].key \in {c.key, records[d][c.id].key}
  BY <1>2, <1>4, Grants DEF Touches
<1> HIDE DEF recs
<1>6. UNCHANGED <<process, owner, made>> /\ session[s].state = "AUTHENTICATING"
  BY DEF Accepted
<1>7. CASE saved
  <2>1. session' = [session EXCEPT
           ![s] = [session[s] EXCEPT !.state = "SYNCING", !.told = c, !.answers = {}]]
    BY <1>3, <1>7 DEF TypeOK
  <2>2. TrustStep(d, recs, recs)
    BY <1>1, <1>3, <1>5, <1>7, PersistSteps DEF recs
  <2>3. AcceptEffect(s, c, "SYNCING", recs, recs)
    BY <1>5, <2>1, <2>2 DEF AcceptEffect
  <2> QED
    BY <1>1, <1>6, <2>2, <2>3, StepRecords
<1>8. CASE ~saved
  <2>1. session' = [session EXCEPT
           ![s] = [session[s] EXCEPT !.state = "RAISED", !.told = c, !.answers = {}]]
    BY <1>3, <1>8 DEF TypeOK
  <2>2. PICK file : TrustStep(d, recs, file)
    BY <1>1, <1>3, <1>5, <1>8, PersistSteps DEF recs
  <2>3. AcceptEffect(s, c, "RAISED", recs, file)
    BY <1>5, <2>1, <2>2 DEF AcceptEffect
  <2> QED
    BY <1>1, <1>6, <2>2, <2>3, StepRecords
<1> QED
  BY <1>7, <1>8

LEMMA InitTypes == Init => TypeOK
<1> SUFFICES ASSUME Init PROVE TypeOK
  OBVIOUS
<1>1. disk \in [Node -> Disk]
  BY RecordTypes DEF Init, Disk
<1>2. session \in [Session -> Sess]
  <2>1. [state : {"unused"}, call : Calls, asked : {Nobody}, answers : {{}}, told : {Nobody}]
            \subseteq Sess
    BY RecordTypes DEF Sess, SessionState
  <2> QED
    BY <2>1 DEF Init
<1>3. records \in [Node -> [Id -> TrustRecord]]
  BY RecordTypes DEF Init
<1>4. /\ ids \in [Node -> Nat] /\ keys \in [Node -> Nat]
      /\ \A n \in Node : ids[n] \in 0 .. MaxId[n] /\ keys[n] \in 0 .. MaxKey[n]
  BY DEF Init
<1> QED
  BY <1>1, <1>2, <1>3, <1>4 DEF Init, TypeOK, Disk, Sess

LEMMA TypeStep == TypeOK /\ (\A n \in Node : WithinBounds(n)) /\ [Next]_vars => TypeOK'
<1> SUFFICES ASSUME TypeOK, \A n \in Node : WithinBounds(n), [Next]_vars PROVE TypeOK'
  OBVIOUS
<1> USE DEF process, made
<1> DEFINE FilesOK == disk' \in [Node -> Disk] /\ records' \in [Node -> [Id -> TrustRecord]]
           ProcessOK == /\ up' \in [Node -> BOOLEAN] /\ ident' \in [Node -> Id \cup {None}]
                        /\ syncId' \in [Node -> Id \cup {None}] /\ keyPair' \in [Node -> Key \cup {None}]
           SessionOK == session' \in [Session -> Sess]
           OwnerOK == owner' \in [Node -> [Id -> {"silent", "tried", "revoked"}]]
           MadeOK == /\ ids' \in [Node -> Nat] /\ keys' \in [Node -> Nat]
                     /\ \A n \in Node : ids'[n] \in 0 .. MaxId[n] /\ keys'[n] \in 0 .. MaxKey[n]
<1>1. /\ disk \in [Node -> Disk] /\ records \in [Node -> [Id -> TrustRecord]]
      /\ session \in [Session -> Sess]
  BY DEF TypeOK, Disk, Sess
<1>2. FilesOK /\ ProcessOK /\ SessionOK /\ OwnerOK /\ MadeOK => TypeOK'
  BY DEF TypeOK, Disk, Sess
<1>3. UNCHANGED <<disk, records>> => FilesOK
  BY <1>1
<1>4. UNCHANGED process => ProcessOK
  BY DEF TypeOK
<1>5. UNCHANGED session => SessionOK
  BY <1>1
<1>6. UNCHANGED owner => OwnerOK
  BY DEF TypeOK
<1>7. UNCHANGED made => MadeOK
  BY DEF TypeOK
<1>8. ASSUME NEW n \in Owners, OwnerGrants(n) \/ OwnerRevokes(n) PROVE TypeOK'
  <2>1. PICK i \in Id, x \in {"silent", "tried", "revoked"},
            recs \in Records, file \in Records :
            OwnerEffect(n, i, x, recs, file)
    BY <1>8, OwnerSteps
  <2>2. FilesOK /\ UNCHANGED <<process, session, made>>
    BY <2>1 DEF OwnerEffect, TrustStep
  <2>3. OwnerOK
    BY <2>1 DEF OwnerEffect, TypeOK
  <2> HIDE DEF FilesOK, ProcessOK, SessionOK, OwnerOK, MadeOK
  <2> QED
    BY <1>2, <1>4, <1>5, <1>7, <2>2, <2>3
<1>9. ASSUME NEW n \in Node, Start(n) PROVE TypeOK'
  <2>1. /\ WithKeys(n).id \in Id \cup {None}
        /\ WithKeys(n).private \in Key \cup {None}
    BY FilesOfStart, DiskFields
  <2>2. FilesOK
    BY <1>9, StartEffect
  <2>3. ProcessOK
    <3>1. /\ up \in [Node -> BOOLEAN] /\ ident \in [Node -> Id \cup {None}]
          /\ syncId \in [Node -> Id \cup {None}] /\ keyPair \in [Node -> Key \cup {None}]
      BY DEF TypeOK
    <3>2. /\ ident' = [ident EXCEPT ![n] = WithKeys(n).id]
          /\ syncId' = [syncId EXCEPT ![n] = WithKeys(n).id]
          /\ keyPair' = [keyPair EXCEPT ![n] = WithKeys(n).private]
          /\ up' = [up EXCEPT ![n] = TRUE]
      BY <1>9, StartEffect
    <3>3. up' \in [Node -> BOOLEAN]
      BY <3>1, <3>2
    <3> QED
      BY <2>1, <3>1, <3>2, <3>3
  <2>4. MadeOK
    BY <1>9, MadeTypes DEF Start
  <2>5. UNCHANGED <<session, owner>>
    BY <1>9 DEF Start
  <2> HIDE DEF FilesOK, ProcessOK, SessionOK, OwnerOK, MadeOK
  <2> QED
    BY <1>2, <1>5, <1>6, <2>2, <2>3, <2>4, <2>5
<1>10. ASSUME NEW n \in Node, StartInterrupted(n) PROVE TypeOK'
  <2>1. UNCHANGED <<process, records, session, owner>> /\ FilesOK
    BY <1>1, <1>10, InterruptedEffect
  <2>2. MadeOK
    BY <1>10, MadeTypes DEF StartInterrupted
  <2> HIDE DEF FilesOK, ProcessOK, SessionOK, OwnerOK, MadeOK
  <2> QED
    BY <1>2, <1>4, <1>5, <1>6, <2>1, <2>2
<1>11. ASSUME NEW n \in Node, Down(n) PROVE TypeOK'
  <2>1. FilesOK
    BY <1>1, <1>11, RecordTypes DEF Down
  <2>2. SessionOK
    BY <1>1, <1>11, SessionFields DEF Down, SessionState
  <2>3. ProcessOK
    BY <1>11 DEF Down, TypeOK
  <2>4. UNCHANGED <<owner, made>>
    BY <1>11 DEF Down
  <2> HIDE DEF FilesOK, ProcessOK, SessionOK, OwnerOK, MadeOK
  <2> QED
    BY <1>2, <1>6, <1>7, <2>1, <2>2, <2>3, <2>4
<1>12. ASSUME NEW n \in Node, RecoverIdentity(n) PROVE TypeOK'
  <2>1. NewId(n) \in Id /\ ids[n] + 1 \in 0 .. MaxId[n]
    BY <1>12, Names, Counters DEF RecoverIdentity, NewId
  <2>2. FilesOK
    <3>1. [disk[n] EXCEPT !.id = NewId(n)] \in Disk
      BY <1>1, <2>1, DiskFields
    <3> QED
      BY <1>1, <1>12, <3>1 DEF RecoverIdentity
  <2>3. ProcessOK
    BY <1>12, <2>1 DEF RecoverIdentity, TypeOK
  <2>4. MadeOK
    <3>1. /\ ids \in [Node -> Nat] /\ keys \in [Node -> Nat]
          /\ \A m \in Node : ids[m] \in 0 .. MaxId[m] /\ keys[m] \in 0 .. MaxKey[m]
      BY DEF TypeOK
    <3>2. ids' = [ids EXCEPT ![n] = ids[n] + 1] /\ UNCHANGED keys
      BY <1>12 DEF RecoverIdentity
    <3> QED
      BY <2>1, <3>1, <3>2
  <2>5. UNCHANGED <<session, owner>>
    BY <1>12 DEF RecoverIdentity
  <2> HIDE DEF FilesOK, ProcessOK, SessionOK, OwnerOK, MadeOK
  <2> QED
    BY <1>2, <1>5, <1>6, <2>2, <2>3, <2>4, <2>5
<1>13. ASSUME NEW s \in Session, SendRequest(s) PROVE TypeOK'
  <2>1. Device(s) \in Node
    BY <1>1 DEF Device, Sess
  <2>2. [id |-> ident[Device(s)], key |-> keyPair[Device(s)]] \in Card
    BY <2>1, RecordTypes DEF TypeOK
  <2>3. SessionOK
    BY <1>1, <1>13, <2>2, SessionFields DEF SendRequest
  <2>4. UNCHANGED <<disk, process, records, owner, made>>
    BY <1>13 DEF SendRequest
  <2> HIDE DEF FilesOK, ProcessOK, SessionOK, OwnerOK, MadeOK
  <2> QED
    BY <1>2, <1>3, <1>4, <1>6, <1>7, <2>3, <2>4
<1>14. ASSUME NEW s \in Session, HandleRequest(s) PROVE TypeOK'
  <2>1. Authority(s) \in Node
    BY <1>1 DEF Authority, Sess
  <2>2. /\ [id |-> ident[Authority(s)], key |-> keyPair[Authority(s)]] \in Card
        /\ Nobody \in Card
    BY <2>1, RecordTypes DEF TypeOK
  <2>3. SessionOK
    <3>1. ASSUME NEW c \in Card, Answers(s, c) PROVE SessionOK
      <4>1. [session[s] EXCEPT !.answers = @ \cup {c}] \in Sess
        BY <1>1, SessionFields
      <4>2. session' \in {session, [session EXCEPT ![s] = [session[s] EXCEPT !.answers = @ \cup {c}]]}
        BY <3>1 DEF Answers
      <4> QED
        BY <1>1, <4>1, <4>2
    <3> QED
      BY <1>5, <1>14, <2>2, <3>1 DEF HandleRequest
  <2>4. FilesOK
    BY <1>3, <1>14, HandleSteps DEF AdmitEffect, TrustStep
  <2>5. UNCHANGED <<process, owner, made>>
    BY <1>14 DEF HandleRequest
  <2> HIDE DEF FilesOK, ProcessOK, SessionOK, OwnerOK, MadeOK
  <2> QED
    BY <1>2, <1>4, <1>6, <1>7, <2>3, <2>4, <2>5
<1>15. ASSUME NEW s \in Session, TransportFails(s) \/ Rejected(s) \/ Synced(s) PROVE TypeOK'
  <2>1. PICK q \in SessionState : Ends(s, q)
    BY <1>15 DEF TransportFails, Rejected, Synced, SessionState
  <2>2. session' = [session EXCEPT ![s] = [session[s] EXCEPT !.state = q, !.answers = {}]]
    BY <2>1, <1>1 DEF Ends
  <2>3. SessionOK
    BY <1>1, <2>2, SessionFields
  <2>4. UNCHANGED <<disk, process, records, owner, made>>
    BY <1>15 DEF TransportFails, Rejected, Synced
  <2> HIDE DEF FilesOK, ProcessOK, SessionOK, OwnerOK, MadeOK
  <2> QED
    BY <1>2, <1>3, <1>4, <1>6, <1>7, <2>3, <2>4
<1>16. ASSUME NEW s \in Session, Accepted(s) PROVE TypeOK'
  <2>1. PICK c \in session[s].answers, x \in {"SYNCING", "RAISED"},
            recs \in Records, file \in Records :
            AcceptEffect(s, c, x, recs, file)
    BY <1>16, AcceptSteps
  <2>2. c \in Card /\ x \in SessionState
    BY <1>1 DEF Sess, SessionState
  <2>4. FilesOK
    BY <2>1 DEF AcceptEffect, TrustStep
  <2>5. SessionOK
    BY <1>1, <2>1, <2>2, SessionFields DEF AcceptEffect
  <2>6. UNCHANGED <<process, owner, made>>
    BY <1>16 DEF Accepted
  <2> HIDE DEF FilesOK, ProcessOK, SessionOK, OwnerOK, MadeOK
  <2> QED
    BY <1>2, <1>4, <1>6, <1>7, <2>4, <2>5, <2>6
<1>17. CASE UNCHANGED vars
  BY <1>17 DEF vars, TypeOK
<1> QED
  BY <1>8, <1>9, <1>10, <1>11, <1>12, <1>13, <1>14, <1>15, <1>16, <1>17 DEF Next

-----------------------------------------------------------------------------
(* Identities.                                                             *)

\* The bounds look at the files that say who the node is.
LEMMA BoundsKept ==
    ASSUME TypeOK, TypeOK', NEW n \in Node, WithinBounds(n), Files(n)' = Files(n),
           ids'[n] = ids[n], keys'[n] = keys[n]
    PROVE  WithinBounds(n)'
<1>1. disk[n] \in Disk /\ disk'[n] \in Disk
  BY DEF TypeOK, Disk
<1>2. /\ disk'[n].id = disk[n].id /\ disk'[n].public = disk[n].public
      /\ disk'[n].private = disk[n].private
  BY DEF Files
<1>3. MakesId(n)' = MakesId(n) /\ NewId(n)' = NewId(n)
  BY <1>2 DEF MakesId, NewId
<1>4. WithId(n).id = (IF MakesId(n) THEN NewId(n) ELSE disk[n].id)
  BY <1>1 DEF WithId, Disk
<1>5. WithId(n)'.id = (IF MakesId(n)' THEN NewId(n)' ELSE disk'[n].id)
  BY <1>1 DEF WithId, Disk
<1> QED
  BY <1>2, <1>3, <1>4, <1>5 DEF WithinBounds, MakesKeys

\* So does the rest of the invariant, which a node that goes down keeps too.
LEMMA IdentityKept ==
    ASSUME NEW n \in Node, IdentityOf(n), Files(n)' = Files(n), ids'[n] = ids[n],
           ident'[n] = ident[n], syncId'[n] = syncId[n], keyPair'[n] = keyPair[n],
           up'[n] => up[n]
    PROVE  IdentityOf(n)'
  BY DEF IdentityOf, Files, MadeBy

\* The id that n makes next is not the one of its last process.
LEMMA NextIdIsNew ==
    ASSUME TypeOK, NEW n \in Node, IdentityOf(n)
    PROVE  NewId(n) # syncId[n] \/ syncId[n] = None
  BY Counters DEF IdentityOf, MadeBy, NewId

\* A start without new keys takes those in the files, which are for its id.
LEMMA IdentityOfStart ==
    ASSUME TypeOK, TypeOK', NEW n \in Node, WithinBounds(n), IdentityOf(n), Start(n)
    PROVE  WithinBounds(n)' /\ IdentityOf(n)'
<1>1. /\ disk'[n].id = WithKeys(n).id /\ disk'[n].private = WithKeys(n).private
      /\ disk'[n].public = WithKeys(n).public
  BY StartEffect DEF Files
<1>2. /\ ident'[n] = WithKeys(n).id /\ syncId'[n] = WithKeys(n).id
      /\ keyPair'[n] = WithKeys(n).private
  BY StartEffect DEF TypeOK
<1>3. /\ WithKeys(n).id # None /\ WithKeys(n).private # None
      /\ WithKeys(n).public.id = WithKeys(n).id
      /\ WithKeys(n).id = IF MakesId(n) THEN NewId(n) ELSE disk[n].id
  BY FilesOfStart
<1>4. ids'[n] = IF MakesId(n) THEN ids[n] + 1 ELSE ids[n]
  BY MadeTypes DEF Start
<1>5. MadeBy(n, disk[n].id)'
  <2>1. CASE MakesId(n)
    BY <1>1, <1>3, <1>4, <2>1, Counters DEF MadeBy, NewId
  <2>2. CASE ~MakesId(n)
    BY <1>3, <1>4, <1>1, <2>2 DEF MadeBy, IdentityOf
  <2> QED
    BY <2>1, <2>2
<1>6. IdentityOf(n)'
  <2>1. MadeBy(n, ident[n])' /\ MadeBy(n, syncId[n])'
    BY <1>1, <1>2, <1>5 DEF MadeBy
  <2> QED
    BY <1>1, <1>2, <1>3, <1>5, <2>1 DEF IdentityOf
<1>7. ~MakesId(n)' /\ ~MakesKeys(n)'
  BY <1>1, <1>3 DEF MakesId, MakesKeys, WithId
<1> QED
  BY <1>6, <1>7 DEF WithinBounds

LEMMA IdentityStep == TypeOK /\ IdentityInv /\ TypeOK' /\ [Next]_vars => IdentityInv'
<1> SUFFICES ASSUME TypeOK, IdentityInv, TypeOK', [Next]_vars, NEW m \in Node
             PROVE  WithinBounds(m)' /\ IdentityOf(m)'
  BY DEF IdentityInv
<1> USE DEF process, made
<1>1. WithinBounds(m) /\ IdentityOf(m) /\ m \in Node
  BY DEF IdentityInv
<1>2. Files(m)' = Files(m) /\ UNCHANGED <<ident, syncId, keyPair, made>> /\ (up'[m] => up[m])
      => WithinBounds(m)' /\ IdentityOf(m)'
  BY <1>1, BoundsKept, IdentityKept
<1>3. \A n, recs, file : TrustStep(n, recs, file) => Files(m)' = Files(m)
  BY DEF TrustStep
<1>4. ASSUME NEW n \in Owners, OwnerGrants(n) \/ OwnerRevokes(n)
      PROVE  WithinBounds(m)' /\ IdentityOf(m)'
  <2>1. Files(m)' = Files(m) /\ UNCHANGED <<process, made>>
    BY <1>3, <1>4, OwnerSteps DEF OwnerEffect
  <2> QED
    BY <1>2, <2>1
<1>5. ASSUME NEW n \in Node, Start(n) PROVE WithinBounds(m)' /\ IdentityOf(m)'
  <2>1. CASE m = n
    BY <1>1, <1>5, <2>1, IdentityOfStart
  <2>2. CASE m # n
    <3>1. WithinBounds(n)
      BY DEF IdentityInv
    <3>2. Files(m)' = Files(m) /\ up'[m] = up[m]
      BY <1>5, <2>2, <3>1, StartEffect DEF Files, TypeOK
    <3>3. ident'[m] = ident[m] /\ syncId'[m] = syncId[m] /\ keyPair'[m] = keyPair[m]
      BY <1>5, <2>2, <3>1, StartEffect DEF TypeOK
    <3>4. ids'[m] = ids[m] /\ keys'[m] = keys[m]
      BY <1>5, <2>2, <3>1, MadeTypes DEF Start
    <3> QED
      BY <1>1, <3>2, <3>3, <3>4, BoundsKept, IdentityKept
  <2> QED
    BY <2>1, <2>2
<1>6. ASSUME NEW n \in Node, StartInterrupted(n) PROVE WithinBounds(m)' /\ IdentityOf(m)'
  <2>1. /\ WithinBounds(n) /\ IdentityOf(n)
        /\ ids'[n] = (IF MakesId(n) THEN ids[n] + 1 ELSE ids[n])
        /\ \A k \in Node \ {n} : ids'[k] = ids[k] /\ keys'[k] = keys[k]
    BY <1>6, MadeTypes DEF StartInterrupted, IdentityInv
  <2>2. UNCHANGED <<up, ident, syncId, keyPair>>
    BY <1>6, InterruptedEffect
  <2>3. CASE m # n
    <3>1. Files(m)' = Files(m)
      BY <1>6, <2>3, InterruptedEffect DEF Files
    <3> QED
      BY <1>1, <2>1, <2>2, <2>3, <3>1, BoundsKept, IdentityKept
  <2>4. CASE m = n
    <3>1. WithinBounds(m)'
      BY <1>6, <2>4 DEF StartInterrupted
    <3>2. /\ disk'[n].id = (IF MakesId(n) THEN NewId(n) ELSE disk[n].id)
          /\ MakesId(n) \/ MakesKeys(n)
      BY <1>6, <2>1, InterruptedEffect, FilesOfStart
    <3>3. MadeBy(n, disk[n].id)' /\ MadeBy(n, ident[n])' /\ MadeBy(n, syncId[n])'
        <4>1. ids[n] \in Nat /\ ids'[n] \in Nat /\ ids[n] <= ids'[n]
        BY <2>1, Counters
      <4>2. MadeBy(n, ident[n])' /\ MadeBy(n, syncId[n])'
        <5>1. \A i \in Id : i[2] \in Nat
          BY Names
        <5> QED
          BY <2>1, <2>2, <4>1, <5>1, TypesOfNode DEF IdentityOf, MadeBy
      <4>3. MadeBy(n, disk[n].id)'
        BY <2>1, <3>2, <4>1 DEF IdentityOf, MadeBy, NewId
      <4> QED
        BY <4>2, <4>3
    \* Otherwise there would have been nothing left to make.
    <3>4. syncId[n] # None => disk'[n].id # syncId[n]
      <4>1. CASE MakesId(n)
        BY <2>1, <3>2, <4>1, NextIdIsNew
      <4>2. CASE ~MakesId(n)
        <5>1. WithId(n).id = disk[n].id
          BY <2>1, <4>2, FilesOfStart
        <5> QED
          BY <2>1, <3>2, <4>2, <5>1 DEF MakesKeys, IdentityOf
      <4> QED
        BY <4>1, <4>2
    <3> QED
      BY <2>1, <2>2, <2>4, <3>1, <3>3, <3>4 DEF IdentityOf
  <2> QED
    BY <2>3, <2>4
<1>7. ASSUME NEW n \in Node, Down(n) PROVE WithinBounds(m)' /\ IdentityOf(m)'
  <2>1. UNCHANGED <<disk, ident, syncId, keyPair, made>> /\ (up'[m] => up[m])
    BY <1>7 DEF Down, TypeOK
  <2> QED
    BY <1>2, <2>1 DEF Files
<1>8. ASSUME NEW n \in Node, RecoverIdentity(n) PROVE WithinBounds(m)' /\ IdentityOf(m)'
  <2>1. UNCHANGED <<up, syncId, keyPair, keys>>
    BY <1>8 DEF RecoverIdentity
  <2>2. CASE m # n
    <3>1. Files(m)' = Files(m) /\ ids'[m] = ids[m] /\ ident'[m] = ident[m]
      BY <1>8, <2>2 DEF RecoverIdentity, Files, TypeOK
    <3> QED
      BY <1>1, <2>1, <3>1, BoundsKept, IdentityKept
  <2>3. CASE m = n
    <3>1. WithinBounds(m)'
      BY <1>8, <2>3 DEF RecoverIdentity
    <3>2. disk'[n].id = NewId(n)
      <4>1. disk' = [disk EXCEPT ![n] = [disk[n] EXCEPT !.id = NewId(n)]]
        BY <1>8 DEF RecoverIdentity
      <4>2. [disk[n] EXCEPT !.id = NewId(n)].id = NewId(n)
        BY TypesOfNode DEF Disk
      <4> QED
        BY <4>1, <4>2, TypesOfNode
    <3>3. ident'[n] = NewId(n) /\ ids'[n] = ids[n] + 1
      BY <1>8 DEF RecoverIdentity, TypeOK
    <3>4. NewId(n) # None
      BY <1>8, Counters, Names DEF RecoverIdentity, NewId
    <3>5. MadeBy(n, disk[n].id)' /\ MadeBy(n, ident[n])' /\ MadeBy(n, syncId[n])'
      <4>1. ids[n] \in Nat /\ ids'[n] \in Nat /\ ids[n] <= ids'[n] /\ ids[n] + 1 <= ids'[n]
        BY <3>3, Counters
      <4>2. MadeBy(n, syncId[n])'
        <5>1. \A i \in Id : i[2] \in Nat
          BY Names
        <5> QED
          BY <1>1, <2>1, <2>3, <4>1, <5>1, TypesOfNode DEF IdentityOf, MadeBy
      <4>3. MadeBy(n, disk[n].id)' /\ MadeBy(n, ident[n])'
        BY <3>2, <3>3, <4>1 DEF MadeBy, NewId
      <4> QED
        BY <4>2, <4>3
    <3>6. NewId(n) # syncId[n] \/ syncId[n] = None
      BY <1>1, <2>3, NextIdIsNew
    <3>7. up[n] => syncId[n] # None /\ keyPair[n] # None
      BY <1>1, <2>3 DEF IdentityOf
    <3> QED
      BY <2>1, <2>3, <3>1, <3>2, <3>3, <3>4, <3>5, <3>6, <3>7 DEF IdentityOf
  <2> QED
    BY <2>2, <2>3
<1>9. ASSUME NEW s \in Session,
             SendRequest(s) \/ TransportFails(s) \/ Rejected(s) \/ Synced(s)
      PROVE  WithinBounds(m)' /\ IdentityOf(m)'
  BY <1>2, <1>9 DEF SendRequest, TransportFails, Rejected, Synced, Files
<1>10. ASSUME NEW s \in Session, HandleRequest(s) PROVE WithinBounds(m)' /\ IdentityOf(m)'
  <2>1. Files(m)' = Files(m)
    BY <1>3, <1>10, HandleSteps DEF AdmitEffect, Files
  <2> QED
    BY <1>2, <1>10, <2>1 DEF HandleRequest
<1>11. ASSUME NEW s \in Session, Accepted(s) PROVE WithinBounds(m)' /\ IdentityOf(m)'
  <2>1. Files(m)' = Files(m)
    BY <1>3, <1>11, AcceptSteps DEF AcceptEffect
  <2> QED
    BY <1>2, <1>11, <2>1 DEF Accepted
<1>12. CASE UNCHANGED vars
  BY <1>2, <1>12 DEF vars, Files
<1> QED
  BY <1>4, <1>5, <1>6, <1>7, <1>8, <1>9, <1>10, <1>11, <1>12 DEF Next

-----------------------------------------------------------------------------
(* Sessions.                                                               *)

\* What a step does to a session.
SessionChange(s) ==
    LET x == session[s]
        y == session'[s]
    IN  /\ y.call = x.call
        /\ \/ y = x
           \/ /\ x.state = "unused" /\ y.state = "AUTHENTICATING" /\ up[Device(s)]
              /\ y.answers = x.answers /\ y.told = x.told
           \/ /\ x.state = "AUTHENTICATING" /\ y.state = "AUTHENTICATING"
              /\ y.asked = x.asked /\ y.told = x.told
              /\ HandleRequest(s) /\ \E c \in Card : Answers(s, c)
           \/ /\ x.state = "AUTHENTICATING" /\ y.state \in {"SYNCING", "RAISED"}
              /\ y.asked = x.asked /\ Accepted(s)
           \/ /\ x.state = "SYNCING" /\ y.state = "READY"
              /\ y.asked = x.asked /\ y.told = x.told
           \/ /\ y.state \in {"FAILED", "REJECTED", "lost"} /\ x.state # "unused"
              /\ y.asked = x.asked /\ y.told = x.told

\* Only the node goes down that makes the attempt, and it loses it.
LEMMA SessionSteps ==
    ASSUME TypeOK, [Next]_vars, NEW s \in Session
    PROVE  /\ SessionChange(s)
           /\ session'[s].state \in {"AUTHENTICATING", "SYNCING"} => up'[Device(s)] \/ ~up[Device(s)]
<1> USE DEF process, made
<1>1. session \in [Session -> Sess] /\ session[s] \in Sess
  BY DEF TypeOK, Sess
<1>2. session'[s] = session[s] => SessionChange(s)
  BY DEF SessionChange
<1>3. up' = up => (up'[Device(s)] \/ ~up[Device(s)])
  OBVIOUS
<1>4. ASSUME NEW n \in Owners, OwnerGrants(n) \/ OwnerRevokes(n)
      PROVE  session' = session /\ up' = up
  BY <1>4 DEF OwnerGrants, OwnerRevokes
<1>5. ASSUME NEW n \in Node, Start(n) PROVE session' = session /\ (up'[Device(s)] \/ ~up[Device(s)])
  BY <1>1, <1>5 DEF Start, TypeOK, Device, Sess
<1>6. ASSUME NEW n \in Node, StartInterrupted(n) \/ RecoverIdentity(n)
      PROVE  session' = session /\ up' = up
  BY <1>6 DEF StartInterrupted, RecoverIdentity
<1>7. ASSUME NEW n \in Node, Down(n)
      PROVE  /\ SessionChange(s)
             /\ session'[s].state \in {"AUTHENTICATING", "SYNCING"} =>
                    up'[Device(s)] \/ ~up[Device(s)]
  <2>1. /\ up' = [up EXCEPT ![n] = FALSE]
        /\ session'[s] = IF Device(s) = n /\ session[s].state \in {"AUTHENTICATING", "SYNCING"}
                         THEN [session[s] EXCEPT !.state = "lost", !.answers = {}] ELSE session[s]
    BY <1>7 DEF Down, Device
  <2>2. CASE session'[s] = session[s] /\ session[s].state \notin {"AUTHENTICATING", "SYNCING"}
    BY <1>2, <2>2
  <2>3. CASE session'[s] = session[s] /\ Device(s) # n
    BY <1>1, <1>2, <2>1, <2>3 DEF TypeOK, Sess, Device
  <2>4. CASE /\ session[s].state \in {"AUTHENTICATING", "SYNCING"}
             /\ session'[s] = [session[s] EXCEPT !.state = "lost", !.answers = {}]
    BY <1>1, <2>4 DEF SessionChange, Sess
  <2> QED
    BY <2>1, <2>2, <2>3, <2>4
<1>8. ASSUME NEW t \in Session, SendRequest(t) PROVE SessionChange(s) /\ up' = up
  <2>1. PICK c : session' = [session EXCEPT ![t] = [session[t] EXCEPT !.state = "AUTHENTICATING", !.asked = c]]
    BY <1>1, <1>8 DEF SendRequest
  <2>2. session[t].state = "unused" /\ up[Device(t)] /\ up' = up
    BY <1>8 DEF SendRequest
  <2>3. CASE s # t
    BY <1>1, <1>2, <2>1, <2>2, <2>3
  <2>4. CASE s = t
    BY <1>1, <2>1, <2>2, <2>4 DEF SessionChange, Sess
  <2> QED
    BY <2>3, <2>4
<1>9. ASSUME NEW t \in Session, HandleRequest(t) PROVE SessionChange(s) /\ up' = up
  <2>1. up' = up /\ (UNCHANGED session \/ \E c \in Card : Answers(t, c))
    BY <1>9, HandleSteps, RecordTypes DEF AdmitEffect
  <2>2. ASSUME NEW c \in Card, Answers(t, c) PROVE SessionChange(s)
    <3>1. CASE session[t].state = "AUTHENTICATING" /\ s = t
      <4>1. session'[s] = [session[s] EXCEPT !.answers = @ \cup {c}]
        BY <1>1, <2>2, <3>1 DEF Answers
      <4>2. session'[s].state = session[s].state /\ session'[s].asked = session[s].asked
            /\ session'[s].told = session[s].told /\ session'[s].call = session[s].call
        BY <1>1, <4>1 DEF Sess
      <4> QED
        BY <1>9, <2>2, <3>1, <4>2 DEF SessionChange
    <3>2. CASE session[t].state # "AUTHENTICATING" \/ s # t
      BY <1>1, <1>2, <2>2, <3>2 DEF Answers
    <3> QED
      BY <3>1, <3>2
  <2> QED
    BY <1>2, <2>1, <2>2
<1>10. ASSUME NEW t \in Session, TransportFails(t) \/ Rejected(t) \/ Synced(t)
       PROVE  SessionChange(s) /\ up' = up
  <2>1. PICK q \in SessionState :
            /\ session' = [session EXCEPT ![t] = [session[t] EXCEPT !.state = q, !.answers = {}]]
            /\ \/ q \in {"FAILED", "REJECTED"} /\ session[t].state = "AUTHENTICATING"
               \/ q = "READY" /\ session[t].state = "SYNCING"
    BY <1>1, <1>10 DEF TransportFails, Rejected, Synced, Ends, SessionState
  <2>2. up' = up
    BY <1>10 DEF TransportFails, Rejected, Synced
  <2>3. CASE s # t
    BY <1>1, <1>2, <2>1, <2>2, <2>3
  <2>4. CASE s = t
    BY <1>1, <2>1, <2>2, <2>4 DEF SessionChange, Sess
  <2> QED
    BY <2>3, <2>4
<1>11. ASSUME NEW t \in Session, Accepted(t) PROVE SessionChange(s) /\ up' = up
  <2>0. PICK c \in session[t].answers, x \in {"SYNCING", "RAISED"},
            recs \in Records, file \in Records :
            AcceptEffect(t, c, x, recs, file)
    BY <1>11, AcceptSteps
  <2>1. session' = [session EXCEPT ![t] = [session[t] EXCEPT !.state = x, !.told = c, !.answers = {}]]
    BY <2>0 DEF AcceptEffect
  <2>2. session[t].state = "AUTHENTICATING" /\ up' = up
    BY <1>11 DEF Accepted
  <2>3. CASE s # t
    BY <1>1, <1>2, <2>1, <2>2, <2>3
  <2>4. CASE s = t
    BY <1>1, <1>11, <2>1, <2>2, <2>4 DEF SessionChange, Sess
  <2> QED
    BY <2>3, <2>4
<1>12. CASE UNCHANGED vars
  BY <1>2, <1>12 DEF vars
<1> QED
  BY <1>2, <1>3, <1>4, <1>5, <1>6, <1>7, <1>8, <1>9, <1>10, <1>11, <1>12 DEF Next, vars

LEMMA SessionStep == TypeOK /\ SessionInv /\ TypeOK' /\ [Next]_vars => SessionInv'
<1> SUFFICES ASSUME TypeOK, SessionInv, [Next]_vars, NEW s \in Session
             PROVE  /\ session'[s].state = "unused" =>
                          session'[s].asked = Nobody /\ session'[s].answers = {}
                    /\ session'[s].state \in {"unused", "AUTHENTICATING"} =>
                          session'[s].told = Nobody
                    /\ session'[s].state \in {"AUTHENTICATING", "SYNCING"} => up'[Device(s)']
  BY DEF SessionInv
<1>1. SessionChange(s) /\ Device(s)' = Device(s)
  BY SessionSteps DEF SessionChange, Device
<1>2. session'[s].state \in {"AUTHENTICATING", "SYNCING"} => up[Device(s)]
  BY <1>1 DEF SessionChange, SessionInv
<1> QED
  BY <1>1, <1>2, SessionSteps DEF SessionChange, SessionInv

\* What was shown stays shown.
LEMMA ShownGrows ==
    ASSUME TypeOK, SessionInv, [Next]_vars, NEW i \in Id, NEW k, Shown(i, k)
    PROVE  Shown(i, k)'
<1>1. PICK s \in Session : [id |-> i, key |-> k] \in {session[s].asked, session[s].told}
  BY DEF Shown
<1>2. [id |-> i, key |-> k] # Nobody
  BY DEF Nobody
<1>3. SessionChange(s)
  BY SessionSteps
<1>4. session[s].asked # Nobody => session'[s].asked = session[s].asked
  BY <1>3 DEF SessionChange, SessionInv
<1>5. session[s].told # Nobody => session'[s].told = session[s].told
  BY <1>3 DEF SessionChange, SessionInv
<1> QED
  BY <1>1, <1>2, <1>4, <1>5 DEF Shown

-----------------------------------------------------------------------------
(* Trust.                                                                  *)

\* The records a start takes from the file, but for the node's own id.
LEMMA TrustOfStart ==
    ASSUME TypeOK, NEW n \in Node, WithinBounds(n), IdentityOf(n), Start(n), NEW i \in Id
    PROVE  /\ disk'[n].trust = records'[n]
           /\ i[1] # n => records'[n][i] = disk[n].trust[i]
           /\ records'[n][i] = disk[n].trust[i] \/ records'[n][i].status = "TRUSTED"
<1>1. /\ records'[n] = Granted(disk[n].trust, WithKeys(n).id, WithKeys(n).public.key)
      /\ disk'[n].trust = records'[n] /\ WithKeys(n).public.key \in Key \cup {None}
  BY StartEffect
<1>2. disk[n].trust \in [Id -> TrustRecord]
  BY TypesOfNode
<1>3. WithKeys(n).id[1] = n
  <2>1. WithKeys(n).id = (IF MakesId(n) THEN NewId(n) ELSE disk[n].id)
    BY FilesOfStart
  <2> QED
    BY <2>1 DEF IdentityOf, MadeBy, MakesId, NewId
<1>4. CASE i = WithKeys(n).id
  BY <1>1, <1>2, <1>3, <1>4, Grants
<1>5. CASE i # WithKeys(n).id
  BY <1>1, <1>2, <1>5, Grants
<1> QED
  BY <1>4, <1>5

\* What the steps of nobody's trust leave alone.
LEMMA TrustKept ==
    ASSUME TypeOK, [Next]_vars
    PROVE  \/ \E n \in Owners : OwnerGrants(n) \/ OwnerRevokes(n)
           \/ \E n \in Node : Start(n) \/ Down(n)
           \/ \E s \in Session : HandleRequest(s) \/ Accepted(s)
           \/ /\ \A n \in Node : disk'[n].trust = disk[n].trust
              /\ UNCHANGED <<up, records, owner>>
<1> USE DEF process, made
<1>1. ASSUME NEW n \in Node, StartInterrupted(n)
      PROVE  (\A m \in Node : disk'[m].trust = disk[m].trust) /\ UNCHANGED <<up, records, owner>>
  BY <1>1, InterruptedEffect
<1>2. ASSUME NEW n \in Node, RecoverIdentity(n)
      PROVE  (\A m \in Node : disk'[m].trust = disk[m].trust) /\ UNCHANGED <<up, records, owner>>
  <2>1. disk' = [disk EXCEPT ![n] = [disk[n] EXCEPT !.id = NewId(n)]]
    BY <1>2 DEF RecoverIdentity
  <2>2. [disk[n] EXCEPT !.id = NewId(n)].trust = disk[n].trust
    BY TypesOfNode DEF Disk
  <2> QED
    BY <1>2, <2>1, <2>2, TypesOfNode DEF RecoverIdentity
<1>3. ASSUME NEW s \in Session, SendRequest(s) \/ TransportFails(s) \/ Rejected(s) \/ Synced(s)
      PROVE  UNCHANGED <<disk, up, records, owner>>
  BY <1>3 DEF SendRequest, TransportFails, Rejected, Synced
<1>4. CASE UNCHANGED vars
  BY <1>4 DEF vars
<1> QED
  BY <1>1, <1>2, <1>3, <1>4 DEF Next

LEMMA RevokedStep ==
    TypeOK /\ IdentityInv /\ SessionInv /\ RevokedInv /\ TypeOK' /\ [Next]_vars => RevokedInv'
<1> SUFFICES ASSUME TypeOK, IdentityInv, RevokedInv, [Next]_vars,
                    NEW n \in Node, \A c \in Calls : c[1] # n,
                    NEW i \in Id, owner'[n][i] = "revoked"
             PROVE  /\ i[1] # n
                    /\ disk'[n].trust[i].status = "REVOKED"
                    /\ up'[n] => records'[n][i].status = "REVOKED"
  BY DEF RevokedInv
<1> USE DEF process, made
<1>1. owner[n][i] = "revoked" => /\ i[1] # n /\ disk[n].trust[i].status = "REVOKED"
                                 /\ up[n] => records[n][i].status = "REVOKED"
  BY DEF RevokedInv
<1>2. ASSUME NEW m \in Owners, OwnerGrants(m) \/ OwnerRevokes(m)
      PROVE  /\ i[1] # n
             /\ disk'[n].trust[i].status = "REVOKED"
             /\ up'[n] => records'[n][i].status = "REVOKED"
  <2>1. PICK j \in Id, x \in {"silent", "tried", "revoked"},
            recs \in Records, file \in Records :
            OwnerEffect(m, j, x, recs, file)
    BY <1>2, OwnerSteps
  <2>2. CASE m # n
    BY <1>1, <2>1, <2>2 DEF OwnerEffect, TrustStep, TypeOK
  <2>3. CASE m = n /\ j = i
    <3>1. x = "revoked"
      BY <2>1, <2>3 DEF OwnerEffect, TypeOK
    <3> QED
      BY <2>1, <2>3, <3>1 DEF OwnerEffect, TrustStep
  <2>4. CASE m = n /\ j # i
    <3>1. owner[n][i] = "revoked"
      BY <2>1, <2>4 DEF OwnerEffect, TypeOK
    <3> QED
      BY <1>1, <2>1, <2>4, <3>1 DEF OwnerEffect, TrustStep, Touches
  <2> QED
    BY <2>2, <2>3, <2>4
<1>3. ASSUME NEW m \in Node, Start(m)
      PROVE  /\ i[1] # n
             /\ disk'[n].trust[i].status = "REVOKED"
             /\ up'[n] => records'[n][i].status = "REVOKED"
  <2>1. owner' = owner /\ WithinBounds(m) /\ IdentityOf(m)
    BY <1>3 DEF Start, IdentityInv
  <2>2. CASE m = n
    BY <1>1, <1>3, <2>1, <2>2, TrustOfStart
  <2>3. CASE m # n
    <3>1. disk'[n] = disk[n] /\ records'[n] = records[n] /\ up'[n] = up[n]
      BY <1>3, <2>1, <2>3, StartEffect DEF TypeOK
    <3> QED
      BY <1>1, <2>1, <3>1
  <2> QED
    BY <2>2, <2>3
<1>4. ASSUME NEW m \in Node, Down(m)
      PROVE  /\ i[1] # n
             /\ disk'[n].trust[i].status = "REVOKED"
             /\ up'[n] => records'[n][i].status = "REVOKED"
  BY <1>1, <1>4 DEF Down, TypeOK
<1>5. ASSUME NEW s \in Session, HandleRequest(s)
      PROVE  /\ i[1] # n
             /\ disk'[n].trust[i].status = "REVOKED"
             /\ up'[n] => records'[n][i].status = "REVOKED"
  <2>1. owner' = owner /\ up' = up /\ up[Authority(s)]
    BY <1>5, HandleSteps
  <2>2. CASE UNCHANGED <<disk, records>>
    BY <1>1, <2>1, <2>2
  <2>3. ASSUME NEW j \in Id, NEW k, NEW recs, NEW file, AdmitEffect(s, j, k, recs, file)
        PROVE  /\ i[1] # n
               /\ disk'[n].trust[i].status = "REVOKED"
               /\ up'[n] => records'[n][i].status = "REVOKED"
    <3>1. CASE Authority(s) # n
      BY <1>1, <2>1, <2>3, <3>1 DEF AdmitEffect, TrustStep
    <3>2. CASE Authority(s) = n
      <4>1. j # i
        BY <1>1, <2>1, <2>3, <3>2 DEF AdmitEffect
      <4> QED
        BY <1>1, <2>1, <2>3, <3>2, <4>1 DEF AdmitEffect, TrustStep, Touches
    <3> QED
      BY <3>1, <3>2
  <2> QED
    BY <1>5, <2>2, <2>3, HandleSteps
\* The device is not n, which calls nobody.
<1>6. ASSUME NEW s \in Session, Accepted(s)
      PROVE  /\ i[1] # n
             /\ disk'[n].trust[i].status = "REVOKED"
             /\ up'[n] => records'[n][i].status = "REVOKED"
  <2>1. Device(s) # n
    BY DEF Device, TypeOK
  <2>2. owner' = owner /\ up' = up
    BY <1>6, AcceptSteps
  <2>3. disk'[n] = disk[n] /\ records'[n] = records[n]
    BY <1>6, <2>1, AcceptSteps DEF AcceptEffect, TrustStep
  <2> QED
    BY <1>1, <2>2, <2>3
<1> QED
  BY <1>1, <1>2, <1>3, <1>4, <1>5, <1>6, TrustKept

LEMMA PinStep == TypeOK /\ IdentityInv /\ SessionInv /\ PinInv /\ TypeOK' /\ [Next]_vars => PinInv'
<1> SUFFICES ASSUME TypeOK, IdentityInv, SessionInv, PinInv, [Next]_vars,
                    NEW n \in Node, NEW i \in Id, i[1] # n
             PROVE  /\ (records[n][i].key # None => Shown(i, records[n][i].key))'
                    /\ (disk[n].trust[i].key # None => Shown(i, disk[n].trust[i].key))'
  BY DEF PinInv
<1> USE DEF process, made
<1> DEFINE Pinned(k) ==
        k # None => \E s \in Session : [id |-> i, key |-> k] \in {session'[s].asked, session'[s].told}
<1>0. \A k : Shown(i, k) => Pinned(k)
  BY ShownGrows DEF Shown
<1>1. Pinned(records[n][i].key) /\ Pinned(disk[n].trust[i].key) /\ Pinned(None)
  BY <1>0 DEF PinInv
<1>2. SUFFICES Pinned(records'[n][i].key) /\ Pinned(disk'[n].trust[i].key)
  BY DEF Shown
<1> HIDE DEF Pinned
<1>3. ASSUME NEW m, NEW recs, NEW file, TrustStep(m, recs, file),
             m = n => Pinned(recs[i].key)
      PROVE  Pinned(records'[n][i].key) /\ Pinned(disk'[n].trust[i].key)
  <2>1. CASE m = n
    BY <1>1, <1>3, <2>1 DEF TrustStep
  <2>2. CASE m # n
    BY <1>1, <1>3, <2>2 DEF TrustStep
  <2> QED
    BY <2>1, <2>2
<1>4. ASSUME NEW m \in Owners, OwnerGrants(m) \/ OwnerRevokes(m)
      PROVE  Pinned(records'[n][i].key) /\ Pinned(disk'[n].trust[i].key)
  <2>1. PICK j \in Id, x \in {"silent", "tried", "revoked"},
            recs \in Records, file \in Records :
            OwnerEffect(m, j, x, recs, file)
    BY <1>4, OwnerSteps
  <2>2. TrustStep(m, recs, file) /\ recs[i].key = records[m][i].key
    BY <2>1 DEF OwnerEffect, Touches
  <2> QED
    BY <1>1, <1>3, <2>2
<1>5. ASSUME NEW m \in Node, Start(m)
      PROVE  Pinned(records'[n][i].key) /\ Pinned(disk'[n].trust[i].key)
  <2>1. WithinBounds(m) /\ IdentityOf(m)
    BY DEF IdentityInv
  <2>2. CASE m = n
    BY <1>1, <1>5, <2>1, <2>2, TrustOfStart
  <2>3. CASE m # n
    BY <1>1, <1>5, <2>1, <2>3, StartEffect
  <2> QED
    BY <2>2, <2>3
<1>6. ASSUME NEW m \in Node, Down(m)
      PROVE  Pinned(records'[n][i].key) /\ Pinned(disk'[n].trust[i].key)
  <2>1. /\ disk' = disk
        /\ records'[n][i] = IF m = n THEN Unknown ELSE records[n][i]
    BY <1>6 DEF Down, TypeOK
  <2> QED
    BY <1>1, <2>1 DEF Unknown
\* The authority pins the key of a request that is what the device sent.
<1>7. ASSUME NEW s \in Session, HandleRequest(s)
      PROVE  Pinned(records'[n][i].key) /\ Pinned(disk'[n].trust[i].key)
  <2>1. CASE UNCHANGED <<disk, records>>
    BY <1>1, <2>1
  <2>2. ASSUME NEW j \in Id, NEW k \in Key, NEW recs, NEW file, AdmitEffect(s, j, k, recs, file)
        PROVE  Pinned(records'[n][i].key) /\ Pinned(disk'[n].trust[i].key)
    <3>1. Authority(s) = n /\ j # i => Pinned(recs[i].key)
      BY <1>1, <2>2 DEF AdmitEffect, Touches
    <3>2. j = i => Pinned(recs[i].key)
      <4>1. j = i => Shown(i, k) /\ recs[i].key = k
        BY <2>2 DEF AdmitEffect, Shown
      <4> QED
        BY <1>0, <4>1
    <3>3. TrustStep(Authority(s), recs, file)
      BY <2>2 DEF AdmitEffect
    <3> QED
      BY <1>3, <3>1, <3>2, <3>3
  <2> QED
    BY <1>7, <2>1, <2>2, HandleSteps
\* The device pins the key it has been told.
<1>8. ASSUME NEW s \in Session, Accepted(s)
      PROVE  Pinned(records'[n][i].key) /\ Pinned(disk'[n].trust[i].key)
  <2>1. PICK c \in session[s].answers \ {Nobody}, x \in {"SYNCING", "RAISED"},
            recs \in Records, file \in Records :
            AcceptEffect(s, c, x, recs, file)
    BY <1>8, AcceptSteps
  <2>2. c \in Card
    BY DEF TypeOK
  <2>3. session'[s].told = c
    <3>1. session \in [Session -> Sess]
      BY DEF TypeOK, Sess
    <3> QED
      BY <2>1, <3>1 DEF AcceptEffect, Sess
  <2>4. Device(s) = n /\ i # c.id => Pinned(recs[i].key)
    BY <1>1, <2>1 DEF AcceptEffect, Touches
  <2>5. Device(s) = n /\ i = c.id => Pinned(recs[i].key)
    <3>1. CASE i = c.id /\ recs[i].key = c.key
      <4>1. [id |-> i, key |-> recs[i].key] = session'[s].told
        BY <2>2, <2>3, <3>1, RecordTypes
      <4> QED
        BY <4>1 DEF Pinned
    <3>2. CASE i = c.id /\ recs[i].key = records[Device(s)][i].key
      BY <1>1, <3>2
    <3> QED
      BY <2>1, <3>1, <3>2 DEF AcceptEffect
  <2>6. TrustStep(Device(s), recs, file)
    BY <2>1 DEF AcceptEffect
  <2> QED
    BY <1>3, <2>4, <2>5, <2>6
<1>9. CASE /\ \A m \in Node : disk'[m].trust = disk[m].trust
           /\ UNCHANGED <<up, records, owner>>
  BY <1>1, <1>9
<1> QED
  BY <1>4, <1>5, <1>6, <1>7, <1>8, <1>9, TrustKept

\* Trust that is settled stays so until the owner objects: no restart, no
\* failed write and no other attempt takes it back.
LEMMA SettledStays ==
    ASSUME TypeOK, IdentityInv, SessionInv, [Next]_vars,
           NEW n \in Node, NEW i \in Id, Settled(n, i)
    PROVE  Settled(n, i)'
<1> USE DEF process, made
<1>1. ASSUME NEW m, NEW j, NEW recs, NEW file, up[m],
             TrustStep(m, recs, file), Touches(recs, m, j), j = i => recs[i].status = "TRUSTED",
             owner'[n][i] = owner[n][i], up' = up
      PROVE  Settled(n, i)'
  <2>1. CASE m # n
    BY <1>1, <2>1 DEF TrustStep, Settled
  <2>2. CASE m = n
    <3>1. owner[n][i] = "silent" => recs[i].status = "TRUSTED"
      BY <1>1, <2>2 DEF Touches, Settled
    <3> QED
      BY <1>1, <2>2, <3>1 DEF TrustStep, Settled
  <2> QED
    BY <2>1, <2>2
<1>2. ASSUME NEW m \in Owners, OwnerGrants(m) \/ OwnerRevokes(m) PROVE Settled(n, i)'
  <2>1. PICK j \in Id, x \in {"silent", "tried", "revoked"},
            recs \in Records, file \in Records :
            OwnerEffect(m, j, x, recs, file)
    BY <1>2, OwnerSteps
  <2>2. CASE m = n /\ j = i
    <3>1. owner'[n][i] = x
      BY <2>1, <2>2 DEF OwnerEffect, TypeOK
    <3> QED
      BY <2>1, <2>2, <3>1 DEF OwnerEffect, TrustStep, Settled
  <2>3. CASE m # n \/ j # i
    <3>1. owner'[n][i] = owner[n][i] /\ up' = up
      BY <2>1, <2>3 DEF OwnerEffect, TypeOK
    <3>2. CASE j # i
      BY <1>1, <2>1, <3>1, <3>2 DEF OwnerEffect
    <3>3. CASE m # n
      BY <2>1, <3>1, <3>3 DEF OwnerEffect, TrustStep, Settled
    <3> QED
      BY <2>3, <3>2, <3>3
  <2> QED
    BY <2>2, <2>3
<1>3. ASSUME NEW m \in Node, Start(m) PROVE Settled(n, i)'
  <2>1. owner' = owner /\ WithinBounds(m) /\ IdentityOf(m)
    BY <1>3 DEF Start, IdentityInv
  <2>2. CASE m = n
    BY <1>3, <2>1, <2>2, TrustOfStart DEF Settled
  <2>3. CASE m # n
    <3>1. disk'[n] = disk[n] /\ records'[n] = records[n] /\ up'[n] = up[n]
      BY <1>3, <2>1, <2>3, StartEffect DEF TypeOK
    <3> QED
      BY <2>1, <3>1 DEF Settled
  <2> QED
    BY <2>2, <2>3
<1>4. ASSUME NEW m \in Node, Down(m) PROVE Settled(n, i)'
  BY <1>4 DEF Down, TypeOK, Settled
<1>5. ASSUME NEW s \in Session, HandleRequest(s) PROVE Settled(n, i)'
  <2>1. owner' = owner /\ up' = up /\ up[Authority(s)]
    BY <1>5, HandleSteps
  <2>2. CASE UNCHANGED <<disk, records>>
    BY <2>1, <2>2 DEF Settled
  <2>3. ASSUME NEW j \in Id, NEW k, NEW recs, NEW file, AdmitEffect(s, j, k, recs, file)
        PROVE  Settled(n, i)'
    BY <1>1, <2>1, <2>3 DEF AdmitEffect
  <2> QED
    BY <1>5, <2>2, <2>3, HandleSteps
<1>6. ASSUME NEW s \in Session, Accepted(s) PROVE Settled(n, i)'
  <2>1. owner' = owner /\ up' = up /\ session[s].state = "AUTHENTICATING"
    BY <1>6, AcceptSteps
  <2>2. up[Device(s)]
    BY <2>1 DEF SessionInv
  <2>3. PICK c, x, recs, file : AcceptEffect(s, c, x, recs, file)
    BY <1>6, AcceptSteps
  <2> QED
    BY <1>1, <2>1, <2>2, <2>3 DEF AcceptEffect
<1>7. CASE /\ \A m \in Node : disk'[m].trust = disk[m].trust
           /\ UNCHANGED <<up, records, owner>>
  BY <1>7 DEF Settled
<1> QED
  BY <1>2, <1>3, <1>4, <1>5, <1>6, <1>7, TrustKept

LEMMA TrustInvStep ==
    TypeOK /\ IdentityInv /\ SessionInv /\ TrustInv /\ TypeOK' /\ [Next]_vars => TrustInv'
<1> SUFFICES ASSUME TypeOK, IdentityInv, SessionInv, TrustInv, TypeOK', [Next]_vars,
                    NEW s \in Session, NEW i \in Id
             PROVE  /\ i = session'[s].asked.id =>
                          /\ session'[s].state \in {"SYNCING", "READY"} => Settled(Authority(s), i)'
                          /\ session'[s].state = "AUTHENTICATING"
                             /\ session'[s].answers \ {Nobody} # {}
                                => Settled(Authority(s), i)'
                    /\ i = session'[s].told.id /\ session'[s].state \in {"SYNCING", "READY"}
                          => Settled(Device(s), i)'
  BY DEF TrustInv
<1>1. SessionChange(s)
  BY SessionSteps
<1>2. Device(s) \in Node /\ Authority(s) \in Node
  BY DEF TypeOK, Device, Authority
<1>3. Device(s)' = Device(s) /\ Authority(s)' = Authority(s)
  BY <1>1 DEF SessionChange, Device, Authority
<1>4. /\ Settled(Device(s), i) => Settled(Device(s), i)'
      /\ Settled(Authority(s), i) => Settled(Authority(s), i)'
  <2>1. \A n \in Node : Settled(n, i) => Settled(n, i)'
    BY SettledStays
  <2> QED
    BY <1>2, <1>3, <2>1 DEF Settled
\* Who is let in is trusted when it is answered, and stays so while it waits.
<1>5. ASSUME i = session'[s].asked.id, session'[s].state \in {"AUTHENTICATING", "SYNCING", "READY"},
             session'[s].state = "AUTHENTICATING" => session'[s].answers \ {Nobody} # {}
      PROVE  Settled(Authority(s), i)'
  <2>1. CASE session'[s] = session[s]
    BY <1>4, <1>5, <2>1 DEF TrustInv
  <2>2. CASE /\ session[s].state = "AUTHENTICATING" /\ session'[s].state = "AUTHENTICATING"
             /\ session'[s].asked = session[s].asked /\ HandleRequest(s)
    <3>1. CASE \E j \in Id, k \in Key,
                 recs \in Records, file \in Records : AdmitEffect(s, j, k, recs, file)
      <4>1. PICK k, recs, file : AdmitEffect(s, i, k, recs, file)
        <5>1. PICK j \in Id, k \in Key,
                 recs \in Records, file \in Records : AdmitEffect(s, j, k, recs, file)
          BY <3>1
        <5>2. session[s].asked = [id |-> j, key |-> k]
          BY <5>1 DEF AdmitEffect
        <5>3. i = j
          BY <1>5, <2>2, <5>2
        <5> QED
          BY <5>1, <5>3
      <4>2. CASE UNCHANGED session
        BY <1>4, <1>5, <4>2 DEF TrustInv
      <4>3. CASE file = recs
        BY <1>2, <1>3, <4>1, <4>3 DEF AdmitEffect, TrustStep, Settled
      <4> QED
        BY <4>1, <4>2, <4>3 DEF AdmitEffect
    <3>2. CASE Answers(s, Nobody)
      <4>1. session'[s].answers = session[s].answers \cup {Nobody}
        <5>1. session \in [Session -> Sess]
          BY DEF TypeOK, Sess
        <5> QED
          BY <2>2, <3>2, <5>1 DEF Answers, Sess
      <4> QED
        BY <1>4, <1>5, <2>2, <4>1 DEF TrustInv
    <3> QED
      BY <2>2, <3>1, <3>2, HandleSteps
  <2>3. CASE Accepted(s) /\ session'[s].asked = session[s].asked
    <3>1. session[s].state = "AUTHENTICATING" /\ session[s].answers \ {Nobody} # {}
      BY <2>3 DEF Accepted
    <3> QED
      BY <1>4, <1>5, <2>3, <3>1 DEF TrustInv
  <2>4. CASE session[s].state = "SYNCING" /\ session'[s].asked = session[s].asked
    BY <1>4, <1>5, <2>4 DEF TrustInv
  <2>5. CASE session[s].state = "unused" /\ session'[s].answers = session[s].answers
    BY <1>5, <2>5, <1>1 DEF SessionInv, SessionChange
  <2> QED
    BY <1>1, <1>5, <2>1, <2>2, <2>3, <2>4, <2>5 DEF SessionChange
\* SYNCING means that the device has the authority in its file.
<1>6. ASSUME i = session'[s].told.id, session'[s].state \in {"SYNCING", "READY"}
      PROVE  Settled(Device(s), i)'
  <2>1. CASE session'[s] = session[s]
    BY <1>4, <1>6, <2>1 DEF TrustInv
  <2>2. CASE Accepted(s)
    <3>1. PICK c, x, recs, file : AcceptEffect(s, c, x, recs, file)
      BY <2>2, AcceptSteps
    <3>2. session'[s].state = x /\ session'[s].told = c
      <4>1. session \in [Session -> Sess]
        BY DEF TypeOK, Sess
      <4> QED
        BY <3>1, <4>1 DEF AcceptEffect, Sess
    <3>3. file = recs /\ recs[i].status = "TRUSTED"
      BY <1>6, <3>1, <3>2 DEF AcceptEffect
    <3> QED
      BY <1>2, <1>3, <3>1, <3>3 DEF AcceptEffect, TrustStep, Settled
  <2>3. CASE session[s].state = "SYNCING" /\ session'[s].told = session[s].told
    BY <1>4, <1>6, <2>3 DEF TrustInv
  <2> QED
    BY <1>1, <1>6, <2>1, <2>2, <2>3 DEF SessionChange
<1> QED
  BY <1>5, <1>6

-----------------------------------------------------------------------------
(* The theorems.                                                           *)

LEMMA InitInv == Init => IInv
<1> SUFFICES ASSUME Init PROVE IInv
  OBVIOUS
<1>1. TypeOK
  BY InitTypes
<1>2. IdentityInv
  <2> SUFFICES ASSUME NEW n \in Node PROVE WithinBounds(n) /\ IdentityOf(n)
    BY DEF IdentityInv
  <2>1. ids[n] = 0 /\ keys[n] = 0 /\ MaxId[n] \in Nat \ {0} /\ MaxKey[n] \in Nat \ {0}
    BY DEF Init
  <2>2. WithinBounds(n)
    BY <2>1 DEF WithinBounds
  <2>3. disk[n].id = None /\ ident[n] = None /\ syncId[n] = None /\ ~up[n]
    BY DEF Init
  <2> QED
    BY <2>2, <2>3 DEF IdentityOf, MadeBy
<1>3. \A s \in Session : /\ session[s].state = "unused" /\ session[s].asked = Nobody
                         /\ session[s].told = Nobody /\ session[s].answers = {}
  BY DEF Init
<1>4. SessionInv /\ TrustInv
  BY <1>3 DEF SessionInv, TrustInv
<1>5. RevokedInv /\ PinInv
  BY DEF Init, RevokedInv, PinInv, Unknown
<1> QED
  BY <1>1, <1>2, <1>4, <1>5 DEF IInv

LEMMA StepInv == IInv /\ [Next]_vars => IInv'
<1> SUFFICES ASSUME IInv, [Next]_vars PROVE IInv'
  OBVIOUS
<1>1. TypeOK'
  BY TypeStep DEF IInv, IdentityInv
<1> QED
  BY <1>1, IdentityStep, SessionStep, RevokedStep, PinStep, TrustInvStep DEF IInv

\* The inductive invariant holds of every node's files, memory, trust records
\* and enrollments, through crashes and repeated requests (identity/,
\* trust/store.py, bootstrap/service.py).
THEOREM Invariant == Spec => []IInv
  BY InitInv, StepInv, PTL DEF Spec

\* The types hold, and no node makes more ids or key pairs than its bounds say
\* (identity/manager.py, identity/crypto.py, trust/store.py,
\* bootstrap/service.py).
THEOREM TypeCorrect == Spec => []TypeOK
<1>1. IInv => TypeOK
  BY DEF IInv
<1> QED
  BY <1>1, Invariant, PTL

\* However many devices ask, and however often requests are repeated, delayed or
\* damaged: whom the owner of a node that enrolls nowhere has revoked, neither
\* handle_incoming_request() nor a restart takes back.
THEOREM RevokedAlwaysStaysOut == Spec => []RevokedStaysOut
<1>1. IInv => RevokedStaysOut
  BY DEF IInv, RevokedInv, RevokedStaysOut
<1> QED
  BY <1>1, Invariant, PTL

\* Every key that grant_trust() pins for another was shown with this id by an
\* attempt to enroll.
THEOREM PinnedIsAlwaysShown == Spec => []PinnedIsShown
<1>1. IInv => PinnedIsShown
  BY DEF IInv, PinInv, PinnedIsShown, Shown
<1> QED
  BY <1>1, Invariant, PTL

LEMMA Mutual == IInv => ReadyIsMutual
<1> SUFFICES ASSUME IInv, NEW s \in Session, Enrolled(s), OneKey(Device(s)), OneKey(Authority(s))
             PROVE  Understands(Authority(s), Device(s)) /\ Understands(Device(s), Authority(s))
  BY DEF ReadyIsMutual
<1>1. /\ Device(s) \in Node /\ Authority(s) \in Node /\ Device(s) # Authority(s)
      /\ syncId \in [Node -> Id \cup {None}]
  BY DEF IInv, TypeOK, Device, Authority
\* The key that b has pinned for m, if any, is the only one m was shown with.
<1>2. ASSUME NEW b \in Node, NEW m \in Node, b # m, up[m], up[b], OneKey(m),
             owner[b][syncId[m]] = "silent", Settled(b, syncId[m])
      PROVE  Understands(b, m)
  <2>1. syncId[m] \in Id /\ syncId[m][1] = m
    BY <1>1, <1>2 DEF IInv, IdentityInv, IdentityOf, MadeBy
  <2>2. records[b][syncId[m]].status = "TRUSTED"
    BY <1>2 DEF Settled
  <2> DEFINE k == records[b][syncId[m]].key
  <2>3. k # None => \E t \in Session : [id |-> syncId[m], key |-> k] \in {session[t].asked, session[t].told}
    BY <1>2, <2>1 DEF IInv, PinInv, Shown
  <2>4. k # None => k = keyPair[m]
    <3> HIDE DEF k
    <3> QED
      BY <1>2, <2>3 DEF OneKey
  <2> QED
    BY <2>2, <2>4 DEF Understands
<1>3. /\ syncId[Device(s)] \in Id /\ syncId[Authority(s)] \in Id
      /\ up[Device(s)] /\ up[Authority(s)]
  BY <1>1 DEF IInv, IdentityInv, IdentityOf, Enrolled
<1>4. /\ Settled(Authority(s), syncId[Device(s)]) /\ owner[Authority(s)][syncId[Device(s)]] = "silent"
      /\ Settled(Device(s), syncId[Authority(s)]) /\ owner[Device(s)][syncId[Authority(s)]] = "silent"
  BY <1>3 DEF IInv, TrustInv, Enrolled
<1> QED
  BY <1>1, <1>2, <1>3, <1>4

\* Device and authority of a bootstrap that reached READY understand each other
\* (execute_client_bootstrap(), sync/authenticator.py), through crashes,
\* restarts, failed writes and other attempts, as long as neither owner objects
\* and neither id was shown with another key.
THEOREM ReadyIsAlwaysMutual == Spec => []ReadyIsMutual
  BY Invariant, Mutual, PTL

LEMMA KeyStep ==
    ASSUME IInv, [Next]_vars, NEW n \in Node, ~up[n], up'[n], syncId'[n] = syncId[n]
    PROVE  keyPair'[n] = keyPair[n]
<1>1. Start(n)
  <2>1. ~Start(n) => up'[n] = up[n] \/ ~up'[n]
    <3>1. up \in [Node -> BOOLEAN]
      BY DEF IInv, TypeOK
    <3>2. ASSUME NEW m \in Node, Start(m), m # n PROVE up'[n] = up[n]
      BY <3>1, <3>2 DEF Start
    <3>3. ASSUME NEW m \in Node, Down(m) PROVE up'[n] = up[n] \/ ~up'[n]
      BY <3>1, <3>3 DEF Down
    <3>4. ASSUME NEW m \in Node, StartInterrupted(m) \/ RecoverIdentity(m) PROVE up'[n] = up[n]
      BY <3>4 DEF StartInterrupted, RecoverIdentity, process
    <3>5. ASSUME NEW m \in Owners, OwnerGrants(m) \/ OwnerRevokes(m) PROVE up'[n] = up[n]
      BY <3>5 DEF OwnerGrants, OwnerRevokes, process
    <3>6. ASSUME NEW s \in Session, SendRequest(s) \/ HandleRequest(s) \/ TransportFails(s)
                                    \/ Rejected(s) \/ Accepted(s) \/ Synced(s)
          PROVE  up'[n] = up[n]
      BY <3>6 DEF SendRequest, HandleRequest, TransportFails, Rejected, Accepted, Synced, process
    <3>7. CASE UNCHANGED vars
      BY <3>7 DEF vars, process
    <3> QED
      BY <3>2, <3>3, <3>4, <3>5, <3>6, <3>7 DEF Next
  <2> QED
    BY <2>1
<1>2. TypeOK /\ WithinBounds(n) /\ IdentityOf(n)
  BY DEF IInv, IdentityInv
<1>3. /\ syncId'[n] = WithKeys(n).id /\ keyPair'[n] = WithKeys(n).private
  BY <1>1, <1>2, StartEffect DEF TypeOK
<1>4. /\ WithKeys(n).id # None
      /\ WithKeys(n).id = WithId(n).id
      /\ WithId(n).id = (IF MakesId(n) THEN NewId(n) ELSE disk[n].id)
      /\ WithKeys(n).private = (IF MakesKeys(n) THEN NewKey(n) ELSE disk[n].private)
  BY <1>2, FilesOfStart
<1>5. ~MakesId(n) /\ syncId[n] # None /\ syncId[n] = disk[n].id
  BY <1>2, <1>3, <1>4, NextIdIsNew
\* The id is the one of the last process, so the files hold its keys.
<1>6. ~MakesKeys(n) /\ disk[n].private = keyPair[n]
  BY <1>2, <1>4, <1>5 DEF IdentityOf, MakesKeys
<1> QED
  BY <1>3, <1>4, <1>6

\* A node that starts as who it was when it last started has the keys it had:
\* a start that was interrupted between two of the files of
\* identity/crypto.py leaves nothing that a later one would mistake for them.
THEOREM KeyAlwaysSurvivesRestart == Spec => KeySurvivesRestart
<1>1. IInv /\ [Next]_vars =>
          [\A n \in Node : ~up[n] /\ up'[n] /\ syncId'[n] = syncId[n] => keyPair'[n] = keyPair[n]]_vars
  BY KeyStep
<1> QED
  BY <1>1, Invariant, PTL DEF Spec, KeySurvivesRestart

=============================================================================
