--------------------------- MODULE DeviceBootstrap ---------------------------
(***************************************************************************)
(* How a device gets its identity and joins the others: the files of       *)
(* identity/manager.py, identity/crypto.py and trust/store.py, the trust   *)
(* service above them (trust/service.py), the handshake between a device   *)
(* and an authority and the recovery of a device (bootstrap/service.py).   *)
(*                                                                         *)
(* Every file is replaced as a whole, so a crash falls between two writes. *)
(* Nobody subscribes to the events of the trust service and its lock is    *)
(* never held across a suspension: what an authority does with a request   *)
(* is one step. The device suspends where it waits for the transport,      *)
(* which may lose, delay, repeat or damage what it carries.                *)
(*                                                                         *)
(* A process that ends, by a crash or in order, loses its memory and       *)
(* nothing else; start() works once per process. Relationship, alias and   *)
(* metadata of a record decide nothing and are left out, and so is the     *)
(* version that both ends of a bootstrap count up in SyncService.          *)
(***************************************************************************)
EXTENDS Naturals

CONSTANTS
    Node,
    Owners,     \* the nodes whose owners grant and revoke trust
    Calls,      \* <<device, authority>>: who may enroll with whom
    Session,    \* the attempts made in all
    MaxId,      \* bound: MaxId[n] node ids that n makes
    MaxKey,     \* bound: MaxKey[n] key pairs that n makes
    None        \* no id, no key

ASSUME OwnersAssumption == Owners \subseteq Node
ASSUME CallsAssumption == Calls \subseteq {p \in Node \X Node : p[1] # p[2]}
ASSUME BoundAssumption == MaxId \in [Node -> Nat \ {0}] /\ MaxKey \in [Node -> Nat \ {0}]

VARIABLES
    disk,       \* disk[n]: the files of n
    up,         \* n has started
    ident,      \* ident[n]: node id in the identity manager
    syncId,     \* syncId[n]: node id the sync service was made with
    keyPair,    \* keyPair[n]: the pair that signs for n
    records,    \* records[n]: trust records in memory
    session,    \* session[s]: an attempt to enroll
    owner,      \* owner[n][i]: what became of n's owner revoking i
    ids,        \* ids[n]: number of ids that n made
    keys        \* keys[n]: number of key pairs that n made

process == <<up, ident, syncId, keyPair>>
made == <<ids, keys>>
vars == <<disk, process, records, session, owner, made>>

\* Ids and keys are named after the node that made them.
Id == UNION {{n} \X (1 .. MaxId[n]) : n \in Node}
Key == UNION {{n} \X (1 .. MaxKey[n]) : n \in Node}
ASSUME NoneAssumption == None \notin Id \cup Key

Card == [id : Id \cup {None}, key : Key \cup {None}]
Nobody == [id |-> None, key |-> None]
TrustStatus == {"UNKNOWN", "TRUSTED", "REVOKED"}
TrustRecord == [status : TrustStatus, key : Key \cup {None}]
Unknown == [status |-> "UNKNOWN", key |-> None]

\* The state a session is in for its caller; the dictionary of sessions holds
\* the final ones only. "RAISED" is an exception nobody turns into a state.
SessionState == {"unused", "AUTHENTICATING", "SYNCING", "READY", "REJECTED",
                 "FAILED", "RAISED", "lost"}

TypeOK ==
    /\ disk \in [Node -> [id : Id \cup {None}, public : Card,
                          private : Key \cup {None}, trust : [Id -> TrustRecord]]]
    /\ up \in [Node -> BOOLEAN]
    /\ ident \in [Node -> Id \cup {None}] /\ syncId \in [Node -> Id \cup {None}]
    /\ keyPair \in [Node -> Key \cup {None}]
    /\ records \in [Node -> [Id -> TrustRecord]]
    /\ session \in [Session -> [state : SessionState, call : Calls,
                                asked : Card, answers : SUBSET Card, told : Card]]
    /\ owner \in [Node -> [Id -> {"silent", "tried", "revoked"}]]
    /\ ids \in [Node -> Nat] /\ keys \in [Node -> Nat]
    /\ \A n \in Node : ids[n] \in 0 .. MaxId[n] /\ keys[n] \in 0 .. MaxKey[n]

Init ==
    /\ disk = [n \in Node |-> [id |-> None, public |-> Nobody, private |-> None,
                               trust |-> [i \in Id |-> Unknown]]]
    /\ up = [n \in Node |-> FALSE]
    /\ ident = [n \in Node |-> None] /\ syncId = [n \in Node |-> None]
    /\ keyPair = [n \in Node |-> None]
    /\ records = [n \in Node |-> [i \in Id |-> Unknown]]
    /\ session \in [Session -> [state : {"unused"}, call : Calls, asked : {Nobody},
                                answers : {{}}, told : {Nobody}]]
    /\ owner = [n \in Node |-> [i \in Id |-> "silent"]]
    /\ ids = [n \in Node |-> 0] /\ keys = [n \in Node |-> 0]

NewId(n) == <<n, ids[n] + 1>>
NewKey(n) == <<n, keys[n] + 1>>
MadeId == {i \in Id : i[2] <= ids[i[1]]}
MadeKey == {k \in Key : k[2] <= keys[k[1]]}

-----------------------------------------------------------------------------
(* The trust service.                                                      *)

\* grant_trust(): a key, when one is given, replaces the pinned one.
Granted(recs, i, k) ==
    [recs EXCEPT ![i] = [status |-> "TRUSTED", key |-> IF k = None THEN @.key ELSE k]]

\* The records in the file; there are none while there is no file.
Load(d) == d.trust

\* Memory changes, then the file; when the write fails the caller gets an
\* exception and memory stays changed.
Persist(n, recs, saved) ==
    /\ records' = [records EXCEPT ![n] = recs]
    /\ disk' = IF saved THEN [disk EXCEPT ![n].trust = recs] ELSE disk

\* The owner of a running node grants trust to another's id, giving no key, ...
OwnerGrants(n) ==
    \E i \in MadeId, saved \in BOOLEAN :
        /\ up[n] /\ i[1] # n
        /\ Persist(n, Granted(records[n], i, None), saved)
        /\ owner' = [owner EXCEPT ![n][i] = IF saved THEN "silent" ELSE "tried"]
        /\ UNCHANGED <<process, session, made>>

\* ... or revokes it.
OwnerRevokes(n) ==
    \E i \in MadeId, saved \in BOOLEAN :
        /\ up[n] /\ i[1] # n
        /\ Persist(n, [records[n] EXCEPT ![i].status = "REVOKED"], saved)
        /\ owner' = [owner EXCEPT ![n][i] = IF saved THEN "revoked" ELSE "tried"]
        /\ UNCHANGED <<process, session, made>>

-----------------------------------------------------------------------------
(* Start and end of a process. start() makes what is missing, one file     *)
(* after the other, and grants trust to its own id.                        *)

MakesId(n) == disk[n].id = None
WithId(n) == IF MakesId(n) THEN [disk[n] EXCEPT !.id = NewId(n)] ELSE disk[n]

\* The keys load when both files are there and the public one is for this id.
\* That the two belong together is not looked at.
MakesKeys(n) == disk[n].private = None \/ disk[n].public.id # WithId(n).id

WithPublic(n) ==
    IF MakesKeys(n)
    THEN [WithId(n) EXCEPT !.public = [id |-> WithId(n).id, key |-> NewKey(n)]]
    ELSE WithId(n)

\* Mutant: the private key stays in memory.
WithKeysUnsaved(n) == WithPublic(n)

WithKeys(n) ==
    IF MakesKeys(n) THEN [WithPublic(n) EXCEPT !.private = NewKey(n)] ELSE WithId(n)

\* The bounds stop recoveries and interruptions, never a start.
WithinBounds(n) ==
    /\ MakesId(n) => ids[n] < MaxId[n]
    /\ MakesKeys(n) => keys[n] < MaxKey[n]

Made(n) ==
    /\ ids' = IF MakesId(n) THEN [ids EXCEPT ![n] = @ + 1] ELSE ids
    /\ keys' = IF MakesKeys(n) THEN [keys EXCEPT ![n] = @ + 1] ELSE keys

Start(n) ==
    /\ ~up[n]
    /\ LET d == WithKeys(n)
       IN  /\ records' = [records EXCEPT ![n] = Granted(Load(d), d.id, d.public.key)]
           /\ disk' = [disk EXCEPT ![n] = [d EXCEPT !.trust = records'[n]]]
           /\ ident' = [ident EXCEPT ![n] = d.id]
           /\ syncId' = [syncId EXCEPT ![n] = d.id]
           /\ keyPair' = [keyPair EXCEPT ![n] = IF MakesKeys(n) THEN NewKey(n) ELSE d.private]
    /\ up' = [up EXCEPT ![n] = TRUE]
    /\ Made(n)
    /\ UNCHANGED <<session, owner>>

\* start() is interrupted before the first key file, between the two, or
\* before the trust file; a write that fails interrupts it as well.
StartInterrupted(n) ==
    /\ ~up[n] /\ WithinBounds(n)
    /\ \/ /\ MakesId(n) /\ disk' = [disk EXCEPT ![n] = WithId(n)]
          /\ ids' = [ids EXCEPT ![n] = @ + 1] /\ UNCHANGED keys
       \/ /\ MakesKeys(n) /\ Made(n)
          /\ \E files \in {WithPublic(n), WithKeys(n)} : disk' = [disk EXCEPT ![n] = files]
    /\ WithinBounds(n)'
    /\ UNCHANGED <<process, records, session, owner>>

\* The process ends. Who it was is kept as history.
Down(n) ==
    /\ up[n]
    /\ up' = [up EXCEPT ![n] = FALSE]
    /\ records' = [records EXCEPT ![n] = [i \in Id |-> Unknown]]
    /\ session' = [s \in Session |->
                     IF session[s].call[1] = n /\ session[s].state \in {"AUTHENTICATING", "SYNCING"}
                     THEN [session[s] EXCEPT !.state = "lost", !.answers = {}] ELSE session[s]]
    /\ UNCHANGED <<disk, ident, syncId, keyPair, owner, made>>

\* recover_device(IDENTITY_LOST): a new id, in the file and in the identity
\* manager. Keys, sync service and trust records stay as they are. (The other
\* scenarios change nothing that is modelled.)
RecoverIdentity(n) ==
    /\ up[n]
    /\ ids[n] < MaxId[n]
    /\ disk' = [disk EXCEPT ![n].id = NewId(n)]
    /\ ident' = [ident EXCEPT ![n] = NewId(n)]
    /\ ids' = [ids EXCEPT ![n] = @ + 1]
    /\ UNCHANGED <<up, syncId, keyPair, records, session, owner, keys>>
    /\ WithinBounds(n)'

-----------------------------------------------------------------------------
(* The handshake.                                                          *)

Device(s) == session[s].call[1]
Authority(s) == session[s].call[2]

\* execute_client_bootstrap() up to the transport: the request carries the id
\* and the key of the device and is signed with that key.
SendRequest(s) ==
    /\ session[s].state = "unused" /\ up[Device(s)]
    /\ session' = [session EXCEPT
           ![s].state = "AUTHENTICATING",
           ![s].asked = [id |-> ident[Device(s)], key |-> keyPair[Device(s)]]]
    /\ UNCHANGED <<disk, process, records, owner, made>>

\* An answer reaches a device that still waits for it.
Answers(s, answer) ==
    session' = IF session[s].state = "AUTHENTICATING"
               THEN [session EXCEPT ![s].answers = @ \cup {answer}] ELSE session

\* The signature covers id and key, and is made with the key.
SignatureHolds(s, request) == request = session[s].asked

\* Mutant: the signature is not verified.
WelcomeUnsigned(a, s, request) == records[a][request.id].status # "REVOKED"

\* Mutant: who comes with the pinned key is let in whatever the standing.
WelcomePinned(a, s, request) ==
    /\ SignatureHolds(s, request)
    /\ \/ records[a][request.id].status # "REVOKED"
       \/ records[a][request.id].key = request.key

Welcome(a, s, request) ==
    /\ SignatureHolds(s, request)
    /\ records[a][request.id].status # "REVOKED"

\* handle_incoming_request(): also late, again, or damaged on the way.
HandleRequest(s) ==
    LET a == Authority(s)
    IN  /\ up[a] /\ session[s].state # "unused"
        /\ \E i \in MadeId, k \in MadeKey :
             LET request == [id |-> i, key |-> k]
             IN  IF Welcome(a, s, request)
                 THEN \E saved \in BOOLEAN :
                        /\ Persist(a, Granted(records[a], i, k), saved)
                        /\ IF saved THEN Answers(s, [id |-> ident[a], key |-> keyPair[a]])
                                    ELSE UNCHANGED session
                 ELSE Answers(s, Nobody) /\ UNCHANGED <<records, disk>>
        /\ UNCHANGED <<process, owner, made>>

Ends(s, state) ==
    session' = [session EXCEPT ![s].state = state, ![s].answers = {}]

\* Mutant: the outcome where the state belongs.
TransportFailsOutcome(s) ==
    /\ session[s].state = "AUTHENTICATING"
    /\ Ends(s, "FAILED_TIMEOUT")
    /\ UNCHANGED <<disk, process, records, owner, made>>

\* The transport gives up, whether or not the request arrives yet.
TransportFails(s) ==
    /\ session[s].state = "AUTHENTICATING"
    /\ Ends(s, "FAILED")
    /\ UNCHANGED <<disk, process, records, owner, made>>

Rejected(s) ==
    /\ session[s].state = "AUTHENTICATING" /\ Nobody \in session[s].answers
    /\ Ends(s, "REJECTED")
    /\ UNCHANGED <<disk, process, records, owner, made>>

\* Mutant: the device takes the acceptance for the trust it has to record.
AcceptedUnrecorded(s) ==
    /\ session[s].state = "AUTHENTICATING"
    /\ \E answer \in session[s].answers \ {Nobody} :
         session' = [session EXCEPT ![s].state = "SYNCING", ![s].told = answer,
                                    ![s].answers = {}]
    /\ UNCHANGED <<disk, process, records, owner, made>>

\* The device trusts who accepted it, whatever it thought of them before. A
\* write that fails ends the attempt outside every try.
Accepted(s) ==
    /\ session[s].state = "AUTHENTICATING"
    /\ \E answer \in session[s].answers \ {Nobody}, saved \in BOOLEAN :
         /\ Persist(Device(s), Granted(records[Device(s)], answer.id, answer.key), saved)
         /\ session' = [session EXCEPT ![s].state = IF saved THEN "SYNCING" ELSE "RAISED",
                                       ![s].told = answer, ![s].answers = {}]
    /\ UNCHANGED <<process, owner, made>>

\* The local version is counted up, which may have to wait for its lock.
Synced(s) ==
    /\ session[s].state = "SYNCING"
    /\ Ends(s, "READY")
    /\ UNCHANGED <<disk, process, records, owner, made>>

Next ==
    \/ \E n \in Owners : OwnerGrants(n) \/ OwnerRevokes(n)
    \/ \E n \in Node : \/ Start(n) \/ StartInterrupted(n) \/ Down(n)
                       \/ RecoverIdentity(n)
    \/ \E s \in Session : \/ SendRequest(s) \/ HandleRequest(s)
                          \/ TransportFails(s) \/ Rejected(s)
                          \/ Accepted(s) \/ Synced(s)

Spec == Init /\ [][Next]_vars

-----------------------------------------------------------------------------
(* Properties.                                                             *)

\* b authenticates what m sends: sync/authenticator.py goes by the id of the
\* sender's sync service and by the key pinned for it, if there is one.
Understands(b, m) ==
    LET record == records[b][syncId[m]]
    IN  record.status = "TRUSTED" /\ record.key \in {None, keyPair[m]}

\* s enrolled its device as what the device is now, with an authority that is
\* what it was, and neither owner has revoked the other.
Enrolled(s) ==
    /\ session[s].state = "READY" /\ up[Device(s)] /\ up[Authority(s)]
    /\ session[s].asked.id = syncId[Device(s)]
    /\ session[s].told.id = syncId[Authority(s)]
    /\ owner[Authority(s)][session[s].asked.id] = "silent"
    /\ owner[Device(s)][session[s].told.id] = "silent"

\* The id of n was never shown with another key than the one n has.
OneKey(n) ==
    \A s \in Session : \A c \in {session[s].asked, session[s].told} :
        c.id = syncId[n] => c.key = keyPair[n]

\* After a bootstrap that reached READY device and authority understand each
\* other, through crashes, restarts, failed writes, other attempts and late
\* copies of requests, as long as neither id was shown with another key.
ReadyIsMutual ==
    \A s \in Session :
        Enrolled(s) /\ OneKey(Device(s)) /\ OneKey(Authority(s))
            => Understands(Authority(s), Device(s)) /\ Understands(Device(s), Authority(s))

\* What the owner of a node that enrolls nowhere has revoked stays revoked:
\* no request and no restart brings it back.
RevokedStaysOut ==
    \A n \in Node : up[n] /\ (\A c \in Calls : c[1] # n) =>
        \A i \in Id : owner[n][i] = "revoked" => records[n][i].status = "REVOKED"

\* A key that is pinned for another's id was shown with that id by a session:
\* damage on the way pins nothing.
PinnedIsShown ==
    \A n \in Node, i \in Id :
        i[1] # n /\ records[n][i].key # None
            => \E s \in Session : [id |-> i, key |-> records[n][i].key]
                                     \in {session[s].asked, session[s].told}

\* A node that starts as who it was when it last started has the same key,
\* whatever was interrupted in between (identity/crypto.py).
KeySurvivesRestart ==
    [][\A n \in Node : ~up[n] /\ up'[n] /\ syncId'[n] = syncId[n]
                           => keyPair'[n] = keyPair[n]]_vars

=============================================================================
