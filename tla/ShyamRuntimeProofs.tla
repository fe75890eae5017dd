------------------------- MODULE ShyamRuntimeProofs -------------------------
(***************************************************************************)
(* What the runtime guarantees whichever components are enabled and        *)
(* however they may answer.                                                *)
(*                                                                         *)
(* First ShyamRuntime: readiness is earned, the surface agrees with it,    *)
(* and a stopped runtime has nothing left running. Then ProviderFabric,    *)
(* which the runtime starts, with the navigation that chooses among what it*)
(* has registered: the best usable candidate, whatever the nodes offer, and*)
(* never a provider that could not be initialized.                         *)
(***************************************************************************)
EXTENDS ShyamRuntime, ProviderFabric, FiniteSetTheorems, NaturalsInduction,
        WellFoundedInduction, SequenceTheorems, TLAPS

-----------------------------------------------------------------------------
(* The inductive invariant.                                                *)

\* A runtime that calls itself READY knows every enabled component to be ready,
\* also while somebody holds the tracker's lock; and before start() has got
\* anywhere nothing is ready, so that connecting for the first time contradicts
\* no state.
ReadyInv ==
    /\ readiness = "READY" => \A c \in Enabled : comp[c] = "READY"
    /\ ReadyIsRegistered
    /\ status = "CREATED" => \A c \in Component : comp[c] # "READY"

\* Who may hold the lock, and that stop() finds every place it waits at.
LockInv ==
    /\ start = "endpoint" => status = "INITIALIZING" /\ stop = "no"
    /\ stop # "no" => status \in {"INITIALIZING", "RUNNING", "ERROR"}
    /\ poller = "publish" => holder = "poller"
    /\ poller # "none" => running \/ stop = "join"
    /\ stop = "join" => holder = "stop" /\ ~running
    /\ stop = "rest" => ~running /\ poller = "none" /\ holder = "nobody"
    /\ status \in {"CREATED", "STOPPED"} => IsQuiet

\* A change the surface has yet to see is the last one, and whoever published
\* it holds the lock until the surface has seen it.
SurfaceInv ==
    /\ subscribed => status \in {"RUNNING", "STOPPED"}
    /\ event # "none" => /\ subscribed /\ event = readiness
                           /\ holder \in {"poller", "caller"}
    /\ SurfaceTellsReadiness

IInv == TypeOK /\ ReadyInv /\ LockInv /\ SurfaceInv

-----------------------------------------------------------------------------
(* Rounds of polls.                                                        *)

\* A round keeps the types of what is known.
LEMMA PollTypes ==
    ASSUME TypeOK, Poll
    PROVE  /\ comp' \in [Component -> ComponentState]
           /\ readiness' \in Readiness
           /\ connection' \in [Component -> {"none", "good", "odd"}]
           /\ offered' \in [Component -> {"absent", "REGISTERED", "AVAILABLE", "UNAVAILABLE"}]
<1>1. \A c \in Component : StateAfter(c, world[c]) \in ComponentState
  BY DEF StateAfter, ComponentState
<1>2. \A c \in Component : ConnectionAfter(c, world[c]) \in {"none", "good", "odd"}
  BY DEF TypeOK, ConnectionAfter, Identity
<1>3. \A c \in Component :
          Availability(world[c]) \in {"absent", "REGISTERED", "AVAILABLE", "UNAVAILABLE"}
  BY DEF Availability
<1>4. Aggregate(PolledStates) \in Readiness
  BY DEF Aggregate, Readiness
<1>5. comp' \in [Component -> ComponentState]
  BY <1>1 DEF TypeOK, Poll, PolledStates
<1>6. connection' \in [Component -> {"none", "good", "odd"}]
  BY <1>2 DEF TypeOK, Poll
<1>7. offered' \in [Component -> {"absent", "REGISTERED", "AVAILABLE", "UNAVAILABLE"}]
  BY <1>3 DEF TypeOK, Poll
<1> QED
  BY <1>4, <1>5, <1>6, <1>7 DEF TypeOK, Poll

\* What a round finds of a component it reaches, or leaves of one it does not,
\* is registered when it is ready.
LEMMA PollRegisters ==
    ASSUME TypeOK, ReadyIsRegistered, Poll
    PROVE  ReadyIsRegistered'
<1> SUFFICES ASSUME NEW c \in Enabled, comp'[c] = "READY"
             PROVE  offered'[c] # "absent" /\ connection'[c] = "good"
  BY DEF ReadyIsRegistered
<1>1. c \in Component
  BY EnabledAssumption
<1>2. /\ comp'[c] = IF c \in Stored THEN StateAfter(c, world[c]) ELSE comp[c]
      /\ connection'[c] = IF c \in Reached THEN ConnectionAfter(c, world[c]) ELSE connection[c]
      /\ offered'[c] = IF c \in Stored /\ BecomesReady(c) THEN Availability(world[c])
                       ELSE offered[c]
  BY <1>1 DEF Poll, PolledStates
<1>3. Availability(world[c]) # "absent"
  BY DEF Availability
<1>4. connection[c] \in {"none", "good", "odd"}
  BY <1>1 DEF TypeOK
<1>5. StateAfter(c, world[c]) = "READY" => ConnectionAfter(c, world[c]) # "none"
  BY <1>4 DEF StateAfter, ConnectionAfter, Connects, Identity
<1>6. ConnectionAfter(c, world[c]) \in {"none", "good", "odd"}
  BY <1>4 DEF ConnectionAfter, Identity
<1>7. CASE c \in Stored /\ BecomesReady(c)
  BY <1>2, <1>3, <1>5, <1>6, <1>7 DEF Stored, Raises, BecomesReady
<1>8. CASE ~(c \in Stored /\ BecomesReady(c))
  <2>1. comp[c] = "READY"
    BY <1>2, <1>8 DEF BecomesReady
  <2>2. offered[c] # "absent" /\ connection[c] = "good"
    BY <2>1 DEF ReadyIsRegistered
  <2>3. c \in Reached => c \in Stored
    BY <2>1 DEF Stored, Raises, BecomesReady
  <2>4. c \in Stored => ConnectionAfter(c, world[c]) = "good"
    BY <1>2, <2>2 DEF StateAfter, ConnectionAfter
  <2> QED
    BY <1>2, <1>8, <2>2, <2>3, <2>4
<1> QED
  BY <1>7, <1>8

\* A round that ends well derives the aggregate from the states it stored, one
\* that raises can only have begun with a component that was not ready.
LEMMA PollAggregates ==
    ASSUME TypeOK, Poll, readiness = "READY" => \A c \in Enabled : comp[c] = "READY",
           readiness' = "READY"
    PROVE  \A c \in Enabled : comp'[c] = "READY"
<1>1. CASE RoundRaises
  <2>1. PICK c \in Enabled : comp[c] # "READY"
    BY <1>1 DEF RoundRaises, Reached, Raises, BecomesReady
  <2> QED
    BY <1>1, <2>1 DEF Poll
<1>2. CASE ~RoundRaises
  <2>1. Aggregate(PolledStates) = "READY"
    BY <1>2 DEF Poll
  <2>2. {PolledStates[c] : c \in Enabled} \subseteq {"READY"}
    BY <2>1 DEF Aggregate
  <2> QED
    BY <2>2 DEF Poll
<1> QED
  BY <1>1, <1>2

\* What is known of the components changes in start() and in rounds only.
LEMMA WhoLearns ==
    [Next]_vars => \/ StartServices
                   \/ Poll /\ (EndpointCreated \/ PollerPolls \/ PollNow)
                   \/ UNCHANGED known
  BY DEF Next, vars, EndpointFails, EndpointCreated, PollerWakes, PollerPolls, PollerReleases,
         PollerEnds, PollNow, CallerReleases, StopCalled, StopTracker, PollerJoined,
         StopServices, SurfaceStart, OnReadinessChanged, HandleRequest, RequestEnds,
         WorldChanges, Ended

-----------------------------------------------------------------------------
(* Each step preserves the invariant.                                      *)

LEMMA InvInit == Init => IInv
<1> SUFFICES ASSUME Init PROVE IInv
  OBVIOUS
<1>1. TypeOK
  BY DEF Init, TypeOK, LifecycleState, ComponentState, Readiness, SurfaceState
<1>2. ReadyInv
  BY EnabledAssumption DEF Init, ReadyInv, ReadyIsRegistered
<1>3. LockInv
  BY DEF Init, LockInv, IsQuiet
<1>4. SurfaceInv
  BY DEF Init, SurfaceInv, SurfaceTellsReadiness
<1> QED
  BY <1>1, <1>2, <1>3, <1>4 DEF IInv

LEMMA TypeStep == TypeOK /\ [Next]_vars => TypeOK'
<1> SUFFICES ASSUME TypeOK, [Next]_vars PROVE TypeOK'
  OBVIOUS
<1> USE DEF lifecycle, task, known, ui, vars
<1>1. CASE StartServices
  <2>1. \A c \in Component : Identity(world[c]) \in {"none", "good", "odd"}
    BY DEF Identity
  <2>2. \A c \in Component :
            Availability(world[c]) \in {"absent", "REGISTERED", "AVAILABLE", "UNAVAILABLE"}
    BY DEF Availability
  <2>3. /\ connection' \in [Component -> {"none", "good", "odd"}]
        /\ offered' \in [Component -> {"absent", "REGISTERED", "AVAILABLE", "UNAVAILABLE"}]
    BY <1>1, <2>1, <2>2 DEF StartServices, TypeOK
  <2>4. /\ status' \in LifecycleState /\ start' \in {"no", "endpoint"}
        /\ services' \subseteq Service
    BY <1>1 DEF StartServices, TypeOK, LifecycleState, Service
  <2> QED
    BY <1>1, <2>3, <2>4 DEF StartServices, TypeOK
<1>2. CASE EndpointCreated
  BY <1>2, PollTypes DEF EndpointCreated, TypeOK, LifecycleState, Service
<1>3. CASE PollerPolls
  BY <1>3, PollTypes DEF PollerPolls, TypeOK
<1>4. CASE PollNow
  BY <1>4, PollTypes DEF PollNow, TypeOK
<1>5. CASE EndpointFails \/ StopCalled \/ StopTracker \/ PollerJoined \/ StopServices
  <2>1. CASE EndpointFails
    BY <2>1 DEF EndpointFails, TypeOK, LifecycleState
  <2>2. CASE StopCalled \/ PollerJoined
    BY <2>2 DEF StopCalled, PollerJoined, TypeOK
  <2>3. CASE StopTracker
    BY <2>3 DEF StopTracker, TypeOK
  <2>4. CASE StopServices
    BY <2>4 DEF StopServices, TypeOK, LifecycleState
  <2> QED
    BY <1>5, <2>1, <2>2, <2>3, <2>4
<1>6. CASE PollerWakes \/ PollerReleases \/ PollerEnds \/ CallerReleases
  BY <1>6 DEF PollerWakes, PollerReleases, PollerEnds, CallerReleases, TypeOK
<1>7. CASE SurfaceStart \/ OnReadinessChanged \/ HandleRequest \/ RequestEnds
  <2>1. surface' \in SurfaceState
    BY <1>7 DEF SurfaceStart, OnReadinessChanged, HandleRequest, RequestEnds, Shown, TypeOK,
                SurfaceState
  <2>2. event' \in Readiness \cup {"none"} /\ subscribed' \in BOOLEAN
    BY <1>7 DEF SurfaceStart, OnReadinessChanged, HandleRequest, RequestEnds, TypeOK
  <2>3. UNCHANGED <<lifecycle, task, known, world>>
    BY <1>7 DEF SurfaceStart, OnReadinessChanged, HandleRequest, RequestEnds
  <2> QED
    BY <2>1, <2>2, <2>3 DEF TypeOK
<1>8. CASE WorldChanges
  <2>1. PICK c \in Enabled : \E reply \in Answers[c] : world' = [world EXCEPT ![c] = reply]
    BY <1>8 DEF WorldChanges
  <2>2. Answers[c] \subseteq Reply
    BY EnabledAssumption, AnswersAssumption
  <2> QED
    BY <1>8, <2>1, <2>2 DEF WorldChanges, TypeOK
<1>9. CASE UNCHANGED vars
  BY <1>9 DEF TypeOK
<1> QED
  BY <1>1, <1>2, <1>3, <1>4, <1>5, <1>6, <1>7, <1>8, <1>9 DEF Next, Ended

LEMMA ReadyStep == TypeOK /\ ReadyInv /\ LockInv /\ [Next]_vars => ReadyInv'
<1> SUFFICES ASSUME TypeOK, ReadyInv, LockInv, [Next]_vars PROVE ReadyInv'
  OBVIOUS
<1>1. CASE StartServices
  <2>1. comp' = comp /\ readiness' = readiness /\ status' # "CREATED"
    BY <1>1 DEF StartServices
  <2>2. \A c \in Enabled : comp[c] # "READY"
    BY <1>1, EnabledAssumption DEF StartServices, ReadyInv
  <2> QED
    BY <2>1, <2>2 DEF ReadyInv, ReadyIsRegistered
<1>2. CASE Poll /\ (EndpointCreated \/ PollerPolls \/ PollNow)
  <2>1. ReadyIsRegistered'
    BY <1>2, PollRegisters DEF ReadyInv
  <2>2. readiness' = "READY" => \A c \in Enabled : comp'[c] = "READY"
    BY <1>2, PollAggregates DEF ReadyInv
  <2>3. status' # "CREATED"
    BY <1>2 DEF EndpointCreated, PollerPolls, PollNow, LockInv, lifecycle, IsQuiet
  <2> QED
    BY <2>1, <2>2, <2>3 DEF ReadyInv
<1>3. CASE UNCHANGED known
  <2>1. status' = "CREATED" => status = "CREATED"
    BY DEF Next, vars, lifecycle, StartServices, EndpointFails, EndpointCreated, PollerWakes,
           PollerPolls, PollerReleases, PollerEnds, PollNow, CallerReleases, StopCalled,
           StopTracker, PollerJoined, StopServices, SurfaceStart, OnReadinessChanged,
           HandleRequest, RequestEnds, WorldChanges, Ended
  <2> QED
    BY <1>3, <2>1 DEF ReadyInv, ReadyIsRegistered, known
<1> QED
  BY <1>1, <1>2, <1>3, WhoLearns

LEMMA LockStep == TypeOK /\ LockInv /\ [Next]_vars => LockInv'
<1> SUFFICES ASSUME TypeOK, LockInv, [Next]_vars PROVE LockInv'
  OBVIOUS
<1> USE DEF LockInv, IsQuiet, lifecycle, task
<1>1. CASE StartServices
  BY <1>1 DEF StartServices
<1>2. CASE EndpointFails
  BY <1>2 DEF EndpointFails
<1>3. CASE EndpointCreated
  BY <1>3 DEF EndpointCreated
<1>4. CASE PollerWakes \/ PollerPolls \/ PollerReleases \/ PollerEnds
  BY <1>4 DEF PollerWakes, PollerPolls, PollerReleases, PollerEnds
<1>5. CASE PollNow \/ CallerReleases
  BY <1>5 DEF PollNow, CallerReleases
<1>6. CASE StopCalled
  BY <1>6 DEF StopCalled
<1>7. CASE StopTracker
  BY <1>7 DEF StopTracker, TypeOK
<1>8. CASE PollerJoined
  BY <1>8 DEF PollerJoined
<1>9. CASE StopServices
  BY <1>9 DEF StopServices
<1>10. CASE UNCHANGED <<lifecycle, task>>
  BY <1>10
<1> QED
  BY <1>1, <1>2, <1>3, <1>4, <1>5, <1>6, <1>7, <1>8, <1>9, <1>10
     DEF Next, vars, SurfaceStart, OnReadinessChanged, HandleRequest, RequestEnds,
         WorldChanges, Ended

LEMMA SurfaceStep == TypeOK /\ LockInv /\ SurfaceInv /\ [Next]_vars => SurfaceInv'
<1> SUFFICES ASSUME TypeOK, LockInv, SurfaceInv, [Next]_vars PROVE SurfaceInv'
  OBVIOUS
<1>0. readiness' # "none"
  BY TypeStep DEF TypeOK, Readiness
<1> USE DEF SurfaceInv, SurfaceTellsReadiness, lifecycle, task, known, ui
<1>1. CASE StartServices \/ EndpointFails
  BY <1>1 DEF StartServices, EndpointFails, LockInv
<1>2. CASE EndpointCreated
  \* Nobody listens yet, and what is published is lost.
  <2>1. ~subscribed
    BY <1>2 DEF EndpointCreated, LockInv
  <2>2. event = "none"
    BY <1>2 DEF EndpointCreated, LockInv, TypeOK
  <2> QED
    BY <1>2, <2>1, <2>2 DEF EndpointCreated
<1>3. CASE PollerPolls
  BY <1>0, <1>3 DEF PollerPolls
<1>4. CASE PollNow
  BY <1>0, <1>4 DEF PollNow
<1>5. CASE PollerWakes \/ PollerReleases \/ PollerEnds \/ CallerReleases
  BY <1>5 DEF PollerWakes, PollerReleases, PollerEnds, CallerReleases
<1>6. CASE StopCalled \/ StopTracker
  BY <1>6 DEF StopCalled, StopTracker
<1>7. CASE PollerJoined \/ StopServices
  BY <1>7 DEF PollerJoined, StopServices, LockInv, TypeOK
<1>8. CASE SurfaceStart
  BY <1>8 DEF SurfaceStart
<1>9. CASE OnReadinessChanged
  BY <1>9 DEF OnReadinessChanged, Shown
<1>10. CASE HandleRequest \/ RequestEnds
  BY <1>10 DEF HandleRequest, RequestEnds
<1>11. CASE WorldChanges \/ UNCHANGED vars
  BY <1>11 DEF WorldChanges, vars
<1> QED
  BY <1>1, <1>2, <1>3, <1>4, <1>5, <1>6, <1>7, <1>8, <1>9, <1>10, <1>11 DEF Next, Ended

LEMMA InvStep == IInv /\ [Next]_vars => IInv'
  BY TypeStep, ReadyStep, LockStep, SurfaceStep DEF IInv

LEMMA InvAlways == Spec => []IInv
  BY InvInit, InvStep, PTL DEF Spec

-----------------------------------------------------------------------------
(* The theorems.                                                           *)

\* The states of runtime, tracker, registries and surface (core/runtime.py,
\* core/readiness.py, surface/coordinator.py) always have their types.
THEOREM TypeCorrect == Spec => []TypeOK
<1>1. IInv => TypeOK
  BY DEF IInv
<1> QED
  BY <1>1, InvAlways, PTL

\* READY is earned and acted upon (core/readiness.py 233-345, 379-420): it means
\* that every enabled component is ready, and what is ready is registered and
\* can be described, although rounds may be cut short by exceptions.
THEOREM ReadyIsAlwaysEarned == Spec => []ReadyIsEarned
<1>1. IInv => ReadyIsEarned
  BY DEF IInv, ReadyInv, ReadyIsEarned, ReadyMeansReady
<1> QED
  BY <1>1, InvAlways, PTL

\* An idle or degraded surface says whether the ecosystem is ready, unless the
\* change is on its way to it (surface/coordinator.py 31-57).
THEOREM SurfaceAlwaysTellsReadiness == Spec => []SurfaceTellsReadiness
<1>1. IInv => SurfaceTellsReadiness
  BY DEF IInv, SurfaceInv
<1> QED
  BY <1>1, InvAlways, PTL

\* A runtime that is STOPPED has no service, no poller and no lock left, from
\* wherever start() got to before (core/runtime.py 494-551): the part of
\* StopEnds that needs no fairness.
THEOREM StoppedIsQuiet == Spec => [](status = "STOPPED" => IsQuiet)
<1>1. IInv => (status = "STOPPED" => IsQuiet)
  BY DEF IInv, LockInv
<1> QED
  BY <1>1, InvAlways, PTL

-----------------------------------------------------------------------------
(* Arranging a finite set.                                                 *)

\* R puts the elements of I in a row.
IsRow(I, R) ==
    /\ \A x \in I : <<x, x>> \notin R
    /\ \A x, y \in I : x = y \/ <<x, y>> \in R \/ <<y, x>> \in R
    /\ \A x, y, z \in I : <<x, y>> \in R /\ <<y, z>> \in R => <<x, z>> \in R

\* How many elements of I come before x.
Rank(I, R, x) == Cardinality({y \in I : <<y, x>> \in R})

\* Whoever comes later has a higher rank, and none is as high as the number of
\* all.
LEMMA RankGrows ==
    ASSUME NEW I, NEW R, IsFiniteSet(I), IsRow(I, R), NEW x \in I
    PROVE  /\ Rank(I, R, x) \in 0 .. Cardinality(I) - 1
           /\ \A y \in I : <<x, y>> \in R => Rank(I, R, x) < Rank(I, R, y)
<1> DEFINE Lower(y) == {z \in I : <<z, y>> \in R}
<1>1. \A y \in I : IsFiniteSet(Lower(y)) /\ Cardinality(Lower(y)) \in Nat
  BY FS_Subset, FS_CardinalityType
<1>2. /\ Cardinality(I) \in Nat
      /\ IsFiniteSet(I \ {x}) /\ Cardinality(I \ {x}) = Cardinality(I) - 1
  BY FS_CardinalityType, FS_RemoveElement
<1>3. Cardinality(Lower(x)) <= Cardinality(I \ {x})
  BY <1>2, FS_Subset, Lower(x) \in SUBSET (I \ {x}) DEF IsRow
<1>4. ASSUME NEW y \in I, <<x, y>> \in R
      PROVE  Cardinality(Lower(x)) < Cardinality(Lower(y))
  <2>1. Lower(x) \in SUBSET Lower(y) /\ Lower(x) # Lower(y)
    BY <1>4 DEF IsRow
  <2>2. Cardinality(Lower(x)) <= Cardinality(Lower(y)) /\ Cardinality(Lower(x)) # Cardinality(Lower(y))
    BY <1>1, <2>1, FS_Subset
  <2> QED
    BY <1>1, <2>2
<1> QED
  BY <1>1, <1>2, <1>3, <1>4 DEF Rank

\* No two elements have the same rank.
LEMMA RankTells ==
    ASSUME NEW I, NEW R, IsFiniteSet(I), IsRow(I, R),
           NEW x \in I, NEW y \in I, Rank(I, R, x) = Rank(I, R, y)
    PROVE  x = y
<1>1. <<x, y>> \in R \/ <<y, x>> \in R \/ x = y
  BY DEF IsRow
<1>2. Cardinality(I) \in Nat
  BY FS_CardinalityType
<1>3. Rank(I, R, x) \in Int /\ Rank(I, R, y) \in Int
  BY <1>2, RankGrows
<1> QED
  BY <1>1, <1>3, RankGrows

\* Each rank below that number is somebody's.
LEMMA RanksAreTaken ==
    ASSUME NEW I, NEW R, IsFiniteSet(I), IsRow(I, R), NEW n \in 1 .. Cardinality(I)
    PROVE  \E x \in I : Rank(I, R, x) = n - 1
<1> DEFINE ranks == 0 .. Cardinality(I) - 1
           rank == [x \in I |-> Rank(I, R, x)]
<1>1. Cardinality(I) \in Nat
  BY FS_CardinalityType
<1>2. IsFiniteSet(ranks) /\ Cardinality(ranks) = Cardinality(I)
  <2>1. /\ IsFiniteSet(ranks)
        /\ Cardinality(ranks) = IF 0 > Cardinality(I) - 1 THEN 0 ELSE Cardinality(I) - 1 - 0 + 1
    BY <1>1, FS_Interval, 0 \in Int, Cardinality(I) - 1 \in Int
  <2> QED
    BY <1>1, <2>1
<1>3. rank \in [I -> ranks]
  BY RankGrows
<1>4. \A x, y \in I : rank[x] = rank[y] => x = y
  BY RankTells
<1>5. rank \in Injection(I, ranks)
  BY <1>3, <1>4 DEF Injection, IsInjective
<1>6. rank \in Surjection(I, ranks)
  BY <1>2, <1>5, FS_Injection
<1>7. n - 1 \in ranks
  BY <1>1
<1>8. \A m \in ranks : \E x \in I : rank[x] = m
  BY <1>6 DEF Surjection
<1> QED
  BY <1>7, <1>8

\* What Arranged does: it takes the values at the places in I, one after the
\* other as R says.
LEMMA ArrangedGoes ==
    ASSUME NEW s, NEW I, NEW R, IsFiniteSet(I), IsRow(I, R)
    PROVE  \E at \in [1 .. Cardinality(I) -> I] :
              /\ Arranged(s, I, R) = [n \in 1 .. Cardinality(I) |-> s[at[n]]]
              /\ \A x \in I : \E n \in 1 .. Cardinality(I) : at[n] = x
              /\ \A m, n \in 1 .. Cardinality(I) : m < n => <<at[m], at[n]>> \in R
<1> DEFINE at == [n \in 1 .. Cardinality(I) |-> CHOOSE x \in I : Rank(I, R, x) = n - 1]
<1>0. Cardinality(I) \in Nat
  BY FS_CardinalityType
<1>1. \A n \in 1 .. Cardinality(I) : at[n] \in I /\ Rank(I, R, at[n]) = n - 1
  BY RanksAreTaken
<1>2. at \in [1 .. Cardinality(I) -> I]
  BY <1>1
<1>3. Arranged(s, I, R) = [n \in 1 .. Cardinality(I) |-> s[at[n]]]
  BY DEF Arranged, Rank
<1>4. \A x, y \in I : Rank(I, R, x) = Rank(I, R, y) => x = y
  BY RankTells
<1>5. ASSUME NEW x \in I
      PROVE  \E n \in 1 .. Cardinality(I) : at[n] = x
  <2>1. Rank(I, R, x) \in 0 .. Cardinality(I) - 1
    BY RankGrows
  <2>2. Rank(I, R, x) + 1 \in 1 .. Cardinality(I)
    BY <1>0, <2>1
  <2>3. Rank(I, R, at[Rank(I, R, x) + 1]) = Rank(I, R, x)
    BY <1>0, <1>1, <2>1, <2>2
  <2> QED
    BY <1>1, <1>4, <2>2, <2>3
<1>6. ASSUME NEW m \in 1 .. Cardinality(I), NEW n \in 1 .. Cardinality(I), m < n
      PROVE  <<at[m], at[n]>> \in R
  <2>1. at[m] # at[n] /\ ~(Rank(I, R, at[n]) < Rank(I, R, at[m]))
    BY <1>0, <1>1, <1>6
  <2> QED
    BY <1>1, <2>1, RankGrows DEF IsRow
<1> QED
  BY <1>2, <1>3, <1>5, <1>6

\* Numbers are in a row.
LEMMA NumbersAreInARow ==
    ASSUME NEW I \in SUBSET Int
    PROVE  IsRow(I, {p \in I \X I : p[1] < p[2]})
<1> DEFINE R == {p \in I \X I : p[1] < p[2]}
<1>1. \A x, y \in I : <<x, y>> \in R <=> x < y
  OBVIOUS
<1> HIDE DEF R
<1> QED
  BY <1>1 DEF IsRow

\* What is selected from a list is what is at the places that are kept.
LEMMA SelectedIs ==
    ASSUME NEW s, NEW N \in Nat, NEW I \in SUBSET (1 .. N)
    PROVE  /\ Cardinality(I) \in Nat
           /\ DOMAIN Selected(s, I) = 1 .. Cardinality(I)
           /\ \A n \in DOMAIN Selected(s, I) : \E i \in I : Selected(s, I)[n] = s[i]
           /\ \A i \in I : \E n \in DOMAIN Selected(s, I) : Selected(s, I)[n] = s[i]
<1> DEFINE R == {p \in I \X I : p[1] < p[2]}
<1>1. IsFiniteSet(1 .. N)
  BY FS_Interval
<1>2. IsFiniteSet(I) /\ Cardinality(I) \in Nat
  BY <1>1, FS_Subset, FS_CardinalityType
<1>3. IsRow(I, R)
  BY NumbersAreInARow
<1> HIDE DEF R
<1>4. PICK at \in [1 .. Cardinality(I) -> I] :
         /\ Arranged(s, I, R) = [n \in 1 .. Cardinality(I) |-> s[at[n]]]
         /\ \A x \in I : \E n \in 1 .. Cardinality(I) : at[n] = x
         /\ \A m, n \in 1 .. Cardinality(I) : m < n => <<at[m], at[n]>> \in R
  BY <1>2, <1>3, ArrangedGoes
<1>5. Selected(s, I) = [n \in 1 .. Cardinality(I) |-> s[at[n]]]
  BY <1>4 DEF Selected, R
<1>6. DOMAIN Selected(s, I) = 1 .. Cardinality(I)
  BY <1>5
<1>7. \A n \in 1 .. Cardinality(I) : Selected(s, I)[n] = s[at[n]]
  BY <1>5
<1>8. ASSUME NEW n \in DOMAIN Selected(s, I)
      PROVE  \E i \in I : Selected(s, I)[n] = s[i]
  <2>1. n \in 1 .. Cardinality(I) /\ at[n] \in I
    BY <1>4, <1>6
  <2> QED
    BY <1>7, <2>1
<1>9. ASSUME NEW i \in I
      PROVE  \E n \in DOMAIN Selected(s, I) : Selected(s, I)[n] = s[i]
  <2>1. PICK n \in 1 .. Cardinality(I) : at[n] = i
    BY <1>4
  <2> QED
    BY <1>6, <1>7, <2>1
<1> QED
  BY <1>2, <1>6, <1>8, <1>9

-----------------------------------------------------------------------------
(* Keys.                                                                   *)

\* How two tuples compare, written out.
LEMMA KeysCompare ==
    ASSUME NEW x, NEW y, DOMAIN x = 1 .. 5
    PROVE  LessThan(x, y) <=>
              \/ x[1] < y[1]
              \/ x[1] = y[1] /\ x[2] < y[2]
              \/ x[1] = y[1] /\ x[2] = y[2] /\ x[3] < y[3]
              \/ x[1] = y[1] /\ x[2] = y[2] /\ x[3] = y[3] /\ x[4] < y[4]
              \/ x[1] = y[1] /\ x[2] = y[2] /\ x[3] = y[3] /\ x[4] = y[4] /\ x[5] < y[5]
<1> DEFINE Less(n) == x[n] < y[n] /\ \A m \in 1 .. n - 1 : x[m] = y[m]
<1>1. DOMAIN x = {1, 2, 3, 4, 5}
  OBVIOUS
<1>2. Less(1) <=> x[1] < y[1]
  OBVIOUS
<1>3. Less(2) <=> x[1] = y[1] /\ x[2] < y[2]
  <2>1. 1 .. 2 - 1 = {1}
    OBVIOUS
  <2> QED
    BY <2>1
<1>4. Less(3) <=> x[1] = y[1] /\ x[2] = y[2] /\ x[3] < y[3]
  <2>1. 1 .. 3 - 1 = {1, 2}
    OBVIOUS
  <2> QED
    BY <2>1
<1>5. Less(4) <=> x[1] = y[1] /\ x[2] = y[2] /\ x[3] = y[3] /\ x[4] < y[4]
  <2>1. 1 .. 4 - 1 = {1, 2, 3}
    OBVIOUS
  <2> QED
    BY <2>1
<1>6. Less(5) <=> x[1] = y[1] /\ x[2] = y[2] /\ x[3] = y[3] /\ x[4] = y[4] /\ x[5] < y[5]
  <2>1. 1 .. 5 - 1 = {1, 2, 3, 4}
    OBVIOUS
  <2> QED
    BY <2>1
<1>7. LessThan(x, y) <=> \E n \in {1, 2, 3, 4, 5} : Less(n)
  BY <1>1 DEF LessThan
<1> HIDE DEF Less
<1> QED
  BY <1>2, <1>3, <1>4, <1>5, <1>6, <1>7

\* How two places of the lists compare.
LEMMA PlacesCompare ==
    ASSUME NEW x, NEW y, DOMAIN x = 1 .. 2
    PROVE  LessThan(x, y) <=> x[1] < y[1] \/ (x[1] = y[1] /\ x[2] < y[2])
<1> DEFINE Less(n) == x[n] < y[n] /\ \A m \in 1 .. n - 1 : x[m] = y[m]
<1>1. DOMAIN x = {1, 2}
  OBVIOUS
<1>2. Less(1) <=> x[1] < y[1]
  OBVIOUS
<1>3. Less(2) <=> x[1] = y[1] /\ x[2] < y[2]
  <2>1. 1 .. 2 - 1 = {1}
    OBVIOUS
  <2> QED
    BY <2>1
<1>4. LessThan(x, y) <=> \E n \in {1, 2} : Less(n)
  BY <1>1 DEF LessThan
<1> HIDE DEF Less
<1> QED
  BY <1>2, <1>3, <1>4

\* Ids are numbers.
HasIds(c) == c.node \in Nat /\ c.provider \in Nat /\ c.is_local \in BOOLEAN

\* How the keys of two candidates compare.
LEMMA CandidatesCompare ==
    ASSUME NEW k, NEW c, NEW d
    PROVE  LET P1(e) == Preference(k.preferred_node = e.node)
               P2(e) == Preference(k.preferred_provider = e.provider)
               P3(e) == Preference(e.is_local)
           IN  LessThan(RankingKey(c, k), RankingKey(d, k)) <=>
                  \/ P1(c) < P1(d)
                  \/ P1(c) = P1(d) /\ P2(c) < P2(d)
                  \/ P1(c) = P1(d) /\ P2(c) = P2(d) /\ P3(c) < P3(d)
                  \/ P1(c) = P1(d) /\ P2(c) = P2(d) /\ P3(c) = P3(d) /\ c.node < d.node
                  \/ P1(c) = P1(d) /\ P2(c) = P2(d) /\ P3(c) = P3(d) /\ c.node = d.node
                        /\ c.provider < d.provider
<1> DEFINE P1(e) == Preference(k.preferred_node = e.node)
           P2(e) == Preference(k.preferred_provider = e.provider)
           P3(e) == Preference(e.is_local)
           x == RankingKey(c, k)
           y == RankingKey(d, k)
<1>1. \A e : RankingKey(e, k) = <<P1(e), P2(e), P3(e), e.node, e.provider>>
  BY DEF RankingKey
<1> HIDE DEF P1, P2, P3
<1>2. /\ DOMAIN x = 1 .. 5
      /\ x[1] = P1(c) /\ x[2] = P2(c) /\ x[3] = P3(c) /\ x[4] = c.node /\ x[5] = c.provider
      /\ y[1] = P1(d) /\ y[2] = P2(d) /\ y[3] = P3(d) /\ y[4] = d.node /\ y[5] = d.provider
  BY <1>1
<1> HIDE DEF x, y
<1>3. LessThan(x, y) <=>
          \/ P1(c) < P1(d)
          \/ P1(c) = P1(d) /\ P2(c) < P2(d)
          \/ P1(c) = P1(d) /\ P2(c) = P2(d) /\ P3(c) < P3(d)
          \/ P1(c) = P1(d) /\ P2(c) = P2(d) /\ P3(c) = P3(d) /\ c.node < d.node
          \/ P1(c) = P1(d) /\ P2(c) = P2(d) /\ P3(c) = P3(d) /\ c.node = d.node
                /\ c.provider < d.provider
  BY <1>2, KeysCompare
<1> QED
  BY <1>3 DEF x, y, P1, P2, P3

\* Candidates are in a row, by their keys, then by their places.
LEMMA CandidatesAreInARow ==
    ASSUME NEW k, NEW cs, NEW N \in Nat, DOMAIN cs = 1 .. N,
           \A n \in DOMAIN cs : HasIds(cs[n])
    PROVE  IsRow(DOMAIN cs, Before(cs, k))
<1> DEFINE Key(n) == RankingKey(cs[n], k)
           P1(n) == Preference(k.preferred_node = cs[n].node)
           P2(n) == Preference(k.preferred_provider = cs[n].provider)
           P3(n) == Preference(cs[n].is_local)
           P4(n) == cs[n].node
           P5(n) == cs[n].provider
           Less(m, n) == \/ P1(m) < P1(n)
                         \/ P1(m) = P1(n) /\ P2(m) < P2(n)
                         \/ P1(m) = P1(n) /\ P2(m) = P2(n) /\ P3(m) < P3(n)
                         \/ P1(m) = P1(n) /\ P2(m) = P2(n) /\ P3(m) = P3(n) /\ P4(m) < P4(n)
                         \/ P1(m) = P1(n) /\ P2(m) = P2(n) /\ P3(m) = P3(n) /\ P4(m) = P4(n)
                               /\ P5(m) < P5(n)
<1>1. \A m, n \in DOMAIN cs : LessThan(Key(m), Key(n)) <=> Less(m, n)
  BY CandidatesCompare
<1>2. \A m, n \in DOMAIN cs : <<m, n>> \in Before(cs, k) <=>
          Less(m, n) \/ (~Less(n, m) /\ m < n)
  <2> HIDE DEF Less
  <2> QED
    BY <1>1 DEF Before
<1>3. \A n \in DOMAIN cs : P1(n) \in Nat /\ P2(n) \in Nat /\ P3(n) \in Nat
  BY DEF Preference
<1>4. \A n \in DOMAIN cs : P4(n) \in Nat /\ P5(n) \in Nat /\ n \in Nat
  BY DEF HasIds
<1> HIDE DEF Key, P1, P2, P3, P4, P5
<1> DEFINE Same(m, n) == /\ P1(m) = P1(n) /\ P2(m) = P2(n) /\ P3(m) = P3(n)
                         /\ P4(m) = P4(n) /\ P5(m) = P5(n)
\* Less is a weak order.
<1>5. ASSUME NEW l \in DOMAIN cs, NEW m \in DOMAIN cs, NEW n \in DOMAIN cs
      PROVE  /\ ~Less(m, m)
             /\ Less(l, m) /\ Less(m, n) => Less(l, n)
             /\ Less(l, m) \/ Less(m, l) \/ Same(l, m)
             /\ Same(l, m) /\ Less(n, l) => Less(n, m)
  <2>1. /\ P1(l) \in Nat /\ P1(m) \in Nat /\ P1(n) \in Nat
        /\ P2(l) \in Nat /\ P2(m) \in Nat /\ P2(n) \in Nat
        /\ P3(l) \in Nat /\ P3(m) \in Nat /\ P3(n) \in Nat
    BY <1>3
  <2>2. /\ P4(l) \in Nat /\ P4(m) \in Nat /\ P4(n) \in Nat
        /\ P5(l) \in Nat /\ P5(m) \in Nat /\ P5(n) \in Nat
    BY <1>4
  <2>3. ~Less(m, m)
    BY <2>1, <2>2
  <2>4. Less(l, m) /\ Less(m, n) => Less(l, n)
    BY <2>1, <2>2, SMTT(60)
  <2>5. Less(l, m) \/ Less(m, l) \/ Same(l, m)
    BY <2>1, <2>2
  <2>6. Same(l, m) /\ Less(n, l) => Less(n, m)
    OBVIOUS
  <2> QED
    BY <2>3, <2>4, <2>5, <2>6
<1> HIDE DEF Less, Same
<1>5a. \A l, m, n \in DOMAIN cs : ~Less(m, l) /\ ~Less(n, m) => ~Less(n, l)
  BY <1>5
<1>6. \A m \in DOMAIN cs : <<m, m>> \notin Before(cs, k)
  BY <1>2, <1>4, <1>5
<1>7. ASSUME NEW m \in DOMAIN cs, NEW n \in DOMAIN cs
      PROVE  m = n \/ <<m, n>> \in Before(cs, k) \/ <<n, m>> \in Before(cs, k)
  <2>1. m < n \/ n < m \/ m = n
    BY <1>4
  <2> QED
    BY <1>2, <2>1
<1>8. ASSUME NEW l \in DOMAIN cs, NEW m \in DOMAIN cs, NEW n \in DOMAIN cs,
             <<l, m>> \in Before(cs, k), <<m, n>> \in Before(cs, k)
      PROVE  <<l, n>> \in Before(cs, k)
  <2>1. Less(l, m) \/ (~Less(m, l) /\ l < m)
    BY <1>2, <1>8
  <2>2. Less(m, n) \/ (~Less(n, m) /\ m < n)
    BY <1>2, <1>8
  <2>3. l < m /\ m < n => l < n
    BY <1>4
  <2>4. ~Less(m, l)
    BY <1>5, <2>1
  <2>5. ~Less(n, m)
    BY <1>5, <2>2
  <2>6. ~Less(n, l)
    BY <1>5a, <2>4, <2>5
  <2>7. Less(l, m) => Less(l, n)
    \* Otherwise l is not less than n, nor n than m.
    <3>1. ~Less(n, m) /\ ~Less(l, n) => ~Less(l, m)
      BY <1>5a
    <3> QED
      BY <2>5, <3>1
  <2>8. Less(m, n) => Less(l, n)
    <3>1. ~Less(m, l) /\ ~Less(l, n) => ~Less(m, n)
      BY <1>5a
    <3> QED
      BY <2>4, <3>1
  <2> QED
    BY <1>2, <2>1, <2>2, <2>3, <2>6, <2>7, <2>8
<1> QED
  BY <1>6, <1>7, <1>8 DEF IsRow

-----------------------------------------------------------------------------
(* Navigation.                                                             *)

\* Candidates that come first by their keys or not at all are told apart by
\* their ids.
LEMMA KeysTell ==
    ASSUME NEW k, NEW c, HasIds(c), NEW d, HasIds(d)
    PROVE  \/ LessThan(RankingKey(c, k), RankingKey(d, k))
           \/ LessThan(RankingKey(d, k), RankingKey(c, k))
           \/ c.node = d.node /\ c.provider = d.provider
<1> DEFINE P1(e) == Preference(k.preferred_node = e.node)
           P2(e) == Preference(k.preferred_provider = e.provider)
           P3(e) == Preference(e.is_local)
<1>1. /\ P1(c) \in Nat /\ P2(c) \in Nat /\ P3(c) \in Nat /\ P1(d) \in Nat /\ P2(d) \in Nat /\ P3(d) \in Nat
      /\ c.node \in Nat /\ c.provider \in Nat /\ d.node \in Nat /\ d.provider \in Nat
  BY DEF Preference, HasIds
<1>2. LessThan(RankingKey(c, k), RankingKey(d, k)) <=>
          \/ P1(c) < P1(d)
          \/ P1(c) = P1(d) /\ P2(c) < P2(d)
          \/ P1(c) = P1(d) /\ P2(c) = P2(d) /\ P3(c) < P3(d)
          \/ P1(c) = P1(d) /\ P2(c) = P2(d) /\ P3(c) = P3(d) /\ c.node < d.node
          \/ P1(c) = P1(d) /\ P2(c) = P2(d) /\ P3(c) = P3(d) /\ c.node = d.node
                /\ c.provider < d.provider
  BY CandidatesCompare
<1>3. LessThan(RankingKey(d, k), RankingKey(c, k)) <=>
          \/ P1(d) < P1(c)
          \/ P1(d) = P1(c) /\ P2(d) < P2(c)
          \/ P1(d) = P1(c) /\ P2(d) = P2(c) /\ P3(d) < P3(c)
          \/ P1(d) = P1(c) /\ P2(d) = P2(c) /\ P3(d) = P3(c) /\ d.node < c.node
          \/ P1(d) = P1(c) /\ P2(d) = P2(c) /\ P3(d) = P3(c) /\ d.node = c.node
                /\ d.provider < c.provider
  BY CandidatesCompare
<1> HIDE DEF P1, P2, P3
<1> QED
  BY <1>1, <1>2, <1>3

\* Narrowing the choice down by the preferences leaves the one candidate whose
\* key is lower than all others'.
LEMMA FavouriteIsFirst ==
    ASSUME NEW k, NEW S, \A c \in S : HasIds(c), NEW x \in S,
           \A y \in S : y = x \/ LessThan(RankingKey(x, k), RankingKey(y, k))
    PROVE  Favourites(S, k) = {x}
<1> DEFINE OnNode(c)     == c.node = k.preferred_node
           ByProvider(c) == c.provider = k.preferred_provider
           IsLocal(c)    == c.is_local
           onNode     == Narrow(S, OnNode)
           byProvider == Narrow(onNode, ByProvider)
           inReach    == Narrow(byProvider, IsLocal)
           lowest     == {c \in inReach : \A d \in inReach : c.node <= d.node}
           As1(c) == OnNode(c) <=> OnNode(x)
           As2(c) == ByProvider(c) <=> ByProvider(x)
           As3(c) == IsLocal(c) <=> IsLocal(x)
\* What puts x before y, in terms of the preferences.
<1>1. \A y \in S : y # x =>
          \/ OnNode(x) /\ ~OnNode(y)
          \/ As1(y) /\ ByProvider(x) /\ ~ByProvider(y)
          \/ As1(y) /\ As2(y) /\ IsLocal(x) /\ ~IsLocal(y)
          \/ As1(y) /\ As2(y) /\ As3(y) /\ x.node < y.node
          \/ As1(y) /\ As2(y) /\ As3(y) /\ x.node = y.node /\ x.provider < y.provider
  <2> SUFFICES ASSUME NEW y \in S, y # x
               PROVE  \/ OnNode(x) /\ ~OnNode(y)
                      \/ As1(y) /\ ByProvider(x) /\ ~ByProvider(y)
                      \/ As1(y) /\ As2(y) /\ IsLocal(x) /\ ~IsLocal(y)
                      \/ As1(y) /\ As2(y) /\ As3(y) /\ x.node < y.node
                      \/ As1(y) /\ As2(y) /\ As3(y) /\ x.node = y.node /\ x.provider < y.provider
    OBVIOUS
  <2>1. LessThan(RankingKey(x, k), RankingKey(y, k))
    OBVIOUS
  <2> QED
    BY <2>1, CandidatesCompare DEF Preference
<1>2. \A c : c \in onNode <=> c \in S /\ As1(c)
  BY <1>1 DEF Narrow
<1>3. \A c : c \in byProvider <=> c \in onNode /\ As2(c)
  <2>1. \A c \in onNode : ByProvider(c) => ByProvider(x)
    BY <1>1, <1>2
  <2>2. x \in onNode
    BY <1>2
  <2> HIDE DEF onNode, ByProvider
  <2> QED
    BY <2>1, <2>2 DEF Narrow
<1>4. \A c : c \in inReach <=> c \in byProvider /\ As3(c)
  <2>1. \A c \in byProvider : IsLocal(c) => IsLocal(x)
    <3> HIDE DEF byProvider, onNode, OnNode, ByProvider
    <3> QED
      BY <1>1, <1>2, <1>3
  <2>2. x \in byProvider
    BY <1>2, <1>3
  <2>3. \A c \in byProvider : c \in S
    BY <1>2, <1>3
  <2> HIDE DEF byProvider
  <2> QED
    BY <2>1, <2>2, <2>3 DEF Narrow, HasIds
<1>5. Favourites(S, k) = {c \in lowest : \A d \in lowest : c.provider <= d.provider}
  BY DEF Favourites
<1> HIDE DEF onNode, byProvider, inReach
\* Among those that are left the ids decide.
<1>6. \A c \in inReach :
          /\ c \in S /\ c.node \in Nat /\ c.provider \in Nat
          /\ c # x => x.node < c.node \/ (x.node = c.node /\ x.provider < c.provider)
  <2> SUFFICES ASSUME NEW c \in inReach
               PROVE  /\ c \in S /\ c.node \in Nat /\ c.provider \in Nat
                      /\ c # x => x.node < c.node \/ (x.node = c.node /\ x.provider < c.provider)
    OBVIOUS
  <2>1. c \in S /\ As1(c) /\ As2(c) /\ As3(c)
    BY <1>2, <1>3, <1>4
  <2>2. c.node \in Nat /\ c.provider \in Nat
    BY <2>1 DEF HasIds
  <2> HIDE DEF OnNode, ByProvider, IsLocal
  <2> QED
    BY <1>1, <2>1, <2>2
<1>7. x \in inReach /\ x.node \in Nat /\ x.provider \in Nat
  BY <1>2, <1>3, <1>4 DEF HasIds
<1> HIDE DEF OnNode, ByProvider, IsLocal
<1>8. ASSUME NEW c \in inReach
      PROVE  x.node <= c.node /\ (c.node <= x.node => c.node = x.node)
  <2>1. /\ c.node \in Nat
        /\ c # x => x.node < c.node \/ x.node = c.node
    BY <1>6
  <2>2. c = x \/ x.node < c.node \/ x.node = c.node
    BY <2>1
  <2> QED
    BY <1>7, <2>1, <2>2
<1>9. \A c : c \in lowest <=> c \in inReach /\ c.node = x.node
  BY <1>7, <1>8
<1> HIDE DEF lowest
<1>10. ASSUME NEW c \in lowest
       PROVE  x.provider <= c.provider /\ (c.provider <= x.provider => c = x)
  <2>1. c \in inReach /\ c.node = x.node
    BY <1>9
  <2>2. /\ c.node \in Nat /\ c.provider \in Nat
        /\ c # x => x.node < c.node \/ x.provider < c.provider
    BY <1>6, <2>1
  <2>3. c = x \/ x.provider < c.provider
    BY <2>1, <2>2, <1>7
  <2> QED
    BY <1>7, <2>2, <2>3
<1>11. \A c : c \in {d \in lowest : \A e \in lowest : d.provider <= e.provider} <=> c = x
  BY <1>7, <1>9, <1>10
<1> QED
  BY <1>5, <1>11

\* Where there is nobody, nobody is preferred.
LEMMA NoFavouriteOfNone ==
    ASSUME NEW k
    PROVE  Favourites({}, k) = {}
  BY DEF Favourites, Narrow

\* The checks reject what is not usable.
LEMMA EligibleIsUsable ==
    ASSUME NEW k \in Constraints, NEW c \in Candidate(Capability)
    PROVE  Eligible(c, k) <=> Usable(c, k)
<1> DEFINE checks == Checks(c, k)
<1>1. DOMAIN checks = {1, 2, 3, 4, 5, 6, 7, 8}
  BY DEF Checks
<1>2. Eligible(c, k) <=> /\ checks[1] /\ checks[2] /\ checks[3] /\ checks[4]
                         /\ checks[5] /\ checks[6] /\ checks[7] /\ checks[8]
  <2> HIDE DEF checks
  <2> QED
    BY <1>1 DEF Eligible, checks
<1>3. /\ checks[1] <=> c.node_state # "unavailable"
      /\ checks[2] <=> c.node_state # "stale"
      /\ checks[3] <=> c.provider_status # "unavailable"
      /\ checks[4] <=> c.availability # "unavailable"
      /\ checks[5] <=> (k.local_only => c.is_local)
      /\ checks[6] <=> (~k.remote_allowed => c.is_local)
      /\ checks[7] <=> k.required_node_state \in {NotGiven, c.node_state}
      /\ checks[8] <=> k.required_provider_status \in {NotGiven, c.provider_status}
  BY DEF Checks
<1> HIDE DEF checks
<1>4. /\ c.node_state \in NodeState /\ c.is_local \in BOOLEAN
      /\ k.local_only \in BOOLEAN /\ k.remote_allowed \in BOOLEAN
  BY DEF Candidate, Constraints
<1> QED
  BY <1>2, <1>3, <1>4 DEF Usable, NodeState

\* A set of numbers that is not empty has a least one.
LEMMA LeastNatural ==
    ASSUME NEW S \in SUBSET Nat, S # {}
    PROVE  Min(S) \in S
<1>1. PICK n \in S : \A m \in S : ~(<<m, n>> \in OpToRel(<, Nat))
  BY NatLessThanWellFounded, WFMin
<1>2. \A m \in S : ~(m < n)
  BY <1>1 DEF OpToRel
<1>3. \A m \in S : n <= m
  BY <1>2
<1> QED
  BY <1>3 DEF Min

\* The reason given is a check that failed.
LEMMA ReasonApplies ==
    ASSUME NEW k, NEW c, ~Eligible(c, k)
    PROVE  ~Checks(c, k)[Reason(c, k)]
<1> DEFINE I == {n \in 1 .. Len(Checks(c, k)) : ~Checks(c, k)[n]}
<1>1. DOMAIN Checks(c, k) = 1 .. Len(Checks(c, k)) /\ Len(Checks(c, k)) \in Nat
  BY DEF Checks
<1>2. I # {} /\ I \in SUBSET Nat
  BY <1>1 DEF Eligible
<1>3. Reason(c, k) = Min(I)
  BY <1>2 DEF Reason, SelectInSeq
<1> QED
  BY <1>2, <1>3, LeastNatural

\* A list of candidates in which the same offer is the same candidate.
Agree(cs) == \A m, n \in DOMAIN cs : SameOffer(cs[m], cs[n]) => cs[m] = cs[n]

\* A candidate has numbers for ids, and is not NoCandidate.
LEMMA CandidatesHaveIds ==
    ASSUME NEW c \in Candidate(Capability)
    PROVE  HasIds(c) /\ c.node # None
  BY DEF Candidate, Id, HasIds, None

\* What Evaluate makes of candidates for one capability: a row of the usable
\* ones, each of which is the favourite of those from it on, and a list of the
\* others.
LEMMA EvaluateRanks ==
    ASSUME NEW k \in Constraints, NEW cs \in Seq(Candidate(Capability)),
           \A m, n \in DOMAIN cs : cs[m].capability = cs[n].capability, Agree(cs)
    PROVE  LET eligible == {n \in DOMAIN cs : Eligible(cs[n], k)}
               ranked   == Arranged(cs, eligible, Before(cs, k))
           IN  /\ ranked \in Seq(Candidate(Capability))
               /\ Len(ranked) = Cardinality(eligible)
               /\ Range(ranked) = {c \in Range(cs) : Usable(c, k)}
               /\ \A n \in 1 .. Len(ranked) :
                     Favourites({ranked[m] : m \in n .. Len(ranked)}, k) = {ranked[n]}
<1> DEFINE eligible == {n \in DOMAIN cs : Eligible(cs[n], k)}
           ranked   == Arranged(cs, eligible, Before(cs, k))
           N        == Cardinality(eligible)
<1>1. /\ Len(cs) \in Nat /\ DOMAIN cs = 1 .. Len(cs)
      /\ \A n \in DOMAIN cs : cs[n] \in Candidate(Capability)
  BY ElementOfSeq, LenProperties
<1>2. \A n \in DOMAIN cs : HasIds(cs[n])
  BY <1>1, CandidatesHaveIds
<1>3. IsRow(DOMAIN cs, Before(cs, k))
  BY <1>1, <1>2, CandidatesAreInARow
<1>4. IsRow(eligible, Before(cs, k))
  BY <1>3 DEF IsRow
<1>5. IsFiniteSet(DOMAIN cs)
  BY <1>1, FS_Interval
<1>6. IsFiniteSet(eligible) /\ N \in Nat
  BY <1>5, FS_Subset, FS_CardinalityType
<1> HIDE DEF eligible, N
<1>7. PICK at \in [1 .. Cardinality(eligible) -> eligible] :
         /\ Arranged(cs, eligible, Before(cs, k)) = [n \in 1 .. Cardinality(eligible) |-> cs[at[n]]]
         /\ \A x \in eligible : \E n \in 1 .. Cardinality(eligible) : at[n] = x
         /\ \A m, n \in 1 .. Cardinality(eligible) : m < n => <<at[m], at[n]>> \in Before(cs, k)
  BY <1>4, <1>6, ArrangedGoes
<1>8. ranked = [n \in 1 .. N |-> cs[at[n]]]
  BY <1>7 DEF N
<1>9. \A n \in 1 .. N : at[n] \in DOMAIN cs /\ Eligible(cs[at[n]], k)
  BY <1>7 DEF N, eligible
<1> HIDE DEF ranked
<1>10. /\ ranked \in Seq(Candidate(Capability)) /\ Len(ranked) = N
       /\ \A n \in 1 .. N : ranked[n] = cs[at[n]] /\ ranked[n] \in Candidate(Capability)
  <2>1. ranked \in [1 .. N -> Candidate(Capability)]
    BY <1>1, <1>8, <1>9
  <2> QED
    BY <1>6, <1>8, <2>1
<1>11. \A c : c \in Range(ranked) <=> c \in Range(cs) /\ Usable(c, k)
  <2>1. ASSUME NEW n \in 1 .. N
        PROVE  ranked[n] \in Range(cs) /\ Usable(ranked[n], k)
    BY <1>9, <1>10, <2>1, EligibleIsUsable DEF Range
  <2>2. ASSUME NEW i \in DOMAIN cs, Usable(cs[i], k)
        PROVE  cs[i] \in Range(ranked)
    <3>1. i \in eligible
      BY <1>1, <2>2, EligibleIsUsable DEF eligible
    <3>2. PICK n \in 1 .. N : at[n] = i
      BY <1>7, <3>1 DEF N
    <3> QED
      BY <1>8, <1>10, <3>2 DEF Range
  <2>3. DOMAIN ranked = 1 .. N
    BY <1>8
  <2> QED
    BY <2>1, <2>2, <2>3 DEF Range
<1>12. ASSUME NEW n \in 1 .. N
       PROVE  Favourites({ranked[m] : m \in n .. N}, k) = {ranked[n]}
  <2> DEFINE rest == {ranked[m] : m \in n .. N}
  <2>1. \A m \in n .. N : m \in 1 .. N
    BY <1>6
  <2>2. ranked[n] \in rest
    BY <1>6
  <2>3. \A c \in rest : HasIds(c)
    BY <1>10, <2>1, CandidatesHaveIds
  <2>4. ASSUME NEW m \in n .. N
        PROVE  ranked[m] = ranked[n] \/ LessThan(RankingKey(ranked[n], k), RankingKey(ranked[m], k))
    <3>1. m = n \/ <<at[n], at[m]>> \in Before(cs, k)
      <4>1. m = n \/ n < m
        BY <1>6
      <4>2. n < m => <<at[n], at[m]>> \in Before(cs, k)
        BY <1>7, <2>1 DEF N
      <4> QED
        BY <4>1, <4>2
    <3>2. <<at[m], at[n]>> \notin Before(cs, k)
      <4>1. m = n => <<at[m], at[n]>> \notin Before(cs, k)
        BY <1>3, <1>9 DEF IsRow
      <4>2. <<at[n], at[m]>> \in Before(cs, k) => <<at[m], at[n]>> \notin Before(cs, k)
        BY <1>3, <1>9, <2>1 DEF IsRow
      <4> QED
        BY <3>1, <4>1, <4>2
    <3>3. ~LessThan(RankingKey(ranked[m], k), RankingKey(ranked[n], k))
      BY <1>9, <1>10, <2>1, <3>2 DEF Before
    <3>4. \/ LessThan(RankingKey(ranked[n], k), RankingKey(ranked[m], k))
          \/ ranked[n].node = ranked[m].node /\ ranked[n].provider = ranked[m].provider
      BY <1>10, <2>1, <3>3, CandidatesHaveIds, KeysTell
    <3>5. ranked[n].node = ranked[m].node /\ ranked[n].provider = ranked[m].provider =>
             ranked[m] = ranked[n]
      BY <1>9, <1>10, <2>1 DEF Agree, SameOffer
    <3> QED
      BY <3>4, <3>5
  <2>5. \A y \in rest : y = ranked[n] \/ LessThan(RankingKey(ranked[n], k), RankingKey(y, k))
    BY <2>4
  <2> QED
    BY <2>2, <2>3, <2>5, FavouriteIsFirst
<1> QED
  BY <1>10, <1>11, <1>12 DEF ranked, eligible, N


\* The account that Evaluate gives is right.
LEMMA EvaluateAccounts ==
    ASSUME NEW k \in Constraints, NEW cs \in Seq(Candidate(Capability)),
           \A m, n \in DOMAIN cs : cs[m].capability = cs[n].capability, Agree(cs)
    PROVE  AccountsFor(cs, k, Evaluate(cs, k))
<1> DEFINE eligible == {n \in DOMAIN cs : Eligible(cs[n], k)}
           ranked   == Arranged(cs, eligible, Before(cs, k))
           failed   == Selected(cs, DOMAIN cs \ eligible)
           rejected == [n \in DOMAIN failed |->
                           [candidate |-> failed[n], reason |-> Reason(failed[n], k)]]
           result   == Evaluate(cs, k)
           usable   == {c \in Range(cs) : Usable(c, k)}
           others   == result.alternatives
           N        == Cardinality(eligible)
<1>1. /\ Len(cs) \in Nat /\ DOMAIN cs = 1 .. Len(cs)
      /\ \A n \in DOMAIN cs : cs[n] \in Candidate(Capability)
  BY ElementOfSeq, LenProperties
<1>2. /\ ranked \in Seq(Candidate(Capability)) /\ Len(ranked) = N
      /\ Range(ranked) = usable
      /\ \A n \in 1 .. Len(ranked) :
            Favourites({ranked[m] : m \in n .. Len(ranked)}, k) = {ranked[n]}
  BY EvaluateRanks
<1>3. /\ result.selected = IF ranked = <<>> THEN NoCandidate ELSE Head(ranked)
      /\ others = IF ranked = <<>> THEN <<>> ELSE Tail(ranked)
      /\ result.rejected = rejected
  BY DEF Evaluate
<1>4. /\ IsFiniteSet(DOMAIN cs) /\ Cardinality(DOMAIN cs) = Len(cs)
      /\ N \in Nat /\ IsFiniteSet(eligible)
      /\ Cardinality(DOMAIN cs \ eligible) = Len(cs) - N
  <2>1. IsFiniteSet(DOMAIN cs) /\ Cardinality(DOMAIN cs) = Len(cs)
    <3>1. /\ IsFiniteSet(1 .. Len(cs))
          /\ Cardinality(1 .. Len(cs)) = IF 1 > Len(cs) THEN 0 ELSE Len(cs) - 1 + 1
      BY <1>1, FS_Interval, 1 \in Int, Len(cs) \in Int
    <3> QED
      BY <1>1, <3>1
  <2>2. IsFiniteSet(eligible) /\ N \in Nat
    BY <2>1, FS_Subset, FS_CardinalityType
  <2>3. (DOMAIN cs) \cap eligible = eligible
    OBVIOUS
  <2> HIDE DEF eligible
  <2>4. Cardinality(DOMAIN cs \ eligible) = Cardinality(DOMAIN cs) - Cardinality((DOMAIN cs) \cap eligible)
    BY <2>1, FS_Difference
  <2> QED
    BY <2>1, <2>2, <2>3, <2>4
<1>5. /\ DOMAIN failed = 1 .. Len(cs) - N
      /\ \A n \in DOMAIN failed : \E i \in DOMAIN cs \ eligible : failed[n] = cs[i]
      /\ \A i \in DOMAIN cs \ eligible : \E n \in DOMAIN failed : failed[n] = cs[i]
  <2> DEFINE I == DOMAIN cs \ eligible
  <2>1. I \in SUBSET (1 .. Len(cs)) /\ Cardinality(I) = Len(cs) - N
    BY <1>1, <1>4
  <2> HIDE DEF I
  <2>2. /\ DOMAIN Selected(cs, I) = 1 .. Cardinality(I)
        /\ \A n \in DOMAIN Selected(cs, I) : \E i \in I : Selected(cs, I)[n] = cs[i]
        /\ \A i \in I : \E n \in DOMAIN Selected(cs, I) : Selected(cs, I)[n] = cs[i]
    BY <1>1, <2>1, SelectedIs
  <2>3. failed = Selected(cs, I)
    BY DEF I
  <2> HIDE DEF failed, eligible, N
  <2>4. DOMAIN failed = 1 .. Len(cs) - N
    BY <2>1, <2>2, <2>3
  <2>5. /\ \A n \in DOMAIN failed : \E i \in I : failed[n] = cs[i]
        /\ \A i \in I : \E n \in DOMAIN failed : failed[n] = cs[i]
    BY <2>2, <2>3
  <2> QED
    BY <2>4, <2>5 DEF I
<1>6. \A i \in DOMAIN cs : i \in eligible <=> Usable(cs[i], k)
  BY <1>1, EligibleIsUsable
<1> HIDE DEF eligible, ranked, failed, result, N
<1>7. {r.candidate : r \in Range(rejected)} = Range(cs) \ usable
  <2>1. \A c : c \in {r.candidate : r \in Range(rejected)} <=> \E n \in DOMAIN failed : c = failed[n]
    <3>1. \A n \in DOMAIN failed : rejected[n].candidate = failed[n]
      OBVIOUS
    <3>2. DOMAIN rejected = DOMAIN failed
      OBVIOUS
    <3> HIDE DEF rejected
    <3>3. \A r : r \in Range(rejected) <=> \E n \in DOMAIN failed : r = rejected[n]
      BY <3>2 DEF Range
    <3>4. \A c : c \in {r.candidate : r \in Range(rejected)} <=> \E r \in Range(rejected) : c = r.candidate
      OBVIOUS
    <3>5. \A c : (\E r \in Range(rejected) : c = r.candidate) <=> \E n \in DOMAIN failed : c = failed[n]
      BY <3>1, <3>3
    <3> QED
      BY <3>4, <3>5
  <2>2. \A c : c \in Range(cs) \ usable <=> \E i \in DOMAIN cs \ eligible : c = cs[i]
    BY <1>6 DEF Range
  <2> HIDE DEF usable, rejected
  <2>3. \A c : (\E n \in DOMAIN failed : c = failed[n]) <=> \E i \in DOMAIN cs \ eligible : c = cs[i]
    BY <1>5
  <2> QED
    BY <2>1, <2>2, <2>3
<1>8. \A r \in Range(rejected) : ~Checks(r.candidate, k)[r.reason]
  <2>1. \A n \in DOMAIN failed : ~Eligible(failed[n], k)
    BY <1>5 DEF eligible
  <2> QED
    BY <2>1, ReasonApplies DEF Range
<1>9. Len(rejected) = Len(cs) - N
  <2>1. Len(cs) - N \in Nat
    BY <1>4, FS_CardinalityType, FS_Difference
  <2> QED
    BY <1>5, <2>1
<1>10. ASSUME ranked = <<>>
       PROVE  /\ Favourites(usable, k) = {result.selected} \ {NoCandidate}
              /\ usable = ({result.selected} \ {NoCandidate}) \cup Range(others)
              /\ \A n \in DOMAIN others :
                    Favourites({others[m] : m \in n .. Len(others)}, k) = {others[n]}
              /\ Cardinality(Favourites(usable, k)) + Len(others) = N
  <2>1. result.selected = NoCandidate /\ others = <<>> /\ N = 0
    BY <1>2, <1>3, <1>10
  <2>2. usable = {} /\ Range(others) = {}
    BY <1>2, <1>10, <2>1 DEF Range
  <2>3. Favourites(usable, k) = {} /\ Cardinality({}) = 0
    BY <2>2, NoFavouriteOfNone, FS_EmptySet
  <2>4. DOMAIN others = {} /\ Len(others) = 0
    BY <2>1
  <2> HIDE DEF usable, others
  <2>5. {result.selected} \ {NoCandidate} = {}
    BY <2>1
  <2>6. Cardinality(Favourites(usable, k)) + Len(others) = N
    BY <2>1, <2>3, <2>4
  <2>7. \A n \in DOMAIN others : Favourites({others[m] : m \in n .. Len(others)}, k) = {others[n]}
    BY <2>4
  <2> QED
    BY <2>2, <2>3, <2>5, <2>6, <2>7
<1>11. ASSUME ranked # <<>>
       PROVE  /\ Favourites(usable, k) = {result.selected} \ {NoCandidate}
              /\ usable = ({result.selected} \ {NoCandidate}) \cup Range(others)
              /\ \A n \in DOMAIN others :
                    Favourites({others[m] : m \in n .. Len(others)}, k) = {others[n]}
              /\ Cardinality(Favourites(usable, k)) + Len(others) = N
  <2>1. /\ N \in Nat \ {0}
        /\ \A n \in 1 .. N : ranked[n] \in Candidate(Capability)
        /\ DOMAIN ranked = 1 .. N
    BY <1>2, <1>4, <1>11
  <2>2. result.selected = ranked[1]
    BY <1>2, <1>3, <1>11
  <2>3. /\ Len(others) = N - 1 /\ DOMAIN others = 1 .. N - 1
        /\ \A n \in 1 .. N - 1 : others[n] = ranked[n + 1]
    BY <1>2, <1>3, <1>11, HeadTailProperties
  <2>4. {result.selected} \ {NoCandidate} = {ranked[1]}
    <3>1. ranked[1] \in Candidate(Capability)
      BY <2>1
    <3>2. ranked[1].node # None
      BY <3>1, CandidatesHaveIds
    <3>3. ranked[1] # NoCandidate
      BY <3>2 DEF NoCandidate
    <3> QED
      BY <2>2, <3>3
  <2>5. usable = {ranked[m] : m \in 1 .. N}
    BY <1>2, <2>1 DEF Range
  <2>6. Favourites(usable, k) = {ranked[1]}
    <3>1. Favourites({ranked[m] : m \in 1 .. N}, k) = {ranked[1]}
      BY <1>2, <2>1
    <3> QED
      BY <2>5, <3>1
  <2>7. usable = {ranked[1]} \cup Range(others)
    <3>1. \A m \in 1 .. N : m = 1 \/ m - 1 \in 1 .. N - 1
      BY <2>1
    <3>2. \A m \in 1 .. N - 1 : m + 1 \in 1 .. N
      BY <2>1
    <3>3. Range(others) = {ranked[m + 1] : m \in 1 .. N - 1}
      BY <2>3 DEF Range
    <3>4. \A m \in 1 .. N : m = 1 \/ ranked[m] \in {ranked[l + 1] : l \in 1 .. N - 1}
      <4> SUFFICES ASSUME NEW m \in 1 .. N, m # 1
                   PROVE  \E l \in 1 .. N - 1 : ranked[m] = ranked[l + 1]
        OBVIOUS
      <4>1. m - 1 \in 1 .. N - 1 /\ (m - 1) + 1 = m
        BY <2>1
      <4> QED
        BY <4>1
    <3> HIDE DEF usable, others
    <3> QED
      BY <2>1, <2>5, <3>2, <3>3, <3>4
  <2>8. ASSUME NEW n \in 1 .. N - 1
        PROVE  Favourites({others[m] : m \in n .. N - 1}, k) = {others[n]}
    <3>1. n + 1 \in 1 .. N
      BY <2>1
    <3>2. \A c : c \in {others[m] : m \in n .. N - 1} <=> c \in {ranked[m] : m \in n + 1 .. N}
      <4> SUFFICES ASSUME NEW c
                   PROVE  (\E m \in n .. N - 1 : c = others[m]) <=> (\E m \in n + 1 .. N : c = ranked[m])
        OBVIOUS
      <4>1. ASSUME NEW m \in n .. N - 1
            PROVE  m + 1 \in n + 1 .. N /\ others[m] = ranked[m + 1]
        BY <2>1, <2>3
      <4>2. ASSUME NEW m \in n + 1 .. N
            PROVE  m - 1 \in n .. N - 1 /\ others[m - 1] = ranked[m]
        <5>1. m - 1 \in n .. N - 1 /\ m - 1 \in 1 .. N - 1 /\ (m - 1) + 1 = m
          BY <2>1
        <5> QED
          BY <2>3, <5>1
      <4> QED
        BY <4>1, <4>2
    <3>3. Favourites({ranked[m] : m \in n + 1 .. N}, k) = {ranked[n + 1]}
      BY <1>2, <3>1
    <3>4. {others[m] : m \in n .. N - 1} = {ranked[m] : m \in n + 1 .. N}
      BY <3>2
    <3> QED
      BY <2>3, <3>3, <3>4
  <2>9. Cardinality({ranked[1]}) = 1
    BY FS_Singleton
  <2> HIDE DEF usable, others
  <2>10. Cardinality(Favourites(usable, k)) + Len(others) = N
    BY <2>1, <2>3, <2>6, <2>9
  <2>11. \A n \in DOMAIN others : Favourites({others[m] : m \in n .. Len(others)}, k) = {others[n]}
    BY <2>3, <2>8
  <2> QED
    BY <2>4, <2>6, <2>7, <2>10, <2>11
<1>12. Len(rejected) \in Int /\ N \in Int /\ Len(cs) \in Int
  BY <1>1, <1>4, <1>9
<1> HIDE DEF usable, others, rejected
<1>13. AccountsFor(cs, k, result) <=>
          /\ Favourites(usable, k) = {result.selected} \ {NoCandidate}
          /\ usable = ({result.selected} \ {NoCandidate}) \cup Range(others)
          /\ \A n \in DOMAIN others :
                Favourites({others[m] : m \in n .. Len(others)}, k) = {others[n]}
          /\ {r.candidate : r \in Range(rejected)} = Range(cs) \ usable
          /\ Cardinality(Favourites(usable, k)) + Len(others) + Len(rejected) = Len(cs)
          /\ \A r \in Range(rejected) : ~Checks(r.candidate, k)[r.reason]
  BY <1>3 DEF AccountsFor, usable, others
<1>14. Cardinality(Favourites(usable, k)) + Len(others) + Len(rejected) = Len(cs)
  <2>1. Cardinality(Favourites(usable, k)) + Len(others) = N
    BY <1>10, <1>11
  <2> QED
    BY <1>9, <1>12, <2>1
<1> QED
  BY <1>7, <1>8, <1>10, <1>11, <1>13, <1>14 DEF result

\* The candidates for a capability are what the snapshot offers of it.
LEMMA CandidatesAreOffered ==
    ASSUME NEW snapshot \in Seq(Candidate(Capability)), NEW capability
    PROVE  LET cs == DiscoverCandidates(snapshot, capability)
           IN  /\ cs \in Seq(Candidate(Capability))
               /\ \A n \in DOMAIN cs : /\ cs[n].capability = capability
                                       /\ \E i \in DOMAIN snapshot : cs[n] = snapshot[i]
<1> DEFINE cs == DiscoverCandidates(snapshot, capability)
           I  == {n \in DOMAIN snapshot : snapshot[n].capability = capability}
<1>1. /\ Len(snapshot) \in Nat /\ I \in SUBSET (1 .. Len(snapshot))
      /\ \A i \in I : /\ i \in DOMAIN snapshot /\ snapshot[i].capability = capability
                      /\ snapshot[i] \in Candidate(Capability)
  BY ElementOfSeq, LenProperties
<1>2. cs = Selected(snapshot, I)
  BY DEF DiscoverCandidates
<1> HIDE DEF I, cs
<1>3. /\ Cardinality(I) \in Nat
      /\ DOMAIN cs = 1 .. Cardinality(I)
      /\ \A n \in DOMAIN cs : \E i \in I : cs[n] = snapshot[i]
  BY <1>1, <1>2, SelectedIs
<1>4. cs = [n \in 1 .. Cardinality(I) |-> cs[n]]
  BY <1>2, <1>3 DEF Selected, Arranged
<1>5. \A n \in 1 .. Cardinality(I) : cs[n] \in Candidate(Capability)
  BY <1>1, <1>3
<1>6. cs \in Seq(Candidate(Capability))
  BY <1>3, <1>4, <1>5
<1> QED
  BY <1>1, <1>3, <1>6 DEF cs

\* What navigate() answers (navigation/navigator.py 26-71, policy.py 27-157) is
\* right in every snapshot in which an offer has one value: it selects the best
\* of the usable candidates, ranks the alternatives so that each is what would
\* be selected without those before it, and rejects the others for a reason
\* that applies to them, however many there are and in whatever order they are
\* listed.
THEOREM NavigationAccounts ==
    ASSUME NEW snapshot \in Seq(Candidate(Capability)), Agree(snapshot),
           NEW request \in [capability : Capability, constraints : Constraints]
    PROVE  AccountsFor(DiscoverCandidates(snapshot, request.capability), request.constraints,
                       NavigateIn(snapshot, request))
<1> DEFINE cs == DiscoverCandidates(snapshot, request.capability)
<1>1. /\ cs \in Seq(Candidate(Capability))
      /\ \A n \in DOMAIN cs : /\ cs[n].capability = request.capability
                              /\ \E i \in DOMAIN snapshot : cs[n] = snapshot[i]
  BY CandidatesAreOffered
<1> HIDE DEF cs
<1>2. \A m, n \in DOMAIN cs : cs[m].capability = cs[n].capability
  BY <1>1
<1>3. Agree(cs)
  BY <1>1 DEF Agree
<1>4. request.constraints \in Constraints
  OBVIOUS
<1>5. AccountsFor(cs, request.constraints, Evaluate(cs, request.constraints))
  BY <1>1, <1>2, <1>3, <1>4, EvaluateAccounts
<1> QED
  BY <1>5 DEF NavigateIn, cs

-----------------------------------------------------------------------------
(* The registries.                                                         *)

Entry == [provider : Provider, status : AvailabilityStatus]

\* No two entries are for the same provider.
HasOneEach(registry) ==
    \A m, n \in DOMAIN registry : registry[m].provider = registry[n].provider => m = n

\* What FabricAssumption says of the constants, in the terms of the proofs.
LEMMA TypesOfConstants ==
    /\ Provider \subseteq Id
    /\ \A n \in 1 .. Len(LocalProviders) : LocalProviders[n] \in Fabric
    /\ Len(LocalProviders) \in Nat
    /\ \A p \in Provider : /\ Provides[p] \in Seq(Capability)
                           /\ DOMAIN Definitions[p] \subseteq Capability
                           /\ \A c \in DOMAIN Definitions[p] : Definitions[p][c] \in AvailabilityStatus
<1>1. /\ LocalProviders \in Seq(Id) /\ Len(LocalProviders) \in Nat
      /\ DOMAIN LocalProviders = 1 .. Len(LocalProviders)
      /\ \A n \in 1 .. Len(LocalProviders) : LocalProviders[n] \in Id
  BY FabricAssumption, ElementOfSeq, LenProperties
<1>2. Provider \subseteq Id
  BY <1>1, FabricAssumption DEF Provider, Fabric, Range
<1>3. \A n \in 1 .. Len(LocalProviders) : LocalProviders[n] \in Fabric
  BY <1>1 DEF Fabric, Range
<1>4. ASSUME NEW p \in Provider
      PROVE  /\ Provides[p] \in Seq(Capability)
             /\ DOMAIN Definitions[p] \subseteq Capability
             /\ \A c \in DOMAIN Definitions[p] : Definitions[p][c] \in AvailabilityStatus
  <2>1. Provides[p] \in Seq(Capability)
    BY FabricAssumption
  <2>2. Range(Provides[p]) \subseteq Capability
    BY <2>1, ElementOfSeq, LenProperties DEF Range
  <2> QED
    BY <2>1, <2>2, FabricAssumption DEF Range
<1> QED
  BY <1>1, <1>2, <1>3, <1>4

\* Put sets the entry of p, and leaves the others.
LEMMA PutSets ==
    ASSUME NEW registry \in Seq(Entry), HasOneEach(registry),
           NEW p \in Provider, NEW given \in AvailabilityStatus
    PROVE  LET put == Put(registry, p, given)
           IN  /\ put \in Seq(Entry)
               /\ HasOneEach(put)
               /\ \A n \in DOMAIN put : \/ put[n] = [provider |-> p, status |-> given]
                                        \/ /\ put[n].provider # p
                                           /\ \E m \in DOMAIN registry : put[n] = registry[m]
<1> DEFINE entry == [provider |-> p, status |-> given]
           I     == {i \in 1 .. Len(registry) : registry[i].provider = p}
           put   == Put(registry, p, given)
<1>1. /\ Len(registry) \in Nat /\ DOMAIN registry = 1 .. Len(registry)
      /\ \A n \in DOMAIN registry : registry[n] \in Entry
  BY ElementOfSeq, LenProperties
<1>2. entry \in Entry /\ entry.provider = p
  BY DEF Entry
<1>3. ASSUME I = {}
      PROVE  put = Append(registry, entry)
  BY <1>3 DEF Put, SelectInSeq
<1>4. ASSUME I # {}
      PROVE  \E i \in I : put = [registry EXCEPT ![i] = entry]
  <2>1. I \in SUBSET Nat
    BY <1>1
  <2>2. Min(I) \in I
    BY <1>4, <2>1, LeastNatural
  <2>3. put = IF Min(I) = 0 THEN Append(registry, entry) ELSE [registry EXCEPT ![Min(I)] = entry]
    BY <1>4 DEF Put, SelectInSeq
  <2>4. Min(I) # 0
    BY <1>1, <2>2
  <2> QED
    BY <2>2, <2>3, <2>4
<1> HIDE DEF put, entry
<1>5. CASE I = {}
  <2>1. \A n \in DOMAIN registry : registry[n].provider # p
    BY <1>1, <1>5
  <2>2. /\ put \in Seq(Entry) /\ DOMAIN put = 1 .. Len(registry) + 1
        /\ put[Len(registry) + 1] = entry
        /\ \A n \in DOMAIN registry : put[n] = registry[n]
    BY <1>1, <1>2, <1>3, <1>5, AppendProperties
  <2>3. \A n \in DOMAIN put : n \in DOMAIN registry \/ n = Len(registry) + 1
    BY <1>1, <2>2
  <2>4. HasOneEach(put)
    BY <1>2, <2>1, <2>2, <2>3 DEF HasOneEach
  <2> QED
    BY <2>1, <2>2, <2>3, <2>4 DEF put, entry
<1>6. CASE I # {}
  <2>1. PICK i \in I : put = [registry EXCEPT ![i] = entry]
    BY <1>4, <1>6
  <2>2. i \in DOMAIN registry /\ registry[i].provider = p
    BY <1>1
  <2>3. /\ DOMAIN put = DOMAIN registry /\ put[i] = entry
        /\ \A n \in DOMAIN registry : n # i => put[n] = registry[n]
    BY <2>1, <2>2
  <2>4. put \in Seq(Entry)
    BY <1>1, <1>2, <2>1, <2>2, ExceptSeq
  <2>5. \A n \in DOMAIN registry : n # i => registry[n].provider # p
    BY <2>2 DEF HasOneEach
  <2>6. HasOneEach(put)
    BY <1>2, <2>3, <2>5 DEF HasOneEach
  <2> QED
    BY <2>3, <2>4, <2>5, <2>6 DEF put, entry
<1> QED
  BY <1>5, <1>6

-----------------------------------------------------------------------------
(* The inductive invariant.                                                *)

\* The fabric is at one of its providers while it starts or stops.
PlaceInv ==
    /\ phase = "created" => current = 0 /\ providers = <<>>
    /\ phase \in {"starting", "stopping"} => current \in 1 .. Len(LocalProviders)

\* A provider of the fabric has been initialized, has failed, or is the one
\* that is being initialized.
VouchedFor(done, p, given) ==
    p \in Fabric => p \in done \/ given = "unavailable"

Vouched(p, given) == VouchedFor(initialized, p, given)

EntriesInv ==
    \A n \in DOMAIN providers :
        \/ Vouched(providers[n].provider, providers[n].status)
        \/ phase = "starting" /\ providers[n].provider = LocalProviders[current]

\* What discovery has seen of this node was complete.
LocalInv ==
    /\ \A n \in DOMAIN local : /\ local[n].node = LocalNode
                               /\ Vouched(local[n].provider, local[n].provider_status)
    /\ Agree(local)

FabricIInv ==
    /\ phase \in {"created", "starting", "up", "stopping", "stopped"}
    /\ current \in 0 .. Len(LocalProviders)
    /\ initialized \subseteq Fabric
    /\ providers \in Seq(Entry) /\ HasOneEach(providers)
    /\ DOMAIN capabilities \subseteq Capability
    /\ \A c \in DOMAIN capabilities : capabilities[c] \in AvailabilityStatus
    /\ local \in Seq(Candidate(Capability))
    /\ IsRemote(remote)
    /\ PlaceInv /\ EntriesInv /\ LocalInv

\* The offers of the local node are arranged from the lists of its providers.
LEMMA LocalOffersAre ==
    ASSUME FabricIInv
    PROVE  /\ LocalOffers \in Seq(Candidate(Capability))
           /\ \A n \in DOMAIN LocalOffers : \E m \in DOMAIN providers :
                 \E l \in DOMAIN Provides[providers[m].provider] : LocalOffers[n] = Offer(<<m, l>>)
<1> DEFINE List(n) == DOMAIN Provides[providers[n].provider]
           lists   == [n \in DOMAIN providers |-> {n} \X List(n)]
           places  == UNION {{n} \X List(n) : n \in DOMAIN providers}
           R       == {p \in places \X places : LessThan(p[1], p[2])}
           s       == [place \in places |-> Offer(place)]
<1>1. /\ Len(providers) \in Nat /\ DOMAIN providers = 1 .. Len(providers)
      /\ \A n \in DOMAIN providers : providers[n] \in Entry /\ providers[n].provider \in Provider
                                        /\ providers[n].status \in AvailabilityStatus
  <2>1. providers \in Seq(Entry)
    BY DEF FabricIInv
  <2>2. /\ Len(providers) \in Nat /\ DOMAIN providers = 1 .. Len(providers)
        /\ \A n \in DOMAIN providers : providers[n] \in Entry
    BY <2>1, ElementOfSeq, LenProperties
  <2> QED
    BY <2>2 DEF Entry
<1>2. \A n \in DOMAIN providers : \E N \in Nat : List(n) = 1 .. N
  BY <1>1, TypesOfConstants, LenProperties
<1>3. IsFiniteSet(places)
  <2>1. IsFiniteSet(DOMAIN providers)
    BY <1>1, FS_Interval
  <2>2. \A n \in DOMAIN providers : IsFiniteSet({n} \X List(n))
    <3> SUFFICES ASSUME NEW n \in DOMAIN providers
                 PROVE  IsFiniteSet({n} \X List(n))
      OBVIOUS
    <3>1. IsFiniteSet(List(n))
      BY <1>2, FS_Interval
    <3>2. IsFiniteSet({n})
      BY FS_Singleton
    <3> HIDE DEF List
    <3> QED
      BY <3>1, <3>2, FS_Product
  <2> HIDE DEF List
  <2> DEFINE T == {{n} \X List(n) : n \in DOMAIN providers}
  <2>3. lists \in Surjection(DOMAIN providers, T)
    <3>1. lists \in [DOMAIN providers -> T]
      OBVIOUS
    <3>2. \A t \in T : \E n \in DOMAIN providers : lists[n] = t
      OBVIOUS
    <3> QED
      BY <3>1, <3>2 DEF Surjection
  <2>4. IsFiniteSet(T)
    BY <2>1, <2>3, FS_Surjection
  <2>5. \A t \in T : IsFiniteSet(t)
    BY <2>2
  <2> QED
    BY <2>4, <2>5, FS_UNION
<1>4. \A p \in places : /\ p[1] \in DOMAIN providers /\ p[2] \in List(p[1])
                        /\ p[1] \in Nat /\ p[2] \in Nat
                        /\ p = <<p[1], p[2]>> /\ DOMAIN p = 1 .. 2
  <2> HIDE DEF List
  <2>1. \A p \in places : \E n \in DOMAIN providers : \E l \in List(n) : p = <<n, l>>
    OBVIOUS
  <2>2. \A n \in DOMAIN providers : n \in Nat /\ \A l \in List(n) : l \in Nat
    BY <1>1, <1>2
  <2> HIDE DEF places
  <2> SUFFICES ASSUME NEW p \in places
               PROVE  /\ p[1] \in DOMAIN providers /\ p[2] \in List(p[1])
                      /\ p[1] \in Nat /\ p[2] \in Nat
                      /\ p = <<p[1], p[2]>> /\ DOMAIN p = 1 .. 2
    OBVIOUS
  <2>3. PICK n \in DOMAIN providers : \E l \in List(n) : p = <<n, l>>
    BY <2>1
  <2>4. PICK l \in List(n) : p = <<n, l>>
    BY <2>3
  <2> QED
    BY <2>2, <2>4
<1> HIDE DEF places, List
<1>5. IsRow(places, R)
  <2>1. \A p, q \in places : <<p, q>> \in R <=> p[1] < q[1] \/ (p[1] = q[1] /\ p[2] < q[2])
    BY <1>4, PlacesCompare
  <2>2. \A p, q \in places : p[1] = q[1] /\ p[2] = q[2] => p = q
    BY <1>4
  <2> HIDE DEF R
  <2>3. \A p \in places : <<p, p>> \notin R
    BY <1>4, <2>1
  <2>4. ASSUME NEW p \in places, NEW q \in places
        PROVE  p = q \/ <<p, q>> \in R \/ <<q, p>> \in R
    BY <1>4, <2>1, <2>2
  <2>5. ASSUME NEW p \in places, NEW q \in places, NEW r \in places,
               <<p, q>> \in R, <<q, r>> \in R
        PROVE  <<p, r>> \in R
    BY <1>4, <2>1, <2>5
  <2> QED
    BY <2>3, <2>4, <2>5 DEF IsRow
<1>6. LocalOffers = Arranged(s, places, R)
  BY DEF LocalOffers, places, List
<1> HIDE DEF R
<1>7. PICK at \in [1 .. Cardinality(places) -> places] :
         /\ Arranged(s, places, R) = [n \in 1 .. Cardinality(places) |-> s[at[n]]]
         /\ \A x \in places : \E n \in 1 .. Cardinality(places) : at[n] = x
         /\ \A m, n \in 1 .. Cardinality(places) : m < n => <<at[m], at[n]>> \in R
  BY <1>3, <1>5, ArrangedGoes
<1>8. LocalOffers = [n \in 1 .. Cardinality(places) |-> Offer(at[n])]
  BY <1>6, <1>7
<1>9. \A p \in places : Offer(p) \in Candidate(Capability)
  <2> SUFFICES ASSUME NEW p \in places
               PROVE  Offer(p) \in Candidate(Capability)
    OBVIOUS
  <2>1. /\ providers[p[1]].provider \in Provider /\ providers[p[1]].status \in AvailabilityStatus
        /\ p[2] \in DOMAIN Provides[providers[p[1]].provider]
    BY <1>1, <1>4 DEF List
  <2>2. /\ providers[p[1]].provider \in Id
        /\ Provides[providers[p[1]].provider][p[2]] \in Capability
    BY <2>1, TypesOfConstants, ElementOfSeq, LenProperties
  <2>3. LocalNode \in Id
    BY FabricAssumption
  <2>4. \A c \in DOMAIN capabilities : capabilities[c] \in AvailabilityStatus
    BY DEF FabricIInv
  <2> QED
    BY <2>1, <2>2, <2>3, <2>4 DEF Offer, Candidate, NodeState
<1>10. Cardinality(places) \in Nat
  BY <1>3, FS_CardinalityType
<1>11. LocalOffers \in Seq(Candidate(Capability))
  <2>1. \A n \in 1 .. Cardinality(places) : Offer(at[n]) \in Candidate(Capability)
    BY <1>7, <1>9
  <2>2. LocalOffers \in [1 .. Cardinality(places) -> Candidate(Capability)]
    BY <1>8, <2>1
  <2> QED
    BY <1>10, <2>2
<1>12. ASSUME NEW n \in DOMAIN LocalOffers
       PROVE  \E m \in DOMAIN providers :
                 \E l \in DOMAIN Provides[providers[m].provider] : LocalOffers[n] = Offer(<<m, l>>)
  <2>1. at[n] \in places /\ LocalOffers[n] = Offer(at[n])
    BY <1>7, <1>8
  <2>2. /\ at[n][1] \in DOMAIN providers
        /\ at[n][2] \in DOMAIN Provides[providers[at[n][1]].provider]
        /\ at[n] = <<at[n][1], at[n][2]>>
    BY <1>4, <2>1 DEF List
  <2> QED
    BY <2>1, <2>2
<1> QED
  BY <1>11, <1>12

\* Once the fabric has started, what it offers is vouched for.
LEMMA OffersAreVouched ==
    ASSUME FabricIInv, phase \notin {"created", "starting"}
    PROVE  /\ \A n \in DOMAIN LocalOffers :
                 /\ LocalOffers[n].node = LocalNode
                 /\ Vouched(LocalOffers[n].provider, LocalOffers[n].provider_status)
           /\ Agree(LocalOffers)
<1>1. \A n \in DOMAIN LocalOffers : \E m \in DOMAIN providers :
         \E l \in DOMAIN Provides[providers[m].provider] : LocalOffers[n] = Offer(<<m, l>>)
  BY LocalOffersAre
<1>2. \A m, l : /\ Offer(<<m, l>>).node = LocalNode
                /\ Offer(<<m, l>>).provider = providers[m].provider
                /\ Offer(<<m, l>>).provider_status = providers[m].status
                /\ Offer(<<m, l>>).capability = Provides[providers[m].provider][l]
  BY DEF Offer
<1>3. \A m \in DOMAIN providers : Vouched(providers[m].provider, providers[m].status)
  BY DEF FabricIInv, EntriesInv
<1>4. \A m, l, j : Offer(<<m, l>>).capability = Offer(<<m, j>>).capability =>
                      Offer(<<m, l>>) = Offer(<<m, j>>)
  <2> DEFINE Of(e, c) ==
               [node |-> LocalNode, provider |-> e.provider, capability |-> c,
                is_local |-> TRUE, node_state |-> "available", provider_status |-> e.status,
                availability |-> IF c \in DOMAIN capabilities THEN capabilities[c] ELSE e.status]
  <2>1. \A m, l : Offer(<<m, l>>) = Of(providers[m], Provides[providers[m].provider][l])
    BY DEF Offer
  <2>2. \A e, c : Of(e, c).capability = c
    OBVIOUS
  <2> HIDE DEF Of
  <2> QED
    BY <2>1, <2>2
<1>5. HasOneEach(providers)
  BY DEF FabricIInv
<1>6. \A n \in DOMAIN LocalOffers :
         /\ LocalOffers[n].node = LocalNode
         /\ Vouched(LocalOffers[n].provider, LocalOffers[n].provider_status)
  <2> SUFFICES ASSUME NEW n \in DOMAIN LocalOffers
               PROVE  /\ LocalOffers[n].node = LocalNode
                      /\ Vouched(LocalOffers[n].provider, LocalOffers[n].provider_status)
    OBVIOUS
  <2>1. PICK m \in DOMAIN providers :
           \E l \in DOMAIN Provides[providers[m].provider] : LocalOffers[n] = Offer(<<m, l>>)
    BY <1>1
  <2>2. PICK l : LocalOffers[n] = Offer(<<m, l>>)
    BY <2>1
  <2> QED
    BY <1>2, <1>3, <2>2
<1>7. ASSUME NEW i \in DOMAIN LocalOffers, NEW j \in DOMAIN LocalOffers,
             SameOffer(LocalOffers[i], LocalOffers[j])
      PROVE  LocalOffers[i] = LocalOffers[j]
  <2>1. PICK m \in DOMAIN providers :
           \E l \in DOMAIN Provides[providers[m].provider] : LocalOffers[i] = Offer(<<m, l>>)
    BY <1>1
  <2>2. PICK l : LocalOffers[i] = Offer(<<m, l>>)
    BY <2>1
  <2>3. PICK q \in DOMAIN providers :
           \E r \in DOMAIN Provides[providers[q].provider] : LocalOffers[j] = Offer(<<q, r>>)
    BY <1>1
  <2>4. PICK r : LocalOffers[j] = Offer(<<q, r>>)
    BY <2>3
  <2>5. providers[m].provider = providers[q].provider
    BY <1>2, <1>7, <2>2, <2>4 DEF SameOffer
  <2>6. m = q
    BY <1>5, <2>5 DEF HasOneEach
  <2> QED
    BY <1>4, <1>7, <2>2, <2>4, <2>6 DEF SameOffer
<1> QED
  BY <1>6, <1>7 DEF Agree

\* The capabilities that are registered keep their types.
LEMMA DefinitionsKeepTypes ==
    ASSUME NEW p \in Provider, DOMAIN capabilities \subseteq Capability,
           \A c \in DOMAIN capabilities : capabilities[c] \in AvailabilityStatus
    PROVE  /\ DOMAIN Ensure(capabilities, p) \subseteq Capability
           /\ \A c \in DOMAIN Ensure(capabilities, p) : Ensure(capabilities, p)[c] \in AvailabilityStatus
           /\ DOMAIN Overwrite(capabilities, p) \subseteq Capability
           /\ \A c \in DOMAIN Overwrite(capabilities, p) : Overwrite(capabilities, p)[c] \in AvailabilityStatus
  BY TypesOfConstants DEF Ensure, Overwrite

\* What has been vouched for stays so.
LEMMA LocalStays ==
    ASSUME LocalInv, initialized \subseteq initialized', UNCHANGED local
    PROVE  LocalInv'
  BY DEF LocalInv, Vouched, VouchedFor, Agree

\* The fabric goes on with a registry in which all its entries are vouched for.
LEMMA TakeUpNextKeeps ==
    ASSUME FabricIInv, phase \in {"created", "starting"},
           NEW registry \in Seq(Entry), HasOneEach(registry),
           initialized \subseteq initialized', initialized' \subseteq Fabric,
           \A n \in DOMAIN registry :
              VouchedFor(initialized', registry[n].provider, registry[n].status),
           TakeUpNext(registry), UNCHANGED <<local, remote>>
    PROVE  FabricIInv'
<1>1. LocalInv'
  BY LocalStays DEF FabricIInv
<1>2. Len(LocalProviders) \in Nat /\ current \in 0 .. Len(LocalProviders)
  BY TypesOfConstants DEF FabricIInv
<1>3. CASE current = Len(LocalProviders)
  <2>1. phase' = "up" /\ providers' = registry /\ UNCHANGED <<current, capabilities>>
    BY <1>3 DEF TakeUpNext
  <2>2. PlaceInv'
    BY <2>1 DEF PlaceInv
  <2>3. EntriesInv'
    BY <2>1 DEF EntriesInv, Vouched, VouchedFor
  <2> QED
    BY <1>1, <2>1, <2>2, <2>3 DEF FabricIInv, HasOneEach, IsRemote
<1>4. CASE current # Len(LocalProviders)
  <2> DEFINE p == LocalProviders[current + 1]
  <2>1. /\ phase' = "starting" /\ current' = current + 1
        /\ capabilities' = Ensure(capabilities, p)
        /\ providers' = Put(registry, p, "registered")
    BY <1>4 DEF TakeUpNext
  <2>2. current + 1 \in 1 .. Len(LocalProviders)
    BY <1>2, <1>4
  <2>3. p \in Fabric /\ p \in Provider
    BY <2>2, TypesOfConstants DEF Provider
  <2>4. /\ providers' \in Seq(Entry) /\ HasOneEach(providers')
        /\ \A n \in DOMAIN providers' :
              \/ providers'[n] = [provider |-> p, status |-> "registered"]
              \/ \E m \in DOMAIN registry : providers'[n] = registry[m]
    <3>1. "registered" \in AvailabilityStatus
      BY DEF AvailabilityStatus
    <3> HIDE DEF p
    <3> QED
      BY <2>1, <2>3, <3>1, PutSets
  <2>5. PlaceInv'
    BY <2>1, <2>2 DEF PlaceInv
  <2>6. EntriesInv'
    BY <2>1, <2>4 DEF EntriesInv, Vouched, VouchedFor
  <2>7. /\ DOMAIN capabilities' \subseteq Capability
        /\ \A c \in DOMAIN capabilities' : capabilities'[c] \in AvailabilityStatus
    BY <2>1, <2>3, DefinitionsKeepTypes DEF FabricIInv
  <2>8. current' \in 0 .. Len(LocalProviders)
    BY <1>2, <2>1, <2>2
  <2>9. HasOneEach(providers)'
    BY <2>4 DEF HasOneEach
  <2> QED
    BY <1>1, <2>1, <2>4, <2>5, <2>6, <2>7, <2>8, <2>9 DEF FabricIInv, IsRemote
<1> QED
  BY <1>3, <1>4

\* The provider that is under way gets a status that is vouched for.
LEMMA InitializeEnds ==
    ASSUME FabricIInv, phase = "starting", NEW given \in {"available", "unavailable"},
           initialized' = initialized \cup
                             (IF given = "available" THEN {LocalProviders[current]} ELSE {}),
           TakeUpNext(Put(providers, LocalProviders[current], given)),
           UNCHANGED <<local, remote>>
    PROVE  FabricIInv'
<1> DEFINE p == LocalProviders[current]
           registry == Put(providers, p, given)
<1>1. p \in Fabric /\ p \in Provider /\ given \in AvailabilityStatus
  BY TypesOfConstants DEF FabricIInv, PlaceInv, Provider, AvailabilityStatus
<1> HIDE DEF p
<1>2. /\ registry \in Seq(Entry) /\ HasOneEach(registry)
      /\ \A n \in DOMAIN registry : \/ registry[n] = [provider |-> p, status |-> given]
                                    \/ /\ registry[n].provider # p
                                       /\ \E m \in DOMAIN providers : registry[n] = providers[m]
  BY <1>1, PutSets DEF FabricIInv
<1>3. initialized \subseteq initialized' /\ initialized' \subseteq Fabric
  BY <1>1 DEF FabricIInv, p
<1>4. given = "available" => p \in initialized'
  BY DEF p
<1>5. TakeUpNext(registry)
  BY DEF p
<1> HIDE DEF registry
<1>6. ASSUME NEW n \in DOMAIN registry
      PROVE  VouchedFor(initialized', registry[n].provider, registry[n].status)
  <2>1. CASE registry[n] = [provider |-> p, status |-> given]
    BY <1>4, <2>1 DEF Vouched, VouchedFor
  <2>2. CASE registry[n].provider # p /\ \E m \in DOMAIN providers : registry[n] = providers[m]
    <3>1. PICK m \in DOMAIN providers : registry[n] = providers[m]
      BY <2>2
    <3>2. Vouched(providers[m].provider, providers[m].status)
      BY <2>2, <3>1 DEF FabricIInv, EntriesInv, p
    <3> QED
      BY <1>3, <3>1, <3>2 DEF Vouched, VouchedFor
  <2> QED
    BY <1>2, <2>1, <2>2
<1>7. \A n \in DOMAIN registry :
         VouchedFor(initialized', registry[n].provider, registry[n].status)
  BY <1>6
<1> QED
  BY <1>2, <1>3, <1>5, <1>7, TakeUpNextKeeps

\* The invariant holds before the fabric has been started.
LEMMA FabricStarts ==
    ASSUME FabricInit
    PROVE  FabricIInv
<1>1. /\ providers \in Seq(Entry) /\ HasOneEach(providers)
      /\ local \in Seq(Candidate(Capability))
      /\ remote \in Seq(Candidate(Capability)) /\ DOMAIN remote = {} /\ DOMAIN local = {}
      /\ DOMAIN providers = {}
  BY DEF FabricInit, HasOneEach
<1>2. 0 \in 0 .. Len(LocalProviders)
  BY TypesOfConstants
<1> QED
  BY <1>1, <1>2 DEF FabricInit, FabricIInv, PlaceInv, EntriesInv, LocalInv, Agree, IsRemote

\* Every step keeps it.
LEMMA FabricStep ==
    ASSUME FabricIInv, [FabricNext]_fabricVars
    PROVE  FabricIInv'
<1>0. Len(LocalProviders) \in Nat
  BY TypesOfConstants
<1>1. CASE Start
  <2>1. /\ phase = "created" /\ providers = <<>> /\ TakeUpNext(providers)
        /\ UNCHANGED <<initialized, local, remote>>
    BY <1>1 DEF Start, FabricIInv, PlaceInv
  <2>2. \A n \in DOMAIN providers :
           VouchedFor(initialized', providers[n].provider, providers[n].status)
    BY <2>1
  <2>3. providers \in Seq(Entry) /\ HasOneEach(providers) /\ initialized' \subseteq Fabric
    BY <2>1 DEF FabricIInv
  <2> QED
    BY <2>1, <2>2, <2>3, TakeUpNextKeeps
<1>2. CASE InitializeReturns
  BY <1>2, InitializeEnds DEF InitializeReturns
<1>3. CASE InitializeRaises
  BY <1>3, InitializeEnds DEF InitializeRaises
<1>4. ASSUME NEW a \in Adapter, NEW given \in Reported[a], Integrate(a, given)
      PROVE  FabricIInv'
  <2>1. /\ phase = "up" /\ providers' = Put(providers, a, given)
        /\ capabilities' = Overwrite(capabilities, a)
        /\ UNCHANGED <<phase, current, initialized, local, remote>>
    BY <1>4 DEF Integrate
  <2>2. a \in Provider /\ a \notin Fabric /\ given \in AvailabilityStatus
    BY FabricAssumption DEF Provider, Fabric
  <2>3. /\ providers' \in Seq(Entry) /\ HasOneEach(providers')
        /\ \A n \in DOMAIN providers' :
              \/ providers'[n] = [provider |-> a, status |-> given]
              \/ \E m \in DOMAIN providers : providers'[n] = providers[m]
    BY <2>1, <2>2, PutSets DEF FabricIInv
  <2>4. EntriesInv'
    BY <2>1, <2>2, <2>3 DEF EntriesInv, Vouched, VouchedFor, FabricIInv
  <2>5. /\ DOMAIN capabilities' \subseteq Capability
        /\ \A c \in DOMAIN capabilities' : capabilities'[c] \in AvailabilityStatus
    BY <2>1, <2>2, DefinitionsKeepTypes DEF FabricIInv
  <2>6. LocalInv' /\ HasOneEach(providers)'
    BY <2>1, <2>3, LocalStays DEF FabricIInv, HasOneEach
  <2> QED
    BY <2>1, <2>3, <2>4, <2>5, <2>6 DEF FabricIInv, PlaceInv, IsRemote
<1>5. CASE Stop
  <2>1. /\ phase = "up" /\ phase' = IF current = 0 THEN "stopped" ELSE "stopping"
        /\ UNCHANGED <<current, initialized, providers, capabilities, local, remote>>
    BY <1>5 DEF Stop
  <2>2. PlaceInv' /\ EntriesInv' /\ LocalInv'
    BY <1>0, <2>1, LocalStays DEF FabricIInv, PlaceInv, EntriesInv, Vouched, VouchedFor
  <2> QED
    BY <2>1, <2>2 DEF FabricIInv, HasOneEach, IsRemote
<1>6. CASE ShutdownEnds
  <2>1. /\ phase = "stopping" /\ current' = current - 1
        /\ phase' = IF current = 1 THEN "stopped" ELSE "stopping"
        /\ UNCHANGED <<initialized, providers, capabilities, local, remote>>
    BY <1>6 DEF ShutdownEnds
  <2>2. current \in 1 .. Len(LocalProviders)
    BY <2>1 DEF FabricIInv, PlaceInv
  <2>3. PlaceInv' /\ current' \in 0 .. Len(LocalProviders)
    BY <1>0, <2>1, <2>2 DEF PlaceInv
  <2>4. EntriesInv' /\ LocalInv'
    BY <2>1, LocalStays DEF FabricIInv, EntriesInv, Vouched, VouchedFor
  <2> QED
    BY <2>1, <2>3, <2>4 DEF FabricIInv, HasOneEach, IsRemote
<1>7. CASE DiscoverLocalNode
  <2>1. /\ phase \notin {"created", "starting"} /\ local' = LocalOffers
        /\ UNCHANGED <<phase, current, initialized, providers, capabilities, remote>>
    BY <1>7 DEF DiscoverLocalNode
  <2>2. local' \in Seq(Candidate(Capability))
    BY <2>1, LocalOffersAre
  <2>3. LocalInv'
    BY <2>1, OffersAreVouched DEF LocalInv, Vouched, VouchedFor, Agree
  <2> QED
    BY <2>1, <2>2, <2>3 DEF FabricIInv, PlaceInv, EntriesInv, Vouched, VouchedFor, HasOneEach, IsRemote
<1>8. ASSUME NEW offers \in RemoteOffers, DiscoverRemoteNodes(offers)
      PROVE  FabricIInv'
  <2>1. /\ remote' = offers /\ IsRemote(offers)
        /\ UNCHANGED <<phase, current, initialized, providers, capabilities, local>>
    BY <1>8, FabricAssumption DEF DiscoverRemoteNodes
  <2> QED
    BY <2>1 DEF FabricIInv, PlaceInv, EntriesInv, LocalInv, Vouched, VouchedFor, HasOneEach, Agree, IsRemote
<1>9. CASE UNCHANGED fabricVars
  BY <1>9 DEF fabricVars, FabricIInv, PlaceInv, EntriesInv, LocalInv, Vouched, VouchedFor, HasOneEach, Agree, IsRemote
<1> QED
  BY <1>1, <1>2, <1>3, <1>4, <1>5, <1>6, <1>7, <1>8, <1>9 DEF FabricNext

-----------------------------------------------------------------------------
(* What follows from it.                                                   *)

\* What discovery has of the local node and what it has of the others make one
\* snapshot, in which an offer is told by its node, provider and capability.
LEMMA SnapshotIs ==
    ASSUME FabricIInv
    PROVE  /\ Snapshot \in Seq(Candidate(Capability))
           /\ Agree(Snapshot)
           /\ \A n \in DOMAIN Snapshot :
                 Snapshot[n].is_local => Vouched(Snapshot[n].provider, Snapshot[n].provider_status)
<1>1. local \in Seq(Candidate(Capability)) /\ remote \in Seq(Candidate(Capability))
  BY DEF FabricIInv, IsRemote
<1>2. /\ Snapshot \in Seq(Candidate(Capability))
      /\ \A n \in DOMAIN Snapshot : \/ \E i \in DOMAIN local : Snapshot[n] = local[i]
                                    \/ \E i \in DOMAIN remote : Snapshot[n] = remote[i]
  BY <1>1, ConcatProperties DEF Snapshot
<1>3. \A i \in DOMAIN local : /\ local[i].node = LocalNode
                              /\ Vouched(local[i].provider, local[i].provider_status)
  BY DEF FabricIInv, LocalInv
<1>4. \A i \in DOMAIN remote : remote[i].node # LocalNode /\ ~remote[i].is_local
  BY DEF FabricIInv, IsRemote
<1>5. ASSUME NEW m \in DOMAIN Snapshot, NEW n \in DOMAIN Snapshot,
             SameOffer(Snapshot[m], Snapshot[n])
      PROVE  Snapshot[m] = Snapshot[n]
  <2>1. Snapshot[m].node = Snapshot[n].node
    BY <1>5 DEF SameOffer
  <2>2. CASE \E i \in DOMAIN local : Snapshot[m] = local[i]
    <3>1. PICK i \in DOMAIN local : Snapshot[m] = local[i]
      BY <2>2
    <3>2. PICK j \in DOMAIN local : Snapshot[n] = local[j]
      BY <1>2, <1>3, <1>4, <2>1, <3>1
    <3> QED
      BY <1>5, <3>1, <3>2 DEF FabricIInv, LocalInv, Agree
  <2>3. CASE \E i \in DOMAIN remote : Snapshot[m] = remote[i]
    <3>1. PICK i \in DOMAIN remote : Snapshot[m] = remote[i]
      BY <2>3
    <3>2. PICK j \in DOMAIN remote : Snapshot[n] = remote[j]
      BY <1>2, <1>3, <1>4, <2>1, <3>1
    <3> QED
      BY <1>5, <3>1, <3>2 DEF FabricIInv, IsRemote
  <2> QED
    BY <1>2, <2>2, <2>3
<1> QED
  BY <1>2, <1>3, <1>4, <1>5 DEF Agree

\* What navigation chooses from such a snapshot.
LEMMA ChoicesAreVouched ==
    ASSUME FabricIInv, NEW request \in Request
    PROVE  LET result == NavigateIn(Snapshot, request)
           IN  /\ AccountsFor(DiscoverCandidates(Snapshot, request.capability),
                              request.constraints, result)
               /\ \A c \in {result.selected} \cup Range(result.alternatives) :
                     c # NoCandidate /\ c.is_local /\ c.provider \in Fabric =>
                        c.provider \in initialized
<1> DEFINE cs     == DiscoverCandidates(Snapshot, request.capability)
           k      == request.constraints
           result == NavigateIn(Snapshot, request)
<1>1. request \in [capability : Capability, constraints : Constraints]
  BY FabricAssumption
<1>2. AccountsFor(cs, k, result)
  BY <1>1, SnapshotIs, NavigationAccounts
<1>3. \A n \in DOMAIN cs : \E i \in DOMAIN Snapshot : cs[n] = Snapshot[i]
  BY SnapshotIs, CandidatesAreOffered
<1> HIDE DEF cs, result, k
<1>4. ASSUME NEW c \in {result.selected} \cup Range(result.alternatives),
             c # NoCandidate, c.is_local, c.provider \in Fabric
      PROVE  c.provider \in initialized
  <2>1. c \in {d \in Range(cs) : Usable(d, k)}
    BY <1>2, <1>4 DEF AccountsFor
  <2>2. c \in Range(cs) /\ c.provider_status # "unavailable"
    BY <2>1 DEF Usable
  <2>3. PICK i \in DOMAIN Snapshot : c = Snapshot[i]
    BY <1>3, <2>2 DEF Range
  <2> QED
    BY <1>4, <2>2, <2>3, SnapshotIs DEF Vouched, VouchedFor
<1> QED
  BY <1>2, <1>4 DEF cs, result, k

\* The types are part of it.
LEMMA FabricTypesFollow ==
    ASSUME FabricIInv
    PROVE  FabricTypeOK
<1>1. IsInjective([n \in DOMAIN providers |-> providers[n].provider])
  BY DEF FabricIInv, HasOneEach, IsInjective
<1>2. Range(capabilities) \subseteq AvailabilityStatus
  BY DEF FabricIInv, Range
<1> QED
  BY <1>1, <1>2, SnapshotIs DEF FabricIInv, FabricTypeOK, Entry

\* It always holds.
LEMMA FabricIsInvariant == FabricSpec => []FabricIInv
<1>1. FabricInit => FabricIInv
  BY FabricStarts
<1>2. FabricIInv /\ [FabricNext]_fabricVars => FabricIInv'
  BY FabricStep
<1> QED
  BY <1>1, <1>2, PTL DEF FabricSpec

\* Type correctness of the fabric and of the registries it shares with the
\* adapters: in particular a registry never has two entries for one provider,
\* however often one is registered again (providers/registry.py), and what the
\* ecosystem registry has of the nodes is a list of candidates.
THEOREM FabricTypesCorrect == FabricSpec => []FabricTypeOK
<1>1. FabricIInv => FabricTypeOK
  BY FabricTypesFollow
<1> QED
  BY <1>1, FabricIsInvariant, PTL

\* Whatever providers have been registered, have failed or have been announced
\* by other nodes, in whatever order, the navigator selects the best usable
\* candidate, ranks the others, and rejects the rest for a reason that applies
\* (navigation/policy.py 27-157).
THEOREM SelectionIsAlwaysBest == FabricSpec => []SelectionIsBest
<1>1. FabricIInv => SelectionIsBest
  BY ChoicesAreVouched DEF SelectionIsBest
<1> QED
  BY <1>1, FabricIsInvariant, PTL

\* Navigation never selects, nor falls back to, a provider of this node's
\* fabric whose initialize() has not returned (providers/fabric.py 73-95): the
\* failed one was marked before anybody could look, and nothing that is
\* registered later takes the mark away.
THEOREM ChoiceIsAlwaysUsable == FabricSpec => []ChoiceIsUsable
<1>1. FabricIInv => ChoiceIsUsable
  BY ChoicesAreVouched DEF ChoiceIsUsable
<1> QED
  BY <1>1, FabricIsInvariant, PTL

=============================================================================
