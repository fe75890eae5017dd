---------------------------- MODULE ShyamRuntime ----------------------------
(***************************************************************************)
(* One node from start to stop: the runtime's lifecycle (core/runtime.py), *)
(* the readiness tracker that watches Zarya and Flux (core/readiness.py)   *)
(* and the surface that people talk to (surface/coordinator.py).           *)
(*                                                                         *)
(* The calls to Zarya and Flux are synchronous and block the event loop,   *)
(* and publishing suspends only when somebody subscribed. So a round of    *)
(* polls is one step, unless it changes the aggregate while the surface is *)
(* subscribed: then the poller waits, holding the tracker's lock, until    *)
(* the surface's handler has run. What suspends besides: the creation of   *)
(* the UDP endpoint in start(), the poller's sleep, the wait for the lock, *)
(* and stop(), which holds the lock while it waits for the poller.         *)
(*                                                                         *)
(* start() and stop() exclude each other (runtime._lock). stop() passes    *)
(* STOPPING on its way, without suspending there; stop() of a runtime that *)
(* was never started only raises and is left out.                          *)
(***************************************************************************)
EXTENDS Naturals

Component == {"zarya", "flux"}

Reply == {"down",           \* no answer
          "incompatible",   \* another protocol, or what does not parse
          "odd",            \* all well, but its version is none for a Provider
          "starting",       \* maps to REGISTERED
          "unavailable",    \* stopping, degraded, initializing: UNAVAILABLE
          "up"}             \* maps to AVAILABLE

CONSTANTS
    Enabled,    \* the components the settings enable
    Answers     \* Answers[c]: how c may answer

ASSUME EnabledAssumption == Enabled \subseteq Component
ASSUME AnswersAssumption == Answers \in [Component -> SUBSET Reply \ {{}}]

VARIABLES
    status,      \* lifecycle state of the runtime
    start,       \* where start() is: "no", or waiting for the "endpoint"
    stop,        \* where stop() is: "no", at the "lock", the "join", the "rest"
    services,    \* which of the services that run on their own are running
    running,     \* the tracker's flag of that name
    poller,      \* its task: "none", "sleep", "wait", "publish", "ended"
    cancelled,   \* stop() has cancelled the poller
    holder,      \* who holds the tracker's lock while suspended
    comp,        \* comp[c]: readiness of c as the tracker knows it
    readiness,   \* the aggregate
    connection,  \* connection[c]: "none", or the identity c gave: "good", "odd"
    offered,     \* offered[c]: availability of c's provider in the registry
    surface,     \* SurfaceCoordinator.current_state
    subscribed,  \* the surface listens to changes of readiness
    event,       \* the change its handler has yet to see
    world        \* world[c]: how c answers just now

lifecycle == <<status, start, stop, services>>
task == <<running, poller, cancelled, holder>>
known == <<comp, readiness, connection, offered>>
ui == <<surface, subscribed, event>>
vars == <<lifecycle, task, known, ui, world>>

\* Of the enumerations, the members that a state between two steps can have.
LifecycleState == {"CREATED", "INITIALIZING", "RUNNING", "STOPPED", "ERROR"}
Readiness == {"STARTING", "READY", "DEGRADED"}
ComponentState == {"STARTING", "READY", "UNAVAILABLE", "FAILED"}
SurfaceState == {"IDLE", "DEGRADED", "EXECUTING", "COMPLETED", "FAILED"}
Service == {"fabric", "context", "discovery"}

TypeOK ==
    /\ status \in LifecycleState
    /\ start \in {"no", "endpoint"}
    /\ stop \in {"no", "lock", "join", "rest"}
    /\ services \subseteq Service
    /\ running \in BOOLEAN /\ cancelled \in BOOLEAN /\ subscribed \in BOOLEAN
    /\ poller \in {"none", "sleep", "wait", "publish", "ended"}
    /\ holder \in {"nobody", "poller", "caller", "stop"}
    /\ comp \in [Component -> ComponentState]
    /\ readiness \in Readiness
    /\ connection \in [Component -> {"none", "good", "odd"}]
    /\ offered \in [Component -> {"absent", "REGISTERED", "AVAILABLE", "UNAVAILABLE"}]
    /\ surface \in SurfaceState
    /\ event \in Readiness \cup {"none"}
    /\ world \in [Component -> Reply]

Init ==
    /\ status = "CREATED" /\ start = "no" /\ stop = "no" /\ services = {}
    /\ running = FALSE /\ poller = "none" /\ cancelled = FALSE /\ holder = "nobody"
    /\ comp = [c \in Component |-> "STARTING"]
    /\ readiness = "STARTING"
    /\ connection = [c \in Component |-> "none"]
    /\ offered = [c \in Component |-> "absent"]
    /\ surface = "IDLE" /\ subscribed = FALSE /\ event = "none"
    /\ world \in [Component -> Reply] /\ \A c \in Component : world[c] \in Answers[c]

-----------------------------------------------------------------------------
(* Zarya and Flux as their providers see them.                             *)

\* What a status response maps to.
Availability(reply) ==
    CASE reply = "starting"    -> "REGISTERED"
      [] reply = "unavailable" -> "UNAVAILABLE"
      [] OTHER                 -> "AVAILABLE"

\* connect(): it reaches everybody who answers in the right protocol, however
\* available, and an incompatible component raises.
Connects(reply) == reply \notin {"down", "incompatible"}

Identity(reply) == IF reply = "odd" THEN "odd" ELSE "good"

\* What a provider is after a poll: still or newly connected, or not. A failed
\* refresh disconnects, and the identity is the one given when it connected.
ConnectionAfter(c, reply) ==
    IF connection[c] = "none"
    THEN IF Connects(reply) THEN Identity(reply) ELSE "none"
    ELSE IF reply = "down" THEN "none" ELSE connection[c]

\* The state a poll finds: READY on connecting, else as the status says.
StateAfter(c, reply) ==
    IF connection[c] = "none"
    THEN CASE reply = "down"         -> "UNAVAILABLE"
           [] reply = "incompatible" -> "FAILED"
           [] OTHER                  -> "READY"
    ELSE CASE reply = "down" \/ Availability(reply) = "UNAVAILABLE" -> "UNAVAILABLE"
           [] Availability(reply) = "REGISTERED"                    -> "STARTING"
           [] OTHER                                                 -> "READY"

\* Mutant: the state the enumeration has for it, and nobody else expects.
AggregateUnavailable(states) ==
    LET active == {states[c] : c \in Enabled}
    IN  CASE active \subseteq {"READY"} -> "READY"
          [] "READY" \in active        -> "DEGRADED"
          [] "STARTING" \in active     -> "STARTING"
          [] OTHER                     -> "UNAVAILABLE"

\* The aggregate of the states of the enabled components; the node itself is
\* ready before the first poll.
Aggregate(states) ==
    LET active == {states[c] : c \in Enabled}
    IN  CASE active \subseteq {"READY"} -> "READY"
          [] "READY" \in active        -> "DEGRADED"
          [] "STARTING" \in active     -> "STARTING"
          [] OTHER                     -> "DEGRADED"

\* c is polled and has just become ready.
BecomesReady(c) == StateAfter(c, world[c]) = "READY" /\ comp[c] # "READY"

\* The reaction to that registers c's provider, which raises for an odd one.
Raises(c) ==
    c \in Enabled /\ BecomesReady(c) /\ ConnectionAfter(c, world[c]) = "odd"

\* A round polls Zarya, then Flux, and derives the aggregate; an exception of
\* a reaction ends it, before the state it reacts to is stored.
Reached == {c \in Enabled : c = "flux" => ~Raises("zarya")}
Stored == {c \in Reached : ~Raises(c)}
RoundRaises == \E c \in Reached : Raises(c)

PolledStates ==
    [c \in Component |-> IF c \in Stored THEN StateAfter(c, world[c]) ELSE comp[c]]

\* Mutant: the aggregate is derived from the states of the last round.
PollAggregateFirst ==
    /\ comp' = PolledStates
    /\ connection' = [c \in Component |->
           IF c \in Reached THEN ConnectionAfter(c, world[c]) ELSE connection[c]]
    /\ offered' = [c \in Component |->
           IF c \in Stored /\ BecomesReady(c) THEN Availability(world[c]) ELSE offered[c]]
    /\ readiness' = IF RoundRaises THEN readiness ELSE Aggregate(comp)

Poll ==
    /\ comp' = PolledStates
    /\ connection' = [c \in Component |->
           IF c \in Reached THEN ConnectionAfter(c, world[c]) ELSE connection[c]]
    /\ offered' = [c \in Component |->
           IF c \in Stored /\ BecomesReady(c) THEN Availability(world[c]) ELSE offered[c]]
    /\ readiness' = IF RoundRaises THEN readiness ELSE Aggregate(PolledStates)

-----------------------------------------------------------------------------
(* start()                                                                 *)

\* Connecting and registering one component at start: either may raise.
StartFails(c) == c \in Enabled /\ world[c] \in {"incompatible", "odd"}

\* Everything up to the UDP endpoint. Identity, keys or the trust file may
\* fail before any service runs; Zarya or Flux after the fabric was started.
StartServices ==
    /\ status = "CREATED" /\ start = "no"
    /\ \/ /\ status' = "ERROR"
          /\ UNCHANGED <<start, services, connection, offered>>
       \/ LET tried == {c \in Enabled : c = "flux" => ~StartFails("zarya")}
              met == {c \in tried : Connects(world[c])}
              failed == \E c \in tried : StartFails(c)
          IN  /\ connection' = [c \in Component |->
                     IF c \in met THEN Identity(world[c]) ELSE connection[c]]
              /\ offered' = [c \in Component |->
                     IF c \in met /\ ~StartFails(c)
                     THEN Availability(world[c]) ELSE offered[c]]
              /\ status' = IF failed THEN "ERROR" ELSE "INITIALIZING"
              /\ start' = IF failed THEN "no" ELSE "endpoint"
              /\ services' = IF failed THEN {"fabric"} ELSE {"fabric", "context"}
    /\ UNCHANGED <<stop, task, comp, readiness, ui, world>>

EndpointFails ==
    /\ start = "endpoint"
    /\ start' = "no"
    /\ status' = "ERROR"
    /\ UNCHANGED <<stop, services, task, known, ui, world>>

\* The rest of start(), outside its try: a first round that raises leaves the
\* runtime INITIALIZING and the tracker running without a poller.
EndpointCreated ==
    /\ start = "endpoint"
    /\ start' = "no"
    /\ services' = services \cup {"discovery"}
    /\ running' = TRUE
    /\ Poll
    /\ IF RoundRaises
       THEN UNCHANGED <<status, poller>>
       ELSE status' = "RUNNING" /\ poller' = "sleep"
    /\ UNCHANGED <<stop, cancelled, holder, ui, world>>

-----------------------------------------------------------------------------
(* The poller                                                              *)

PollerWakes ==
    /\ poller = "sleep" /\ ~cancelled
    /\ poller' = "wait"
    /\ UNCHANGED <<lifecycle, running, cancelled, holder, known, ui, world>>

\* Mutant: an exception ends the poller.
PollerPollsOnce ==
    /\ poller = "wait" /\ ~cancelled /\ holder = "nobody" /\ running
    /\ Poll
    /\ IF RoundRaises
       THEN poller' = "ended" /\ UNCHANGED <<holder, event>>
       ELSE IF subscribed /\ readiness' # readiness
            THEN poller' = "publish" /\ holder' = "poller" /\ event' = readiness'
            ELSE poller' = "sleep" /\ UNCHANGED <<holder, event>>
    /\ UNCHANGED <<lifecycle, running, cancelled, surface, subscribed, world>>

\* A change of the aggregate is published with the lock held. Exceptions end
\* the round and not the poller.
PollerPolls ==
    /\ poller = "wait" /\ ~cancelled /\ holder = "nobody" /\ running
    /\ Poll
    /\ IF subscribed /\ readiness' # readiness
       THEN poller' = "publish" /\ holder' = "poller" /\ event' = readiness'
       ELSE poller' = "sleep" /\ UNCHANGED <<holder, event>>
    /\ UNCHANGED <<lifecycle, running, cancelled, surface, subscribed, world>>

PollerReleases ==
    /\ poller = "publish" /\ event = "none"
    /\ poller' = "sleep"
    /\ holder' = "nobody"
    /\ UNCHANGED <<lifecycle, running, cancelled, known, ui, world>>

\* poll_now(): a round on demand, of a node that is up.
PollNow ==
    /\ status = "RUNNING" /\ stop = "no" /\ holder = "nobody"
    /\ Poll
    /\ IF subscribed /\ readiness' # readiness
       THEN holder' = "caller" /\ event' = readiness'
       ELSE UNCHANGED <<holder, event>>
    /\ UNCHANGED <<lifecycle, running, poller, cancelled, surface, subscribed, world>>

CallerReleases ==
    /\ holder = "caller" /\ event = "none"
    /\ holder' = "nobody"
    /\ UNCHANGED <<lifecycle, running, poller, cancelled, known, ui, world>>

PollerEnds ==
    /\ cancelled /\ poller \in {"sleep", "wait"}
    /\ poller' = "ended"
    /\ UNCHANGED <<lifecycle, running, cancelled, holder, known, ui, world>>

-----------------------------------------------------------------------------
(* stop()                                                                  *)

StopCalled ==
    /\ status \in {"INITIALIZING", "RUNNING", "ERROR"} /\ start = "no" /\ stop = "no"
    /\ stop' = "lock"
    /\ UNCHANGED <<status, start, services, task, known, ui, world>>

\* Mutant: the poller is left to notice by itself.
StopTrackerPatient ==
    /\ stop = "lock" /\ holder = "nobody"
    /\ running' = FALSE
    /\ IF running /\ poller # "none"
       THEN stop' = "join" /\ holder' = "stop"
       ELSE stop' = "rest" /\ UNCHANGED holder
    /\ UNCHANGED <<status, start, services, poller, cancelled, known, ui, world>>

\* tracker.stop() with its lock: nothing when it does not run, else the poller
\* is cancelled and awaited, if there is one.
StopTracker ==
    /\ stop = "lock" /\ holder = "nobody"
    /\ running' = FALSE
    /\ IF running /\ poller # "none"
       THEN stop' = "join" /\ holder' = "stop" /\ cancelled' = TRUE
       ELSE stop' = "rest" /\ UNCHANGED <<holder, cancelled>>
    /\ UNCHANGED <<status, start, services, poller, known, ui, world>>

PollerJoined ==
    /\ stop = "join" /\ poller = "ended"
    /\ stop' = "rest"
    /\ holder' = "nobody"
    /\ poller' = "none"
    /\ UNCHANGED <<status, start, services, running, cancelled, known, ui, world>>

\* The services stop one by one, and none keeps the others from it.
StopServices ==
    /\ stop = "rest"
    /\ stop' = "no"
    /\ services' = {}
    /\ status' = "STOPPED"
    /\ UNCHANGED <<start, task, known, ui, world>>

-----------------------------------------------------------------------------
(* The surface                                                             *)

\* Mutant: the first state is not taken from the runtime.
SurfaceStartIdle ==
    /\ status = "RUNNING" /\ stop = "no" /\ ~subscribed
    /\ subscribed' = TRUE
    /\ surface' = "IDLE"
    /\ UNCHANGED <<lifecycle, task, known, event, world>>

\* start() of the coordinator: subscribe, then take the state of the moment.
SurfaceStart ==
    /\ status = "RUNNING" /\ stop = "no" /\ ~subscribed
    /\ subscribed' = TRUE
    /\ surface' = IF readiness = "READY" THEN "IDLE" ELSE "DEGRADED"
    /\ UNCHANGED <<lifecycle, task, known, event, world>>

\* The surface's state after its handler has seen a change to r.
Shown(r) ==
    CASE r = "READY" /\ surface = "DEGRADED" -> "IDLE"
      [] r # "READY" /\ surface = "IDLE"     -> "DEGRADED"
      [] OTHER                               -> surface

OnReadinessChanged ==
    /\ event # "none"
    /\ surface' = Shown(event)
    /\ event' = "none"
    /\ UNCHANGED <<lifecycle, task, known, subscribed, world>>

\* A request to continue work; the window and the command line send one at a
\* time. Unknown intents change nothing.
HandleRequest ==
    /\ subscribed /\ surface # "EXECUTING" /\ status = "RUNNING"
    /\ surface' = IF readiness = "READY" THEN "EXECUTING" ELSE "DEGRADED"
    /\ UNCHANGED <<lifecycle, task, known, subscribed, event, world>>

RequestEnds ==
    /\ surface = "EXECUTING"
    /\ surface' \in {"COMPLETED", "FAILED"}
    /\ UNCHANGED <<lifecycle, task, known, subscribed, event, world>>

\* Zarya and Flux are started, stopped and replaced as their owners please.
WorldChanges ==
    /\ \E c \in Enabled : \E reply \in Answers[c] :
           world' = [world EXCEPT ![c] = reply]
    /\ UNCHANGED <<lifecycle, task, known, ui>>

-----------------------------------------------------------------------------
Ended == status = "STOPPED" /\ UNCHANGED vars

Next ==
    \/ StartServices \/ EndpointFails \/ EndpointCreated
    \/ PollerWakes \/ PollerPolls \/ PollerReleases \/ PollerEnds
    \/ PollNow \/ CallerReleases
    \/ StopCalled \/ StopTracker \/ PollerJoined \/ StopServices
    \/ SurfaceStart \/ OnReadinessChanged \/ HandleRequest \/ RequestEnds
    \/ WorldChanges
    \/ Ended

\* asyncio runs what is ready and its locks are fair; the endpoint is created
\* or refused. Nobody has to start, stop or use the node.
Fairness ==
    /\ WF_vars(EndpointCreated \/ EndpointFails)
    /\ WF_vars(PollerWakes) /\ SF_vars(PollerPolls)
    /\ WF_vars(PollerReleases) /\ WF_vars(CallerReleases) /\ WF_vars(PollerEnds)
    /\ SF_vars(StopTracker) /\ WF_vars(PollerJoined) /\ WF_vars(StopServices)
    /\ WF_vars(OnReadinessChanged)

Spec == Init /\ [][Next]_vars /\ Fairness

-----------------------------------------------------------------------------
(* Properties                                                              *)

\* A runtime that says READY knows every enabled component to be ready,
\* although rounds are cut short by exceptions after some states were stored.
ReadyMeansReady ==
    (holder = "nobody" /\ readiness = "READY") => \A c \in Enabled : comp[c] = "READY"

\* What the tracker calls ready, the registries know and can describe: the
\* reaction comes before the state is stored, and is not lost when it fails.
ReadyIsRegistered ==
    \A c \in Enabled : comp[c] = "READY" => offered[c] # "absent" /\ connection[c] = "good"

\* READY is earned, and acted upon (core/readiness.py 233-345, 379-420).
ReadyIsEarned == ReadyMeansReady /\ ReadyIsRegistered

\* Nothing of the runtime is left.
IsQuiet == services = {} /\ ~running /\ poller = "none" /\ holder = "nobody"

\* When no change is on its way, an idle surface says whether the ecosystem
\* is ready: changes reach the handler in order, and the first state is
\* taken after subscribing.
SurfaceTellsReadiness ==
    (subscribed /\ event = "none" /\ surface \in {"IDLE", "DEGRADED"}) =>
        (surface = "IDLE" <=> readiness = "READY")

\* stop() ends: it holds the lock the poller may be waiting for while it
\* waits for the poller, which therefore has to be cancelled. It leaves nothing
\* behind, from wherever start() got to (core/runtime.py 494-551).
StopEnds == stop = "lock" ~> [](status = "STOPPED" /\ IsQuiet)

\* The node is up, and no component with an odd version cuts its rounds short.
Undisturbed ==
    /\ status = "RUNNING" /\ stop = "no"
    /\ \A c \in Enabled : connection[c] # "odd" /\ world[c] # "odd"

\* A component that comes up late or comes back is found, whatever happened
\* before.
LateComponentsJoin ==
    \A c \in Component :
        <>[](Undisturbed /\ c \in Enabled /\ world[c] = "up") => <>[](comp[c] = "READY")
=============================================================================
