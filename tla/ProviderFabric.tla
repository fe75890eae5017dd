--------------------------- MODULE ProviderFabric ---------------------------
(***************************************************************************)
(* From a provider to a choice: the local fabric (providers/fabric.py)     *)
(* initializes the providers of this node, the registries of capabilities  *)
(* and providers keep what it and the adapters of Zarya and Flux put there *)
(* (core/runtime.py 359-397, core/readiness.py 347-377), discovery turns   *)
(* them into what the local node offers (discovery/ecosystem_service.py)   *)
(* and navigation chooses among that and what remote nodes offer.          *)
(*                                                                         *)
(* The runtime creates its discovery service after the fabric has started, *)
(* and integrates the adapters after it, too. An adapter is registered as  *)
(* soon as it is connected to. Nobody subscribes to the registries' events,*)
(* so only initialize() and shutdown() of a provider suspend: an action    *)
(* goes from one of them to the next.                                      *)
(***************************************************************************)
EXTENDS Navigation

CONSTANTS
    Capability,
    LocalProviders,   \* the fabric's providers, in the order of the list
    Adapter,          \* the providers that are adapters
    Reported,         \* the statuses an adapter may be integrated with
    Provides,         \* the capabilities of each provider's descriptor
    Definitions,      \* the availability of those it has a definition of
    LocalNode,
    RemoteOffers,     \* what the remote nodes may offer: sets of candidates
    Request           \* the requests to navigation

Fabric == Range(LocalProviders)
Provider == Fabric \cup Adapter

\* What the registry may have of other nodes: an announcement of this node is
\* dropped (discovery/service.py), a node is registered once, and has each of
\* its providers once.
IsRemote(offers) ==
    /\ offers \in Seq(Candidate(Capability))
    /\ \A n \in DOMAIN offers : offers[n].node # LocalNode /\ ~offers[n].is_local
    /\ \A m, n \in DOMAIN offers :
          SameOffer(offers[m], offers[n]) => offers[m] = offers[n]

ASSUME FabricAssumption ==
    /\ LocalProviders \in Seq(Id) /\ IsInjective(LocalProviders)
    /\ Adapter \subseteq Id \ Range(LocalProviders)
    /\ Reported \in [Adapter -> SUBSET AvailabilityStatus]
    /\ Provides \in [Provider -> Seq(Capability)]
    /\ \A p \in Provider :
          /\ DOMAIN Definitions[p] \subseteq Range(Provides[p])
          /\ Range(Definitions[p]) \subseteq AvailabilityStatus
    /\ LocalNode \in Id
    /\ \A offers \in RemoteOffers : IsRemote(offers)
    /\ Request \subseteq [capability : Capability, constraints : Constraints]

VARIABLES
    phase,          \* of the fabric
    current,        \* how many of its providers it has taken up
    initialized,    \* those whose initialize() has returned
    providers,      \* ProviderRegistry._providers: ids with their status
    capabilities,   \* CapabilityRegistry._capabilities: availabilities
    local,          \* what the ecosystem registry has of the local node
    remote          \* and of the remote ones

fabricVars == <<phase, current, initialized, providers, capabilities, local, remote>>

-----------------------------------------------------------------------------
(* The registries.                                                         *)

\* Mutant: an entry that is registered again is added once more.
PutTwice(registry, p, status) ==
    Append(registry, [provider |-> p, status |-> status])

\* ProviderRegistry.register(overwrite=True): a dictionary keeps the place of
\* a key that is assigned again.
Put(registry, p, status) ==
    LET entry == [provider |-> p, status |-> status]
        place == SelectInSeq(registry, LAMBDA e : e.provider = p)
    IN  IF place = 0 THEN Append(registry, entry) ELSE [registry EXCEPT ![place] = entry]

\* CapabilityRegistry.register(overwrite=True) for all definitions of p.
Overwrite(registry, p) ==
    [c \in DOMAIN registry \cup DOMAIN Definitions[p] |->
        IF c \in DOMAIN Definitions[p] THEN Definitions[p][c] ELSE registry[c]]

\* _ensure_capabilities: a capability somebody has defined keeps its
\* definition.
Ensure(registry, p) ==
    [c \in DOMAIN registry \cup DOMAIN Definitions[p] |->
        IF c \in DOMAIN registry THEN registry[c] ELSE Definitions[p][c]]

\* discover_local_node: a candidate for each place of each registered
\* provider's list. A capability without a definition is as available as its
\* provider.
Offer(place) ==
    LET entry == providers[place[1]]
        c     == Provides[entry.provider][place[2]]
    IN  [node |-> LocalNode, provider |-> entry.provider, capability |-> c,
         is_local |-> TRUE, node_state |-> "available",
         provider_status |-> entry.status,
         availability |-> IF c \in DOMAIN capabilities THEN capabilities[c]
                          ELSE entry.status]

LocalOffers ==
    LET places == UNION {{n} \X (DOMAIN Provides[providers[n].provider]) : n \in DOMAIN providers}
    IN  Arranged([place \in places |-> Offer(place)], places,
                 {p \in places \X places : LessThan(p[1], p[2])})

-----------------------------------------------------------------------------

FabricInit ==
    /\ phase = "created"
    /\ current = 0
    /\ initialized = {}
    /\ providers = <<>>
    /\ capabilities = [c \in {} |-> "registered"]
    /\ local = <<>>
    /\ remote = <<>>

\* The fabric goes on to its next provider, which is registered before it is
\* initialized, or is done. It had this in the registry of providers.
TakeUpNext(registry) ==
    IF current = Len(LocalProviders)
    THEN /\ phase' = "up"
         /\ providers' = registry
         /\ UNCHANGED <<current, capabilities>>
    ELSE LET p == LocalProviders[current + 1]
         IN  /\ phase' = "starting"
             /\ current' = current + 1
             /\ capabilities' = Ensure(capabilities, p)
             /\ providers' = Put(registry, p, "registered")

Start ==
    /\ phase = "created"
    /\ TakeUpNext(providers)
    /\ UNCHANGED <<initialized, local, remote>>

InitializeReturns ==
    /\ phase = "starting"
    /\ initialized' = initialized \cup {LocalProviders[current]}
    /\ TakeUpNext(Put(providers, LocalProviders[current], "available"))
    /\ UNCHANGED <<local, remote>>

\* Mutant: the failure is logged and nothing else.
InitializeRaisesUnmarked ==
    /\ phase = "starting"
    /\ TakeUpNext(providers)
    /\ UNCHANGED <<initialized, local, remote>>

\* The failed provider is marked, and the fabric goes on with the others.
InitializeRaises ==
    /\ phase = "starting"
    /\ TakeUpNext(Put(providers, LocalProviders[current], "unavailable"))
    /\ UNCHANGED <<initialized, local, remote>>

\* An adapter has been connected to, at start or when readiness changes, and
\* is registered with the status it had then.
Integrate(a, status) ==
    /\ phase = "up"
    /\ providers' = Put(providers, a, status)
    /\ capabilities' = Overwrite(capabilities, a)
    /\ UNCHANGED <<phase, current, initialized, local, remote>>

\* stop() shuts the instances down, one after the other, and forgets them;
\* the registries keep their entries.
Stop ==
    /\ phase = "up"
    /\ phase' = IF current = 0 THEN "stopped" ELSE "stopping"
    /\ UNCHANGED <<current, initialized, providers, capabilities, local, remote>>

\* shutdown() returns or raises.
ShutdownEnds ==
    /\ phase = "stopping"
    /\ current' = current - 1
    /\ phase' = IF current = 1 THEN "stopped" ELSE "stopping"
    /\ UNCHANGED <<initialized, providers, capabilities, local, remote>>

DiscoverLocalNode ==
    /\ phase \notin {"created", "starting"}
    /\ local' = LocalOffers
    /\ UNCHANGED <<phase, current, initialized, providers, capabilities, remote>>

\* Remote nodes come, go and change their state.
DiscoverRemoteNodes(offers) ==
    /\ phase \notin {"created", "starting"}
    /\ remote' = offers
    /\ UNCHANGED <<phase, current, initialized, providers, capabilities, local>>

FabricNext ==
    \/ Start \/ InitializeReturns \/ InitializeRaises
    \/ \E a \in Adapter : \E status \in Reported[a] : Integrate(a, status)
    \/ Stop \/ ShutdownEnds
    \/ DiscoverLocalNode
    \/ \E offers \in RemoteOffers : DiscoverRemoteNodes(offers)

FabricSpec == FabricInit /\ [][FabricNext]_fabricVars

-----------------------------------------------------------------------------
(* Properties.                                                             *)

Snapshot == local \o remote

\* A registry has at most one entry for an id.
FabricTypeOK ==
    /\ phase \in {"created", "starting", "up", "stopping", "stopped"}
    /\ current \in 0 .. Len(LocalProviders)
    /\ initialized \subseteq Fabric
    /\ providers \in Seq([provider : Provider, status : AvailabilityStatus])
    /\ IsInjective([n \in DOMAIN providers |-> providers[n].provider])
    /\ DOMAIN capabilities \subseteq Capability
    /\ Range(capabilities) \subseteq AvailabilityStatus
    /\ Snapshot \in Seq(Candidate(Capability))

\* Navigation selects the best usable candidate, whatever the order in which
\* nodes and providers were registered, ranks the alternatives, and accounts
\* for every candidate (navigation/policy.py 27-157).
SelectionIsBest ==
    \A request \in Request :
        AccountsFor(DiscoverCandidates(Snapshot, request.capability), request.constraints,
                    NavigateIn(Snapshot, request))

\* A provider of the fabric that navigation selects, or falls back to, has
\* been initialized: one whose initialize() raised is never asked for work,
\* not by what it shares with others in the registry of capabilities either
\* (providers/fabric.py 73-95).
ChoiceIsUsable ==
    \A request \in Request :
        LET result == NavigateIn(Snapshot, request)
        IN  \A c \in {result.selected} \cup Range(result.alternatives) :
                c # NoCandidate /\ c.is_local /\ c.provider \in Fabric =>
                    c.provider \in initialized

=============================================================================
