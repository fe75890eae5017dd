\* Two providers of the fabric, both adapters, up to two remote nodes.
SPECIFICATION FabricSpec
CONSTANTS
    Capability <- Capabilities
    LocalProviders <- Listed
    Adapter = {1, 4}
    Reported <- Mapped
    Provides <- Described
    Definitions <- Defined
    LocalNode = 2
    RemoteOffers <- Peers
    Request <- Requests
INVARIANTS
    FabricTypeOK
    SelectionIsBest
    ChoiceIsUsable
