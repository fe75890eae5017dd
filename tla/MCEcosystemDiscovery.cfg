SPECIFICATION Spec
CONSTANTS
    here = here
    f1 = f1
    f2 = f2
    u1 = u1
    files = files
    flux = flux
    t1 = t1
    t2 = t2
    Local = here
    FluxPeer = {f1, f2}
    UdpPeer = {u1}
    Provider = {files, flux}
    Adapter = {flux}
    Flux = flux
    Task = {t1, t2}
    Nobody = Nobody
    Reconciler = Reconciler
    MaxEvents = 2
INVARIANTS
    TypeOK
    StoreFollowsRegistry
    DiscoverIsFresh
PROPERTIES
    EverySettles
\* Every call has returned and every bound is reached.
CHECK_DEADLOCK FALSE
