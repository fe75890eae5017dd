\* Two peers, two versions of what they announce.
SPECIFICATION Spec
CONSTANTS
    self = self
    p1 = p1
    p2 = p2
    i1 = i1
    i2 = i2
    NoInfo = NoInfo
    NoPeer = NoPeer
    Peer = {self, p1, p2}
    Self = self
    Info = {i1, i2}
    MaxTasks = 2
    MaxAnnounced = 3
INVARIANTS
    TypeOK
    RegistryAgrees
PROPERTIES
    SilentPeersLost
\* A stopped service stays stopped.
CHECK_DEADLOCK FALSE
