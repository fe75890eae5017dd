\* Two peers that expire together.
SPECIFICATION Spec
CONSTANTS
    self = self
    p1 = p1
    p2 = p2
    i1 = i1
    i2 = i2
    NoInfo = NoInfo
    NoPeer = NoPeer
    Peer = {self, p1, p2}
    Self = self
    Info = {i1}
    MaxTasks = 1
    MaxAnnounced = 2
INVARIANTS
    UnavailableIsUnreachable
\* A stopped service stays stopped.
CHECK_DEADLOCK FALSE
