\* An envelope made before the last edit of its receiver.
SPECIFICATION RunningSpec
CONSTANTS
    n1 = n1
    n2 = n2
    n3 = n3
    c1 = c1
    c2 = c2
    on = on
    off = off
    NoStatus = NoStatus
    NoKey = NoKey
    Node = {n1, n2}
    Capability = {c1, c2}
    Status = {on, off}
    Key = {k1}
    Update <- OwnUpdates
    Trusting <- AllTrusting
    Window = 2
    MaxVersion = 2
    MaxSent = 3
    MaxTrustChanges = 0
    MaxRestarts = 0
PROPERTIES
    OwnStatusKept
