\* Two nodes that trust each other edit facts about the same subject.
SPECIFICATION RunningSpec
CONSTANTS
    n1 = n1
    n2 = n2
    n3 = n3
    c1 = c1
    c2 = c2
    on = on
    off = off
    NoStatus = NoStatus
    NoKey = NoKey
    Node = {n1, n2}
    Capability = {c1, c2}
    Status = {on, off}
    Key = {k1}
    Update <- PairUpdates
    Trusting <- AllTrusting
    Window = 1
    MaxVersion = 2
    MaxSent = 3
    MaxTrustChanges = 0
    MaxRestarts = 0
INVARIANTS
    TypeOK
    VectorsStandForFacts
PROPERTIES
    ReplayIdempotent
    NeverForgets
