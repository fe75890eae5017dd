\* Three nodes in a chain of trust, a change of trust and a restart.
SPECIFICATION Spec
CONSTANTS
    n1 = n1
    n2 = n2
    n3 = n3
    c1 = c1
    c2 = c2
    on = on
    off = off
    NoStatus = NoStatus
    NoKey = NoKey
    Node = {n1, n2, n3}
    Capability = {c1}
    Status = {on, off}
    Key = {k1, k2}
    Update <- SameUpdates
    Trusting <- ChainTrusting
    Window = 1
    MaxVersion = 1
    MaxSent = 2
    MaxTrustChanges = 1
    MaxRestarts = 1
INVARIANTS
    Quarantine
SYMMETRY KeySymmetry
