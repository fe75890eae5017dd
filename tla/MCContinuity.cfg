\* Two attempts on one loop.
SPECIFICATION Spec
CONSTANTS
    s1 = s1
    s2 = s2
    w1 = w1
    w2 = w2
    here = here
    there = there
    NoNode = NoNode
    NoSession = NoSession
    Session = {s1, s2}
    Work = {w1, w2}
    Node = {here, there}
    Trusted = {here}
    Request <- MixedRequests
    MaxChanges = 1
INVARIANTS
    TypeOK
    OneAttemptPerWork
    
    
PROPERTIES
    ImplementsLifecycle
    EveryAttemptEnds
\* Every request answered and every bound reached, nothing is left to do.
CHECK_DEADLOCK FALSE
