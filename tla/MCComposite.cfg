\* Two calls of one composite capability, which is redefined and removed.
SPECIFICATION Spec
CONSTANTS
    i1 = i1
    i2 = i2
    None = None
    Invocation = {i1, i2}
    CapabilityId = {"c.c"}
    MostSteps = 2
    Definition <- Definitions
    Key = {"k"}
    Offer <- Offers
    Product = {{}, {"k"}}
INVARIANTS
    TypeOK
    ResultTellsSteps
    BindingsDeliver
PROPERTY
    EveryInvocationEnds
\* The calls end.
CHECK_DEADLOCK FALSE
