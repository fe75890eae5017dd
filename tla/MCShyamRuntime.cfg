CONSTANTS
    Enabled = {"zarya", "flux"}
    Answers <- BothAnswer

SPECIFICATION Spec

INVARIANTS
    TypeOK
    ReadyIsEarned
    SurfaceTellsReadiness

PROPERTIES
    StopEnds
    LateComponentsJoin
