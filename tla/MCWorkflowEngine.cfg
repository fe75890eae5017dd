\* Two runs of different workflows.
SPECIFICATION Spec
CONSTANTS
    r1 = r1
    r2 = r2
    w1 = w1
    w2 = w2
    w3 = w3
    Run = {r1, r2}
    Workflow = {w1, w2, w3}
    StepCount <- Counts
    Plan <- Apart
INVARIANTS
    TypeOK
    
    ActiveIsRunning
PROPERTIES
    StepsFollowTheMap
    EveryRunReturns
\* The runs end.
CHECK_DEADLOCK FALSE
