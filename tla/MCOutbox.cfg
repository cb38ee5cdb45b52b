\* Two API processes, the timer of one of which fires while an invocation is at
\* work, on two rows; one may throw or crash twice, the other
\* once; fair scheduling.
CONSTANTS
    e1 = e1  e2 = e2
    p1 = p1  p2 = p2
    r1 = r1  r2 = r2  r3 = r3
    Event = {e1, e2}
    Instance = {p1, p2}
    Run = {r1, r2, r3}
    Host <- OverlappingRuns
    NoEvent = NoEvent
    BatchSize = 2
    Time = {1, 2}
    MaxFault <- Faults
SPECIFICATION FairSpec
INVARIANTS
    BoundedDuplicates
    NoOvertaking
PROPERTIES
    ContractFairSpec
