\* Two browsers, two requests, a fetch besides the first (the panel of one,
\* or the list again), a fault.
CONSTANTS
    b1 = b1  b2 = b2  q1 = q1  q2 = q2
    Browser = {b1, b2}
    Request = {q1, q2}
    MaxFetches = 1
    MaxFaults = 1
SPECIFICATION Spec
CHECK_DEADLOCK FALSE
SYMMETRY Symmetry
INVARIANTS
    BehindForAReason
    OptimismHolds
    EditsHold
