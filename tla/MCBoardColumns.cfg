\* Two browsers, two requests, a fetch besides the first, a fault.
CONSTANTS
    b1 = b1  b2 = b2  q1 = q1  q2 = q2  s1 = s1  s2 = s2  s3 = s3
    Browser = {b1, b2}
    Change = {q1, q2}
    ColumnStatus = {s1, s2, s3}
    DefaultStatuses <- TwoColumns
    MaxFetches = 1
    MaxFaults = 1
SPECIFICATION ColumnsSpec
CHECK_DEADLOCK FALSE
SYMMETRY Symmetry
INVARIANTS
    ColumnsAreKept
    OneColumnPerStatus
    ColumnsCatchUp
