\* Two processes, two browsers and their two sockets, an old message and a new
\* one, two calls, two fetches, one failing handler.
CONSTANTS
    p1 = p1  p2 = p2
    b1 = b1  b2 = b2
    m1 = m1  m2 = m2
    q1 = q1  q2 = q2
    Process = {p1, p2}
    Browser = {b1, b2}
    Message = {m1, m2}
    Existing = {m1}
    Request = {q1, q2}
    MaxConnect = 2
    MaxFetch = 2
    MaxFault = 1
SPECIFICATION Spec
CHECK_DEADLOCK FALSE
SYMMETRY Symmetry
INVARIANTS
    ViewsAgree
    RepliesAreCounted
PROPERTIES
    DeletedStaysDeleted
