\* One project, two sprints, one task, three overlapping commands.
CONSTANTS
    p1 = p1  s1 = s1  s2 = s2  t1 = t1  u1 = u1  u2 = u2
    q1 = q1  q2 = q2  q3 = q3
    Project = {p1}
    Sprint = {s1, s2}
    Task = {t1}
    User = {u1, u2}
    Status = {"BACKLOG", "CANCELLED"}
    Request = {q1, q2, q3}
SPECIFICATION Spec
CHECK_DEADLOCK FALSE
SYMMETRY Symmetry
INVARIANTS
    ActiveSprintsOverlapped
    LogTellsTheTask
PROPERTIES
    ClosedStaysClosed
