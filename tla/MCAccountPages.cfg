SPECIFICATION AccountSpec
CONSTANTS
    p1 = p1
    p2 = p2
    o1 = o1
    o2 = o2
    admin = admin
    ann = ann
    q1 = q1
    q2 = q2
    Proc = {p1, p2}
    Organization = {o1, o2}
    Email = {admin, ann}
    Admin = admin
    Client = {q1, q2}
    MaxCommands = 3
    MaxFaults = 1
    MaxEdits = 2
CHECK_DEADLOCK FALSE
INVARIANTS
    FieldsHold
    ListeningMeansSeeded
    PagesAreTrue
PROPERTIES
    DefaultsDoubleByOverlap
    EventuallyListening
