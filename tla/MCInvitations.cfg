\* The owner and one invited user, four requests of which one creates the
\* workspace, two deliveries of MemberAdded.
CONSTANTS
    u1 = u1  u2 = u2
    q1 = q1  q2 = q2  q3 = q3  q4 = q4
    k1 = k1  k2 = k2
    User = {u1, u2}
    Owner = u1
    Visitor = {u2}
    Request = {q1, q2, q3, q4}
    Call = {k1, k2}
SPECIFICATION InviteSpec
CHECK_DEADLOCK FALSE
SYMMETRY Symmetry
INVARIANTS
    SessionsAreEarned
    EverythingWasAnnounced
    OutboxTellsTheTable
    OwnerRoleIsTheOwners
    DuplicateRolesOverlap
PROPERTIES
    ArchivedIsClosed
