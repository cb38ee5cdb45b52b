\* Two overlapping requests of two users on three sessions, one of which may
\* die.
CONSTANTS
    s1 = s1  s2 = s2  s3 = s3
    q1 = q1  q2 = q2
    User = {u1, u2}
    NoUser = NoUser
    Session = {s1, s2, s3}
    NoSession = NoSession
    Request = {q1, q2}
    MaxFault = 1
SPECIFICATION Spec
SYMMETRY Symmetry
INVARIANTS
    ReplacedIsRevoked
    OnlyRacingRotationsEscape
PROPERTIES
    ReuseSweeps
