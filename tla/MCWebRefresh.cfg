\* Two visits of one user and one of another, two calls at a time, four
\* sessions, one error.
CONSTANTS
    s1 = s1  s2 = s2  s3 = s3  s4 = s4
    q1 = q1  q2 = q2
    t1 = t1  t2 = t2  t3 = t3
    u1 = u1  u2 = u2
    User = {u1, u2}
    NoUser = NoUser
    Session = {s1, s2, s3, s4}
    NoSession = NoSession
    Request = {q1, q2}
    Visit = {t1, t2, t3}
    VisitorOf <- TwoUsers
    NoCall = NoCall
    MaxFault = 1
SPECIFICATION WebSpec
CHECK_DEADLOCK FALSE
SYMMETRY Symmetry
INVARIANTS
    TokensStayWithTheirUser
