\* Two users and an id without a user, two channels, three requests.
CONSTANTS
    u1 = u1  u2 = u2  u3 = u3  c1 = c1  c2 = c2  c3 = c3
    q1 = q1  q2 = q2  q3 = q3 
    User = {u1, u2, u3}
    Registered = {u1, u2}
    Caller = {u1, u2}
    Channel = {c1, c2, c3}
    ChosenName <- MCChosenName
    Request = {q1, q2, q3}
    Me = u1
SPECIFICATION ChatSpec
CHECK_DEADLOCK FALSE
SYMMETRY Symmetry
INVARIANTS
    TwinsOverlapped
    AnswersHold
    PersonIsReached
