\* One object of each kind, two users, three requests, events delivered twice.
CONSTANTS
    a = a  b = b  ap = ap  doc = doc  form = form  t1 = t1  com = com
    mt = mt  org = org  file = file
    q1 = q1  q2 = q2  q3 = q3
    User = {a, b}
    Approval = {ap}
    Document = {doc}
    Form = {form}
    Task = {t1}
    Comment = {com}
    Meeting = {mt}
    Organization = {org}
    File = {file}
    Panel <- MCPanel
    Request = {q1, q2, q3}
    MaxDeliveries = 2
SPECIFICATION Spec
CHECK_DEADLOCK FALSE
SYMMETRY Symmetry
INVARIANTS
    StatusFollowsSteps
    CountersAreExplained
PROPERTIES
    DecisionsAreFinal
    NewestIsHighest
    NothingPublishedIsLost
