SPECIFICATION Spec
CONSTANTS
    q1 = q1
    q2 = q2
    u1 = u1
    a = a
    b = b
    leak1 = leak1
    Users = {u1}
    Repos = {a, b}
    Leaks = {leak1}
    Statuses = {"FIXED", "NOT_A_STATUS_WE_KNOW_OF"}
    TooLong = {"NOT_A_STATUS_WE_KNOW_OF"}
    Requests = {q1, q2}
    MaxRows = 2
    MaxFaults = 1
\* The system may stop: every request is answered.
CHECK_DEADLOCK FALSE
SYMMETRY Symmetry
INVARIANTS
    TypeOK
    ListIsCurrent
    RefusalHasCause
PROPERTY
    ChangeWasAllowed
