SPECIFICATION Spec
CONSTANTS
    d1 = d1
    d2 = d2
    w1 = w1
    w2 = w2
    p1 = p1
    p2 = p2
    Nobody = Nobody
    Requests = {1, 2, 3}
    Databases = {d1}
    Workers = {w1, w2}
    Polls = {p1, p2}
    PageSize = 2
    ByHand = {"create", "drop"}
SYMMETRY Interchangeable
INVARIANTS
    TypeOK
    OneCarrier
    ActiveIsReady
    RetryStartsClean
PROPERTIES
    OutcomeStands
CHECK_DEADLOCK FALSE
