SPECIFICATION Spec
CONSTANTS
    d1 = d1
    d2 = d2
    w1 = w1
    w2 = w2
    p1 = p1
    p2 = p2
    Nobody = Nobody
    Requests = {1, 2}
    Databases = {d1}
    Workers = {w1}
    Polls = {p1}
    PageSize = 1
    ByHand = {"create"}
PROPERTIES
    RollbackDropsItsOwn
CHECK_DEADLOCK FALSE
