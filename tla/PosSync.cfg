SPECIFICATION FairSpec
CONSTANTS
    c1 = c1
    c2 = c2
    NoCall = NoCall
    Refs = {1, 2, 3}
    EmptyOrders = {2}
    Calls = {c1, c2}
INVARIANTS
    PosTypeOK
    BookedOnce
    SyncedIsBooked
    RecipeConsumedOnce
PROPERTIES
    EveryOrderIsBooked
CHECK_DEADLOCK FALSE
