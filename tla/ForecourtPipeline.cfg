SPECIFICATION Spec
CONSTANTS
    r1 = r1
    r2 = r2
    r3 = r3
    n1 = n1
    t1 = t1
    Refs = {r1, r2}
    Tanks = {t1}
    Nozzles = {n1}
    NozzleOf <- MCNozzleOf
    TankOf <- MCTankOf
    Volume <- MCVolume
    Batches = {}
    Malformed = {}
    MeterStart = 1
    InitialVolume = 3
    Capacity = 3
    Drop = 2
    ManualLogs = {}
    TypedMeters = {}
    BatchSize = 2
INVARIANTS
    TypeOK
    NothingLost
    AnswerIsTrue
    CallIsQueueFront
PROPERTIES
    ImplementsLedger
CHECK_DEADLOCK FALSE
