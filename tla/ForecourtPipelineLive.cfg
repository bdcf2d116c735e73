SPECIFICATION FairSpec
CONSTANTS
    r1 = r1
    r2 = r2
    r3 = r3
    n1 = n1
    t1 = t1
    Refs = {r1, r2}
    Tanks = {t1}
    Nozzles = {n1}
    NozzleOf <- MCNozzleOf
    TankOf <- MCTankOf
    Volume <- MCVolume
    Batches = {}
    Malformed = {r1}
    MeterStart = 1
    InitialVolume = 3
    Capacity = 3
    Drop = 4
    ManualLogs = {}
    TypedMeters = {}
    BatchSize = 2
PROPERTIES
    EveryReadingArrives
    ErrorsAreRetried
CHECK_DEADLOCK FALSE
