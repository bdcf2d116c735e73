SPECIFICATION StationSpec
CONSTANTS
    r1 = r1
    r2 = r2
    r3 = r3
    n1 = n1
    n2 = n2
    t1 = t1
    l1 = l1
    Refs = {r1, r2, r3}
    Tanks = {t1}
    Nozzles = {n1, n2}
    NozzleOf <- MCNozzleOf
    TankOf <- MCTankOf
    Volume <- MCVolume
    Batches <- MCBatches
    Malformed = {}
    MeterStart = 1
    InitialVolume = 3
    Capacity = 3
    Drop = 2
    ManualLogs = {l1}
    TypedMeters = {0, 1, 3}
INVARIANTS
    StationTypeOK
    PostedOnce
    NonePending
    StockConserved
    NoLitreTwice
    MeterNeverAhead
PROPERTIES
    ProcessedIsFinal
CHECK_DEADLOCK FALSE
