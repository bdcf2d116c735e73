SPECIFICATION Spec
CONSTANTS
    Invoices = {inv}
    AssetLines = {ast}
    CostCenters = {branch}
    Claims = {claim}
    Drains = {drain}
    Buttons = {button}
    MaxRetries = 1
    Deduplicates = TRUE
    MaxVersion = 2
    MaxDocs = 1
    Items = {i1, i2}
    MaxRefs = 2
    Partners = {p}
    Record = r
    GoLive = 3
    Iqamas = {q1, q2}
    Passports = {p1}
    Names = {n1, n2}
    Numbers = {v}
    MaxEmployees = 2
    Unread = Unread
    MaxCode = 3
    MaxAsked = 2
    Parties = {1, 2, 3}
    ShownAs <- MCShownAs
    Today = 5
    BucketDays = 1
    MaxMoves = 2
    Amount <- MCAmount
    Precision = 1
    MaxBilled = 2
    ItemCodes = {e1, e2}
    BarCodes = {b1}
    ItemNames = {m1, m2}
    Blank = Blank
    MaxItems = 2
    MaxRows = 2
INVARIANTS
    BackOfficeTypeOK
    SyncedIsInCore
    DrainTakesPending
    PushedOrQueued
    LiveIsComplete
    SyncedWasTold
    ReviewedIsValid
    ReportsAgree
    NoTwinsImported
    AgingAgrees
    DeltaPointsRight
PROPERTIES
    NoNewTwins
    NoErrorNoLoss
    AnswersAreMade
    NobodyRidesFree
CHECK_DEADLOCK FALSE
