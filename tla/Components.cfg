SPECIFICATION ComponentsSpec
CONSTANTS
    NotMoved = NotMoved
    \* review registry
    Unset = Unset
    j1 = j1
    j2 = j2
    t1 = t1
    t2 = t2
    Requests <- MCRequests
    JobIds = {j1, j2}
    Threads = {t1, t2}
    \* chat
    Asks = {k1, k2}
    Sessions = {s1, s2}
    Questions <- ChatQuestions
    NoSession = NoSession
    SideEffects = TRUE
    MaxDeletes = 1
    \* maintenance
    c1 = c1
    c2 = c2
    a1 = a1
    o1 = o1
    Detections = {c1, c2}
    JobIdOf <- MCJobIdOf
    Askers = {a1}
    Orders = {o1}
    LastTick = 2
    TicksPerDay = 1
    WindowTicks = 2
    MaxWindBacks = 1
    \* coverage QA
    SourceEvents = {0, 1, 3, 6}
    Resolutions = {"1min", "15min", "1h"}
    Width <- MCWidth
    ChunkTicks = 4
    QaWindows <- AlignedWindows
    Skips = {FALSE, TRUE}
    MaxCoverageRuns = 1
    \* serving gates
    PmaxMeters = {"m1", "m2"}
    WarnMeters = {"u1", "u2"}
    MaxPredictions = 3
    Payloads <- MCPayloads
    \* feature readiness
    HistoryWindows = 2
    RecentWindows = 1
    Sources = {1, 2}
    Retired = {}
    ServingModes = {"live_observed", "hybrid_warm_start", "reference_backfill"}
    MaxCreated = 2
    MaxFeatureRows = 4
    \* equalization
    Grain <- MCGrain
    Streams <- MCStreams
    EqWindows <- MCWindows
    Natives = {0, 1, 2, 3, 4, 8}
    Policies = {"usable", "blocked"}
    \* anomaly predictor
    Meters = {"m1", "m2"}
    Origin = 7
    Window = 2
    LongWindow = 3
    Lag = 3
    MAX_FFILL_HOURS = 1
    MAX_TOTAL_MISSING_ROWS = 1
    ModelRoutes = {"v61", "v3"}
    \* P-Max windows
    MeterSources = {"v", "h1", "h2"}
    LogicalMeters <- MCLogicalMeters
    Columns = {"P", "U"}
    LastBucket = 6
    WindowSize = 4
    HorizonSteps = 1
    LongestLag = 1
    MaxImputedRows = 2
    Lookback = 8
    TrainStart = 0
    TrainEnd = 7
    Readings <- MCReadings
    \* preload jobs
    Loaders = {l1, l2}
    l1 = l1
    l2 = l2
    Files <- MCFiles
    LiveKeys = {"w2", "live"}
    StartAt = 2
    BatchSize = 2
    MaxStarts = 2
    \* archive publisher
    Archived <- MCArchived
    Cuts <- MCCuts
    MaxFiles = 2
    RequiredMeters = 2
    MaxPublished = 4
    QueueLimit = 2
    MaxRepeats = 2
    \* ontology projection
    Revisions = {"r1", "r2"}
    RowsIn <- MCRowsIn
    Needs <- MCNeeds
    Projectors = {p1, p2}
    Fetchers = {x1}
    LegacySchema = TRUE
    NoProjector = NoProjector
    p1 = p1
    p2 = p2
    x1 = x1
INVARIANTS RequestsInv LoadsInv  ModelInputInv PacketInv
CHECK_DEADLOCK FALSE
