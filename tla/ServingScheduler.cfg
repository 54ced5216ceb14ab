SPECIFICATION FairSpec
CONSTANTS
    featureSvc = featureSvc
    pmaxSvc = pmaxSvc
    anomalySvc = anomalySvc
    Procs = {featureSvc, pmaxSvc, anomalySvc}
    LanesOf <- OneLaneEach
    Meters = {1, 2}
    PMeters = {1, 2}
    HourTicks = 1
    LastTick = 2
    LastHour = 1
    LastWindow = 1
    SparseHours <- GapInHour1
    SparseWindows = {}
    K = 2
    HistoryHours = 2
    RefEnd = 1
    RefMaxBase = 1
    RefMeters = {1}
    BatchSize = 4
    MaxConsecutive = 2
    MaxFaults = 1
    NoBase = NoBase
INVARIANTS
    EvidenceBacked
    ServingInv
PROPERTIES
    ServedForecastIsFinal
    
    NewestOriginsServed
CHECK_DEADLOCK FALSE
