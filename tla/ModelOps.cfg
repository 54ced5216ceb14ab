SPECIFICATION OpsSpec
CONSTANTS
    \* model promotion
    Files = {f1, f2}
    Versions = {"old", "new"}
    Gone = "gone"
    NoTree = NoTree
    Runs = {r1}
    Verdict <- VerdictOf
    First = "old"
    MaxArchives = 1
    DeployFaults = {"crash", "oserror"}
    Models = {"m1", "m2"}
    NoPart = "none"
    AnomalyFaults = {"crash", "oserror"}
    \* source replay
    m1 = m1
    m2 = m2
    Meters = {m1, m2}
    Rank <- RankOf
    TargetEnd = 4
    Archive <- SmallArchive
    All = All
    DayLength = 2
    ChunkLength = 2
    ChunkEvents = 3
    DayCache = FALSE
    Cached = {}
    ReplayFaults = {"refuse", "late", "crash"}
    MaxCrashes = 1
    MaxLag = 2
    \* retraining
    j1 = j1
    j2 = j2
    t1 = t1
    t2 = t2
    Absent = Absent
    TrainJobs = {j1, j2}
    TrainRuns = {r1}
    UploadRetries = 2
    Refreshers = {t1, t2}
    MaxRestarts = 1
    \* thresholds
    TRuns = {r1, r2}
    Rows = {"low", "high", "broken"}
    Bad = {"broken"}
    Thin = {"high"}
    Level <- LevelOf
    NoFile = NoFile
    MaxPromotions = 2
    ThresholdFaults = {"crash", "db", "replace"}
INVARIANTS DeploymentInv AnomalyInv ReplayInv RetrainInv ThresholdInv
PROPERTIES SwapsAreRecoverable ReplayStoresAll RetrainingEnds PromotionIsAtomic
CHECK_DEADLOCK FALSE
