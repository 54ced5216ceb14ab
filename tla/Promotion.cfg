SPECIFICATION PFairSpec
CONSTANTS
    Writers = {t1}
    Workers = {w1}
    Promoters = {p1, p2}
    JobKinds <- AllKinds
    LastMinute = 1
    Points15 = 2
    Points1h = 2
    Values = {v}
    Null = Null
    NoRow = NoRow
    NoTxn = NoTxn
    MeanRollup = TRUE
    PeakFeature = FALSE
    MinCoverage = 60
    PromoteCoverage = 50
    PromoteBatch = 1
    MaxPolicyChanges = 1
    NoCut = NoCut
    Cuts = {NoCut}
    BatchSize = 2
    MaxEvents = 2
    MaxPerMinute = 2
    MaxRollbacks = 1
    WindowCommits = TRUE
INVARIANTS
    PTypeOK
PROPERTIES
    CanonicalNeverRewritten
    PromotedUnderPolicy
    PromotionDrains
