SPECIFICATION Spec
CONSTANTS
    w1 = w1
    w2 = w2
    Writers = {t1, t2}
    Workers = {w1, w2}
    JobKinds <- SplitKinds
    LastMinute = 1
    Points15 = 1
    Points1h = 2
    Values = {v}
    Null = Null
    NoRow = NoRow
    NoTxn = NoTxn
    MeanRollup = TRUE
    PeakFeature = FALSE
    MinCoverage = 50
    NoCut = NoCut
    Cuts = {NoCut}
    BatchSize = 2
    MaxEvents = 2
    MaxPerMinute = 2
    MaxRollbacks = 0
    WindowCommits = TRUE
INVARIANTS
    DoneIsFresh
