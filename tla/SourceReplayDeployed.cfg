SPECIFICATION ReplaySpec
CONSTANTS
    m1 = m1
    m2 = m2
    Meters = {m1, m2}
    Rank <- RankOf
    TargetEnd = 4
    Archive <- SmallArchive
    All = All
    DayLength = 2
    ChunkLength = 2
    ChunkEvents = 3
    DayCache = TRUE
    Cached = {0, 1}
    ReplayFaults = {}
    MaxCrashes = 0
    MaxLag = 2
PROPERTIES EveryRowReplayed
