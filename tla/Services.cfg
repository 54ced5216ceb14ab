SPECIFICATION ServicesSpec
CONSTANTS
    \* review jobs
    j1 = j1
    j2 = j2
    w1 = w1
    w2 = w2
    a1 = a1
    a2 = a2
    sharedId = sharedId
    NoOne = NoOne
    Jobs = {j1, j2}
    Workers = {w1, w2}
    Approvers = {a1, a2}
    WorkerIds = {sharedId}
    WorkerId <- MCWorkerId
    NeedsHuman = {j1}
    MaxAttempts = 3
    Faults = {"review", "ack_lost", "snapshot", "mark", "crash"}
    \* simulator monitor
    Day = 2
    MaxTime = 5
    Speeds = {1, 3}
    Recs = {c1}
    AskedDays = {1}
    MaxSeeks = 1
    MonitorFaults = {"load", "report"}
    DocumentsToo = TRUE
    \* reports
    DaySlots = 4
    WeekDays = 2
    MonthDays = 2
    ReportOffset = 1
    SessionOffset = 1
    Lead = 1
    Cadences = {"daily"}
    DagSlot = 1
    Retries = 1
    WallClock = 10
    NoDoc = NoDoc
    NoRun = NoRun
    ReportFaults = {"db", "model"}
    MaxSlots = 5
    MaxFaults = 1
    MaxRequests = 1
    \* connection pool
    q1 = q1
    q2 = q2
    PoolRequests = {q1, q2}
    Nested = {q1, q2}
    MaxConn = 2
    Attempts = 3
    ResetAt = 1
    MaxOutages = 1
INVARIANTS ReviewInv MonitorInv  NothingLeaks
PROPERTIES QueuedJobsEnd DecisionsJudgedOnce EveryFiredDayReported PoolAnswersAll
CHECK_DEADLOCK FALSE
