-------------------------- MODULE SimulatorMonitor --------------------------
(***************************************************************************)
(* The service's simulated clock and the asyncio worker that follows it.   *)
(* A check of the worker reads the clock once, then awaits three jobs in   *)
(* an executor (yesterday's daily report, the outcomes of operator         *)
(* decisions, the anomaly scan of the window) and only then stores how far *)
(* it got; the clock's endpoints, the report endpoints and the decision    *)
(* endpoints run in between.  Time counts hours from the clock's start.    *)
(***************************************************************************)
EXTENDS Naturals

CONSTANTS
    Day,          \* hours of a day
    MaxTime,      \* bound: the clock stops here
    Speeds,       \* hours the clock may gain between two observations; the endpoint
                  \* takes any integer, the model only the positive ones
    Recs,         \* recommendation ids an operator may decide on
    AskedDays,    \* bound: the days the report endpoints are called for
    MaxSeeks,     \* bound: calls of seek and reset
    MonitorFaults, \* what may go wrong, a subset of AllMonitorFaults
    DocumentsToo     \* whether the document generator writes ops.daily_report too

(***************************************************************************)
(* load    load_range raises, or the check is cancelled                    *)
(* report  build_daily_report raises or finds no data                      *)
(***************************************************************************)
AllMonitorFaults == {"load", "report"}

ASSUME MonitorTimeAssumption == Day \in Nat \ {0} /\ MaxTime \in Nat /\ Speeds \subseteq Nat \ {0}
ASSUME MonitorBoundAssumption == MaxSeeks \in Nat /\ MonitorFaults \subseteq AllMonitorFaults /\ DocumentsToo \in BOOLEAN
ASSUME AskedAssumption == AskedDays \subseteq 0..(MaxTime \div Day)

VARIABLES
    now, running, lastChecked,   \* SimulationClock
    check,      \* the worker: [pc, start, end, picked]
    report,     \* per day: the column groups its ops.daily_report row has
    action,     \* per recommendation: its ops.control_action row
    alerts,     \* history, until the first seek: how often each hour was scanned
    lost,       \* history, until the first seek: hours of scans that failed
    noReport,   \* history, until the first seek: days whose report could not be built
    seeks, raced \* history: seeks so far; one of them hit a running check

clockVars == <<now, running, lastChecked>>
mvars == <<now, running, lastChecked, check, report, action, alerts, lost, noReport, seeks, raced>>
history == <<alerts, lost, noReport, seeks, raced>>

SimDay(t) == t \div Day
SimDays == 0..SimDay(MaxTime)
Hours == 1..MaxTime
Earlier(s, t) == IF s < t THEN s ELSE t

NoRow == [status |-> "none", at |-> 0, outcome |-> "none"]
Resting == [pc |-> "idle", start |-> 0, end |-> 0, picked |-> {}]

MonitorInit ==
    /\ now = 0 /\ running = FALSE /\ lastChecked = 0
    /\ check = Resting
    /\ report = [d \in SimDays |-> {}]
    /\ action = [r \in Recs |-> NoRow]
    /\ alerts = [h \in Hours |-> 0] /\ lost = {} /\ noReport = {}
    /\ seeks = 0 /\ raced = FALSE

----------------------------------------------------------------------------
\* SimulationClock: every method holds the clock's lock.

\* set_speed may change the speed at any time and keeps the time reached, so the clock
\* gains any of Speeds.
TimePasses ==
    /\ running /\ now < MaxTime
    /\ \E s \in Speeds : now' = Earlier(now + s, MaxTime)
    /\ UNCHANGED <<running, lastChecked, check, report, action, history>>

start ==
    /\ ~running /\ running' = TRUE
    /\ UNCHANGED <<now, lastChecked, check, report, action, history>>

pause ==
    /\ running /\ running' = FALSE
    /\ UNCHANGED <<now, lastChecked, check, report, action, history>>

\* seek and reset move the clock and the worker's mark together.
Jump(t) ==
    /\ seeks < MaxSeeks
    /\ now' = t /\ lastChecked' = t
    /\ seeks' = seeks + 1
    /\ raced' = (raced \/ check # Resting)
    /\ alerts' = [h \in Hours |-> 0] /\ lost' = {} /\ noReport' = {}
    /\ UNCHANGED <<check, report, action>>

seek(t) == Jump(t) /\ UNCHANGED running

reset == Jump(0) /\ running' = FALSE

----------------------------------------------------------------------------
\* _do_check, awaiting at every change of pc.

\* Mutant: always a whole day, whatever the clock says.
WindowEndAhead(s, t) == s + Day

\* At most 24 hours are handled at once.
WindowEnd(s, t) == Earlier(t, s + Day)

\* The worker wakes, and the clock runs and has gained an hour since the last check.
do_check ==
    /\ check = Resting /\ running
    /\ now >= lastChecked + 1
    /\ LET end == WindowEnd(lastChecked, now) IN
         check' = [pc |-> IF SimDay(lastChecked) # SimDay(end) THEN "report" ELSE "scan",
                   start |-> lastChecked, end |-> end, picked |-> {}]
    /\ UNCHANGED <<clockVars, report, action, history>>

\* Mutant: the report of the day that has just begun.
TargetDayToday(end) == SimDay(end)

TargetDay(end) == SimDay(end - Day)

\* _ensure_daily_report: any row of that day counts as its report.
ensure_daily_report ==
    /\ check.pc = "report"
    /\ check' = [check EXCEPT !.pc = "evaluate"]
    /\ LET d == TargetDay(check.end) IN
         \/ report' = (IF report[d] = {} THEN [report EXCEPT ![d] = {"kpi"}] ELSE report) /\ UNCHANGED noReport
         \/ "report" \in MonitorFaults /\ report[d] = {} /\ UNCHANGED report
            /\ noReport' = IF seeks = 0 THEN noReport \cup {d} ELSE noReport
    /\ UNCHANGED <<clockVars, action, alerts, lost, seeks, raced>>

\* Mutant: a decision is due whether or not it has an outcome.
DueAgain(r, end) == action[r].status # "none" /\ action[r].at + Day <= end

\* A decision is due 24 hours after it was taken, once.
Due(r, end) == action[r].status # "none" /\ action[r].at + Day <= end /\ action[r].outcome = "none"

\* evaluate_pending_outcomes reads the due rows ...
evaluate_pending_outcomes ==
    /\ check.pc = "evaluate"
    /\ check' = [check EXCEPT !.pc = "store",
                            !.picked = {<<r, action[r].status>> : r \in {q \in Recs : Due(q, check.end)}}]
    /\ UNCHANGED <<clockVars, report, action, history>>

\* ... and writes the outcome of the status it read to each row that is still there, by id
\* only.
StoreOutcomes ==
    /\ check.pc = "store"
    /\ check' = [check EXCEPT !.pc = "scan", !.picked = {}]
    /\ action' = [r \in Recs |-> IF action[r] # NoRow /\ \E p \in check.picked : p[1] = r
                                 THEN [action[r] EXCEPT !.outcome = (CHOOSE p \in check.picked : p[1] = r)[2]]
                                 ELSE action[r]]
    /\ UNCHANGED <<clockVars, report, history>>

Window == {h \in Hours : check.start < h /\ h <= check.end}

\* Mutant: the mark is the clock's time when the scan returns.
MarkLate == lastChecked' = now

Mark == lastChecked' = check.end

\* _check_window_sync reports the hours after start; the finally clause advances the
\* mark whether or not that worked.
check_window ==
    /\ check.pc = "scan"
    /\ check' = Resting /\ Mark
    /\ IF seeks > 0 THEN UNCHANGED <<alerts, lost>> ELSE
         \/ alerts' = [h \in Hours |-> IF h \in Window THEN Earlier(alerts[h] + 1, 2) ELSE alerts[h]] /\ UNCHANGED lost
         \/ "load" \in MonitorFaults /\ lost' = lost \cup Window /\ UNCHANGED alerts
    /\ UNCHANGED <<now, running, report, action, noReport, seeks, raced>>

----------------------------------------------------------------------------
\* The report and decision endpoints.

\* GET /report/daily builds and stores the day only when it has no row; POST
\* /report/daily/aggregate and regenerate=true store it in any case.
get_daily_report(d) ==
    /\ report[d] = {} /\ report' = [report EXCEPT ![d] = {"kpi"}]
    /\ UNCHANGED <<clockVars, check, action, history>>

aggregate_daily(d) ==
    /\ report[d] # {} /\ report' = [report EXCEPT ![d] = @ \cup {"kpi"}]
    /\ UNCHANGED <<clockVars, check, action, history>>

\* generate_and_store_report upserts the document columns of the same row.
StoreDocument(d) ==
    /\ DocumentsToo
    /\ report' = [report EXCEPT ![d] = @ \cup {"doc"}]
    /\ UNCHANGED <<clockVars, check, action, history>>

\* Mutant: the row keeps the time the outcome falls due.
DecidedAtDue(r) == now + Day

\* Mutant: every decision restarts the 24 hours.
DecidedAtNow(r) == now

\* COALESCE(sim_now, EXCLUDED.sim_now): the time of the first decision is kept.
DecidedAt(r) == IF action[r] = NoRow THEN now ELSE action[r].at

save_status(r, status) ==
    /\ action' = [action EXCEPT ![r].status = status, ![r].at = DecidedAt(r)]
    /\ UNCHANGED <<clockVars, check, report, history>>

clear_recommendations ==
    /\ action' = [r \in Recs |-> NoRow]
    /\ UNCHANGED <<clockVars, check, report, history>>

WorkerMoves == do_check \/ ensure_daily_report \/ evaluate_pending_outcomes \/ StoreOutcomes \/ check_window

MonitorNext ==
    \/ TimePasses \/ start \/ pause \/ reset \/ WorkerMoves \/ clear_recommendations
    \/ \E t \in 0..MaxTime : seek(t)
    \/ \E d \in AskedDays : get_daily_report(d) \/ aggregate_daily(d) \/ StoreDocument(d)
    \/ \E r \in Recs, s \in {"approved", "rejected"} : save_status(r, s)

\* The clock is real time and the loop wakes every five seconds; its jobs return.
MonitorSpec == MonitorInit /\ [][MonitorNext]_mvars /\ WF_mvars(TimePasses) /\ WF_mvars(WorkerMoves)

----------------------------------------------------------------------------
Judgements == {"approved", "rejected"}
Checks == [pc : {"idle", "report", "evaluate", "store", "scan"}, start : Nat, end : Nat,
           picked : SUBSET (Recs \X Judgements)]
ActionRows == [status : {"none"} \cup Judgements, at : 0..MaxTime, outcome : {"none"} \cup Judgements]

\* Types of the clock, the worker, the two tables and the history variables.
MonitorTypeOK ==
    /\ now \in 0..MaxTime /\ lastChecked \in Nat /\ running \in BOOLEAN
    /\ check \in Checks
    /\ report \in [SimDays -> SUBSET {"kpi", "doc"}]
    /\ action \in [Recs -> ActionRows]
    /\ alerts \in [Hours -> 0..2] /\ lost \subseteq Hours /\ noReport \subseteq SimDays
    /\ seeks \in 0..MaxSeeks /\ raced \in BOOLEAN

\* However the clock is started, paused and accelerated while a check runs, the scans tile
\* the time up to lastChecked: every hour is scanned exactly once, or its one scan failed.
ScansTile ==
    seeks = 0 => \A h \in Hours :
        alerts[h] = IF h <= lastChecked /\ h \notin lost THEN 1 ELSE 0

\* The worker never marks hours the clock has not reached; only a seek or reset that lands
\* while a check is awaiting its jobs leaves the mark ahead, and then the worker sleeps.
NeverAheadOfClock == lastChecked > now => raced

\* Every day the worker has passed has a daily report row, unless building it failed: the
\* 24 hour cap makes a window touch one midnight at most.
PassedDaysReported ==
    seeks = 0 => \A d \in SimDays : (d + 1) * Day <= lastChecked => report[d] # {} \/ d \in noReport

\* The row of a passed day carries the figures GET /report/daily and the daily list show.
PassedDaysHaveKpi ==
    seeks = 0 => \A d \in SimDays : (d + 1) * Day <= lastChecked => "kpi" \in report[d] \/ d \in noReport

\* An outcome is written once: overwriting a decision, at any point of an evaluation, never
\* makes a later evaluation judge it again.
OutcomeOnce ==
    [][\A r \in Recs : action[r].outcome # "none" =>
          action'[r].outcome = action[r].outcome \/ action'[r] = NoRow]_mvars

\* While the clock runs on, a decision taken early enough gets its outcome even if it is
\* changed in the meantime: a later decision does not restart the 24 hours.
DecisionIsEvaluated ==
    \A r \in Recs :
        (action[r].status # "none" /\ action[r].at + 2 * Day <= MaxTime) ~>
            (action[r] = NoRow \/ action[r].outcome # "none" \/ ~running \/ seeks > 0)

\* Between two awaits a check knows what the mark and the clock were when it began: its window
\* lies behind the clock unless a seek moved that meanwhile, is at most a day long and begins
\* at the mark; once past the report, a midnight in it has been dealt with.
CheckSound ==
    IF check.pc = "idle" THEN check = Resting ELSE
        /\ check.start < check.end /\ check.end <= check.start + Day /\ check.end <= MaxTime
        /\ check.end <= now \/ raced
        /\ seeks = 0 => check.start = lastChecked
        /\ check.pc = "report" => SimDay(check.start) # SimDay(check.end)
        /\ seeks = 0 /\ check.pc # "report" /\ SimDay(check.start) # SimDay(check.end) =>
               report[TargetDay(check.end)] # {} \/ TargetDay(check.end) \in noReport

\* No hour beyond the mark has had its scan.
LostIsBehind == seeks = 0 => \A h \in lost : h <= lastChecked

\* The monitor: its windows tile the simulated time, never run ahead of the clock, and every
\* day they pass has a report row (routers/simulator.py).
MonitorInv == /\ MonitorTypeOK /\ CheckSound
              /\ ScansTile /\ LostIsBehind /\ NeverAheadOfClock /\ PassedDaysReported
============================================================================
