-------------------------- MODULE ServingScheduler --------------------------
(***************************************************************************)
(* The model-serving lanes of the operational scheduler.  Each process     *)
(* loops over bounded passes; a pass runs its lanes in order:              *)
(*   anomaly-feature  closed hours of live.measurement_1h become rows of   *)
(*                    mart.anomaly_feature_1h, above a watermark           *)
(*   pmax             picks a base, reads K windows of peak features and   *)
(*                    writes forecasts, reference warnings and evidence    *)
(*   anomaly          picks the newest featured hour and writes warnings   *)
(*                    and evidence                                         *)
(* Choosing the origin, reading the inputs and each table that is written  *)
(* are separate transactions, so rows may arrive, another process may      *)
(* write, and the process may fail or stop between any two of them.        *)
(* Time is counted in 15-minute ticks; an hour bucket is a multiple of     *)
(* HourTicks.  Rows of ops.pmax_log and ops.anomaly_log, written next to   *)
(* their table, and heartbeats are not kept: no lane reads them.           *)
(***************************************************************************)
EXTENDS Integers, Sequences, FiniteSets, FiniteSetsExt

CONSTANTS
    Procs, LanesOf,      \* scheduler containers and the lanes each one runs
    Meters,              \* meters with hourly rows, naturals: the SQL orders by meter_urn
    PMeters,             \* PMAX_METERS
    HourTicks,           \* 15-minute ticks in an hour
    LastTick, LastHour,  \* bounds of the clock and of the hours that may arrive
    LastWindow,          \* bound of the peak windows that may arrive
    SparseHours,         \* <<meter, hour>> whose rows do not make a feature set
    SparseWindows,       \* <<meter, window>> whose rows lack a measurement
    K,                   \* PMAX_REQUIRED_WINDOWS
    HistoryHours,        \* ANOMALY_DETECTION_HISTORY_HOURS
    RefEnd,              \* PMAX_REFERENCE_WARM_START_EXCLUSIVE_END_TS
    RefMaxBase,          \* newest reference hour + 1h of the reference meters
    RefMeters,           \* --anomaly-reference-meter
    BatchSize,           \* --anomaly-batch-size
    MaxConsecutive,      \* CMS_SCHEDULER_MAX_CONSECUTIVE_FAILURES
    MaxFaults,           \* bound of the faults of a behaviour
    NoBase

Lanes == {"feature", "pmax", "anomaly"}
Ticks == 0..LastTick
Hours == {t \in 0..LastHour : t % HourTicks = 0}
Bases == 0..(LastWindow + 1) \cup Hours

ASSUME SchedulerSetsAssumption ==
    /\ LanesOf \in [Procs -> SUBSET Lanes] /\ Meters \subseteq Nat /\ RefMeters \subseteq Meters
    /\ SparseHours \subseteq Meters \X Hours /\ NoBase \notin Bases
ASSUME SchedulerBoundsAssumption ==
    /\ {HourTicks, K, HistoryHours, BatchSize, MaxConsecutive} \subseteq Nat \ {0}
    /\ {LastTick, LastHour, LastWindow, RefEnd, MaxFaults} \subseteq Nat /\ RefEnd <= LastWindow + 1

VARIABLES
    now,         \* replay_virtual_now, in ticks
    hourly,      \* per meter: the hours with rows in live.measurement_1h
    peak,        \* per P-Max meter: the windows with rows in mart.peak_feature_15min
    feature,     \* rows <<hour, meter>> of mart.anomaly_feature_1h
    forecast,    \* per base: the meters of mart.pmax_forecast_15min
    warning,     \* per origin: <<meter, source_mode>> of mart.anomaly_warning_1h
    evidence,    \* rows of qa.serving_evidence
    step,        \* per process: where it stands
    todo,        \* per process: lanes left in the pass
    job,         \* per process: the serving run under way
    bad,         \* per process: a payload of the pass is not ok
    fails,       \* per process: consecutive_failures
    faults       \* faults so far

data == <<hourly, peak, feature, forecast, warning, evidence>>
procState == <<step, todo, job, bad, fails>>
vars == <<now, data, procState, faults>>

(***************************************************************************)
(* step values: "down", "sleep" (between passes), "pass" (before a     *)
(* lane), "insert" (watermark read, features not written),      *)
(* "infer" (base chosen, inputs not read), "write" (tables left to write). *)
(***************************************************************************)
Steps == {"down", "sleep", "pass", "insert", "infer", "write"}
Tables == {"forecast", "warning", "evidence"}
NoJob == [base |-> NoBase, upto |-> NoBase, fore |-> {}, warn |-> {}, left |-> <<>>]

Init ==
    /\ now = 0
    /\ hourly = [m \in Meters |-> {}] /\ peak = [m \in PMeters |-> {}]
    /\ feature = {} /\ evidence = {}
    /\ forecast = [b \in Bases |-> {}] /\ warning = [b \in Bases |-> {}]
    /\ step = [p \in Procs |-> "sleep"] /\ todo = [p \in Procs |-> <<>>] /\ job = [p \in Procs |-> NoJob]
    /\ bad = [p \in Procs |-> FALSE] /\ fails = [p \in Procs |-> 0]
    /\ faults = 0

(***************************************************************************)
(* The environment: the clock, and rows rolled up by the bucket workers.   *)
(* A meter's rows arrive in time order (bound: no bucket is rewritten).    *)
(***************************************************************************)
Tick == now < LastTick /\ now' = now + 1 /\ UNCHANGED <<data, procState, faults>>

\* The next bucket of a meter: rows of an hour exist from its first minute on.
HourArrives(m) ==
    /\ \E h \in Hours \ hourly[m] :
        /\ h <= now /\ \A g \in Hours : g < h => g \in hourly[m]
        /\ hourly' = [hourly EXCEPT ![m] = @ \cup {h}]
    /\ UNCHANGED <<now, peak, feature, forecast, warning, evidence, procState, faults>>

WindowArrives(m) ==
    /\ \E w \in (RefEnd..LastWindow) \ peak[m] :
        /\ w < now /\ \A v \in RefEnd..LastWindow : v < w => v \in peak[m]
        /\ peak' = [peak EXCEPT ![m] = @ \cup {w}]
    /\ UNCHANGED <<now, hourly, feature, forecast, warning, evidence, procState, faults>>

(***************************************************************************)
(* The loop of main and run_scheduler_pass.                                *)
(***************************************************************************)
Goto(p, s) == step' = [step EXCEPT ![p] = s]

StartProc(p) ==
    /\ step[p] = "down"
    /\ Goto(p, "sleep")
    /\ UNCHANGED <<now, data, todo, job, bad, fails, faults>>

\* Mutant: the loop exits one failure too late.
AfterPassLate(p, c) == /\ fails' = [fails EXCEPT ![p] = IF c > MaxConsecutive THEN 0 ELSE c]
                       /\ Goto(p, IF c > MaxConsecutive THEN "down" ELSE "sleep")
                       /\ bad' = [bad EXCEPT ![p] = FALSE]

\* After a pass with c consecutive failures: sleep, or exit for good (code 3).
AfterPass(p, c) == /\ fails' = [fails EXCEPT ![p] = IF c >= MaxConsecutive THEN 0 ELSE c]
                   /\ Goto(p, IF c >= MaxConsecutive THEN "down" ELSE "sleep")
                   /\ bad' = [bad EXCEPT ![p] = FALSE]

RunIf(p, l, due) == IF l \in LanesOf[p] /\ due THEN <<l>> ELSE <<>>

\* run_scheduler_pass takes its lanes in this order.
\* The pmax lane is left out while the model-serving interval has not elapsed; a pass without a
\* lane is an ok pass.
StartPass(p, elapsed) ==
    /\ step[p] = "sleep"
    /\ todo' = [todo EXCEPT ![p] = RunIf(p, "feature", TRUE) \o RunIf(p, "pmax", elapsed) \o RunIf(p, "anomaly", TRUE)]
    /\ IF todo'[p] = <<>> THEN AfterPass(p, 0) ELSE Goto(p, "pass") /\ UNCHANGED <<bad, fails>>
    /\ UNCHANGED <<now, data, job, faults>>

\* A lane returns its payload: the next one runs whether it was ok or not, and the last one ends
\* the pass, which failed if any payload was not ok.
LaneReturns(p, ok) ==
    /\ todo' = [todo EXCEPT ![p] = Tail(@)]
    /\ job' = [job EXCEPT ![p] = NoJob]
    /\ IF Tail(todo[p]) = <<>>
       THEN AfterPass(p, IF bad[p] \/ ~ok THEN fails[p] + 1 ELSE 0)
       ELSE Goto(p, "pass") /\ bad' = [bad EXCEPT ![p] = @ \/ ~ok] /\ UNCHANGED fails

AtLane(p, l) == step[p] = "pass" /\ Head(todo[p]) = l

(***************************************************************************)
(* Lane anomaly-feature.                                                   *)
(***************************************************************************)
Sufficient(m, h) == h \in hourly[m] /\ <<m, h>> \notin SparseHours

MaxOr(S, d) == IF S = {} THEN d ELSE Max(S)

\* Far below every bucket: the epoch.
Epoch == -LastTick - HourTicks

MaxExisting == MaxOr({r[1] : r \in feature}, Epoch)
MaxPossible == MaxOr({h \in Hours : \E m \in Meters : Sufficient(m, h)}, Epoch)

\* Mutant: the cap is the replay clock itself, so the open hour is materialized.
CappedEndUncut == IF MaxPossible < now THEN MaxPossible ELSE now

\* The newest hour a pass may read: an hour is closed HourTicks after its start.
CappedEnd == IF MaxPossible < now - HourTicks THEN MaxPossible ELSE now - HourTicks

run_anomaly_feature(p) ==
    /\ AtLane(p, "feature")
    /\ IF CappedEnd < MaxExisting
       THEN LaneReturns(p, TRUE)
       ELSE /\ Goto(p, "insert")
            /\ job' = [job EXCEPT ![p] = [NoJob EXCEPT !.base = MaxExisting, !.upto = CappedEnd]]
            /\ UNCHANGED <<todo, bad, fails>>
    /\ UNCHANGED <<now, data, faults>>

\* <<hour, meter>> in the order of the SQL: ORDER BY bucket_ts, meter_urn.
Before(a, b) == a[1] < b[1] \/ (a[1] = b[1] /\ a[2] < b[2])

\* Mutant: LIMIT BatchSize - 1.
CandidatesOneLess(start, end) ==
    LET all == {r \in Hours \X Meters : r[1] \in hourly[r[2]] /\ start <= r[1] /\ r[1] <= end}
    IN {r \in all : Cardinality({q \in all : Before(q, r)}) < BatchSize - 1}

\* The first BatchSize buckets at or above the watermark, sufficient or not.
Candidates(start, end) ==
    LET all == {r \in Hours \X Meters : r[1] \in hourly[r[2]] /\ start <= r[1] /\ r[1] <= end}
    IN {r \in all : Cardinality({q \in all : Before(q, r)}) < BatchSize}

execute_anomaly_feature_materialization(p) ==
    /\ step[p] = "insert"
    /\ feature' = feature \cup {r \in Candidates(job[p].base, job[p].upto) : Sufficient(r[2], r[1])}
    /\ LaneReturns(p, TRUE)
    /\ UNCHANGED <<now, hourly, peak, forecast, warning, evidence, faults>>

(***************************************************************************)
(* Lane pmax: choosing the base.                                           *)
(***************************************************************************)
\* All three measurements of a window exist; reference rows cover every window before RefEnd.
HasWindow(m, w) == w < RefEnd \/ (w \in peak[m] /\ <<m, w>> \notin SparseWindows)

FullHistory(m, b) == \A w \in (b - K)..(b - 1) : HasWindow(m, w)

PmaxServed(b) == \E e \in evidence : e.base = b /\ e.pmax # {}
AnomalyServed(b) == \E e \in evidence : e.base = b /\ e.anomaly # {}

LatestWindow == Max((UNION {peak[m] : m \in PMeters}) \cup {RefEnd - 1})

\* Mutant: the evidence of an earlier run is not looked up.
select_pmax_base_ts_again ==
    LET loaded == (LatestWindow - K + 1)..LatestWindow
        ready(b, ms) == \A w \in (b - K)..(b - 1) : w \in loaded /\ \A m \in ms : HasWindow(m, w)
        partial == {b \in {w + 1 : w \in loaded} : \E m \in PMeters : ready(b, {m})}
    IN MaxOr(partial, NoBase)

\* Only the K newest windows are loaded; a base every meter is ready for comes first, then one
\* that some meter is ready for.
select_pmax_base_ts ==
    LET loaded == (LatestWindow - K + 1)..LatestWindow
        ready(b, ms) == \A w \in (b - K)..(b - 1) : w \in loaded /\ \A m \in ms : HasWindow(m, w)
        unserved == {b \in {w + 1 : w \in loaded} : ~PmaxServed(b)}
        full == {b \in unserved : ready(b, PMeters)}
        partial == {b \in unserved : \E m \in PMeters : ready(b, {m})}
    IN MaxOr(full, MaxOr(partial, NoBase))

\* Lane anomaly: the newest featured hour, unless some run already stored warnings for it.
select_anomaly_base_ts ==
    IF feature = {} \/ AnomalyServed(MaxExisting) THEN NoBase ELSE MaxExisting

Select(p, l, base) ==
    /\ AtLane(p, l)
    /\ IF base = NoBase
       THEN LaneReturns(p, TRUE)
       ELSE /\ Goto(p, "infer")
            /\ job' = [job EXCEPT ![p].base = base]
            /\ UNCHANGED <<todo, bad, fails>>
    /\ UNCHANGED <<now, data, faults>>

run_pmax_serving(p) == Select(p, "pmax", select_pmax_base_ts)
run_anomaly_serving(p) == Select(p, "anomaly", select_anomaly_base_ts)

(***************************************************************************)
(* model_serving.py: read the inputs, predict, write one table at a time.  *)
(***************************************************************************)
\* Mutant: the latest window of the history may be missing.
build_pmax_feature_vectors_lagged(b) == {m \in PMeters : FullHistory(m, b - 1)}

\* A meter without its K windows is dropped, the others are forecast.
build_pmax_feature_vectors(b) == {m \in PMeters : FullHistory(m, b)}

\* The reference branch rejects an origin off the hour and --allow-missing-anomaly then drops it.
ReferenceWarnings(b) == IF b <= RefMaxBase /\ b % HourTicks = 0 THEN RefMeters \X {"reference"} ELSE {}

\* Mutant: one hour of history less.
LiveWarningsShort(b) ==
    {m \in Meters : \E h \in Hours : <<h, m>> \in feature /\ b - HistoryHours * HourTicks <= h /\ h < b - HourTicks} \X {"live"}

\* Meters with a featured hour among the HistoryHours before the origin, which is not one of them.
LiveWarnings(b) ==
    {m \in Meters : \E h \in Hours : <<h, m>> \in feature /\ b - HistoryHours * HourTicks <= h /\ h < b} \X {"live"}

WriteIf(table, rows) == IF rows = {} THEN <<>> ELSE <<table>>

\* Mutant: the evidence is written before the rows it stands for.
TableOrderEvidenceFirst(fore, warn) ==
    <<"evidence">> \o WriteIf("forecast", fore) \o WriteIf("warning", warn)

\* build_model_serving_write_batch: empty tables are skipped, the evidence comes last.
TableOrder(fore, warn) ==
    WriteIf("forecast", fore) \o WriteIf("warning", warn) \o <<"evidence">>

\* No usable input rows: the run ends with an error before anything is written.
Infer(p) ==
    /\ step[p] = "infer"
    /\ LET b == job[p].base
           pmax == Head(todo[p]) = "pmax"
           fore == IF pmax THEN build_pmax_feature_vectors(b) ELSE {}
           warn == IF pmax THEN ReferenceWarnings(b) ELSE LiveWarnings(b)
       IN IF (IF pmax THEN fore ELSE warn) = {}
          THEN LaneReturns(p, FALSE)
          ELSE /\ Goto(p, "write")
               /\ job' = [job EXCEPT ![p].fore = fore, ![p].warn = warn, ![p].left = TableOrder(fore, warn)]
               /\ UNCHANGED <<todo, bad, fails>>
    /\ UNCHANGED <<now, data, faults>>

\* ON CONFLICT: a packet is keyed by its run (lane and base), a warning by meter and origin.
WriteTable(p) ==
    /\ step[p] = "write"
    /\ LET j == job[p]
           table == Head(j.left)
           meters == {r[1] : r \in j.warn}
           packet == [lane |-> Head(todo[p]), base |-> j.base, pmax |-> j.fore, anomaly |-> meters]
       IN /\ forecast' = IF table = "forecast" THEN [forecast EXCEPT ![j.base] = @ \cup j.fore] ELSE forecast
          /\ warning' = IF table = "warning"
                        THEN [warning EXCEPT ![j.base] = {r \in @ : r[1] \notin meters} \cup j.warn] ELSE warning
          /\ evidence' = IF table = "evidence"
                         THEN {e \in evidence : <<e.lane, e.base>> # <<packet.lane, packet.base>>} \cup {packet}
                         ELSE evidence
          /\ IF Len(j.left) = 1
             THEN LaneReturns(p, TRUE)
             ELSE /\ job' = [job EXCEPT ![p].left = Tail(@)]
                  /\ UNCHANGED <<step, todo, bad, fails>>
    /\ UNCHANGED <<now, hourly, peak, feature, faults>>

(***************************************************************************)
(* Faults.  A serving subprocess that fails is a payload with ok = FALSE;  *)
(* a timeout of it, or a database error in the scheduler, is an exception  *)
(* of the pass: the later lanes are skipped.                               *)
(***************************************************************************)
RunFails(p) ==
    /\ faults < MaxFaults /\ faults' = faults + 1
    /\ step[p] \in {"infer", "write"}
    /\ LaneReturns(p, FALSE)
    /\ UNCHANGED <<now, data>>

PassRaises(p) ==
    /\ faults < MaxFaults /\ faults' = faults + 1
    /\ step[p] \in {"pass", "insert", "infer", "write"}
    /\ AfterPass(p, fails[p] + 1)
    /\ todo' = [todo EXCEPT ![p] = <<>>] /\ job' = [job EXCEPT ![p] = NoJob]
    /\ UNCHANGED <<now, data>>

Crash(p) ==
    /\ faults < MaxFaults /\ faults' = faults + 1
    /\ step[p] # "down"
    /\ Goto(p, "down")
    /\ todo' = [todo EXCEPT ![p] = <<>>] /\ job' = [job EXCEPT ![p] = NoJob]
    /\ bad' = [bad EXCEPT ![p] = FALSE] /\ fails' = [fails EXCEPT ![p] = 0]
    /\ UNCHANGED <<now, data>>

ProcStep(p) ==
    \/ StartProc(p) \/ StartPass(p, TRUE)
    \/ run_anomaly_feature(p) \/ execute_anomaly_feature_materialization(p)
    \/ run_pmax_serving(p) \/ run_anomaly_serving(p) \/ Infer(p) \/ WriteTable(p)

Arrival == Tick \/ (\E m \in Meters : HourArrives(m)) \/ (\E m \in PMeters : WindowArrives(m))

Next ==
    \/ Arrival
    \/ \E p \in Procs : ProcStep(p) \/ StartPass(p, FALSE) \/ RunFails(p) \/ PassRaises(p) \/ Crash(p)

Spec == Init /\ [][Next]_vars

\* The loop of main always takes its next step, Docker restarts a container that exits, the
\* model-serving interval elapses again and again, and time and rows keep coming.
FairSpec ==
    /\ Spec /\ WF_vars(Tick)
    /\ \A m \in Meters : WF_vars(HourArrives(m))
    /\ \A m \in PMeters : WF_vars(WindowArrives(m))
    /\ \A p \in Procs : WF_vars(ProcStep(p)) /\ SF_vars(StartPass(p, TRUE))

-----------------------------------------------------------------------------
Jobs == [base : Bases \cup {NoBase, Epoch}, upto : (Epoch..LastTick) \cup {NoBase}, fore : SUBSET PMeters,
         warn : SUBSET (Meters \X {"live", "reference"}), left : Seq(Tables)]

Packets == [lane : Lanes, base : Bases, pmax : SUBSET PMeters, anomaly : SUBSET Meters]

TablesTypeOK ==
    /\ now \in Ticks /\ hourly \in [Meters -> SUBSET Hours] /\ peak \in [PMeters -> SUBSET (RefEnd..LastWindow)]
    /\ feature \subseteq Hours \X Meters
    /\ forecast \in [Bases -> SUBSET PMeters]
    /\ warning \in [Bases -> SUBSET (Meters \X {"live", "reference"})]
    /\ evidence \subseteq Packets /\ faults \in 0..MaxFaults

LoopsTypeOK ==
    /\ step \in [Procs -> Steps] /\ todo \in [Procs -> Seq(Lanes)]
    /\ job \in [Procs -> Jobs] /\ fails \in [Procs -> 0..(MaxConsecutive - 1)]
    /\ bad \in [Procs -> BOOLEAN]

\* Types of the tables and of the scheduler loops; a failure counter stays below the limit at which
\* main exits.
SchedulerTypeOK == TablesTypeOK /\ LoopsTypeOK

\* Every row of qa.serving_evidence stands for rows that are in the marts: whatever stops a run
\* between two tables, the lookup that skips a served origin never skips one without its rows.
EvidenceBacked ==
    \A e \in evidence : /\ e.pmax \subseteq forecast[e.base]
                        /\ e.anomaly \subseteq {r[1] : r \in warning[e.base]}

\* A forecast of a meter was computed from all K windows before its base, although the base was
\* chosen, and the inputs read, in different transactions and the base may suit only some meters.
ForecastFromFullHistory == \A b \in Bases : \A m \in forecast[b] : FullHistory(m, b)

\* mart.anomaly_feature_1h never holds an hour that was still open on the replay clock.
FeaturesOfClosedHours == \A r \in feature : r[1] + HourTicks <= now

\* A process is in a lane of its own until the lane returns; what it chose or read in one
\* transaction is still sound when a later one uses it: the hours below its cap stay closed and
\* the histories it read stay complete.
LaneSound(p) ==
    /\ todo[p] \in Seq(LanesOf[p])
    /\ step[p] \in {"pass", "insert", "infer", "write"} => todo[p] # <<>>
    /\ step[p] = "insert" => job[p].upto \in Int /\ job[p].upto + HourTicks <= now
    /\ step[p] \in {"infer", "write"} => job[p].base \in Bases
    /\ step[p] = "write" => job[p].left # <<>> /\ \A m \in job[p].fore : FullHistory(m, job[p].base)

\* What the lanes feed on is sound: closed hours, complete histories (operational_scheduler.py).
ServingInv == SchedulerTypeOK /\ ForecastFromFullHistory /\ FeaturesOfClosedHours /\ \A p \in Procs : LaneSound(p)

\* Once evidence says a base was forecast, its forecast rows are final: rows of a late meter, a
\* retry or a restart do not change what was served.
ServedForecastIsFinal == [][\A b \in Bases : PmaxServed(b) => forecast'[b] = forecast[b]]_vars

\* In the end the newest sufficient closed hour is a feature row: the watermark and the LIMIT on
\* candidates that may be insufficient do not stop the lane.
FeatureCatchesUp == <>[](CappedEnd \in {r[1] : r \in feature})

\* In the end the newest featured hour has stored warnings, and the base after the newest window
\* is forecast if some meter has its history.
NewestOriginsServed ==
    <>[](/\ feature # {} => AnomalyServed(MaxExisting)
         /\ (\E m \in PMeters : FullHistory(m, LatestWindow + 1)) => PmaxServed(LatestWindow + 1))
=============================================================================
