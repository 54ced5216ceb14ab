-------------------------- MODULE ReportGeneration --------------------------
(***************************************************************************)
(* Scheduled and requested operation reports: an Airflow task (or an API   *)
(* request) derives the period from the newest row of the source tables,   *)
(* reads the period's rows in several statements, renders a document, by   *)
(* a language model or by templates, and stores it under its period.       *)
(* Measurements and serving runs keep arriving meanwhile.                  *)
(***************************************************************************)
EXTENDS Naturals, FiniteSets, FiniteSetsExt

CONSTANTS
    DaySlots,       \* time slots per day
    WeekDays,       \* days per week
    MonthDays,      \* days per month: all months are equally long here
    ReportOffset,   \* the report's time zone, in slots ahead of the stored times
    SessionOffset,  \* the time zone the database session returns times in
    Lead,           \* slots a serving run predicts ahead
    Cadences,       \* subset of daily, weekly, monthly with a schedule
    DagSlot,        \* slot of the day at which the cron schedule fires
    Retries,        \* AIRFLOW_DEFAULT_RETRIES
    WallClock,      \* slot of the wall clock, where no table has a row
    NoDoc, NoRun,
    ReportFaults,   \* what may go wrong, a subset of AllReportFaults
    MaxSlots,       \* bound: slots of measurements
    MaxFaults,      \* bound: faults
    MaxRequests     \* bound: API requests

(***************************************************************************)
(* probe  a readiness probe reports an error                               *)
(* read   a table cannot be read for the watermark                         *)
(* db     a statement of the generation raises                             *)
(* model  the model's text has a cause term only the second guard knows    *)
(***************************************************************************)
AllReportFaults == {"probe", "read", "db", "model"}

ASSUME ReportSizes == {DaySlots, WeekDays, MonthDays, Lead} \subseteq Nat \ {0}
                      /\ {ReportOffset, SessionOffset, DagSlot, Retries, WallClock, MaxSlots, MaxFaults, MaxRequests} \subseteq Nat
\* A month has weeks, the wall clock is ahead of the data, and a month has passed by then.
ASSUME ReportCalendar == /\ WeekDays <= MonthDays /\ MaxSlots + Lead <= WallClock
                         /\ MonthDays <= (WallClock + ReportOffset) \div DaySlots
ASSUME ReportOptions == Cadences \subseteq {"daily", "weekly", "monthly"} /\ ReportFaults \subseteq AllReportFaults

VARIABLES
    newest,    \* slots 0 .. newest - 1 have observed rows
    warned,    \* origins of serving runs whose warning rows are written
    logged,    \* origins of serving runs with a success row in ops.anomaly_log
    task,      \* per generator: where it is, and what it has read
    document,  \* per cadence and first day: the stored document
    fired,     \* per cadence: the last slot its schedule fired at
    strikes,   \* faults so far
    requests   \* API requests so far

pvars == <<newest, warned, logged, task, document, fired, strikes, requests>>

Generators == Cadences \cup {"api"}
Slots == 0 .. MaxSlots + Lead
ReportDays == 0 .. (WallClock + ReportOffset) \div DaySlots + MonthDays

NoTask == [pc |-> "idle", cadence |-> "daily", first |-> 0, last |-> 0, run |-> NoRun, warn |-> {}, tries |-> 0]

ReportInit ==
    /\ newest = 0 /\ warned = {} /\ logged = {}
    /\ task = [g \in Generators |-> NoTask]
    /\ document = [c \in Cadences |-> [d \in ReportDays |-> NoDoc]]
    /\ fired = [c \in Cadences |-> 0] /\ strikes = 0 /\ requests = 0

Strike(f) == f \in ReportFaults /\ strikes < MaxFaults /\ strikes' = strikes + 1

Set(g, r) == task' = [task EXCEPT ![g] = r]

----------------------------------------------------------------------------
\* Periods: the day of a slot, the reference time of a watermark, the period of a reference.

DayIn(offset, s) == (s + offset) \div DaySlots
LocalDay(s) == DayIn(ReportOffset, s)

\* Mutant: a watermark on a Monday is taken for the end of the week before.
reference_ts_from_watermark_monday(c, w) ==
    LET day == DayIn(SessionOffset, w)
    IN  CASE c = "monthly" -> (day \div MonthDays + 1) * MonthDays * DaySlots - SessionOffset
          [] c = "weekly" -> w + ((WeekDays - (day % WeekDays)) % WeekDays) * DaySlots
          [] OTHER -> w + DaySlots

reference_ts_from_watermark(c, w) ==
    LET day == DayIn(SessionOffset, w)
    IN  CASE c = "monthly" -> (day \div MonthDays + 1) * MonthDays * DaySlots - SessionOffset
          [] c = "weekly" -> w + (WeekDays - (day % WeekDays)) * DaySlots
          [] OTHER -> w + DaySlots

Length(c) == CASE c = "monthly" -> MonthDays [] c = "weekly" -> WeekDays [] OTHER -> 1

\* compute_report_period: first day and day after the last of the last full day, week or month.
compute_report_period(c, ref) ==
    LET end == (LocalDay(ref) \div Length(c)) * Length(c)
    IN  [first |-> end - Length(c), last |-> end]

InPeriod(p, s) == p.first <= LocalDay(s) /\ LocalDay(s) < p.last

----------------------------------------------------------------------------
\* The sources.  A schedule fires on time, and its run, with its retries,
\* ends before a row of the next day is written.

DagDue(c) == newest % DaySlots = DagSlot /\ newest > fired[c]

DataArrives ==
    /\ newest < MaxSlots /\ \A c \in Cadences : ~DagDue(c)
    /\ (\E c \in Cadences : task[c].pc # "idle") => LocalDay(newest + Lead) = LocalDay(newest)
    /\ newest' = newest + 1
    /\ UNCHANGED <<warned, logged, task, document, fired, strikes, requests>>

\* Mutant: the log row is written before the warning rows.
ServeLogFirst(o) ==
    /\ \/ o = newest - 1 /\ o \notin logged /\ logged' = logged \cup {o} /\ UNCHANGED warned
       \/ o \in logged \ warned /\ warned' = warned \cup {o} /\ UNCHANGED logged
    /\ UNCHANGED <<newest, task, document, fired, strikes, requests>>

\* The serving run of the newest origin: its warning rows, then its log row, each its own commit.
Serve(o) ==
    /\ \/ o = newest - 1 /\ o \notin warned /\ warned' = warned \cup {o} /\ UNCHANGED logged
       \/ o \in warned \ logged /\ logged' = logged \cup {o} /\ UNCHANGED warned
    /\ UNCHANGED <<newest, task, document, fired, strikes, requests>>

----------------------------------------------------------------------------
\* One generation.

\* Mutant: the schedule is advanced to a slot that is not there yet.
StartDagAhead(c) ==
    /\ DagDue(c) /\ task[c].pc = "idle"
    /\ Set(c, [NoTask EXCEPT !.pc = "probe", !.cadence = c])
    /\ fired' = [fired EXCEPT ![c] = newest + 1]
    /\ UNCHANGED <<newest, warned, logged, document, strikes, requests>>

\* The four readiness tasks always succeed, so the run is its last task, generate_ops_report.
StartDag(c) ==
    /\ DagDue(c) /\ task[c].pc = "idle"
    /\ Set(c, [NoTask EXCEPT !.pc = "probe", !.cadence = c])
    /\ fired' = [fired EXCEPT ![c] = newest]
    /\ UNCHANGED <<newest, warned, logged, document, strikes, requests>>

\* POST /report/ops/{cadence}/generate: readiness is taken for granted, the reference comes
\* from the request, the simulator's clock or the wall clock.
generate_ops_report ==
    /\ requests < MaxRequests /\ requests' = requests + 1 /\ task["api"].pc = "idle"
    /\ \E c \in Cadences, ref \in Slots \cup {WallClock} :
         /\ LocalDay(ref) >= Length(c)
         /\ LET p == compute_report_period(c, ref)
            IN  Set("api", [NoTask EXCEPT !.pc = "run", !.cadence = c, !.first = p.first, !.last = p.last])
    /\ UNCHANGED <<newest, warned, logged, document, fired, strikes>>

\* Mutant: a failed attempt is not repeated.
NextAttemptNone(g) == Set(g, NoTask)

\* The exception leaves the task: Airflow repeats it from the start, the API answers an error.
NextAttempt(g) ==
    LET t == task[g] IN
      IF g # "api" /\ t.tries < Retries
      THEN Set(g, [NoTask EXCEPT !.pc = "probe", !.cadence = t.cadence, !.tries = t.tries + 1])
      ELSE Set(g, NoTask)

\* A blocked generation returns normally: the task has succeeded and is not repeated.
collect_readiness_probes(g) ==
    /\ task[g].pc = "probe"
    /\ \/ Set(g, [task[g] EXCEPT !.pc = "reference"]) /\ UNCHANGED strikes
       \/ Strike("probe") /\ Set(g, NoTask)
    /\ UNCHANGED <<newest, warned, logged, document, fired, requests>>

\* The newest time of each readable table: forecasts and warnings lie ahead of the data.
Watermarks(tables) ==
    (IF newest > 0 /\ "observed" \in tables THEN {newest - 1} ELSE {})
    \cup (IF "predicted" \in tables THEN {o + Lead : o \in warned} ELSE {})

\* A table that cannot be read is left out; without any the wall clock is the reference.
latest_ops_source_ts(g) ==
    /\ task[g].pc = "reference"
    /\ \E tables \in SUBSET {"observed", "predicted"} :
         /\ IF tables = {"observed", "predicted"} THEN UNCHANGED strikes ELSE Strike("read")
         /\ LET c == task[g].cadence
                marks == Watermarks(tables)
                ref == IF marks = {} THEN WallClock ELSE reference_ts_from_watermark(c, Max(marks))
                p == compute_report_period(c, ref)
            IN  Set(g, [task[g] EXCEPT !.pc = "run", !.first = p.first, !.last = p.last])
    /\ UNCHANGED <<newest, warned, logged, document, fired, requests>>

\* The successful run with the newest origin in the period.
LatestRun(p) ==
    LET runs == {o \in logged : InPeriod(p, o)} IN IF runs = {} THEN NoRun ELSE Max(runs)

Targets(o, p) == {s \in o + 1 .. o + Lead : InPeriod(p, s)}

WarningRows(o, p) == IF o \in warned THEN Targets(o, p) ELSE {}

\* Two statements of fetch_context_pack; READ COMMITTED gives each its own snapshot.  The
\* others read tables no property looks at.
fetch_context_pack(g) ==
    LET t == task[g] IN
    /\ \/ t.pc = "run" /\ LET run == LatestRun(t)
                          IN  Set(g, [t EXCEPT !.run = run, !.pc = IF run = NoRun THEN "build" ELSE "warnings"])
       \/ t.pc = "warnings" /\ Set(g, [t EXCEPT !.pc = "build", !.warn = WarningRows(t.run, t)])
    /\ UNCHANGED <<newest, warned, logged, document, fired, strikes, requests>>

GenerationRaises(g) ==
    /\ task[g].pc \in {"run", "warnings", "build"}
    /\ Strike("db") /\ NextAttempt(g)
    /\ UNCHANGED <<newest, warned, logged, document, fired, requests>>

\* Mutant: the guard lets every text pass.
enforce_hallucination_guard_off(text, wiki) == TRUE

\* The guard of the record: a cause needs a wiki row.
enforce_hallucination_guard(text, wiki) == wiki \/ text # "cause"

\* The template's text, or the model's if it passes the model's own guard, which knows fewer
\* terms than the record's guard: plain, or with a claimed cause.  Then the record's guard, and the upsert by period.
build_and_store(g) ==
    LET t == task[g] IN
    /\ t.pc = "build"
    /\ \E text \in {"plain", "cause"}, wiki \in BOOLEAN :
         /\ text = "plain" => ~wiki   \* a wiki row matters to a cause only
         /\ IF text = "cause" THEN Strike("model") ELSE UNCHANGED strikes
         /\ IF enforce_hallucination_guard(text, wiki)
            THEN /\ Set(g, NoTask)
                 /\ document' = [document EXCEPT ![t.cadence][t.first] =
                        [run |-> t.run, warn |-> t.warn, text |-> text, wiki |-> wiki]]
            ELSE NextAttempt(g) /\ UNCHANGED document
    /\ UNCHANGED <<newest, warned, logged, fired, requests>>

GeneratorStep(g) ==
    collect_readiness_probes(g) \/ latest_ops_source_ts(g) \/ fetch_context_pack(g) \/ build_and_store(g)

ReportNext ==
    \/ DataArrives \/ generate_ops_report
    \/ \E o \in 0 .. MaxSlots : Serve(o)
    \/ \E c \in Cadences : StartDag(c)
    \/ \E g \in Generators : GeneratorStep(g) \/ GenerationRaises(g)

\* The source runs on, Airflow starts what is due, and a task that runs makes progress.
ReportProgress == DataArrives \/ \E c \in Cadences : StartDag(c) \/ GeneratorStep(c)

ReportSpec == ReportInit /\ [][ReportNext]_pvars /\ WF_pvars(ReportProgress)

----------------------------------------------------------------------------
Tasks == [pc : {"idle", "probe", "reference", "run", "warnings", "build"}, cadence : {"daily", "weekly", "monthly"},
          first : ReportDays, last : ReportDays, run : (0 .. MaxSlots) \cup {NoRun}, warn : SUBSET Slots,
          tries : 0 .. Retries]
Documents == [run : (0 .. MaxSlots) \cup {NoRun}, warn : SUBSET Slots, text : {"plain", "cause"}, wiki : BOOLEAN]

\* Types of the sources, the generations and the stored documents.
ReportTypeOK ==
    /\ newest \in 0 .. MaxSlots /\ warned \subseteq 0 .. MaxSlots /\ logged \subseteq warned
    /\ task \in [Generators -> Tasks]
    /\ document \in [Cadences -> [ReportDays -> Documents \cup {NoDoc}]]
    /\ fired \in [Cadences -> 0 .. newest]
    /\ strikes \in 0 .. MaxFaults /\ requests \in 0 .. MaxRequests

\* A generation works on one whole period of its cadence; the run it is about to read the
\* warnings of has been logged, and what it has read are all of them in the period.
GenerationSound(t) ==
    t.pc # "idle" =>
        /\ t.cadence \in Cadences
        /\ t.pc \in {"run", "warnings", "build"} => t.last = t.first + Length(t.cadence)
        /\ t.pc = "warnings" => t.run \in logged
        /\ t.pc = "build" /\ t.run # NoRun => t.warn = Targets(t.run, t)

\* The period of a scheduled report is the day, week or month in which its newest source
\* row lies, at every hour and whichever tables could be read.
PeriodOfWatermark ==
    \A c \in {"daily", "weekly", "monthly"}, w \in Watermarks({"observed", "predicted"}) :
        InPeriod(compute_report_period(c, reference_ts_from_watermark(c, w)), w)

StoredDocuments == {document[c][d] : c \in Cadences, d \in ReportDays} \ {NoDoc}

\* A stored document that names a serving run has every warning of it in the period, although
\* the run's rows are written, and read, in separate statements.
CitedRunHasWarnings ==
    \A c \in Cadences, d \in ReportDays :
        LET doc == document[c][d] IN
          doc # NoDoc /\ doc.run # NoRun => doc.warn = Targets(doc.run, [first |-> d, last |-> d + Length(c)])

\* No stored text claims a cause without a wiki row, whichever guard had to catch it.
CausesHaveEvidence == \A doc \in StoredDocuments : doc.text = "cause" => doc.wiki

\* Every day whose schedule fires gets a document, although attempts fail and are repeated.
EveryDayReported ==
    <>(\A d \in 0 .. (MaxSlots - DagSlot) \div DaySlots :
          "daily" \in Cadences => document["daily"][d] # NoDoc)

\* A daily report describes a whole day.
ReportedDayIsComplete ==
    \A d \in ReportDays : "daily" \in Cadences /\ document["daily"][d] # NoDoc => d < LocalDay(newest)

\* Reports: the period is that of the newest row, a named serving run has all its warnings,
\* and no cause is claimed without evidence (workflow/reports).
ReportInv == /\ ReportTypeOK /\ \A g \in Generators : GenerationSound(task[g])
             /\ PeriodOfWatermark /\ CitedRunHasWarnings /\ CausesHaveEvidence
=============================================================================
