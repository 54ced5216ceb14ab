--------------------------- MODULE LiveBucketQueue ---------------------------
(***************************************************************************)
(* The live rollup path for one (meter, measurement, policy version):      *)
(* ingestion transactions whose trigger upserts live.measurement_1min and  *)
(* marks live.bucket_queue rows pending, and the queue workers that claim  *)
(* pending rows, aggregate the minutes and mark the rows done.             *)
(*                                                                         *)
(* PostgreSQL runs everything READ COMMITTED.  A worker pass is one SQL    *)
(* statement: it reads from the snapshot taken when it starts, while       *)
(* FOR UPDATE SKIP LOCKED re-checks and locks the newest committed version *)
(* of each queue row.  The two are therefore separate steps here.          *)
(***************************************************************************)
EXTENDS Naturals, Sequences, FiniteSets, FiniteSetsExt

CONSTANTS
    Writers,        \* sessions that insert events (consumers)
    Workers,        \* queue workers
    JobKinds,       \* per worker: the job kinds its filter selects
    LastMinute,     \* bound: minutes are 0..LastMinute
    Points15, Points1h,  \* minutes per 15min and per 1h bucket (15 and 60, scaled down)
    Values,         \* observed values
    Null,           \* value_numeric IS NULL
    NoRow, NoTxn,   \* "no such row", "no open transaction"
    MeanRollup, PeakFeature, \* the policy's mean_rollup_enabled, peak_feature_enabled
    MinCoverage,    \* min_coverage_ratio in percent
    Cuts,           \* values of max_bucket_ts; NoCut stands for NULL
    NoCut,
    BatchSize,      \* rows per pass
    MaxEvents,      \* bound: events inserted
    MaxPerMinute,   \* events one minute may receive; more than 1 = re-observed minutes
    MaxRollbacks,   \* bound: worker passes that fail
    WindowCommits   \* may ingestion commit between a worker's snapshot and its claim?

ASSUME PointsAssumption == Points15 \in Nat \ {0} /\ Points1h \in Nat \ {0}
ASSUME QueueBoundAssumption ==
    /\ LastMinute \in Nat /\ BatchSize \in Nat \ {0} /\ MinCoverage \in 0..100
    /\ MaxEvents \in Nat /\ MaxPerMinute \in Nat /\ MaxRollbacks \in Nat
ASSUME FlagAssumption == MeanRollup \in BOOLEAN /\ PeakFeature \in BOOLEAN /\ WindowCommits \in BOOLEAN
ASSUME WorkerAssumption == JobKinds \in [Workers -> SUBSET {"mean_rollup", "peak_feature"}]

VARIABLES
    minute,     \* live.measurement_1min: a row or NoRow per minute
    queue,      \* live.bucket_queue.status per job key; "absent" before the first event
    txn,        \* per writer: the open ingestion transaction, its rows locked
    inserted,   \* events inserted so far
    pc,         \* per worker: "idle", "snapped" (statement started), "claimed" (rows locked)
    snap,       \* per worker: the statement's snapshot
    claimed,    \* per worker: queue rows it holds locked
    out,        \* live.measurement_15min / _1h and mart.peak_feature_15min, per job
    checks,     \* live.promotion_check rows per job, oldest first
    rollbacks   \* failed worker passes so far

ingest == <<minute, txn, inserted>>
vars == <<minute, queue, txn, inserted, pc, snap, claimed, out, checks, rollbacks>>

(***************************************************************************)
(* Buckets and jobs.                                                       *)
(***************************************************************************)
Minutes == 0..LastMinute

Points(res) == IF res = "15min" THEN Points15 ELSE Points1h

\* date_trunc arithmetic of the trigger: the start of the bucket that holds m.
BucketStart(res, m) == (m \div Points(res)) * Points(res)

Job(kind, res, m) == [kind |-> kind, res |-> res, bucket |-> BucketStart(res, m)]

\* The queue rows the trigger upserts for an event in minute m.
JobsOf(m) ==
    (IF MeanRollup THEN {Job("mean_rollup", "15min", m), Job("mean_rollup", "1h", m)} ELSE {})
    \cup (IF PeakFeature THEN {Job("peak_feature", "15min", m)} ELSE {})

Jobs == UNION {JobsOf(m) : m \in Minutes}

\* The 1min rows source_1min joins to a job.
Window(j) == {m \in Minutes : j.bucket <= m /\ m < j.bucket + Points(j.res)}

\* Mutant: the IS NULL alternative of the limit is missing.
ClosedStrict(j, cut) == cut # NoCut /\ j.bucket + Points(j.res) <= cut

\* max_bucket_ts: only closed buckets, when a limit is given.
Closed(j, cut) == cut = NoCut \/ j.bucket + Points(j.res) <= cut

(***************************************************************************)
(* Rows.                                                                   *)
(***************************************************************************)
MinuteRows == [value : Values \cup {Null}, events : Nat \ {0}]
ASSUME NoRowAssumption == NoRow \notin MinuteRows
MinuteTables == [Minutes -> MinuteRows \cup {NoRow}]
QueueTables == [Jobs -> {"absent", "pending", "done"}]

\* Mutant: a new row starts with an empty source_event_ids array.
UpsertMinuteZero(row, v) == [value |-> v, events |-> IF row = NoRow THEN 0 ELSE row.events + 1]

\* The trigger's upsert: the value is replaced, the event id appended.
UpsertMinute(row, v) == [value |-> v, events |-> IF row = NoRow THEN 1 ELSE row.events + 1]

\* What a job reads of a 1min table.
SourceIn(table, j) == [m \in Window(j) |-> table[m]]

Source(j) == SourceIn(minute, j)

Present(src) == {m \in DOMAIN src : src[m] # NoRow}

Observed(src) == {m \in Present(src) : src[m].value # Null}

\* bucket_stats: unnest(source_event_ids) repeats a minute once per event id, and
\* the sums count the repetitions.
ExpectedPoints(src) == MapThenSumSet(LAMBDA m : src[m].events, Present(src))
ObservedPoints(src) == MapThenSumSet(LAMBDA m : src[m].events, Observed(src))

\* coverage_ratio >= pct / 100
Covers(src, pct) ==
    IF ExpectedPoints(src) > 0
    THEN ObservedPoints(src) * 100 >= pct * ExpectedPoints(src)
    ELSE pct = 0

\* The promotion_check row of a job's result.  "written" is evidence.canonical_write;
\* the evidence keeps the coverage the row was judged by.
CheckOf(src) ==
    [status |-> IF Covers(src, MinCoverage) THEN "pass" ELSE "block", src |-> src, written |-> FALSE]

\* What a job may read, and the checks it may leave.
SourceRows(j) == [Window(j) -> MinuteRows \cup {NoRow}]
CheckRows(j) == [status : {"pass", "block"}, src : SourceRows(j), written : BOOLEAN]

(***************************************************************************)
(* Row locks.                                                              *)
(***************************************************************************)
TxnJobs(t) == IF txn[t] = NoTxn THEN {} ELSE JobsOf(txn[t].minute)

LockedJobs == (UNION {TxnJobs(t) : t \in Writers}) \cup (UNION {claimed[w] : w \in Workers})

NoSnap == [minute |-> NoRow, queue |-> NoRow, cut |-> NoCut]

TypeOK ==
    /\ minute \in MinuteTables
    /\ queue \in QueueTables
    /\ txn \in [Writers -> [minute : Minutes, value : Values \cup {Null}] \cup {NoTxn}]
    /\ inserted \in 0..MaxEvents
    /\ pc \in [Workers -> {"idle", "snapped", "claimed"}]
    /\ claimed \in [Workers -> SUBSET Jobs]
    /\ DOMAIN snap = Workers
    /\ \A w \in Workers : pc[w] # "idle" => snap[w].minute \in MinuteTables /\ snap[w].queue \in QueueTables
    /\ \A j \in Jobs : out[j] \in SourceRows(j) \cup {NoRow}
    /\ \A j \in Jobs : checks[j] \in Seq(CheckRows(j))
    /\ rollbacks \in 0..MaxRollbacks

Init ==
    /\ minute = [m \in Minutes |-> NoRow]
    /\ queue = [j \in Jobs |-> "absent"]
    /\ txn = [t \in Writers |-> NoTxn]
    /\ inserted = 0
    /\ pc = [w \in Workers |-> "idle"]
    /\ snap = [w \in Workers |-> NoSnap]
    /\ claimed = [w \in Workers |-> {}]
    /\ out = [j \in Jobs |-> NoRow]
    /\ checks = [j \in Jobs |-> <<>>]
    /\ rollbacks = 0

(***************************************************************************)
(* Ingestion transactions.                                                 *)
(***************************************************************************)

\* The trigger writes the minute and its queue rows and keeps them locked until
\* the transaction ends; it waits for rows another session holds.
TriggerExecute(t, m, v) ==
    /\ txn[t] = NoTxn
    /\ inserted < MaxEvents
    /\ minute[m] # NoRow => minute[m].events < MaxPerMinute
    /\ ~ \E u \in Writers : txn[u] # NoTxn /\ txn[u].minute = m
    /\ JobsOf(m) \cap LockedJobs = {}
    /\ txn' = [txn EXCEPT ![t] = [minute |-> m, value |-> v]]
    /\ inserted' = inserted + 1
    /\ UNCHANGED <<minute, queue, pc, snap, claimed, out, checks, rollbacks>>

\* Mutant: ON CONFLICT leaves the status of an existing queue row alone.
MarkDirtyOnce(j) == IF queue[j] = "absent" THEN "pending" ELSE queue[j]

\* ON CONFLICT DO UPDATE SET status = 'pending'
MarkDirty(j) == "pending"

TriggerCommit(t) ==
    /\ txn[t] # NoTxn
    /\ WindowCommits \/ \A w \in Workers : pc[w] # "snapped"
    /\ LET m == txn[t].minute IN
         /\ minute' = [minute EXCEPT ![m] = UpsertMinute(@, txn[t].value)]
         /\ queue' = [j \in Jobs |-> IF j \in JobsOf(m) THEN MarkDirty(j) ELSE queue[j]]
    /\ txn' = [txn EXCEPT ![t] = NoTxn]
    /\ UNCHANGED <<inserted, pc, snap, claimed, out, checks, rollbacks>>

TriggerRollback(t) ==
    /\ txn[t] # NoTxn
    /\ txn' = [txn EXCEPT ![t] = NoTxn]
    /\ UNCHANGED <<minute, queue, inserted, pc, snap, claimed, out, checks, rollbacks>>

(***************************************************************************)
(* A worker pass.                                                          *)
(***************************************************************************)

\* The statement starts: everything it reads is as of now.
WorkerSnapshot(w, cut) ==
    /\ pc[w] = "idle"
    /\ pc' = [pc EXCEPT ![w] = "snapped"]
    /\ snap' = [snap EXCEPT ![w] = [minute |-> minute, queue |-> queue, cut |-> cut]]
    /\ UNCHANGED <<ingest, queue, claimed, out, checks, rollbacks>>

\* Mutant: FOR UPDATE does not skip rows that are locked.
ClaimableUnlocked(w) ==
    {j \in Jobs : /\ snap[w].queue[j] = "pending"
                  /\ j.kind \in JobKinds[w]
                  /\ Closed(j, snap[w].cut)}

\* The rows of claimable: pending in the snapshot, still pending in the newest
\* version, and not locked by anybody.
Claimable(w) ==
    {j \in Jobs : /\ snap[w].queue[j] = "pending"
                  /\ j.kind \in JobKinds[w]
                  /\ Closed(j, snap[w].cut)
                  /\ queue[j] = "pending"
                  /\ j \notin LockedJobs}

\* ORDER BY bucket_ts, queue_id LIMIT batch_size; queue ids order equal bucket_ts freely.
FirstBatch(C) ==
    {S \in SUBSET C : /\ Cardinality(S) = IF Cardinality(C) < BatchSize THEN Cardinality(C) ELSE BatchSize
                      /\ \A j \in S, k \in C \ S : j.bucket <= k.bucket}

WorkerClaim(w) ==
    /\ pc[w] = "snapped"
    /\ \E S \in FirstBatch(Claimable(w)) : claimed' = [claimed EXCEPT ![w] = S]
    /\ pc' = [pc EXCEPT ![w] = "claimed"]
    /\ UNCHANGED <<ingest, queue, snap, out, checks, rollbacks>>

\* The rest of the statement and the commit: outputs upserted and checks inserted
\* from the snapshot's minutes, claimed rows set to done.
WorkerCommit(w) ==
    /\ pc[w] = "claimed"
    /\ out' = [j \in Jobs |-> IF j \in claimed[w] THEN SourceIn(snap[w].minute, j) ELSE out[j]]
    /\ checks' = [j \in Jobs |-> IF j \in claimed[w]
                                 THEN Append(checks[j], CheckOf(SourceIn(snap[w].minute, j)))
                                 ELSE checks[j]]
    /\ queue' = [j \in Jobs |-> IF j \in claimed[w] THEN "done" ELSE queue[j]]
    /\ claimed' = [claimed EXCEPT ![w] = {}]
    /\ snap' = [snap EXCEPT ![w] = NoSnap]
    /\ pc' = [pc EXCEPT ![w] = "idle"]
    /\ UNCHANGED <<ingest, rollbacks>>

\* An exception or a lost connection: the pass is rolled back and the shell loop
\* runs the next one.
WorkerRollback(w) ==
    /\ pc[w] # "idle"
    /\ rollbacks < MaxRollbacks
    /\ rollbacks' = rollbacks + 1
    /\ claimed' = [claimed EXCEPT ![w] = {}]
    /\ snap' = [snap EXCEPT ![w] = NoSnap]
    /\ pc' = [pc EXCEPT ![w] = "idle"]
    /\ UNCHANGED <<ingest, queue, out, checks>>

IngestStep(t) ==
    \/ \E m \in Minutes, v \in Values \cup {Null} : TriggerExecute(t, m, v)
    \/ TriggerCommit(t)
    \/ TriggerRollback(t)

WorkerStep(w) ==
    \/ \E cut \in Cuts : WorkerSnapshot(w, cut)
    \/ WorkerClaim(w)
    \/ WorkerCommit(w)
    \/ WorkerRollback(w)

Next == (\E t \in Writers : IngestStep(t)) \/ (\E w \in Workers : WorkerStep(w))

Spec == Init /\ [][Next]_vars

(***************************************************************************)
(* Fairness: an open transaction ends, and the workers' shell loop runs    *)
(* pass after pass without a limit on bucket_ts.                           *)
(***************************************************************************)
Fairness ==
    /\ \A t \in Writers : WF_vars(TriggerCommit(t) \/ TriggerRollback(t))
    /\ \A w \in Workers : WF_vars(WorkerSnapshot(w, NoCut)) /\ WF_vars(WorkerClaim(w)) /\ WF_vars(WorkerCommit(w))

FairSpec == Spec /\ Fairness

(***************************************************************************)
(* Properties.                                                             *)
(***************************************************************************)

\* A late event makes its buckets dirty again: a queue row that is done has an
\* output computed from the minutes as they are now.
DoneIsFresh == \A j \in Jobs : queue[j] = "done" => out[j] = Source(j)

\* A recomputed output never loses an observation an earlier one had.
RollupNeverGoesBack ==
    [][\A j \in Jobs : out[j] # NoRow =>
          \A m \in Window(j) : out[j][m] # NoRow =>
              out'[j][m] # NoRow /\ out'[j][m].events >= out[j][m].events]_vars

(***************************************************************************)
(* Why these hold when nothing commits inside a worker's window.           *)
(***************************************************************************)

\* Open transactions and workers hold disjoint queue rows; only a worker that has
\* claimed holds any.
LocksDisjoint ==
    /\ \A w \in Workers : pc[w] # "claimed" => claimed[w] = {}
    /\ \A t \in Writers, w \in Workers : TxnJobs(t) \cap claimed[w] = {}

\* A worker aggregates minutes that are still current: nothing was committed since the
\* snapshot before the claim, and the claimed rows keep writers out after it.
SnapshotCurrent ==
    \A w \in Workers :
        /\ pc[w] = "snapped" => snap[w].minute = minute
        /\ \A j \in claimed[w] : SourceIn(snap[w].minute, j) = Source(j)

\* No output has an observation the minutes do not have.
OutputsBehind ==
    \A j \in Jobs : out[j] # NoRow => \A m \in Window(j) :
        out[j][m] # NoRow => minute[m] # NoRow /\ out[j][m].events <= minute[m].events

\* The inductive invariant: the queue's row locks serialise rollups with ingestion.
QueueInv == LocksDisjoint /\ SnapshotCurrent /\ DoneIsFresh /\ OutputsBehind

\* Every dirty bucket is eventually rolled up.
DirtyIsProcessed == \A j \in Jobs : (queue[j] = "pending") ~> (queue[j] = "done")
=============================================================================
