----------------------------- MODULE CoverageQa -----------------------------
(***************************************************************************)
(* The coverage worker (src/scripts/ops/coverage_worker.py) compares the   *)
(* source's day cache with the live tables over a window of event time and *)
(* writes the gaps it finds to qa.live_issue.  It reads the tables chunk   *)
(* by chunk, each chunk in a connection of its own, while the stream goes  *)
(* on storing events and rolling them up.                                  *)
(*                                                                         *)
(* One series; time is counted in ticks and a bucket of a resolution is    *)
(* named by its first tick.                                                *)
(***************************************************************************)
EXTENDS Naturals, FiniteSets

CONSTANTS SourceEvents,   \* the ticks of the series' source rows
          Resolutions,    \* "1min" and the coarser rollups
          Width,          \* ticks in a bucket of each resolution
          ChunkTicks,     \* --db-event-chunk-minutes, --db-rollup-chunk-minutes
          QaWindows,        \* the windows the worker is run for, <<start, end>>
          Skips,          \* values of --skip-event-minute and --skip-rollups
          MaxCoverageRuns \* bound on runs of the worker

ASSUME CoverageAssumption ==
    /\ ChunkTicks \in Nat \ {0}
    /\ \A r \in Resolutions : Width[r] \in Nat \ {0}
    /\ \A w \in QaWindows : w[1] \in Nat /\ w[2] \in Nat /\ w[1] < w[2]
    /\ SourceEvents \subseteq Nat /\ IsFiniteSet(SourceEvents) /\ "1min" \in Resolutions

VARIABLES live_rows,     \* events of live.measurement_event
          rolled,     \* rows of the rollup tables, <<resolution, bucket>>
          scan,       \* the worker's run
          issues,     \* active rows of qa.live_issue, <<resolution, bucket>>
          onceGaps,   \* gaps some run had before it when it began (history)
          coverageRuns

qvars == <<live_rows, rolled, scan, issues, onceGaps, coverageRuns>>

floor_time(t, width) == (t \div width) * width
Minute == Width["1min"]
In(t, w) == w[1] <= t /\ t < w[2]

\* What the source has and the tables lack within a window.
EventGaps(w, src, counted) ==
    {<<"event_minute", b>> : b \in {m \in {floor_time(t, Minute) : t \in src} :
          counted[m] < Cardinality({t \in src : floor_time(t, Minute) = m})}}
RollupGaps(src, keys) ==
    {<<r, floor_time(t, Width[r])>> : r \in Resolutions, t \in src} \ keys

QaBuckets(width) == {floor_time(t, width) : t \in SourceEvents}
CountStored(s, m) == Cardinality({t \in s : floor_time(t, Minute) = m})

GapsNow(w) ==
    LET src == {t \in SourceEvents : In(t, w)}
    IN  EventGaps(w, src, [m \in QaBuckets(Minute) |-> CountStored(live_rows, m)])
        \cup RollupGaps(src, rolled)

NoScan == [at |-> "idle", win |-> <<0, 0>>, src |-> {}, cursor |-> 0, readable |-> TRUE,
           skipEvents |-> FALSE, skipRollups |-> FALSE,
           counted |-> [m \in QaBuckets(Minute) |-> 0], keys |-> {}]

CoverageInit ==
    /\ live_rows = {} /\ rolled = {}
    /\ scan = NoScan
    /\ issues = {} /\ onceGaps = {}
    /\ coverageRuns = 0

---------------------------------------------------------------------------
(***************************************************************************)
(* The stream: an event and its minute row are one transaction; the bucket *)
(* queue adds the coarser rows later.                                      *)
(***************************************************************************)
StoreEvent ==
    /\ \E t \in SourceEvents \ live_rows :
          /\ live_rows' = live_rows \cup {t}
          /\ rolled' = rolled \cup {<<"1min", floor_time(t, Minute)>>}
    /\ UNCHANGED <<scan, issues, onceGaps, coverageRuns>>

RollUp ==
    /\ \E r \in Resolutions \ {"1min"}, t \in live_rows :
          /\ <<r, floor_time(t, Width[r])>> \notin rolled
          /\ rolled' = rolled \cup {<<r, floor_time(t, Width[r])>>}
    /\ UNCHANGED <<live_rows, scan, issues, onceGaps, coverageRuns>>

(***************************************************************************)
(* main, scan_source_coverage: the source rows of the window, or none when *)
(* the series' file cannot be read (the run goes on and exits with 2).     *)
(***************************************************************************)
scan_source_coverage ==
    /\ scan.at \in {"idle", "done"} /\ coverageRuns < MaxCoverageRuns
    /\ coverageRuns' = coverageRuns + 1
    /\ \E w \in QaWindows, readable \in BOOLEAN, skipEvents, skipRollups \in Skips :
          /\ scan' = [NoScan EXCEPT !.at = "events", !.win = w, !.cursor = w[1],
                         !.src = IF readable THEN {t \in SourceEvents : In(t, w)} ELSE {},
                         !.readable = readable,
                         !.skipEvents = skipEvents, !.skipRollups = skipRollups]
          /\ onceGaps' = onceGaps \cup GapsNow(w)
    /\ UNCHANGED <<live_rows, rolled, issues>>

\* iter_time_chunks: the chunk the cursor is at ends at the window's end at
\* the latest.
ChunkEnd == IF scan.cursor + ChunkTicks < scan.win[2] THEN scan.cursor + ChunkTicks
                                                       ELSE scan.win[2]

\* The next chunk, or the next phase from the window's start.
NextChunk(phase) == [scan EXCEPT !.cursor = IF ChunkEnd < scan.win[2] THEN ChunkEnd
                                                                      ELSE scan.win[1],
                                 !.at = IF ChunkEnd < scan.win[2] THEN @ ELSE phase]

\* Mutant: the chunk's last tick is left out of the query.
InChunkOpen(t) == scan.cursor <= t /\ t + 1 < ChunkEnd

InChunk(t) == scan.cursor <= t /\ t < ChunkEnd

(***************************************************************************)
(* fetch_event_minute_counts: the minutes of a chunk replace what earlier  *)
(* chunks counted for them.                                                *)
(***************************************************************************)
fetch_event_minute_counts ==
    /\ scan.at = "events" /\ ~scan.skipEvents
    /\ LET seen == {t \in live_rows : InChunk(t)}
       IN  scan' = [NextChunk("rollups") EXCEPT
                       !.counted = [m \in DOMAIN scan.counted |->
                                      IF CountStored(seen, m) > 0 THEN CountStored(seen, m) ELSE @[m]]]
    /\ UNCHANGED <<live_rows, rolled, issues, onceGaps, coverageRuns>>

\* fetch_live_rollup_keys: the rows whose bucket starts within the chunk.
fetch_live_rollup_keys ==
    /\ scan.at = "rollups" /\ ~scan.skipRollups
    /\ scan' = [NextChunk("insert") EXCEPT !.keys = @ \cup {k \in rolled : InChunk(k[2])}]
    /\ UNCHANGED <<live_rows, rolled, issues, onceGaps, coverageRuns>>

\* --skip-event-minute and --skip-rollups leave out the query only.
SkipPhase ==
    /\ \/ scan.at = "events" /\ scan.skipEvents /\ scan' = [scan EXCEPT !.at = "rollups"]
       \/ scan.at = "rollups" /\ scan.skipRollups /\ scan' = [scan EXCEPT !.at = "insert"]
    /\ UNCHANGED <<live_rows, rolled, issues, onceGaps, coverageRuns>>

\* A query times out or the connection breaks: the run ends with nothing written.
ScanRaises ==
    /\ scan.at \in {"events", "rollups", "insert"}
    /\ scan' = NoScan
    /\ UNCHANGED <<live_rows, rolled, issues, onceGaps, coverageRuns>>

\* Mutant: a minute counts as covered once any event of it is stored.
build_coverage_issues_any ==
    {i \in EventGaps(scan.win, scan.src, scan.counted) : scan.counted[i[2]] = 0}
    \cup RollupGaps(scan.src, scan.keys)

build_coverage_issues ==
    EventGaps(scan.win, scan.src, scan.counted) \cup RollupGaps(scan.src, scan.keys)

\* insert_live_issues: one transaction, a known coverage_key is skipped.
insert_live_issues ==
    /\ scan.at = "insert"
    /\ issues' = issues \cup build_coverage_issues
    /\ scan' = [scan EXCEPT !.at = "done"]
    /\ UNCHANGED <<live_rows, rolled, onceGaps, coverageRuns>>

CoverageNext ==
    \/ StoreEvent \/ RollUp
    \/ scan_source_coverage \/ fetch_event_minute_counts \/ fetch_live_rollup_keys
    \/ SkipPhase \/ ScanRaises \/ insert_live_issues

CoverageSpec == CoverageInit /\ [][CoverageNext]_qvars

---------------------------------------------------------------------------
\* The worker "writes only *currently observed* gaps to qa.live_issue"
\* (coverage_worker.py:5): every row it ever wrote was a gap between the source
\* and the live tables when its run began.
IssuesWereGaps == issues \subseteq onceGaps

\* A run that skips no phase and whose window starts and ends with a bucket of
\* every resolution is exact, although it reads the tables chunk by chunk while
\* events arrive: what it writes were gaps when it began, and every gap that is
\* still open in its window has its row (build_coverage_issues).
IssuesAreTheGaps ==
    scan.at = "done" =>
       /\ ~scan.skipEvents /\ ~scan.skipRollups => build_coverage_issues \subseteq onceGaps
       /\ scan.readable => GapsNow(scan.win) \subseteq issues
=============================================================================
