-------------------------- MODULE LiveEqualization --------------------------
(***************************************************************************)
(* The two adapters that turn the events of a window into rows per         *)
(* resolution: cms/data/scratch_db_adapter.py with the cadence processor   *)
(* live_equalization_processor.py and timestamp_qa.py, and                 *)
(* cms/data/live_scratch_adapter.py with the trigger decision and the      *)
(* rollup workers of live_workers.py and contracts/live_pipeline.py.       *)
(*                                                                         *)
(* One series.  A tick is a minute of a shortened hour, Grain gives the    *)
(* ticks of each resolution.  A run reads the window, computes every row   *)
(* in memory, then writes one table after the other.                       *)
(***************************************************************************)
EXTENDS Integers, Sequences, FiniteSets

CONSTANTS Grain,        \* ticks of "1min", "5min", "15min", "1h"
          Streams,      \* what the source may hold: functions from ticks to sequences of values
          EqWindows,    \* the [start, end) a caller asks for
          Natives,      \* native intervals a document may declare, in ticks; 0: none declared
          Policies      \* what trigger_policy_block_reasons may find: "usable", "blocked"

Resolutions4 == {"1min", "5min", "15min", "1h"}
ASSUME EqualizationAssumption ==
    /\ Grain \in [Resolutions4 -> Nat \ {0}]
    /\ \A w \in EqWindows : w[1] \in Nat /\ w[2] \in Nat /\ w[1] < w[2]
    /\ \A s \in Streams : DOMAIN s \subseteq Nat /\ \A t \in DOMAIN s : s[t] \in Seq(STRING)
    /\ Natives \subseteq Nat /\ Policies \subseteq {"usable", "blocked"}

VARIABLE eq     \* one run: adapter, its inputs, pc, the rows computed and the tables written
evars == <<eq>>

Row(bucket, expected, observed) ==
    [bucket |-> bucket, expected |-> expected, observed |-> observed,
     gap |-> IF observed > expected THEN 0 ELSE expected - observed]

\* The events of tick t of stream s: how many there are, how many carry a value.
Points(s, t) == IF t \in DOMAIN s THEN Len(s[t]) ELSE 0
Observed(s, t) == IF t \in DOMAIN s THEN Cardinality({i \in 1..Len(s[t]) : s[t][i] # "null"}) ELSE 0
InWindow(w) == w[1]..(w[2] - 1)

\* Numbers are added up by counting pairs of a summand's owner and a number up to the summand.
Units(S, n) == UNION {{x} \X (1..n[x]) : x \in S}
PointsIn(s, T) == Cardinality(Units(T, [t \in T |-> Points(s, t)]))
ObservedIn(s, T) == Cardinality(Units(T, [t \in T |-> Observed(s, t)]))
SumOf(rows, field) == Cardinality(Units(rows, [r \in rows |-> r[field]]))
Present(s, w) == {t \in InWindow(w) : Points(s, t) > 0}

-----------------------------------------------------------------------------
(* scratch_db_adapter.py: validation, equalisation by cadence              *)

\* float(document["value"]) of a document without a value raises.
ValuesParse(s, w) == \A t \in InWindow(w) : Observed(s, t) = Points(s, t)

\* Mutant: two documents of one timestamp are not noticed.
check_duplicates_off(s, w) == TRUE
check_duplicates(s, w) == \A t \in Present(s, w) : Points(s, t) = 1

\* _check_boundary: every timestamp is a multiple of the declared interval; the intervals
\* between consecutive timestamps then are multiples of it too.
check_boundary(s, w, native) == native = 0 \/ \A t \in Present(s, w) : t % native = 0

validate_timestamp_quality(s, w, native) == check_duplicates(s, w) /\ check_boundary(s, w, native)

\* _resolve_cadence_policy: without a declared interval the default policy, one minute.
Cadence(native) == IF native = 0 THEN Grain["1min"] ELSE native

target_grain(native) ==
    CASE Cadence(native) <= Grain["1min"] -> "1min"
      [] Cadence(native) > Grain["1min"] /\ Cadence(native) <= Grain["15min"] -> "15min"
      [] OTHER -> "1h"

\* _expected_points_per_bucket raises unless the interval divides the grain.
Divides(native) == Grain[target_grain(native)] % Cadence(native) = 0
expected_points_per_bucket(native) == Grain[target_grain(native)] \div Cadence(native)

\* Mutant: the bucket an event is counted in is the next one when it is not on a boundary.
bucket_start_up(t, minutes) == ((t + minutes - 1) \div minutes) * minutes
bucket_start(t, minutes) == (t \div minutes) * minutes

\* _equalize_series: one row per grain step from the window's start, observed or not.
equalize_series(s, w, native) ==
    LET step == Grain[target_grain(native)]
        Targets == {t \in InWindow(w) : (t - w[1]) % step = 0}
        In(b) == {t \in InWindow(w) : bucket_start(t, step) = b}
    IN  IF Present(s, w) = {} THEN {}
        ELSE {Row(b, expected_points_per_bucket(native), PointsIn(s, In(b))) : b \in Targets}

\* _aggregate_observed_rows: the sums of the rows whose bucket starts in the coarser one.
aggregate_observed_rows(rows, minutes) ==
    {LET part == {r \in rows : bucket_start(r.bucket, minutes) = b}
     IN  [bucket   |-> b,
          expected |-> SumOf(part, "expected"), observed |-> SumOf(part, "observed"), gap |-> SumOf(part, "gap")] :
        b \in {bucket_start(r.bucket, minutes) : r \in rows}}

\* process_live_equalization: 5min only from 1min rows, 15min and 1h from the finest rows there are.
process_live_equalization(s, w, native) ==
    LET base == equalize_series(s, w, native)
        Only(g) == IF target_grain(native) = g THEN base ELSE {}
    IN  [g \in Resolutions4 |->
            CASE g = "1min"  -> Only("1min")
              [] g = "5min"  -> aggregate_observed_rows(Only("1min"), Grain[g])
              [] g = "15min" -> aggregate_observed_rows(Only("1min") \cup Only("15min"), Grain[g])
              [] OTHER       -> aggregate_observed_rows(base, Grain[g])]

NoRows == [g \in Resolutions4 |-> {}]
Unwritten == [g \in Resolutions4 |-> FALSE]

EqInit == \E a \in {"scratch", "live"}, s \in Streams, w \in EqWindows, n \in Natives, p \in Policies :
            eq = [adapter |-> a, stream |-> s, window |-> w, native |-> n, policy |-> p,
                  pc |-> "start", rows |-> NoRows, written |-> Unwritten, queued |-> {}, peak |-> {}]

Fail == eq' = [eq EXCEPT !.pc = "failed"]

\* ScratchDbAdapter.run up to the writes; every refusal comes before the first one.
RunScratch ==
    /\ eq.pc = "start" /\ eq.adapter = "scratch"
    /\ IF /\ ValuesParse(eq.stream, eq.window)
          /\ validate_timestamp_quality(eq.stream, eq.window, eq.native)
          /\ Present(eq.stream, eq.window) # {} => Divides(eq.native)
       THEN eq' = [eq EXCEPT !.pc = "1min",
                             !.rows = process_live_equalization(eq.stream, eq.window, eq.native)]
       ELSE Fail

NextTable == [g \in Resolutions4 |-> CASE g = "1min" -> "5min" [] g = "5min" -> "15min"
                                       [] g = "15min" -> "1h" [] OTHER -> "done"]

\* write_rows of one table; a table without rows is not written, a raised write ends the run.
WriteTable ==
    /\ eq.pc \in Resolutions4
    /\ \/ eq' = [eq EXCEPT !.pc = NextTable[eq.pc], !.written[eq.pc] = eq.rows[eq.pc] # {}]
       \/ eq.rows[eq.pc] # {} /\ Fail

-----------------------------------------------------------------------------
(* live_scratch_adapter.py: trigger decision per event, one rollup each    *)

\* decide_trigger_actions: three jobs and a 1min row per event of a usable policy, else an issue.
derive_trigger_queue_jobs(t) == {<<"mean_rollup", "15min", bucket_start(t, Grain["15min"])>>,
                                 <<"mean_rollup", "1h", bucket_start(t, Grain["1h"])>>,
                                 <<"peak_feature", "15min", bucket_start(t, Grain["15min"])>>}
decide_trigger_actions(t) == IF eq.policy = "usable" THEN derive_trigger_queue_jobs(t) ELSE {}
one_min_rows(s, w) == IF eq.policy = "usable" THEN {Row(t, 1, Observed(s, t)) : t \in Present(s, w)} ELSE {}

\* Mutant: the expected points of an hour are those of a quarter.
derive_expected_points_quarter(native, g) ==
    LET n == Grain["15min"] \div (IF native = 0 THEN Grain["1min"] ELSE native) IN IF n < 1 THEN 1 ELSE n
derive_expected_points(native, g) ==
    LET n == Grain[g] \div (IF native = 0 THEN Grain["1min"] ELSE native) IN IF n < 1 THEN 1 ELSE n

\* MeanRollupRecord.__post_init__ refuses more observed points than expected ones.
build_mean_rollup(first, s, w, native, g) ==
    Row(bucket_start(first, Grain[g]), derive_expected_points(native, g), ObservedIn(s, InWindow(w)))
RollupFits(r) == r.observed <= r.expected

\* build_peak_feature over the same events; it refuses what the 15min rollup refuses.
build_peak_feature(first, s, w, native) == build_mean_rollup(first, s, w, native, "15min")

\* The rollups are built of all the window's events under the first event's bucket, whatever the
\* policy said about them.
RunLive ==
    /\ eq.pc = "start" /\ eq.adapter = "live"
    /\ LET s == eq.stream
           w == eq.window
       IN  IF Present(s, w) = {} THEN eq' = [eq EXCEPT !.pc = "1min"]
           ELSE \E first \in Present(s, w) :
                  LET quarter == build_mean_rollup(first, s, w, eq.native, "15min")
                      hour == build_mean_rollup(first, s, w, eq.native, "1h")
                  IN  IF RollupFits(quarter) /\ RollupFits(hour)
                      THEN eq' = [eq EXCEPT !.pc = "1min",
                                   !.rows["1min"] = one_min_rows(s, w),
                                   !.rows["15min"] = {quarter},
                                   !.rows["1h"] = {hour},
                                   !.queued = UNION {decide_trigger_actions(t) : t \in Present(s, w)},
                                   !.peak = {build_peak_feature(first, s, w, eq.native)}]
                      ELSE Fail

EqNext == RunScratch \/ RunLive \/ WriteTable
EqSpec == EqInit /\ [][EqNext]_evars

-----------------------------------------------------------------------------
(* Reference definitions                                                   *)

\* generate_expected_buckets with align_start_to_grain: aligned boundaries inside the window.
generate_expected_buckets(w, minutes) == {t \in InWindow(w) : t % minutes = 0}

\* build_cadence_equalization_count_plan: rows per resolution of a whole-hour window.
Planned(w, native, g) ==
    LET hasRows == CASE target_grain(native) = "1min" -> Resolutions4
                     [] target_grain(native) = "15min" -> {"15min", "1h"}
                     [] OTHER -> {"1h"}
    IN  IF g \in hasRows THEN (w[2] - w[1]) \div Grain[g] ELSE 0

\* Every written table of the cadence adapter accounts for each document exactly once: expected
\* points are observed or a gap, and the observed ones add up to the window's documents, at every
\* resolution, whatever the native cadence.
EveryPointCountedOnce ==
    eq.adapter = "scratch" =>
      \A g \in Resolutions4 : eq.written[g] =>
         /\ \A r \in eq.rows[g] : r.observed + r.gap = r.expected
         /\ SumOf(eq.rows[g], "observed") = PointsIn(eq.stream, InWindow(eq.window))

\* The rows of a table are the buckets the expected-bucket generator would ask for, and of a
\* whole-hour window as many as the count plan promises.
RowsAsPlanned ==
    eq.adapter = "scratch" =>
      \A g \in Resolutions4 : eq.written[g] =>
         /\ {r.bucket : r \in eq.rows[g]} = generate_expected_buckets(eq.window, Grain[g])
         /\ (eq.window[2] - eq.window[1]) % Grain["1h"] = 0 =>
               Cardinality(eq.rows[g]) = Planned(eq.window, eq.native, g)

\* What the live adapter writes: the hour's rollup has a point for each valued event and expects as
\* many as four quarters, and every bucket a rollup row names was queued unless the policy blocks.
RollupsOfTheEvents ==
    eq.adapter = "live" =>
      \A g \in {"15min", "1h"} : eq.written[g] =>
         \A r \in eq.rows[g] :
           /\ r.observed + r.gap = r.expected
           /\ r.observed = ObservedIn(eq.stream, InWindow(eq.window))
           /\ eq.policy = "usable" => <<"mean_rollup", g, r.bucket>> \in eq.queued
           /\ eq.native # 0 /\ Grain["15min"] % eq.native = 0 =>
                 r.expected * eq.native = Grain[g]

\* The rows every resolution gets for a window of documents (live_equalization_processor.py,
\* scratch_db_adapter.py, live_scratch_adapter.py): nothing is counted twice, lost or invented.
EqualizationInv == EveryPointCountedOnce /\ RowsAsPlanned /\ RollupsOfTheEvents

=============================================================================
