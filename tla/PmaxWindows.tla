---------------------------- MODULE PmaxWindows ----------------------------
(***************************************************************************)
(* Training and batch inference of the P-Max forecast,                     *)
(* cms/modeling/pmax: training.py, export_training_data.py, inference.py,  *)
(* batch_inference.py and csv_store.py.                                    *)
(*                                                                         *)
(* Time is counted in 15-minute buckets.  A value is the set of buckets    *)
(* whose readings it was computed from: a reading of bucket t is {t}, an   *)
(* interpolated one is {a, b}, a missing one is {}.  A logical meter is a  *)
(* sequence of source meters; a place in it is the segment id.             *)
(***************************************************************************)
EXTENDS Integers, Sequences, FiniteSets, FiniteSetsExt

CONSTANTS MeterSources,        \* the source meters
          LogicalMeters,  \* LOGICAL_METERS: name -> sequence of sources
          Columns,        \* RAW_FEATURE_COLUMNS; "P" is the target
          LastBucket,
          WindowSize, HorizonSteps, LongestLag,
          MaxImputedRows, \* MAX_IMPUTED_INPUT_ROWS
          Lookback,       \* lookback_days, in buckets
          TrainStart, TrainEnd,
          Readings        \* what the 15-minute table may hold: sets of [Sources -> SUBSET (bucket x column)]

ASSUME WindowsAssumption ==
    /\ "P" \in Columns /\ WindowSize \in Nat \ {0} /\ HorizonSteps \in Nat \ {0}
    /\ LongestLag \in Nat \ {0} /\ MaxImputedRows \in Nat
    /\ Lookback \in Nat
    /\ Lookback >= WindowSize + LongestLag + MaxImputedRows + 1   \* "lookback-days must be at least 4"

Buckets == 0..LastBucket
ASSUME ReadingsAssumption ==
    /\ LastBucket \in Nat
    /\ Readings \subseteq [MeterSources -> SUBSET (Buckets \X Columns)]
    /\ \A m \in DOMAIN LogicalMeters : LogicalMeters[m] \in Seq(MeterSources)
Stamps(R) == {cell[1] : cell \in R}          \* the buckets of the rows a query returns

-----------------------------------------------------------------------------
(* Imputation: the policy training, export and inference share             *)

\* _limited_internal_interpolation of one column of the rows R, at bucket t: the reading, or the two
\* readings around a short enough gap.
limited_internal_interpolation(R, c, t) ==
    LET before == {cell[1] : cell \in {x \in R : x[2] = c /\ x[1] < t}}
        after == {cell[1] : cell \in {x \in R : x[2] = c /\ x[1] > t}}
    IN  IF <<t, c>> \in R THEN {t}
        ELSE IF before = {} \/ after = {} THEN {}
        ELSE IF Min(after) - Max(before) - 1 > MaxImputedRows THEN {}
        ELSE {Max(before), Min(after)}

\* impute_raw_feature_gaps: every bucket from the first row to hi, interpolated column by column, and
\* for inference one trailing bucket filled from a complete previous one.
impute_raw_feature_gaps(R, hi, trailing) ==
    LET complete(t) == \A c \in Columns : limited_internal_interpolation(R, c, t) # {} IN
    [rows |-> R, lo |-> Min(Stamps(R)), hi |-> hi,
     filled |-> IF trailing /\ hi > Min(Stamps(R)) /\ ~complete(hi) /\ complete(hi - 1) THEN {hi} ELSE {}]
Cell(f, c, t) == LET v == limited_internal_interpolation(f.rows, c, t) IN
                 IF v = {} /\ t \in f.filled THEN limited_internal_interpolation(f.rows, c, t - 1) ELSE v
WholeRows(f, t) == \A c \in Columns : <<t, c>> \in f.rows
TargetObserved(f, t) == <<t, "P">> \in f.rows
Interpolated(f, t) == \E c \in Columns : <<t, c>> \notin f.rows /\ limited_internal_interpolation(f.rows, c, t) # {}
Whole(f, t) == \A c \in Columns : Cell(f, c, t) # {}

Imputed(f, W) == {t \in W : Interpolated(f, t) \/ t \in f.filled}

\* input_imputation_is_allowed: few imputed rows, a filled one only at the end, one internal run.
input_imputation_is_allowed(f, W) ==
    LET internal == Imputed(f, W) \ f.filled IN
    /\ Cardinality(Imputed(f, W)) <= MaxImputedRows
    /\ W \cap f.filled \subseteq {Max(W)}
    /\ Cardinality({t \in internal : t - 1 \notin internal}) <= 1

\* add_segment_features and dropna: a row has its own columns, the previous row's and the lagged P.
usable(f, t) == /\ t - LongestLag >= f.lo /\ t <= f.hi
                /\ Whole(f, t) /\ Whole(f, t - 1) /\ Cell(f, "P", t - LongestLag) # {}
\* What the columns of a window's rows were computed from.
inputs(f, W) == [t \in W |-> [c \in Columns |-> Cell(f, c, t)]]

-----------------------------------------------------------------------------
(* training.py                                                             *)

\* fetch_source_meter, after the physical limits; the frame ends at the last row.
fetch_source_meter(R) == impute_raw_feature_gaps(R, Max(Stamps(R)), FALSE)
\* The frames export_training_data.py writes with its own copy of the imputation, read back by
\* fetch_source_meter_from_input.
fetch_source_meter_from_input(R) == impute_raw_feature_gaps(R, Max(Stamps(R)), FALSE)

\* split_name: only targets between TRAIN_START and END_TS are used.
split_name(t) == TrainStart <= t /\ t < TrainEnd

\* Mutant: the last input row may be an interpolated one.
WindowTaken_any_last(f, s) ==
    /\ \A t \in (s + WindowSize)..(s + WindowSize + HorizonSteps - 1) : TargetObserved(f, t)
    /\ input_imputation_is_allowed(f, s..(s + WindowSize - 1))
\* build_windows: a window of a continuous segment is kept when its last input is observed, its
\* targets are observed and the imputation policy allows it.
WindowTaken(f, s) ==
    /\ WholeRows(f, s + WindowSize - 1)
    /\ \A t \in (s + WindowSize)..(s + WindowSize + HorizonSteps - 1) : TargetObserved(f, t)
    /\ input_imputation_is_allowed(f, s..(s + WindowSize - 1))

build_windows(f) ==
    {s \in Buckets : /\ s + WindowSize + HorizonSteps - 1 <= f.hi
                     /\ \A t \in s..(s + WindowSize + HorizonSteps - 1) : usable(f, t)
                     /\ split_name(s + WindowSize + HorizonSteps - 1)
                     /\ WindowTaken(f, s)}

-----------------------------------------------------------------------------
VARIABLES table,     \* the 15-minute table: source -> the (bucket, column) cells it has
          artifact,  \* logical meter -> "none", "models" (_candidate_models), "whole" (v29 too)
          dataset,   \* logical meter -> the windows its model was trained on
          batch,     \* results of a batch not yet written, <<>> when there is none
          history    \* (logical meter, base_ts) of the cumulative CSV -> the window served
wvars == <<table, artifact, dataset, batch, history>>

Names == DOMAIN LogicalMeters
SegmentsOf(m) == {k \in 1..Len(LogicalMeters[m]) : table[LogicalMeters[m][k]] # {}}

WindowsInit == /\ table \in Readings
               /\ artifact = [m \in Names |-> "none"]
               /\ dataset = [m \in Names |-> {}]
               /\ batch = <<>> /\ history = <<>>

\* run_one up to train_candidates: fetch_logical_meter from the database or an exported archive,
\* build_windows (no window raises), the candidate models on disk.
train_candidates(m) ==
    /\ artifact[m] = "none"
    /\ \E fetch \in {"db", "archive"} :
         LET frame(k) == LET R == table[LogicalMeters[m][k]] IN
                         IF fetch = "db" THEN fetch_source_meter(R) ELSE fetch_source_meter_from_input(R)
             windows == UNION {{[segment |-> k, start |-> s, inputs |-> inputs(frame(k), s..(s + WindowSize - 1))] :
                                   s \in build_windows(frame(k))} : k \in SegmentsOf(m)}
         IN  windows # {} /\ dataset' = [dataset EXCEPT ![m] = windows]
    /\ artifact' = [artifact EXCEPT ![m] = "models"]
    /\ UNCHANGED <<table, batch, history>>

\* The rest of run_one: weights and manifest of the ensemble.  A run that dies before leaves "models".
write_method_artifacts(m) ==
    /\ artifact[m] = "models"
    /\ artifact' = [artifact EXCEPT ![m] = "whole"]
    /\ UNCHANGED <<table, dataset, batch, history>>

-----------------------------------------------------------------------------
(* inference.py and batch_inference.py                                     *)

load_artifacts(m) == artifact[m] = "whole"

\* fetch_source_range: the rows of the lookback before the request, imputed up to the last bucket.
RecentRows(m, k, asof) == {cell \in table[LogicalMeters[m][k]] : asof - Lookback <= cell[1] /\ cell[1] < asof}
fetch_source_range(m, k, asof) == impute_raw_feature_gaps(RecentRows(m, k, asof), asof - 1, TRUE)

InferenceBuckets(asof) == (asof - WindowSize)..(asof - 1)
exact_candidates(m, asof) ==
    {k \in 1..Len(LogicalMeters[m]) :
        RecentRows(m, k, asof) # {} /\ \A t \in InferenceBuckets(asof) : usable(fetch_source_range(m, k, asof), t)}

\* Mutant: the oldest segment that reaches the bucket is taken.
segment_taken_oldest(S) == Min(S)
segment_taken(S) == Max(S)

\* build_inference_window: "ok" unless it raises.
build_inference_window(m, asof) ==
    LET S == exact_candidates(m, asof)
        k == segment_taken(S)
        f == fetch_source_range(m, k, asof)
    IN  IF /\ S # {}
           /\ \E i \in 1..Len(LogicalMeters[m]) :      \* latest_usable, of any segment
                /\ RecentRows(m, i, asof) # {}
                /\ \/ WholeRows(fetch_source_range(m, i, asof), asof - 1)
                   \/ fetch_source_range(m, i, asof).filled # {}
           /\ input_imputation_is_allowed(f, InferenceBuckets(asof))
        THEN [ok |-> TRUE, segment |-> k, filled |-> f.filled # {}, inputs |-> inputs(f, InferenceBuckets(asof))]
        ELSE [ok |-> FALSE, segment |-> 0, filled |-> FALSE, inputs |-> <<>>]

\* latest_source_timestamp of every meter, and the earliest of them.
LatestOf(m) == UNION {Stamps(table[LogicalMeters[m][k]]) : k \in 1..Len(LogicalMeters[m])}
resolve_requested_as_of(given) ==
    IF given >= 0 THEN given ELSE Min({Max(LatestOf(m)) : m \in Names}) + 1

\* Mutant: a meter that raises is left out of the batch.
BatchRows_partial(asof) == {m \in Names : load_artifacts(m) /\ build_inference_window(m, asof).ok}
\* run_batch: a meter that raises ends the batch with nothing written.
BatchRows(asof) == IF \A m \in Names : load_artifacts(m) /\ build_inference_window(m, asof).ok
                   THEN Names ELSE {}

run_batch ==
    /\ batch = <<>>
    /\ \E given \in {-1} \cup 1..(LastBucket + 1) :
         /\ \/ given >= 0
            \/ \A m \in Names : LatestOf(m) # {}     \* "No source data found"
         /\ LET asof == resolve_requested_as_of(given) IN
            /\ BatchRows(asof) # {}
            /\ batch' = [m \in BatchRows(asof) |-> [asof |-> asof, window |-> build_inference_window(m, asof)]]
    /\ UNCHANGED <<table, artifact, dataset, history>>

\* write_batch_outputs with upsert_forecast_csv: the rows replace those of the same meter and base_ts;
\* the history is renamed into place whole.  A process that dies before leaves it as it was.
upsert_forecast_csv ==
    LET keys == {<<m, batch[m].asof>> : m \in DOMAIN batch} IN
    history' = [k \in DOMAIN history \cup keys |-> IF k \in keys THEN batch[k[1]].window ELSE history[k]]
write_batch_outputs ==
    /\ batch # <<>>
    /\ \/ upsert_forecast_csv
       \/ UNCHANGED history
    /\ batch' = <<>> /\ UNCHANGED <<table, artifact, dataset>>

WindowsNext == \/ \E m \in Names : train_candidates(m) \/ write_method_artifacts(m)
               \/ run_batch \/ write_batch_outputs
WindowsSpec == WindowsInit /\ [][WindowsNext]_wvars

-----------------------------------------------------------------------------
\* No training input is computed from a reading taken after the window's last bucket, although gaps
\* are interpolated over the whole history before windows are cut (training.py:299-348 and 467-536).
NoLookAhead ==
    \A m \in Names : \A w \in dataset[m] : \A t \in DOMAIN w.inputs, c \in Columns :
        \A a \in w.inputs[t][c] : a < w.start + WindowSize

\* The reproduction check can succeed: inference asked at the end of a training window reads the same
\* inputs when it takes the same segment (inference.py:444-476 against training.py:467-536).
Reproducible ==
    \A m \in Names : \A w \in dataset[m] :
        LET r == build_inference_window(m, w.start + WindowSize) IN
        r.ok /\ r.segment = w.segment => r.inputs = w.inputs

\* A served window that no bucket was filled into is one training would accept, and it is taken from
\* the newest source meter of the logical meter that reaches the last bucket (inference.py:253-331).
ServedIsTrainable ==
    \A key \in DOMAIN history :
        LET s == key[2] - WindowSize
            k == history[key].segment
            f == fetch_source_meter(table[LogicalMeters[key[1]][k]])
        IN  /\ ~history[key].filled => /\ WholeRows(f, key[2] - 1)
                                       /\ input_imputation_is_allowed(f, s..(key[2] - 1))
                                       /\ history[key].inputs = inputs(f, s..(key[2] - 1))
            /\ \A j \in exact_candidates(key[1], key[2]) : j <= k

\* The history has a base_ts for every logical meter or for none (batch_inference.py:129-189).
BatchIsWhole == \A m1, m2 \in Names, t \in Buckets \cup {LastBucket + 1} :
                    <<m1, t>> \in DOMAIN history => <<m2, t>> \in DOMAIN history

\* What training and serving of the P-Max forecast promise each other.
WindowsInv == NoLookAhead /\ Reproducible /\ ServedIsTrainable /\ BatchIsWhole
=============================================================================
