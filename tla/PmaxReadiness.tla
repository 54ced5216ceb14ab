---------------------------- MODULE PmaxReadiness ----------------------------
(***************************************************************************)
(* Which rows of mart.peak_feature_15min a P-Max forecast is made of:      *)
(* cms/contracts/pmax_forecast_15min.py (newest row per key, readiness of  *)
(* the recent windows, field checks) and cms/modeling/                     *)
(* pmax_feature_builder.py (one source meter for the whole history).       *)
(*                                                                         *)
(* One logical meter whose source may be replaced: Sources are its meters, *)
(* ordered by name.  Windows are 15 minute buckets, the last RecentWindows *)
(* of them are the model's input, the earlier ones only feed its lags.  A  *)
(* row stands for the P, U1 and PF rows of its key.                        *)
(***************************************************************************)
EXTENDS Integers, FiniteSets

CONSTANTS HistoryWindows,  \* history_windows: 288 in the code
          RecentWindows,   \* window_points: 96 in the code
          Sources,         \* the source meters of the logical meter, numbered in name order
          Retired,         \* the sources pmax_allowed_source_meters refuses (H2.Z35, H2.Z36 in 2023)
          ServingModes,    \* the source_mode a caller serves with
          MaxCreated,      \* bound on created_at
          MaxFeatureRows   \* bound on the rows of the table

ASSUME PmaxReadinessAssumption ==
    /\ HistoryWindows \in Nat /\ RecentWindows \in 1..HistoryWindows
    /\ Sources \subseteq Nat /\ Retired \subseteq Sources /\ Sources # {}
    /\ ServingModes \subseteq {"live_observed", "reference_backfill", "hybrid_warm_start"} /\ ServingModes # {}
    /\ MaxCreated \in Nat /\ MaxFeatureRows \in Nat

Windows == 1..HistoryWindows
Recent == (HistoryWindows - RecentWindows + 1)..HistoryWindows
RowModes == {"live_observed", "reference_backfill", "unlabelled"}
FeatureRows == [window : Windows, source : Sources, created_at : 1..MaxCreated, mode : RowModes, covered : BOOLEAN]

VARIABLES features,     \* the rows of the table
          serving_mode  \* the mode of this deployment
fvars == <<features, serving_mode>>

FeaturesInit == features = {} /\ serving_mode \in ServingModes

\* A materialisation writes another row; nothing overwrites one (the key of the table has the run).
WriteFeature == /\ Cardinality(features) < MaxFeatureRows
                /\ \E row \in FeatureRows \ features : features' = features \cup {row}
                /\ UNCHANGED serving_mode

FeaturesNext == WriteFeature
FeaturesSpec == FeaturesInit /\ [][FeaturesNext]_fvars

-----------------------------------------------------------------------------
pmax_allowed_source_meters == Sources \ Retired

\* _source_mode_priority: live rows win in hybrid serving, backfilled ones in reference serving.
source_mode_priority(row) ==
    CASE serving_mode = "hybrid_warm_start" /\ row.mode = "live_observed" -> 2
      [] serving_mode = "hybrid_warm_start" /\ row.mode = "reference_backfill" -> 1
      [] serving_mode = "reference_backfill" /\ row.mode = "reference_backfill" -> 2
      [] serving_mode = "reference_backfill" /\ row.mode = "unlabelled" -> 1
      [] OTHER -> 0

\* _feature_sort_key compares the priority first, then created_at and run_id (one number here).
SortsBefore(a, b) == \/ source_mode_priority(a) < source_mode_priority(b)
                     \/ source_mode_priority(a) = source_mode_priority(b) /\ a.created_at < b.created_at
SameKey(a, b) == a.window = b.window /\ a.source = b.source
Newest(row) == \A other \in features : SameKey(row, other) => ~SortsBefore(row, other)

\* select_latest_pmax_feature_rows keeps the first of tied rows; which one is first depends on the query's order.
select_latest_pmax_feature_rows ==
    {S \in SUBSET {r \in features : Newest(r)} :
        /\ \A a, b \in S : SameKey(a, b) => a = b
        /\ \A r \in features : \E s \in S : SameKey(r, s)}

\* Mutant: tied newest rows are taken as they come.
duplicate_latest_ambiguous_never == FALSE
\* _duplicate_latest_ambiguous_issues
duplicate_latest_ambiguous == \E a, b \in features : a # b /\ SameKey(a, b) /\ Newest(a) /\ Newest(b)

\* _validate_feature_row_source_boundary
source_boundary_ok(row) ==
    CASE serving_mode = "live_observed" -> row.mode = "live_observed"
      [] serving_mode = "reference_backfill" -> row.mode # "live_observed"
      [] OTHER -> TRUE
validate_feature_row_fields(row) == row.covered /\ source_boundary_ok(row)

\* validate_pmax_feature_readiness: the field checks cover every selected row, the rest the recent windows.
validate_pmax_feature_readiness(selected) ==
    LET recent == {r \in selected : r.window \in Recent}
        served == {r \in recent : r.source \in pmax_allowed_source_meters}
    IN  /\ ~duplicate_latest_ambiguous
        /\ selected # {}
        /\ \A r \in selected : validate_feature_row_fields(r)
        /\ served = recent                                       \* no source refused for its time
        /\ \A a, b \in served : a.source = b.source              \* no mixed sources
        /\ \A w \in Recent : \E r \in served : r.window = w

\* _choose_single_source: the source with the most rows in the history, the last name of equals.
RowsOf(selected, s) == {r \in selected : r.source = s /\ s \in pmax_allowed_source_meters}
choose_single_source(selected) ==
    CHOOSE s \in Sources : \A t \in Sources :
        \/ Cardinality(RowsOf(selected, s)) > Cardinality(RowsOf(selected, t))
        \/ Cardinality(RowsOf(selected, s)) = Cardinality(RowsOf(selected, t)) /\ s >= t
\* Mutant: the history takes whichever source has the window.
build_logical_history_any(selected) == {r \in selected : r.source \in pmax_allowed_source_meters}
\* _build_logical_history: the chosen source's row of every window; a missing one raises.
build_logical_history(selected) == RowsOf(selected, choose_single_source(selected))
CompleteHistory(history) == \A w \in Windows : \E r \in history : r.window = w

\* build_pmax_feature_vectors: the rows behind the vector, none when it is refused.
build_pmax_feature_vectors(selected) ==
    LET history == build_logical_history(selected)
    IN  IF validate_pmax_feature_readiness(selected) /\ CompleteHistory(history) THEN history ELSE {}

-----------------------------------------------------------------------------
\* A forecast's history is one meter's: every window comes from the same allowed source, from its newest row, well
\* covered, and in live serving from observed data; so no lag crosses a meter replacement and no served number
\* depends on the order in which tied rows were read (build_pmax_feature_vectors, strict readiness).
VectorOfOneMeter ==
    \A selected \in select_latest_pmax_feature_rows :
        LET rows == build_pmax_feature_vectors(selected)
        IN  rows # {} =>
              /\ Cardinality(rows) = HistoryWindows
              /\ \A a, b \in rows : a.source = b.source
              /\ \A r \in rows : /\ r.covered /\ r.source \notin Retired /\ Newest(r)
                                 /\ serving_mode = "live_observed" => r.mode = "live_observed"
              /\ \A other \in select_latest_pmax_feature_rows : build_pmax_feature_vectors(other) = rows
=============================================================================
