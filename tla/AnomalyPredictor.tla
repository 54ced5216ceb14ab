-------------------------- MODULE AnomalyPredictor --------------------------
(***************************************************************************)
(* Inference of the anomaly model, cms/modeling/anomaly/predictor.py, with *)
(* the preprocessing it shares with training (preprocessing.py and its     *)
(* copy features.py).                                                      *)
(*                                                                         *)
(* Hours are 1..Origin - 1 before the forecast origin; Origin itself is    *)
(* the first target, which only training sees.  A value is named by the    *)
(* hour it was measured at, so that a forecast's inputs are the hours they *)
(* come from: 0 is NaN.  A row of a meter is complete ("ok"), has no P     *)
(* ("nan"), breaks a physical rule, which removes the other feature        *)
(* ("bad"), or is not there ("gap").                                       *)
(***************************************************************************)
EXTENDS Integers, Sequences, FiniteSets, FiniteSetsExt, SequencesExt

CONSTANTS Meters,            \* METER_MAP without the skipped ones
          Origin,
          Window,            \* window_size of the base models and the season: 24 hours in the code
          LongWindow,        \* window of the v3 network: 168
          Lag,               \* diff_lag168
          MAX_FFILL_HOURS,
          MAX_TOTAL_MISSING_ROWS,
          ModelRoutes             \* what routing.json may choose: "v61", "v53", "v10", "v3"

ASSUME PredictorAssumption ==
    /\ Window \in Nat \ {0} /\ LongWindow \in Nat /\ LongWindow >= Window /\ Lag \in Nat \ {0}
    /\ Origin \in Nat /\ Origin > LongWindow + Lag /\ MAX_FFILL_HOURS \in Nat /\ MAX_TOTAL_MISSING_ROWS \in Nat
    /\ ModelRoutes \subseteq {"v61", "v53", "v10", "v3"} /\ ModelRoutes # {}

Past == 1..(Origin - 1)
RowKinds == {"ok", "nan", "bad", "gap"}
Histories == [Past -> RowKinds]
InputRows(h) == {t \in Past : h[t] # "gap"}
HasP(h, t) == h[t] \in {"ok", "bad"}
HasOther(h, t) == h[t] \in {"ok", "nan"}     \* after apply_physical_rules

Latest(S) == IF S = {} THEN 0 ELSE Max(S)

-----------------------------------------------------------------------------
(* preprocessing.py: the frame training builds its windows from            *)

\* prepare_model_frame: hourly index between the first and the last row, filled forward at most
\* MAX_FFILL_HOURS.  The hour whose P an hour of the frame carries, 0 if none.
FrameP(h, t) == IF InputRows(h) = {} \/ t < Min(InputRows(h)) THEN 0
                ELSE Latest({s \in InputRows(h) : s <= t /\ t - s <= MAX_FFILL_HOURS /\ HasP(h, s)})
FrameOther(h, t) == IF InputRows(h) = {} \/ t < Min(InputRows(h)) THEN 0
                    ELSE Latest({s \in InputRows(h) : s <= t /\ t - s <= MAX_FFILL_HOURS /\ HasOther(h, s)})

\* add_derived_features: P.diff(Lag) needs the frame's P a lag earlier.
CleanHour(h, t) == FrameP(h, t) # 0 /\ FrameOther(h, t) # 0 /\ t > Lag /\ FrameP(h, t - Lag) # 0

\* build_windows with iter_continuous_segments: the window before Origin is a training example when
\* its hours and the target, which is complete, are clean.
TrainingWindow(h, size) ==
    IF \A t \in (Origin - size)..(Origin - 1) : CleanHour(h, t)
    THEN [k \in 1..size |-> FrameP(h, Origin - size + k - 1)] ELSE <<>>
TrainingAnchor(h) == FrameP(h, Origin - 1)

-----------------------------------------------------------------------------
(* predictor.py                                                            *)

get_effective_window(route) == IF route = "v3" THEN LongWindow ELSE Window

\* _compute_input_quality: hours of the effective window without a row or with a NaN in it.
MissingHours(h, route) == {t \in (Origin - get_effective_window(route))..(Origin - 1) : h[t] \in {"gap", "nan"}}
ConsecutiveRun(S, n) == \E t \in S : \A k \in 0..(n - 1) : t + k \in S
latest_input_missing(h) == h[Origin - 1] = "gap"

\* Mutant: the frame is filled forward without a limit.
ffill_unlimited(h, t) == Latest({s \in InputRows(h) : s <= t /\ HasP(h, s)})
ffill(h, t) == Latest({s \in InputRows(h) : s <= t /\ t - s <= MAX_FFILL_HOURS /\ HasP(h, s)})

\* _build_window: sort, physical rules, reindex, ffill, derived features, the last size hours; NaN
\* anywhere gives None.  The frame ends at the last row, which the caller has checked to be Origin - 1.
build_window(h, size) ==
    LET usable(t) == /\ t >= Min(InputRows(h)) /\ ffill(h, t) # 0
                     /\ \E s \in InputRows(h) : s <= t /\ t - s <= MAX_FFILL_HOURS /\ HasOther(h, s)
                     /\ t - Lag >= Min(InputRows(h)) /\ ffill(h, t - Lag) # 0
    IN  IF \A t \in (Origin - size)..(Origin - 1) : usable(t)
        THEN [k \in 1..size |-> ffill(h, Origin - size + k - 1)] ELSE <<>>

\* Mutant: the anchor is the P of the last row, whatever it is.
anchor_p_of_last_row(h) == Max(InputRows(h))
\* The last P that is not NaN.
anchor_p(h) == Latest({t \in InputRows(h) : HasP(h, t)})

\* v71: the rows' P filled forward, then the row Window positions from the end.
seasonal_naive(h) ==
    LET rows == SetToSortSeq(InputRows(h), <)
        row == rows[Len(rows) - Window + 1]
    IN  Latest({t \in InputRows(h) : t <= row /\ HasP(h, t)})

Failed(why) == [status |-> why, window |-> <<>>, anchor |-> 0, naive |-> 0]

\* The sizes of the windows a route reads: its own model's, and the base window of v67 (Ridge).
WindowsRead(route) == {get_effective_window(route), Window}

\* predict_meter: the refusals in order, then the model of the route, Ridge, and the median with v71.
predict_meter(h, route) ==
    IF \/ Cardinality(InputRows(h)) < Window
       \/ latest_input_missing(h)
       \/ ConsecutiveRun(MissingHours(h, route), MAX_FFILL_HOURS + 1)
       \/ Cardinality(MissingHours(h, route)) > MAX_TOTAL_MISSING_ROWS
       \/ anchor_p(h) = 0
       \/ \E size \in WindowsRead(route) : build_window(h, size) = <<>>
    THEN Failed("insufficient_data")
    ELSE [status |-> "success", window |-> build_window(h, get_effective_window(route)),
          anchor |-> anchor_p(h), naive |-> seasonal_naive(h)]

-----------------------------------------------------------------------------
(* run_inference over the meters                                           *)

VARIABLES answered,   \* results: meter -> status, "none" until its turn
          predicting     \* the meter just predicted: its history, route and row
ivars == <<answered, predicting>>

NoHistory == [history |-> [t \in Past |-> "gap"], route |-> "v61", row |-> Failed("none")]
InferenceInit == answered = [m \in Meters |-> "none"] /\ predicting = NoHistory

\* Mutant: an exception ends the loop over the meters.
OnException_raises(m) == answered' = [x \in Meters |-> IF answered[x] = "none" THEN "lost" ELSE answered[x]]
\* An exception of one meter becomes a failed row and the loop goes on.
OnException(m) == answered' = [answered EXCEPT ![m] = "error"]

\* One meter: no artifact, an exception, or what predict_meter returns.
RunMeter(m) ==
    /\ answered[m] = "none" /\ predicting = NoHistory
    /\ \/ answered' = [answered EXCEPT ![m] = "no_artifact"] /\ UNCHANGED predicting
       \/ OnException(m) /\ UNCHANGED predicting
       \/ \E h \in Histories, route \in ModelRoutes :
            /\ predicting' = [history |-> h, route |-> route, row |-> predict_meter(h, route)]
            /\ answered' = [answered EXCEPT ![m] = predicting'.row.status]

\* The loop goes on to the next meter.
NextMeter == predicting # NoHistory /\ predicting' = NoHistory /\ UNCHANGED answered

InferenceNext == NextMeter \/ \E m \in Meters : RunMeter(m)
InferenceSpec == InferenceInit /\ [][InferenceNext]_ivars

-----------------------------------------------------------------------------
Success == predicting.row.status = "success"

\* A forecast is made from the window training would have built for the same hour: every input is
\* the same measured value, none older than the fill limit (predictor.py:500-531 against
\* preprocessing.py:114-136 and 206-295).
ServedAsTrained ==
    Success => /\ predicting.row.window = TrainingWindow(predicting.history, get_effective_window(predicting.route))
               /\ predicting.row.window # <<>>

\* The residual is added to the value it was subtracted from in training: the anchor is the last
\* value of the input window (predictor.py:762-776, preprocessing.py:248).
AnchorIsWindowEnd == Success => predicting.row.anchor = TrainingAnchor(predicting.history)

\* Every meter gets a row, a failed one included, and none is lost to the failure of another.
EveryMeterAnswered == \A m \in Meters : answered[m] # "lost"

\* Inference reproduces training and answers for every meter.
InferenceInv == ServedAsTrained /\ AnchorIsWindowEnd /\ EveryMeterAnswered

\* predictor.py:854 calls the third member of the median the actual value of the same hour 24 hours
\* earlier: it would be measured exactly Window hours before the origin.
NaiveIsSameHour == Success => predicting.row.naive = 0 \/ predicting.row.naive = Origin - Window

=============================================================================
