----------------------------- MODULE DataProofs -----------------------------
(***************************************************************************)
(* Proofs about what the tables hold and what the models are fed: the      *)
(* P-Max feature vector, the hourly window of the anomaly predictor, the   *)
(* windows of P-Max training and inference; the coverage worker and the    *)
(* equalisation of events to rows per resolution; the preload scripts, the *)
(* replay of the archive and the ontology projection.  Each part has an    *)
(* inductive invariant of its own, named ...Sound.                         *)
(***************************************************************************)
EXTENDS PmaxReadiness, AnomalyPredictor, PmaxWindows, CoverageQa, LiveEqualization,
        PreloadJobs, ArchivePublisher, OntologyProjection,
        FiniteSetTheorems, SequenceTheorems, WellFoundedInduction, TLAPS

(***************************************************************************)
(* Extremes of sets of integers.                                           *)
(***************************************************************************)

\* A set of integers with a lower bound has a least member.
LEMMA LeastExists ==
    ASSUME NEW S, S # {}, S \subseteq Int, NEW b \in Int, \A s \in S : b <= s
    PROVE  Min(S) \in S /\ \A s \in S : Min(S) <= s
<1> DEFINE Rests == {s - b : s \in S}
<1>a. PICK e \in S : TRUE OBVIOUS
<1>1. Rests \subseteq Nat /\ Rests # {}
    <2>1. \A s \in S : s - b \in Nat OBVIOUS
    <2> QED BY <1>a, <2>1
<1>2. PICK r \in Rests : \A u \in Rests : ~ (<<u, r>> \in OpToRel(<, Nat))
    BY <1>1, WFMin, NatLessThanWellFounded
<1>3. PICK t \in S : r = t - b OBVIOUS
<1>4. \A u \in Rests : ~ (u < r)
    BY <1>1, <1>2 DEF OpToRel
<1>5. \A s \in S : t <= s
    <2> SUFFICES ASSUME NEW s \in S PROVE t <= s OBVIOUS
    <2>1. s - b \in Rests OBVIOUS
    <2>2. ~ (s - b < t - b) BY <1>3, <1>4, <2>1
    <2> QED BY <2>2
<1> QED BY <1>5 DEF Min

\* And with an upper bound a greatest.
LEMMA GreatestExists ==
    ASSUME NEW S, S # {}, S \subseteq Int, NEW b \in Int, \A s \in S : s <= b
    PROVE  Max(S) \in S /\ \A s \in S : s <= Max(S)
<1> DEFINE Rests == {b - s : s \in S}
<1>a. PICK e \in S : TRUE OBVIOUS
<1>1. Rests \subseteq Nat /\ Rests # {}
    <2>1. \A s \in S : b - s \in Nat OBVIOUS
    <2> QED BY <1>a, <2>1
<1>2. PICK r \in Rests : \A u \in Rests : ~ (<<u, r>> \in OpToRel(<, Nat))
    BY <1>1, WFMin, NatLessThanWellFounded
<1>3. PICK t \in S : r = b - t OBVIOUS
<1>4. \A u \in Rests : ~ (u < r)
    BY <1>1, <1>2 DEF OpToRel
<1>5. \A s \in S : t >= s
    <2> SUFFICES ASSUME NEW s \in S PROVE t >= s OBVIOUS
    <2>1. b - s \in Rests OBVIOUS
    <2>2. ~ (b - s < b - t) BY <1>3, <1>4, <2>1
    <2> QED BY <2>2
<1>6. \E x \in S : \A y \in S : x >= y BY <1>5
<1>7. Max(S) \in S /\ \A y \in S : Max(S) >= y BY <1>6 DEF Max
<1> QED BY <1>7

(***************************************************************************)
(* The P-Max feature vector.  Readiness refuses tied newest rows, so that  *)
(* the selection is the same in whatever order the table is read; a        *)
(* complete history of one source then has exactly one row for each        *)
(* window.                                                                 *)
(***************************************************************************)

\* The rows are feature rows, and the mode is one of the modes.
ReadinessSound == features \subseteq FeatureRows /\ serving_mode \in ServingModes

\* The table of features starts empty, in one of the serving modes.
LEMMA ReadinessStarts == FeaturesInit => ReadinessSound
BY DEF FeaturesInit, ReadinessSound

\* A materialisation adds a row of the same shape.
LEMMA ReadinessStep == ReadinessSound /\ [FeaturesNext]_fvars => ReadinessSound'
BY DEF ReadinessSound, FeaturesNext, WriteFeature, fvars

\* Without ties the selection is the same however the table is read.
LEMMA OneSelection ==
    ASSUME ~ duplicate_latest_ambiguous, NEW S \in select_latest_pmax_feature_rows, NEW U \in select_latest_pmax_feature_rows
    PROVE  S \subseteq U
<1> SUFFICES ASSUME NEW r \in S PROVE r \in U OBVIOUS
<1>1. r \in features /\ Newest(r) BY DEF select_latest_pmax_feature_rows
<1>2. PICK s \in U : SameKey(r, s) BY <1>1 DEF select_latest_pmax_feature_rows
<1>3. s \in features /\ Newest(s) BY DEF select_latest_pmax_feature_rows
<1>4. r = s BY <1>1, <1>2, <1>3 DEF duplicate_latest_ambiguous
<1> QED BY <1>4

\* One row for each window.
LEMMA RowPerWindow ==
    ASSUME NEW rows, \A r \in rows : r.window \in Windows, \A a, b \in rows : a.window = b.window => a = b, CompleteHistory(rows)
    PROVE  Cardinality(rows) = HistoryWindows
<1> DEFINE f == [w \in Windows |-> CHOOSE r \in rows : r.window = w]
<1>1. \A w \in Windows : f[w] \in rows /\ f[w].window = w BY DEF CompleteHistory
<1>2. f \in [Windows -> rows] BY <1>1
<1> HIDE DEF f
<1>3. \A v, w \in Windows : f[v] = f[w] => v = w BY <1>1
<1>4. \A r \in rows : \E w \in Windows : f[w] = r
    <2> SUFFICES ASSUME NEW r \in rows PROVE f[r.window] = r OBVIOUS
    <2> QED BY <1>1
<1>5. f \in Bijection(Windows, rows) BY <1>2, <1>3, <1>4 DEF Bijection, Injection, Surjection, IsInjective
<1>6. IsFiniteSet(Windows) /\ Cardinality(Windows) = HistoryWindows BY PmaxReadinessAssumption, FS_Interval DEF Windows
<1>7. ExistsBijection(Windows, rows) BY <1>5, Zenon DEF ExistsBijection
<1> QED BY <1>6, <1>7, FS_Bijection

\* A vector that was built has one row for each window, all of the chosen source and all checked.
LEMMA ReadinessEnough == ReadinessSound => VectorOfOneMeter
<1> SUFFICES ASSUME ReadinessSound, NEW selected \in select_latest_pmax_feature_rows, build_pmax_feature_vectors(selected) # {}
             PROVE  LET rows == build_pmax_feature_vectors(selected)
                    IN  /\ Cardinality(rows) = HistoryWindows
                        /\ \A a, b \in rows : a.source = b.source
                        /\ \A r \in rows : /\ r.covered /\ r.source \notin Retired /\ Newest(r)
                                           /\ serving_mode = "live_observed" => r.mode = "live_observed"
                        /\ \A other \in select_latest_pmax_feature_rows : build_pmax_feature_vectors(other) = rows
    BY Zenon DEF VectorOfOneMeter
<1> DEFINE c == choose_single_source(selected)
           rows == build_pmax_feature_vectors(selected)
<1>1. rows = RowsOf(selected, c) /\ validate_pmax_feature_readiness(selected) /\ CompleteHistory(rows)
    BY DEF build_pmax_feature_vectors, build_logical_history
<1> HIDE DEF c
<1>2. \A r \in rows : r \in selected /\ r.source = c /\ c \in Sources \ Retired BY <1>1 DEF RowsOf, pmax_allowed_source_meters
<1>3. \A r \in selected : r \in FeatureRows /\ Newest(r) BY DEF select_latest_pmax_feature_rows, ReadinessSound
<1>4. \A a, b \in selected : SameKey(a, b) => a = b BY DEF select_latest_pmax_feature_rows
<1> HIDE DEF rows
<1>5. Cardinality(rows) = HistoryWindows
    <2>1. \A r \in rows : r.window \in Windows BY <1>2, <1>3 DEF FeatureRows
    <2>2. \A a, b \in rows : a.window = b.window => a = b BY <1>2, <1>4 DEF SameKey
    <2> QED BY <1>1, <2>1, <2>2, RowPerWindow
<1>6. ASSUME NEW r \in rows PROVE r.covered /\ r.source \notin Retired /\ Newest(r) /\ (serving_mode = "live_observed" => r.mode = "live_observed")
    <2>1. r \in selected /\ validate_feature_row_fields(r) BY <1>1, <1>2 DEF validate_pmax_feature_readiness
    <2> QED BY <1>2, <1>3, <2>1 DEF validate_feature_row_fields, source_boundary_ok
<1>7. ASSUME NEW other \in select_latest_pmax_feature_rows PROVE build_pmax_feature_vectors(other) = rows
    <2>1. ~ duplicate_latest_ambiguous BY <1>1 DEF validate_pmax_feature_readiness
    <2>2. other = selected BY <2>1, OneSelection
    <2> QED BY <2>2, Zenon DEF rows
<1> QED BY <1>2, <1>5, <1>6, <1>7 DEF rows

\* A vector that is served has every window once, from one allowed meter, from its newest covered rows, and does not
\* depend on the order of the read, whatever the feature jobs wrote (build_pmax_feature_vectors).
THEOREM VectorsAreOfOneMeter == FeaturesSpec => []VectorOfOneMeter
<1> QED
  BY ReadinessStarts, ReadinessStep, ReadinessEnough, PTL DEF FeaturesSpec

(***************************************************************************)
(* The anomaly predictor.  From the first row of its input on, the fill of *)
(* inference and the fill of training look back the same number of hours;  *)
(* a window that inference can build is therefore clean for training, and  *)
(* its last hour carries the anchor.                                       *)
(***************************************************************************)

\* The latest hour of a set, and 0 for none.
LEMMA LatestHour ==
    ASSUME NEW S, S \subseteq Past
    PROVE  /\ Latest(S) \in Int
           /\ Latest(S) # 0 <=> S # {}
           /\ S # {} => Latest(S) \in S /\ \A s \in S : s <= Latest(S)
<1>1. CASE S = {} BY <1>1 DEF Latest
<1>2. CASE S # {}
    <2>1. S \subseteq Int /\ Origin - 1 \in Int /\ \A s \in S : s <= Origin - 1 BY PredictorAssumption DEF Past
    <2>2. Max(S) \in S /\ \A s \in S : s <= Max(S) BY <1>2, <2>1, GreatestExists
    <2> DEFINE top == Max(S)
    <2>3. Latest(S) = top BY <1>2 DEF Latest
    <2>4. top \in S /\ \A s \in S : s <= top BY <2>2
    <2> HIDE DEF top
    <2>5. top \in Past BY <2>4
    <2>6. top \in Int /\ top # 0 BY <2>5 DEF Past
    <2> QED BY <1>2, <2>3, <2>4, <2>6
<1> QED BY <1>1, <1>2

\* The first row of an input is in the past.
LEMMA FirstHour ==
    ASSUME NEW h, InputRows(h) # {}
    PROVE  Min(InputRows(h)) \in Past
<1>1. InputRows(h) \subseteq Past /\ InputRows(h) \subseteq Int /\ \A s \in InputRows(h) : 1 <= s
    BY DEF InputRows, Past
<1>2. Min(InputRows(h)) \in InputRows(h) BY <1>1, LeastExists
<1> QED BY <1>1, <1>2

\* From the first row on training and inference fill the same hours.
LEMMA SameFill ==
    ASSUME NEW h, InputRows(h) # {}, NEW t \in Int, t >= Min(InputRows(h))
    PROVE  /\ FrameP(h, t) = ffill(h, t)
           /\ (\E s \in InputRows(h) : s <= t /\ t - s <= MAX_FFILL_HOURS /\ HasOther(h, s)) => FrameOther(h, t) # 0
<1>1. Min(InputRows(h)) \in Int BY FirstHour DEF Past
<1>2. ~ (t < Min(InputRows(h))) BY <1>1
<1>3. FrameP(h, t) = ffill(h, t) BY <1>2 DEF FrameP, ffill
<1> DEFINE S == {s \in InputRows(h) : s <= t /\ t - s <= MAX_FFILL_HOURS /\ HasOther(h, s)}
<1>4. FrameOther(h, t) = Latest(S) BY <1>2 DEF FrameOther
<1>5. S \subseteq Past BY DEF InputRows
<1>6. Latest(S) # 0 <=> S # {} BY <1>5, LatestHour
<1> QED BY <1>3, <1>4, <1>6

\* A window that inference can build is the one training builds.
LEMMA WindowAsTrained ==
    ASSUME NEW h, InputRows(h) # {}, NEW size \in Nat, size < Origin, Origin \in Int, build_window(h, size) # <<>>
    PROVE  /\ build_window(h, size) = TrainingWindow(h, size)
           /\ \A t \in (Origin - size)..(Origin - 1) : ffill(h, t) # 0 /\ t >= Min(InputRows(h))
<1> DEFINE M == Min(InputRows(h))
           Hours == (Origin - size)..(Origin - 1)
           other(t) == \E s \in InputRows(h) : s <= t /\ t - s <= MAX_FFILL_HOURS /\ HasOther(h, s)
<1>1. M \in Int /\ M >= 1 /\ Lag \in Nat /\ Lag > 0 BY FirstHour, PredictorAssumption DEF Past
<1>2. /\ \A t \in Hours : t >= M /\ ffill(h, t) # 0 /\ other(t) /\ t - Lag >= M /\ ffill(h, t - Lag) # 0
      /\ build_window(h, size) = [k \in 1..size |-> ffill(h, Origin - size + k - 1)]
    BY DEF build_window
<1>3. ASSUME NEW t \in Hours PROVE CleanHour(h, t) /\ FrameP(h, t) = ffill(h, t)
    <2> HIDE DEF M
    <2>1. t \in Int /\ t - Lag \in Int BY <1>1
    <2>2. t >= M /\ ffill(h, t) # 0 /\ other(t) /\ t - Lag >= M /\ ffill(h, t - Lag) # 0 BY <1>2
    <2>3. FrameP(h, t) = ffill(h, t) /\ FrameOther(h, t) # 0 BY <2>1, <2>2, SameFill DEF M
    <2>4. FrameP(h, t - Lag) = ffill(h, t - Lag) BY <2>1, <2>2, SameFill DEF M
    <2>5. t > Lag BY <1>1, <2>1, <2>2
    <2> QED BY <2>2, <2>3, <2>4, <2>5 DEF CleanHour
<1>4. TrainingWindow(h, size) = [k \in 1..size |-> FrameP(h, Origin - size + k - 1)] BY <1>3 DEF TrainingWindow
<1>5. \A k \in 1..size : FrameP(h, Origin - size + k - 1) = ffill(h, Origin - size + k - 1)
    <2> SUFFICES ASSUME NEW k \in 1..size PROVE FrameP(h, Origin - size + k - 1) = ffill(h, Origin - size + k - 1) OBVIOUS
    <2>1. Origin - size + k - 1 \in Hours OBVIOUS
    <2> HIDE DEF Hours
    <2> QED BY <1>3, <2>1
<1>6. TrainingWindow(h, size) = [k \in 1..size |-> ffill(h, Origin - size + k - 1)] BY <1>4, <1>5
<1> QED BY <1>2, <1>6

\* The last value there is, when the last hour of the window has one, is the value of that hour.
LEMMA AnchorAsTrained ==
    ASSUME NEW h, ffill(h, Origin - 1) # 0, Origin \in Int
    PROVE  anchor_p(h) = ffill(h, Origin - 1)
<1> DEFINE A == {t \in InputRows(h) : HasP(h, t)}
           B == {s \in InputRows(h) : s <= Origin - 1 /\ Origin - 1 - s <= MAX_FFILL_HOURS /\ HasP(h, s)}
           a == Latest(A)
           b == Latest(B)
<1>1. A \subseteq Past /\ B \subseteq Past /\ B \subseteq A BY DEF InputRows
<1>2. anchor_p(h) = a /\ ffill(h, Origin - 1) = b BY DEF anchor_p, ffill
<1>3. B # {} BY <1>1, <1>2, LatestHour
<1>4. b \in B /\ \A s \in B : s <= b BY <1>1, <1>3, LatestHour
<1>5. a \in A /\ \A s \in A : s <= a BY <1>1, <1>3, LatestHour
<1>6. a \in Int /\ b \in Int /\ a <= Origin - 1 BY <1>1, <1>4, <1>5, PredictorAssumption DEF Past
<1> HIDE DEF a, b
<1>7. b <= a BY <1>1, <1>4, <1>5
<1>8. a \in B
    <2>1. Origin - 1 - b <= MAX_FFILL_HOURS BY <1>4
    <2>2. Origin - 1 - a <= MAX_FFILL_HOURS BY <1>6, <1>7, <2>1, PredictorAssumption
    <2> QED BY <1>5, <1>6, <2>2
<1>9. a <= b BY <1>4, <1>8
<1> QED BY <1>2, <1>6, <1>7, <1>9

\* What was predicted last comes from some history by some route, and no meter was lost.
InferenceSound ==
    /\ \/ predicting = NoHistory
       \/ \E h \in Histories, route \in ModelRoutes :
             predicting = [history |-> h, route |-> route, row |-> predict_meter(h, route)]
    /\ DOMAIN answered = Meters
    /\ EveryMeterAnswered

\* No meter was asked at the start.
LEMMA InferenceStarts == InferenceInit => InferenceSound
BY DEF InferenceInit, InferenceSound, EveryMeterAnswered

\* A prediction succeeds or says that data are missing.
LEMMA PredictedStatus ==
    ASSUME NEW h, NEW route
    PROVE  predict_meter(h, route).status \in {"insufficient_data", "success"}
BY DEF predict_meter, Failed

\* One meter after the other is answered, whatever the one before it raised.
LEMMA InferenceStep == InferenceSound /\ [InferenceNext]_ivars => InferenceSound'
<1> SUFFICES ASSUME InferenceSound, [InferenceNext]_ivars PROVE InferenceSound' OBVIOUS
<1>1. CASE NextMeter BY <1>1 DEF NextMeter, InferenceSound, EveryMeterAnswered
<1>2. ASSUME NEW m \in Meters, RunMeter(m) PROVE InferenceSound'
    <2>1. CASE answered' = [answered EXCEPT ![m] = "no_artifact"] /\ UNCHANGED predicting
        BY <2>1 DEF InferenceSound, EveryMeterAnswered
    <2>2. CASE OnException(m) /\ UNCHANGED predicting BY <2>2 DEF InferenceSound, EveryMeterAnswered, OnException
    <2>3. ASSUME NEW h \in Histories, NEW route \in ModelRoutes,
                 predicting' = [history |-> h, route |-> route, row |-> predict_meter(h, route)],
                 answered' = [answered EXCEPT ![m] = predicting'.row.status]
          PROVE  InferenceSound'
        <3> DEFINE r == predict_meter(h, route)
        <3>1. r.status \in {"insufficient_data", "success"} BY PredictedStatus
        <3>2. predicting'.row = r BY <2>3
        <3> HIDE DEF r
        <3>3. EveryMeterAnswered' /\ DOMAIN answered' = Meters BY <2>3, <3>1, <3>2 DEF InferenceSound, EveryMeterAnswered
        <3> QED BY <2>3, <3>3 DEF InferenceSound
    <2> QED BY <1>2, <2>1, <2>2, <2>3 DEF RunMeter
<1>3. CASE UNCHANGED ivars BY <1>3 DEF ivars, InferenceSound, EveryMeterAnswered
<1> QED BY <1>1, <1>2, <1>3 DEF InferenceNext

\* A successful prediction used the window and the anchor that training would build there.
LEMMA InferenceEnough == InferenceSound => InferenceInv
<1> SUFFICES ASSUME InferenceSound, Success PROVE ServedAsTrained /\ AnchorIsWindowEnd
    BY DEF InferenceInv, InferenceSound, ServedAsTrained, AnchorIsWindowEnd
<1>1. predicting # NoHistory BY DEF Success, NoHistory, Failed
<1>2. PICK h \in Histories, route \in ModelRoutes : predicting = [history |-> h, route |-> route, row |-> predict_meter(h, route)]
    BY <1>1 DEF InferenceSound
<1> DEFINE size == get_effective_window(route)
           r == predict_meter(h, route)
<1>3. size \in Nat /\ size > 0 /\ size < Origin /\ Origin \in Int BY PredictorAssumption DEF get_effective_window
<1>4. /\ ~ latest_input_missing(h) /\ build_window(h, size) # <<>>
      /\ r = [status |-> "success", window |-> build_window(h, size), anchor |-> anchor_p(h), naive |-> seasonal_naive(h)]
    <2>1. r.status = "success" BY <1>2 DEF Success
    <2>2. Failed("insufficient_data").status # "success" BY DEF Failed
    <2>3. r # Failed("insufficient_data") BY <2>1, <2>2
    <2> QED BY <2>3 DEF predict_meter, WindowsRead
<1>5. predicting.history = h /\ predicting.route = route /\ predicting.row.window = build_window(h, size)
      /\ predicting.row.anchor = anchor_p(h)
    <2>2. predicting = [history |-> h, route |-> route, row |-> r] BY <1>2, Zenon
    <2> HIDE DEF r, size
    <2>1. r.window = build_window(h, size) /\ r.anchor = anchor_p(h)
        <3>1. r = [status |-> "success", window |-> build_window(h, size), anchor |-> anchor_p(h), naive |-> seasonal_naive(h)]
            BY <1>4, Zenon
        <3> QED BY <3>1, Zenon
    <2>3. predicting.history = h /\ predicting.route = route /\ predicting.row = r BY <2>2, Zenon
    <2> QED BY <2>1, <2>3, Zenon
<1> HIDE DEF size, r
<1>6. InputRows(h) # {}
    <2>1. Origin - 1 \in Past BY PredictorAssumption DEF Past
    <2> QED BY <1>4, <2>1 DEF latest_input_missing, InputRows
<1>7. /\ build_window(h, size) = TrainingWindow(h, size)
      /\ \A t \in (Origin - size)..(Origin - 1) : ffill(h, t) # 0 /\ t >= Min(InputRows(h))
    BY <1>3, <1>4, <1>6, WindowAsTrained
<1>8. ffill(h, Origin - 1) # 0 /\ Origin - 1 >= Min(InputRows(h)) BY <1>3, <1>7
<1>9. FrameP(h, Origin - 1) = ffill(h, Origin - 1) BY <1>3, <1>6, <1>8, SameFill
<1>10. anchor_p(h) = FrameP(h, Origin - 1) BY <1>3, <1>8, <1>9, AnchorAsTrained
<1>11. ServedAsTrained BY <1>4, <1>5, <1>7 DEF ServedAsTrained, size
<1>12. AnchorIsWindowEnd BY <1>5, <1>10 DEF AnchorIsWindowEnd, TrainingAnchor
<1> QED BY <1>11, <1>12

\* A successful prediction saw the window and the anchor of training, and every meter is answered (predict_meter).
THEOREM PredictionsAreAsTrained == InferenceSpec => []InferenceInv
<1> QED
  BY InferenceStarts, InferenceStep, InferenceEnough, PTL DEF InferenceSpec

(***************************************************************************)
(* The P-Max windows.  Both sides interpolate gaps of at most              *)
(* MaxImputedRows buckets between two readings.  A window that either side *)
(* accepts was read at its last bucket, so no gap inside it is closed by a *)
(* reading at or after the origin; and the lookback is long enough to hold *)
(* the reading before the gap.  Hence both see the same cells              *)
(* (SameReadings, WindowAgrees).                                           *)
(***************************************************************************)

\* Bucket t has no reading, and a and b are the readings around it.
Around(R, c, t, a, b) ==
    /\ <<t, c>> \notin R /\ <<a, c>> \in R /\ <<b, c>> \in R
    /\ a < t /\ t < b /\ \A s \in Buckets : a < s /\ s < b => <<s, c>> \notin R

\* Readings of known columns in known buckets.
Readable(R) == R \subseteq Buckets \X Columns

\* The interpolated value is the reading or comes from the two around it.
LEMMA Interpolation ==
    ASSUME NEW R, Readable(R), NEW c \in Columns, NEW t \in Int
    PROVE  /\ <<t, c>> \in R => limited_internal_interpolation(R, c, t) = {t}
           /\ limited_internal_interpolation(R, c, t) # {} /\ <<t, c>> \notin R =>
                 \E a, b \in Buckets : /\ Around(R, c, t, a, b) /\ b - a - 1 <= MaxImputedRows
                                       /\ limited_internal_interpolation(R, c, t) = {a, b}
           /\ \A a, b \in Buckets : Around(R, c, t, a, b) /\ b - a - 1 <= MaxImputedRows =>
                 limited_internal_interpolation(R, c, t) = {a, b}
<1> DEFINE before == {cell[1] : cell \in {x \in R : x[2] = c /\ x[1] < t}}
           after == {cell[1] : cell \in {x \in R : x[2] = c /\ x[1] > t}}
           v == limited_internal_interpolation(R, c, t)
<1>1. v = IF <<t, c>> \in R THEN {t}
          ELSE IF before = {} \/ after = {} THEN {}
          ELSE IF Min(after) - Max(before) - 1 > MaxImputedRows THEN {}
          ELSE {Max(before), Min(after)}
    BY DEF limited_internal_interpolation
<1>2. Buckets \subseteq Int /\ LastBucket \in Int /\ \A s \in Buckets : 0 <= s /\ s <= LastBucket BY ReadingsAssumption DEF Buckets
<1>3. \A s : s \in before <=> s \in Buckets /\ <<s, c>> \in R /\ s < t
    BY DEF Readable
<1>4. \A s : s \in after <=> s \in Buckets /\ <<s, c>> \in R /\ s > t
    BY DEF Readable
<1> HIDE DEF before, after, v
<1>5. before # {} => Max(before) \in before /\ \A s \in before : s <= Max(before)
    <2>1. before \subseteq Int /\ \A s \in before : s <= LastBucket BY <1>2, <1>3
    <2> QED BY <1>2, <2>1, GreatestExists
<1>6. after # {} => Min(after) \in after /\ \A s \in after : Min(after) <= s
    <2>0. after \subseteq Buckets BY <1>4, Zenon
    <2>1. after \subseteq Int /\ 0 \in Int /\ \A s \in after : 0 <= s BY <1>2, <2>0
    <2> QED BY <2>1, LeastExists
<1>7. MaxImputedRows \in Int BY WindowsAssumption
<1>8. ASSUME <<t, c>> \notin R, v # {}
      PROVE  \E a, b \in Buckets : Around(R, c, t, a, b) /\ b - a - 1 <= MaxImputedRows /\ v = {a, b}
    <2> DEFINE a == Max(before)
               b == Min(after)
    <2>1. before # {} /\ after # {} /\ ~ (b - a - 1 > MaxImputedRows) /\ v = {a, b} BY <1>1, <1>8
    <2>2. a \in before /\ (\A s \in before : s <= a) /\ b \in after /\ (\A s \in after : b <= s) BY <1>5, <1>6, <2>1
    <2> HIDE DEF a, b
    <2>3. a \in Buckets /\ <<a, c>> \in R /\ a < t /\ b \in Buckets /\ <<b, c>> \in R /\ b > t BY <1>3, <1>4, <2>2
    <2>4. a \in Int /\ b \in Int BY <1>2, <2>3
    <2>5. ASSUME NEW s \in Buckets, a < s, s < b PROVE <<s, c>> \notin R
        <3>1. s \in Int BY <1>2
        <3>2. CASE s < t BY <1>3, <2>2, <2>4, <2>5, <3>1, <3>2
        <3>3. CASE s > t BY <1>4, <2>2, <2>4, <2>5, <3>1, <3>3
        <3>4. CASE s = t BY <1>8, <3>4
        <3> QED BY <3>1, <3>2, <3>3, <3>4
    <2>6. Around(R, c, t, a, b) BY <1>8, <2>3, <2>4, <2>5 DEF Around
    <2>7. b - a - 1 <= MaxImputedRows BY <1>7, <2>1, <2>4
    <2> QED BY <2>1, <2>3, <2>6, <2>7
<1>9. ASSUME NEW a \in Buckets, NEW b \in Buckets, Around(R, c, t, a, b), b - a - 1 <= MaxImputedRows
      PROVE  v = {a, b}
    <2>1. a \in Int /\ b \in Int BY <1>2
    <2>2. a \in before /\ b \in after /\ <<t, c>> \notin R BY <1>3, <1>4, <1>9, <2>1 DEF Around
    <2> DEFINE x == Max(before)
               y == Min(after)
    <2>9. before # {} /\ after # {} BY <2>2
    <2>3. x \in before /\ a <= x /\ y \in after /\ y <= b BY <1>5, <1>6, <2>2, <2>9
    <2> HIDE DEF x, y
    <2>4. x \in Buckets /\ x \in Int /\ <<x, c>> \in R /\ x < t /\ y \in Buckets /\ y \in Int /\ <<y, c>> \in R /\ y > t
        BY <1>2, <1>3, <1>4, <2>3
    <2>5. t < b /\ a < t /\ \A s \in Buckets : a < s /\ s < b => <<s, c>> \notin R BY <1>9 DEF Around
    <2>6. x = a
        <3>1. x < b BY <2>1, <2>4, <2>5
        <3>2. ~ (a < x) BY <2>4, <2>5, <3>1
        <3> QED BY <2>1, <2>3, <2>4, <3>2
    <2>7. y = b
        <3>1. a < y BY <2>1, <2>4, <2>5
        <3>2. ~ (y < b) BY <2>4, <2>5, <3>1
        <3> QED BY <2>1, <2>3, <2>4, <3>2
    <2>8. ~ (b - a - 1 > MaxImputedRows) BY <1>7, <1>9, <2>1
    <2> QED BY <1>1, <2>2, <2>6, <2>7, <2>8, <2>9 DEF x, y
<1>10. <<t, c>> \in R => v = {t} BY <1>1
<1> QED BY <1>8, <1>9, <1>10 DEF v

\* The rows of a query, cut at both ends of the lookback.
Lately(R, asof) == {cell \in R : asof - Lookback <= cell[1] /\ cell[1] < asof}

\* A gap closed inside the window is closed by readings the lookback has: the last bucket was read, and a
\* short gap cannot reach over it or back beyond the lookback.
LEMMA SameReadings ==
    ASSUME NEW R, Readable(R), NEW c \in Columns, NEW asof \in Int, <<asof - 1, c>> \in R,
           NEW t \in (asof - WindowSize)..(asof - 1),
           \/ limited_internal_interpolation(R, c, t) # {}
           \/ limited_internal_interpolation(Lately(R, asof), c, t) # {}
    PROVE  /\ limited_internal_interpolation(R, c, t) = limited_internal_interpolation(Lately(R, asof), c, t)
           /\ \A a \in limited_internal_interpolation(R, c, t) : a < asof
           /\ <<t, c>> \in R <=> <<t, c>> \in Lately(R, asof)
<1> DEFINE U == Lately(R, asof)
<1>1. /\ WindowSize \in Int /\ LongestLag \in Int /\ MaxImputedRows \in Int /\ Lookback \in Int /\ t \in Int
      /\ LongestLag > 0 /\ Lookback >= WindowSize + LongestLag + MaxImputedRows + 1 /\ WindowSize > 0 /\ MaxImputedRows >= 0
      /\ asof - WindowSize <= t /\ t < asof
    BY WindowsAssumption
<1>2. Buckets \subseteq Int BY ReadingsAssumption DEF Buckets
<1>3. Readable(U) BY DEF Readable, Lately
<1>4. \A s : <<s, c>> \in U <=> <<s, c>> \in R /\ asof - Lookback <= s /\ s < asof BY DEF Lately
<1>5. asof - 1 \in Buckets BY DEF Readable
<1> HIDE DEF U
<1>6. <<t, c>> \in R <=> <<t, c>> \in U BY <1>1, <1>4
<1>7. CASE <<t, c>> \in R
    <2>1. limited_internal_interpolation(R, c, t) = {t} /\ limited_internal_interpolation(U, c, t) = {t}
        BY <1>1, <1>3, <1>6, <1>7, Interpolation
    <2> QED BY <1>1, <1>6, <2>1 DEF U
<1>8. ASSUME <<t, c>> \notin R, NEW a \in Buckets, NEW b \in Buckets, b - a - 1 <= MaxImputedRows,
             Around(R, c, t, a, b) \/ Around(U, c, t, a, b)
      PROVE  /\ limited_internal_interpolation(R, c, t) = {a, b} /\ limited_internal_interpolation(U, c, t) = {a, b}
             /\ a < asof /\ b < asof
    <2>1. a \in Int /\ b \in Int /\ a < t /\ t < b BY <1>2, <1>8 DEF Around
    <2>2. <<a, c>> \in R /\ <<b, c>> \in R BY <1>4, <1>8 DEF Around
    <2>3. b < asof
        <3>1. CASE Around(U, c, t, a, b) BY <1>4, <3>1 DEF Around
        <3>2. CASE Around(R, c, t, a, b)
            <4>1. ~ (a < asof - 1 /\ asof - 1 < b) BY <1>5, <3>2 DEF Around
            <4> QED BY <1>1, <2>1, <4>1
        <3> QED BY <1>8, <3>1, <3>2
    <2>4. asof - Lookback <= a BY <1>1, <1>8, <2>1
    <2>5. \A s \in Buckets : a < s /\ s < b => asof - Lookback <= s /\ s < asof BY <1>1, <1>2, <2>1, <2>3, <2>4
    <2>6. \A s \in Buckets : a < s /\ s < b => <<s, c>> \notin R BY <1>4, <1>8, <2>5 DEF Around
    <2>7. Around(R, c, t, a, b) BY <1>8, <2>1, <2>2, <2>6 DEF Around
    <2>8. Around(U, c, t, a, b)
        <3>1. <<a, c>> \in U /\ <<b, c>> \in U BY <1>1, <1>4, <2>1, <2>2, <2>3, <2>4
        <3>2. <<t, c>> \notin U /\ \A s \in Buckets : a < s /\ s < b => <<s, c>> \notin U BY <1>4, <1>8, <2>6
        <3> QED BY <2>1, <3>1, <3>2 DEF Around
    <2> QED BY <1>1, <1>3, <1>8, <2>1, <2>3, <2>7, <2>8, Interpolation
<1>9. CASE <<t, c>> \notin R
    <2>1. \E a, b \in Buckets : b - a - 1 <= MaxImputedRows /\ (Around(R, c, t, a, b) \/ Around(U, c, t, a, b))
        <3>1. CASE limited_internal_interpolation(R, c, t) # {} BY <1>1, <1>9, <3>1, Interpolation
        <3>2. CASE limited_internal_interpolation(U, c, t) # {} BY <1>1, <1>3, <1>6, <1>9, <3>2, Interpolation
        <3> QED BY <3>1, <3>2 DEF U
    <2>2. PICK a \in Buckets, b \in Buckets : b - a - 1 <= MaxImputedRows /\ (Around(R, c, t, a, b) \/ Around(U, c, t, a, b))
        BY <2>1
    <2> QED BY <1>6, <1>8, <1>9, <2>2 DEF U
<1> QED BY <1>7, <1>9

\* Training fills nothing.
LEMMA TrainingFrame ==
    ASSUME NEW R
    PROVE  fetch_source_meter(R).rows = R /\ fetch_source_meter(R).filled = {}
BY DEF fetch_source_meter, impute_raw_feature_gaps

\* Without a filled bucket a cell is what interpolation left.
LEMMA UnfilledCell ==
    ASSUME NEW f, f.filled = {}, NEW c, NEW t
    PROVE  Cell(f, c, t) = limited_internal_interpolation(f.rows, c, t)
BY DEF Cell

\* Training and inference read one window alike when either of them can use it.
LEMMA WindowAgrees ==
    ASSUME NEW R, Readable(R), NEW asof \in Int, \A c \in Columns : <<asof - 1, c>> \in R,
           NEW f, f.rows = R, f.filled = {}, NEW g, g.rows = Lately(R, asof), g.filled = {},
           (\A t \in (asof - WindowSize)..(asof - 1) : Whole(f, t)) \/ (\A t \in (asof - WindowSize)..(asof - 1) : Whole(g, t))
    PROVE  LET W == (asof - WindowSize)..(asof - 1)
           IN  /\ inputs(f, W) = inputs(g, W)
               /\ \A t \in W, c \in Columns : \A a \in Cell(f, c, t) : a < asof
               /\ input_imputation_is_allowed(g, W) <=> input_imputation_is_allowed(f, W)
<1> DEFINE W == (asof - WindowSize)..(asof - 1)
           U == Lately(R, asof)
<1>1. ASSUME NEW t \in W, NEW c \in Columns
      PROVE  /\ Cell(f, c, t) = Cell(g, c, t) /\ (\A a \in Cell(f, c, t) : a < asof)
             /\ limited_internal_interpolation(R, c, t) = limited_internal_interpolation(U, c, t)
             /\ (<<t, c>> \in R <=> <<t, c>> \in U)
    <2>1. Cell(f, c, t) = limited_internal_interpolation(R, c, t) BY UnfilledCell
    <2>2. Cell(g, c, t) = limited_internal_interpolation(U, c, t) BY UnfilledCell
    <2>3. Cell(f, c, t) # {} \/ Cell(g, c, t) # {} BY DEF Whole
    <2>4. <<asof - 1, c>> \in R OBVIOUS
    <2> QED BY <2>1, <2>2, <2>3, <2>4, SameReadings
<1> HIDE DEF W, U
<1>2. inputs(f, W) = inputs(g, W)
    <2>1. \A t \in W : [c \in Columns |-> Cell(f, c, t)] = [c \in Columns |-> Cell(g, c, t)] BY <1>1
    <2> QED BY <2>1 DEF inputs
<1>3. \A t \in W : Interpolated(f, t) <=> Interpolated(g, t) BY <1>1 DEF Interpolated, U
<1>4. Imputed(f, W) = Imputed(g, W) BY <1>3 DEF Imputed
<1>5. input_imputation_is_allowed(g, W) <=> input_imputation_is_allowed(f, W)
    BY <1>4 DEF input_imputation_is_allowed
<1> QED BY <1>1, <1>2, <1>5 DEF W

\* A window training takes was read at its last bucket and is whole.
LEMMA TakenWindow ==
    ASSUME NEW f, f.filled = {}, NEW s \in build_windows(f)
    PROVE  /\ s \in Int /\ \A c \in Columns : <<s + WindowSize - 1, c>> \in f.rows
           /\ \A t \in s..(s + WindowSize - 1) : Whole(f, t)
<1>1. s \in Int BY ReadingsAssumption DEF build_windows, Buckets
<1>2. \A c \in Columns : <<s + WindowSize - 1, c>> \in f.rows BY DEF build_windows, WindowTaken, WholeRows
<1>3. ASSUME NEW t \in s..(s + WindowSize - 1) PROVE Whole(f, t)
    <2>1. t \in s..(s + WindowSize + HorizonSteps - 1) BY <1>1, WindowsAssumption
    <2> QED BY <2>1 DEF build_windows, usable
<1> QED BY <1>1, <1>2, <1>3

\* The rows a source of a logical meter has.
SourceRows(m, k) == table[LogicalMeters[m][k]]

\* All the tables there can be.
MeterTables == [MeterSources -> SUBSET (Buckets \X Columns)]

\* Where each artefact comes from: a training window from the frame of its segment, a served one from the
\* rows of the table at its as-of, for all the meters of the batch.
TrainedOn(m, w) ==
    \E k \in 1..Len(LogicalMeters[m]) : \E s \in build_windows(fetch_source_meter(SourceRows(m, k))) :
        w = [segment |-> k, start |-> s, inputs |-> inputs(fetch_source_meter(SourceRows(m, k)), s..(s + WindowSize - 1))]

\* The batch is the one of as-of time asof.
BatchOf(asof) == /\ DOMAIN batch = Names
                 /\ \A m \in Names : /\ batch[m] = [asof |-> asof, window |-> build_inference_window(m, asof)]
                                     /\ build_inference_window(m, asof).ok

\* The invariant that the steps keep.
WindowsSound ==
    /\ table \in MeterTables
    /\ DOMAIN dataset = Names /\ \A m \in Names : \A w \in dataset[m] : TrainedOn(m, w)
    /\ batch = <<>> \/ \E asof \in Int : BatchOf(asof)
    /\ \A key \in DOMAIN history :
          /\ key[1] \in Names /\ key[2] \in Int
          /\ history[key] = build_inference_window(key[1], key[2]) /\ history[key].ok
          /\ \A m \in Names : <<m, key[2]>> \in DOMAIN history

\* The rows of a source are readings of its columns.
LEMMA SourceReadable ==
    ASSUME table \in MeterTables, NEW m \in Names, NEW k \in 1..Len(LogicalMeters[m])
    PROVE  Readable(SourceRows(m, k))
<1>1. LogicalMeters[m] \in Seq(MeterSources) BY ReadingsAssumption DEF Names
<1>2. LogicalMeters[m][k] \in MeterSources BY <1>1
<1> QED BY <1>2 DEF MeterTables, Readable, SourceRows

\* The rows of the lookback are imputed up to the last bucket.
LEMMA InferenceFrame ==
    ASSUME NEW m, NEW k, NEW asof
    PROVE  /\ fetch_source_range(m, k, asof).rows = Lately(SourceRows(m, k), asof)
           /\ fetch_source_range(m, k, asof).filled \in {{}, {asof - 1}}
           /\ fetch_source_range(m, k, asof).filled # {} =>
                 ~ \A c \in Columns : limited_internal_interpolation(Lately(SourceRows(m, k), asof), c, asof - 1) # {}
BY DEF fetch_source_range, impute_raw_feature_gaps, RecentRows, Lately, SourceRows

\* What a window that could be built is.
LEMMA InferenceWindow ==
    ASSUME NEW m, NEW asof, build_inference_window(m, asof).ok
    PROVE  LET k == segment_taken(exact_candidates(m, asof))
               f == fetch_source_range(m, k, asof)
               w == build_inference_window(m, asof)
           IN  /\ exact_candidates(m, asof) # {} /\ input_imputation_is_allowed(f, InferenceBuckets(asof))
               /\ w.segment = k /\ (w.filled <=> f.filled # {}) /\ w.inputs = inputs(f, InferenceBuckets(asof))
BY DEF build_inference_window

\* The newest of the segments that reach the bucket.
LEMMA NewestSegment ==
    ASSUME NEW m \in Names, NEW asof, exact_candidates(m, asof) # {}
    PROVE  LET k == segment_taken(exact_candidates(m, asof))
           IN  /\ k \in exact_candidates(m, asof) /\ k \in 1..Len(LogicalMeters[m])
               /\ \A j \in exact_candidates(m, asof) : j <= k
<1> DEFINE S == exact_candidates(m, asof)
<1>1. Len(LogicalMeters[m]) \in Nat BY ReadingsAssumption DEF Names
<1>2. S \subseteq 1..Len(LogicalMeters[m]) BY DEF exact_candidates
<1> HIDE DEF S
<1> DEFINE n == Len(LogicalMeters[m])
<1> HIDE DEF n
<1>3. S \subseteq Int /\ S # {} /\ n \in Int /\ \A s \in S : s <= n BY <1>1, <1>2 DEF S, n
<1>4. Max(S) \in S /\ \A s \in S : s <= Max(S) BY <1>3, GreatestExists
<1> QED BY <1>2, <1>4 DEF segment_taken, S

\* What was trained on and what was served are the same readings.
LEMMA WindowsEnough == WindowsSound => WindowsInv
<1> SUFFICES ASSUME WindowsSound PROVE WindowsInv OBVIOUS
<1>0. WindowSize \in Int BY WindowsAssumption
<1>1. ASSUME NEW m \in Names, NEW w \in dataset[m]
      PROVE  /\ \A t \in DOMAIN w.inputs, c \in Columns : \A a \in w.inputs[t][c] : a < w.start + WindowSize
             /\ LET r == build_inference_window(m, w.start + WindowSize)
                IN  r.ok /\ r.segment = w.segment => r.inputs = w.inputs
    <2>a. PICK k \in 1..Len(LogicalMeters[m]) : \E s \in build_windows(fetch_source_meter(SourceRows(m, k))) :
             w = [segment |-> k, start |-> s, inputs |-> inputs(fetch_source_meter(SourceRows(m, k)), s..(s + WindowSize - 1))]
        BY DEF WindowsSound, TrainedOn
    <2>1. PICK s \in build_windows(fetch_source_meter(SourceRows(m, k))) :
             w = [segment |-> k, start |-> s, inputs |-> inputs(fetch_source_meter(SourceRows(m, k)), s..(s + WindowSize - 1))]
        BY <2>a
    <2> DEFINE R == SourceRows(m, k)
               f == fetch_source_meter(R)
               asof == s + WindowSize
               W == (asof - WindowSize)..(asof - 1)
               r == build_inference_window(m, asof)
               g == fetch_source_range(m, k, asof)
    <2>2. Readable(R) /\ f.rows = R /\ f.filled = {} BY SourceReadable, TrainingFrame DEF WindowsSound
    <2>3. /\ s \in Int /\ (\A c \in Columns : <<s + WindowSize - 1, c>> \in R) /\ \A t \in s..(s + WindowSize - 1) : Whole(f, t)
        BY <2>2, TakenWindow
    <2>4. w.segment = k /\ w.start = s /\ w.inputs = inputs(f, s..(s + WindowSize - 1)) BY <2>1
    <2> HIDE DEF f, R
    <2>5. asof \in Int /\ W = s..(s + WindowSize - 1) /\ (\A c \in Columns : <<asof - 1, c>> \in R) /\ \A t \in W : Whole(f, t)
        <3>1. asof \in Int /\ asof - 1 = s + WindowSize - 1 /\ asof - WindowSize = s BY <1>0, <2>3
        <3> HIDE DEF asof
        <3> QED BY <2>3, <3>1
    <2> DEFINE h == [rows |-> Lately(R, asof), filled |-> {}]
    <2>6. h.rows = Lately(R, asof) /\ h.filled = {} OBVIOUS
    <2> HIDE DEF asof, h
    <2>7. \A t \in W, c \in Columns : \A a \in Cell(f, c, t) : a < asof
        BY <2>2, <2>5, <2>6, WindowAgrees
    <2>8. DOMAIN w.inputs = W /\ \A t \in W, c \in Columns : w.inputs[t][c] = Cell(f, c, t)
        <3>1. w.inputs = inputs(f, W) BY <2>4, <2>5, Zenon
        <3> HIDE DEF W
        <3> QED BY <3>1 DEF inputs
    <2>9. ASSUME r.ok, r.segment = k PROVE r.inputs = w.inputs
        <3>1. r.inputs = inputs(g, InferenceBuckets(asof)) BY <2>9, InferenceWindow
        <3>2. InferenceBuckets(asof) = W BY DEF InferenceBuckets
        <3>3. g.rows = Lately(R, asof) BY InferenceFrame DEF R
        <3>4. g.filled = {}
            <4>1. ASSUME NEW c \in Columns PROVE limited_internal_interpolation(Lately(R, asof), c, asof - 1) = {asof - 1}
                <5>1. <<asof - 1, c>> \in Lately(R, asof)
                    BY <2>5, WindowsAssumption DEF Lately
                <5>2. Readable(Lately(R, asof)) BY <2>2 DEF Readable, Lately
                <5> QED BY <2>5, <5>1, <5>2, Interpolation
            <4> QED BY <4>1, InferenceFrame DEF R
        <3> HIDE DEF g
        <3>5. inputs(f, W) = inputs(g, W) BY <2>2, <2>5, <3>3, <3>4, WindowAgrees
        <3> QED BY <2>4, <2>5, <3>1, <3>2, <3>5
    <2>10. w.start + WindowSize = asof BY <2>4 DEF asof
    <2> HIDE DEF W, r
    <2>11. \A t \in DOMAIN w.inputs, c \in Columns : \A a \in w.inputs[t][c] : a < asof BY <2>7, <2>8
    <2>12. r.ok /\ r.segment = w.segment => r.inputs = w.inputs BY <2>4, <2>9
    <2> QED BY <2>10, <2>11, <2>12, Zenon DEF r
<1>2. NoLookAhead BY <1>1 DEF NoLookAhead
<1>3. Reproducible BY <1>1 DEF Reproducible
<1>4. BatchIsWhole
    <2> SUFFICES ASSUME NEW x \in Names, NEW y \in Names, NEW t, <<x, t>> \in DOMAIN history PROVE <<y, t>> \in DOMAIN history
        BY DEF BatchIsWhole
    <2>1. <<x, t>>[2] = t OBVIOUS
    <2> QED BY <2>1 DEF WindowsSound
<1>5. ServedIsTrainable
    <2> SUFFICES ASSUME NEW key \in DOMAIN history
                 PROVE  LET s == key[2] - WindowSize
                            k == history[key].segment
                            f == fetch_source_meter(table[LogicalMeters[key[1]][k]])
                        IN  /\ ~history[key].filled => /\ WholeRows(f, key[2] - 1)
                                                       /\ input_imputation_is_allowed(f, s..(key[2] - 1))
                                                       /\ history[key].inputs = inputs(f, s..(key[2] - 1))
                            /\ \A j \in exact_candidates(key[1], key[2]) : j <= k
        BY Zenon DEF ServedIsTrainable
    <2> DEFINE m == key[1]
               asof == key[2]
               k == history[key].segment
               R == SourceRows(m, k)
               f == fetch_source_meter(R)
               g == fetch_source_range(m, k, asof)
               W == (asof - WindowSize)..(asof - 1)
    <2>1. m \in Names /\ asof \in Int /\ history[key] = build_inference_window(m, asof) /\ history[key].ok BY DEF WindowsSound
    <2> HIDE DEF m, asof
    <2>2. /\ exact_candidates(m, asof) # {} /\ k = segment_taken(exact_candidates(m, asof))
          /\ input_imputation_is_allowed(g, W)
          /\ (history[key].filled <=> g.filled # {}) /\ history[key].inputs = inputs(g, W)
        BY <2>1, InferenceWindow DEF InferenceBuckets
    <2>3. k \in exact_candidates(m, asof) /\ k \in 1..Len(LogicalMeters[m]) /\ \A j \in exact_candidates(m, asof) : j <= k
        BY <2>1, <2>2, NewestSegment
    <2>4. \A t \in W : Whole(g, t) BY <2>3 DEF exact_candidates, usable, InferenceBuckets
    <2>5. Readable(R) /\ f.rows = R /\ f.filled = {} BY <2>1, <2>3, SourceReadable, TrainingFrame DEF WindowsSound
    <2>6. g.rows = Lately(R, asof) BY InferenceFrame
    <2> HIDE DEF k, f, g, R
    <2>7. ASSUME g.filled = {}
          PROVE  WholeRows(f, asof - 1) /\ input_imputation_is_allowed(f, W) /\ history[key].inputs = inputs(f, W)
        <3>1. asof - 1 \in W /\ asof - 1 \in Int BY <2>1, WindowsAssumption
        <3>2. ASSUME NEW c \in Columns PROVE <<asof - 1, c>> \in R
            <4>1. Cell(g, c, asof - 1) # {} BY <2>4, <3>1 DEF Whole
            <4>2. limited_internal_interpolation(Lately(R, asof), c, asof - 1) # {} BY <2>6, <2>7, <4>1, UnfilledCell
            <4>3. Readable(Lately(R, asof)) BY <2>5 DEF Readable, Lately
            <4>4. \A b \in Buckets : <<b, c>> \in Lately(R, asof) => ~ (asof - 1 < b)
                BY <2>1, ReadingsAssumption DEF Lately, Buckets
            <4>5. <<asof - 1, c>> \in Lately(R, asof) BY <3>1, <4>2, <4>3, <4>4, Interpolation DEF Around
            <4> QED BY <4>5 DEF Lately
        <3>3. WholeRows(f, asof - 1) BY <2>5, <3>2 DEF WholeRows
        <3>4. inputs(f, W) = inputs(g, W) /\ (input_imputation_is_allowed(g, W) <=> input_imputation_is_allowed(f, W))
            BY <2>1, <2>4, <2>5, <2>6, <2>7, <3>2, WindowAgrees
        <3> QED BY <2>2, <3>3, <3>4
    <2> QED BY <2>2, <2>3, <2>7 DEF m, asof, k, f, R, SourceRows
<1> QED BY <1>2, <1>3, <1>4, <1>5 DEF WindowsInv

\* Nothing was trained or served at the start.
LEMMA WindowsStart == WindowsInit => WindowsSound
<1> SUFFICES ASSUME WindowsInit PROVE WindowsSound OBVIOUS
<1>1. table \in MeterTables BY ReadingsAssumption DEF WindowsInit, MeterTables
<1>2. DOMAIN history = {} /\ batch = <<>> BY DEF WindowsInit
<1>3. DOMAIN dataset = Names /\ \A m \in Names : dataset[m] = {} BY DEF WindowsInit
<1> QED BY <1>1, <1>2, <1>3 DEF WindowsSound

\* Nothing here writes the table, so that whatever was derived from it can be derived again.
LEMMA TableStays ==
    ASSUME table' = table
    PROVE  /\ \A m, w : TrainedOn(m, w)' <=> TrainedOn(m, w)
           /\ \A m, asof : build_inference_window(m, asof)' = build_inference_window(m, asof)
<1>1. \A m, k : SourceRows(m, k)' = SourceRows(m, k) BY DEF SourceRows
<1>2. \A m, w : TrainedOn(m, w)' <=> TrainedOn(m, w) BY <1>1 DEF TrainedOn
<1>3. \A m, k, asof : RecentRows(m, k, asof)' = RecentRows(m, k, asof) BY DEF RecentRows
<1>4. \A m, k, asof : fetch_source_range(m, k, asof)' = fetch_source_range(m, k, asof) BY <1>3 DEF fetch_source_range
<1>5. \A m, asof : exact_candidates(m, asof)' = exact_candidates(m, asof) BY <1>3, <1>4 DEF exact_candidates
<1>6. ASSUME NEW m, NEW asof PROVE build_inference_window(m, asof)' = build_inference_window(m, asof)
    BY <1>3, <1>4, <1>5, Zenon DEF build_inference_window
<1> QED BY <1>2, <1>6

\* The as-of of a batch is a bucket.
LEMMA AsOfIsBucket ==
    ASSUME table \in MeterTables, NEW given \in {-1} \cup 1..(LastBucket + 1), Names # {},
           given >= 0 \/ \A m \in Names : LatestOf(m) # {}
    PROVE  resolve_requested_as_of(given) \in Int
<1>1. CASE given >= 0 BY <1>1, ReadingsAssumption DEF resolve_requested_as_of
<1>2. CASE ~ (given >= 0)
    <2> DEFINE T == {Max(LatestOf(m)) : m \in Names}
    <2>1. ASSUME NEW m \in Names PROVE Max(LatestOf(m)) \in Buckets
        <3> DEFINE L == LatestOf(m)
        <3>1. \A k \in 1..Len(LogicalMeters[m]) : Readable(table[LogicalMeters[m][k]]) BY SourceReadable DEF SourceRows
        <3>2. L \subseteq Buckets BY <3>1 DEF LatestOf, Stamps, Readable
        <3>3. L # {} BY <1>2, ReadingsAssumption
        <3> HIDE DEF L
        <3>4. L \subseteq Int /\ LastBucket \in Int /\ \A s \in L : s <= LastBucket BY <3>2, ReadingsAssumption DEF Buckets
        <3>5. Max(L) \in L BY <3>3, <3>4, GreatestExists
        <3> QED BY <3>2, <3>5 DEF L
    <2>2. T # {} /\ T \subseteq Buckets BY <2>1
    <2> HIDE DEF T
    <2>3. T \subseteq Int /\ 0 \in Int /\ \A s \in T : 0 <= s BY <2>2, ReadingsAssumption DEF Buckets
    <2>4. Min(T) \in T BY <2>2, <2>3, LeastExists
    <2>5. Min(T) \in Int BY <2>3, <2>4
    <2>6. \A x \in Int : x + 1 \in Int OBVIOUS
    <2>7. resolve_requested_as_of(given) = Min(T) + 1 BY <1>2, Zenon DEF resolve_requested_as_of, T
    <2> QED BY <2>5, <2>6, <2>7, Zenon
<1> QED BY <1>1, <1>2

\* Training a meter, writing an artefact, running a batch and writing its outputs keep it.
LEMMA WindowsStep == WindowsSound /\ [WindowsNext]_wvars => WindowsSound'
<1> SUFFICES ASSUME WindowsSound, [WindowsNext]_wvars PROVE WindowsSound' OBVIOUS
<1>1. table' = table
    BY DEF WindowsNext, train_candidates, write_method_artifacts, run_batch, write_batch_outputs, wvars
<1>2. \A m, w : TrainedOn(m, w)' <=> TrainedOn(m, w) BY <1>1, TableStays
<1>3. \A m, asof : build_inference_window(m, asof)' = build_inference_window(m, asof) BY <1>1, TableStays
<1>4. table' \in MeterTables BY <1>1 DEF WindowsSound
<1> DEFINE Trained == DOMAIN dataset = Names /\ \A m \in Names : \A w \in dataset[m] : TrainedOn(m, w)
           Batched == batch = <<>> \/ \E asof \in Int : BatchOf(asof)
           ServedAt == \A key \in DOMAIN history :
                        /\ key[1] \in Names /\ key[2] \in Int
                        /\ history[key] = build_inference_window(key[1], key[2]) /\ history[key].ok
                        /\ \A m \in Names : <<m, key[2]>> \in DOMAIN history
<1>5. Trained /\ Batched /\ ServedAt BY DEF WindowsSound
<1>6. dataset' = dataset => Trained' BY <1>2, <1>5
<1>7. batch' = batch => Batched' BY <1>3, <1>5 DEF BatchOf
<1>8. history' = history => ServedAt' BY <1>3, <1>5
<1>9. Trained' /\ Batched' /\ ServedAt' => WindowsSound' BY <1>4 DEF WindowsSound
<1> HIDE DEF Trained, Batched, ServedAt
<1>10. ASSUME NEW m \in Names, train_candidates(m) PROVE WindowsSound'
    <2>1. batch' = batch /\ history' = history BY <1>10 DEF train_candidates
    <2>2. PICK fetch \in {"db", "archive"} :
            LET frame(k) == LET R == table[LogicalMeters[m][k]] IN
                            IF fetch = "db" THEN fetch_source_meter(R) ELSE fetch_source_meter_from_input(R)
                windows == UNION {{[segment |-> k, start |-> s, inputs |-> inputs(frame(k), s..(s + WindowSize - 1))] :
                                      s \in build_windows(frame(k))} : k \in SegmentsOf(m)}
            IN  windows # {} /\ dataset' = [dataset EXCEPT ![m] = windows]
        BY <1>10 DEF train_candidates
    <2> DEFINE frame(k) == LET R == table[LogicalMeters[m][k]] IN
                           IF fetch = "db" THEN fetch_source_meter(R) ELSE fetch_source_meter_from_input(R)
               windows == UNION {{[segment |-> k, start |-> s, inputs |-> inputs(frame(k), s..(s + WindowSize - 1))] :
                                     s \in build_windows(frame(k))} : k \in SegmentsOf(m)}
    <2>3. dataset' = [dataset EXCEPT ![m] = windows] BY <2>2
    <2>4. \A k : frame(k) = fetch_source_meter(SourceRows(m, k))
        BY DEF SourceRows, fetch_source_meter, fetch_source_meter_from_input
    <2>5. SegmentsOf(m) \subseteq 1..Len(LogicalMeters[m]) BY DEF SegmentsOf
    <2> HIDE DEF frame
    <2>6. \A w \in windows : TrainedOn(m, w) BY <2>4, <2>5 DEF TrainedOn
    <2> HIDE DEF windows
    <2>7. Trained' BY <1>2, <1>5, <2>3, <2>6 DEF Trained
    <2> QED BY <1>7, <1>8, <1>9, <2>1, <2>7
<1>11. ASSUME NEW m \in Names, write_method_artifacts(m) PROVE WindowsSound'
    BY <1>6, <1>7, <1>8, <1>9, <1>11 DEF write_method_artifacts
<1>12. CASE run_batch
    <2>1. dataset' = dataset /\ history' = history BY <1>12 DEF run_batch
    <2>2. PICK given \in {-1} \cup 1..(LastBucket + 1) :
            /\ given >= 0 \/ \A m \in Names : LatestOf(m) # {}
            /\ BatchRows(resolve_requested_as_of(given)) # {}
            /\ batch' = [m \in BatchRows(resolve_requested_as_of(given)) |->
                            [asof |-> resolve_requested_as_of(given),
                             window |-> build_inference_window(m, resolve_requested_as_of(given))]]
        BY <1>12 DEF run_batch
    <2> DEFINE asof == resolve_requested_as_of(given)
    <2>3. BatchRows(asof) = Names /\ Names # {} /\ \A m \in Names : build_inference_window(m, asof).ok
        BY <2>2 DEF BatchRows
    <2>4. asof \in Int BY <2>2, <2>3, AsOfIsBucket DEF WindowsSound
    <2>a. PICK a \in Int : a = asof BY <2>4
    <2>5. batch' = [m \in Names |-> [asof |-> a, window |-> build_inference_window(m, a)]] BY <2>2, <2>3, <2>a
    <2>b. \A m \in Names : build_inference_window(m, a).ok BY <2>3, <2>a
    <2> HIDE DEF asof
    <2>6. BatchOf(a)' BY <1>3, <2>b, <2>5 DEF BatchOf
    <2>7. Batched' BY <2>a, <2>6 DEF Batched
    <2> QED BY <1>6, <1>8, <1>9, <2>1, <2>7
<1>13. CASE write_batch_outputs
    <2>1. dataset' = dataset /\ batch' = <<>> /\ batch # <<>> BY <1>13 DEF write_batch_outputs
    <2>2. Batched' BY <2>1 DEF Batched
    <2>3. PICK asof \in Int : BatchOf(asof) BY <1>5, <2>1 DEF Batched
    <2>4. CASE upsert_forecast_csv
        <3> DEFINE keys == {<<m, batch[m].asof>> : m \in DOMAIN batch}
        <3>1. \A k : k \in keys <=> \E m \in Names : k = <<m, asof>> BY <2>3 DEF BatchOf
        <3>2. history' = [k \in DOMAIN history \cup keys |-> IF k \in keys THEN batch[k[1]].window ELSE history[k]]
            BY <2>4 DEF upsert_forecast_csv
        <3> HIDE DEF keys
        <3>3. DOMAIN history' = DOMAIN history \cup keys BY <3>2
        <3>4. ASSUME NEW key \in keys
              PROVE  /\ key[1] \in Names /\ key[2] \in Int /\ history'[key] = build_inference_window(key[1], key[2])
                     /\ history'[key].ok /\ \A m \in Names : <<m, key[2]>> \in DOMAIN history'
            <4>1. PICK m \in Names : key = <<m, asof>> BY <3>1
            <4>2. history'[key] = batch[m].window BY <3>2, <4>1
            <4>3. batch[m].window = build_inference_window(m, asof) /\ build_inference_window(m, asof).ok
                BY <2>3 DEF BatchOf
            <4> QED BY <3>1, <3>3, <4>1, <4>2, <4>3
        <3>5. ASSUME NEW key \in DOMAIN history, key \notin keys
              PROVE  /\ key[1] \in Names /\ key[2] \in Int /\ history'[key] = build_inference_window(key[1], key[2])
                     /\ history'[key].ok /\ \A m \in Names : <<m, key[2]>> \in DOMAIN history'
            <4>1. history'[key] = history[key] BY <3>2, <3>5
            <4> QED BY <1>5, <3>3, <4>1 DEF ServedAt
        <3>6. ServedAt' BY <1>3, <3>3, <3>4, <3>5 DEF ServedAt
        <3> QED BY <1>6, <1>9, <2>1, <2>2, <3>6
    <2>5. CASE UNCHANGED history BY <1>6, <1>8, <1>9, <2>1, <2>2, <2>5
    <2> QED BY <1>13, <2>4, <2>5 DEF write_batch_outputs
<1>14. CASE UNCHANGED wvars BY <1>6, <1>7, <1>8, <1>9, <1>14 DEF wvars
<1> QED BY <1>10, <1>11, <1>12, <1>13, <1>14 DEF WindowsNext

\* No training window uses a reading of its future, a served window is the one training would take there, of the
\* newest segment, and a base_ts is in the history for all meters or for none (training.py, batch_inference.py).
THEOREM WindowsAreAsTrained == WindowsSpec => []WindowsInv
<1> QED
  BY WindowsStart, WindowsStep, WindowsEnough, PTL DEF WindowsSpec

(***************************************************************************)
(* The coverage worker.  A tick and its bucket are on the same side of     *)
(* every boundary that chunks and windows keep, so a chunk reads whole     *)
(* minutes, and what was counted in the chunks read so far is what is      *)
(* stored there.                                                           *)
(***************************************************************************)

\* t is a multiple of width.
Aligned(t, width) == \E k \in Nat : t = k * width

\* The worker is run for windows of whole buckets of every resolution, in chunks of whole minutes.
ChunksAligned ==
    /\ Aligned(ChunkTicks, Minute)
    /\ \A w \in QaWindows : Aligned(w[2], Minute) /\ \A r \in Resolutions : Aligned(w[1], Width[r])

\* floor_time is the last multiple of the width that is not after the tick.
LEMMA FloorOf ==
    ASSUME NEW t \in Nat, NEW width \in Nat \ {0}
    PROVE  /\ floor_time(t, width) \in Nat /\ floor_time(t, width) <= t /\ t < floor_time(t, width) + width
           /\ Aligned(floor_time(t, width), width)
<1> DEFINE q == t \div width
<1>1. q \in Nat /\ q * width <= t /\ t < (q + 1) * width OBVIOUS
<1>2. floor_time(t, width) = q * width BY DEF floor_time
<1> HIDE DEF q
<1>3. q * width \in Nat /\ (q + 1) * width = q * width + width BY <1>1
<1> QED BY <1>1, <1>2, <1>3 DEF Aligned

\* Products of naturals grow with their factors.
LEMMA Products == \A D \in Nat, a, b \in Nat : a <= b => a * D \in Nat /\ b * D \in Nat /\ a * D <= b * D
OBVIOUS

\* Nothing aligned lies within a bucket.
LEMMA Between ==
    ASSUME NEW width \in Nat \ {0}, NEW a \in Nat, NEW b \in Nat, Aligned(a, width), Aligned(b, width), b < a
    PROVE  b + width <= a
<1>1. PICK i \in Nat : a = i * width BY DEF Aligned
<1>2. PICK j \in Nat : b = j * width BY DEF Aligned
<1>3. ~ (i <= j) BY <1>1, <1>2, Products
<1>4. j + 1 <= i /\ j + 1 \in Nat BY <1>3
<1>5. (j + 1) * width <= i * width BY <1>4, Products
<1>6. (j + 1) * width = j * width + width OBVIOUS
<1> QED BY <1>1, <1>2, <1>5, <1>6

\* Multiples add up to a multiple.
LEMMA AlignedSum ==
    ASSUME NEW width \in Nat \ {0}, NEW a \in Nat, NEW b \in Nat, Aligned(a, width), Aligned(b, width)
    PROVE  Aligned(a + b, width)
<1>1. PICK i \in Nat : a = i * width BY DEF Aligned
<1>2. PICK j \in Nat : b = j * width BY DEF Aligned
<1>3. (i + j) * width = i * width + j * width OBVIOUS
<1>4. i + j \in Nat /\ a + b = (i + j) * width BY <1>1, <1>2, <1>3
<1> QED BY <1>4 DEF Aligned

\* A tick is on the same side of a boundary as its bucket.
LEMMA SameSide ==
    ASSUME NEW t \in Nat, NEW width \in Nat \ {0}, NEW a \in Nat, Aligned(a, width)
    PROVE  a <= t <=> a <= floor_time(t, width)
<1> DEFINE b == floor_time(t, width)
<1>1. b \in Nat /\ b <= t /\ t < b + width /\ Aligned(b, width) BY FloorOf
<1> HIDE DEF b
<1>2. a <= b => a <= t BY <1>1
<1>3. ASSUME a <= t, ~ (a <= b) PROVE FALSE
    <2>1. b < a BY <1>1, <1>3
    <2>2. b + width <= a BY <1>1, <2>1, Between
    <2> QED BY <1>1, <1>3, <2>2
<1> QED BY <1>2, <1>3 DEF b

\* More rows stored, and a minute counts no fewer of them.
LEMMA CountGrows ==
    ASSUME NEW s, NEW u, s \subseteq u, IsFiniteSet(u), NEW m
    PROVE  CountStored(s, m) \in Nat /\ CountStored(u, m) \in Nat /\ CountStored(s, m) <= CountStored(u, m)
<1> DEFINE A == {t \in s : floor_time(t, Minute) = m}
           B == {t \in u : floor_time(t, Minute) = m}
<1>1. A \subseteq B /\ B \subseteq u OBVIOUS
<1>2. CountStored(s, m) = Cardinality(A) /\ CountStored(u, m) = Cardinality(B) BY DEF CountStored
<1> HIDE DEF A, B
<1>3. IsFiniteSet(B) BY <1>1, FS_Subset
<1>4. IsFiniteSet(A) /\ Cardinality(A) <= Cardinality(B) BY <1>1, <1>3, FS_Subset
<1> QED BY <1>2, <1>3, <1>4, FS_CardinalityType

\* The minutes of a set of ticks.
MinutesOf(S) == {floor_time(t, Minute) : t \in S}
\* The rollup keys of a set of ticks.
KeysFor(S) == {<<r, floor_time(t, Width[r])>> : r \in Resolutions, t \in S}

\* The gaps, minute by minute.
LEMMA EventGapsAre ==
    ASSUME NEW w, NEW src, NEW counted, NEW g
    PROVE  g \in EventGaps(w, src, counted) <=>
              \E m \in MinutesOf(src) : g = <<"event_minute", m>> /\ counted[m] < CountStored(src, m)
BY DEF EventGaps, MinutesOf, CountStored

\* And bucket by bucket.
LEMMA RollupGapsAre ==
    ASSUME NEW src, NEW keys
    PROVE  RollupGaps(src, keys) = KeysFor(src) \ keys
BY DEF RollupGaps, KeysFor

\* What a run remembers.
ScanFields == {"at", "win", "src", "cursor", "readable", "skipEvents", "skipRollups", "counted", "keys"}

\* It counted no more than there is, for a window of whole buckets.
ScanShape ==
    /\ live_rows \subseteq SourceEvents
    /\ DOMAIN scan = ScanFields /\ scan.at \in {"idle", "events", "rollups", "insert", "done"}
    /\ DOMAIN scan.counted = QaBuckets(Minute)
    /\ \A m \in QaBuckets(Minute) : scan.counted[m] \in Nat /\ scan.counted[m] <= CountStored(live_rows, m)
    /\ scan.keys \subseteq rolled
    /\ scan.src \subseteq SourceEvents /\ (scan.at = "idle" => scan.src = {})
    /\ scan.at # "idle" => /\ scan.win \in QaWindows /\ \A t \in scan.src : In(t, scan.win)
                           /\ scan.readable => scan.src = {t \in SourceEvents : In(t, scan.win)}
    /\ scan.at \in {"events", "rollups"} =>
          /\ scan.cursor \in Nat /\ scan.win[1] <= scan.cursor /\ scan.cursor < scan.win[2]
             /\ Aligned(scan.cursor, Minute)
          /\ scan.at = "events" /\ scan.skipEvents => scan.cursor = scan.win[1]

\* What was no gap when the run began is none now.
GapsKnown ==
    /\ \A m \in MinutesOf(scan.src) : CountStored(live_rows, m) >= CountStored(scan.src, m)
       \/ <<"event_minute", m>> \in onceGaps
    /\ \A k \in KeysFor(scan.src) : k \in rolled \/ k \in onceGaps

\* What the cursor has passed was read whole.
ReadWhole ==
    /\ scan.skipEvents \/ \A m \in MinutesOf(scan.src) :
          \/ scan.at = "events" /\ scan.cursor <= m
          \/ scan.counted[m] >= CountStored(scan.src, m)
          \/ <<"event_minute", m>> \in onceGaps
    /\ scan.skipRollups \/ \A k \in KeysFor(scan.src) :
          \/ scan.at = "events"
          \/ scan.at = "rollups" /\ scan.cursor <= k[2]
          \/ k \in scan.keys
          \/ k \in onceGaps

\* A finished run has written its issues.
IssuesWritten == scan.at = "done" => build_coverage_issues \subseteq issues

\* The invariant of the coverage worker.
CoverageSound == ScanShape /\ GapsKnown /\ ReadWhole /\ IssuesWritten

\* Issues that were computed from a whole read are the gaps.
LEMMA CoverageEnough == CoverageSound => IssuesAreTheGaps
<1> SUFFICES ASSUME CoverageSound, scan.at = "done"
             PROVE  /\ ~scan.skipEvents /\ ~scan.skipRollups => build_coverage_issues \subseteq onceGaps
                    /\ scan.readable => GapsNow(scan.win) \subseteq issues
    BY DEF IssuesAreTheGaps
<1>0. MinutesOf(scan.src) \subseteq QaBuckets(Minute) BY DEF CoverageSound, ScanShape, MinutesOf, QaBuckets
<1>t. /\ IsFiniteSet(SourceEvents)
      /\ \A m \in QaBuckets(Minute) : scan.counted[m] \in Nat /\ scan.counted[m] <= CountStored(live_rows, m)
      /\ scan.src \subseteq SourceEvents /\ live_rows \subseteq SourceEvents /\ scan.keys \subseteq rolled
    BY CoverageAssumption DEF CoverageSound, ScanShape
<1>c. \A m : CountStored(scan.src, m) \in Nat /\ CountStored(live_rows, m) \in Nat BY <1>t, CountGrows
<1>1. ASSUME ~scan.skipEvents, ~scan.skipRollups, NEW g \in build_coverage_issues PROVE g \in onceGaps
    <2>1. CASE g \in EventGaps(scan.win, scan.src, scan.counted)
        <3>1. PICK m \in MinutesOf(scan.src) : g = <<"event_minute", m>> /\ scan.counted[m] < CountStored(scan.src, m)
            BY <2>1, EventGapsAre
        <3>2. ~ (scan.counted[m] >= CountStored(scan.src, m)) BY <1>0, <1>t, <1>c, <3>1
        <3> QED BY <1>1, <3>1, <3>2 DEF CoverageSound, ReadWhole
    <2>2. CASE g \in RollupGaps(scan.src, scan.keys)
        BY <1>1, <2>2, RollupGapsAre DEF CoverageSound, ReadWhole
    <2> QED BY <1>1, <2>1, <2>2 DEF build_coverage_issues
<1>2. ASSUME scan.readable, NEW g \in GapsNow(scan.win) PROVE g \in issues
    <2> DEFINE src == {t \in SourceEvents : In(t, scan.win)}
               now == [m \in QaBuckets(Minute) |-> CountStored(live_rows, m)]
    <2>0. scan.src = src BY <1>2 DEF CoverageSound, ScanShape
    <2>1. g \in EventGaps(scan.win, src, now) \/ g \in RollupGaps(src, rolled) BY DEF GapsNow
    <2>2. CASE g \in EventGaps(scan.win, src, now)
        <3>1. PICK m \in MinutesOf(src) : g = <<"event_minute", m>> /\ now[m] < CountStored(src, m)
            BY <2>2, EventGapsAre
        <3>2. m \in MinutesOf(scan.src) /\ m \in QaBuckets(Minute) BY <1>0, <2>0
        <3>3. now[m] = CountStored(live_rows, m) BY <3>2
        <3> HIDE DEF now, src
        <3>4. scan.counted[m] < CountStored(scan.src, m) BY <1>t, <1>c, <2>0, <3>1, <3>2, <3>3
        <3>5. g \in EventGaps(scan.win, scan.src, scan.counted) BY <3>1, <3>2, <3>4, EventGapsAre
        <3> QED BY <3>5 DEF CoverageSound, IssuesWritten, build_coverage_issues
    <2>3. CASE g \in RollupGaps(src, rolled)
        <3>1. g \in RollupGaps(scan.src, scan.keys) BY <1>t, <2>0, <2>3, RollupGapsAre
        <3> QED BY <3>1 DEF CoverageSound, IssuesWritten, build_coverage_issues
    <2> QED BY <2>1, <2>2, <2>3
<1> QED BY <1>1, <1>2

\* A run that has not begun.
LEMMA NoScanIs ==
    /\ DOMAIN NoScan = ScanFields /\ NoScan.at = "idle" /\ NoScan.src = {} /\ NoScan.keys = {}
    /\ NoScan.counted = [m \in QaBuckets(Minute) |-> 0]
BY DEF NoScan, ScanFields

\* A run that has not begun, or has ended badly, claims nothing.
LEMMA IdleSound == scan = NoScan /\ live_rows \subseteq SourceEvents => CoverageSound
<1> SUFFICES ASSUME scan = NoScan, live_rows \subseteq SourceEvents PROVE CoverageSound OBVIOUS
<1>0. IsFiniteSet(SourceEvents) BY CoverageAssumption
<1>1. ASSUME NEW m \in QaBuckets(Minute) PROVE 0 <= CountStored(live_rows, m)
    <2>1. CountStored(live_rows, m) \in Nat BY <1>0, CountGrows
    <2> QED BY <2>1
<1>2. MinutesOf(scan.src) = {} /\ KeysFor(scan.src) = {} BY NoScanIs DEF MinutesOf, KeysFor
<1>3. ScanShape BY <1>1, NoScanIs DEF ScanShape
<1>4. GapsKnown BY <1>2 DEF GapsKnown
<1>5. ReadWhole BY <1>2 DEF ReadWhole
<1>6. IssuesWritten BY NoScanIs DEF IssuesWritten
<1> QED BY <1>3, <1>4, <1>5, <1>6 DEF CoverageSound

\* No run has begun at the start.
LEMMA CoverageStarts == CoverageInit => CoverageSound
BY IdleSound DEF CoverageInit

\* The tables only grow.
LEMMA TablesGrow ==
    ASSUME CoverageSound, live_rows \subseteq live_rows', rolled \subseteq rolled', live_rows' \subseteq SourceEvents,
           UNCHANGED <<scan, issues, onceGaps>>
    PROVE  CoverageSound'
<1>0. IsFiniteSet(SourceEvents) BY CoverageAssumption
<1>1. IsFiniteSet(live_rows') BY <1>0, FS_Subset
<1>2. \A m : /\ CountStored(live_rows, m) \in Nat /\ CountStored(live_rows', m) \in Nat
             /\ CountStored(live_rows, m) <= CountStored(live_rows', m)
    BY <1>1, CountGrows
<1>3. \A m : CountStored(scan.src, m) \in Nat BY <1>0, CountGrows DEF CoverageSound, ScanShape
<1>4. ScanShape'
    <2>1. \A m \in QaBuckets(Minute) : scan.counted[m] \in Nat /\ scan.counted[m] <= CountStored(live_rows', m)
        BY <1>2 DEF CoverageSound, ScanShape
    <2> QED BY <2>1 DEF CoverageSound, ScanShape
<1>5. GapsKnown' BY <1>2, <1>3 DEF CoverageSound, GapsKnown
<1>6. ReadWhole' BY DEF CoverageSound, ReadWhole
<1>7. IssuesWritten' BY DEF CoverageSound, IssuesWritten, build_coverage_issues
<1> QED BY <1>4, <1>5, <1>6, <1>7 DEF CoverageSound

\* At its start a run knows all the gaps of its window.
LEMMA ScanBegins == CoverageSound /\ ChunksAligned /\ scan_source_coverage => CoverageSound'
<1> SUFFICES ASSUME CoverageSound, ChunksAligned, scan_source_coverage PROVE CoverageSound' OBVIOUS
<1>1. UNCHANGED <<live_rows, rolled, issues>> BY DEF scan_source_coverage
<1>2. PICK w \in QaWindows, readable \in BOOLEAN :
        /\ \E skipEvents, skipRollups \in Skips :
             scan' = [NoScan EXCEPT !.at = "events", !.win = w, !.cursor = w[1],
                         !.src = IF readable THEN {t \in SourceEvents : In(t, w)} ELSE {},
                         !.readable = readable,
                         !.skipEvents = skipEvents, !.skipRollups = skipRollups]
        /\ onceGaps' = onceGaps \cup GapsNow(w)
    BY DEF scan_source_coverage
<1> DEFINE all == {t \in SourceEvents : In(t, w)}
           src == IF readable THEN all ELSE {}
           now == [m \in QaBuckets(Minute) |-> CountStored(live_rows, m)]
<1>3. /\ DOMAIN scan' = ScanFields /\ scan'.at = "events" /\ scan'.win = w /\ scan'.cursor = w[1]
      /\ scan'.src = src /\ scan'.readable = readable /\ scan'.keys = {}
      /\ scan'.counted = [m \in QaBuckets(Minute) |-> 0]
    BY <1>2, NoScanIs DEF ScanFields
<1>4. src \subseteq all /\ all \subseteq SourceEvents /\ \A t \in all : In(t, w) OBVIOUS
<1>5. onceGaps' = onceGaps \cup EventGaps(w, all, now) \cup RollupGaps(all, rolled) BY <1>2 DEF GapsNow
<1>6. readable => src = all OBVIOUS
<1>h. src = {} \/ src = all OBVIOUS
<1> HIDE DEF src, now
<1>7. w[1] \in Nat /\ w[2] \in Nat /\ w[1] < w[2] /\ Aligned(w[1], Minute)
    BY CoverageAssumption DEF ChunksAligned, Minute
<1>8. live_rows \subseteq SourceEvents /\ IsFiniteSet(SourceEvents) BY CoverageAssumption DEF CoverageSound, ScanShape
<1>9. \A m : CountStored(live_rows, m) \in Nat /\ CountStored(src, m) \in Nat /\ 0 <= CountStored(live_rows, m)
    BY <1>4, <1>8, CountGrows
<1>10. ScanShape'
    BY <1>1, <1>3, <1>4, <1>6, <1>7, <1>8, <1>9 DEF ScanShape
<1>11. GapsKnown'
    <2>1. ASSUME NEW m \in MinutesOf(src)
                 PROVE CountStored(live_rows, m) >= CountStored(src, m) \/ <<"event_minute", m>> \in onceGaps'
        <3>1. src = all /\ m \in MinutesOf(all) BY <1>h DEF MinutesOf
        <3>2. m \in QaBuckets(Minute) BY <3>1 DEF MinutesOf, QaBuckets
        <3>3. now[m] = CountStored(live_rows, m) BY <3>2 DEF now
        <3>4. CASE now[m] < CountStored(all, m)
            <4>1. <<"event_minute", m>> \in EventGaps(w, all, now) BY <3>1, <3>4, EventGapsAre
            <4> QED BY <1>5, <4>1
        <3>5. CASE ~ (now[m] < CountStored(all, m)) BY <1>9, <3>1, <3>3, <3>5
        <3> QED BY <3>4, <3>5
    <2>2. ASSUME NEW k \in KeysFor(src) PROVE k \in rolled \/ k \in onceGaps'
        <3>1. k \in KeysFor(all) BY <1>4 DEF KeysFor
        <3> QED BY <1>5, <3>1, RollupGapsAre
    <2> QED BY <1>1, <1>3, <2>1, <2>2 DEF GapsKnown
<1>12. ReadWhole'
    <2>1. ASSUME NEW m \in MinutesOf(src) PROVE w[1] <= m
        <3>1. PICK t \in src : m = floor_time(t, Minute) BY DEF MinutesOf
        <3>2. t \in Nat /\ w[1] <= t BY <1>4, CoverageAssumption DEF In
        <3>3. Minute \in Nat \ {0} BY CoverageAssumption DEF Minute
        <3> QED BY <1>7, <3>1, <3>2, <3>3, SameSide
    <2> QED BY <1>3, <2>1 DEF ReadWhole
<1>13. IssuesWritten' BY <1>3 DEF IssuesWritten
<1> QED BY <1>10, <1>11, <1>12, <1>13 DEF CoverageSound

\* A chunk is not empty, ends within the window and with a minute.
LEMMA ChunkIs ==
    ASSUME CoverageSound, ChunksAligned, scan.at \in {"events", "rollups"}
    PROVE  /\ ChunkEnd \in Nat /\ scan.cursor < ChunkEnd /\ ChunkEnd <= scan.win[2] /\ Aligned(ChunkEnd, Minute)
           /\ scan.cursor \in Nat /\ scan.win[1] \in Nat /\ scan.win[2] \in Nat /\ scan.win[1] < scan.win[2]
<1>1. /\ scan.cursor \in Nat /\ scan.cursor < scan.win[2] /\ Aligned(scan.cursor, Minute) /\ scan.win \in QaWindows
    BY DEF CoverageSound, ScanShape
<1>2. /\ ChunkTicks \in Nat \ {0} /\ Minute \in Nat \ {0} /\ scan.win[1] \in Nat /\ scan.win[2] \in Nat
      /\ scan.win[1] < scan.win[2]
    BY <1>1, CoverageAssumption DEF Minute
<1>3. Aligned(ChunkTicks, Minute) /\ Aligned(scan.win[2], Minute) BY <1>1 DEF ChunksAligned
<1>4. Aligned(scan.cursor + ChunkTicks, Minute) BY <1>1, <1>2, <1>3, AlignedSum
<1> QED BY <1>1, <1>2, <1>3, <1>4 DEF ChunkEnd

\* The cursor goes on to the end of the chunk, or back to the start for the next phase.
LEMMA NextChunkIs ==
    ASSUME DOMAIN scan = ScanFields, NEW phase
    PROVE  LET n == NextChunk(phase)
           IN  /\ DOMAIN n = ScanFields
               /\ n.win = scan.win /\ n.src = scan.src /\ n.readable = scan.readable /\ n.skipEvents = scan.skipEvents
               /\ n.skipRollups = scan.skipRollups /\ n.counted = scan.counted /\ n.keys = scan.keys
               /\ \/ n.cursor = ChunkEnd /\ n.at = scan.at /\ ChunkEnd < scan.win[2]
                  \/ n.cursor = scan.win[1] /\ n.at = phase /\ ~ (ChunkEnd < scan.win[2])
BY DEF NextChunk, ScanFields

\* A minute of the source is within one chunk, and so is what is stored of it.
LEMMA MinuteWithin ==
    ASSUME CoverageSound, ChunksAligned, scan.at = "events", NEW m \in MinutesOf(scan.src)
    PROVE  /\ m \in Nat /\ scan.win[1] <= m /\ m < scan.win[2]
           /\ \A t \in Nat : floor_time(t, Minute) = m => (InChunk(t) <=> InChunk(m))
<1>1. PICK u \in scan.src : m = floor_time(u, Minute) BY DEF MinutesOf
<1>2. u \in Nat /\ scan.win[1] <= u /\ u < scan.win[2] /\ scan.win \in QaWindows
    BY CoverageAssumption DEF CoverageSound, ScanShape, In
<1>3. Minute \in Nat \ {0} BY CoverageAssumption DEF Minute
<1>4. /\ ChunkEnd \in Nat /\ Aligned(ChunkEnd, Minute) /\ scan.cursor \in Nat
      /\ scan.win[1] \in Nat /\ scan.win[2] \in Nat
    BY ChunkIs
<1>5. Aligned(scan.cursor, Minute) BY DEF CoverageSound, ScanShape
<1>6. Aligned(scan.win[1], Minute) BY <1>2, CoverageAssumption DEF ChunksAligned, Minute
<1>7. m \in Nat /\ m <= u BY <1>1, <1>2, <1>3, FloorOf
<1>8. scan.win[1] <= m BY <1>1, <1>2, <1>3, <1>4, <1>6, SameSide
<1>9. ASSUME NEW t \in Nat, floor_time(t, Minute) = m PROVE InChunk(t) <=> InChunk(m)
    <2>1. scan.cursor <= t <=> scan.cursor <= m BY <1>3, <1>4, <1>5, <1>9, SameSide
    <2>2. ChunkEnd <= t <=> ChunkEnd <= m BY <1>3, <1>4, <1>9, SameSide
    <2> QED BY <1>4, <1>7, <2>1, <2>2 DEF InChunk
<1> QED BY <1>2, <1>4, <1>7, <1>8, <1>9

\* The bucket of a source row starts within the window.
LEMMA KeyWithin ==
    ASSUME CoverageSound, ChunksAligned, scan.at # "idle", NEW k \in KeysFor(scan.src)
    PROVE  k[2] \in Nat /\ scan.win[1] <= k[2] /\ k[2] < scan.win[2]
<1>1. PICK r \in Resolutions, t \in scan.src : k = <<r, floor_time(t, Width[r])>> BY DEF KeysFor
<1>2. t \in Nat /\ scan.win[1] <= t /\ t < scan.win[2] /\ scan.win \in QaWindows
    BY CoverageAssumption DEF CoverageSound, ScanShape, In
<1>3. /\ Width[r] \in Nat \ {0} /\ Aligned(scan.win[1], Width[r])
      /\ scan.win[1] \in Nat /\ scan.win[2] \in Nat
    BY <1>2, CoverageAssumption DEF ChunksAligned
<1>4. scan.win[1] <= floor_time(t, Width[r]) BY <1>2, <1>3, SameSide
<1>5. floor_time(t, Width[r]) \in Nat /\ floor_time(t, Width[r]) <= t BY <1>2, <1>3, FloorOf
<1>6. k[2] = floor_time(t, Width[r]) BY <1>1
<1> QED BY <1>2, <1>3, <1>4, <1>5, <1>6

\* Counting a chunk: its minutes are counted whole, the others not at all.
LEMMA ChunkCounted == CoverageSound /\ ChunksAligned /\ fetch_event_minute_counts => CoverageSound'
<1> SUFFICES ASSUME CoverageSound, ChunksAligned, fetch_event_minute_counts PROVE CoverageSound' OBVIOUS
<1>1. UNCHANGED <<live_rows, rolled, issues, onceGaps>> /\ scan.at = "events" /\ ~scan.skipEvents
    BY DEF fetch_event_minute_counts
<1> DEFINE seen == {t \in live_rows : InChunk(t)}
           counted == [m \in DOMAIN scan.counted |->
                          IF CountStored(seen, m) > 0 THEN CountStored(seen, m) ELSE scan.counted[m]]
           n == NextChunk("rollups")
<1>d. DOMAIN scan = ScanFields /\ DOMAIN scan.counted = QaBuckets(Minute) BY DEF CoverageSound, ScanShape
<1>2. /\ DOMAIN n = ScanFields
      /\ n.win = scan.win /\ n.src = scan.src /\ n.readable = scan.readable /\ n.skipEvents = scan.skipEvents
      /\ n.skipRollups = scan.skipRollups /\ n.counted = scan.counted /\ n.keys = scan.keys
      /\ \/ n.cursor = ChunkEnd /\ n.at = "events" /\ ChunkEnd < scan.win[2]
         \/ n.cursor = scan.win[1] /\ n.at = "rollups" /\ ~ (ChunkEnd < scan.win[2])
    BY <1>1, <1>d, NextChunkIs
<1> HIDE DEF n
<1>3. scan' = [n EXCEPT !.counted = counted] BY <1>2 DEF fetch_event_minute_counts, n
<1> HIDE DEF counted
<1>4. /\ DOMAIN scan' = ScanFields /\ scan'.counted = counted
      /\ scan'.win = scan.win /\ scan'.src = scan.src /\ scan'.readable = scan.readable
         /\ scan'.skipEvents = scan.skipEvents
      /\ scan'.skipRollups = scan.skipRollups /\ scan'.keys = scan.keys
      /\ \/ scan'.cursor = ChunkEnd /\ scan'.at = "events" /\ ChunkEnd < scan.win[2]
         \/ scan'.cursor = scan.win[1] /\ scan'.at = "rollups" /\ ~ (ChunkEnd < scan.win[2])
    BY <1>2, <1>3 DEF ScanFields
<1>5. /\ ChunkEnd \in Nat /\ scan.cursor < ChunkEnd /\ ChunkEnd <= scan.win[2] /\ Aligned(ChunkEnd, Minute)
      /\ scan.cursor \in Nat /\ scan.win[1] \in Nat /\ scan.win[2] \in Nat /\ scan.win[1] < scan.win[2]
    BY <1>1, ChunkIs
<1>6. live_rows \subseteq SourceEvents /\ IsFiniteSet(live_rows) /\ seen \subseteq live_rows
    BY CoverageAssumption, FS_Subset DEF CoverageSound, ScanShape
<1>7. \A m : CountStored(seen, m) \in Nat /\ CountStored(live_rows, m) \in Nat
      /\ CountStored(seen, m) <= CountStored(live_rows, m)
    BY <1>6, CountGrows
<1>8. \A m : CountStored(scan.src, m) \in Nat BY CoverageAssumption, CountGrows DEF CoverageSound, ScanShape
<1>9. \A m \in QaBuckets(Minute) : counted[m]
      = IF CountStored(seen, m) > 0 THEN CountStored(seen, m) ELSE scan.counted[m]
    BY <1>d DEF counted
<1>10. ScanShape'
    <2>1. \A m \in QaBuckets(Minute) : counted[m] \in Nat /\ counted[m] <= CountStored(live_rows, m)
        BY <1>7, <1>9 DEF CoverageSound, ScanShape
    <2>2. DOMAIN counted = QaBuckets(Minute) BY <1>d DEF counted
    <2>3. Aligned(scan.win[1], Minute) BY <1>1, CoverageAssumption DEF ChunksAligned, Minute, CoverageSound, ScanShape
    <2>4. scan'.cursor \in Nat /\ scan.win[1] <= scan'.cursor /\ scan'.cursor < scan.win[2]
          /\ Aligned(scan'.cursor, Minute)
        <3>1. scan.win[1] <= scan.cursor BY <1>1 DEF CoverageSound, ScanShape
        <3> QED BY <1>4, <1>5, <2>3, <3>1
    <2>5. ~ scan'.skipEvents /\ scan'.at \in {"events", "rollups"} BY <1>1, <1>4
    <2> QED BY <1>1, <1>4, <2>1, <2>2, <2>4, <2>5 DEF CoverageSound, ScanShape
<1>11. GapsKnown' BY <1>1, <1>4 DEF CoverageSound, GapsKnown
<1>12. ASSUME NEW m \in MinutesOf(scan.src)
       PROVE  \/ scan'.at = "events" /\ scan'.cursor <= m
              \/ counted[m] >= CountStored(scan.src, m)
              \/ <<"event_minute", m>> \in onceGaps
    <2>0. m \in QaBuckets(Minute) BY DEF MinutesOf, QaBuckets, CoverageSound, ScanShape
    <2>1. /\ m \in Nat /\ scan.win[1] <= m /\ m < scan.win[2]
          /\ \A t \in Nat : floor_time(t, Minute) = m => (InChunk(t) <=> InChunk(m))
        BY <1>1, MinuteWithin
    <2>2. \A t \in live_rows : floor_time(t, Minute) = m => (InChunk(t) <=> InChunk(m))
        BY <1>6, <2>1, CoverageAssumption
    <2>3. CASE InChunk(m)
        <3>1. {t \in seen : floor_time(t, Minute) = m} = {t \in live_rows : floor_time(t, Minute) = m} BY <2>2, <2>3
        <3>2. CountStored(seen, m) = CountStored(live_rows, m) BY <3>1 DEF CountStored
        <3> HIDE DEF seen
        <3>3. CountStored(live_rows, m) >= CountStored(scan.src, m) \/ <<"event_minute", m>> \in onceGaps
            BY DEF CoverageSound, GapsKnown
        <3>4. scan.counted[m] \in Nat BY <2>0 DEF CoverageSound, ScanShape
        <3>5. counted[m] = IF CountStored(seen, m) > 0 THEN CountStored(seen, m) ELSE scan.counted[m] BY <1>9, <2>0
        <3> QED BY <1>7, <1>8, <3>2, <3>3, <3>4, <3>5
    <2>4. CASE ~ InChunk(m)
        <3>1. {t \in seen : floor_time(t, Minute) = m} = {} BY <2>2, <2>4
        <3>2. CountStored(seen, m) = 0 BY <3>1, FS_EmptySet DEF CountStored
        <3>3. counted[m] = scan.counted[m] BY <1>9, <2>0, <3>2
        <3>4. \/ scan.cursor <= m
              \/ scan.counted[m] >= CountStored(scan.src, m)
              \/ <<"event_minute", m>> \in onceGaps
            BY <1>1 DEF CoverageSound, ReadWhole
        <3>5. CASE scan.cursor <= m
            <4>1. ChunkEnd <= m BY <1>5, <2>1, <2>4, <3>5 DEF InChunk
            <4> QED BY <1>4, <1>5, <2>1, <4>1
        <3> QED BY <3>3, <3>4, <3>5
    <2> QED BY <2>3, <2>4
<1>13. ASSUME NEW k \in KeysFor(scan.src), ~ scan.skipRollups
       PROVE  scan'.at = "events" \/ (scan'.at = "rollups" /\ scan'.cursor <= k[2])
    BY <1>1, <1>4, KeyWithin
<1>14. ReadWhole' BY <1>1, <1>4, <1>12, <1>13 DEF ReadWhole
<1>15. IssuesWritten' BY <1>4 DEF IssuesWritten
<1> QED BY <1>10, <1>11, <1>14, <1>15 DEF CoverageSound

\* Reading the buckets that start in a chunk.
LEMMA ChunkOfKeys == CoverageSound /\ ChunksAligned /\ fetch_live_rollup_keys => CoverageSound'
<1> SUFFICES ASSUME CoverageSound, ChunksAligned, fetch_live_rollup_keys PROVE CoverageSound' OBVIOUS
<1>1. UNCHANGED <<live_rows, rolled, issues, onceGaps>> /\ scan.at = "rollups" /\ ~scan.skipRollups
    BY DEF fetch_live_rollup_keys
<1> DEFINE keys == scan.keys \cup {k \in rolled : InChunk(k[2])}
           n == NextChunk("insert")
<1>d. DOMAIN scan = ScanFields BY DEF CoverageSound, ScanShape
<1>2. /\ DOMAIN n = ScanFields
      /\ n.win = scan.win /\ n.src = scan.src /\ n.readable = scan.readable /\ n.skipEvents = scan.skipEvents
      /\ n.skipRollups = scan.skipRollups /\ n.counted = scan.counted /\ n.keys = scan.keys
      /\ \/ n.cursor = ChunkEnd /\ n.at = "rollups" /\ ChunkEnd < scan.win[2]
         \/ n.cursor = scan.win[1] /\ n.at = "insert" /\ ~ (ChunkEnd < scan.win[2])
    BY <1>1, <1>d, NextChunkIs
<1> HIDE DEF n
<1>3. scan' = [n EXCEPT !.keys = keys] BY <1>2 DEF fetch_live_rollup_keys, n
<1> HIDE DEF keys
<1>4. /\ DOMAIN scan' = ScanFields /\ scan'.keys = keys
      /\ scan'.win = scan.win /\ scan'.src = scan.src /\ scan'.readable = scan.readable
         /\ scan'.skipEvents = scan.skipEvents
      /\ scan'.skipRollups = scan.skipRollups /\ scan'.counted = scan.counted
      /\ \/ scan'.cursor = ChunkEnd /\ scan'.at = "rollups" /\ ChunkEnd < scan.win[2]
         \/ scan'.cursor = scan.win[1] /\ scan'.at = "insert" /\ ~ (ChunkEnd < scan.win[2])
    BY <1>2, <1>3 DEF ScanFields
<1>5. /\ ChunkEnd \in Nat /\ scan.cursor < ChunkEnd /\ ChunkEnd <= scan.win[2] /\ Aligned(ChunkEnd, Minute)
      /\ scan.cursor \in Nat /\ scan.win[1] \in Nat /\ scan.win[2] \in Nat /\ scan.win[1] < scan.win[2]
    BY <1>1, ChunkIs
<1>6. ScanShape'
    <2>1. keys \subseteq rolled BY DEF keys, CoverageSound, ScanShape
    <2>2. scan'.at = "rollups" =>
            scan'.cursor \in Nat /\ scan.win[1] <= scan'.cursor /\ scan'.cursor < scan.win[2]
              /\ Aligned(scan'.cursor, Minute)
        <3>1. scan.win[1] <= scan.cursor BY <1>1 DEF CoverageSound, ScanShape
        <3> QED BY <1>4, <1>5, <3>1
    <2>3. scan'.at \in {"rollups", "insert"} BY <1>4
    <2> QED BY <1>1, <1>4, <2>1, <2>2, <2>3 DEF CoverageSound, ScanShape
<1>7. GapsKnown' BY <1>1, <1>4 DEF CoverageSound, GapsKnown
<1>8. ASSUME NEW k \in KeysFor(scan.src)
      PROVE  (scan'.at = "rollups" /\ scan'.cursor <= k[2]) \/ k \in keys \/ k \in onceGaps
    <2>1. k[2] \in Nat /\ k[2] < scan.win[2] BY <1>1, KeyWithin
    <2>2. CASE InChunk(k[2]) BY <2>2 DEF keys, CoverageSound, GapsKnown
    <2>3. CASE ~ InChunk(k[2])
        <3>1. scan.cursor <= k[2] \/ k \in scan.keys \/ k \in onceGaps BY <1>1 DEF CoverageSound, ReadWhole
        <3>2. CASE scan.cursor <= k[2]
            <4>1. ChunkEnd <= k[2] BY <1>5, <2>1, <2>3, <3>2 DEF InChunk
            <4> QED BY <1>4, <1>5, <2>1, <4>1
        <3> QED BY <3>1, <3>2 DEF keys
    <2> QED BY <2>2, <2>3
<1>9. ReadWhole'
    <2>1. scan.skipEvents \/ \A m \in MinutesOf(scan.src) : scan.counted[m] >= CountStored(scan.src, m)
          \/ <<"event_minute", m>> \in onceGaps
        BY <1>1 DEF CoverageSound, ReadWhole
    <2> QED BY <1>1, <1>4, <1>8, <2>1 DEF ReadWhole
<1>10. IssuesWritten' BY <1>4 DEF IssuesWritten
<1> QED BY <1>6, <1>7, <1>9, <1>10 DEF CoverageSound

\* Leaving a phase out, and writing what was found.
LEMMA PhaseSkipped == CoverageSound /\ ChunksAligned /\ SkipPhase => CoverageSound'
<1> SUFFICES ASSUME CoverageSound, ChunksAligned, SkipPhase PROVE CoverageSound' OBVIOUS
<1>1. UNCHANGED <<live_rows, rolled, issues, onceGaps>> BY DEF SkipPhase
<1>d. DOMAIN scan = ScanFields BY DEF CoverageSound, ScanShape
<1>2. CASE scan.at = "events" /\ scan.skipEvents /\ scan' = [scan EXCEPT !.at = "rollups"]
    <2>1. /\ DOMAIN scan' = ScanFields /\ scan'.at = "rollups" /\ scan'.cursor = scan.cursor /\ scan'.keys = scan.keys
          /\ scan'.win = scan.win /\ scan'.src = scan.src /\ scan'.readable = scan.readable
             /\ scan'.skipEvents = scan.skipEvents
          /\ scan'.skipRollups = scan.skipRollups /\ scan'.counted = scan.counted
        BY <1>2, <1>d DEF ScanFields
    <2>2. scan.cursor = scan.win[1] BY <1>2 DEF CoverageSound, ScanShape
    <2>3. \A k \in KeysFor(scan.src) : scan.cursor <= k[2] BY <1>2, <2>2, KeyWithin
    <2>4. ScanShape' BY <1>1, <1>2, <2>1 DEF CoverageSound, ScanShape
    <2>5. GapsKnown' BY <1>1, <2>1 DEF CoverageSound, GapsKnown
    <2>6. ReadWhole' BY <1>1, <1>2, <2>1, <2>3 DEF ReadWhole
    <2>7. IssuesWritten' BY <2>1 DEF IssuesWritten
    <2> QED BY <2>4, <2>5, <2>6, <2>7 DEF CoverageSound
<1>3. CASE scan.at = "rollups" /\ scan.skipRollups /\ scan' = [scan EXCEPT !.at = "insert"]
    <2>1. /\ DOMAIN scan' = ScanFields /\ scan'.at = "insert" /\ scan'.keys = scan.keys
          /\ scan'.win = scan.win /\ scan'.src = scan.src /\ scan'.readable = scan.readable
             /\ scan'.skipEvents = scan.skipEvents
          /\ scan'.skipRollups = scan.skipRollups /\ scan'.counted = scan.counted
        BY <1>3, <1>d DEF ScanFields
    <2>4. ScanShape' BY <1>1, <1>3, <2>1 DEF CoverageSound, ScanShape
    <2>5. GapsKnown' BY <1>1, <2>1 DEF CoverageSound, GapsKnown
    <2>6. ReadWhole' BY <1>1, <1>3, <2>1 DEF CoverageSound, ReadWhole
    <2>7. IssuesWritten' BY <2>1 DEF IssuesWritten
    <2> QED BY <2>4, <2>5, <2>6, <2>7 DEF CoverageSound
<1> QED BY <1>2, <1>3 DEF SkipPhase

\* Writing the issues makes a finished run of it.
LEMMA IssuesInserted == CoverageSound /\ insert_live_issues => CoverageSound'
<1> SUFFICES ASSUME CoverageSound, insert_live_issues PROVE CoverageSound' OBVIOUS
<1>1. /\ UNCHANGED <<live_rows, rolled, onceGaps>> /\ scan.at = "insert" /\ scan' = [scan EXCEPT !.at = "done"]
      /\ issues' = issues \cup build_coverage_issues
    BY DEF insert_live_issues
<1>d. DOMAIN scan = ScanFields BY DEF CoverageSound, ScanShape
<1>2. /\ DOMAIN scan' = ScanFields /\ scan'.at = "done" /\ scan'.keys = scan.keys
      /\ scan'.win = scan.win /\ scan'.src = scan.src /\ scan'.readable = scan.readable
         /\ scan'.skipEvents = scan.skipEvents
      /\ scan'.skipRollups = scan.skipRollups /\ scan'.counted = scan.counted
    BY <1>1, <1>d DEF ScanFields
<1>4. ScanShape' BY <1>1, <1>2 DEF CoverageSound, ScanShape
<1>5. GapsKnown' BY <1>1, <1>2 DEF CoverageSound, GapsKnown
<1>6. ReadWhole' BY <1>1, <1>2 DEF CoverageSound, ReadWhole
<1>7. IssuesWritten' BY <1>1, <1>2 DEF IssuesWritten, build_coverage_issues
<1> QED BY <1>4, <1>5, <1>6, <1>7 DEF CoverageSound

\* Reading in chunks keeps it, whatever else is written meanwhile.
LEMMA CoverageStep == ChunksAligned /\ CoverageSound /\ [CoverageNext]_qvars => CoverageSound'
<1> SUFFICES ASSUME ChunksAligned, CoverageSound, [CoverageNext]_qvars PROVE CoverageSound' OBVIOUS
<1>0. live_rows \subseteq SourceEvents BY DEF CoverageSound, ScanShape
<1>1. CASE StoreEvent BY <1>0, <1>1, TablesGrow DEF StoreEvent
<1>2. CASE RollUp BY <1>0, <1>2, TablesGrow DEF RollUp
<1>3. CASE ScanRaises
    <2>1. (scan = NoScan /\ live_rows \subseteq SourceEvents => CoverageSound)' BY IdleSound, PTL
    <2>2. scan' = NoScan /\ live_rows' = live_rows BY <1>3 DEF ScanRaises
    <2>3. NoScan' = NoScan BY DEF NoScan, QaBuckets
    <2> QED BY <1>0, <2>1, <2>2, <2>3
<1>4. CASE UNCHANGED qvars BY <1>0, <1>4, TablesGrow DEF qvars
<1> QED BY <1>1, <1>2, <1>3, <1>4, ScanBegins, ChunkCounted, ChunkOfKeys, PhaseSkipped, IssuesInserted DEF CoverageNext

\* A finished coverage run that could read its source has an issue for every gap that is still open, and one that
\* skipped no phase none for what was not a gap when it began, whatever is stored meanwhile (live_coverage_qa.py).
THEOREM CoverageIsExact == ASSUME ChunksAligned PROVE CoverageSpec => []IssuesAreTheGaps
<1> QED BY CoverageStarts, CoverageStep, CoverageEnough, PTL DEF CoverageSpec

(***************************************************************************)
(* The two equalisation adapters.  Sums are counted: Units pairs the owner *)
(* of a summand with the numbers up to it, so that a sum over a partition  *)
(* is the size of a disjoint union (SizesAdd).  A table of the native      *)
(* cadence partitions the documents of the window, and aggregation         *)
(* partitions its rows; the sums therefore stay those of the window at     *)
(* every resolution.                                                       *)
(***************************************************************************)

\* A pair counted in a sum.
LEMMA UnitIs == ASSUME NEW S, NEW n PROVE \A p : p \in Units(S, n) <=> \E x \in S : \E i \in 1..n[x] : p = <<x, i>>
BY DEF Units

\* There are finitely many.
LEMMA UnitsFinite ==
    ASSUME NEW S, IsFiniteSet(S), NEW n, \A x \in S : n[x] \in Nat
    PROVE  IsFiniteSet(Units(S, n)) /\ Cardinality(Units(S, n)) \in Nat
<1> DEFINE P == [x \in S |-> {x} \X (1..n[x])]
           F == {{x} \X (1..n[x]) : x \in S}
<1>1. P \in Surjection(S, F) BY DEF Surjection
<1>2. IsFiniteSet(F)
    <2> HIDE DEF P, F
    <2> QED BY <1>1, FS_Surjection
<1>3. \A X \in F : IsFiniteSet(X)
    <2> SUFFICES ASSUME NEW x \in S PROVE IsFiniteSet({x} \X (1..n[x])) OBVIOUS
    <2>1. IsFiniteSet({x}) BY FS_Singleton
    <2>2. IsFiniteSet(1..n[x]) BY FS_Interval
    <2> QED BY <2>1, <2>2, FS_Product
<1>4. Units(S, n) = UNION F BY DEF Units
<1> HIDE DEF F
<1>5. IsFiniteSet(Units(S, n)) BY <1>2, <1>3, <1>4, FS_UNION
<1> QED BY <1>5, FS_CardinalityType

\* The sizes of disjoint sets add up to the size of their union.
LEMMA SizesAdd ==
    ASSUME NEW B, IsFiniteSet(B), NEW X, \A b \in B : IsFiniteSet(X[b]),
           \A b, c \in B : b # c => X[b] \cap X[c] = {},
           NEW n, \A b \in B : n[b] = Cardinality(X[b]),
           NEW U, \A x : x \in U <=> \E b \in B : x \in X[b]
    PROVE  IsFiniteSet(U) /\ Cardinality(Units(B, n)) = Cardinality(U)
<1> DEFINE V == Units(B, n)
           h == [b \in B |-> CHOOSE f : f \in Bijection(1..n[b], X[b])]
           F == [p \in V |-> h[p[1]][p[2]]]
<1>1. \A b \in B : n[b] \in Nat BY FS_CardinalityType
<1>2. ASSUME NEW b \in B PROVE h[b] \in Bijection(1..n[b], X[b])
    <2>1. ExistsBijection(1..n[b], X[b]) BY FS_CardinalityType
    <2> QED BY <2>1 DEF ExistsBijection
<1> HIDE DEF h
<1>4. \A p \in V : p[1] \in B /\ p[2] \in 1..n[p[1]] /\ p = <<p[1], p[2]>> BY UnitIs
<1>5. \A b \in B : \A i \in 1..n[b] : <<b, i>> \in V BY UnitIs
<1> HIDE DEF V
<1>6. \A b \in B : /\ \A i \in 1..n[b] : h[b][i] \in X[b]
                   /\ \A i, k \in 1..n[b] : h[b][i] = h[b][k] => i = k
                   /\ \A x \in X[b] : \E i \in 1..n[b] : h[b][i] = x
    <2> TAKE b \in B
    <2>1. PICK f : f = h[b] OBVIOUS
    <2>2. f \in Injection(1..n[b], X[b]) /\ f \in Surjection(1..n[b], X[b]) BY <1>2, <2>1 DEF Bijection
    <2>3. /\ f \in [1..n[b] -> X[b]] /\ \A i, k \in 1..n[b] : f[i] = f[k] => i = k BY <2>2 DEF Injection, IsInjective
    <2>4. \A x \in X[b] : \E i \in 1..n[b] : f[i] = x BY <2>2 DEF Surjection
    <2> QED BY <2>1, <2>3, <2>4
<1>7. F \in [V -> U]
    <2>1. \A p \in V : h[p[1]][p[2]] \in U BY <1>4, <1>6
    <2> QED BY <2>1
<1>8. ASSUME NEW p \in V, NEW q \in V, F[p] = F[q] PROVE p = q
    <2>1. F[p] = h[p[1]][p[2]] /\ F[q] = h[q[1]][q[2]] OBVIOUS
    <2>2. F[p] \in X[p[1]] /\ F[q] \in X[q[1]] BY <1>4, <1>6, <2>1
    <2>3. p[1] = q[1] BY <1>4, <1>8, <2>2
    <2>4. p[2] = q[2] BY <1>4, <1>6, <1>8, <2>1, <2>3
    <2> QED BY <1>4, <2>3, <2>4
<1>9. ASSUME NEW x \in U PROVE \E p \in V : F[p] = x
    <2>1. PICK b \in B : x \in X[b] OBVIOUS
    <2>2. PICK i \in 1..n[b] : h[b][i] = x BY <1>6, <2>1
    <2>3. <<b, i>> \in V /\ F[<<b, i>>] = x BY <1>5, <2>2
    <2> QED BY <2>3
<1> HIDE DEF F
<1>10. F \in Bijection(V, U) BY <1>7, <1>8, <1>9 DEF Bijection, Injection, Surjection, IsInjective
<1>11. IsFiniteSet(V) BY <1>1, UnitsFinite DEF V
<1>12. ExistsBijection(V, U) BY <1>10 DEF ExistsBijection
<1>13. IsFiniteSet(U) /\ Cardinality(U) = Cardinality(V) BY <1>11, <1>12, FS_Bijection
<1> QED BY <1>13 DEF V

\* Rows of a table: one for each bucket, and its points are observed or a gap.
RowsSound(rows) ==
    /\ IsFiniteSet(rows)
    /\ \A r \in rows : /\ DOMAIN r = {"bucket", "expected", "observed", "gap"}
                       /\ r.bucket \in Nat /\ r.expected \in Nat /\ r.observed \in Nat /\ r.gap \in Nat
                       /\ r.observed + r.gap = r.expected
    /\ \A r, q \in rows : r.bucket = q.bucket => r = q

\* Sums add up as their summands do.
LEMMA SumsAdd == ASSUME NEW rows, RowsSound(rows)
                 PROVE  /\ SumOf(rows, "observed") \in Nat /\ SumOf(rows, "gap") \in Nat
                           /\ SumOf(rows, "expected") \in Nat
                        /\ SumOf(rows, "observed") + SumOf(rows, "gap") = SumOf(rows, "expected")
<1> DEFINE o == [r \in rows |-> r["observed"]]
           g == [r \in rows |-> r["gap"]]
           e == [r \in rows |-> r["expected"]]
           O == Units(rows, o)
           G == Units(rows, g)
           E == Units(rows, e)
           D == {p \in E : p[2] > o[p[1]]}
           f == [p \in G |-> <<p[1], o[p[1]] + p[2]>>]
<1>0. \A r \in rows : o[r] \in Nat /\ g[r] \in Nat /\ e[r] \in Nat /\ o[r] + g[r] = e[r] BY DEF RowsSound
<1>2. /\ SumOf(rows, "observed") = Cardinality(O) /\ SumOf(rows, "gap") = Cardinality(G)
         /\ SumOf(rows, "expected") = Cardinality(E)
    BY DEF SumOf
<1> HIDE DEF o, g, e
<1>1. /\ IsFiniteSet(O) /\ IsFiniteSet(G) /\ IsFiniteSet(E) /\ Cardinality(O) \in Nat /\ Cardinality(G) \in Nat
         /\ Cardinality(E) \in Nat
    BY <1>0, UnitsFinite DEF RowsSound
<1>3. \A p : p \in O <=> \E r \in rows : \E i \in 1..o[r] : p = <<r, i>> BY UnitIs
<1>4. \A p : p \in G <=> \E r \in rows : \E i \in 1..g[r] : p = <<r, i>> BY UnitIs
<1>5. \A p : p \in E <=> \E r \in rows : \E i \in 1..e[r] : p = <<r, i>> BY UnitIs
<1> HIDE DEF O, G, E
<1>6. O \cup D = E /\ O \cap D = {}
    <2>1. ASSUME NEW p \in O PROVE p \in E /\ p \notin D
        <3>1. PICK r \in rows : \E i \in 1..o[r] : p = <<r, i>> BY <1>3
        <3>2. PICK i \in 1..o[r] : p = <<r, i>> BY <3>1
        <3>3. i \in 1..e[r] /\ p[1] = r /\ p[2] = i /\ ~(i > o[r]) BY <1>0, <3>2
        <3> QED BY <1>5, <3>2, <3>3
    <2>2. ASSUME NEW p \in E, p \notin D PROVE p \in O
        <3>1. PICK r \in rows : \E i \in 1..e[r] : p = <<r, i>> BY <1>5
        <3>2. PICK i \in 1..e[r] : p = <<r, i>> BY <3>1
        <3>3. p[1] = r /\ p[2] = i BY <3>2
        <3>4. i \in 1..o[r] BY <1>0, <2>2, <3>2, <3>3
        <3> QED BY <1>3, <3>2, <3>4
    <2> QED BY <2>1, <2>2
<1>7. f \in Bijection(G, D)
    <2>1. ASSUME NEW p \in G PROVE f[p] \in D /\ p[1] \in rows /\ p[2] \in Nat /\ p = <<p[1], p[2]>>
        <3>1. PICK r \in rows : \E i \in 1..g[r] : p = <<r, i>> BY <1>4
        <3>2. PICK i \in 1..g[r] : p = <<r, i>> BY <3>1
        <3>3. p[1] = r /\ p[2] = i BY <3>2
        <3>4. f[p] = <<r, o[r] + i>> BY <3>3
        <3>5. o[r] + i \in 1..e[r] /\ o[r] + i > o[r] BY <1>0
        <3>6. f[p] \in E /\ f[p][1] = r /\ f[p][2] = o[r] + i BY <1>5, <3>4, <3>5
        <3> HIDE DEF f
        <3> QED BY <1>0, <3>2, <3>3, <3>5, <3>6
    <2>2. ASSUME NEW p \in G, NEW q \in G, f[p] = f[q] PROVE p = q
        <3>1. p[1] \in rows /\ q[1] \in rows /\ p[2] \in Nat /\ q[2] \in Nat /\ p = <<p[1], p[2]>> /\ q = <<q[1], q[2]>>
            BY <2>1
        <3>2. <<p[1], o[p[1]] + p[2]>> = <<q[1], o[q[1]] + q[2]>> BY <2>2
        <3>3. p[1] = q[1] /\ o[p[1]] + p[2] = o[q[1]] + q[2] BY <3>2
        <3>4. p[2] = q[2] BY <1>0, <3>1, <3>3
        <3> QED BY <3>1, <3>3, <3>4
    <2>3. ASSUME NEW x \in D PROVE \E p \in G : f[p] = x
        <3>1. PICK r \in rows : \E i \in 1..e[r] : x = <<r, i>> BY <1>5
        <3>2. PICK i \in 1..e[r] : x = <<r, i>> BY <3>1
        <3>3. i > o[r] BY <3>2
        <3>4. i - o[r] \in 1..g[r] BY <1>0, <3>2, <3>3
        <3>5. PICK k \in 1..g[r] : i = o[r] + k BY <1>0, <3>2, <3>4
        <3>6. <<r, k>> \in G BY <1>4, <3>5
        <3>7. f[<<r, k>>] = <<r, o[r] + k>> BY <3>6
        <3> QED BY <3>2, <3>5, <3>6, <3>7
    <2>4. f \in [G -> D] BY <2>1
    <2> HIDE DEF f, D
    <2> QED BY <2>2, <2>3, <2>4 DEF Bijection, Injection, Surjection, IsInjective
<1> HIDE DEF f, D
<1>8. IsFiniteSet(D) /\ Cardinality(D) = Cardinality(G) BY <1>1, <1>7, FS_Bijection DEF ExistsBijection
<1>9. Cardinality(E) = Cardinality(O) + Cardinality(D) - Cardinality({}) BY <1>1, <1>6, <1>8, FS_Union
<1>10. Cardinality(O) \in Nat /\ Cardinality(D) \in Nat /\ Cardinality({}) = 0
    BY <1>1, <1>8, FS_CardinalityType, FS_EmptySet
<1> QED BY <1>1, <1>2, <1>8, <1>9, <1>10

\* The remainder is zero for multiples only.
LEMMA MultipleIs == ASSUME NEW t \in Nat, NEW m \in Nat \ {0} PROVE t % m = 0 <=> Aligned(t, m)
<1>1. t = (t \div m) * m + (t % m) /\ t \div m \in Nat /\ t % m \in 0..(m - 1)
    <2>1. t = m * (t \div m) + (t % m) OBVIOUS
    <2>2. t \div m \in Nat /\ t % m \in 0..(m - 1) OBVIOUS
    <2>3. \A q \in Nat : m * q = q * m OBVIOUS
    <2> QED BY <2>1, <2>2, <2>3
<1>2. t % m = 0 => Aligned(t, m) BY <1>1 DEF Aligned
<1>3. ASSUME NEW k \in Nat, t = k * m PROVE t % m = 0
    <2> DEFINE q == t \div m
               r == t % m
    <2>1. t = q * m + r /\ q \in Nat /\ r \in 0..(m - 1) BY <1>1
    <2> HIDE DEF q, r
    <2>0. k * m \in Nat BY Products
    <2> SUFFICES r = 0 BY DEF r
    <2>2. CASE k = q BY <1>3, <2>0, <2>1, <2>2
    <2>3. CASE k <= q /\ k # q
        <3>1. k + 1 <= q /\ k + 1 \in Nat BY <2>1, <2>3
        <3>2. (k + 1) * m <= q * m BY <2>1, <3>1, Products
        <3>3. (k + 1) * m = k * m + m OBVIOUS
        <3> QED BY <1>3, <2>1, <3>2, <3>3
    <2>4. CASE q <= k /\ k # q
        <3>1. q + 1 <= k /\ q + 1 \in Nat BY <2>1, <2>4
        <3>2. (q + 1) * m <= k * m BY <2>1, <3>1, Products
        <3>3. (q + 1) * m = q * m + m BY <2>1
        <3>4. q * m \in Nat BY <2>1, Products
        <3> QED BY <1>3, <2>1, <3>2, <3>3, <3>4
    <2>5. k = q \/ (k <= q /\ k # q) \/ (q <= k /\ k # q) BY <2>1
    <2> QED BY <2>2, <2>3, <2>4, <2>5
<1> QED BY <1>2, <1>3 DEF Aligned

\* Multiples differ by a multiple.
LEMMA AlignedDifference ==
    ASSUME NEW width \in Nat \ {0}, NEW a \in Nat, NEW b \in Nat, Aligned(a, width), Aligned(b, width), b <= a
    PROVE  Aligned(a - b, width)
<1>1. PICK i \in Nat : a = i * width BY DEF Aligned
<1>2. PICK j \in Nat : b = j * width BY DEF Aligned
<1>3. j <= i
    <2> SUFFICES ASSUME i + 1 <= j PROVE FALSE OBVIOUS
    <2>1. (i + 1) * width <= j * width /\ i * width \in Nat BY Products
    <2>2. (i + 1) * width = i * width + width OBVIOUS
    <2> QED BY <1>1, <1>2, <2>1, <2>2
<1>4. i - j \in Nat /\ (i - j) * width = i * width - j * width BY <1>3
<1> QED BY <1>1, <1>2, <1>4 DEF Aligned

\* A multiple of a multiple is one.
LEMMA AlignedThrough ==
    ASSUME NEW a \in Nat, NEW b \in Nat, NEW c \in Nat, Aligned(a, b), Aligned(b, c) PROVE Aligned(a, c)
<1>1. PICK i \in Nat : a = i * b BY DEF Aligned
<1>2. PICK j \in Nat : b = j * c BY DEF Aligned
<1>3. i * j \in Nat /\ a = (i * j) * c BY <1>1, <1>2
<1> QED BY <1>3 DEF Aligned

\* bucket_start is the last multiple that is not after the tick.
LEMMA BucketIs ==
    ASSUME NEW t \in Nat, NEW m \in Nat \ {0}
    PROVE  /\ bucket_start(t, m) \in Nat /\ bucket_start(t, m) <= t /\ t < bucket_start(t, m) + m
              /\ Aligned(bucket_start(t, m), m)
           /\ \A a \in Nat : Aligned(a, m) => (a <= t <=> a <= bucket_start(t, m))
           /\ Aligned(t, m) => bucket_start(t, m) = t
<1>1. bucket_start(t, m) = floor_time(t, m) BY DEF bucket_start, floor_time
<1>2. /\ floor_time(t, m) \in Nat /\ floor_time(t, m) <= t /\ t < floor_time(t, m) + m /\ Aligned(floor_time(t, m), m)
    BY FloorOf
<1>3. \A a \in Nat : Aligned(a, m) => (a <= t <=> a <= floor_time(t, m)) BY SameSide
<1>4. Aligned(t, m) => t <= floor_time(t, m) BY <1>3
<1> QED BY <1>1, <1>2, <1>3, <1>4

\* The resolutions nest, a tick is a minute, and windows start on the hour.
GrainsNest ==
    /\ Grain["1min"] = 1
    /\ Aligned(Grain["1h"], Grain["15min"]) /\ Aligned(Grain["1h"], Grain["5min"])
    /\ \A w \in EqWindows : Aligned(w[1], Grain["1h"])

\* Every resolution divides the hour, and a window starts on one of its buckets.
LEMMA GrainsAre ==
    ASSUME GrainsNest, NEW g \in Resolutions4
    PROVE  /\ Grain[g] \in Nat \ {0} /\ Aligned(Grain["1h"], Grain[g])
           /\ \A w \in EqWindows : w[1] \in Nat /\ w[2] \in Nat /\ w[1] < w[2] /\ Aligned(w[1], Grain[g])
<1>1. \A x \in Resolutions4 : Grain[x] \in Nat \ {0} BY EqualizationAssumption
<1>2. {"1min", "5min", "15min", "1h"} = Resolutions4 BY DEF Resolutions4
<1>3. Aligned(Grain["1h"], 1) /\ Aligned(Grain["1h"], Grain["1h"])
    <2>1. Grain["1h"] = Grain["1h"] * 1 /\ Grain["1h"] = 1 * Grain["1h"] /\ Grain["1h"] \in Nat BY <1>1, <1>2
    <2> QED BY <2>1 DEF Aligned
<1>4. Aligned(Grain["1h"], Grain[g]) BY <1>2, <1>3 DEF GrainsNest
<1>5. Grain["1h"] \in Nat /\ Grain[g] \in Nat BY <1>1, <1>2
<1>6. \A w \in EqWindows : w[1] \in Nat /\ w[2] \in Nat /\ w[1] < w[2] BY EqualizationAssumption
<1>7. \A w \in EqWindows : Aligned(w[1], Grain[g]) BY <1>4, <1>5, <1>6, AlignedThrough DEF GrainsNest
<1> QED BY <1>1, <1>4, <1>6, <1>7

\* The rows of a table are those of the multiples of m in the window.
BucketsAre(rows, w, m) == \A t : (\E r \in rows : r.bucket = t) <=> t \in InWindow(w) /\ Aligned(t, m)

\* A row has what it was built of, and a gap up to what it expects.
LEMMA RowIs == ASSUME NEW b, NEW e \in Nat, NEW o \in Nat
               PROVE  /\ DOMAIN Row(b, e, o) = {"bucket", "expected", "observed", "gap"}
                      /\ Row(b, e, o).bucket = b /\ Row(b, e, o).expected = e /\ Row(b, e, o).observed = o
                         /\ Row(b, e, o).gap \in Nat
                      /\ o <= e => Row(b, e, o).observed + Row(b, e, o).gap = e
BY DEF Row

\* A tick has some number of documents.
LEMMA PointsAre == ASSUME NEW s \in Streams, NEW t PROVE Points(s, t) \in Nat
BY EqualizationAssumption DEF Points

\* The pairs that PointsIn counts.
PointUnits(s, T) == Units(T, [t \in T |-> Points(s, t)])

\* A document, by its tick and its place there.
LEMMA PointUnitIs == ASSUME NEW s, NEW T
                     PROVE  /\ PointsIn(s, T) = Cardinality(PointUnits(s, T))
                            /\ \A p : p \in PointUnits(s, T) <=> \E t \in T : \E i \in 1..Points(s, t) : p = <<t, i>>
<1>1. PointsIn(s, T) = Cardinality(PointUnits(s, T)) BY DEF PointsIn, PointUnits
<1> DEFINE n == [t \in T |-> Points(s, t)]
<1>2. \A p : p \in Units(T, n) <=> \E t \in T : \E i \in 1..n[t] : p = <<t, i>>
    <2> HIDE DEF n
    <2> QED BY UnitIs
<1>3. \A t \in T : n[t] = Points(s, t) OBVIOUS
<1> QED BY <1>1, <1>2, <1>3 DEF PointUnits

\* There are finitely many.
LEMMA PointUnitsFinite == ASSUME NEW s \in Streams, NEW T, IsFiniteSet(T)
                          PROVE  IsFiniteSet(PointUnits(s, T)) /\ PointsIn(s, T) \in Nat
<1> DEFINE n == [t \in T |-> Points(s, t)]
<1>1. \A t \in T : n[t] \in Nat BY PointsAre
<1> HIDE DEF n
<1>2. IsFiniteSet(Units(T, n)) /\ Cardinality(Units(T, n)) \in Nat BY <1>1, UnitsFinite
<1> QED BY <1>2 DEF n, PointUnits, PointsIn

\* A window has finitely many ticks.
LEMMA WindowFinite == ASSUME NEW w \in EqWindows
                      PROVE IsFiniteSet(InWindow(w)) /\ InWindow(w) \subseteq Nat /\ w[1] \in Nat /\ w[2] \in Nat
                            /\ w[1] < w[2]
<1>1. w[1] \in Nat /\ w[2] \in Nat /\ w[1] < w[2] BY EqualizationAssumption
<1>2. w[1] \in Int /\ w[2] - 1 \in Int BY <1>1
<1>3. IsFiniteSet(w[1]..(w[2] - 1)) BY <1>2, FS_Interval
<1>4. w[1]..(w[2] - 1) \subseteq Nat BY <1>1
<1> QED BY <1>1, <1>3, <1>4 DEF InWindow

\* A whole number of cadences make a bucket.
LEMMA CadenceIs ==
    ASSUME GrainsNest, NEW native \in Natives, Divides(native)
    PROVE  /\ target_grain(native) \in Resolutions4 /\ Cadence(native) \in Nat \ {0}
           /\ expected_points_per_bucket(native) \in Nat
           /\ Grain[target_grain(native)] = expected_points_per_bucket(native) * Cadence(native)
<1> DEFINE c == Cadence(native)
           step == Grain[target_grain(native)]
<1>1. target_grain(native) \in Resolutions4
    <2>1. target_grain(native) \in {"1min", "15min", "1h"} BY DEF target_grain
    <2> QED BY <2>1 DEF Resolutions4
<1>2. c \in Nat \ {0} BY EqualizationAssumption DEF Cadence, GrainsNest
<1>3. step \in Nat \ {0} BY <1>1, GrainsAre
<1>4. expected_points_per_bucket(native) = step \div c /\ step % c = 0 BY DEF expected_points_per_bucket, Divides
<1> HIDE DEF c, step
<1>5. step = c * (step \div c) + (step % c) /\ step \div c \in Nat BY <1>2, <1>3
<1>6. \A q \in Nat : c * q + 0 = q * c BY <1>2
<1>7. step = (step \div c) * c BY <1>4, <1>5, <1>6
<1> QED BY <1>1, <1>2, <1>4, <1>5, <1>7 DEF c, step

\* No bucket holds more documents than its cadence allows: no two share a tick, and each is on a multiple of the
\* cadence.
LEMMA BucketHolds ==
    ASSUME GrainsNest, NEW s \in Streams, NEW w \in EqWindows, NEW native \in Natives, Divides(native),
           validate_timestamp_quality(s, w, native), NEW b \in Nat, Aligned(b, Grain[target_grain(native)]),
           NEW T \in SUBSET InWindow(w), \A t \in T : bucket_start(t, Grain[target_grain(native)]) = b
    PROVE  PointsIn(s, T) \in Nat /\ PointsIn(s, T) <= expected_points_per_bucket(native)
<1> DEFINE c == Cadence(native)
           step == Grain[target_grain(native)]
           e == expected_points_per_bucket(native)
<1>1. target_grain(native) \in Resolutions4 /\ c \in Nat \ {0} /\ e \in Nat /\ step = e * c BY CadenceIs
<1>2. step \in Nat \ {0} BY <1>1, GrainsAre
<1>3. ASSUME NEW t \in Present(s, w) PROVE Points(s, t) = 1 /\ Aligned(t, c)
    <2>1. Points(s, t) = 1 BY DEF validate_timestamp_quality, check_duplicates
    <2>2. t \in Nat BY WindowFinite DEF Present
    <2>3. CASE native = 0
        <3>1. c = 1 BY <2>3 DEF Cadence, GrainsNest
        <3>2. t = t * 1 BY <2>2
        <3> QED BY <2>1, <2>2, <3>1, <3>2 DEF Aligned
    <2>4. CASE native # 0
        <3>1. c = native /\ t % native = 0 BY <2>4 DEF Cadence, validate_timestamp_quality, check_boundary
        <3> QED BY <1>1, <2>1, <2>2, <3>1, MultipleIs
    <2> QED BY <2>3, <2>4
<1>4. IsFiniteSet(T) BY WindowFinite, FS_Subset
<1>5. IsFiniteSet(PointUnits(s, T)) /\ PointsIn(s, T) \in Nat /\ PointsIn(s, T) = Cardinality(PointUnits(s, T))
    BY <1>4, PointUnitsFinite, PointUnitIs
<1>6. Aligned(b, c) 
    <2>1. Aligned(step, c) BY <1>1 DEF Aligned
    <2> QED BY <1>1, <1>2, <2>1, AlignedThrough
<1>7. ASSUME NEW t \in T PROVE t \in Nat /\ b <= t /\ t < b + step
    <2>1. t \in Nat BY WindowFinite
    <2> HIDE DEF step
    <2>2. bucket_start(t, step) = b BY DEF step
    <2> QED BY <1>2, <2>1, <2>2, BucketIs
<1> HIDE DEF c, step, e
<1>8. PICK m \in Nat : b = m * c BY <1>6 DEF Aligned
<1> DEFINE f == [k \in m..(m + e - 1) |-> <<k * c, 1>>]
           I == {<<k * c, 1>> : k \in m..(m + e - 1)}
<1>9. f \in Surjection(m..(m + e - 1), I) BY DEF Surjection
<1>10. PointUnits(s, T) \subseteq I
    <2> SUFFICES ASSUME NEW p \in PointUnits(s, T) PROVE p \in I OBVIOUS
    <2>1. PICK t \in T : \E i \in 1..Points(s, t) : p = <<t, i>> BY PointUnitIs
    <2>2. PICK i \in 1..Points(s, t) : p = <<t, i>> BY <2>1
    <2>3. Points(s, t) \in Nat BY PointsAre
    <2>4. t \in Present(s, w) BY <2>2, <2>3 DEF Present
    <2>5. i = 1 /\ Aligned(t, c) BY <1>3, <2>2, <2>4
    <2>6. PICK k \in Nat : t = k * c BY <2>5 DEF Aligned
    <2>7. m <= k
        <3> SUFFICES ASSUME k + 1 <= m PROVE FALSE BY <1>8, <2>6
        <3>1. (k + 1) * c <= m * c /\ k * c \in Nat BY <1>1, <1>8, <2>6, Products
        <3>2. (k + 1) * c = k * c + c BY <1>1
        <3> QED BY <1>1, <1>7, <1>8, <2>6, <3>1, <3>2
    <2>8. k < m + e
        <3> SUFFICES ASSUME m + e <= k PROVE FALSE BY <1>1, <1>8, <2>6
        <3>1. (m + e) * c <= k * c BY <1>1, <1>8, <2>6, Products
        <3>2. (m + e) * c = m * c + e * c BY <1>1, <1>8
        <3>3. m * c \in Nat /\ e * c \in Nat BY <1>1, <1>8, Products
        <3> QED BY <1>1, <1>7, <1>8, <2>6, <3>1, <3>2, <3>3
    <2>9. k \in m..(m + e - 1) BY <1>1, <1>8, <2>6, <2>7, <2>8
    <2> QED BY <2>2, <2>5, <2>6, <2>9
<1> HIDE DEF f, I
<1>11. IsFiniteSet(m..(m + e - 1)) /\ Cardinality(m..(m + e - 1)) <= e /\ Cardinality(m..(m + e - 1)) \in Nat
    <2>1. m \in Int /\ m + e - 1 \in Int BY <1>1, <1>8
    <2>2. PICK z \in Int : z = m + e - 1 BY <2>1
    <2>3. IsFiniteSet(m..z) /\ Cardinality(m..z) = IF m > z THEN 0 ELSE z - m + 1 BY <2>1, FS_Interval
    <2> DEFINE n == Cardinality(m..z)
    <2>4. n = IF m > z THEN 0 ELSE z - m + 1 BY <2>3
    <2> HIDE DEF n
    <2>5. n <= e /\ n \in Nat BY <1>1, <1>8, <2>2, <2>4
    <2> QED BY <2>2, <2>3, <2>5 DEF n
<1>12. IsFiniteSet(I) /\ Cardinality(I) <= Cardinality(m..(m + e - 1)) /\ Cardinality(I) \in Nat
    BY <1>9, <1>11, FS_Surjection, FS_CardinalityType
<1>13. Cardinality(PointUnits(s, T)) <= Cardinality(I) BY <1>10, <1>12, FS_Subset
<1> QED BY <1>1, <1>5, <1>11, <1>12, <1>13 DEF e

\* The steps of a window that starts on one are the multiples of the step in it.
LEMMA StepsAre ==
    ASSUME NEW w \in EqWindows, NEW m \in Nat \ {0}, Aligned(w[1], m), NEW t \in InWindow(w)
    PROVE  (t - w[1]) % m = 0 <=> Aligned(t, m)
<1>1. w[1] \in Nat /\ t \in Nat /\ w[1] <= t BY WindowFinite DEF InWindow
<1>2. PICK d \in Nat : d = t - w[1] /\ t = w[1] + d BY <1>1
<1>3. d % m = 0 <=> Aligned(d, m) BY MultipleIs
<1>4. Aligned(d, m) => Aligned(t, m) BY <1>1, <1>2, AlignedSum
<1>5. Aligned(t, m) => Aligned(d, m) BY <1>1, <1>2, AlignedDifference
<1> QED BY <1>2, <1>3, <1>4, <1>5

\* The bucket of a tick of the window starts in the window.
LEMMA BucketInWindow ==
    ASSUME NEW w \in EqWindows, NEW m \in Nat \ {0}, Aligned(w[1], m), NEW t \in InWindow(w)
    PROVE  bucket_start(t, m) \in InWindow(w) /\ Aligned(bucket_start(t, m), m)
<1>1. w[1] \in Nat /\ w[2] \in Nat /\ t \in Nat /\ w[1] <= t /\ t <= w[2] - 1 BY WindowFinite DEF InWindow
<1>2. /\ bucket_start(t, m) \in Nat /\ bucket_start(t, m) <= t /\ Aligned(bucket_start(t, m), m)
      /\ w[1] <= bucket_start(t, m) BY <1>1, BucketIs
<1> QED BY <1>1, <1>2 DEF InWindow

\* The rows of the native cadence: one for each bucket of the window, with its documents.
LEMMA BaseRows ==
    ASSUME GrainsNest, NEW s \in Streams, NEW w \in EqWindows, NEW native \in Natives, Divides(native),
           validate_timestamp_quality(s, w, native), Present(s, w) # {}
    PROVE  /\ RowsSound(equalize_series(s, w, native))
           /\ BucketsAre(equalize_series(s, w, native), w, Grain[target_grain(native)])
           /\ SumOf(equalize_series(s, w, native), "observed") = PointsIn(s, InWindow(w))
<1> DEFINE step == Grain[target_grain(native)]
           e == expected_points_per_bucket(native)
           T == {t \in InWindow(w) : (t - w[1]) % step = 0}
           TicksOf(b) == {t \in InWindow(w) : bucket_start(t, step) = b}
           R == equalize_series(s, w, native)
           o == [r \in R |-> r["observed"]]
           X == [r \in R |-> PointUnits(s, TicksOf(r.bucket))]
           U == PointUnits(s, InWindow(w))
           f == [b \in T |-> Row(b, e, PointsIn(s, TicksOf(b)))]
<1>1. target_grain(native) \in Resolutions4 /\ e \in Nat BY CadenceIs
<1>2. step \in Nat \ {0} /\ Aligned(w[1], step) BY <1>1, GrainsAre
<1>3. R = {Row(b, e, PointsIn(s, TicksOf(b))) : b \in T} BY DEF equalize_series
<1>4. f \in Surjection(T, R) BY <1>3 DEF Surjection
<1>5. \A b : b \in T <=> b \in InWindow(w) /\ Aligned(b, step) BY <1>2, StepsAre
<1>6. \A b : \A t : t \in TicksOf(b) <=> t \in InWindow(w) /\ bucket_start(t, step) = b OBVIOUS
<1>7. \A b \in T : PointsIn(s, TicksOf(b)) \in Nat /\ PointsIn(s, TicksOf(b)) <= e
    <2> SUFFICES ASSUME NEW b \in T PROVE PointsIn(s, TicksOf(b)) \in Nat /\ PointsIn(s, TicksOf(b)) <= e OBVIOUS
    <2>1. b \in Nat /\ Aligned(b, step) BY <1>5, WindowFinite
    <2>2. PICK Ticks : Ticks = TicksOf(b) OBVIOUS
    <2>3. Ticks \in SUBSET InWindow(w) /\ \A t \in Ticks : bucket_start(t, step) = b BY <2>2
    <2>4. PointsIn(s, Ticks) \in Nat /\ PointsIn(s, Ticks) <= e BY <2>1, <2>3, BucketHolds
    <2> QED BY <2>2, <2>4
<1>8. \A r \in R : r.bucket \in T /\ r = Row(r.bucket, e, PointsIn(s, TicksOf(r.bucket)))
    <2> SUFFICES ASSUME NEW r \in R PROVE r.bucket \in T /\ r = Row(r.bucket, e, PointsIn(s, TicksOf(r.bucket))) OBVIOUS
    <2>1. PICK b \in T : r = Row(b, e, PointsIn(s, TicksOf(b))) BY <1>3
    <2>2. r.bucket = b BY <1>1, <1>7, <2>1, RowIs
    <2> HIDE DEF T, R, TicksOf
    <2> QED BY <2>1, <2>2
<1>9. \A b \in T : Row(b, e, PointsIn(s, TicksOf(b))) \in R BY <1>3
<1> HIDE DEF step, e, T, TicksOf, R
<1>10. \A r \in R : /\ r.bucket \in T /\ DOMAIN r = {"bucket", "expected", "observed", "gap"}
                    /\ r.expected = e /\ r.observed = PointsIn(s, TicksOf(r.bucket)) /\ r.observed \in Nat
                       /\ r.gap \in Nat
                    /\ r.observed + r.gap = r.expected
    <2> SUFFICES ASSUME NEW r \in R
                 PROVE  /\ r.bucket \in T /\ DOMAIN r = {"bucket", "expected", "observed", "gap"}
                        /\ r.expected = e /\ r.observed = PointsIn(s, TicksOf(r.bucket)) /\ r.observed \in Nat
                           /\ r.gap \in Nat
                        /\ r.observed + r.gap = r.expected OBVIOUS
    <2>1. PICK b \in T : b = r.bucket /\ r = Row(b, e, PointsIn(s, TicksOf(b))) BY <1>8
    <2>2. PICK k \in Nat : k = PointsIn(s, TicksOf(b)) /\ k <= e BY <1>7, <2>1
    <2>3. r = Row(b, e, k) BY <2>1, <2>2
    <2>4. /\ DOMAIN r = {"bucket", "expected", "observed", "gap"} /\ r.expected = e /\ r.observed = k /\ r.gap \in Nat
          /\ r.observed + r.gap = e
        BY <1>1, <2>2, <2>3, RowIs
    <2> QED BY <2>1, <2>2, <2>4
<1>11. IsFiniteSet(T) BY <1>5, WindowFinite, FS_Subset
<1>12. IsFiniteSet(R)
    <2> HIDE DEF f
    <2> QED BY <1>4, <1>11, FS_Surjection
<1>13. RowsSound(R)
    <2>1. \A r \in R : r.bucket \in Nat /\ r.expected \in Nat BY <1>1, <1>5, <1>10, WindowFinite
    <2>2. \A r, q \in R : r.bucket = q.bucket => r = q BY <1>8
    <2> QED BY <1>10, <1>12, <2>1, <2>2 DEF RowsSound
<1>14. BucketsAre(R, w, step)
    <2>1. ASSUME NEW t \in T PROVE \E r \in R : r.bucket = t
        <3>1. Row(t, e, PointsIn(s, TicksOf(t))).bucket = t BY <1>1, <1>7, RowIs
        <3> QED BY <1>9, <3>1
    <2> QED BY <1>5, <1>10, <2>1 DEF BucketsAre
<1>15. \A b : IsFiniteSet(PointUnits(s, TicksOf(b))) /\ Cardinality(PointUnits(s, TicksOf(b))) = PointsIn(s, TicksOf(b))
    <2> TAKE b
    <2>1. TicksOf(b) \subseteq InWindow(w) BY <1>6
    <2>2. IsFiniteSet(TicksOf(b)) BY <2>1, WindowFinite, FS_Subset
    <2> QED BY <2>2, PointUnitsFinite, PointUnitIs
<1>16. \A b : \A p : p \in PointUnits(s, TicksOf(b)) <=> \E t \in TicksOf(b) : \E i \in 1..Points(s, t) : p = <<t, i>>
    BY PointUnitIs
<1>17. \A p : p \in U <=> \E t \in InWindow(w) : \E i \in 1..Points(s, t) : p = <<t, i>> BY PointUnitIs
<1>18. \A r \in R : X[r] = PointUnits(s, TicksOf(r.bucket)) /\ o[r] = r["observed"] OBVIOUS
<1>19. SumOf(R, "observed") = Cardinality(Units(R, o)) BY DEF SumOf
<1> HIDE DEF X, U, o
<1>20. \A r \in R : IsFiniteSet(X[r]) /\ o[r] = Cardinality(X[r])
    <2> TAKE r \in R
    <2>1. r["observed"] = r.observed OBVIOUS
    <2> QED BY <1>10, <1>15, <1>18, <2>1
<1>21. ASSUME NEW r \in R, NEW q \in R, r # q PROVE X[r] \cap X[q] = {}
    <2> SUFFICES ASSUME NEW p, p \in X[r], p \in X[q] PROVE FALSE OBVIOUS
    <2>1. PICK t \in TicksOf(r.bucket) : \E i \in 1..Points(s, t) : p = <<t, i>> BY <1>16, <1>18
    <2>2. PICK u \in TicksOf(q.bucket) : \E i \in 1..Points(s, u) : p = <<u, i>> BY <1>16, <1>18
    <2>3. t = u BY <2>1, <2>2
    <2>4. r.bucket = q.bucket BY <1>6, <2>1, <2>2, <2>3
    <2> QED BY <1>8, <1>21, <2>4
<1>22. ASSUME NEW p PROVE p \in U <=> \E r \in R : p \in X[r]
    <2>1. ASSUME p \in U PROVE \E r \in R : p \in X[r]
        <3>1. PICK t \in InWindow(w) : \E i \in 1..Points(s, t) : p = <<t, i>> BY <1>17, <2>1
        <3>2. bucket_start(t, step) \in T BY <1>2, <1>5, <3>1, BucketInWindow
        <3>3. PICK r \in R : r.bucket = bucket_start(t, step) BY <1>5, <1>14, <3>2 DEF BucketsAre
        <3>4. t \in TicksOf(r.bucket) BY <1>6, <3>1, <3>3
        <3> QED BY <1>16, <1>18, <3>1, <3>3, <3>4
    <2>2. ASSUME NEW r \in R, p \in X[r] PROVE p \in U BY <1>6, <1>16, <1>17, <1>18, <2>2
    <2> QED BY <2>1, <2>2
<1>23. Cardinality(Units(R, o)) = Cardinality(U) BY <1>12, <1>20, <1>21, <1>22, SizesAdd
<1>24. PointsIn(s, InWindow(w)) = Cardinality(U) BY PointUnitIs DEF U
<1> QED BY <1>13, <1>14, <1>19, <1>23, <1>24 DEF R, step

\* Some of the rows of a table.
LEMMA SomeRowsSound == ASSUME NEW rows, RowsSound(rows), NEW part \in SUBSET rows PROVE RowsSound(part)
<1>1. IsFiniteSet(part) BY FS_Subset DEF RowsSound
<1> QED BY <1>1 DEF RowsSound

\* Aggregation keeps the sums, and its rows are those of the coarser buckets.
LEMMA AggregatedRows ==
    ASSUME NEW rows, RowsSound(rows), NEW w \in EqWindows, NEW step \in Nat \ {0}, BucketsAre(rows, w, step),
           NEW m \in Nat \ {0}, Aligned(m, step), Aligned(w[1], m)
    PROVE  /\ RowsSound(aggregate_observed_rows(rows, m))
           /\ BucketsAre(aggregate_observed_rows(rows, m), w, m)
           /\ SumOf(aggregate_observed_rows(rows, m), "observed") = SumOf(rows, "observed")
<1> DEFINE Part(b) == {r \in rows : bucket_start(r.bucket, m) = b}
           B == {bucket_start(r.bucket, m) : r \in rows}
           Rec(b) == [bucket |-> b, expected |-> SumOf(Part(b), "expected"),
                      observed |-> SumOf(Part(b), "observed"), gap |-> SumOf(Part(b), "gap")]
           A == aggregate_observed_rows(rows, m)
           of == [r \in rows |-> r["observed"]]
           o == [q \in A |-> q["observed"]]
           X == [q \in A |-> Units(Part(q.bucket), [r \in Part(q.bucket) |-> r["observed"]])]
           U == Units(rows, of)
           f == [b \in B |-> Rec(b)]
           g == [r \in rows |-> bucket_start(r.bucket, m)]
<1>1. A = {Rec(b) : b \in B} BY DEF aggregate_observed_rows
<1>2. f \in Surjection(B, A) BY <1>1 DEF Surjection
<1>3. g \in Surjection(rows, B) BY DEF Surjection
<1>4. \A b : \A r : r \in Part(b) <=> r \in rows /\ bucket_start(r.bucket, m) = b OBVIOUS
<1>5. \A b : b \in B <=> \E r \in rows : b = bucket_start(r.bucket, m) OBVIOUS
<1>6. /\ \A q \in A : /\ q.bucket \in B /\ q = Rec(q.bucket) /\ DOMAIN q = {"bucket", "expected", "observed", "gap"}
                      /\ q.expected = SumOf(Part(q.bucket), "expected")
                         /\ q.observed = SumOf(Part(q.bucket), "observed")
                      /\ q.gap = SumOf(Part(q.bucket), "gap")
      /\ \A b \in B : Rec(b) \in A /\ Rec(b).bucket = b
    <2> HIDE DEF A, B, Part
    <2> QED BY <1>1
<1>7. \A r \in rows : r.bucket \in InWindow(w) /\ r.bucket \in Nat BY WindowFinite DEF BucketsAre, RowsSound
<1> HIDE DEF Part, B, A, Rec
<1>8. \A b \in B : b \in InWindow(w) /\ Aligned(b, m) /\ b \in Nat
    <2> TAKE b \in B
    <2>1. PICK r \in rows : b = bucket_start(r.bucket, m) BY <1>5
    <2> QED BY <1>7, <2>1, BucketInWindow, WindowFinite
<1>9. IsFiniteSet(rows) BY DEF RowsSound
<1>10. IsFiniteSet(A)
    <2> HIDE DEF f, g
    <2>1. IsFiniteSet(B) BY <1>3, <1>9, FS_Surjection
    <2> QED BY <1>2, <2>1, FS_Surjection
<1>11. \A b : /\ RowsSound(Part(b)) /\ IsFiniteSet(Part(b))
              /\ SumOf(Part(b), "observed") \in Nat /\ SumOf(Part(b), "gap") \in Nat
                 /\ SumOf(Part(b), "expected") \in Nat
              /\ SumOf(Part(b), "observed") + SumOf(Part(b), "gap") = SumOf(Part(b), "expected")
    <2> TAKE b
    <2>1. PICK P : P = Part(b) OBVIOUS
    <2>2. P \in SUBSET rows BY <1>4, <2>1
    <2>3. RowsSound(P) BY <2>2, SomeRowsSound
    <2>4. /\ SumOf(P, "observed") \in Nat /\ SumOf(P, "gap") \in Nat /\ SumOf(P, "expected") \in Nat
          /\ SumOf(P, "observed") + SumOf(P, "gap") = SumOf(P, "expected") BY <2>3, SumsAdd
    <2>5. IsFiniteSet(P) BY <2>3 DEF RowsSound
    <2> QED BY <2>1, <2>3, <2>4, <2>5
<1>12. RowsSound(A)
    <2>1. \A q \in A : /\ q.bucket \in Nat /\ q.expected \in Nat /\ q.observed \in Nat /\ q.gap \in Nat
                       /\ q.observed + q.gap = q.expected BY <1>6, <1>8, <1>11
    <2>2. \A q, p \in A : q.bucket = p.bucket => q = p BY <1>6
    <2> QED BY <1>6, <1>10, <2>1, <2>2 DEF RowsSound
<1>13. BucketsAre(A, w, m)
    <2>1. ASSUME NEW t \in InWindow(w), Aligned(t, m) PROVE \E q \in A : q.bucket = t
        <3>1. t \in Nat BY WindowFinite
        <3>2. Aligned(t, step) BY <2>1, <3>1, AlignedThrough
        <3>3. PICK r \in rows : r.bucket = t BY <3>2 DEF BucketsAre
        <3>4. bucket_start(t, m) = t BY <2>1, <3>1, BucketIs
        <3>5. t \in B BY <1>5, <3>3, <3>4
        <3> QED BY <1>6, <3>5
    <2> QED BY <1>6, <1>8, <2>1 DEF BucketsAre
<1>14. ASSUME NEW b PROVE /\ IsFiniteSet(Units(Part(b), [r \in Part(b) |-> r["observed"]]))
                          /\ Cardinality(Units(Part(b), [r \in Part(b) |-> r["observed"]])) = SumOf(Part(b), "observed")
                          /\ \A p : p \in Units(Part(b), [r \in Part(b) |-> r["observed"]]) <=>
                                      \E r \in Part(b) : \E i \in 1..r.observed : p = <<r, i>>
    <2> DEFINE n == [r \in Part(b) |-> r["observed"]]
    <2>1. \A r \in Part(b) : n[r] = r.observed /\ n[r] \in Nat BY <1>11 DEF RowsSound
    <2>2. SumOf(Part(b), "observed") = Cardinality(Units(Part(b), n)) BY DEF SumOf
    <2> HIDE DEF n
    <2>3. IsFiniteSet(Units(Part(b), n)) BY <1>11, <2>1, UnitsFinite
    <2>4. \A p : p \in Units(Part(b), n) <=> \E r \in Part(b) : \E i \in 1..n[r] : p = <<r, i>> BY UnitIs
    <2>5. \A p : p \in Units(Part(b), n) <=> \E r \in Part(b) : \E i \in 1..r.observed : p = <<r, i>> BY <2>1, <2>4
    <2> QED BY <2>2, <2>3, <2>5 DEF n
<1>15. \A r \in rows : of[r] = r.observed OBVIOUS
<1>16. SumOf(rows, "observed") = Cardinality(U) /\ SumOf(A, "observed") = Cardinality(Units(A, o)) BY DEF SumOf
<1>17. \A q \in A : /\ IsFiniteSet(X[q]) /\ o[q] = Cardinality(X[q])
                    /\ \A p : p \in X[q] <=> \E r \in Part(q.bucket) : \E i \in 1..r.observed : p = <<r, i>>
    <2> TAKE q \in A
    <2>1. X[q] = Units(Part(q.bucket), [r \in Part(q.bucket) |-> r["observed"]]) /\ o[q] = q.observed OBVIOUS
    <2>2. o[q] = SumOf(Part(q.bucket), "observed") BY <1>6, <2>1
    <2> HIDE DEF X, o
    <2>3. PICK b : b = q.bucket OBVIOUS
    <2>4. /\ IsFiniteSet(Units(Part(b), [r \in Part(b) |-> r["observed"]]))
          /\ Cardinality(Units(Part(b), [r \in Part(b) |-> r["observed"]])) = SumOf(Part(b), "observed")
          /\ \A p : p \in Units(Part(b), [r \in Part(b) |-> r["observed"]]) <=>
                      \E r \in Part(b) : \E i \in 1..r.observed : p = <<r, i>> BY <1>14
    <2> QED BY <2>1, <2>2, <2>3, <2>4
<1> HIDE DEF X, o, of
<1>18. \A p : p \in U <=> \E r \in rows : \E i \in 1..r.observed : p = <<r, i>>
    <2>1. \A p : p \in U <=> \E r \in rows : \E i \in 1..of[r] : p = <<r, i>> BY UnitIs
    <2> QED BY <1>15, <2>1
<1> HIDE DEF U
<1>19. ASSUME NEW q \in A, NEW p \in A, q # p PROVE X[q] \cap X[p] = {}
    <2> SUFFICES ASSUME NEW z, z \in X[q], z \in X[p] PROVE FALSE OBVIOUS
    <2>1. PICK r \in Part(q.bucket) : \E i \in 1..r.observed : z = <<r, i>> BY <1>17
    <2>2. PICK u \in Part(p.bucket) : \E i \in 1..u.observed : z = <<u, i>> BY <1>17
    <2>3. r = u BY <2>1, <2>2
    <2>4. q.bucket = p.bucket BY <1>4, <2>1, <2>2, <2>3
    <2> QED BY <1>6, <1>19, <2>4
<1>20. ASSUME NEW p PROVE p \in U <=> \E q \in A : p \in X[q]
    <2>1. ASSUME p \in U PROVE \E q \in A : p \in X[q]
        <3>1. PICK r \in rows : \E i \in 1..r.observed : p = <<r, i>> BY <1>18, <2>1
        <3>2. bucket_start(r.bucket, m) \in B BY <1>5
        <3>3. PICK q \in A : q.bucket = bucket_start(r.bucket, m) BY <1>6, <3>2
        <3>4. r \in Part(q.bucket) BY <1>4, <3>3
        <3> QED BY <1>17, <3>1, <3>3, <3>4
    <2>2. ASSUME NEW q \in A, p \in X[q] PROVE p \in U
        <3>1. PICK r \in Part(q.bucket) : \E i \in 1..r.observed : p = <<r, i>> BY <1>17, <2>2
        <3>2. r \in rows BY <1>4, <3>1
        <3> QED BY <1>18, <3>1, <3>2
    <2> QED BY <2>1, <2>2
<1>21. \A q \in A : IsFiniteSet(X[q]) /\ o[q] = Cardinality(X[q]) BY <1>17
<1>22. Cardinality(Units(A, o)) = Cardinality(U) BY <1>10, <1>19, <1>20, <1>21, SizesAdd
<1> QED BY <1>12, <1>13, <1>16, <1>22 DEF A

\* A window of whole hours has as many buckets as it has ticks over the ticks of a bucket.
LEMMA PlannedCount ==
    ASSUME GrainsNest, NEW rows, RowsSound(rows), NEW w \in EqWindows, NEW g \in Resolutions4,
           BucketsAre(rows, w, Grain[g]), (w[2] - w[1]) % Grain["1h"] = 0
    PROVE  Cardinality(rows) = (w[2] - w[1]) \div Grain[g]
<1> DEFINE m == Grain[g]
           H == Grain["1h"]
           k == (w[2] - w[1]) \div m
<1>1. /\ m \in Nat \ {0} /\ Aligned(H, m) /\ w[1] \in Nat /\ w[2] \in Nat /\ w[1] < w[2] /\ Aligned(w[1], m)
    BY GrainsAre
<1>2. H \in Nat \ {0} BY EqualizationAssumption DEF Resolutions4
<1>3. PICK d \in Nat : d = w[2] - w[1] /\ w[2] = w[1] + d BY <1>1
<1>4. d % H = 0 BY <1>3
<1> HIDE DEF H
<1>5. Aligned(d, H) BY <1>2, <1>4, MultipleIs
<1>6. Aligned(d, m) BY <1>1, <1>2, <1>5, AlignedThrough
<1> HIDE DEF m
<1>7. d % m = 0 BY <1>1, <1>6, MultipleIs
<1>8. k \in Nat /\ d = k * m
    <2>1. d = m * (d \div m) + (d % m) /\ d \div m \in Nat BY <1>1
    <2>2. \A q \in Nat : m * q + 0 = q * m BY <1>1
    <2> QED BY <1>3, <1>7, <2>1, <2>2
<1> HIDE DEF k
<1>9. PICK j \in Nat : w[1] = j * m BY <1>1 DEF Aligned
<1> DEFINE f == [i \in 1..k |-> CHOOSE r \in rows : r.bucket = (j + i - 1) * m]
<1>10. ASSUME NEW i \in 1..k PROVE /\ f[i] \in rows /\ f[i].bucket = (j + i - 1) * m
    <2>1. j + i - 1 \in Nat /\ j <= j + i - 1 /\ j + i - 1 + 1 <= j + k BY <1>8, <1>9
    <2>2. PICK x \in Nat : x = j + i - 1 BY <2>1
    <2>3. x * m \in Nat /\ j * m <= x * m /\ (x + 1) * m <= (j + k) * m BY <1>1, <1>8, <1>9, <2>1, <2>2, Products
    <2>4. (x + 1) * m = x * m + m /\ (j + k) * m = j * m + k * m BY <1>1, <1>8, <1>9, <2>2
    <2>5. x * m \in InWindow(w) BY <1>1, <1>3, <1>8, <1>9, <2>3, <2>4 DEF InWindow
    <2>6. Aligned(x * m, m) BY <2>2 DEF Aligned
    <2>7. \E r \in rows : r.bucket = x * m BY <2>5, <2>6 DEF BucketsAre, m
    <2> QED BY <2>2, <2>7
<1>11. ASSUME NEW i \in 1..k, NEW l \in 1..k, f[i] = f[l] PROVE i = l
    <2> HIDE DEF f
    <2>1. PICK x \in Nat : x = j + i - 1 BY <1>8, <1>9
    <2>2. PICK y \in Nat : y = j + l - 1 BY <1>8, <1>9
    <2>3. x * m = y * m BY <1>10, <1>11, <2>1, <2>2
    <2>4. ASSUME NEW u \in Nat, NEW v \in Nat, u + 1 <= v PROVE u * m # v * m
        <3>1. (u + 1) * m <= v * m /\ u * m \in Nat BY <1>1, <2>4, Products
        <3>2. (u + 1) * m = u * m + m BY <1>1
        <3> QED BY <1>1, <3>1, <3>2
    <2>5. ~(x + 1 <= y) /\ ~(y + 1 <= x) BY <2>1, <2>2, <2>3, <2>4
    <2> QED BY <1>8, <1>9, <2>1, <2>2, <2>5
<1>12. ASSUME NEW r \in rows PROVE \E i \in 1..k : f[i] = r
    <2>1. r.bucket \in InWindow(w) /\ Aligned(r.bucket, m) BY DEF BucketsAre, m
    <2>2. PICK x \in Nat : r.bucket = x * m BY <2>1 DEF Aligned
    <2>3. w[1] <= x * m /\ x * m < w[2] /\ x * m \in Nat BY <1>1, <2>1, <2>2, Products DEF InWindow
    <2>4. j <= x
        <3> SUFFICES ASSUME x + 1 <= j PROVE FALSE BY <1>9, <2>2
        <3>1. (x + 1) * m <= j * m BY <1>1, <1>9, <2>2, Products
        <3>2. (x + 1) * m = x * m + m BY <1>1, <2>2
        <3> QED BY <1>1, <1>9, <2>3, <3>1, <3>2
    <2>5. x < j + k
        <3> SUFFICES ASSUME j + k <= x PROVE FALSE BY <1>8, <1>9, <2>2
        <3>1. (j + k) * m <= x * m BY <1>1, <1>8, <1>9, <2>2, Products
        <3>2. (j + k) * m = j * m + k * m BY <1>1, <1>8, <1>9
        <3>3. j * m \in Nat /\ k * m \in Nat BY <1>1, <1>8, <1>9, Products
        <3> QED BY <1>1, <1>3, <1>8, <1>9, <2>3, <3>1, <3>2, <3>3
    <2>6. PICK i \in 1..k : x = j + i - 1 /\ i = x - j + 1 BY <1>8, <1>9, <2>2, <2>4, <2>5
    <2> HIDE DEF f
    <2>7. f[i] \in rows /\ f[i].bucket = r.bucket BY <1>10, <2>2, <2>6
    <2>8. f[i] = r BY <2>7 DEF RowsSound
    <2> QED BY <2>8
<1>13. f \in [1..k -> rows] BY <1>10
<1> HIDE DEF f
<1>14. f \in Bijection(1..k, rows) BY <1>11, <1>12, <1>13 DEF Bijection, Injection, Surjection, IsInjective
<1>15. IsFiniteSet(1..k) /\ Cardinality(1..k) = k
    <2>1. 1 \in Int /\ k \in Int BY <1>8
    <2>2. IsFiniteSet(1..k) /\ Cardinality(1..k) = IF 1 > k THEN 0 ELSE k - 1 + 1 BY <2>1, FS_Interval
    <2> DEFINE n == Cardinality(1..k)
    <2>3. n = IF 1 > k THEN 0 ELSE k - 1 + 1 BY <2>2
    <2> HIDE DEF n
    <2>4. n = k BY <1>8, <2>3
    <2> QED BY <2>2, <2>4 DEF n
<1>16. Cardinality(rows) = k BY <1>14, <1>15, FS_Bijection DEF ExistsBijection
<1> QED BY <1>16 DEF k, m

\* Resolutions that get rows from a native cadence (Planned).
HasRows(native) == CASE target_grain(native) = "1min" -> Resolutions4
                     [] target_grain(native) = "15min" -> {"15min", "1h"}
                     [] OTHER -> {"1h"}

\* What a table of the cadence adapter promises.
TableSound(rows, s, w, native, g) ==
    /\ \A r \in rows : r.observed + r.gap = r.expected
    /\ SumOf(rows, "observed") = PointsIn(s, InWindow(w))
    /\ {r.bucket : r \in rows} = generate_expected_buckets(w, Grain[g])
    /\ (w[2] - w[1]) % Grain["1h"] = 0 => Cardinality(rows) = Planned(w, native, g)

\* Rows of the right buckets that lose no document keep the promise.
LEMMA TableIs ==
    ASSUME GrainsNest, NEW s, NEW w \in EqWindows, NEW native, NEW g \in HasRows(native), g \in Resolutions4,
           NEW rows, RowsSound(rows), BucketsAre(rows, w, Grain[g]), SumOf(rows, "observed") = PointsIn(s, InWindow(w))
    PROVE  TableSound(rows, s, w, native, g)
<1>1. \A r \in rows : r.observed + r.gap = r.expected BY DEF RowsSound
<1>2. Grain[g] \in Nat \ {0} BY GrainsAre
<1>3. \A t \in InWindow(w) : t % Grain[g] = 0 <=> Aligned(t, Grain[g]) BY <1>2, MultipleIs, WindowFinite
<1>4. {r.bucket : r \in rows} = generate_expected_buckets(w, Grain[g])
    BY <1>3 DEF BucketsAre, generate_expected_buckets
<1>5. Planned(w, native, g) = (w[2] - w[1]) \div Grain[g] BY DEF Planned, HasRows
<1>6. (w[2] - w[1]) % Grain["1h"] = 0 => Cardinality(rows) = Planned(w, native, g) BY <1>5, PlannedCount
<1> QED BY <1>1, <1>4, <1>6 DEF TableSound

\* No rows aggregate to none.
LEMMA AggregateOfNothing == ASSUME NEW m PROVE aggregate_observed_rows({}, m) = {}
BY DEF aggregate_observed_rows

\* The tables the cadence adapter computes.
LEMMA TablesSound ==
    ASSUME GrainsNest, NEW s \in Streams, NEW w \in EqWindows, NEW native \in Natives,
           Present(s, w) # {} => Divides(native), validate_timestamp_quality(s, w, native),
           NEW g \in Resolutions4, process_live_equalization(s, w, native)[g] # {}
    PROVE  TableSound(process_live_equalization(s, w, native)[g], s, w, native, g)
<1> DEFINE base == equalize_series(s, w, native)
           tg == target_grain(native)
           P == process_live_equalization(s, w, native)[g]
           Only(h) == IF tg = h THEN base ELSE {}
<1>1. P = CASE g = "1min"  -> Only("1min")
            [] g = "5min"  -> aggregate_observed_rows(Only("1min"), Grain[g])
            [] g = "15min" -> aggregate_observed_rows(Only("1min") \cup Only("15min"), Grain[g])
            [] OTHER       -> aggregate_observed_rows(base, Grain[g])
    BY DEF process_live_equalization
<1>2. tg \in {"1min", "15min", "1h"} BY DEF target_grain
<1>3. g \in {"1min", "5min", "15min", "1h"} BY DEF Resolutions4
<1>4. Present(s, w) = {} => base = {} BY DEF equalize_series
<1> HIDE DEF base, tg, P
<1>5. Present(s, w) # {}
    <2> SUFFICES ASSUME base = {} PROVE FALSE BY <1>4
    <2>1. Only("1min") = {} /\ Only("1min") \cup Only("15min") = {} OBVIOUS
    <2> HIDE DEF Only
    <2>2. P = {} BY <1>1, <1>3, <2>1, AggregateOfNothing
    <2> QED BY <2>2 DEF P
<1>6. RowsSound(base) /\ BucketsAre(base, w, Grain[tg]) /\ SumOf(base, "observed") = PointsIn(s, InWindow(w))
    BY <1>5, BaseRows DEF base, tg
<1>7. /\ tg \in Resolutions4 /\ Grain[tg] \in Nat \ {0} /\ Grain[g] \in Nat \ {0} /\ Aligned(w[1], Grain[g])
      /\ Aligned(Grain["1h"], Grain[tg])
    BY <1>2, GrainsAre DEF Resolutions4
<1>8. CASE g = tg /\ P = base
    <2>1. g \in HasRows(native) BY <1>2, <1>3, <1>8 DEF HasRows, tg, Resolutions4
    <2> QED BY <1>6, <1>8, <2>1, TableIs DEF P
<1>9. CASE g \in HasRows(native) /\ Aligned(Grain[g], Grain[tg]) /\ P = aggregate_observed_rows(base, Grain[g])
    <2>1. RowsSound(P) /\ BucketsAre(P, w, Grain[g]) /\ SumOf(P, "observed") = SumOf(base, "observed")
        BY <1>6, <1>7, <1>9, AggregatedRows
    <2> QED BY <1>6, <1>9, <2>1, TableIs DEF P
<1>10. Aligned(Grain[g], Grain[g]) /\ (Grain[tg] = 1 => Aligned(Grain[g], Grain[tg]))
    <2>1. Grain[g] = 1 * Grain[g] /\ Grain[g] = Grain[g] * 1 BY <1>7
    <2> QED BY <1>7, <2>1 DEF Aligned
<1>11. CASE tg = "1min"
    <2>1. Grain[tg] = 1 BY <1>11 DEF GrainsNest
    <2>2. g \in HasRows(native) BY <1>11 DEF HasRows, tg
    <2>3. Only("1min") = base /\ Only("1min") \cup Only("15min") = base BY <1>11
    <2> HIDE DEF Only
    <2>4. (g = tg /\ P = base) \/ P = aggregate_observed_rows(base, Grain[g]) BY <1>1, <1>3, <1>11, <2>3
    <2> QED BY <1>8, <1>9, <1>10, <2>1, <2>2, <2>4
<1>12. CASE tg = "15min"
    <2>1. Only("1min") = {} /\ Only("1min") \cup Only("15min") = base BY <1>12
    <2> HIDE DEF Only
    <2>2. P # {} BY DEF P
    <2>3. g \in {"15min", "1h"} BY <1>1, <1>3, <2>1, <2>2, AggregateOfNothing
    <2>4. P = aggregate_observed_rows(base, Grain[g]) BY <1>1, <2>1, <2>3
    <2>5. g \in HasRows(native) BY <1>12, <2>3 DEF HasRows, tg
    <2>6. Aligned(Grain[g], Grain[tg]) BY <1>7, <1>10, <1>12, <2>3
    <2> QED BY <1>9, <2>4, <2>5, <2>6
<1>13. CASE tg = "1h"
    <2>1. Only("1min") = {} /\ Only("1min") \cup Only("15min") = {} BY <1>13
    <2> HIDE DEF Only
    <2>2. P # {} BY DEF P
    <2>3. g = "1h" BY <1>1, <1>3, <2>1, <2>2, AggregateOfNothing
    <2>4. P = aggregate_observed_rows(base, Grain[g]) BY <1>1, <2>3
    <2>5. g \in HasRows(native) BY <1>13, <2>3 DEF HasRows, tg
    <2> QED BY <1>9, <1>10, <1>13, <2>3, <2>4, <2>5
<1> QED BY <1>2, <1>11, <1>12, <1>13

\* What a rollup of the live adapter promises.
RollupSound(r, s, w, native, policy, queued, g) ==
    /\ r.observed + r.gap = r.expected
    /\ r.observed = ObservedIn(s, InWindow(w))
    /\ policy = "usable" => <<"mean_rollup", g, r.bucket>> \in queued
    /\ native # 0 /\ Grain["15min"] % native = 0 => r.expected * native = Grain[g]

\* The valued documents of a window can be counted.
LEMMA ObservedIsNat == ASSUME NEW s \in Streams, NEW w \in EqWindows PROVE ObservedIn(s, InWindow(w)) \in Nat
<1> DEFINE T == InWindow(w)
           n == [t \in T |-> Observed(s, t)]
<1>1. IsFiniteSet(T) BY WindowFinite
<1>2. \A t \in T : Observed(s, t) \in Nat
    <2> TAKE t \in T
    <2>1. CASE t \notin DOMAIN s BY <2>1 DEF Observed
    <2>2. CASE t \in DOMAIN s
        <3> DEFINE I == {i \in 1..Len(s[t]) : s[t][i] # "null"}
        <3>1. s[t] \in Seq(STRING) BY <2>2, EqualizationAssumption
        <3>2. Len(s[t]) \in Nat BY <3>1
        <3>3. IsFiniteSet(1..Len(s[t])) BY <3>2, FS_Interval
        <3>4. I \subseteq 1..Len(s[t]) OBVIOUS
        <3>5. Observed(s, t) = Cardinality(I) BY <2>2 DEF Observed
        <3> HIDE DEF I
        <3> QED BY <3>3, <3>4, <3>5, FS_Subset, FS_CardinalityType
    <2> QED BY <2>1, <2>2
<1>3. \A t \in T : n[t] \in Nat BY <1>2
<1>4. ObservedIn(s, T) = Cardinality(Units(T, n)) BY DEF ObservedIn
<1> HIDE DEF n, T
<1> QED BY <1>1, <1>3, <1>4, UnitsFinite DEF T

\* A quotient and its remainder.
LEMMA Division == ASSUME NEW t \in Nat, NEW m \in Nat \ {0} PROVE t = m * (t \div m) + (t % m) /\ t \div m \in Nat
OBVIOUS

\* A rollup that was accepted, of a queued bucket.
LEMMA RollupIs ==
    ASSUME GrainsNest, NEW s \in Streams, NEW w \in EqWindows, NEW native \in Natives, NEW policy, NEW queued,
           NEW g \in {"15min", "1h"}, NEW first \in Present(s, w),
             RollupFits(build_mean_rollup(first, s, w, native, g)),
           policy = "usable" => <<"mean_rollup", g, bucket_start(first, Grain[g])>> \in queued
    PROVE  RollupSound(build_mean_rollup(first, s, w, native, g), s, w, native, policy, queued, g)
<1> DEFINE r == build_mean_rollup(first, s, w, native, g)
           e == derive_expected_points(native, g)
           o == ObservedIn(s, InWindow(w))
           b == bucket_start(first, Grain[g])
           c == IF native = 0 THEN Grain["1min"] ELSE native
           k == Grain[g] \div c
<1>1. Grain[g] \in Nat \ {0} /\ Grain["15min"] \in Nat \ {0} /\ Grain["1min"] \in Nat \ {0} /\ Grain["1h"] \in Nat \ {0}
    BY GrainsAre DEF Resolutions4
<1>2. native \in Nat /\ c \in Nat \ {0} BY <1>1, EqualizationAssumption
<1>3. o \in Nat BY ObservedIsNat
<1>4. e = IF k < 1 THEN 1 ELSE k BY DEF derive_expected_points
<1>5. r = Row(b, e, o) BY DEF build_mean_rollup
<1> HIDE DEF r, o, e
<1>6. k \in Nat
    <2> HIDE DEF c
    <2> QED BY <1>1, <1>2
<1>7. e \in Nat
    <2> HIDE DEF k
    <2> QED BY <1>4, <1>6
<1>8. r.bucket = b /\ r.expected = e /\ r.observed = o BY <1>3, <1>5, <1>7, RowIs
<1>9. o <= e BY <1>8 DEF RollupFits, r
<1>10. r.observed + r.gap = e BY <1>3, <1>5, <1>7, <1>9, RowIs
<1>11. ASSUME native # 0, Grain["15min"] % native = 0 PROVE e * native = Grain[g]
    <2>1. c = native BY <1>11
    <2>2. native \in Nat \ {0} BY <1>2, <1>11
    <2>3. Aligned(Grain["15min"], native) BY <1>1, <1>11, <2>2, MultipleIs
    <2>4. Aligned(Grain["1h"], native) BY <1>1, <2>2, <2>3, AlignedThrough DEF GrainsNest
    <2>5. Grain[g] % native = 0 BY <1>1, <2>2, <2>3, <2>4, MultipleIs
    <2>6. PICK G \in Nat \ {0} : G = Grain[g] BY <1>1
    <2>7. G % native = 0 /\ k = G \div native BY <2>1, <2>5, <2>6
    <2> HIDE DEF k, c
    <2>8. G = native * (G \div native) + (G % native) /\ G \div native \in Nat BY <2>2, <2>6, Division
    <2>9. G = native * k + 0 BY <2>7, <2>8
    <2>10. \A q \in Nat : native * q + 0 = q * native BY <2>2
    <2>11. G = k * native BY <1>6, <2>9, <2>10
    <2>12. k # 0 BY <2>2, <2>6, <2>11
    <2>13. e = k BY <1>4, <1>6, <2>12
    <2> QED BY <2>6, <2>11, <2>13
<1> QED BY <1>8, <1>10, <1>11 DEF RollupSound, r, o

\* A run of an adapter with these inputs, rows, tables written and jobs queued.
EqRun(a, s, w, n, p, pc, rows, written, queued, peak) ==
    [adapter |-> a, stream |-> s, window |-> w, native |-> n, policy |-> p,
     pc |-> pc, rows |-> rows, written |-> written, queued |-> queued, peak |-> peak]

\* Nothing is written before the rows are there, and the rows keep their promise.
RunSound(a, s, w, n, p, pc, rows, written, queued) ==
    /\ rows = [g \in Resolutions4 |-> rows[g]] /\ written \in [Resolutions4 -> BOOLEAN]
    /\ \A g \in Resolutions4 : written[g] => rows[g] # {}
    /\ pc = "start" => \A g \in Resolutions4 : ~written[g]
    /\ a = "scratch" => \A g \in Resolutions4 : rows[g] # {} => TableSound(rows[g], s, w, n, g)
    /\ a = "live" => \A g \in {"15min", "1h"} : \A r \in rows[g] : RollupSound(r, s, w, n, p, queued, g)

\* The invariant of the two adapters.
EqSound ==
    \E a \in {"scratch", "live"}, s \in Streams, w \in EqWindows, n \in Natives, p \in Policies :
      \E pc, rows, written, queued, peak :
        /\ eq = EqRun(a, s, w, n, p, pc, rows, written, queued, peak)
        /\ RunSound(a, s, w, n, p, pc, rows, written, queued)

\* Nothing is computed or written at the start.
LEMMA EqStarts == ASSUME EqInit PROVE EqSound
<1>1. PICK a \in {"scratch", "live"}, s \in Streams, w \in EqWindows, n \in Natives, p \in Policies :
            eq = [adapter |-> a, stream |-> s, window |-> w, native |-> n, policy |-> p,
                  pc |-> "start", rows |-> NoRows, written |-> Unwritten, queued |-> {}, peak |-> {}]
    BY DEF EqInit
<1>2. eq = EqRun(a, s, w, n, p, "start", NoRows, Unwritten, {}, {}) BY <1>1 DEF EqRun
<1>3. RunSound(a, s, w, n, p, "start", NoRows, Unwritten, {})
    <2>1. NoRows = [g \in Resolutions4 |-> NoRows[g]] /\ Unwritten \in [Resolutions4 -> BOOLEAN]
        BY DEF NoRows, Unwritten
    <2>2. \A g \in Resolutions4 : NoRows[g] = {} /\ ~Unwritten[g] BY DEF NoRows, Unwritten
    <2>3. "15min" \in Resolutions4 /\ "1h" \in Resolutions4 BY DEF Resolutions4
    <2> QED BY <2>1, <2>2, <2>3 DEF RunSound
<1> QED BY <1>2, <1>3 DEF EqSound

\* Either adapter refuses, computes all rows at once, or writes one more table.
LEMMA EqMoves == ASSUME GrainsNest, EqSound, EqNext PROVE EqSound'
<1>1. PICK a \in {"scratch", "live"}, s \in Streams, w \in EqWindows, n \in Natives, p \in Policies :
      \E pc, rows, written, queued, peak :
        /\ eq = EqRun(a, s, w, n, p, pc, rows, written, queued, peak)
        /\ RunSound(a, s, w, n, p, pc, rows, written, queued)
    BY DEF EqSound
<1>2. PICK pc, rows, written, queued, peak :
        /\ eq = EqRun(a, s, w, n, p, pc, rows, written, queued, peak)
        /\ RunSound(a, s, w, n, p, pc, rows, written, queued)
    BY <1>1
<1>3. /\ eq.adapter = a /\ eq.stream = s /\ eq.window = w /\ eq.native = n /\ eq.policy = p
      /\ eq.pc = pc /\ eq.rows = rows /\ eq.written = written
    BY <1>2 DEF EqRun
<1>4. ASSUME NEW pc2, NEW rows2, NEW written2, NEW queued2, NEW peak2,
             eq' = EqRun(a, s, w, n, p, pc2, rows2, written2, queued2, peak2),
             RunSound(a, s, w, n, p, pc2, rows2, written2, queued2)
      PROVE  EqSound'
    BY <1>4 DEF EqSound
<1>5. CASE Fail
    <2>1. eq' = EqRun(a, s, w, n, p, "failed", rows, written, queued, peak) BY <1>2, <1>5 DEF Fail, EqRun
    <2>2. RunSound(a, s, w, n, p, "failed", rows, written, queued) BY <1>2 DEF RunSound
    <2> QED BY <1>4, <2>1, <2>2
<1>6. ASSUME RunScratch, ~Fail PROVE EqSound'
    <2> DEFINE P == process_live_equalization(s, w, n)
    <2>1. /\ pc = "start" /\ a = "scratch" /\ validate_timestamp_quality(s, w, n) /\ (Present(s, w) # {} => Divides(n))
          /\ eq' = [eq EXCEPT !.pc = "1min", !.rows = P]
        BY <1>3, <1>6 DEF RunScratch
    <2>2. P = [g \in Resolutions4 |-> P[g]]
        <3>1. PICK M : M = P OBVIOUS
        <3>2. M = [g \in DOMAIN M |-> M[g]] /\ DOMAIN M = Resolutions4 BY <3>1 DEF process_live_equalization
        <3> HIDE DEF P
        <3> QED BY <3>1, <3>2
    <2>3. ASSUME NEW g \in Resolutions4, P[g] # {} PROVE TableSound(P[g], s, w, n, g)
        <3>1. process_live_equalization(s, w, n)[g] # {} BY <2>3
        <3>2. TableSound(process_live_equalization(s, w, n)[g], s, w, n, g) BY <2>1, <3>1, TablesSound
        <3> QED BY <3>2
    <2> HIDE DEF P
    <2>4. eq' = EqRun(a, s, w, n, p, "1min", P, written, queued, peak)
        <3>1. PICK M : M = P OBVIOUS
        <3>2. eq' = [eq EXCEPT !.pc = "1min", !.rows = M] BY <2>1, <3>1
        <3>3. eq' = EqRun(a, s, w, n, p, "1min", M, written, queued, peak) BY <1>2, <3>2 DEF EqRun
        <3> QED BY <3>1, <3>3
    <2>5. written \in [Resolutions4 -> BOOLEAN] /\ \A g \in Resolutions4 : ~written[g] BY <1>2, <2>1 DEF RunSound
    <2>6. RunSound(a, s, w, n, p, "1min", P, written, queued) BY <2>1, <2>2, <2>3, <2>5 DEF RunSound
    <2> QED BY <1>4, <2>4, <2>6
<1>7. ASSUME RunLive, ~Fail PROVE EqSound'
    <2>1. pc = "start" /\ a = "live" BY <1>3, <1>7 DEF RunLive
    <2>2. CASE Present(s, w) = {}
        <3>1. eq' = [eq EXCEPT !.pc = "1min"] BY <1>3, <1>7, <2>2 DEF RunLive
        <3>2. eq' = EqRun(a, s, w, n, p, "1min", rows, written, queued, peak) BY <1>2, <3>1 DEF EqRun
        <3>3. RunSound(a, s, w, n, p, "1min", rows, written, queued) BY <1>2, <2>1 DEF RunSound
        <3> QED BY <1>4, <3>2, <3>3
    <2>3. CASE Present(s, w) # {}
        <3>1. PICK first \in Present(s, w) :
                /\ RollupFits(build_mean_rollup(first, s, w, n, "15min"))
                   /\ RollupFits(build_mean_rollup(first, s, w, n, "1h"))
                /\ eq' = [eq EXCEPT !.pc = "1min",
                                    !.rows["1min"] = one_min_rows(s, w),
                                    !.rows["15min"] = {build_mean_rollup(first, s, w, n, "15min")},
                                    !.rows["1h"] = {build_mean_rollup(first, s, w, n, "1h")},
                                    !.queued = UNION {decide_trigger_actions(t) : t \in Present(s, w)},
                                    !.peak = {build_peak_feature(first, s, w, n)}]
            BY <1>3, <1>7, <2>3 DEF RunLive
        <3>2. PICK Q : Q = UNION {decide_trigger_actions(t) : t \in Present(s, w)} OBVIOUS
        <3>3. PICK K : K = {build_peak_feature(first, s, w, n)} OBVIOUS
        <3>4. PICK q : q = build_mean_rollup(first, s, w, n, "15min") OBVIOUS
        <3>5. PICK h : h = build_mean_rollup(first, s, w, n, "1h") OBVIOUS
        <3>6. PICK o : o = one_min_rows(s, w) OBVIOUS
        <3> DEFINE N == [rows EXCEPT !["1min"] = o, !["15min"] = {q}, !["1h"] = {h}]
        <3>7. eq' = EqRun(a, s, w, n, p, "1min", N, written, Q, K) BY <1>2, <3>1, <3>2, <3>3, <3>4, <3>5, <3>6 DEF EqRun
        <3>8. rows = [g \in Resolutions4 |-> rows[g]] BY <1>2 DEF RunSound
        <3>9. N = [g \in Resolutions4 |-> N[g]] /\ N["15min"] = {q} /\ N["1h"] = {h} BY <3>8 DEF Resolutions4
        <3>10. \A g \in {"15min", "1h"} : p = "usable" => <<"mean_rollup", g, bucket_start(first, Grain[g])>> \in Q
            BY <1>3, <3>2 DEF decide_trigger_actions, derive_trigger_queue_jobs
        <3>11. RollupSound(q, s, w, n, p, Q, "15min") /\ RollupSound(h, s, w, n, p, Q, "1h")
            BY <3>1, <3>4, <3>5, <3>10, RollupIs
        <3> HIDE DEF N
        <3>12. RunSound(a, s, w, n, p, "1min", N, written, Q)
            BY <1>2, <2>1, <3>9, <3>11 DEF RunSound
        <3> QED BY <1>4, <3>7, <3>12
    <2> QED BY <2>2, <2>3
<1>8. ASSUME WriteTable, ~Fail PROVE EqSound'
    <2>1. /\ pc \in Resolutions4
          /\ eq' = [eq EXCEPT !.pc = NextTable[pc], !.written[pc] = rows[pc] # {}]
        BY <1>3, <1>8 DEF WriteTable
    <2>2. PICK v \in BOOLEAN : v = (rows[pc] # {}) OBVIOUS
    <2> DEFINE W == [written EXCEPT ![pc] = v]
    <2>3. eq' = EqRun(a, s, w, n, p, NextTable[pc], rows, W, queued, peak) BY <1>2, <2>1, <2>2 DEF EqRun
    <2>4. NextTable[pc] # "start" BY <2>1 DEF NextTable, Resolutions4
    <2>5. written \in [Resolutions4 -> BOOLEAN] BY <1>2 DEF RunSound
    <2>6. W \in [Resolutions4 -> BOOLEAN] /\ \A g \in Resolutions4 : W[g] = IF g = pc THEN v ELSE written[g]
        BY <2>1, <2>5
    <2> HIDE DEF W
    <2>7. RunSound(a, s, w, n, p, NextTable[pc], rows, W, queued) BY <1>2, <2>2, <2>4, <2>6 DEF RunSound
    <2> QED BY <1>4, <2>3, <2>7
<1> QED BY <1>5, <1>6, <1>7, <1>8 DEF EqNext

\* What is written keeps the promise.
LEMMA EqEnough == ASSUME EqSound PROVE EqualizationInv
<1>1. PICK a \in {"scratch", "live"}, s \in Streams, w \in EqWindows, n \in Natives, p \in Policies :
      \E pc, rows, written, queued, peak :
        /\ eq = EqRun(a, s, w, n, p, pc, rows, written, queued, peak)
        /\ RunSound(a, s, w, n, p, pc, rows, written, queued)
    BY DEF EqSound
<1>2. PICK pc, rows, written, queued, peak :
        /\ eq = EqRun(a, s, w, n, p, pc, rows, written, queued, peak)
        /\ RunSound(a, s, w, n, p, pc, rows, written, queued)
    BY <1>1
<1>3. /\ eq.adapter = a /\ eq.stream = s /\ eq.window = w /\ eq.native = n /\ eq.policy = p
      /\ eq.pc = pc /\ eq.rows = rows /\ eq.written = written /\ eq.queued = queued
    BY <1>2 DEF EqRun
<1>4. /\ \A g \in Resolutions4 : written[g] => rows[g] # {}
      /\ a = "scratch" => \A g \in Resolutions4 : rows[g] # {} => TableSound(rows[g], s, w, n, g)
      /\ a = "live" => \A g \in {"15min", "1h"} : \A r \in rows[g] : RollupSound(r, s, w, n, p, queued, g)
    BY <1>2 DEF RunSound
<1>5. EveryPointCountedOnce BY <1>3, <1>4 DEF EveryPointCountedOnce, TableSound
<1>6. RowsAsPlanned BY <1>3, <1>4 DEF RowsAsPlanned, TableSound
<1>7. RollupsOfTheEvents BY <1>3, <1>4 DEF RollupsOfTheEvents, RollupSound
<1> QED BY <1>5, <1>6, <1>7 DEF EqualizationInv

\* A run that stands still keeps it too.
LEMMA EqStep == ASSUME GrainsNest PROVE EqSound /\ [EqNext]_evars => EqSound'
<1> SUFFICES ASSUME EqSound, UNCHANGED evars PROVE EqSound' BY EqMoves
<1> QED BY DEF EqSound, evars

\* At every resolution of the cadence adapter each document of the window is counted exactly once, each expected point
\* is observed or a gap, and the buckets are the expected ones; a rollup of the live adapter counts every valued event
\* under a queued bucket (live_equalization_processor.py, live_scratch_adapter.py).
THEOREM EveryDocumentIsCountedOnce == ASSUME GrainsNest PROVE EqSpec => []EqualizationInv
<1> QED
  BY EqStarts, EqStep, EqEnough, PTL DEF EqSpec

(***************************************************************************)
(* The preload scripts.  A row of the file that is not in its table is in  *)
(* the work of every script that still has the table to load; an empty     *)
(* work list therefore means a complete table, whatever failed and was     *)
(* retried.                                                                *)
(***************************************************************************)

\* The tables a script still has to load.
ScriptShape(j) ==
    /\ DOMAIN j = {"kind", "table", "rest", "work", "expected", "final"}
    /\ j.kind # "off" => j.table \in Tables /\ j.rest \in Seq(Tables)
    /\ j.kind = "off" => j.work = {}
    /\ j.kind # "off" /\ j.rest # <<>> => j.kind = "outputs"
    /\ \A c \in j.work : DOMAIN c = {"rows", "tries"}
    /\ j.kind = "outputs" /\ j.table = "warnings" => \A c, d \in j.work : c = d

\* What a script has not inserted yet is in the chunks it has left.
LeftInWork(j) ==
    j.kind \notin {"off", "batch"} =>
        \A i \in Usable(j.table) : \/ files[j.table][i].key \in preloaded[j.table]
                                   \/ \E c \in j.work : files[j.table][i].key \in KeysOf(j.table, c.rows)

\* The invariant of the preload scripts: a key of the file that is not in the table is in somebody's work.
PreloadSound ==
    /\ files \in Files
    /\ DOMAIN preloaded = Tables /\ DOMAIN run_log = Tables /\ DOMAIN loader = Loaders
    /\ \A p \in Loaders : ScriptShape(loader[p]) /\ LeftInWork(loader[p])
    /\ LoggedIsLoaded

\* Nothing is loaded or logged at the start.
LEMMA PreloadStarts == PreloadInit => PreloadSound
BY DEF PreloadInit, PreloadSound, ScriptShape, LeftInWork, LoggedIsLoaded, Off

\* The plan of a script covers what the table lacks.
LEMMA PlanCovers == ASSUME files \in Files, NEW t \in Tables, NEW kind, kind # "batch",
                           kind \in {"gap", "gap_unique"} => t = "warnings", kind = "split" => t = "features",
                           NEW i \in Usable(t)
                    PROVE  \/ files[t][i].key \in preloaded[t]
                           \/ \E c \in Plan(kind, t) : files[t][i].key \in KeysOf(t, c.rows)
<1> DEFINE key == files[t][i].key
<1>1. key \in preloaded[t] \/ \E k \in Todo(kind, t) : files[t][k].key = key
    <2>1. CASE kind = "gap"
        <3>1. Todo(kind, t) = missing_rows /\ t = "warnings" BY <2>1 DEF Todo
        <3> QED BY <3>1 DEF missing_rows
    <2>2. CASE kind = "gap_unique"
        <3>1. SUFFICES ASSUME key \notin preloaded[t] PROVE \E k \in Todo(kind, t) : files[t][k].key = key OBVIOUS
        <3> DEFINE S == {k \in Usable(t) : files[t][k].key = key}
        <3>2. S \subseteq Int /\ (\A k \in S : 0 <= k) /\ i \in S BY PreloadAssumption DEF Usable
        <3>3. PICK k \in S : \A y \in S : k <= y
            <4>1. 0 \in Int /\ S # {} BY <3>2
            <4> HIDE DEF S
            <4> QED BY <3>2, <4>1, LeastExists
        <3>4. \A j \in Usable(t) : j < k => files[t][j].key # key
            <4>1. \A j \in Usable(t) : j \in Nat BY PreloadAssumption DEF Usable
            <4> QED BY <3>2, <3>3, <4>1
        <3> QED BY <2>2, <3>1, <3>3, <3>4 DEF Todo, unseen_rows, missing_rows
    <2>3. CASE kind = "split" BY <2>3 DEF Todo, sufficient_rows
    <2>4. CASE kind \notin {"gap", "gap_unique", "split"} BY <2>4 DEF Todo
    <2> QED BY <2>1, <2>2, <2>3, <2>4
<1>2. ASSUME NEW k \in Todo(kind, t) PROVE \E c \in Plan(kind, t) : k \in c.rows
    <2>1. CASE kind = "outputs" /\ t = "warnings" BY <2>1 DEF Plan, Chunk
    <2>2. CASE ~(kind = "outputs" /\ t = "warnings")
        <3> DEFINE R == Todo(kind, t)
                   B == {j \in R : Rank(R, j) \div BatchSize = Rank(R, k) \div BatchSize}
        <3>1. Chunk(B) \in Batches(R) BY DEF Batches
        <3>2. k \in B OBVIOUS
        <3>3. Chunk(B).rows = B BY DEF Chunk
        <3> QED BY <2>2, <3>1, <3>2, <3>3 DEF Plan
    <2> QED BY <2>1, <2>2
<1> QED BY <1>1, <1>2 DEF KeysOf
\* A script that begins has everything in its chunks.
LEMMA Begun ==
    ASSUME PreloadSound, NEW kind, kind # "off", NEW ts \in Seq(Tables), ts # <<>>, Tail(ts) # <<>> => kind = "outputs",
           kind \in {"gap", "gap_unique"} => Head(ts) = "warnings", kind = "split" => Head(ts) = "features"
    PROVE  ScriptShape(Begin(kind, ts)) /\ LeftInWork(Begin(kind, ts))
<1> DEFINE j == Begin(kind, ts)
<1>1. Head(ts) \in Tables /\ Tail(ts) \in Seq(Tables) BY HeadTailProperties
<1>2. /\ DOMAIN j = {"kind", "table", "rest", "work", "expected", "final"}
      /\ j.kind = kind /\ j.table = Head(ts) /\ j.rest = Tail(ts) /\ j.work = Plan(kind, Head(ts)) BY DEF Begin
<1>3. kind = "outputs" /\ Head(ts) = "warnings" => \A c, d \in Plan(kind, Head(ts)) : c = d BY DEF Plan
<1>6. \A c \in Plan(kind, Head(ts)) : DOMAIN c = {"rows", "tries"} BY DEF Plan, Batches, Chunk
<1> HIDE DEF j
<1>4. ScriptShape(j) BY <1>1, <1>2, <1>3, <1>6 DEF ScriptShape
<1>5. LeftInWork(j)
    <2>1. files \in Files BY DEF PreloadSound
    <2> QED BY <1>1, <1>2, <2>1, PlanCovers DEF LeftInWork
<1> QED BY <1>4, <1>5 DEF j

\* Rows are only added.
Grows == UNCHANGED files /\ DOMAIN preloaded' = Tables /\ \A t \in Tables : preloaded[t] \subseteq preloaded'[t]

\* What is still in work stays so.
LEMMA StillLeft == ASSUME Grows, NEW j, ScriptShape(j), LeftInWork(j) PROVE LeftInWork(j)'
BY DEF Grows, ScriptShape, LeftInWork, Usable, KeysOf

\* Only the log of a complete load is written.
LEMMA StillLogged ==
    ASSUME PreloadSound, Grows, DOMAIN run_log' = Tables,
           \A t \in Tables : \/ run_log'[t] = run_log[t]
                             \/ run_log'[t].by = "batch"
                             \/ \A i \in Usable(t) : files[t][i].key \in preloaded'[t]
    PROVE  LoggedIsLoaded'
<1> SUFFICES ASSUME NEW t \in Tables, run_log'[t].status = "success", run_log'[t].by # "batch",
                    NEW i \in Usable(t) PROVE files[t][i].key \in preloaded'[t]
    <2>1. files' = files /\ \A t \in Tables : Usable(t)' = Usable(t) BY DEF Grows, Usable
    <2> QED BY <2>1 DEF LoggedIsLoaded, KeysOf
<1>1. CASE run_log'[t] = run_log[t]
    <2>1. files[t][i].key \in preloaded[t] BY <1>1 DEF PreloadSound, LoggedIsLoaded, KeysOf
    <2> QED BY <2>1 DEF Grows
<1> QED BY <1>1

\* A step of one script.
LEMMA ScriptMoves ==
    ASSUME PreloadSound, Grows, NEW p \in Loaders, NEW new, loader' = [loader EXCEPT ![p] = new],
           ScriptShape(new), LeftInWork(new)', DOMAIN run_log' = Tables, LoggedIsLoaded'
    PROVE  PreloadSound'
<1>1. files' \in Files /\ DOMAIN preloaded' = Tables /\ DOMAIN loader' = Loaders BY DEF PreloadSound, Grows
<1>2. loader'[p] = new /\ \A q \in Loaders \ {p} : loader'[q] = loader[q] BY DEF PreloadSound
<1>3. ASSUME NEW q \in Loaders PROVE (ScriptShape(loader[q]) /\ LeftInWork(loader[q]))'
    <2>1. CASE q = p BY <1>2, <2>1 DEF LeftInWork, ScriptShape
    <2>2. CASE q # p
        <3>1. loader'[q] = loader[q] BY <1>2, <2>2
        <3>2. PICK j : j = loader[q] OBVIOUS
        <3>3. ScriptShape(j) /\ LeftInWork(j) BY <3>2 DEF PreloadSound
        <3>4. LeftInWork(j)' BY <3>3, StillLeft
        <3> QED BY <3>1, <3>2, <3>3, <3>4 DEF LeftInWork, ScriptShape
    <2> QED BY <2>1, <2>2
<1> QED BY <1>1, <1>3 DEF PreloadSound

\* A script that is off has nothing left.
LEMMA OffIs == ScriptShape(Off) /\ LeftInWork(Off) /\ LeftInWork(Off)' BY DEF Off, ScriptShape, LeftInWork

\* A script starts on its first table.
LEMMA ScriptStarts == ASSUME PreloadSound, NEW p \in Loaders, StartScript(p) PROVE PreloadSound'
<1>1. Grows BY DEF StartScript, Grows, PreloadSound
<1>2. DOMAIN run_log' = Tables /\ LoggedIsLoaded'
    <2>1. run_log' = run_log BY DEF StartScript
    <2> QED BY <1>1, <2>1, StillLogged DEF PreloadSound
<1>3. PICK s \in {<<"batch", <<"warnings">>>>, <<"gap", <<"warnings">>>>, <<"gap_unique", <<"warnings">>>>,
                  <<"split", <<"features">>>>, <<"outputs", <<"pmax", "features", "warnings">>>>,
                  <<"outputs", <<"features", "warnings">>>>, <<"outputs", <<"warnings">>>>} :
          loader' = [loader EXCEPT ![p] = Begin(s[1], s[2])] BY DEF StartScript
<1>4. PICK kind : kind = s[1] OBVIOUS
<1>5. PICK ts : ts = s[2] OBVIOUS
<1>6. /\ ts \in Seq(Tables) /\ ts # <<>> /\ kind # "off" /\ (Tail(ts) # <<>> => kind = "outputs")
      /\ (kind \in {"gap", "gap_unique"} => Head(ts) = "warnings") /\ (kind = "split" => Head(ts) = "features")
    <2> DEFINE Fit(k, q) == /\ q \in Seq(Tables) /\ q # <<>> /\ k # "off" /\ (Tail(q) # <<>> => k = "outputs")
                            /\ (k \in {"gap", "gap_unique"} => Head(q) = "warnings")
                               /\ (k = "split" => Head(q) = "features")
    <2>1. Fit("batch", <<"warnings">>) BY DEF Tables
    <2>2. Fit("gap", <<"warnings">>) BY DEF Tables
    <2>3. Fit("gap_unique", <<"warnings">>) BY DEF Tables
    <2>4. Fit("split", <<"features">>) BY DEF Tables
    <2>5. Fit("outputs", <<"pmax", "features", "warnings">>) BY DEF Tables
    <2>6. Fit("outputs", <<"features", "warnings">>) BY DEF Tables
    <2>7. Fit("outputs", <<"warnings">>) BY DEF Tables
    <2> HIDE DEF Fit
    <2>8. Fit(kind, ts) BY <1>3, <1>4, <1>5, <2>1, <2>2, <2>3, <2>4, <2>5, <2>6, <2>7
    <2> QED BY <2>8 DEF Fit
<1>7. PICK new : new = Begin(kind, ts) OBVIOUS
<1>8. ScriptShape(new) /\ LeftInWork(new) BY <1>6, <1>7, Begun
<1>9. LeftInWork(new)' BY <1>1, <1>8, StillLeft
<1> QED BY <1>1, <1>2, <1>3, <1>4, <1>5, <1>7, <1>8, <1>9, ScriptMoves

\* What is tried instead of a chunk covers the chunk.
LEMMA RetryCovers ==
    ASSUME NEW kind, NEW c, DOMAIN c = {"rows", "tries"}, AfterError(kind, c) # {}, NEW i \in c.rows
    PROVE  \E d \in AfterError(kind, c) : i \in d.rows
<1>1. \/ AfterError(kind, c) = {[c EXCEPT !.tries = @ + 1]}
      \/ AfterError(kind, c) = Singles(c, 3) \/ AfterError(kind, c) = Singles(c, 0) \/ AfterError(kind, c) = Halves(c)
    BY DEF AfterError
<1>2. CASE AfterError(kind, c) = {[c EXCEPT !.tries = @ + 1]}
    <2>1. [c EXCEPT !.tries = @ + 1].rows = c.rows OBVIOUS
    <2> QED BY <1>2, <2>1
<1>3. ASSUME NEW n PROVE \E d \in Singles(c, n) : i \in d.rows
    <2>1. [rows |-> {i}, tries |-> n] \in Singles(c, n) BY DEF Singles
    <2>2. [rows |-> {i}, tries |-> n].rows = {i} OBVIOUS
    <2> QED BY <2>1, <2>2
<1>4. \E d \in Halves(c) : i \in d.rows BY DEF Halves, Chunk
<1> QED BY <1>1, <1>2, <1>3, <1>4

\* A failed insert is retried as chunks.
LEMMA RetriesAreChunks ==
    ASSUME NEW kind, NEW c, DOMAIN c = {"rows", "tries"}
           PROVE \A d \in AfterError(kind, c) : DOMAIN d = {"rows", "tries"}
<1>1. \/ AfterError(kind, c) = {} \/ AfterError(kind, c) = {[c EXCEPT !.tries = @ + 1]}
      \/ AfterError(kind, c) = Singles(c, 3) \/ AfterError(kind, c) = Singles(c, 0) \/ AfterError(kind, c) = Halves(c)
    BY DEF AfterError
<1>2. \A n : \A d \in Singles(c, n) : DOMAIN d = {"rows", "tries"} BY DEF Singles
<1>3. \A d \in Halves(c) : DOMAIN d = {"rows", "tries"} BY DEF Halves, Chunk
<1> QED BY <1>1, <1>2, <1>3

\* A chunk commits, or is replaced, or ends the script.
LEMMA ChunkInserted == ASSUME PreloadSound, NEW p \in Loaders, InsertChunk(p) PROVE PreloadSound'
<1>1. PICK j : j = loader[p] OBVIOUS
<1>2. PICK c \in j.work :
        /\ \/ Commit(j, c) /\ loader' = [loader EXCEPT ![p].work = @ \ {c}]
           \/ /\ Commit(j, c) \/ UNCHANGED <<preloaded, run_log>>
              /\ IF AfterError(j.kind, c) = {} THEN Raised(p)
                 ELSE loader' = [loader EXCEPT ![p].work = (@ \ {c}) \cup AfterError(j.kind, c)]
        /\ UNCHANGED files
    BY <1>1 DEF InsertChunk
<1>3. ScriptShape(j) /\ LeftInWork(j) BY <1>1 DEF PreloadSound
<1>4. j.kind # "off" /\ j.table \in Tables /\ DOMAIN c = {"rows", "tries"} BY <1>2, <1>3 DEF ScriptShape
<1>5. Grows BY <1>2, <1>4 DEF Commit, Grows, PreloadSound
<1>6. Commit(j, c) => \A k \in c.rows : files[j.table][k].key \in preloaded'[j.table]
    <2>1. Commit(j, c) => preloaded'[j.table] = preloaded[j.table] \cup KeysOf(j.table, c.rows)
        BY <1>4 DEF Commit, PreloadSound
    <2> QED BY <2>1 DEF KeysOf
<1>7. DOMAIN run_log' = Tables BY <1>2 DEF Commit, PreloadSound
<1>8. LoggedIsLoaded'
    <2>1. ASSUME NEW t \in Tables PROVE \/ run_log'[t] = run_log[t]
                                        \/ \A i \in Usable(t) : files[t][i].key \in preloaded'[t]
        <3>1. CASE UNCHANGED run_log BY <3>1
        <3>2. CASE Commit(j, c) /\ j.kind = "outputs" /\ j.table = "warnings" /\ t = "warnings"
            <4> SUFFICES ASSUME NEW i \in Usable(t) PROVE files[t][i].key \in preloaded'[t] OBVIOUS
            <4>1. CASE files[t][i].key \in preloaded[t] BY <1>5, <4>1 DEF Grows
            <4>2. CASE files[t][i].key \notin preloaded[t]
                <5>1. PICK d \in j.work : files[t][i].key \in KeysOf(t, d.rows) BY <1>3, <3>2, <4>2 DEF LeftInWork
                <5>2. d = c BY <1>2, <1>3, <3>2, <5>1 DEF ScriptShape
                <5> QED BY <1>6, <3>2, <5>1, <5>2 DEF KeysOf
            <4> QED BY <4>1, <4>2
        <3>3. CASE Commit(j, c) /\ j.kind = "outputs" /\ j.table = "warnings" /\ t # "warnings"
            BY <3>3 DEF Commit, PreloadSound
        <3> QED BY <1>2, <3>1, <3>2, <3>3 DEF Commit
    <2> QED BY <1>5, <1>7, <2>1, StillLogged
<1>9. CASE Raised(p) BY <1>5, <1>7, <1>8, <1>9, OffIs, ScriptMoves DEF Raised
<1>10. ASSUME NEW more, loader' = [loader EXCEPT ![p].work = (@ \ {c}) \cup more],
              \A d \in more : DOMAIN d = {"rows", "tries"}, j.kind = "outputs" => more = {},
              \A k \in c.rows : \/ files[j.table][k].key \in preloaded'[j.table] \/ \E d \in more : k \in d.rows
       PROVE  PreloadSound'
    <2>1. PICK new : new = [j EXCEPT !.work = (@ \ {c}) \cup more] OBVIOUS
    <2>2. loader' = [loader EXCEPT ![p] = new] BY <1>1, <1>10, <2>1
    <2>3. /\ DOMAIN new = {"kind", "table", "rest", "work", "expected", "final"} /\ new.kind = j.kind
             /\ new.table = j.table
          /\ new.rest = j.rest /\ new.work = (j.work \ {c}) \cup more BY <1>3, <2>1 DEF ScriptShape
    <2>4. ScriptShape(new) BY <1>3, <1>4, <1>10, <2>3 DEF ScriptShape
    <2>5. LeftInWork(new)'
        <3> SUFFICES ASSUME j.kind \notin {"off", "batch"}, NEW i \in Usable(j.table)
                     PROVE  \/ files[j.table][i].key \in preloaded'[j.table]
                            \/ \E d \in (j.work \ {c}) \cup more : files[j.table][i].key \in KeysOf(j.table, d.rows)
            BY <1>2, <2>3 DEF LeftInWork, Usable, KeysOf
        <3>1. CASE files[j.table][i].key \in preloaded[j.table] BY <1>4, <1>5, <3>1 DEF Grows
        <3>2. CASE files[j.table][i].key \notin preloaded[j.table]
            <4>1. PICK d \in j.work : files[j.table][i].key \in KeysOf(j.table, d.rows) BY <1>3, <3>2 DEF LeftInWork
            <4>2. CASE d # c BY <4>1, <4>2
            <4>3. CASE d = c
                <5>1. PICK k \in c.rows : files[j.table][k].key = files[j.table][i].key BY <4>1, <4>3 DEF KeysOf
                <5> QED BY <1>10, <5>1 DEF KeysOf
            <4> QED BY <4>2, <4>3
        <3> QED BY <3>1, <3>2
    <2> QED BY <1>5, <1>7, <1>8, <2>2, <2>4, <2>5, ScriptMoves
<1>11. CASE Commit(j, c) /\ loader' = [loader EXCEPT ![p].work = @ \ {c}]
    <2>1. PICK more : more = {} OBVIOUS
    <2>2. loader' = [loader EXCEPT ![p].work = (@ \ {c}) \cup more] BY <1>11, <2>1
    <2>3. \A d \in more : DOMAIN d = {"rows", "tries"} BY <2>1
    <2>4. \A k \in c.rows : \/ files[j.table][k].key \in preloaded'[j.table] \/ \E d \in more : k \in d.rows
        BY <1>6, <1>11
    <2>5. j.kind = "outputs" => more = {} BY <2>1
    <2> QED BY <1>10, <2>2, <2>3, <2>4, <2>5
<1>12. CASE AfterError(j.kind, c) # {} /\ loader' = [loader EXCEPT ![p].work = (@ \ {c}) \cup AfterError(j.kind, c)]
    <2>1. j.kind # "outputs" BY <1>12 DEF AfterError
    <2> QED BY <1>4, <1>10, <1>12, <2>1, RetryCovers, RetriesAreChunks
<1> QED BY <1>2, <1>9, <1>11, <1>12

\* The count, the log, and what else happens.
LEMMA PreloadStep == PreloadSound /\ [PreloadNext]_lvars => PreloadSound'
<1> SUFFICES ASSUME PreloadSound, [PreloadNext]_lvars PROVE PreloadSound' OBVIOUS
<1>1. ASSUME NEW p \in Loaders, count_actual(p) PROVE PreloadSound'
    <2>1. Grows /\ run_log' = run_log BY <1>1 DEF count_actual, Grows, PreloadSound
    <2>2. PICK new : new = [loader[p] EXCEPT !.final = Cardinality(preloaded["warnings"])] OBVIOUS
    <2>3. loader' = [loader EXCEPT ![p] = new] BY <1>1, <2>2 DEF count_actual
    <2>4. ScriptShape(loader[p]) /\ LeftInWork(loader[p]) BY DEF PreloadSound
    <2>5. ScriptShape(new) /\ LeftInWork(new) BY <2>2, <2>4 DEF ScriptShape, LeftInWork
    <2>6. LeftInWork(new)' BY <2>1, <2>5, StillLeft
    <2>7. DOMAIN run_log' = Tables /\ LoggedIsLoaded' BY <2>1, StillLogged DEF PreloadSound
    <2> QED BY <2>1, <2>3, <2>5, <2>6, <2>7, ScriptMoves
<1>2. ASSUME NEW p \in Loaders, write_log(p) PROVE PreloadSound'
    <2>1. PICK j : j = loader[p] OBVIOUS
    <2>2. ScriptShape(j) /\ LeftInWork(j) BY <2>1 DEF PreloadSound
    <2>3. j.kind # "off" /\ j.work = {} /\ j.table \in Tables /\ j.rest \in Seq(Tables)
        BY <1>2, <2>1, <2>2 DEF write_log, ScriptShape
    <2>4. Grows BY <1>2 DEF write_log, Grows, PreloadSound
    <2>5. j.kind # "batch" => \A i \in Usable(j.table) : files[j.table][i].key \in preloaded'[j.table]
        BY <2>2, <2>3, <2>4 DEF LeftInWork, Grows
    <2>6. run_log' = run_log \/ run_log' = [run_log EXCEPT ![j.table] = [status |-> LogStatus(j), by |-> j.kind]]
        BY <1>2, <2>1 DEF write_log
    <2>7. DOMAIN run_log' = Tables BY <2>6 DEF PreloadSound
    <2>8. ASSUME NEW t \in Tables PROVE \/ run_log'[t] = run_log[t] \/ run_log'[t].by = "batch"
                                        \/ \A i \in Usable(t) : files[t][i].key \in preloaded'[t]
        BY <2>3, <2>5, <2>6 DEF PreloadSound
    <2>9. LoggedIsLoaded' BY <2>4, <2>7, <2>8, StillLogged
    <2>10. PICK new : new = IF j.rest = <<>> THEN Off ELSE Begin(j.kind, j.rest) OBVIOUS
    <2>11. loader' = [loader EXCEPT ![p] = new] BY <1>2, <2>1, <2>10 DEF write_log
    <2>12. ScriptShape(new) /\ LeftInWork(new)
        <3>1. CASE j.rest = <<>> BY <2>10, <3>1, OffIs
        <3>2. CASE j.rest # <<>>
            <4>1. j.kind = "outputs" BY <2>2, <2>3, <3>2 DEF ScriptShape
            <4> QED BY <2>3, <2>10, <3>2, <4>1, Begun
        <3> QED BY <3>1, <3>2
    <2>13. LeftInWork(new)' BY <2>4, <2>12, StillLeft
    <2> QED BY <2>4, <2>7, <2>9, <2>11, <2>12, <2>13, ScriptMoves
<1>3. ASSUME NEW p \in Loaders, Die(p) PROVE PreloadSound'
    <2>1. Grows /\ run_log' = run_log BY <1>3 DEF Die, Grows, PreloadSound
    <2>2. DOMAIN run_log' = Tables /\ LoggedIsLoaded' BY <2>1, StillLogged DEF PreloadSound
    <2> QED BY <1>3, <2>1, <2>2, OffIs, ScriptMoves DEF Die
<1>4. ASSUME UNCHANGED <<files, run_log, loader>>, Grows PROVE PreloadSound'
    <2>1. DOMAIN run_log' = Tables /\ LoggedIsLoaded' BY <1>4, StillLogged DEF PreloadSound
    <2>2. ASSUME NEW q \in Loaders PROVE (ScriptShape(loader[q]) /\ LeftInWork(loader[q]))'
        <3>1. PICK j : j = loader[q] OBVIOUS
        <3>2. ScriptShape(j) /\ LeftInWork(j) BY <3>1 DEF PreloadSound
        <3>3. LeftInWork(j)' BY <1>4, <3>2, StillLeft
        <3> QED BY <1>4, <3>1, <3>2, <3>3 DEF LeftInWork, ScriptShape
    <2> QED BY <1>4, <2>1, <2>2 DEF PreloadSound, Grows
<1>5. ASSUME NEW k \in LiveKeys, LiveWrite(k) PROVE PreloadSound'
    <2>1. Grows BY <1>5 DEF LiveWrite, Grows, PreloadSound, Tables
    <2> QED BY <1>4, <1>5, <2>1 DEF LiveWrite
<1>6. CASE UNCHANGED lvars
    <2>1. Grows /\ UNCHANGED <<files, run_log, loader>> BY <1>6 DEF lvars, Grows, PreloadSound
    <2> QED BY <1>4, <2>1
<1> QED BY <1>1, <1>2, <1>3, <1>5, <1>6, ScriptStarts, ChunkInserted DEF PreloadNext

\* A log row that says success is the log of a complete load, whichever scripts ran beside each other, failed, retried,
\* committed without knowing it, or died (load_outputs_2023.py and the warning and feature loaders).
THEOREM LoggedLoadsAreComplete == PreloadSpec => []LoggedIsLoaded
<1>1. PreloadSound => LoggedIsLoaded BY DEF PreloadSound
<1> QED BY <1>1, PreloadStarts, PreloadStep, PTL DEF PreloadSpec

(***************************************************************************)
(* The replay of the archive.  When every file is in the order of time     *)
(* (FilesInOrder), a row past the end of the window ends the run only      *)
(* after the rows before it; and a row that was read is on the topic, in   *)
(* the producer's queue, in hand, or the run has counted a failure.        *)
(***************************************************************************)

\* The files are sequences of rows with a time.
LEMMA ArchiveIs ==
    /\ Len(Archived) \in Nat /\ FileNos = 1..Len(Archived) /\ IsFiniteSet(FileNos)
    /\ \A f \in FileNos : /\ Archived[f].meter \in Nat /\ Len(Archived[f].rows) \in Nat
                          /\ DOMAIN Archived[f].rows = 1..Len(Archived[f].rows)
    /\ \A r \in AllRows : RowTime(r) \in Nat
<1>1. Len(Archived) \in Nat /\ FileNos = 1..Len(Archived) BY ArchiveAssumption DEF FileNos
<1>2. IsFiniteSet(FileNos) BY <1>1, FS_Interval
<1>3. \A f \in FileNos : Archived[f] \in [meter : Nat, rows : Seq([ts : Nat, kind : Kinds])]
    BY ArchiveAssumption, ElementOfSeq, <1>1
<1>4. \A f \in FileNos : Archived[f].meter \in Nat /\ Archived[f].rows \in Seq([ts : Nat, kind : Kinds]) BY <1>3
<1>5. \A f \in FileNos : /\ Len(Archived[f].rows) \in Nat
                         /\ DOMAIN Archived[f].rows = 1..Len(Archived[f].rows) BY <1>4
<1>6. ASSUME NEW r \in AllRows PROVE RowTime(r) \in Nat
    <2>1. PICK f \in FileNos : r \in {f} \X DOMAIN Archived[f].rows BY DEF AllRows
    <2>2. r[1] = f /\ r[2] \in DOMAIN Archived[f].rows BY <2>1
    <2>3. Archived[f].rows[r[2]] \in [ts : Nat, kind : Kinds] BY <1>4, <1>5, <2>2, ElementOfSeq
    <2> QED BY <2>2, <2>3 DEF RowTime
<1> QED BY <1>1, <1>2, <1>4, <1>5, <1>6

\* The windows are numbered.
LEMMA CutsAre == Len(Cuts) \in Nat /\ DOMAIN Cuts = 1..Len(Cuts) /\ \A i \in 1..Len(Cuts) : Cuts[i] \in Nat
BY ArchiveAssumption

\* The borders of the windows grow, not only from one to the next.
LEMMA CutsGrow == ASSUME NEW v \in DOMAIN Cuts, NEW w \in DOMAIN Cuts, v < w PROVE Cuts[v] < Cuts[w]
<1> DEFINE Bad == {u \in DOMAIN Cuts : v < u /\ ~(Cuts[v] < Cuts[u])}
<1>1. SUFFICES ASSUME Bad # {} PROVE FALSE OBVIOUS
<1>2. Bad \subseteq Int /\ 1 \in Int /\ \A u \in Bad : 1 <= u BY CutsAre
<1>3. PICK u \in Bad : \A x \in Bad : u <= x
    <2> HIDE DEF Bad
    <2> QED BY <1>1, <1>2, LeastExists
<1>4. u - 1 \in DOMAIN Cuts /\ v <= u - 1 /\ u \in DOMAIN Cuts \ {1} BY <1>3, CutsAre
<1>5. Cuts[u - 1] < Cuts[u] BY <1>4, ArchiveAssumption
<1>6. u - 1 \notin Bad BY <1>2, <1>3
<1> QED BY <1>3, <1>4, <1>5, <1>6, CutsAre

\* Counting the members below gives different numbers, for any strict total order of a finite set.
LEMMA PlacesDiffer ==
    ASSUME NEW S, IsFiniteSet(S), NEW R, \A a \in S : <<a, a>> \notin R,
           \A a, b, c \in S : <<a, b>> \in R /\ <<b, c>> \in R => <<a, c>> \in R,
           NEW f \in S, NEW g \in S, <<f, g>> \in R
    PROVE  /\ Cardinality({a \in S : <<a, f>> \in R}) \in Nat
           /\ Cardinality({a \in S : <<a, g>> \in R}) \in Nat
           /\ Cardinality({a \in S : <<a, f>> \in R}) < Cardinality({a \in S : <<a, g>> \in R})
<1> DEFINE F == {a \in S : <<a, f>> \in R}
           G == {a \in S : <<a, g>> \in R}
<1>1. F \subseteq G /\ G \subseteq S /\ f \in G /\ f \notin F OBVIOUS
<1> HIDE DEF F, G
<1>2. IsFiniteSet(G) BY <1>1, FS_Subset
<1>3. IsFiniteSet(F) /\ Cardinality(F) <= Cardinality(G) /\ Cardinality(F) # Cardinality(G) BY <1>1, <1>2, FS_Subset
<1>4. Cardinality(F) \in Nat /\ Cardinality(G) \in Nat BY <1>2, <1>3, FS_CardinalityType
<1> QED BY <1>3, <1>4 DEF F, G

\* The rounds of the files of one meter grow.
LEMMA RoundsGrow ==
    /\ \A f \in FileNos : Round(f) \in Nat
    /\ \A f, g \in FileNos : f < g /\ Archived[f].meter = Archived[g].meter => Round(f) < Round(g)
<1> DEFINE E(f) == {h \in FileNos : h < f /\ Archived[h].meter = Archived[f].meter}
<1>0. \A f \in FileNos : f \in Nat BY ArchiveIs
<1>1. \A f \in FileNos : IsFiniteSet(E(f)) /\ Round(f) = Cardinality(E(f)) BY ArchiveIs, FS_Subset DEF Round
<1>2. ASSUME NEW f \in FileNos, NEW g \in FileNos, f < g, Archived[f].meter = Archived[g].meter
      PROVE  E(f) \subseteq E(g) /\ f \in E(g) /\ f \notin E(f) BY <1>0, <1>2
<1> HIDE DEF E
<1>3. \A f \in FileNos : Round(f) \in Nat BY <1>1, FS_CardinalityType
<1>4. ASSUME NEW f \in FileNos, NEW g \in FileNos, f < g, Archived[f].meter = Archived[g].meter
             PROVE Round(f) < Round(g)
    <2>1. E(f) \subseteq E(g) /\ f \in E(g) /\ f \notin E(f) BY <1>2, <1>4
    <2>2. Cardinality(E(f)) <= Cardinality(E(g)) /\ Cardinality(E(f)) # Cardinality(E(g)) BY <1>1, <2>1, FS_Subset
    <2> QED BY <1>1, <1>3, <2>2
<1> QED BY <1>3, <1>4

\* meter-balanced orders the files.
LEMMA TakenInOrder ==
    /\ \A f \in FileNos : ~TakenBefore(f, f)
    /\ \A f, g, h \in FileNos : TakenBefore(f, g) /\ TakenBefore(g, h) => TakenBefore(f, h)
    /\ \A f, g \in FileNos : f # g => TakenBefore(f, g) \/ TakenBefore(g, f)
<1>1. \A f \in FileNos : Round(f) \in Nat /\ Archived[f].meter \in Nat /\ f \in Nat BY RoundsGrow, ArchiveIs
<1>2. \A f, g \in FileNos : f # g /\ Archived[f].meter = Archived[g].meter => Round(f) # Round(g) BY <1>1, RoundsGrow
<1> QED BY <1>1, <1>2 DEF TakenBefore, MeterOrder

\* Every file that was chosen has a place of its own in the merge.
LEMMA OrderIs ==
    /\ DOMAIN select_source_files \subseteq FileNos
    /\ \A f \in DOMAIN select_source_files : select_source_files[f] \in Nat
    /\ \A f, g \in DOMAIN select_source_files : f # g => select_source_files[f] # select_source_files[g]
<1> DEFINE Before(f, g) == IF mode = "meter-balanced" THEN TakenBefore(f, g) ELSE f < g
           Place == [f \in FileNos |-> Cardinality({g \in FileNos : Before(g, f)})]
           R == {p \in FileNos \X FileNos : Before(p[1], p[2])}
<1> HIDE DEF Before, Place, R
<1>1. \A f \in FileNos : f \in Nat BY ArchiveIs
<1>2. /\ \A f \in FileNos : ~Before(f, f)
      /\ \A f, g, h \in FileNos : Before(f, g) /\ Before(g, h) => Before(f, h)
      /\ \A f, g \in FileNos : f # g => Before(f, g) \/ Before(g, f)
    BY <1>1, TakenInOrder DEF Before
<1>3. \A f, g \in FileNos : <<f, g>> \in R <=> Before(f, g) BY DEF R
<1>4. select_source_files = [f \in {g \in FileNos : mode = "all-meters" \/ Place[g] < MaxFiles} |-> Place[f]]
    BY DEF select_source_files, Place, Before
<1>5. \A f \in FileNos : {g \in FileNos : <<g, f>> \in R} = {g \in FileNos : Before(g, f)} BY <1>3
<1>6. \A f \in FileNos : Place[f] = Cardinality({g \in FileNos : <<g, f>> \in R}) BY <1>5 DEF Place
<1>7. \A f \in FileNos : Place[f] \in Nat
    <2> TAKE f \in FileNos
    <2>1. {g \in FileNos : Before(g, f)} \in SUBSET FileNos OBVIOUS
    <2>2. IsFiniteSet({g \in FileNos : Before(g, f)}) BY <2>1, ArchiveIs, FS_Subset
    <2>3. Place[f] = Cardinality({g \in FileNos : Before(g, f)}) BY DEF Place
    <2> QED BY <2>2, <2>3, FS_CardinalityType
<1>8. \A f, g \in FileNos : <<f, g>> \in R => Place[f] < Place[g]
    <2>1. \A a \in FileNos : <<a, a>> \notin R BY <1>2, <1>3
    <2>2. \A a, b, c \in FileNos : <<a, b>> \in R /\ <<b, c>> \in R => <<a, c>> \in R BY <1>2, <1>3
    <2>3. IsFiniteSet(FileNos) BY ArchiveIs
    <2> TAKE f, g \in FileNos
    <2> HAVE <<f, g>> \in R
    <2>4. Cardinality({a \in FileNos : <<a, f>> \in R}) < Cardinality({a \in FileNos : <<a, g>> \in R})
        BY <2>1, <2>2, <2>3, PlacesDiffer
    <2> QED BY <1>6, <2>4
<1>9. \A f, g \in FileNos : f # g => Place[f] # Place[g]
    <2> TAKE f, g \in FileNos
    <2> HAVE f # g
    <2>1. <<f, g>> \in R \/ <<g, f>> \in R BY <1>2, <1>3
    <2>2. Place[f] < Place[g] \/ Place[g] < Place[f] BY <1>8, <2>1
    <2> QED BY <1>7, <2>2
<1> QED BY <1>4, <1>7, <1>9

\* Files of different meters have as many meters as there are files.
LEMMA MetersCounted ==
    ASSUME NEW B \in SUBSET FileNos
    PROVE  /\ IsFiniteSet(B) /\ Cardinality(B) \in Nat /\ IsFiniteSet(MetersOf(B)) /\ Cardinality(MetersOf(B)) \in Nat
           /\ Cardinality(MetersOf(B)) <= Cardinality(B)
           /\ (\A f, g \in B : f # g => Archived[f].meter # Archived[g].meter)
              => Cardinality(MetersOf(B)) = Cardinality(B)
<1> DEFINE m == [f \in B |-> Archived[f].meter]
<1>1. IsFiniteSet(B) /\ Cardinality(B) \in Nat BY ArchiveIs, FS_Subset, FS_CardinalityType
<1>2. m \in Surjection(B, MetersOf(B)) BY DEF Surjection, MetersOf
<1>3. (\A f, g \in B : f # g => Archived[f].meter # Archived[g].meter) => m \in Injection(B, MetersOf(B))
    BY DEF Injection, IsInjective, MetersOf
<1> HIDE DEF m
<1>4. /\ IsFiniteSet(MetersOf(B)) /\ Cardinality(MetersOf(B)) <= Cardinality(B)
      /\ Cardinality(MetersOf(B)) = Cardinality(B) <=> m \in Injection(B, MetersOf(B))
    BY <1>1, <1>2, FS_Surjection
<1>5. Cardinality(MetersOf(B)) \in Nat BY <1>4, FS_CardinalityType
<1> QED BY <1>1, <1>3, <1>4, <1>5

\* Among files there is one of least meter.
LEMMA LeastMeter == ASSUME NEW B \in SUBSET FileNos, B # {}
                    PROVE \E f \in B : \A g \in B : Archived[f].meter <= Archived[g].meter
<1>1. MetersOf(B) \subseteq Int /\ MetersOf(B) # {} /\ 0 \in Int /\ \A x \in MetersOf(B) : 0 <= x
    <2>1. \A f \in B : Archived[f].meter \in Nat BY ArchiveIs
    <2>2. \A x \in MetersOf(B) : x \in Nat BY <2>1 DEF MetersOf
    <2>3. MetersOf(B) # {} BY DEF MetersOf
    <2> QED BY <2>2, <2>3
<1>2. PICK x \in MetersOf(B) : \A y \in MetersOf(B) : x <= y BY <1>1, LeastExists
<1> QED BY <1>2 DEF MetersOf

\* Every meter has a first file.
LEMMA FirstOfMeter == ASSUME NEW f \in FileNos PROVE \E g \in FileNos : Archived[g].meter = Archived[f].meter
  /\ Round(g) = 0
<1> DEFINE Same == {g \in FileNos : Archived[g].meter = Archived[f].meter}
<1>1. Same \subseteq Int /\ Same # {} /\ 0 \in Int /\ \A x \in Same : 0 <= x BY ArchiveIs
<1>2. PICK g \in Same : \A y \in Same : g <= y
    <2> HIDE DEF Same
    <2> QED BY <1>1, LeastExists
<1>3. {h \in FileNos : h < g /\ Archived[h].meter = Archived[g].meter} = {} BY <1>2, ArchiveIs
<1>4. Round(g) = 0 BY <1>3, FS_EmptySet DEF Round
<1> QED BY <1>2, <1>4

\* No choice of as many files has more meters than the balanced one.
LEMMA BalancedIsBest ==
    ASSUME mode = "meter-balanced", NEW fs \in SUBSET FileNos, Cardinality(fs) <= MaxFiles
    PROVE  Cardinality(MetersOf(fs)) <= Cardinality(MetersOf(DOMAIN select_source_files))
<1> DEFINE Sel == DOMAIN select_source_files
           First == {f \in FileNos : Round(f) = 0}
           Below(f) == {g \in FileNos : TakenBefore(g, f)}
<1>0. MaxFiles \in Nat BY ArchiveAssumption
<1>1. Sel = {f \in FileNos : Cardinality(Below(f)) < MaxFiles}
    BY DEF select_source_files
<1> HIDE DEF Sel
<1>2. CASE First \subseteq Sel
    <2>1. MetersOf(fs) \subseteq MetersOf(Sel)
        <3> SUFFICES ASSUME NEW f \in fs PROVE Archived[f].meter \in MetersOf(Sel) BY DEF MetersOf
        <3>1. PICK g \in FileNos : Archived[g].meter = Archived[f].meter /\ Round(g) = 0 BY FirstOfMeter
        <3> QED BY <1>2, <3>1 DEF MetersOf
    <2>2. Sel \in SUBSET FileNos BY <1>1
    <2>3. IsFiniteSet(MetersOf(Sel)) BY <2>2, MetersCounted
    <2> QED BY <2>1, <2>3, FS_Subset DEF Sel
<1>3. CASE First \ Sel # {}
    <2>1. PICK f \in First \ Sel : \A g \in First \ Sel : Archived[f].meter <= Archived[g].meter
        <3> DEFINE Left == First \ Sel
        <3>1. Left \in SUBSET FileNos /\ Left # {} BY <1>3
        <3> HIDE DEF Left
        <3>2. \E f \in Left : \A g \in Left : Archived[f].meter <= Archived[g].meter BY <3>1, LeastMeter
        <3> QED BY <3>2 DEF Left
    <2>2. \A g \in FileNos : Round(g) \in Nat /\ Archived[g].meter \in Nat /\ g \in Nat BY RoundsGrow, ArchiveIs
    <2>3. \A g \in Below(f) : g \in First /\ Archived[g].meter < Archived[f].meter
        BY <2>1, <2>2 DEF TakenBefore, MeterOrder
    <2>4. Below(f) \subseteq Sel BY <2>1, <2>2, <2>3
    <2>5. \A g, h \in Below(f) : g # h => Archived[g].meter # Archived[h].meter
        <3> SUFFICES ASSUME NEW g \in Below(f), NEW h \in Below(f), g < h, Archived[g].meter = Archived[h].meter
          PROVE FALSE
            BY <2>2
        <3>1. Round(g) = 0 /\ Round(h) = 0 BY <2>3
        <3> QED BY <3>1, RoundsGrow
    <2>6. Below(f) \in SUBSET FileNos /\ Sel \in SUBSET FileNos BY <1>1
    <2>7. f \in FileNos /\ ~(Cardinality(Below(f)) < MaxFiles) BY <1>1, <2>1
    <2> HIDE DEF Below, First
    <2>8. Cardinality(MetersOf(Below(f))) = Cardinality(Below(f)) /\ Cardinality(Below(f)) \in Nat
        BY <2>5, <2>6, MetersCounted
    <2>9. MetersOf(Below(f)) \subseteq MetersOf(Sel) BY <2>4 DEF MetersOf
    <2>10. IsFiniteSet(MetersOf(Sel)) /\ Cardinality(MetersOf(Sel)) \in Nat BY <2>6, MetersCounted
    <2>11. Cardinality(MetersOf(Below(f))) <= Cardinality(MetersOf(Sel)) BY <2>9, <2>10, FS_Subset
    <2>12. /\ Cardinality(MetersOf(fs)) <= Cardinality(fs) /\ Cardinality(fs) \in Nat
              /\ Cardinality(MetersOf(fs)) \in Nat
        BY MetersCounted
    <2>13. Cardinality(MetersOf(fs)) <= Cardinality(MetersOf(Sel)) BY <1>0, <2>7, <2>8, <2>10, <2>11, <2>12
    <2> QED BY <2>13 DEF Sel
<1> QED BY <1>2, <1>3

\* The files are in the order of their rows' times, as heapq.merge needs them.
FilesInOrder ==
    \A f \in FileNos : \A m, n \in DOMAIN Archived[f].rows :
        m < n /\ Kind(<<f, m>>) # "unparsable"
          /\ Kind(<<f, n>>) # "unparsable" => RowTime(<<f, m>>) <= RowTime(<<f, n>>)

\* What a run needs to know of itself for the merge to make sense.
Reading(j) ==
    /\ j.window \in WindowNos /\ DOMAIN j.order \subseteq FileNos /\ DOMAIN j.read = FileNos
    /\ \A f \in FileNos : j.read[f] \in Nat
    /\ \A f \in DOMAIN j.order : j.order[f] \in Nat
    /\ \A f, g \in DOMAIN j.order : f # g => j.order[f] # j.order[g]

\* The head of a file is its first unread row.
LEMMA HeadIs ==
    ASSUME NEW j, Reading(j), NEW f \in DOMAIN j.order, Unread(j, f) # {}
    PROVE  \E n \in Unread(j, f) : <<f, n>> \in Heads(j) /\ \A k \in Unread(j, f) : n <= k
<1> DEFINE n == CHOOSE n \in Unread(j, f) : \A k \in Unread(j, f) : n <= k
<1>1. Unread(j, f) \subseteq Int /\ 0 \in Int /\ \A k \in Unread(j, f) : 0 <= k
    BY ArchiveIs DEF Unread, Reading
<1>2. \E m \in Unread(j, f) : \A k \in Unread(j, f) : m <= k BY <1>1, LeastExists
<1>3. n \in Unread(j, f) /\ \A k \in Unread(j, f) : n <= k BY <1>2
<1>4. <<f, n>> \in Heads(j) BY DEF Heads
<1> QED BY <1>3, <1>4

\* A head is the first unread row of its file.
LEMMA HeadsAre ==
    ASSUME NEW j, Reading(j), NEW r \in Heads(j)
    PROVE  \E f \in DOMAIN j.order : \E n \in Unread(j, f) :
              /\ r = <<f, n>> /\ r \in AllRows /\ Kind(r) # "unparsable" /\ RowTime(r) >= Cuts[j.window]
                 /\ n > j.read[f]
              /\ \A k \in Unread(j, f) : n <= k
<1>1. PICK f \in {g \in DOMAIN j.order : Unread(j, g) # {}} :
        r = <<f, CHOOSE n \in Unread(j, f) : \A k \in Unread(j, f) : n <= k>> BY DEF Heads
<1>2. Unread(j, f) \subseteq Int /\ 0 \in Int /\ \A k \in Unread(j, f) : 0 <= k
    BY <1>1, ArchiveIs DEF Unread, Reading
<1>3. \E m \in Unread(j, f) : \A k \in Unread(j, f) : m <= k BY <1>1, <1>2, LeastExists
<1>4. PICK n \in Unread(j, f) : r = <<f, n>> /\ \A k \in Unread(j, f) : n <= k BY <1>1, <1>3
<1>5. f \in FileNos BY <1>1 DEF Reading
<1>6. n \in DOMAIN Archived[f].rows /\ n > j.read[f] /\ Kind(<<f, n>>) # "unparsable"
      /\ RowTime(<<f, n>>) >= Cuts[j.window]
    BY <1>4, <1>5, ArchiveIs DEF Unread, Reading
<1>7. <<f, n>> \in AllRows BY <1>5, <1>6 DEF AllRows
<1> QED BY <1>1, <1>4, <1>6, <1>7

\* The heap gives one row, unless there is none.
LEMMA NextIsFirst ==
    ASSUME NEW j, Reading(j), Heads(j) # {}
    PROVE  \E r \in NextRow(j) : \A s \in Heads(j) : RowTime(r) <= RowTime(s)
<1>0. \A r \in Heads(j) : r \in AllRows /\ r[1] \in DOMAIN j.order BY HeadsAre
<1>1. \A r \in Heads(j) : RowTime(r) \in Nat BY <1>0, ArchiveIs
<1> DEFINE Times == {RowTime(r) : r \in Heads(j)}
<1>2. Times \subseteq Int /\ Times # {} /\ 0 \in Int /\ \A t \in Times : 0 <= t BY <1>1
<1>3. PICK t \in Times : \A u \in Times : t <= u
    <2> HIDE DEF Times
    <2> QED BY <1>2, LeastExists
<1> DEFINE Earliest == {r \in Heads(j) : RowTime(r) = t}
           Places == {j.order[r[1]] : r \in Earliest}
<1>4. Places \subseteq Int /\ Places # {} /\ 0 \in Int /\ \A p \in Places : 0 <= p BY <1>0, <1>3 DEF Reading
<1>5. PICK p \in Places : \A q \in Places : p <= q
    <2> HIDE DEF Places
    <2> QED BY <1>4, LeastExists
<1>6. PICK r \in Earliest : j.order[r[1]] = p BY <1>5
<1>7. \A s \in Heads(j) : s[1] = r[1] => s = r
    <2> SUFFICES ASSUME NEW s \in Heads(j), s[1] = r[1] PROVE s = r OBVIOUS
    <2>1. r \in Heads(j) BY <1>6
    <2>2. PICK f \in {g \in DOMAIN j.order : Unread(j, g) # {}} :
            r = <<f, CHOOSE n \in Unread(j, f) : \A k \in Unread(j, f) : n <= k>> BY <2>1 DEF Heads
    <2>3. PICK g \in {h \in DOMAIN j.order : Unread(j, h) # {}} :
            s = <<g, CHOOSE n \in Unread(j, g) : \A k \in Unread(j, g) : n <= k>> BY DEF Heads
    <2>4. f = g BY <2>2, <2>3
    <2> QED BY <2>2, <2>3, <2>4
<1>8. ASSUME NEW s \in Heads(j) \ {r} PROVE MergedBefore(j, r, s)
    <2>1. RowTime(r) = t /\ RowTime(r) \in Nat /\ RowTime(s) \in Nat /\ t <= RowTime(s) BY <1>1, <1>3, <1>6
    <2>2. CASE RowTime(s) # t BY <2>1, <2>2 DEF MergedBefore
    <2>3. CASE RowTime(s) = t
        <3>1. p <= j.order[s[1]] BY <1>5, <2>3
        <3>2. s[1] # r[1] BY <1>7
        <3>3. j.order[s[1]] # j.order[r[1]] /\ j.order[s[1]] \in Nat /\ j.order[r[1]] \in Nat
            BY <1>0, <1>6, <3>2 DEF Reading
        <3> QED BY <1>6, <2>1, <2>3, <3>1, <3>3 DEF MergedBefore
    <2> QED BY <2>2, <2>3
<1>9. r \in NextRow(j) BY <1>6, <1>8 DEF NextRow
<1> QED BY <1>3, <1>6, <1>9

\* The merge takes one row: rows of one time are in the order of their files.
LEMMA NextIsOne ==
    ASSUME NEW j, Reading(j), NEW r \in NextRow(j), NEW s \in NextRow(j) PROVE r = s
<1> SUFFICES ASSUME r # s PROVE FALSE OBVIOUS
<1>1. r \in Heads(j) /\ s \in Heads(j) /\ MergedBefore(j, r, s) /\ MergedBefore(j, s, r) BY DEF NextRow
<1>2. RowTime(r) \in Nat /\ RowTime(s) \in Nat /\ r[1] \in DOMAIN j.order /\ s[1] \in DOMAIN j.order /\ r[2] \in Int
      /\ s[2] \in Int
    <2>1. ASSUME NEW h \in Heads(j) PROVE RowTime(h) \in Nat /\ h[1] \in DOMAIN j.order /\ h[2] \in Int
        <3>1. PICK f \in DOMAIN j.order : \E n \in Unread(j, f) : h = <<f, n>> /\ h \in AllRows BY HeadsAre
        <3>2. PICK n \in Unread(j, f) : h = <<f, n>> /\ h \in AllRows BY <3>1
        <3>3. n \in Int BY ArchiveIs DEF Unread, Reading
        <3> QED BY <3>2, <3>3, ArchiveIs
    <2> QED BY <1>1, <2>1
<1>3. j.order[r[1]] \in Nat /\ j.order[s[1]] \in Nat BY <1>2 DEF Reading
<1> QED BY <1>1, <1>2, <1>3 DEF MergedBefore

\* What a replay remembers.
JobFields == {"tool", "window", "at", "order", "read", "row", "emitted", "invalid", "errors", "acked"}

\* A run in progress reads the files of its mode, and only the publisher has a queue.
JobShape ==
    /\ DOMAIN job = JobFields
    /\ job.tool \in {"none", "publisher", "injector"} /\ job.at \in {"over", "read", "produce", "post"}
    /\ job.tool = "none" => job.at = "over"
    /\ job.tool # "none" => Reading(job) /\ job.order = select_source_files
    /\ job.emitted \in Nat /\ job.invalid \in Nat /\ job.errors \in Nat
    /\ job.at = "produce" => job.tool = "publisher"
    /\ job.at = "post" => job.tool = "injector"
    /\ job.tool = "injector" => job.invalid = 0
    /\ job.tool # "publisher" \/ job.at = "over" => pending = {}
    /\ DOMAIN exits = WindowNos /\ IsFiniteSet(reports)

\* What is queued, or on its way there, is of the run's window, and what was sent is of the window it names.
RowsOfTheirWindow ==
    /\ \A r \in pending \cup (IF job.at = "produce" THEN {job.row} ELSE {}) : r \in AllRows /\ OfWindow(r, job.window)
    /\ \A x \in sent : x[1] \in WindowNos => <<x[2], x[3]>> \in AllRows /\ OfWindow(<<x[2], x[3]>>, x[1])

\* A failure of this run that it counted or is about to.
RunFailed(j) == j.invalid > 0 \/ j.errors > 0 \/ \E p \in reports : p[2] = "error"

\* Row r is not lost: it is on the topic, in the queue, in hand, or the run will not be clean.
KeptRow(j, r) ==
    \/ SourceEventId(j, r) \in sent \/ r \in pending \/ RunFailed(j)
    \/ j.at \in {"produce", "post"} /\ r = j.row

\* The rows a run has read.
ReadOf(j) == {r \in AllRows : /\ r[1] \in DOMAIN j.order /\ r[2] <= j.read[r[1]]
                              /\ Kind(r) # "unparsable" /\ RowTime(r) >= Cuts[j.window]}
\* None of them is lost.
Accounted == job.at # "over" => \A r \in ReadOf(job) : KeptRow(job, r)

\* A run is refused for want of meters only.
RefusedForMeters ==
    (\E w \in WindowNos : exits[w] = "refused") => Cardinality(MetersOf(DOMAIN select_source_files)) < RequiredMeters

\* The invariant of the replay tools.
PublisherSound == JobShape /\ RowsOfTheirWindow /\ Accounted /\ RefusedForMeters /\ CleanRunIsWhole

\* No run has begun at the start.
LEMMA PublisherStarts == PublisherInit => PublisherSound
<1> SUFFICES ASSUME PublisherInit PROVE PublisherSound OBVIOUS
<1>1. /\ DOMAIN job = JobFields /\ job.tool = "none" /\ job.at = "over" /\ job.emitted = 0 /\ job.invalid = 0
         /\ job.errors = 0
    BY DEF PublisherInit, NoJob, JobFields
<1>2. JobShape BY <1>1, FS_EmptySet DEF JobShape, PublisherInit
<1>3. RowsOfTheirWindow BY <1>1 DEF RowsOfTheirWindow, PublisherInit
<1>4. Accounted /\ CleanRunIsWhole BY <1>1 DEF Accounted, CleanRunIsWhole
<1>5. RefusedForMeters BY DEF RefusedForMeters, PublisherInit
<1> QED BY <1>2, <1>3, <1>4, <1>5 DEF PublisherSound

\* The windows tile, and a refused run could not have been made.
LEMMA PublisherEnough == PublisherSound => ArchiveInv
<1> SUFFICES ASSUME PublisherSound PROVE ArchiveInv OBVIOUS
<1>1. NoRowUnderTwoRuns
    <2> SUFFICES ASSUME NEW v \in WindowNos, NEW w \in WindowNos, v # w, NEW r \in Published(v) \cap Published(w)
      PROVE FALSE
        BY DEF NoRowUnderTwoRuns
    <2>1. PICK x \in sent : x[1] = v /\ r = <<x[2], x[3]>> BY DEF Published
    <2>2. PICK y \in sent : y[1] = w /\ r = <<y[2], y[3]>> BY DEF Published
    <2>3. r \in AllRows /\ OfWindow(r, v) /\ OfWindow(r, w) BY <2>1, <2>2 DEF PublisherSound, RowsOfTheirWindow
    <2>4. v \in DOMAIN Cuts /\ v + 1 \in DOMAIN Cuts /\ w \in DOMAIN Cuts /\ w + 1 \in DOMAIN Cuts
        BY CutsAre DEF WindowNos
    <2>5. RowTime(r) \in Nat BY <2>3, ArchiveIs
    <2>6. ASSUME NEW a \in DOMAIN Cuts, NEW b \in DOMAIN Cuts, a + 1 \in DOMAIN Cuts, a < b PROVE Cuts[a + 1] <= Cuts[b]
        <3>1. a + 1 = b \/ a + 1 < b BY <2>6, CutsAre
        <3> QED BY <2>6, <3>1, CutsGrow, CutsAre
    <2>7. v < w \/ w < v BY DEF WindowNos
    <2>8. /\ Cuts[v] \in Nat /\ Cuts[v + 1] \in Nat /\ Cuts[w] \in Nat /\ Cuts[w + 1] \in Nat BY <2>4, CutsAre
    <2>9. v < w => Cuts[v + 1] <= Cuts[w] BY <2>4, <2>6
    <2>10. w < v => Cuts[w + 1] <= Cuts[v] BY <2>4, <2>6
    <2> QED BY <2>3, <2>5, <2>7, <2>8, <2>9, <2>10 DEF OfWindow
<1>2. RefusedOnlyIfImpossible
    <2> SUFFICES ASSUME mode = "meter-balanced", \E w \in WindowNos : exits[w] = "refused", NEW fs \in SUBSET FileNos,
                        Cardinality(fs) <= MaxFiles PROVE Cardinality(MetersOf(fs)) < RequiredMeters
        BY DEF RefusedOnlyIfImpossible
    <2>1. Cardinality(MetersOf(DOMAIN select_source_files)) < RequiredMeters BY DEF PublisherSound, RefusedForMeters
    <2>2. Cardinality(MetersOf(fs)) <= Cardinality(MetersOf(DOMAIN select_source_files)) BY BalancedIsBest
    <2>3. DOMAIN select_source_files \in SUBSET FileNos BY OrderIs
    <2>4. Cardinality(MetersOf(DOMAIN select_source_files)) \in Nat /\ Cardinality(MetersOf(fs)) \in Nat
        BY <2>3, MetersCounted
    <2> QED BY <2>1, <2>2, <2>4, ArchiveAssumption
<1> QED BY <1>1, <1>2 DEF PublisherSound, ArchiveInv

\* The choice of the files only reads the mode.
LEMMA SameFiles == ASSUME mode' = mode PROVE select_source_files' = select_source_files
BY DEF select_source_files

\* A run starts, or is refused.
LEMMA RunStarts == ASSUME PublisherSound, NEW tool \in {"publisher", "injector"}, NEW w \in WindowNos, StartRun(tool, w)
                   PROVE PublisherSound'
<1>1. /\ job.at = "over" /\ UNCHANGED <<mode, pending, reports, sent>> /\ pending = {} /\ job.at # "produce"
    BY DEF StartRun, PublisherSound, JobShape
<1>2. select_source_files' = select_source_files BY <1>1, SameFiles
<1>3. CASE /\ Cardinality(MetersOf(DOMAIN select_source_files)) < RequiredMeters
           /\ exits' = [exits EXCEPT ![w] = "refused"] /\ job' = job
    <2>1. JobShape' BY <1>1, <1>2, <1>3 DEF PublisherSound, JobShape, Reading
    <2>2. RowsOfTheirWindow' /\ Accounted' BY <1>1, <1>3 DEF PublisherSound, RowsOfTheirWindow, Accounted
    <2>3. RefusedForMeters' BY <1>2, <1>3 DEF RefusedForMeters
    <2>4. CleanRunIsWhole'
        <3>1. exits'[job.window] = "ok" => exits[job.window] = "ok" \/ job.window \notin WindowNos
            BY <1>3 DEF PublisherSound, JobShape
        <3>2. job.tool # "none" => job.window \in WindowNos BY DEF PublisherSound, JobShape, Reading
        <3>3. job.tool # "none" /\ Clean(job)' => Clean(job) BY <1>3, <3>1, <3>2 DEF Clean
        <3> QED BY <1>1, <1>3, <3>3 DEF PublisherSound, CleanRunIsWhole, Wanted, Truncated, SourceEventId
    <2> QED BY <2>1, <2>2, <2>3, <2>4 DEF PublisherSound
<1>4. CASE /\ job' = [NoJob EXCEPT !.tool = tool, !.window = w, !.at = "read", !.order = select_source_files]
           /\ exits' = exits
    <2>1. /\ DOMAIN job' = JobFields /\ job'.tool = tool /\ job'.window = w /\ job'.at = "read"
             /\ job'.order = select_source_files
          /\ job'.read = [f \in FileNos |-> 0] /\ job'.emitted = 0 /\ job'.invalid = 0 /\ job'.errors = 0
        BY <1>4 DEF NoJob, JobFields
    <2>2. Reading(job)' BY <2>1, OrderIs DEF Reading
    <2>3. JobShape' BY <1>1, <1>2, <1>4, <2>1, <2>2 DEF PublisherSound, JobShape
    <2>4. RowsOfTheirWindow' BY <1>1, <2>1 DEF PublisherSound, RowsOfTheirWindow
    <2>5. Accounted' 
        <3>1. ASSUME NEW r \in AllRows PROVE ~(r[1] \in DOMAIN job'.order /\ r[2] <= job'.read[r[1]])
            <4>1. PICK f \in FileNos : r \in {f} \X DOMAIN Archived[f].rows BY DEF AllRows
            <4>2. r[1] = f /\ r[2] \in DOMAIN Archived[f].rows BY <4>1
            <4>3. r[2] \in Nat \ {0} BY <4>2, ArchiveIs
            <4> QED BY <2>1, <4>2, <4>3
        <3>2. ReadOf(job)' = {} BY <3>1 DEF ReadOf
        <3> QED BY <3>2 DEF Accounted
    <2>6. RefusedForMeters' BY <1>2, <1>4 DEF PublisherSound, RefusedForMeters
    <2>7. CleanRunIsWhole' BY <2>1 DEF CleanRunIsWhole
    <2> QED BY <2>3, <2>4, <2>5, <2>6, <2>7 DEF PublisherSound
<1> QED BY <1>3, <1>4 DEF StartRun

\* The next row of the merge is of the window, and what it skips was not.
LEMMA RowIsRead == ASSUME PublisherSound, ReadRow PROVE PublisherSound'
<1>1. PICK r \in NextRow(job) :
        LET j == [job EXCEPT !.read[r[1]] = r[2], !.row = r] IN
        job' = IF job.tool = "publisher" /\ Kind(r) = "empty" THEN [j EXCEPT !.invalid = @ + 1]
               ELSE [j EXCEPT !.emitted = @ + 1, !.at = IF job.tool = "publisher" THEN "produce" ELSE "post"]
    BY DEF ReadRow
<1>2. job.at = "read" /\ UNCHANGED <<mode, pending, reports, sent, exits>> BY DEF ReadRow
<1>3. JobShape /\ DOMAIN job = JobFields /\ job.tool \in {"publisher", "injector"} /\ Reading(job)
    BY <1>2 DEF PublisherSound, JobShape
<1>4. ~PastEnd(job, RowTime(r))
    <2>1. PICK s \in NextRow(job) : ~PastEnd(job, RowTime(s)) BY DEF ReadRow, Ended
    <2> QED BY <1>1, <1>3, <2>1, NextIsOne
<1>5. PICK f \in DOMAIN job.order : \E n \in Unread(job, f) :
              /\ r = <<f, n>> /\ r \in AllRows /\ Kind(r) # "unparsable" /\ RowTime(r) >= Cuts[job.window]
                 /\ n > job.read[f]
              /\ \A k \in Unread(job, f) : n <= k
    <2>1. r \in Heads(job) BY <1>1 DEF NextRow
    <2> QED BY <1>3, <2>1, HeadsAre
<1>6. PICK n \in Unread(job, f) :
              /\ r = <<f, n>> /\ r \in AllRows /\ Kind(r) # "unparsable" /\ RowTime(r) >= Cuts[job.window]
                 /\ n > job.read[f]
              /\ \A k \in Unread(job, f) : n <= k
    BY <1>5
<1>7. f \in FileNos /\ n \in Nat BY <1>3, ArchiveIs DEF Reading, Unread
<1>8. /\ DOMAIN job' = JobFields /\ job'.tool = job.tool /\ job'.window = job.window /\ job'.order = job.order
      /\ job'.read = [job.read EXCEPT ![f] = n] /\ job'.row = r /\ job'.errors = job.errors
    BY <1>1, <1>3, <1>6 DEF JobFields
<1>9. \/ job.tool = "publisher" /\ job'.at = "read" /\ job'.invalid = job.invalid + 1 /\ job'.emitted = job.emitted
      \/ /\ job'.at = (IF job.tool = "publisher" THEN "produce" ELSE "post") /\ job'.invalid = job.invalid
         /\ job'.emitted = job.emitted + 1
    BY <1>1, <1>2, <1>3 DEF JobFields
<1>10. job'.at # "over" BY <1>9
<1>11. select_source_files' = select_source_files BY <1>2, SameFiles
<1>12. Reading(job)'
    <2>1. DOMAIN job'.read = FileNos /\ \A g \in FileNos : job'.read[g] \in Nat BY <1>3, <1>7, <1>8 DEF Reading
    <2> QED BY <1>3, <1>8, <2>1 DEF Reading
<1>13. JobShape' BY <1>2, <1>3, <1>8, <1>9, <1>11, <1>12 DEF JobShape
<1>14. RowsOfTheirWindow'
    <2>1. job'.at = "produce" => OfWindow(r, job.window)
        <3>1. job'.at = "produce" => job.tool = "publisher" BY <1>3, <1>9
        <3>2. RowTime(r) \in Nat BY <1>6, ArchiveIs
        <3>3. job.window + 1 \in DOMAIN Cuts /\ Cuts[job.window + 1] \in Nat BY <1>3, CutsAre DEF Reading, WindowNos
        <3> QED BY <1>4, <1>6, <3>1, <3>2, <3>3 DEF OfWindow, PastEnd
    <2> QED BY <1>2, <1>6, <1>8, <2>1 DEF PublisherSound, RowsOfTheirWindow
<1>15. Accounted'
    <2> SUFFICES ASSUME NEW s \in ReadOf(job)' PROVE KeptRow(job, s)' BY DEF Accounted
    <2>1. CASE job'.at = "read" 
        <3>1. job'.invalid > 0 BY <1>3, <1>9, <2>1 DEF JobShape
        <3> QED BY <3>1 DEF KeptRow, RunFailed
    <2>2. CASE job'.at # "read" /\ s = r
        <3>1. job'.at \in {"produce", "post"} BY <1>9, <2>2
        <3> QED BY <1>8, <2>2, <3>1 DEF KeptRow
    <2>3. CASE job'.at # "read" /\ s # r
        <3>1. /\ s \in AllRows /\ s[1] \in DOMAIN job.order /\ s[2] <= job'.read[s[1]]
              /\ Kind(s) # "unparsable" /\ RowTime(s) >= Cuts[job.window] BY <1>8 DEF ReadOf
        <3>2. PICK g \in FileNos : s \in {g} \X DOMAIN Archived[g].rows BY <3>1 DEF AllRows
        <3>3. PICK k \in DOMAIN Archived[g].rows : s = <<g, k>> BY <3>2
        <3>4. s[1] = g /\ s[2] = k /\ k \in 1..Len(Archived[g].rows) BY <3>3, ArchiveIs
        <3>5. k <= job.read[g]
            <4>1. CASE g # f BY <1>3, <1>8, <3>1, <3>4, <4>1 DEF Reading
            <4>2. CASE g = f
                <5>1. k <= n BY <1>3, <1>7, <1>8, <3>1, <3>4, <4>2 DEF Reading
                <5>2. k # n BY <1>6, <2>3, <3>3, <4>2
                <5>3. k \notin Unread(job, f) BY <1>6, <1>7, <3>4, <5>1, <5>2
                <5>4. job.read[f] \in Nat BY <1>3, <1>7 DEF Reading
                <5> QED BY <3>1, <3>3, <3>4, <4>2, <5>3, <5>4 DEF Unread
            <4> QED BY <4>1, <4>2
        <3>6. s \in ReadOf(job) BY <3>1, <3>4, <3>5 DEF ReadOf
        <3>7. KeptRow(job, s) BY <1>2, <3>6 DEF PublisherSound, Accounted
        <3>8. job'.invalid = job.invalid BY <1>9, <2>3
        <3>9. SourceEventId(job, s)' = SourceEventId(job, s) BY <1>8 DEF SourceEventId
        <3>10. RunFailed(job) => RunFailed(job)' BY <1>2, <1>8, <3>8 DEF RunFailed
        <3> QED BY <1>2, <3>7, <3>9, <3>10 DEF KeptRow
    <2> QED BY <2>1, <2>2, <2>3
<1>16. RefusedForMeters' BY <1>2, <1>11 DEF PublisherSound, RefusedForMeters
<1>17. CleanRunIsWhole' BY <1>10 DEF CleanRunIsWhole
<1> QED BY <1>13, <1>14, <1>15, <1>16, <1>17 DEF PublisherSound

\* Reports that are served end up in the counts.
LEMMA ReportsServed ==
    ASSUME JobShape
    PROVE  /\ DOMAIN Served(job, reports) = JobFields
           /\ \A x \in JobFields \ {"errors", "acked"} : Served(job, reports)[x] = job[x]
           /\ Served(job, reports).errors \in Nat /\ Served(job, reports).errors >= job.errors
           /\ (\E p \in reports : p[2] = "error") => Served(job, reports).errors > 0
           /\ Served(job, reports).errors = 0 => job.errors = 0
<1> DEFINE Bad == {p \in reports : p[2] = "error"}
           e == Cardinality(Bad)
<1>1. /\ DOMAIN Served(job, reports) = JobFields
      /\ \A x \in JobFields \ {"errors", "acked"} : Served(job, reports)[x] = job[x]
      /\ Served(job, reports).errors = job.errors + e
    BY DEF JobShape, JobFields, Served
<1>2. IsFiniteSet(Bad) BY FS_Subset DEF JobShape
<1>3. e \in Nat /\ (Bad # {} => e # 0) BY <1>2, FS_CardinalityType, FS_EmptySet
<1>4. job.errors \in Nat BY DEF JobShape
<1>5. (\E p \in reports : p[2] = "error") => e > 0
    <2>1. (\E p \in reports : p[2] = "error") => Bad # {} OBVIOUS
    <2> HIDE DEF e, Bad
    <2> QED BY <1>3, <2>1
<1> HIDE DEF e, Bad
<1> QED BY <1>1, <1>3, <1>4, <1>5

\* A row goes into the queue, or waits for room; the reports that poll saw are counted.
LEMMA RowIsProduced == ASSUME PublisherSound, Produce PROVE PublisherSound'
<1>1. JobShape /\ job.at = "produce" /\ job.tool = "publisher" /\ Reading(job) /\ UNCHANGED <<mode, sent, exits>>
      /\ reports' = {}
    BY DEF PublisherSound, JobShape, Produce
<1>2. PICK l : l = Served(job, reports) OBVIOUS
<1>3. /\ DOMAIN l = JobFields /\ l.tool = job.tool /\ l.window = job.window /\ l.at = job.at /\ l.order = job.order
      /\ l.read = job.read /\ l.row = job.row /\ l.emitted = job.emitted /\ l.invalid = job.invalid
      /\ l.errors \in Nat /\ l.errors >= job.errors /\ ((\E p \in reports : p[2] = "error") => l.errors > 0)
    BY <1>1, <1>2, ReportsServed DEF JobFields
<1>4. \/ pending' = pending \cup {job.row} /\ job' = [l EXCEPT !.at = "read"]
      \/ pending' = pending /\ job' = l
    BY <1>2 DEF Produce
<1>5. /\ DOMAIN job' = JobFields /\ job'.tool = job.tool /\ job'.window = job.window /\ job'.order = job.order
      /\ job'.read = job.read /\ job'.row = job.row /\ job'.emitted = job.emitted /\ job'.invalid = job.invalid
      /\ job'.errors = l.errors
      /\ \/ job'.at = "read" /\ pending' = pending \cup {job.row}
         \/ job'.at = "produce" /\ pending' = pending
    BY <1>1, <1>3, <1>4 DEF JobFields
<1>6. select_source_files' = select_source_files BY <1>1, SameFiles
<1>7. JobShape' BY <1>1, <1>3, <1>5, <1>6, FS_EmptySet DEF JobShape, Reading
<1>8. RowsOfTheirWindow' BY <1>1, <1>5 DEF PublisherSound, RowsOfTheirWindow
<1>9. Accounted'
    <2> SUFFICES ASSUME NEW r \in ReadOf(job)' PROVE KeptRow(job, r)' BY DEF Accounted
    <2>1. r \in ReadOf(job) BY <1>5 DEF ReadOf
    <2>2. KeptRow(job, r) BY <1>1, <2>1 DEF PublisherSound, Accounted
    <2>3. SourceEventId(job, r)' = SourceEventId(job, r) BY <1>5 DEF SourceEventId
    <2>4. RunFailed(job) => RunFailed(job)'
        <3>1. job.errors \in Nat BY <1>1 DEF JobShape
        <3> QED BY <1>3, <1>5, <3>1 DEF RunFailed
    <2> QED BY <1>1, <1>5, <2>2, <2>3, <2>4 DEF KeptRow
<1>10. RefusedForMeters' BY <1>1, <1>6 DEF PublisherSound, RefusedForMeters
<1>11. CleanRunIsWhole' BY <1>5 DEF CleanRunIsWhole
<1> QED BY <1>7, <1>8, <1>9, <1>10, <1>11 DEF PublisherSound

\* A message leaves the queue: it is on the topic, or its report says that it may not be.
LEMMA RowIsDelivered == ASSUME PublisherSound, NEW r \in AllRows, NEW o \in DeliveryOutcomes, Deliver(r, o)
  PROVE PublisherSound'
<1>1. JobShape /\ r \in pending /\ job.at # "over" /\ UNCHANGED <<mode, job, exits>> /\ pending' = pending \ {r}
    BY DEF PublisherSound, Deliver
<1>2. job.tool = "publisher" /\ Reading(job) BY <1>1 DEF JobShape
<1>3. reports' = reports \cup {<<r, IF o = "stored" THEN "ok" ELSE "error">>} BY DEF Deliver
<1>4. sent' = (IF o = "lost" THEN sent ELSE sent \cup {SourceEventId(job, r)}) BY DEF Deliver
<1>5. select_source_files' = select_source_files BY <1>1, SameFiles
<1>6. IsFiniteSet(reports') BY <1>1, <1>3, FS_AddElement DEF JobShape
<1>7. JobShape' BY <1>1, <1>2, <1>5, <1>6 DEF JobShape, Reading
<1>8. RowsOfTheirWindow'
    <2>1. r \in AllRows /\ OfWindow(r, job.window) BY <1>1 DEF PublisherSound, RowsOfTheirWindow
    <2>2. PICK x : x = SourceEventId(job, r) OBVIOUS
    <2>3. x[1] = job.window /\ <<x[2], x[3]>> = r
        <3>1. r = <<r[1], r[2]>> BY DEF AllRows
        <3> QED BY <1>2, <2>2, <3>1 DEF SourceEventId
    <2>4. \A y \in sent' : y \in sent \/ y = x BY <1>4, <2>2
    <2> QED BY <1>1, <2>1, <2>3, <2>4 DEF PublisherSound, RowsOfTheirWindow
<1>9. Accounted'
    <2> SUFFICES ASSUME NEW s \in ReadOf(job)' PROVE KeptRow(job, s)' BY DEF Accounted
    <2>1. s \in ReadOf(job) BY <1>1 DEF ReadOf
    <2>2. KeptRow(job, s) BY <1>1, <2>1 DEF PublisherSound, Accounted
    <2>3. SourceEventId(job, s)' = SourceEventId(job, s) BY <1>1 DEF SourceEventId
    <2>4. sent \subseteq sent' /\ (RunFailed(job) => RunFailed(job)') BY <1>1, <1>3, <1>4 DEF RunFailed
    <2>5. CASE s = r /\ o = "lost"
        <3>1. <<r, "error">> \in reports' /\ <<r, "error">>[2] = "error" BY <1>3, <2>5
        <3> QED BY <3>1 DEF KeptRow, RunFailed
    <2>6. CASE s = r /\ o # "lost" BY <1>4, <2>3, <2>6 DEF KeptRow
    <2>7. CASE s # r BY <1>1, <2>2, <2>3, <2>4, <2>7 DEF KeptRow
    <2> QED BY <2>5, <2>6, <2>7
<1>10. RefusedForMeters' BY <1>1, <1>5 DEF PublisherSound, RefusedForMeters
<1>11. CleanRunIsWhole' BY <1>1 DEF CleanRunIsWhole
<1> QED BY <1>7, <1>8, <1>9, <1>10, <1>11 DEF PublisherSound

\* A post is answered by 202, or counted as an error.
LEMMA RowIsPosted == ASSUME PublisherSound, NEW o \in DeliveryOutcomes, Post(o) PROVE PublisherSound'
<1>1. JobShape /\ job.at = "post" /\ UNCHANGED <<mode, pending, reports, exits>> BY DEF PublisherSound, Post
<1>2. job.tool \in {"publisher", "injector"} /\ Reading(job) BY <1>1 DEF JobShape
<1>3. sent' = sent \/ sent' = sent \cup {SourceEventId(job, job.row)} BY DEF Post, post_payload
<1>4. o = "stored" => SourceEventId(job, job.row) \in sent' BY DEF Post, post_payload
<1>5. /\ DOMAIN job' = JobFields /\ job'.tool = job.tool /\ job'.window = job.window /\ job'.order = job.order
      /\ job'.read = job.read /\ job'.row = job.row /\ job'.emitted = job.emitted /\ job'.invalid = job.invalid
      /\ job'.at = "read" /\ job'.errors = (IF o = "stored" THEN job.errors ELSE job.errors + 1)
    BY <1>1 DEF Post, JobShape, JobFields
<1>6. select_source_files' = select_source_files BY <1>1, SameFiles
<1>7. JobShape' BY <1>1, <1>2, <1>5, <1>6 DEF JobShape, Reading
<1>9. Accounted'
    <2> SUFFICES ASSUME NEW s \in ReadOf(job)' PROVE KeptRow(job, s)' BY DEF Accounted
    <2>1. s \in ReadOf(job) BY <1>5 DEF ReadOf
    <2>2. KeptRow(job, s) BY <1>1, <2>1 DEF PublisherSound, Accounted
    <2>3. SourceEventId(job, s)' = SourceEventId(job, s) BY <1>5 DEF SourceEventId
    <2>4. job.errors \in Nat BY <1>1 DEF JobShape
    <2>5. sent \subseteq sent' /\ (RunFailed(job) => RunFailed(job)') BY <1>1, <1>3, <1>5, <2>4 DEF RunFailed
    <2>6. CASE o # "stored" BY <1>5, <2>4, <2>6 DEF KeptRow, RunFailed
    <2>7. CASE o = "stored" BY <1>1, <1>4, <2>2, <2>3, <2>5, <2>7 DEF KeptRow
    <2> QED BY <2>6, <2>7
<1>10. RefusedForMeters' BY <1>1, <1>6 DEF PublisherSound, RefusedForMeters
<1>11. CleanRunIsWhole' BY <1>5 DEF CleanRunIsWhole
<1>12. RowsOfTheirWindow'
    <2>1. job.tool = "injector" BY <1>1 DEF JobShape
    <2>2. SourceEventId(job, job.row)[1] = 0 BY <2>1 DEF SourceEventId
    <2>3. 0 \notin WindowNos BY CutsAre DEF WindowNos
    <2>4. \A y \in sent' : y \in sent \/ y[1] \notin WindowNos BY <1>3, <2>2, <2>3
    <2> QED BY <1>1, <1>5, <2>4 DEF PublisherSound, RowsOfTheirWindow
<1> QED BY <1>7, <1>9, <1>10, <1>11, <1>12 DEF PublisherSound

\* When the merge is past the end of the window, every row of the window was read.
LEMMA WindowIsRead ==
    ASSUME FilesInOrder, NEW j, Reading(j), \A s \in NextRow(j) : PastEnd(j, RowTime(s)),
           NEW r \in AllRows, r[1] \in DOMAIN j.order, Kind(r) # "unparsable", OfWindow(r, j.window)
    PROVE  r[2] <= j.read[r[1]]
<1>1. PICK f \in FileNos : r \in {f} \X DOMAIN Archived[f].rows BY DEF AllRows
<1>2. PICK n \in DOMAIN Archived[f].rows : r = <<f, n>> BY <1>1
<1>3. n \in 1..Len(Archived[f].rows) /\ r[1] = f /\ r[2] = n /\ j.read[f] \in Nat BY <1>2, ArchiveIs DEF Reading
<1>4. SUFFICES ASSUME n > j.read[f] PROVE FALSE BY <1>3
<1>5. RowTime(r) \in Nat /\ Cuts[j.window] \in Nat /\ Cuts[j.window + 1] \in Nat
    BY ArchiveIs, CutsAre DEF Reading, WindowNos
<1>6. n \in Unread(j, f) BY <1>2, <1>3, <1>4, <1>5 DEF Unread, OfWindow
<1>7. PICK h \in Unread(j, f) : <<f, h>> \in Heads(j) /\ \A k \in Unread(j, f) : h <= k BY <1>3, <1>6, HeadIs
<1>8. h \in DOMAIN Archived[f].rows /\ h <= n /\ h \in Nat /\ Kind(<<f, h>>) # "unparsable"
    BY <1>3, <1>6, <1>7, ArchiveIs DEF Unread
<1>9. <<f, h>> \in AllRows BY <1>8 DEF AllRows
<1>10. RowTime(<<f, h>>) <= RowTime(r) /\ RowTime(<<f, h>>) \in Nat
    <2>1. RowTime(<<f, h>>) \in Nat BY <1>9, ArchiveIs
    <2>2. CASE h = n BY <1>2, <1>5, <2>2
    <2>3. CASE h < n BY <1>2, <1>8, <2>1, <2>3 DEF FilesInOrder
    <2> QED BY <1>3, <1>8, <2>1, <2>2, <2>3
<1>11. PICK s \in NextRow(j) : \A x \in Heads(j) : RowTime(s) <= RowTime(x) BY <1>7, NextIsFirst
<1>12. s \in Heads(j) BY <1>11 DEF NextRow
<1>13. s \in AllRows /\ RowTime(s) \in Nat BY <1>12, HeadsAre, ArchiveIs
<1>14. RowTime(s) <= RowTime(<<f, h>>) /\ PastEnd(j, RowTime(s)) BY <1>7, <1>11
<1> QED BY <1>5, <1>10, <1>13, <1>14 DEF PastEnd, OfWindow

\* The end of a run: if nothing was counted, nothing is missing.
LEMMA RunEnds == ASSUME FilesInOrder, PublisherSound, Finish PROVE PublisherSound'
<1>1. JobShape /\ job.at = "read" /\ Ended(job) /\ pending' = {} /\ reports' = {} /\ UNCHANGED <<mode, sent>>
    BY DEF PublisherSound, Finish
<1>2. job.tool \in {"publisher", "injector"} /\ Reading(job) BY <1>1 DEF JobShape
<1>3. PICK l : l = Served(job, reports) OBVIOUS
<1>4. /\ DOMAIN l = JobFields /\ l.tool = job.tool /\ l.window = job.window /\ l.at = job.at /\ l.order = job.order
      /\ l.read = job.read /\ l.row = job.row /\ l.emitted = job.emitted /\ l.invalid = job.invalid
      /\ l.errors \in Nat /\ l.errors >= job.errors /\ ((\E p \in reports : p[2] = "error") => l.errors > 0)
    BY <1>1, <1>3, ReportsServed DEF JobFields
<1>5. FlushRemaining(pending) \in Nat /\ (FlushRemaining(pending) = 0 => pending = {}) BY DEF FlushRemaining
<1>6. job' = [l EXCEPT !.errors = @ + FlushRemaining(pending), !.at = "over"] BY <1>3 DEF Finish
<1>7. exits' = IF job.tool = "publisher" THEN [exits EXCEPT ![job.window] = ExitCode(job')] ELSE exits
    BY <1>3, <1>6 DEF Finish
<1>8. /\ DOMAIN job' = JobFields /\ job'.tool = job.tool /\ job'.window = job.window /\ job'.order = job.order
      /\ job'.read = job.read /\ job'.row = job.row /\ job'.emitted = job.emitted /\ job'.invalid = job.invalid
      /\ job'.at = "over" /\ job'.errors = l.errors + FlushRemaining(pending)
    BY <1>4, <1>6 DEF JobFields
<1>9. select_source_files' = select_source_files BY <1>1, SameFiles
<1>10. JobShape'
    <2>1. DOMAIN exits' = WindowNos BY <1>1, <1>7 DEF JobShape
    <2> QED BY <1>1, <1>2, <1>4, <1>5, <1>8, <1>9, <2>1, FS_EmptySet DEF JobShape, Reading
<1>11. RowsOfTheirWindow' /\ Accounted' BY <1>1, <1>8 DEF PublisherSound, RowsOfTheirWindow, Accounted
<1>12. RefusedForMeters'
    <2>1. \A w \in WindowNos : exits'[w] = "refused" => exits[w] = "refused" BY <1>1, <1>7 DEF JobShape, ExitCode
    <2> QED BY <1>9, <2>1 DEF PublisherSound, RefusedForMeters
<1>13. CleanRunIsWhole'
    <2> SUFFICES ASSUME ~Truncated(job)', Clean(job)', NEW r \in Wanted(job.window)'
      PROVE (SourceEventId(job, r) \in sent)'
        BY DEF CleanRunIsWhole
    <2>1. job'.errors = 0 /\ job'.invalid = 0
        <3>1. CASE job.tool = "publisher"
            <4>1. exits'[job.window] = ExitCode(job') BY <1>1, <1>2, <1>7, <3>1 DEF JobShape, Reading
            <4>2. ExitCode(job') = "ok" BY <1>8, <3>1, <4>1 DEF Clean
            <4>3. job'.invalid \in Nat /\ job'.errors \in Nat BY <1>10 DEF JobShape
            <4> QED BY <4>2, <4>3 DEF ExitCode
        <3>2. CASE job.tool = "injector" BY <1>8, <1>10, <3>2 DEF Clean, JobShape
        <3> QED BY <1>2, <3>1, <3>2
    <2>2. job.errors = 0 /\ job.invalid = 0 /\ pending = {} /\ ~\E p \in reports : p[2] = "error"
        <3>1. job.errors \in Nat BY <1>1 DEF JobShape
        <3> QED BY <1>4, <1>5, <1>8, <2>1, <3>1
    <2>3. r \in AllRows /\ r[1] \in DOMAIN job.order /\ Kind(r) # "unparsable" /\ OfWindow(r, job.window)
        BY <1>8 DEF Wanted
    <2>4. \A s \in NextRow(job) : PastEnd(job, RowTime(s)) BY <1>1, <1>8 DEF Ended, Truncated
    <2>5. r[2] <= job.read[r[1]]
        <3>1. PICK j : j = job OBVIOUS
        <3>2. /\ Reading(j) /\ \A s \in NextRow(j) : PastEnd(j, RowTime(s))
              /\ r[1] \in DOMAIN j.order /\ OfWindow(r, j.window) BY <1>2, <2>3, <2>4, <3>1
        <3>3. r[2] <= j.read[r[1]] BY <2>3, <3>2, WindowIsRead
        <3> QED BY <3>1, <3>3
    <2>6. RowTime(r) >= Cuts[job.window]
        <3>1. RowTime(r) \in Nat /\ Cuts[job.window] \in Nat BY <1>2, <2>3, ArchiveIs, CutsAre DEF Reading, WindowNos
        <3> QED BY <2>3, <3>1 DEF OfWindow
    <2>7. KeptRow(job, r) BY <1>1, <2>3, <2>5, <2>6 DEF PublisherSound, Accounted, ReadOf
    <2>8. SourceEventId(job, r) \in sent BY <1>1, <2>2, <2>7 DEF KeptRow, RunFailed
    <2>9. SourceEventId(job, r)' = SourceEventId(job, r) BY <1>8 DEF SourceEventId
    <2> QED BY <1>1, <2>8, <2>9
<1> QED BY <1>10, <1>11, <1>12, <1>13 DEF PublisherSound

\* Reading, producing, a delivery report or its loss, and the end of a run keep it.
LEMMA PublisherStep == ASSUME FilesInOrder PROVE PublisherSound /\ [PublisherNext]_pubvars => PublisherSound'
<1> SUFFICES ASSUME PublisherSound, [PublisherNext]_pubvars PROVE PublisherSound' OBVIOUS
<1>1. CASE UNCHANGED pubvars
    <2>1. UNCHANGED <<mode, job, pending, reports, sent, exits>> BY <1>1 DEF pubvars
    <2>2. select_source_files' = select_source_files BY <2>1, SameFiles
    <2>3. JobShape' BY <2>1, <2>2 DEF PublisherSound, JobShape, Reading
    <2>4. RowsOfTheirWindow' BY <2>1 DEF PublisherSound, RowsOfTheirWindow
    <2>5. Accounted' BY <2>1 DEF PublisherSound, Accounted, ReadOf, KeptRow, RunFailed, SourceEventId
    <2>6. RefusedForMeters' BY <2>1, <2>2 DEF PublisherSound, RefusedForMeters
    <2>7. CleanRunIsWhole' BY <2>1 DEF PublisherSound, CleanRunIsWhole, Wanted, Truncated, SourceEventId, Clean
    <2> QED BY <2>3, <2>4, <2>5, <2>6, <2>7 DEF PublisherSound
<1>2. ASSUME NEW w \in WindowNos, StartPublisher(w) \/ StartInjector(w) PROVE PublisherSound'
    BY <1>2, RunStarts DEF StartPublisher, StartInjector
<1> QED BY <1>1, <1>2, RowIsRead, RowIsProduced, RowIsDelivered, RowIsPosted, RunEnds DEF PublisherNext

\* Whatever a broker or the API loses, repeats or reports wrongly: a run that ends clean put its whole window on the
\* topic, no
\* row is there under two run ids, and a balanced run that was refused could not have been made
\* (backfill_source_publisher.py,
\* ingest_replay.py).  The files must be sorted by time, which heapq.merge takes for granted.
THEOREM ReplaysAreWhole == ASSUME FilesInOrder PROVE PublisherSpec => []ArchiveInv
<1> QED BY PublisherStarts, PublisherStep, PublisherEnough, PTL DEF PublisherSpec

(***************************************************************************)
(* The ontology projection.  Rows are written in the order of their        *)
(* references and removed in the reverse one, in one transaction.          *)
(***************************************************************************)

\* Every row is one of its revision, and the rows it names are there.
Closed(T) == \A k \in DOMAIN T : T[k] \in Revisions /\ k \in RowsIn[T[k]] /\ Needs[T[k]][k] \subseteq DOMAIN T

\* The rows of the first n tables are those of v.
WrittenUpTo(T, v, n) ==
    \A k \in RowsIn[v] : (\E i \in 1..n : k[1] = LoadOrder[i]) => k \in DOMAIN T /\ T[k] = v

\* One projector writes at a time, one table after the other.
ProjectorShape ==
    /\ revision \in Revisions
    /\ DOMAIN projector = Projectors
    /\ \A l \in Projectors :
          /\ DOMAIN projector[l] = {"at", "table", "of"}
          /\ projector[l].table \in 1..9
          /\ projector[l].at \in {"connect", "write"} => projector[l].of \in Revisions
          /\ projector[l].at = "connect" => projector[l].table = 1
          /\ projector[l].at = "write" <=> writing.owner = l
    /\ DOMAIN writing = {"owner", "tables", "log"}

\* What the transaction has written so far.
WritingSound(l) ==
    LET v == projector[l].of
        n == projector[l].table
    IN  /\ writing.log = [status |-> "started", of |-> v]
        /\ Closed(writing.tables) /\ WrittenUpTo(writing.tables, v, n - 1)
        /\ n = 9 => InTable("triple", DOMAIN writing.tables) = InTable("triple", RowsIn[v])

\* What a reader has read is what is committed, until a load commits.
FetcherSound(f) ==
    LET r == fetcher[f]
    IN  /\ DOMAIN r = {"at", "meters", "pairs", "hardware", "straddled"}
        /\ r.at \in {"check", "meters", "legacy"} => r.meters = {} /\ r.pairs = {} /\ r.hardware = {}
        /\ ~r.straddled =>
              /\ r.at \in {"pairs", "hardware"} => r.meters = Keys("meter")
              /\ r.at = "hardware" => \A p \in r.pairs : InTable("meter", p) \subseteq r.meters
              /\ r.at = "fetched" => /\ \A p \in r.pairs : InTable("meter", p) \subseteq r.meters
                                     /\ r.hardware = r.meters

\* The invariant of the projection.
OntologySound ==
    /\ ProjectorShape
    /\ \A l \in Projectors : projector[l].at = "write" => WritingSound(l)
    /\ Closed(ontology) /\ LogNamesContent /\ NeverDangling
    /\ DOMAIN fetcher = Fetchers /\ \A f \in Fetchers : FetcherSound(f)

\* What the readers of the projection see follows.
LEMMA OntologyEnough == OntologySound => OntologyInv
BY DEF OntologySound, OntologyInv, FetchBelongsTogether, FetcherSound

\* The projection starts empty.
LEMMA OntologyStarts == OntologyInit => OntologySound
<1> SUFFICES ASSUME OntologyInit PROVE OntologySound OBVIOUS
<1>1. ProjectorShape BY OntologyAssumption DEF OntologyInit, ProjectorShape, NoWrite
<1>2. \A l \in Projectors : projector[l].at = "new" BY DEF OntologyInit
<1>3. Closed(ontology) BY DEF OntologyInit, Closed
<1>4. LogNamesContent BY DEF OntologyInit, LogNamesContent
<1>5. \A f \in Fetchers : FetcherSound(f) BY DEF OntologyInit, FetcherSound, Unfetched
<1>6. DOMAIN fetcher = Fetchers BY DEF OntologyInit
<1> QED BY <1>1, <1>2, <1>3, <1>4, <1>5, <1>6 DEF OntologySound, NeverDangling

\* A row's parents are in tables that are written before its own.
LEMMA ParentsFirst ==
    ASSUME NEW v \in Revisions, NEW n \in 1..8, NEW k \in RowsIn[v], k[1] = LoadOrder[n], NEW p \in Needs[v][k]
    PROVE  p \in RowsIn[v] /\ p[1] # "triple" /\ \E i \in 1..(n - 1) : p[1] = LoadOrder[i]
<1>1. p \in RowsIn[v] /\ p[1] \in References[k[1]] BY OntologyAssumption
<1>2. CASE n = 5
    <2>1. p[1] \in {"building", "equipment_group", "meter_role", "hardware_model"}
        BY <1>1, <1>2 DEF LoadOrder, References
    <2>2. LoadOrder[1] = "building" /\ LoadOrder[2] = "equipment_group" /\ LoadOrder[3] = "meter_role"
          /\ LoadOrder[4] = "hardware_model"
        BY DEF LoadOrder
    <2>3. 1 \in 1..(n - 1) /\ 2 \in 1..(n - 1) /\ 3 \in 1..(n - 1) /\ 4 \in 1..(n - 1) BY <1>2
    <2> QED BY <1>1, <2>1, <2>2, <2>3
<1>3. CASE n = 6
    <2>1. p[1] \in {"meter", "equipment_group"} BY <1>1, <1>3 DEF LoadOrder, References
    <2>2. LoadOrder[5] = "meter" /\ LoadOrder[2] = "equipment_group" BY DEF LoadOrder
    <2>3. 5 \in 1..(n - 1) /\ 2 \in 1..(n - 1) BY <1>3
    <2> QED BY <1>1, <2>1, <2>2, <2>3
<1>4. CASE n \notin {5, 6}
    <2>1. LoadOrder[n] \in {"building", "equipment_group", "meter_role", "hardware_model", "measurement_code", "triple"}
        BY <1>4 DEF LoadOrder
    <2>2. References[LoadOrder[n]] = {} BY <2>1 DEF References
    <2> QED BY <1>1, <2>2
<1> QED BY <1>2, <1>3, <1>4

\* Writing one table keeps the rows whole.
LEMMA TableWritten ==
    ASSUME NEW T, Closed(T), NEW v \in Revisions, NEW n \in 1..8, WrittenUpTo(T, v, n - 1)
    PROVE  LET rows == InTable(LoadOrder[n], RowsIn[v])
               kept == Cleared(T, LoadOrder[n])
               new == Upserted(kept, rows, v)
           IN  /\ UNION {Needs[v][k] : k \in rows} \subseteq DOMAIN kept \cup rows
               /\ Closed(new) /\ WrittenUpTo(new, v, n)
               /\ n = 8 => InTable("triple", DOMAIN new) = InTable("triple", RowsIn[v])
<1> DEFINE t == LoadOrder[n]
           rows == InTable(t, RowsIn[v])
           kept == Cleared(T, t)
           new == Upserted(kept, rows, v)
<1>1. /\ \A k : k \in DOMAIN kept <=> k \in DOMAIN T /\ (t = "triple" => k[1] # "triple")
      /\ \A k \in DOMAIN kept : kept[k] = T[k]
    BY DEF Cleared, Restrict, InTable
<1>2. \A k : k \in rows <=> k \in RowsIn[v] /\ k[1] = t BY DEF InTable
<1>3. /\ DOMAIN new = rows \cup DOMAIN kept
      /\ \A k \in rows : new[k] = v
      /\ \A k \in DOMAIN kept \ rows : new[k] = T[k]
    BY <1>1 DEF Upserted
<1>4. t = "triple" <=> n = 8 BY DEF LoadOrder
<1> HIDE DEF kept, new, rows, t
<1>5. ASSUME NEW k \in rows, NEW p \in Needs[v][k] PROVE p \in DOMAIN kept
    <2>1. k \in RowsIn[v] /\ k[1] = LoadOrder[n] BY <1>2 DEF t
    <2>2. p \in RowsIn[v] /\ p[1] # "triple" /\ \E i \in 1..(n - 1) : p[1] = LoadOrder[i] BY <2>1, ParentsFirst
    <2> QED BY <1>1, <2>2 DEF WrittenUpTo
<1>6. Closed(new)
    <2> SUFFICES ASSUME NEW k \in DOMAIN new
                 PROVE  new[k] \in Revisions /\ k \in RowsIn[new[k]] /\ Needs[new[k]][k] \subseteq DOMAIN new
        BY DEF Closed
    <2>1. CASE k \in rows BY <1>2, <1>3, <1>5, <2>1
    <2>2. CASE k \notin rows
        <3>1. k \in DOMAIN T /\ new[k] = T[k] BY <1>1, <1>3, <2>2
        <3>2. T[k] \in Revisions /\ k \in RowsIn[T[k]] /\ Needs[T[k]][k] \subseteq DOMAIN T BY <3>1 DEF Closed
        <3>3. \A p \in Needs[T[k]][k] : p[1] \in References[k[1]] /\ k[1] \in DOMAIN References
            BY <3>2, OntologyAssumption
        <3>4. \A u \in DOMAIN References : "triple" \notin References[u] BY DEF References
        <3>5. \A p \in Needs[T[k]][k] : p \in DOMAIN kept BY <1>1, <3>2, <3>3, <3>4
        <3> QED BY <1>3, <3>1, <3>2, <3>5
    <2> QED BY <2>1, <2>2
<1>7. WrittenUpTo(new, v, n)
    <2> SUFFICES ASSUME NEW k \in RowsIn[v], NEW i \in 1..n, k[1] = LoadOrder[i] PROVE k \in DOMAIN new /\ new[k] = v
        BY DEF WrittenUpTo
    <2>1. CASE k[1] = t BY <1>2, <1>3, <2>1
    <2>2. CASE k[1] # t
        <3>1. i # n /\ i \in 1..(n - 1) BY <2>2 DEF t
        <3>2. k \in DOMAIN T /\ T[k] = v BY <3>1 DEF WrittenUpTo
        <3>3. k[1] # "triple"
            <4>1. i \in 1..7 BY <3>1
            <4> QED BY <4>1 DEF LoadOrder
        <3> QED BY <1>1, <1>2, <1>3, <2>2, <3>2, <3>3
    <2> QED BY <2>1, <2>2
<1>8. n = 8 => InTable("triple", DOMAIN new) = InTable("triple", RowsIn[v])
    BY <1>1, <1>2, <1>3, <1>4 DEF InTable
<1>9. UNION {Needs[v][k] : k \in rows} \subseteq DOMAIN kept \cup rows BY <1>5
<1> QED BY <1>6, <1>7, <1>8, <1>9 DEF kept, new, rows, t

\* The parts of the invariant that only read the committed tables.
LEMMA CommittedStays ==
    ASSUME OntologySound, UNCHANGED <<ontology, load_log>>
    PROVE  Closed(ontology') /\ LogNamesContent' /\ (UNCHANGED fetcher => \A f \in Fetchers : FetcherSound(f)')
<1>1. Closed(ontology') BY DEF OntologySound
<1>2. LogNamesContent' BY DEF OntologySound, LogNamesContent, Keys
<1>3. UNCHANGED fetcher => \A f \in Fetchers : FetcherSound(f)' BY DEF OntologySound, FetcherSound, Keys
<1> QED BY <1>1, <1>2, <1>3

\* One loader moves to a place where it writes nothing, and the transaction is another's or none.
LEMMA LoaderMoves ==
    ASSUME OntologySound, NEW l \in Projectors, NEW new, projector' = [projector EXCEPT ![l] = new],
           DOMAIN new = {"at", "table", "of"}, new.table \in 1..9, new.at \notin {"write", "dangling"},
           new.at = "connect" => new.of \in Revisions /\ new.table = 1,
           writing' = IF writing.owner = l THEN NoWrite ELSE writing,
           UNCHANGED <<revision, ontology, load_log, fetcher>>
    PROVE  OntologySound'
<1>0. NoProjector \notin Projectors BY OntologyAssumption
<1>1. \A k \in Projectors : k # l => projector'[k] = projector[k] BY DEF OntologySound, ProjectorShape
<1>2. projector'[l] = new /\ DOMAIN projector' = Projectors BY DEF OntologySound, ProjectorShape
<1>3. NoWrite.owner = NoProjector /\ DOMAIN NoWrite = {"owner", "tables", "log"} BY DEF NoWrite
<1>4. ProjectorShape' BY <1>0, <1>1, <1>2, <1>3 DEF OntologySound, ProjectorShape
<1>5. ASSUME NEW k \in Projectors, projector'[k].at = "write" PROVE WritingSound(k)'
    <2>1. k # l /\ projector'[k] = projector[k] /\ projector[k].at = "write" BY <1>1, <1>2, <1>5
    <2>2. writing.owner = k BY <2>1 DEF OntologySound, ProjectorShape
    <2>3. writing' = writing BY <2>1, <2>2
    <2> QED BY <2>1, <2>3 DEF OntologySound, WritingSound
<1>6. NeverDangling' BY <1>1, <1>2 DEF OntologySound, NeverDangling
<1> QED BY <1>4, <1>5, <1>6, CommittedStays DEF OntologySound

\* The next table of the transaction.
LEMMA NextTableWritten == ASSUME OntologySound, NEW l \in Projectors, upsert_many(l) PROVE OntologySound'
<1> DEFINE n == projector[l].table
           v == projector[l].of
           T == writing.tables
           rows == InTable(LoadOrder[n], RowsIn[v])
           kept == Cleared(T, LoadOrder[n])
           new == Upserted(kept, rows, v)
<1>1. projector[l].at = "write" /\ n \in 1..8 BY DEF upsert_many, LoadOrder
<1>2. v \in Revisions /\ WritingSound(l) /\ writing.owner = l BY <1>1 DEF OntologySound, ProjectorShape
<1>3. writing.log = [status |-> "started", of |-> v] /\ Closed(T) /\ WrittenUpTo(T, v, n - 1) BY <1>2 DEF WritingSound
<1>4. /\ UNION {Needs[v][k] : k \in rows} \subseteq DOMAIN kept \cup rows
      /\ Closed(new) /\ WrittenUpTo(new, v, n)
      /\ n = 8 => InTable("triple", DOMAIN new) = InTable("triple", RowsIn[v])
    BY <1>1, <1>2, <1>3, TableWritten
<1>5. /\ writing' = [writing EXCEPT !.tables = new]
      /\ projector' = [projector EXCEPT ![l].table = n + 1]
      /\ UNCHANGED <<revision, ontology, load_log, fetcher>>
    BY <1>4 DEF upsert_many
<1> HIDE DEF rows, kept, new
<1>6. /\ DOMAIN writing' = {"owner", "tables", "log"} /\ writing'.owner = l /\ writing'.tables = new
         /\ writing'.log = writing.log
    BY <1>2, <1>5 DEF OntologySound, ProjectorShape
<1>7. /\ DOMAIN projector' = Projectors /\ \A k \in Projectors \ {l} : projector'[k] = projector[k]
      /\ DOMAIN projector'[l] = {"at", "table", "of"} /\ projector'[l].at = "write" /\ projector'[l].of = v
      /\ projector'[l].table = n + 1
    BY <1>1, <1>5 DEF OntologySound, ProjectorShape
<1>8. \A k \in Projectors \ {l} : projector'[k].at # "write" BY <1>2, <1>7 DEF OntologySound, ProjectorShape
<1> HIDE DEF n, v, T
<1>9. n + 1 \in 1..9 /\ n + 1 - 1 = n /\ (n + 1 = 9 => n = 8) BY <1>1
<1>10. ProjectorShape' BY <1>2, <1>5, <1>6, <1>7, <1>8, <1>9 DEF OntologySound, ProjectorShape
<1>11. WritingSound(l)'
    <2>0. projector'[l].table - 1 = n BY <1>1, <1>7 DEF n
    <2>1. WrittenUpTo(writing'.tables, projector'[l].of, projector'[l].table - 1) BY <1>4, <1>6, <1>7, <2>0
    <2>2. projector'[l].table = 9
          => InTable("triple", DOMAIN writing'.tables) = InTable("triple", RowsIn[projector'[l].of])
        BY <1>4, <1>6, <1>7, <1>9
    <2>3. writing'.log = [status |-> "started", of |-> projector'[l].of] /\ Closed(writing'.tables)
        BY <1>3, <1>4, <1>6, <1>7
    <2> QED BY <2>1, <2>2, <2>3 DEF WritingSound
<1>12. NeverDangling' BY <1>7 DEF OntologySound, NeverDangling
<1>13. DOMAIN fetcher' = Fetchers BY <1>5 DEF OntologySound
<1> QED BY <1>5, <1>8, <1>10, <1>11, <1>12, <1>13, CommittedStays DEF OntologySound

\* A commit: the log names what was written, and readers in the middle of it have straddled.
LEMMA LoadCommitted == ASSUME OntologySound, NEW l \in Projectors, CommitLoad(l) PROVE OntologySound'
<1> DEFINE v == projector[l].of
           T == writing.tables
<1>1. projector[l].at = "write" /\ projector[l].table = 9 BY DEF CommitLoad, LoadOrder
<1>2. v \in Revisions /\ WritingSound(l) /\ writing.owner = l BY <1>1 DEF OntologySound, ProjectorShape
<1>3. /\ writing.log = [status |-> "started", of |-> v] /\ Closed(T) /\ WrittenUpTo(T, v, 8)
      /\ InTable("triple", DOMAIN T) = InTable("triple", RowsIn[v])
    <2>1. 9 - 1 = 8 OBVIOUS
    <2> QED BY <1>1, <1>2, <2>1 DEF WritingSound
<1>4. /\ ontology' = T /\ load_log' = [status |-> "success", of |-> v] /\ writing' = NoWrite /\ revision' = revision
      /\ projector' = [projector EXCEPT ![l].at = "verify"]
      /\ fetcher' = [f \in Fetchers |-> [fetcher[f] EXCEPT !.straddled = fetcher[f].at \in {"pairs", "hardware"} \/ @]]
    BY <1>3 DEF CommitLoad, MoveTo
<1> HIDE DEF T
<1>5. ASSUME NEW k \in RowsIn[v] PROVE k \in DOMAIN T /\ T[k] = v
    <2>1. k[1] \in DOMAIN References BY <1>2, OntologyAssumption
    <2>2. \A t \in DOMAIN References : \E i \in 1..8 : t = LoadOrder[i] 
        <3>1. /\ LoadOrder[1] = "building" /\ LoadOrder[2] = "equipment_group" /\ LoadOrder[3] = "meter_role"
              /\ LoadOrder[4] = "hardware_model" /\ LoadOrder[5] = "meter" /\ LoadOrder[6] = "redundancy_pair"
              /\ LoadOrder[7] = "measurement_code" /\ LoadOrder[8] = "triple"
            BY DEF LoadOrder
        <3>2. 1 \in 1..8 /\ 2 \in 1..8 /\ 3 \in 1..8 /\ 4 \in 1..8 /\ 5 \in 1..8 /\ 6 \in 1..8 /\ 7 \in 1..8
              /\ 8 \in 1..8
            OBVIOUS
        <3>3. DOMAIN References = {"building", "equipment_group", "meter_role", "hardware_model", "meter", "redundancy_pair",
                                   "measurement_code", "triple"}
            BY DEF References
        <3> QED BY <3>1, <3>2, <3>3, Zenon
    <2> QED BY <1>3, <2>1, <2>2 DEF WrittenUpTo
<1>6. LogNamesContent' BY <1>3, <1>4, <1>5 DEF LogNamesContent, Keys
<1>7. /\ DOMAIN projector' = Projectors /\ \A k \in Projectors \ {l} : projector'[k] = projector[k]
      /\ DOMAIN projector'[l] = {"at", "table", "of"} /\ projector'[l].at = "verify"
      /\ projector'[l].table = projector[l].table
    BY <1>1, <1>4 DEF OntologySound, ProjectorShape
<1>8. \A k \in Projectors : projector'[k].at # "write" BY <1>2, <1>7 DEF OntologySound, ProjectorShape
<1>9. writing'.owner = NoProjector /\ DOMAIN writing' = {"owner", "tables", "log"} BY <1>4 DEF NoWrite
<1>10. ProjectorShape' BY <1>4, <1>7, <1>8, <1>9, OntologyAssumption DEF OntologySound, ProjectorShape
<1>11. NeverDangling' BY <1>7 DEF OntologySound, NeverDangling
<1>12. ASSUME NEW f \in Fetchers PROVE FetcherSound(f)'
    <2> DEFINE r == fetcher[f]
    <2>1. FetcherSound(f) BY DEF OntologySound
    <2>2. fetcher'[f] = [r EXCEPT !.straddled = (r.at \in {"pairs", "hardware"} \/ r.straddled)] BY <1>4
    <2>3. DOMAIN r = {"at", "meters", "pairs", "hardware", "straddled"} BY <2>1 DEF FetcherSound
    <2> HIDE DEF r
    <2>4. /\ DOMAIN fetcher'[f] = {"at", "meters", "pairs", "hardware", "straddled"} /\ fetcher'[f].at = r.at
          /\ fetcher'[f].meters = r.meters /\ fetcher'[f].pairs = r.pairs /\ fetcher'[f].hardware = r.hardware
        BY <2>2, <2>3
    <2>5. ~ fetcher'[f].straddled => r.at \notin {"pairs", "hardware"} /\ ~ r.straddled
        <3>1. fetcher'[f].straddled = (r.at \in {"pairs", "hardware"} \/ r.straddled) BY <2>2, <2>3, Zenon
        <3> QED BY <3>1
    <2> QED BY <2>1, <2>4, <2>5 DEF FetcherSound, r
<1>13. Closed(ontology') BY <1>3, <1>4
<1>14. DOMAIN fetcher' = Fetchers BY <1>4
<1> QED BY <1>6, <1>8, <1>10, <1>11, <1>12, <1>13, <1>14 DEF OntologySound

\* The first write takes the log row, and with it the turn.
LEMMA TurnTaken == ASSUME OntologySound, NEW l \in Projectors, LogStarted(l) PROVE OntologySound'
<1> DEFINE v == projector[l].of
<1>1. projector[l].at = "connect" /\ writing.owner = NoProjector /\ v \in Revisions /\ projector[l].table = 1
    BY DEF LogStarted, OntologySound, ProjectorShape
<1>2. /\ writing' = [owner |-> l, tables |-> ontology, log |-> [status |-> "started", of |-> v]]
      /\ projector' = [projector EXCEPT ![l].at = "write"]
      /\ UNCHANGED <<revision, ontology, load_log, fetcher>>
    BY DEF LogStarted, MoveTo
<1>3. /\ DOMAIN projector' = Projectors /\ \A k \in Projectors \ {l} : projector'[k] = projector[k]
      /\ DOMAIN projector'[l] = {"at", "table", "of"} /\ projector'[l].at = "write" /\ projector'[l].of = v
      /\ projector'[l].table = 1
    BY <1>1, <1>2 DEF OntologySound, ProjectorShape
<1> HIDE DEF v
<1>4. writing'.owner = l /\ DOMAIN writing' = {"owner", "tables", "log"} /\ writing'.tables = ontology
      /\ writing'.log = [status |-> "started", of |-> v]
    BY <1>2
<1>5. \A k \in Projectors \ {l} : projector'[k].at # "write"
    BY <1>1, <1>3, OntologyAssumption DEF OntologySound, ProjectorShape
<1>6. ProjectorShape' BY <1>1, <1>2, <1>3, <1>4, <1>5 DEF OntologySound, ProjectorShape
<1>7. WritingSound(l)'
    <2>1. WrittenUpTo(ontology, v, 1 - 1) BY DEF WrittenUpTo
    <2>2. Closed(ontology) BY DEF OntologySound
    <2> QED BY <1>3, <1>4, <2>1, <2>2 DEF WritingSound
<1>8. NeverDangling' BY <1>3 DEF OntologySound, NeverDangling
<1>9. DOMAIN fetcher' = Fetchers BY <1>2 DEF OntologySound
<1> QED BY <1>2, <1>5, <1>6, <1>7, <1>8, <1>9, CommittedStays DEF OntologySound

\* A reader's step: what it reads of the committed tables belongs together.
LEMMA ReaderMoves ==
    ASSUME OntologySound, NEW f \in Fetchers,
           check_metadata_tables(f) \/ fetch_cms_metadata(f) \/ fetch_ontology_metadata(f)
    PROVE  OntologySound'
<1>1. UNCHANGED <<revision, ontology, load_log, writing, projector>>
    BY DEF check_metadata_tables, fetch_cms_metadata, fetch_ontology_metadata
<1>2. FetcherSound(f) /\ DOMAIN fetcher = Fetchers /\ Closed(ontology) BY DEF OntologySound
<1>d. DOMAIN fetcher[f] = {"at", "meters", "pairs", "hardware", "straddled"} BY <1>2 DEF FetcherSound
<1>3. ASSUME NEW p \in Keys("redundancy_pair") PROVE InTable("meter", NeedsOf(p)) \subseteq Keys("meter")
    BY <1>2 DEF Keys, InTable, NeedsOf, Closed
<1>4. {m \in Keys("meter") : NeedsOf(m) \cap Keys("hardware_model") # {}} = Keys("meter")
    <2> SUFFICES ASSUME NEW m \in Keys("meter") PROVE NeedsOf(m) \cap Keys("hardware_model") # {} OBVIOUS
    <2>1. m \in DOMAIN ontology /\ m[1] = "meter" BY DEF Keys, InTable
    <2>2. ontology[m] \in Revisions /\ m \in RowsIn[ontology[m]] /\ NeedsOf(m) \subseteq DOMAIN ontology
        BY <1>2, <2>1 DEF Closed, NeedsOf
    <2>3. PICK p \in NeedsOf(m) : p[1] = "hardware_model" BY <2>1, <2>2, OntologyAssumption DEF NeedsOf
    <2> QED BY <2>2, <2>3 DEF Keys, InTable
<1>5. (\A g \in Fetchers \ {f} : fetcher'[g] = fetcher[g]) /\ DOMAIN fetcher' = Fetchers
    BY <1>2 DEF check_metadata_tables, fetch_cms_metadata, fetch_ontology_metadata
<1>k. \A t : Keys(t)' = Keys(t) BY <1>1 DEF Keys
<1>6. FetcherSound(f)'
    <2>1. CASE check_metadata_tables(f) BY <1>2, <1>d, <2>1 DEF check_metadata_tables, FetcherSound
    <2>2. CASE fetch_cms_metadata(f) BY <1>2, <1>d, <2>2 DEF fetch_cms_metadata, FetcherSound
    <2>3. CASE fetcher[f].at = "meters" /\ fetcher' = [fetcher EXCEPT ![f].at = "pairs", ![f].meters = Keys("meter")]
        <3>1. /\ fetcher'[f].at = "pairs" /\ fetcher'[f].meters = Keys("meter")
              /\ DOMAIN fetcher'[f] = {"at", "meters", "pairs", "hardware", "straddled"}
            BY <1>2, <1>d, <2>3
        <3> QED BY <1>k, <3>1 DEF FetcherSound
    <2>4. CASE /\ fetcher[f].at = "pairs"
               /\ fetcher' = [fetcher EXCEPT ![f].at = "hardware", ![f].pairs = {NeedsOf(p) : p \in Keys("redundancy_pair")}]
        <3>1. /\ fetcher'[f].at = "hardware" /\ fetcher'[f].meters = fetcher[f].meters
              /\ fetcher'[f].pairs = {NeedsOf(p) : p \in Keys("redundancy_pair")}
              /\ fetcher'[f].straddled = fetcher[f].straddled
              /\ DOMAIN fetcher'[f] = {"at", "meters", "pairs", "hardware", "straddled"}
            BY <1>2, <1>d, <2>4
        <3>2. ~ fetcher[f].straddled => fetcher[f].meters = Keys("meter") BY <1>2, <2>4 DEF FetcherSound
        <3>3. ~ fetcher[f].straddled => \A p \in fetcher'[f].pairs : InTable("meter", p) \subseteq fetcher[f].meters
            BY <1>3, <3>1, <3>2
        <3> QED BY <1>k, <3>1, <3>2, <3>3 DEF FetcherSound
    <2>5. CASE /\ fetcher[f].at = "hardware"
               /\ fetcher' = [fetcher EXCEPT ![f].at = "fetched",
                                 ![f].hardware = {m \in Keys("meter") : NeedsOf(m) \cap Keys("hardware_model") # {}}]
        <3>0. fetcher' = [fetcher EXCEPT ![f].at = "fetched", ![f].hardware = Keys("meter")] BY <1>4, <2>5
        <3>1. /\ fetcher'[f].at = "fetched" /\ fetcher'[f].meters = fetcher[f].meters
                 /\ fetcher'[f].pairs = fetcher[f].pairs
              /\ fetcher'[f].hardware = Keys("meter")
              /\ fetcher'[f].straddled = fetcher[f].straddled
              /\ DOMAIN fetcher'[f] = {"at", "meters", "pairs", "hardware", "straddled"}
            BY <1>2, <1>d, <3>0
        <3>2. ~ fetcher[f].straddled => /\ fetcher[f].meters = Keys("meter")
                                        /\ \A p \in fetcher[f].pairs : InTable("meter", p) \subseteq fetcher[f].meters
            BY <1>2, <2>5 DEF FetcherSound
        <3> QED BY <1>k, <3>1, <3>2 DEF FetcherSound
    <2> QED BY <2>1, <2>2, <2>3, <2>4, <2>5 DEF fetch_ontology_metadata
<1>7. ASSUME NEW g \in Fetchers \ {f} PROVE FetcherSound(g)'
    BY <1>5, <1>k DEF OntologySound, FetcherSound
<1>8. ProjectorShape' BY <1>1 DEF OntologySound, ProjectorShape
<1>9. \A l \in Projectors : projector'[l].at = "write" => WritingSound(l)' BY <1>1 DEF OntologySound, WritingSound
<1>10. NeverDangling' BY <1>1 DEF OntologySound, NeverDangling
<1> QED BY <1>1, <1>5, <1>6, <1>7, <1>8, <1>9, <1>10, CommittedStays DEF OntologySound

\* Two projectors, a failure in any table and a reader in between keep it.
LEMMA OntologyStep == OntologySound /\ [OntologyNext]_ovars => OntologySound'
<1> SUFFICES ASSUME OntologySound, [OntologyNext]_ovars PROVE OntologySound' OBVIOUS
<1>s. \A l \in Projectors : DOMAIN projector[l] = {"at", "table", "of"} /\ projector[l].table \in 1..9
    BY DEF OntologySound, ProjectorShape
<1>1. CASE revision' \in Revisions /\ UNCHANGED <<ontology, load_log, writing, projector, fetcher>>
    <2>1. ProjectorShape' BY <1>1 DEF OntologySound, ProjectorShape
    <2>2. \A l \in Projectors : projector'[l].at = "write" => WritingSound(l)' BY <1>1 DEF OntologySound, WritingSound
    <2>3. NeverDangling' BY <1>1 DEF OntologySound, NeverDangling
    <2>4. DOMAIN fetcher' = Fetchers BY <1>1 DEF OntologySound
    <2> QED BY <1>1, <2>1, <2>2, <2>3, <2>4, CommittedStays DEF OntologySound
<1>2. CASE ChangeSources BY <1>1, <1>2 DEF ChangeSources
<1>3. CASE UNCHANGED ovars
    <2>1. revision \in Revisions BY DEF OntologySound, ProjectorShape
    <2> QED BY <1>1, <1>3, <2>1 DEF ovars
<1>4. ASSUME NEW l \in Projectors, load_sources(l) PROVE OntologySound'
    <2> DEFINE new == [at |-> "connect", table |-> 1, of |-> revision]
    <2>1. projector' = [projector EXCEPT ![l] = new] /\ UNCHANGED <<revision, ontology, load_log, writing, fetcher>>
          /\ projector[l].at = "new"
        BY <1>4 DEF load_sources
    <2>2. writing.owner # l /\ revision \in Revisions BY <2>1 DEF OntologySound, ProjectorShape
    <2>3. DOMAIN new = {"at", "table", "of"} /\ new.table \in 1..9 /\ new.at = "connect" /\ new.of = revision
          /\ new.table = 1
        OBVIOUS
    <2> HIDE DEF new
    <2> QED BY <2>1, <2>2, <2>3, LoaderMoves
<1>5. ASSUME NEW l \in Projectors, verify(l) PROVE OntologySound'
    <2> DEFINE new == [projector[l] EXCEPT !.at = "done"]
    <2>1. projector' = [projector EXCEPT ![l] = new] /\ UNCHANGED <<revision, ontology, load_log, writing, fetcher>>
          /\ projector[l].at = "verify"
        BY <1>5 DEF verify, MoveTo
    <2>2. writing.owner # l BY <2>1 DEF OntologySound, ProjectorShape
    <2>3. DOMAIN new = {"at", "table", "of"} /\ new.table \in 1..9 /\ new.at = "done" BY <1>s
    <2> HIDE DEF new
    <2> QED BY <2>1, <2>2, <2>3, LoaderMoves
<1>6. ASSUME NEW l \in Projectors, LoadFails(l) PROVE OntologySound'
    <2> DEFINE new == [projector[l] EXCEPT !.at = "new"]
    <2>1. projector' = [projector EXCEPT ![l] = new] /\ UNCHANGED <<revision, ontology, load_log, fetcher>>
          /\ writing' = IF writing.owner = l THEN NoWrite ELSE writing
        BY <1>6 DEF LoadFails, MoveTo
    <2>3. DOMAIN new = {"at", "table", "of"} /\ new.table \in 1..9 /\ new.at = "new" BY <1>s
    <2> HIDE DEF new
    <2> QED BY <2>1, <2>3, LoaderMoves
<1> QED BY <1>2, <1>3, <1>4, <1>5, <1>6, TurnTaken, NextTableWritten, LoadCommitted, ReaderMoves DEF OntologyNext

\* However two projectors and their failures interleave, no row names a row that is not there, the log names the
\* revision that the tables hold, and a fetch that no commit straddles belongs together (load_ontology_projection.py).
THEOREM OntologyIsSound == OntologySpec => []OntologyInv
<1> QED BY OntologyStarts, OntologyStep, OntologyEnough, PTL DEF OntologySpec
=============================================================================
