---------------------------- MODULE ServingGates ----------------------------
(***************************************************************************)
(* The dry run that serves both model lanes once and publishes one         *)
(* evidence packet (cms/workflow/model_serving_pipeline.py and the task    *)
(* modules, adapters, contracts and artifact loaders it calls).            *)
(*                                                                         *)
(* The caller's payload is raw (a flag is a Boolean or a string), so its   *)
(* reading is modelled: bool("false") is True, the fixture path reads the  *)
(* words.  The model behind an adapter is external: it may return anything.*)
(* The same payload is also read by the tasks of an Airflow DAG, each on   *)
(* its own; a task that is blocked returns normally and the next one runs. *)
(***************************************************************************)
EXTENDS Integers, Sequences, FiniteSets

CONSTANTS Payloads,       \* the payloads a caller may send
          PmaxMeters,     \* PMAX_FORECAST_LOGICAL_METER_SOURCES
          WarnMeters,     \* ANOMALY_DETECTION_MODEL_METERS
          MaxPredictions  \* bound: predictions one anomaly model call returns

Raw == {"absent", "True", "False", "'true'", "'false'"}
Horizons == {15, 30, 45, 60}
LeadSteps == 1..3
ArtifactStates == {"complete", "missing", "manifest", "weights", "candidate"}

\* writes_enabled stands for both write flags. Times are minutes; -1 stands for a timestamp that does not parse.
PayloadType == [fixture : Raw, environment : {"nonprod", "prod"}, manual_run : Raw, dry_run : Raw, writes_enabled : Raw,
                base_ts : {-1} \cup Nat, origin_ts : {-1} \cup Nat, lane : Raw,
                meters : SUBSET (PmaxMeters \cup {"unknown"}), urns : SUBSET (WarnMeters \cup {"unknown"})]

ASSUME ServingGatesAssumption == Payloads \subseteq PayloadType /\ MaxPredictions \in Nat \ {0}

VARIABLES serve,  \* the direct call of run_model_serving_dry_run
          task    \* the DAG run: what each task answered
svars == <<serve, task>>

-----------------------------------------------------------------------------
\* Reading the payload: bool(value), _explicit_true and _config_bool.
Truth(raw, default) == IF raw = "absent" THEN default ELSE raw # "False"
explicit_true(raw) == raw \in {"True", "'true'"}
config_bool(raw) == raw \notin {"False", "'false'"}

parse_base_ts(t) == t >= 0 /\ t % 15 = 0
parse_origin_ts(t) == t >= 0 /\ t % 60 = 0
Loadable(p) == parse_base_ts(p.base_ts) /\ parse_origin_ts(p.origin_ts)

load_model_serving_run_config(p) ==
    [environment |-> p.environment, manual_run |-> Truth(p.manual_run, TRUE), dry_run |-> Truth(p.dry_run, TRUE),
     writes_enabled |-> Truth(p.writes_enabled, FALSE), base_ts |-> p.base_ts, origin_ts |-> p.origin_ts,
     lane |-> Truth(p.lane, FALSE), meters |-> p.meters, urns |-> p.urns]

fixture_mode_enabled(p) == explicit_true(p.fixture)
fixture_refuses(p) == \/ p.environment = "prod"
                      \/ explicit_true(p.writes_enabled)
                      \/ ~config_bool(p.manual_run)
                      \/ ~config_bool(p.dry_run)
fixture_run_config(p) ==
    load_model_serving_run_config([p EXCEPT !.environment = "nonprod", !.manual_run = "True", !.dry_run = "True",
                                            !.writes_enabled = "False", !.origin_ts = p.base_ts])

gate_manual_nonprod_run(c) == /\ c.environment # "prod" /\ c.manual_run /\ c.dry_run /\ ~c.writes_enabled
                              /\ c.meters \subseteq PmaxMeters
gate_anomaly_manual_nonprod_run(c) == /\ c.environment # "prod" /\ c.manual_run /\ c.dry_run /\ ~c.writes_enabled
                                      /\ c.urns \subseteq WarnMeters
gate_model_serving_manual_nonprod_run(c) ==
    /\ gate_manual_nonprod_run(c)
    /\ gate_anomaly_manual_nonprod_run(c)
    /\ c.base_ts = c.origin_ts
    /\ c.base_ts % 60 = 0

\* Both SQL specifications refuse a meter they do not know; the anomaly one is built for an enabled lane only.
build_model_serving_input_queries(c) == c.meters \subseteq PmaxMeters /\ (c.lane => c.urns \subseteq WarnMeters)

\* A mount names its files by uri only: the artifact counts as available when its copy on the drive was verified.
Mounts == [pmax : BOOLEAN, anomaly : BOOLEAN, external_io : BOOLEAN]
gate_pmax_model_artifact(mount) == mount.pmax /\ ~mount.external_io
gate_anomaly_model_artifact(mount) == mount.anomaly /\ ~mount.external_io
gate_model_serving_artifacts(mount) == gate_pmax_model_artifact(mount) /\ gate_anomaly_model_artifact(mount)

\* PmaxReleaseArtifactLoader.load: one ensemble for every logical meter, or none at all.
load_meter(state) == state = "complete"
load_release(release) == IF \A m \in PmaxMeters : load_meter(release[m]) THEN PmaxMeters ELSE {}

\* What a P-Max model may return for n feature rows, and the rows _normalize_batch_predictions accepts.
PmaxAnswers == [rows : 0..Cardinality(PmaxMeters), horizons : 3..4, value : {"good", "negative", "not_finite"}]
normalize_batch_predictions(answer, n) == answer.rows = n /\ answer.horizons = Cardinality(Horizons) /\ answer.value # "not_finite"
validate_pmax_forecast_row(answer) == answer.value = "good"
forecast_rows(c, meters) == {<<m, c.base_ts, h>> : m \in meters, h \in Horizons}
validate_pmax_forecast_output(rows) ==
    /\ rows # {}
    /\ \A r \in rows : \A h \in Horizons : <<r[1], r[2], h>> \in rows

\* One wide prediction of the anomaly model: its meter, its origin and whether its fields validate.
WideRows == [urn : WarnMeters \cup {"unknown"}, origin : {0, 60}, fields_ok : BOOLEAN]
PredictionBatches == UNION {[1..n -> WideRows] : n \in 0..MaxPredictions}
validate_anomaly_detection_wide_row(w) == w.fields_ok /\ w.urn \in WarnMeters
anomaly_wide_to_long_rows(w) == {<<w.urn, w.origin, s>> : s \in LeadSteps}
long_rows(batch) == UNION {anomaly_wide_to_long_rows(batch[i]) : i \in DOMAIN batch}
\* A duplicate key is a pair of predictions of one meter and origin.
validate_anomaly_detection_batch(batch) ==
    \A i, j \in DOMAIN batch : i # j => anomaly_wide_to_long_rows(batch[i]) \cap anomaly_wide_to_long_rows(batch[j]) = {}
anomaly_adapter_predict(batch) == /\ \A i \in DOMAIN batch : validate_anomaly_detection_wide_row(batch[i])
                                  /\ validate_anomaly_detection_batch(batch)

\* Mutant: the rows are compared with each other only, never with what was configured.
validate_long_rows_against_config_present(rows, c) == rows # {}
\* _validate_long_rows_against_config: the configured meters, all of them and no others, at the configured origin.
validate_long_rows_against_config(rows, c) ==
    /\ {r[1] : r \in rows} = c.urns
    /\ \A r \in rows : r[2] = c.origin_ts
    /\ \A u \in c.urns, s \in LeadSteps : <<u, c.origin_ts, s>> \in rows
validate_anomaly_warning_output(rows, c) ==
    /\ rows # {}
    /\ validate_long_rows_against_config(rows, c)
    /\ \A r \in rows : \A s \in LeadSteps : <<r[1], r[2], s>> \in rows

validate_cross_lane_consistency(c, forecasts, warnings) ==
    /\ c.base_ts = c.origin_ts
    /\ ~c.writes_enabled
    /\ \A r \in forecasts : r[2] = c.base_ts
    /\ \A r \in warnings : r[2] = c.origin_ts
    /\ c.lane => warnings # {}
    /\ forecasts # {}

-----------------------------------------------------------------------------
NoCall == [at |-> "idle", payload |-> CHOOSE p \in Payloads : TRUE, config |-> <<>>, features |-> {},
           loaded |-> {}, forecasts |-> {}, warnings |-> {}]

TASK_IDS == <<"load_config", "gate_run", "gate_artifacts", "input_queries", "dry_run", "cross_lane", "publish">>

GatesInit == serve = NoCall /\ task = <<>>

At(step) == serve.at = step
Pass(step, more) == serve' = [x \in DOMAIN serve |-> IF x = "at" THEN step ELSE IF x \in DOMAIN more THEN more[x] ELSE serve[x]]
                    /\ UNCHANGED task
Block == Pass("blocked", <<>>)

\* The call arrives; a payload that cannot be read raises.
LoadConfig == /\ At("idle")
              /\ \E p \in Payloads :
                    IF Loadable(p) THEN Pass("loaded", [payload |-> p, config |-> load_model_serving_run_config(p)])
                                   ELSE Pass("blocked", [payload |-> p])

Gate == /\ At("loaded")
        /\ \E mount \in Mounts :
              IF gate_model_serving_manual_nonprod_run(serve.config) /\ gate_model_serving_artifacts(mount)
              THEN Pass("gated", <<>>) ELSE Block

\* Readiness and the feature vectors, one per configured meter (PmaxReadiness has the detail).
build_pmax_features == /\ At("gated")
                       /\ \/ Pass("built", [features |-> serve.config.meters])
                          \/ Block

\* The adapter loads the release when it was given a loader.
LoadRelease == /\ At("built")
               /\ \E release \in [PmaxMeters -> ArtifactStates] :
                     IF load_release(release) # {} THEN Pass("model", [loaded |-> load_release(release)]) ELSE Block

run_pmax_forecast_adapter ==
    /\ At("model")
    /\ \E answer \in PmaxAnswers :
          LET rows == forecast_rows(serve.config, serve.features)
          IN  IF /\ serve.features # {} /\ serve.features \subseteq serve.loaded
                 /\ normalize_batch_predictions(answer, Cardinality(serve.features))
                 /\ validate_pmax_forecast_row(answer)
                 /\ validate_pmax_forecast_output(rows)
              THEN Pass(IF serve.config.lane THEN "warning" ELSE "cross", [forecasts |-> rows]) ELSE Block

run_anomaly_warning_adapter ==
    /\ At("warning")
    /\ \E batch \in PredictionBatches :
          LET rows == long_rows(batch)
          IN  IF /\ anomaly_adapter_predict(batch)
                 /\ validate_long_rows_against_config(rows, serve.config)
                 /\ validate_anomaly_warning_output(rows, serve.config)
              THEN Pass("cross", [warnings |-> rows]) ELSE Block

\* No feature row, or no anomaly model although the lane is enabled.
AnomalyLaneMissing == At("warning") /\ Block

PublishEvidence == /\ At("cross")
           /\ IF validate_cross_lane_consistency(serve.config, serve.forecasts, serve.warnings)
              THEN Pass("published", <<>>) ELSE Block

\* The fixture: generated rows, a fake model with one good row, no anomaly model.
fixture_dry_run_ok(p) ==
    /\ ~fixture_refuses(p)
    /\ Loadable([p EXCEPT !.origin_ts = p.base_ts])
    /\ LET c == fixture_run_config(p)
       IN  /\ gate_model_serving_manual_nonprod_run(c)
           /\ c.meters # {} /\ ~c.lane

\* airflow_task_entrypoint: every task reads the payload again.
airflow_task_entrypoint(id, p, mount) ==
    CASE id = "load_config"    -> Loadable(p)
      [] id = "gate_run"       -> Loadable(p) /\ gate_model_serving_manual_nonprod_run(load_model_serving_run_config(p))
      [] id = "gate_artifacts" -> gate_model_serving_artifacts(mount)
      [] id = "input_queries"  -> Loadable(p) /\ build_model_serving_input_queries(load_model_serving_run_config(p))
      [] OTHER                 -> fixture_mode_enabled(p) /\ fixture_dry_run_ok(p)

RunTask == /\ ~At("idle")
           /\ Len(task) < Len(TASK_IDS)
           /\ \E mount \in Mounts : task' = Append(task, airflow_task_entrypoint(TASK_IDS[Len(task) + 1], serve.payload, mount))
           /\ UNCHANGED serve

GatesNext == LoadConfig \/ Gate \/ build_pmax_features \/ LoadRelease \/ run_pmax_forecast_adapter
             \/ run_anomaly_warning_adapter \/ AnomalyLaneMissing \/ PublishEvidence \/ RunTask

GatesSpec == GatesInit /\ [][GatesNext]_svars

-----------------------------------------------------------------------------
\* A published packet stands for complete lanes: every configured meter has all its horizons and, with the
\* anomaly lane on, all its lead steps, at one tick on the hour, and no other rows; and it never came from a
\* production or a writing configuration (run_model_serving_dry_run; the models may return anything).
PacketIsComplete ==
    At("published") =>
        LET c == serve.config
        IN  /\ serve.forecasts = {<<m, c.base_ts, h>> : m \in c.meters, h \in Horizons}
            /\ serve.warnings = IF c.lane THEN {<<u, c.base_ts, s>> : u \in c.urns, s \in LeadSteps} ELSE {}
            /\ c.base_ts % 60 = 0
            /\ serve.payload.environment = "nonprod" /\ ~explicit_true(serve.payload.writes_enabled)

\* The DAG publishes a packet only for a fixture payload that is no production or writing run, whatever its
\* gate tasks answered: they cannot stop it (airflow_task_entrypoint).
TaskPacketIsDry ==
    Len(task) = Len(TASK_IDS) /\ task[Len(TASK_IDS)] =>
        /\ fixture_mode_enabled(serve.payload) /\ serve.payload.environment = "nonprod"
        /\ ~explicit_true(serve.payload.writes_enabled) /\ config_bool(serve.payload.manual_run)
        /\ task[5] /\ task[6]

EvidenceInv == PacketIsComplete /\ TaskPacketIsDry
=============================================================================
