----------------------------- MODULE MCModelOps -----------------------------
(***************************************************************************)
(* What operators do to models and data: promotion of the P-Max and the    *)
(* anomaly models, retraining jobs and their uploads, threshold files, and *)
(* the supervised replay of the archive.  These use separate directories   *)
(* and locks, so a behaviour moves the one that part names while the       *)
(* others stay in an initial state.  Retraining is explored twice: two     *)
(* jobs uploading to one run, and one job whose record is refreshed.       *)
(*                                                                         *)
(* A two-file P-Max tree in two versions, one of which degrades the RMSE;  *)
(* two anomaly models; two meters over two days of two event times, one    *)
(* meter without a row at one of them; two threshold candidates.           *)
(***************************************************************************)
EXTENDS ModelDeployment, AnomalyDeployment, SourceReplay, RetrainJob, ThresholdOps

CONSTANTS m1, m2, j1, j2, t1, t2

VARIABLE part

VerdictOf == [v \in Versions |-> IF v = "new" THEN "warn" ELSE "pass"]
RankOf == [m \in Meters |-> IF m = m1 THEN 1 ELSE 2]
SmallArchive == (Meters \X (0 .. TargetEnd - 1)) \ {<<m2, 1>>}
LevelOf == [v \in Rows |-> IF v = "high" THEN 2 ELSE 1]

opsvars == <<part, dvars, avars, rvars, trainvars, tvars>>

OpsInit ==
    /\ part \in {"pmax", "anomaly", "replay", "uploads", "status", "thresholds"}
    /\ DeployInit /\ (part # "pmax" => deployed = NoTree)
    /\ AnomalyInit /\ (part # "anomaly" => active = NoPair)
    /\ ReplayInit /\ RetrainInit /\ ThresholdInit

PmaxMoves == part = "pmax" /\ DeployNext /\ UNCHANGED <<part, avars, rvars, trainvars, tvars>>
AnomalyMoves == part = "anomaly" /\ AnomalyNext /\ UNCHANGED <<part, dvars, rvars, trainvars, tvars>>
ReplayMoves == part = "replay" /\ ReplayNext /\ UNCHANGED <<part, dvars, avars, trainvars, tvars>>
UploadsMove == /\ part = "uploads" /\ RetrainNext /\ refresh' = refresh
               /\ UNCHANGED <<part, dvars, avars, rvars, tvars>>
StatusMoves == /\ part = "status" /\ RetrainNext /\ job'[j2] = job[j2]
               /\ UNCHANGED <<part, dvars, avars, rvars, tvars>>
ThresholdsMove == part = "thresholds" /\ ThresholdNext /\ UNCHANGED <<part, dvars, avars, rvars, trainvars>>

OpsNext == PmaxMoves \/ AnomalyMoves \/ ReplayMoves \/ UploadsMove \/ StatusMoves \/ ThresholdsMove

Retraining == part \in {"uploads", "status"}

\* The fairness of each component, for the behaviours that move it.
OpsFairness ==
    /\ WF_dvars(part = "pmax" /\ OpStep)
    /\ WF_rvars(part = "replay" /\ SupervisorStep)
    /\ \A m \in Meters : WF_rvars(part = "replay" /\ Consume(m))
    /\ \A j \in TrainJobs : WF_trainvars(Retraining /\ HandlerStep(j))

OpsSpec == OpsInit /\ [][OpsNext]_opsvars /\ OpsFairness

-----------------------------------------------------------------------------
\* A swap that was interrupted is left alone for the operator, and one that was not ends with
\* a served model (pmax/promotion.py).
SwapsAreRecoverable == UnresolvedSwapIsKept /\ (part = "pmax" => ServiceReturns)

\* Every archived row whose POST is not refused reaches the ledger.
ReplayStoresAll == part = "replay" => EveryRowReplayed

\* Every retraining job ends, however uploads time out and retry (scripts/runpod).
RetrainingEnds == Retraining => EveryJobEnds

=============================================================================
