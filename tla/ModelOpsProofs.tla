--------------------------- MODULE ModelOpsProofs ---------------------------
(***************************************************************************)
(* What operators' commands leave behind: model trees and threshold files  *)
(* under kills, retraining records under concurrent refreshes, and the     *)
(* replayed archive under crashes of its supervisor.  A promotion or       *)
(* rollback of a model holds a lock, so the only interleavings are with    *)
(* the candidate's owners and with the end of the process: its invariants  *)
(* say where every tree is after each filesystem call.                     *)
(***************************************************************************)
EXTENDS ModelDeployment, AnomalyDeployment, RetrainJob, ThresholdOps, SourceReplay,
        SequenceTheorems, FiniteSetTheorems, WellFoundedInduction, TLAPS

(***************************************************************************)
(* The P-Max champion.                                                     *)
(***************************************************************************)

\* What is left of a tree is complete only if nothing of it is missing.
LEMMA TornIsWhole ==
    ASSUME NEW t \in Trees, t # NoTree, NEW u \in Torn(t), Complete(u)
    PROVE  u = t
<1>1. u \in [Files -> Versions \cup {Gone}] /\ t \in [Files -> Versions \cup {Gone}] BY DEF Torn, Trees
<1>2. \A f \in Files : u[f] = t[f] BY DEF Torn, Complete
<1> QED BY <1>1, <1>2

\* Nothing is being swapped at the start and the deployed tree loads.
LEMMA DeployInvInit == DeployInit => DeploymentInv
<1> SUFFICES ASSUME DeployInit PROVE DeploymentInv
    OBVIOUS
<1> USE DeployNamesAssumption, DeployVerdictAssumption DEF DeployInit
<1>1. deployed \in Trees /\ (deployed # NoTree => Loads(deployed))
    BY DEF Trees, Whole, Loads, Complete
<1>2. DeployTypeOK BY <1>1 DEF DeployTypeOK, Trees, NoMark, Idle, Pcs, CandRows, OpRows
<1>3. ChampionSurvives /\ ChampionIsVetted /\ NoUnprovenModel
    BY <1>1 DEF ChampionSurvives, ChampionIsVetted, NoUnprovenModel, Unproven
<1>4. SwapShape BY DEF SwapShape, Idle
<1>5. VettedTrees BY <1>1 DEF VettedTrees, Idle, NoMark, Complete
<1> QED BY <1>2, <1>3, <1>4, <1>5 DEF DeploymentInv

\* The lock's record, step by step.
LEMMA OpFields ==
    ASSUME NEW o \in OpRows
    PROVE  /\ \A x \in Pcs : [o EXCEPT !.pc = x] \in OpRows
           /\ \A x \in Pcs, t \in Trees : [o EXCEPT !.pc = x, !.backup = t] \in OpRows
           /\ \A f : [o EXCEPT !.todo = @ \ {f}] \in OpRows
           /\ [o EXCEPT !.pc = "activate", !.moved = TRUE] \in OpRows
           /\ Idle \in OpRows /\ o.backup \in Trees /\ NoTree \in Trees
BY DEF OpRows, Pcs, Idle, Trees

\* Every step keeps the invariant, as long as nobody writes a candidate in use.
LEMMA DeployInvStep ==
    ASSUME "race" \notin DeployFaults, DeploymentInv, [DeployNext]_dvars
    PROVE  DeploymentInv'
<1> USE DeployNamesAssumption, DeployVerdictAssumption DEF DeploymentInv
<1>o. /\ \A x \in Pcs : [op EXCEPT !.pc = x] \in OpRows
      /\ \A x \in Pcs, t \in Trees : [op EXCEPT !.pc = x, !.backup = t] \in OpRows
      /\ \A f : [op EXCEPT !.todo = @ \ {f}] \in OpRows
      /\ [op EXCEPT !.pc = "activate", !.moved = TRUE] \in OpRows
      /\ Idle \in OpRows /\ op.backup \in Trees /\ NoTree \in Trees
    BY OpFields DEF DeployTypeOK
<1>p. \A x \in Pcs : Step(x) => op' \in OpRows BY <1>o DEF Step
<1>r. Release => op' \in OpRows /\ archives' \subseteq Trees \ {NoTree} BY <1>o DEF Release, DeployTypeOK
<1>c. \A r \in Runs : \A t \in Trees : [cand EXCEPT ![r].tree = t] \in [Runs -> CandRows]
    BY DEF DeployTypeOK, CandRows
<1>d. \A r \in Runs : cand[r].tree \in Trees BY DEF DeployTypeOK, CandRows
<1>w. \A v \in Versions : [tree |-> Whole(v), mark |-> NoMark] \in CandRows
    BY <1>o DEF CandRows, NoMark, Whole, Trees
<1>g. Whole(Gone) \in Trees BY DEF Whole, Trees
<1>m. [tree |-> NoTree, mark |-> NoMark] \in CandRows BY <1>o DEF CandRows, NoMark
<1>z. ~ Complete(NoTree) BY DEF Complete
<1>i. Idle.pc = "idle" /\ Idle.backup = NoTree BY DEF Idle
<1>l. \A t : Loads(t) => Complete(t) BY DEF Loads
<1>v. Release /\ vetted' = vetted => op'.pc = "idle" /\ op'.backup = NoTree /\ \A t \in archives' : Complete(t) => t \in vetted'
    BY <1>i DEF Release, VettedTrees
<1>t. \A t : Torn(t) \subseteq Trees \ {NoTree} BY DEF Torn
<1>f. \A r \in Runs : Free(r) => op.run # r /\ checking[r] = "none" BY DEF Free
<1>1. ASSUME NEW r \in Runs, NEW v \in Versions, install_candidate_archive(r, v) PROVE DeploymentInv'
    <2>1. DeployTypeOK' BY <1>1, <1>m DEF install_candidate_archive, ops, DeployTypeOK
    <2>2. ChampionSurvives' /\ NoUnprovenModel' BY <1>1 DEF install_candidate_archive, ops, DeployTypeOK, OpRows, CandRows, ChampionSurvives, NoUnprovenModel, Unproven, SwapShape, Idle
    <2>3. ChampionIsVetted' BY <1>1 DEF install_candidate_archive, ops, ChampionIsVetted, VettedTrees
    <2>4. SwapShape' BY <1>1 DEF install_candidate_archive, ops, DeployTypeOK, OpRows, CandRows, SwapShape, ChampionSurvives, NoUnprovenModel, Unproven, Idle
    <2>5. VettedTrees' BY <1>1, <1>f, TornIsWhole DEF install_candidate_archive, ops, DeployTypeOK, OpRows, CandRows, VettedTrees, SwapShape, Idle, NoMark, Complete
    <2> QED BY <2>1, <2>2, <2>3, <2>4, <2>5
<1>2. ASSUME NEW r \in Runs, NEW f \in Files, NEW v \in Versions, Retrain(r, f, v) PROVE DeploymentInv'
    <2> DEFINE t == [cand[r].tree EXCEPT ![f] = v]
    <2>0. cand' = [cand EXCEPT ![r].tree = t] /\ t \in Trees
        BY <1>2 DEF Retrain, DeployTypeOK, Trees, CandRows
    <2>1. DeployTypeOK'
        <3> HIDE DEF t
        <3> QED BY <1>2, <1>c, <2>0 DEF Retrain, ops, DeployTypeOK
    <2>2. ChampionSurvives' /\ NoUnprovenModel' BY <1>2 DEF Retrain, ops, DeployTypeOK, OpRows, CandRows, ChampionSurvives, NoUnprovenModel, Unproven, SwapShape, Idle
    <2>3. ChampionIsVetted' BY <1>2 DEF Retrain, ops, ChampionIsVetted, VettedTrees
    <2>4. SwapShape' BY <1>2 DEF Retrain, ops, DeployTypeOK, OpRows, CandRows, SwapShape, ChampionSurvives, NoUnprovenModel, Unproven, Idle
    <2>5. VettedTrees' BY <1>2, <1>f, TornIsWhole DEF Retrain, ops, DeployTypeOK, OpRows, CandRows, VettedTrees, SwapShape, Idle, NoMark, Complete
    <2> QED BY <2>1, <2>2, <2>3, <2>4, <2>5
<1>3. ASSUME NEW r \in Runs, PlaceUpload(r) PROVE DeploymentInv'
    <2>1. DeployTypeOK' BY <1>3, <1>o, <1>w DEF PlaceUpload, ops, DeployTypeOK
    <2>2. ChampionSurvives' /\ NoUnprovenModel' BY <1>3 DEF PlaceUpload, ops, Whole, DeployTypeOK, OpRows, CandRows, ChampionSurvives, NoUnprovenModel, Unproven, SwapShape, Idle
    <2>3. ChampionIsVetted' BY <1>3 DEF PlaceUpload, ops, Whole, ChampionIsVetted, VettedTrees
    <2>4. SwapShape' BY <1>3 DEF PlaceUpload, ops, Whole, DeployTypeOK, OpRows, CandRows, SwapShape, ChampionSurvives, NoUnprovenModel, Unproven, Idle
    <2>5. VettedTrees' BY <1>3, <1>f, TornIsWhole DEF PlaceUpload, ops, Whole, DeployTypeOK, OpRows, CandRows, VettedTrees, SwapShape, Idle, NoMark, Complete
    <2> QED BY <2>1, <2>2, <2>3, <2>4, <2>5
<1>4. ASSUME NEW r \in Runs, delete_candidate(r) PROVE DeploymentInv'
    <2>1. DeployTypeOK' BY <1>4, <1>m DEF delete_candidate, ops, DeployTypeOK
    <2>2. ChampionSurvives' /\ NoUnprovenModel' BY <1>4 DEF delete_candidate, ops, DeployTypeOK, OpRows, CandRows, ChampionSurvives, NoUnprovenModel, Unproven, SwapShape, Idle
    <2>3. ChampionIsVetted' BY <1>4 DEF delete_candidate, ops, ChampionIsVetted, VettedTrees
    <2>4. SwapShape' BY <1>4 DEF delete_candidate, ops, DeployTypeOK, OpRows, CandRows, SwapShape, ChampionSurvives, NoUnprovenModel, Unproven, Idle
    <2>5. VettedTrees' BY <1>4, <1>f, TornIsWhole DEF delete_candidate, ops, DeployTypeOK, OpRows, CandRows, VettedTrees, SwapShape, Idle, NoMark, Complete
    <2> QED BY <2>1, <2>2, <2>3, <2>4, <2>5
<1>5. ASSUME NEW r \in Runs, validate_candidate(r) PROVE DeploymentInv'
    <2>1. DeployTypeOK' BY <1>5, <1>d DEF validate_candidate, ops, Worst, DeployTypeOK
    <2>2. ChampionSurvives' /\ NoUnprovenModel' BY <1>5 DEF validate_candidate, ops, Worst, DeployTypeOK, OpRows, CandRows, ChampionSurvives, NoUnprovenModel, Unproven, SwapShape, Idle
    <2>3. ChampionIsVetted' BY <1>5 DEF validate_candidate, ops, Worst, ChampionIsVetted, VettedTrees
    <2>4. SwapShape' BY <1>5 DEF validate_candidate, ops, Worst, DeployTypeOK, OpRows, CandRows, SwapShape, ChampionSurvives, NoUnprovenModel, Unproven, Idle
    <2>5. VettedTrees' BY <1>5, <1>f, TornIsWhole DEF validate_candidate, ops, Worst, DeployTypeOK, OpRows, CandRows, VettedTrees, SwapShape, Idle, NoMark, Complete
    <2> QED BY <2>1, <2>2, <2>3, <2>4, <2>5
<1>6. ASSUME NEW r \in Runs, WriteValidation(r) PROVE DeploymentInv'
    <2>1. DeployTypeOK'
        <3> DEFINE new == [digest |-> cand[r].tree, result |-> checking[r]]
        <3>1. new \in [digest : Trees, result : {"none", "pass", "warn"}] BY <1>6, <1>d DEF DeployTypeOK
        <3> HIDE DEF new
        <3>2. [cand EXCEPT ![r].mark = new] \in [Runs -> CandRows] BY <3>1 DEF DeployTypeOK, CandRows
        <3>3. cand' \in [Runs -> CandRows] BY <1>6, <3>2 DEF WriteValidation, new, DeployTypeOK
        <3> QED BY <1>6, <3>3 DEF WriteValidation, ops, DeployTypeOK
    <2>2. ChampionSurvives' /\ NoUnprovenModel' BY <1>6 DEF WriteValidation, ops, DeployTypeOK, OpRows, CandRows, ChampionSurvives, NoUnprovenModel, Unproven, SwapShape, Idle
    <2>3. ChampionIsVetted' BY <1>6 DEF WriteValidation, ops, ChampionIsVetted, VettedTrees
    <2>4. SwapShape' BY <1>6 DEF WriteValidation, ops, DeployTypeOK, OpRows, CandRows, SwapShape, ChampionSurvives, NoUnprovenModel, Unproven, Idle
    <2>5. VettedTrees' BY <1>6, <1>f, TornIsWhole DEF WriteValidation, ops, DeployTypeOK, OpRows, CandRows, VettedTrees, SwapShape, Idle, NoMark, Complete
    <2> QED BY <2>1, <2>2, <2>3, <2>4, <2>5
<1>7. ASSUME NEW r \in Runs, NEW w \in BOOLEAN, promote_candidate(r, w) PROVE DeploymentInv'
    <2>1. DeployTypeOK'
        <3>1. op' \in OpRows 
            <4>1. NoTree \in Trees BY <1>o
            <4> QED BY <1>7, <4>1 DEF promote_candidate, OpRows, Idle, Pcs
        <3> QED BY <1>7, <1>g, <3>1 DEF promote_candidate, DeployTypeOK
    <2>2. ChampionSurvives' /\ NoUnprovenModel' BY <1>7 DEF promote_candidate, assert_validation_current, Whole, DeployTypeOK, OpRows, CandRows, ChampionSurvives, NoUnprovenModel, Unproven, SwapShape, Idle
    <2>3. ChampionIsVetted' BY <1>7 DEF promote_candidate, assert_validation_current, Whole, ChampionIsVetted, VettedTrees
    <2>4. SwapShape' BY <1>7 DEF promote_candidate, assert_validation_current, Whole, DeployTypeOK, OpRows, CandRows, SwapShape, ChampionSurvives, NoUnprovenModel, Unproven, Idle
    <2>5. VettedTrees' BY <1>7, <1>f, TornIsWhole DEF promote_candidate, assert_validation_current, Whole, DeployTypeOK, OpRows, CandRows, VettedTrees, SwapShape, Idle, NoMark, Complete
    <2> QED BY <2>1, <2>2, <2>3, <2>4, <2>5
<1>8. ASSUME NEW a \in archives, rollback_deployment(a) PROVE DeploymentInv'
    <2>1. DeployTypeOK'
        <3>1. op' \in OpRows 
            <4>1. NoTree \in Trees BY <1>o
            <4> QED BY <1>8, <4>1 DEF rollback_deployment, OpRows, Idle, Pcs
        <3> QED BY <1>8, <3>1 DEF rollback_deployment, DeployTypeOK
    <2>2. ChampionSurvives' /\ NoUnprovenModel' BY <1>8 DEF rollback_deployment, DeployTypeOK, OpRows, CandRows, ChampionSurvives, NoUnprovenModel, Unproven, SwapShape, Idle
    <2>3. ChampionIsVetted' BY <1>8 DEF rollback_deployment, ChampionIsVetted, VettedTrees
    <2>4. SwapShape' BY <1>8 DEF rollback_deployment, DeployTypeOK, OpRows, CandRows, SwapShape, ChampionSurvives, NoUnprovenModel, Unproven, Idle
    <2>5. VettedTrees'
        <3>1. a \in vetted BY <1>8, <1>l DEF rollback_deployment, VettedTrees
        <3>2. op'.pc = "backup" /\ op'.backup = NoTree BY <1>8 DEF rollback_deployment, Idle
        <3>3. UNCHANGED <<cand, checking, deployed, retired, archives, vetted>> /\ staging' = a
            BY <1>8 DEF rollback_deployment
        <3> QED BY <1>z, <3>1, <3>2, <3>3 DEF VettedTrees
    <2> QED BY <2>1, <2>2, <2>3, <2>4, <2>5
<1>9. ASSUME NEW f \in Files, copy_runtime_artifacts(f) PROVE DeploymentInv'
    <2>1. DeployTypeOK'
        <3> DEFINE t == cand[op.run].tree
                   new == [staging EXCEPT ![f] = t[f]]
        <3>1. op.run \in Runs /\ t \in Trees /\ (t # NoTree => t[f] \in Versions \cup {Gone})
            BY <1>9 DEF copy_runtime_artifacts, SwapShape, DeployTypeOK, Trees, CandRows
        <3>2. t # NoTree => new \in Trees
            BY <1>9, <3>1 DEF copy_runtime_artifacts, VettedTrees, Trees
        <3> HIDE DEF new, t
        <3>3. CASE t = NoTree \/ t[f] = Gone
            BY <1>9, <1>r, <3>3 DEF copy_runtime_artifacts, DeployTypeOK, t
        <3>4. CASE t # NoTree /\ t[f] # Gone
            <4>1. staging' = new /\ op' = [op EXCEPT !.todo = @ \ {f}] BY <1>9, <3>4 DEF copy_runtime_artifacts, new, t
            <4> QED BY <1>9, <1>o, <3>2, <3>4, <4>1 DEF copy_runtime_artifacts, DeployTypeOK, t
        <3> QED BY <3>3, <3>4
    <2>2. ChampionSurvives' /\ NoUnprovenModel' BY <1>9 DEF copy_runtime_artifacts, Release, DeployTypeOK, OpRows, CandRows, ChampionSurvives, NoUnprovenModel, Unproven, SwapShape, Idle
    <2>3. ChampionIsVetted' BY <1>9 DEF copy_runtime_artifacts, Release, ChampionIsVetted, VettedTrees
    <2>4. SwapShape' BY <1>9 DEF copy_runtime_artifacts, Release, DeployTypeOK, OpRows, CandRows, SwapShape, ChampionSurvives, NoUnprovenModel, Unproven, Idle
    <2>5. VettedTrees'
        <3> DEFINE t == cand[op.run].tree
        <3>0. UNCHANGED <<cand, checking, deployed, retired, vetted>> BY <1>9 DEF copy_runtime_artifacts
        <3>1. CASE t = NoTree \/ t[f] = Gone
            <4>1. Release BY <1>9, <3>1 DEF copy_runtime_artifacts
            <4> QED BY <1>v, <1>z, <3>0, <4>1 DEF VettedTrees
        <3>2. CASE ~ (t = NoTree \/ t[f] = Gone)
            <4>1. staging' = [staging EXCEPT ![f] = t[f]] /\ op' = [op EXCEPT !.todo = @ \ {f}] /\ archives' = archives
                BY <1>9, <3>2 DEF copy_runtime_artifacts
            <4>2. op'.pc = "copy" /\ op.pc = "copy" /\ op'.run = op.run /\ op'.backup = op.backup /\ op'.todo = op.todo \ {f}
                BY <1>9, <4>1 DEF copy_runtime_artifacts, DeployTypeOK, OpRows
            <4>3. staging \in [Files -> Versions \cup {Gone}] /\ \A x \in Files \ op.todo : staging[x] = t[x]
                BY <4>2 DEF VettedTrees
            <4>4. op.run \in Runs /\ t \in Trees BY <1>d, <4>2 DEF SwapShape
            <4>5. t[f] \in Versions \cup {Gone} BY <3>2, <4>4 DEF Trees
            <4>6. staging' \in [Files -> Versions \cup {Gone}] /\ \A x \in Files \ op'.todo : staging'[x] = t[x]
                BY <4>1, <4>2, <4>3, <4>5
            <4> QED BY <3>0, <4>1, <4>2, <4>6 DEF VettedTrees
        <3> QED BY <3>1, <3>2
    <2> QED BY <2>1, <2>2, <2>3, <2>4, <2>5
<1>10. ASSUME CheckStaging PROVE DeploymentInv'
    <2>1. DeployTypeOK' BY <1>10, <1>o, <1>p, <1>r, <1>t DEF CheckStaging, DeployTypeOK, Pcs
    <2>2. ChampionSurvives' /\ NoUnprovenModel' BY <1>10 DEF CheckStaging, Release, Step, DeployTypeOK, OpRows, CandRows, ChampionSurvives, NoUnprovenModel, Unproven, SwapShape, Idle
    <2>3. ChampionIsVetted' BY <1>10 DEF CheckStaging, Release, Step, ChampionIsVetted, VettedTrees
    <2>4. SwapShape' BY <1>10 DEF CheckStaging, Release, Step, DeployTypeOK, OpRows, CandRows, SwapShape, ChampionSurvives, NoUnprovenModel, Unproven, Idle
    <2>5. VettedTrees'
        <3>0. UNCHANGED <<cand, checking, deployed, retired, staging, vetted>> BY <1>10 DEF CheckStaging
        <3>1. CASE Loads(staging)
            <4>1. op' = [op EXCEPT !.pc = "backup"] /\ archives' = archives BY <1>10, <3>1 DEF CheckStaging, Step
            <4>2. op'.pc = "backup" /\ op'.backup = op.backup BY <4>1 DEF DeployTypeOK, OpRows
            <4>3. op.pc = "copy" /\ op.todo = {} BY <1>10 DEF CheckStaging
            <4>4. cand[op.run].tree \in vetted /\ staging \in [Files -> Versions \cup {Gone}]
                  /\ \A f \in Files : staging[f] = cand[op.run].tree[f]
                BY <4>3 DEF VettedTrees
            <4>5. cand[op.run].tree \in [Files -> Versions \cup {Gone}]
                <5>1. Loads(cand[op.run].tree) BY <4>4 DEF VettedTrees
                <5>2. cand[op.run].tree \in Trees /\ cand[op.run].tree # NoTree
                    BY <1>z, <1>l, <4>4, <5>1 DEF DeployTypeOK
                <5> QED BY <5>2 DEF Trees
            <4>6. staging = cand[op.run].tree BY <4>4, <4>5
            <4> QED BY <3>0, <4>1, <4>2, <4>4, <4>6 DEF VettedTrees
        <3>2. CASE ~ Loads(staging)
            <4>1. Release BY <1>10, <3>2 DEF CheckStaging
            <4> QED BY <1>v, <1>z, <3>0, <4>1 DEF VettedTrees
        <3> QED BY <3>1, <3>2
    <2> QED BY <2>1, <2>2, <2>3, <2>4, <2>5
<1>11. ASSUME backup_runtime PROVE DeploymentInv'
    <2>0. op.pc = "backup" /\ UNCHANGED <<cand, incoming, checking, deployed, retired, champion, vetted, broke>>
        BY <1>11 DEF backup_runtime
    <2>a. retired = NoTree /\ ~ op.moved /\ op.pc # "idle" BY <2>0 DEF SwapShape
    <2>b. champion # NoTree => champion = deployed BY <2>a DEF ChampionSurvives
    <2>c. ~ broke => deployed \in {NoTree, champion} BY <2>0 DEF NoUnprovenModel, Unproven
    <2>1. CASE deployed = NoTree /\ op' = [op EXCEPT !.pc = "activate"] /\ UNCHANGED <<staging, archives>>
        <3>1. op' \in OpRows BY <1>o, <2>1 DEF Pcs
        <3>2. op'.pc = "activate" /\ op'.backup = op.backup /\ op'.kind = op.kind /\ op'.run = op.run /\ op'.moved = op.moved
            BY <2>1 DEF DeployTypeOK, OpRows
        <3>3. DeployTypeOK' BY <2>0, <2>1, <3>1 DEF DeployTypeOK
        <3>4. ChampionSurvives' /\ ChampionIsVetted' /\ NoUnprovenModel'
            BY <2>0, <2>1 DEF ChampionSurvives, ChampionIsVetted, NoUnprovenModel, Unproven
        <3>5. SwapShape' BY <2>0, <2>1, <2>a, <2>b, <2>c, <3>2 DEF SwapShape
        <3>6. VettedTrees' BY <2>0, <2>1, <3>2 DEF VettedTrees
        <3> QED BY <3>3, <3>4, <3>5, <3>6
    <2>2. CASE Loads(deployed) /\ op' = [op EXCEPT !.pc = "retire", !.backup = deployed] /\ UNCHANGED <<staging, archives>>
        <3>1. op' \in OpRows BY <1>o, <2>2 DEF Pcs, DeployTypeOK
        <3>2. op'.pc = "retire" /\ op'.backup = deployed /\ op'.kind = op.kind /\ op'.run = op.run /\ op'.moved = op.moved
            BY <2>2 DEF DeployTypeOK, OpRows
        <3>3. DeployTypeOK' BY <2>0, <2>2, <3>1 DEF DeployTypeOK
        <3>4. ChampionSurvives' /\ ChampionIsVetted' /\ NoUnprovenModel'
            BY <2>0, <2>c DEF ChampionSurvives, ChampionIsVetted, NoUnprovenModel, Unproven
        <3>5. SwapShape' BY <2>0, <2>2, <2>a, <3>2 DEF SwapShape
        <3>6. VettedTrees' BY <2>0, <2>2, <3>2 DEF VettedTrees
        <3> QED BY <3>3, <3>4, <3>5, <3>6
    <2>3. CASE Release /\ staging' = NoTree
        <3>1. op'.pc = "idle" /\ op' = Idle /\ op'.kind = "none" BY <2>3 DEF Release, Idle
        <3>3. DeployTypeOK' BY <1>o, <1>r, <2>0, <2>3 DEF DeployTypeOK
        <3>4. ChampionSurvives' /\ ChampionIsVetted' /\ NoUnprovenModel'
            BY <2>0, <2>c DEF ChampionSurvives, ChampionIsVetted, NoUnprovenModel, Unproven
        <3>5. SwapShape' BY <3>1 DEF SwapShape
        <3>6. VettedTrees' BY <1>v, <1>z, <2>0, <2>3 DEF VettedTrees
        <3> QED BY <3>3, <3>4, <3>5, <3>6
    <2> QED BY <1>11, <2>1, <2>2, <2>3 DEF backup_runtime, Step
<1>12. ASSUME RetireOld PROVE DeploymentInv'
    <2>1. DeployTypeOK' BY <1>12, <1>o DEF RetireOld, DeployTypeOK
    <2>2. ChampionSurvives' /\ NoUnprovenModel' BY <1>12 DEF RetireOld, DeployTypeOK, OpRows, CandRows, ChampionSurvives, NoUnprovenModel, Unproven, SwapShape, Idle
    <2>3. ChampionIsVetted' BY <1>12 DEF RetireOld, ChampionIsVetted, VettedTrees
    <2>4. SwapShape' BY <1>12 DEF RetireOld, DeployTypeOK, OpRows, CandRows, SwapShape, ChampionSurvives, NoUnprovenModel, Unproven, Idle
    <2>5. VettedTrees' BY <1>12, <1>f, TornIsWhole DEF RetireOld, DeployTypeOK, OpRows, CandRows, VettedTrees, SwapShape, Idle, NoMark, Complete
    <2> QED BY <2>1, <2>2, <2>3, <2>4, <2>5
<1>13. ASSUME Activate PROVE DeploymentInv'
    <2>1. DeployTypeOK' BY <1>13, <1>o, <1>p DEF Activate, Pcs, DeployTypeOK
    <2>2. ChampionSurvives' /\ NoUnprovenModel' BY <1>13 DEF Activate, Step, DeployTypeOK, OpRows, CandRows, ChampionSurvives, NoUnprovenModel, Unproven, SwapShape, Idle
    <2>3. ChampionIsVetted' BY <1>13 DEF Activate, Step, ChampionIsVetted, VettedTrees
    <2>4. SwapShape' BY <1>13 DEF Activate, Step, DeployTypeOK, OpRows, CandRows, SwapShape, ChampionSurvives, NoUnprovenModel, Unproven, Idle
    <2>5. VettedTrees' BY <1>13, <1>f, TornIsWhole DEF Activate, Step, DeployTypeOK, OpRows, CandRows, VettedTrees, SwapShape, Idle, NoMark, Complete
    <2> QED BY <2>1, <2>2, <2>3, <2>4, <2>5
<1>14. ASSUME run_inference_smoke PROVE DeploymentInv'
    <2>1. DeployTypeOK' BY <1>14, <1>o, <1>p, <1>r, <1>t DEF run_inference_smoke, DeployTypeOK, Pcs
    <2>2. ChampionSurvives' /\ NoUnprovenModel' BY <1>14 DEF run_inference_smoke, Step, DeployTypeOK, OpRows, CandRows, ChampionSurvives, NoUnprovenModel, Unproven, SwapShape, Idle
    <2>3. ChampionIsVetted' BY <1>14 DEF run_inference_smoke, Step, ChampionIsVetted, VettedTrees
    <2>4. SwapShape' BY <1>14 DEF run_inference_smoke, Step, DeployTypeOK, OpRows, CandRows, SwapShape, ChampionSurvives, NoUnprovenModel, Unproven, Idle
    <2>5. VettedTrees' BY <1>14, <1>f, TornIsWhole DEF run_inference_smoke, Step, DeployTypeOK, OpRows, CandRows, VettedTrees, SwapShape, Idle, NoMark, Complete
    <2> QED BY <2>1, <2>2, <2>3, <2>4, <2>5
<1>15. ASSUME UndoActivation PROVE DeploymentInv'
    <2>1. DeployTypeOK' BY <1>15, <1>f, <1>o, <1>t DEF UndoActivation, Step, DeployTypeOK, Trees, Torn, Pcs, Idle, NoMark, CandRows, OpRows
    <2>2. ChampionSurvives' /\ NoUnprovenModel' BY <1>15 DEF UndoActivation, Step, DeployTypeOK, OpRows, CandRows, ChampionSurvives, NoUnprovenModel, Unproven, SwapShape, Idle
    <2>3. ChampionIsVetted' BY <1>15 DEF UndoActivation, Step, ChampionIsVetted, VettedTrees
    <2>4. SwapShape' BY <1>15 DEF UndoActivation, Step, DeployTypeOK, OpRows, CandRows, SwapShape, ChampionSurvives, NoUnprovenModel, Unproven, Idle
    <2>5. VettedTrees' BY <1>15, <1>f, TornIsWhole DEF UndoActivation, Step, DeployTypeOK, OpRows, CandRows, VettedTrees, SwapShape, Idle, NoMark, Complete
    <2> QED BY <2>1, <2>2, <2>3, <2>4, <2>5
<1>16. ASSUME RestoreRetired PROVE DeploymentInv'
    <2>1. DeployTypeOK' BY <1>16, <1>o, <1>r DEF RestoreRetired, DeployTypeOK
    <2>2. ChampionSurvives' /\ NoUnprovenModel' BY <1>16 DEF RestoreRetired, Release, DeployTypeOK, OpRows, CandRows, ChampionSurvives, NoUnprovenModel, Unproven, SwapShape, Idle
    <2>3. ChampionIsVetted' BY <1>16 DEF RestoreRetired, Release, ChampionIsVetted, VettedTrees
    <2>4. SwapShape' BY <1>16 DEF RestoreRetired, Release, DeployTypeOK, OpRows, CandRows, SwapShape, ChampionSurvives, NoUnprovenModel, Unproven, Idle
    <2>5. VettedTrees' BY <1>16, <1>f, TornIsWhole DEF RestoreRetired, Release, DeployTypeOK, OpRows, CandRows, VettedTrees, SwapShape, Idle, NoMark, Complete
    <2> QED BY <2>1, <2>2, <2>3, <2>4, <2>5
<1>17. ASSUME CleanRetired PROVE DeploymentInv'
    <2>1. DeployTypeOK' BY <1>17, <1>o, <1>p, <1>r, <1>t DEF CleanRetired, DeployTypeOK, Pcs
    <2>2. ChampionSurvives' /\ NoUnprovenModel' BY <1>17 DEF CleanRetired, Release, Step, DeployTypeOK, OpRows, CandRows, ChampionSurvives, NoUnprovenModel, Unproven, SwapShape, Idle
    <2>3. ChampionIsVetted' BY <1>17 DEF CleanRetired, Release, Step, ChampionIsVetted, VettedTrees
    <2>4. SwapShape' BY <1>17 DEF CleanRetired, Release, Step, DeployTypeOK, OpRows, CandRows, SwapShape, ChampionSurvives, NoUnprovenModel, Unproven, Idle
    <2>5. VettedTrees' BY <1>17, <1>f, TornIsWhole DEF CleanRetired, Release, Step, DeployTypeOK, OpRows, CandRows, VettedTrees, SwapShape, Idle, NoMark, Complete
    <2> QED BY <2>1, <2>2, <2>3, <2>4, <2>5
<1>18. ASSUME DiscardCandidate PROVE DeploymentInv'
    <2>1. DeployTypeOK'
        <3>1. op.run \in Runs BY <1>18 DEF DiscardCandidate, SwapShape
        <3>2. cand' \in [Runs -> CandRows]
            <4>1. CASE cand' = [cand EXCEPT ![op.run] = [tree |-> NoTree, mark |-> NoMark]]
                BY <1>m, <3>1, <4>1 DEF DeployTypeOK
            <4>2. CASE \E t \in Torn(cand[op.run].tree) : cand' = [cand EXCEPT ![op.run].tree = t]
                BY <1>c, <1>t, <3>1, <4>2
            <4> QED BY <1>18, <4>1, <4>2 DEF DiscardCandidate
        <3> QED BY <1>18, <1>r, <3>2 DEF DiscardCandidate, DeployTypeOK
    <2>2. ChampionSurvives' /\ NoUnprovenModel' BY <1>18 DEF DiscardCandidate, Release, DeployTypeOK, OpRows, CandRows, ChampionSurvives, NoUnprovenModel, Unproven, SwapShape, Idle
    <2>3. ChampionIsVetted' BY <1>18 DEF DiscardCandidate, Release, ChampionIsVetted, VettedTrees
    <2>4. SwapShape' BY <1>18 DEF DiscardCandidate, Release, DeployTypeOK, OpRows, CandRows, SwapShape, ChampionSurvives, NoUnprovenModel, Unproven, Idle
    <2>5. VettedTrees'
        <3>0. UNCHANGED <<checking, deployed, retired, staging, vetted>> /\ Release BY <1>18 DEF DiscardCandidate
        <3>1. op'.pc = "idle" /\ op'.backup = NoTree /\ \A t \in archives' : Complete(t) => t \in vetted'
            BY <1>v, <3>0
        <3>2. op.run \in Runs /\ cand[op.run].tree \in Trees BY <1>18, <1>d DEF DiscardCandidate, SwapShape
        <3>3. \A r \in Runs :
                /\ cand'[r].mark.result # "none" => cand'[r].mark.digest \in vetted
                /\ checking[r] # "none" /\ Complete(cand'[r].tree) => cand'[r].tree \in vetted
            <4>1. CASE cand' = [cand EXCEPT ![op.run] = [tree |-> NoTree, mark |-> NoMark]]
                BY <1>z, <3>2, <4>1 DEF VettedTrees, DeployTypeOK, NoMark
            <4>2. CASE cand[op.run].tree # NoTree /\ \E t \in Torn(cand[op.run].tree) : cand' = [cand EXCEPT ![op.run].tree = t]
                BY <3>2, <4>2, TornIsWhole DEF VettedTrees, DeployTypeOK, CandRows
            <4> QED BY <1>18, <4>1, <4>2 DEF DiscardCandidate
        <3> QED BY <1>z, <3>0, <3>1, <3>3 DEF VettedTrees
    <2> QED BY <2>1, <2>2, <2>3, <2>4, <2>5
<1>19. ASSUME SwapRaises PROVE DeploymentInv'
    <2>1. DeployTypeOK' BY <1>19, <1>o, <1>p, <1>r, <1>t DEF SwapRaises, DeployTypeOK, Pcs
    <2>2. ChampionSurvives' /\ NoUnprovenModel' BY <1>19 DEF SwapRaises, Release, DeployTypeOK, OpRows, CandRows, ChampionSurvives, NoUnprovenModel, Unproven, SwapShape, Idle
    <2>3. ChampionIsVetted' BY <1>19 DEF SwapRaises, Release, ChampionIsVetted, VettedTrees
    <2>4. SwapShape' BY <1>19 DEF SwapRaises, Release, DeployTypeOK, OpRows, CandRows, SwapShape, ChampionSurvives, NoUnprovenModel, Unproven, Idle
    <2>5. VettedTrees' BY <1>19, <1>f, TornIsWhole DEF SwapRaises, Release, DeployTypeOK, OpRows, CandRows, VettedTrees, SwapShape, Idle, NoMark, Complete
    <2> QED BY <2>1, <2>2, <2>3, <2>4, <2>5
<1>20. ASSUME UndoRaises PROVE DeploymentInv'
    <2>1. DeployTypeOK' BY <1>20, <1>o, <1>r, <1>t DEF UndoRaises, DeployTypeOK
    <2>2. ChampionSurvives' /\ NoUnprovenModel' BY <1>20 DEF UndoRaises, Release, DeployTypeOK, OpRows, CandRows, ChampionSurvives, NoUnprovenModel, Unproven, SwapShape, Idle
    <2>3. ChampionIsVetted' BY <1>20 DEF UndoRaises, Release, ChampionIsVetted, VettedTrees
    <2>4. SwapShape' BY <1>20 DEF UndoRaises, Release, DeployTypeOK, OpRows, CandRows, SwapShape, ChampionSurvives, NoUnprovenModel, Unproven, Idle
    <2>5. VettedTrees'
        <3>0. UNCHANGED <<cand, checking, retired, staging, vetted>> /\ Release BY <1>20 DEF UndoRaises
        <3>1. op'.pc = "idle" /\ op'.backup = NoTree /\ \A t \in archives' : Complete(t) => t \in vetted'
            BY <1>v, <3>0
        <3>2. Complete(deployed') => deployed' \in vetted
            <4>1. CASE op.pc = "undo"
                <5>1. deployed \in vetted BY <4>1 DEF VettedTrees
                <5>2. deployed # NoTree /\ deployed \in Trees BY <1>z, <1>l, <5>1 DEF VettedTrees, DeployTypeOK
                <5>3. deployed' \in Torn(deployed) BY <1>20, <4>1 DEF UndoRaises
                <5> QED BY <5>1, <5>2, <5>3, TornIsWhole
            <4>2. CASE op.pc # "undo" BY <1>20, <4>2 DEF UndoRaises, VettedTrees
            <4> QED BY <4>1, <4>2
        <3> QED BY <1>z, <3>0, <3>1, <3>2 DEF VettedTrees
    <2> QED BY <2>1, <2>2, <2>3, <2>4, <2>5
<1>21. ASSUME CrashDeployment PROVE DeploymentInv'
    <2>1. DeployTypeOK'
        <3>2. cand' \in [Runs -> CandRows]
            <4>1. CASE op.pc = "discard" /\ cand[op.run].tree # NoTree
                <5>1. PICK t \in Torn(cand[op.run].tree) : cand' = [cand EXCEPT ![op.run].tree = t]
                    BY <1>21, <4>1 DEF CrashDeployment
                <5>2. op.run \in Runs BY <4>1 DEF SwapShape
                <5> QED BY <1>c, <1>t, <5>1, <5>2
            <4>2. CASE ~ (op.pc = "discard" /\ cand[op.run].tree # NoTree)
                BY <1>21, <4>2 DEF CrashDeployment, DeployTypeOK
            <4> QED BY <4>1, <4>2
        <3>3. archives' \subseteq Trees \ {NoTree} 
            <4>1. PICK partial : /\ partial \in IF op.pc = "backup" /\ deployed # NoTree THEN Torn(deployed) ELSE {NoTree}
                                 /\ archives' = archives \cup ({op.backup, partial} \ {NoTree})
                BY <1>21 DEF CrashDeployment
            <4>2. partial \in Trees BY <1>o, <1>t, <4>1
            <4> QED BY <1>o, <4>1, <4>2 DEF DeployTypeOK
        <3>4. deployed' \in Trees /\ retired' \in Trees BY <1>21, <1>t DEF CrashDeployment, DeployTypeOK
        <3> QED BY <1>21, <1>o, <3>2, <3>3, <3>4 DEF CrashDeployment, DeployTypeOK
    <2>2. ChampionSurvives' /\ NoUnprovenModel' BY <1>21 DEF CrashDeployment, DeployTypeOK, OpRows, CandRows, ChampionSurvives, NoUnprovenModel, Unproven, SwapShape, Idle
    <2>3. ChampionIsVetted' BY <1>21 DEF CrashDeployment, ChampionIsVetted, VettedTrees
    <2>4. SwapShape' BY <1>21 DEF CrashDeployment, DeployTypeOK, OpRows, CandRows, SwapShape, ChampionSurvives, NoUnprovenModel, Unproven, Idle
    <2>5. VettedTrees'
        <3>0. UNCHANGED <<checking, staging, vetted>> /\ op'.pc = "idle" /\ op'.backup = NoTree
            BY <1>21, <1>i DEF CrashDeployment
        <3>1. \A t \in archives' : Complete(t) => t \in vetted
            <4>1. PICK partial : /\ partial \in IF op.pc = "backup" /\ deployed # NoTree THEN Torn(deployed) ELSE {NoTree}
                                 /\ archives' = archives \cup ({op.backup, partial} \ {NoTree})
                BY <1>21 DEF CrashDeployment
            <4>2. Complete(partial) => partial \in vetted
                BY <1>z, <4>1, TornIsWhole DEF VettedTrees, DeployTypeOK
            <4> QED BY <4>1, <4>2 DEF VettedTrees
        <3>2. Complete(deployed') => deployed' \in vetted
            <4>1. CASE op.pc = "undo"
                <5>1. deployed \in vetted BY <4>1 DEF VettedTrees
                <5>2. deployed # NoTree /\ deployed \in Trees BY <1>z, <1>l, <5>1 DEF VettedTrees, DeployTypeOK
                <5>3. deployed' \in Torn(deployed) BY <1>21, <4>1 DEF CrashDeployment
                <5> QED BY <5>1, <5>2, <5>3, TornIsWhole
            <4>2. CASE op.pc # "undo" BY <1>21, <4>2 DEF CrashDeployment, VettedTrees
            <4> QED BY <4>1, <4>2
        <3>3. Complete(retired') => retired' \in vetted
            BY <1>21, TornIsWhole DEF CrashDeployment, VettedTrees, DeployTypeOK
        <3>4. \A r \in Runs :
                /\ cand'[r].mark.result # "none" => cand'[r].mark.digest \in vetted
                /\ checking[r] # "none" /\ Complete(cand'[r].tree) => cand'[r].tree \in vetted
            <4>1. CASE op.pc = "discard" /\ cand[op.run].tree # NoTree
                <5>1. PICK t \in Torn(cand[op.run].tree) : cand' = [cand EXCEPT ![op.run].tree = t]
                    BY <1>21, <4>1 DEF CrashDeployment
                <5>2. op.run \in Runs /\ cand[op.run].tree \in Trees BY <1>d, <4>1 DEF SwapShape
                <5> QED BY <4>1, <5>1, <5>2, TornIsWhole DEF VettedTrees, DeployTypeOK, CandRows
            <4>2. CASE ~ (op.pc = "discard" /\ cand[op.run].tree # NoTree)
                BY <1>21, <4>2 DEF CrashDeployment, VettedTrees
            <4> QED BY <4>1, <4>2
        <3> QED BY <1>z, <3>0, <3>1, <3>2, <3>3, <3>4 DEF VettedTrees
    <2> QED BY <2>1, <2>2, <2>3, <2>4, <2>5
<1>22. CASE UNCHANGED dvars
    BY <1>22 DEF dvars, DeployTypeOK, ChampionSurvives, ChampionIsVetted, NoUnprovenModel, Unproven, SwapShape, VettedTrees
<1> QED
    BY <1>1, <1>2, <1>3, <1>4, <1>5, <1>6, <1>7, <1>8, <1>9, <1>10, <1>11, <1>12, <1>13, <1>14, <1>15, <1>16, <1>17, <1>18, <1>19, <1>20, <1>21, <1>22 DEF DeployNext, OpStep

\* Theorem: wherever a P-Max promotion or rollback raises or dies, the last good model is on
\* disk, exactly as a validation accepted it, and only a promotion in progress serves an
\* unproven one, for any candidates, files and archives, provided that nobody rewrites a
\* candidate while it is validated or promoted (pmax/promotion.py).
THEOREM DeploymentIsSafe ==
    ASSUME "race" \notin DeployFaults
    PROVE  DeploySpec => []DeploymentInv
<1>1. DeploymentInv /\ [DeployNext]_dvars => DeploymentInv' BY DeployInvStep
<1> QED BY <1>1, DeployInvInit, PTL DEF DeploySpec

\* Theorem: no promotion or rollback touches a deployment whose last swap is unresolved,
\* whoever writes candidates meanwhile.
THEOREM UnresolvedIsKept == DeploySpec => UnresolvedSwapIsKept
<1>1. [DeployNext]_dvars => [Unresolved => UNCHANGED <<deployed, retired, archives, op>>]_dvars
    <2> SUFFICES ASSUME DeployNext, Unresolved PROVE UNCHANGED <<deployed, retired, archives, op>>
        OBVIOUS
    <2>1. op.pc = "idle" /\ op = Idle /\ retired # NoTree BY DEF Unresolved, Idle
    <2>2. ~ OpStep
        BY <2>1 DEF OpStep, copy_runtime_artifacts, CheckStaging, backup_runtime, RetireOld, Activate,
                    run_inference_smoke, UndoActivation, RestoreRetired, CleanRetired, DiscardCandidate
    <2>3. ~ SwapRaises /\ ~ UndoRaises /\ ~ CrashDeployment BY <2>1 DEF SwapRaises, UndoRaises, CrashDeployment
    <2> QED
        BY <2>1, <2>2, <2>3 DEF DeployNext, install_candidate_archive, Retrain, PlaceUpload, delete_candidate,
                                validate_candidate, WriteValidation, promote_candidate, rollback_deployment, ops
<1> QED BY <1>1, PTL DEF DeploySpec, UnresolvedSwapIsKept

(***************************************************************************)
(* The anomaly champion, in two parts.                                     *)
(***************************************************************************)

\* Both parts are in place, or neither is, at the start.
LEMMA AnomalyInvInit == AnomalyInit => AnomalyInv
<1> SUFFICES ASSUME AnomalyInit PROVE AnomalyInv
    OBVIOUS
<1> USE DEF AnomalyInit, NoPair, Both, NoSwap
<1>1. AnomalyTypeOK
    <2>1. PICK m \in Models \cup {NoPart} : active = [dir |-> m, sum |-> m] OBVIOUS
    <2>2. active \in Pair /\ NoPair \in Pair BY <2>1 DEF Pair
    <2>3. swap \in SwapRows BY <2>2 DEF SwapRows, SwapPcs
    <2> QED BY <2>2, <2>3 DEF AnomalyTypeOK
<1>2. GoodPairSurvives /\ PartsMatch /\ UnprovenOnlyAtFirst
    BY DEF GoodPairSurvives, PartsMatch, UnprovenOnlyAtFirst
<1>3. OldAndNew BY DEF OldAndNew
<1> QED BY <1>1, <1>2, <1>3 DEF AnomalyInv

\* Every rename, failure and crash keeps the invariant.
LEMMA AnomalyInvStep ==
    ASSUME AnomalyInv, [AnomalyNext]_avars
    PROVE  AnomalyInv'
<1> USE AnomalyAssumption DEF AnomalyInv, NoPair, Both, NoSwap
<1>1. ASSUME NEW m \in Models, promote_horizon(m) PROVE AnomalyInv'
    <2>1. AnomalyTypeOK' BY <1>1 DEF promote_horizon, BeginSwap, Both, AnomalyTypeOK, Pair, SwapRows, SwapPcs
    <2>2. GoodPairSurvives' BY <1>1 DEF promote_horizon, BeginSwap, Both, AnomalyTypeOK, Pair, SwapRows, GoodPairSurvives, OldAndNew, OldPair
    <2>3. PartsMatch' /\ UnprovenOnlyAtFirst'
        BY <1>1 DEF promote_horizon, BeginSwap, Both, AnomalyTypeOK, Pair, SwapRows, PartsMatch, UnprovenOnlyAtFirst, OldAndNew, OldPair
    <2>4. OldAndNew'
        BY <1>1 DEF promote_horizon, BeginSwap, Both, AnomalyTypeOK, Pair, SwapRows, OldAndNew, OldPair, GoodPairSurvives, PartsMatch, UnprovenOnlyAtFirst
    <2> QED BY <2>1, <2>2, <2>3, <2>4
<1>2. ASSUME NEW b \in backups, rollback_horizon(b) PROVE AnomalyInv'
    <2>1. AnomalyTypeOK' BY <1>2 DEF rollback_horizon, BeginSwap, AnomalyTypeOK, Pair, SwapRows, SwapPcs
    <2>2. GoodPairSurvives' BY <1>2 DEF rollback_horizon, BeginSwap, AnomalyTypeOK, Pair, SwapRows, GoodPairSurvives, OldAndNew, OldPair
    <2>3. PartsMatch' /\ UnprovenOnlyAtFirst'
        BY <1>2 DEF rollback_horizon, BeginSwap, AnomalyTypeOK, Pair, SwapRows, PartsMatch, UnprovenOnlyAtFirst, OldAndNew, OldPair
    <2>4. OldAndNew'
        BY <1>2 DEF rollback_horizon, BeginSwap, AnomalyTypeOK, Pair, SwapRows, OldAndNew, OldPair, GoodPairSurvives, PartsMatch, UnprovenOnlyAtFirst
    <2> QED BY <2>1, <2>2, <2>3, <2>4
<1>3. ASSUME backup_active_horizon PROVE AnomalyInv'
    <2>1. AnomalyTypeOK' BY <1>3 DEF backup_active_horizon, AnomalyTypeOK, Pair, SwapRows, SwapPcs
    <2>2. GoodPairSurvives' BY <1>3 DEF backup_active_horizon, AnomalyTypeOK, Pair, SwapRows, GoodPairSurvives, OldAndNew, OldPair
    <2>3. PartsMatch' /\ UnprovenOnlyAtFirst'
        BY <1>3 DEF backup_active_horizon, AnomalyTypeOK, Pair, SwapRows, PartsMatch, UnprovenOnlyAtFirst, OldAndNew, OldPair
    <2>4. OldAndNew'
        BY <1>3 DEF backup_active_horizon, AnomalyTypeOK, Pair, SwapRows, OldAndNew, OldPair, GoodPairSurvives, PartsMatch, UnprovenOnlyAtFirst
    <2> QED BY <2>1, <2>2, <2>3, <2>4
<1>4. ASSUME RetireDir PROVE AnomalyInv'
    <2>1. AnomalyTypeOK' BY <1>4 DEF RetireDir, AnomalyTypeOK, Pair, SwapRows, SwapPcs
    <2>2. GoodPairSurvives' BY <1>4 DEF RetireDir, AnomalyTypeOK, Pair, SwapRows, GoodPairSurvives, OldAndNew, OldPair
    <2>3. PartsMatch' /\ UnprovenOnlyAtFirst'
        BY <1>4 DEF RetireDir, AnomalyTypeOK, Pair, SwapRows, PartsMatch, UnprovenOnlyAtFirst, OldAndNew, OldPair
    <2>4. OldAndNew'
        BY <1>4 DEF RetireDir, AnomalyTypeOK, Pair, SwapRows, OldAndNew, OldPair, GoodPairSurvives, PartsMatch, UnprovenOnlyAtFirst
    <2> QED BY <2>1, <2>2, <2>3, <2>4
<1>5. ASSUME RetireSum PROVE AnomalyInv'
    <2>1. AnomalyTypeOK' BY <1>5 DEF RetireSum, SwapTo, AnomalyTypeOK, Pair, SwapRows, SwapPcs
    <2>2. GoodPairSurvives' BY <1>5 DEF RetireSum, SwapTo, AnomalyTypeOK, Pair, SwapRows, GoodPairSurvives, OldAndNew, OldPair
    <2>3. PartsMatch' /\ UnprovenOnlyAtFirst'
        BY <1>5 DEF RetireSum, SwapTo, AnomalyTypeOK, Pair, SwapRows, PartsMatch, UnprovenOnlyAtFirst, OldAndNew, OldPair
    <2>4. OldAndNew'
        BY <1>5 DEF RetireSum, SwapTo, AnomalyTypeOK, Pair, SwapRows, OldAndNew, OldPair, GoodPairSurvives, PartsMatch, UnprovenOnlyAtFirst
    <2> QED BY <2>1, <2>2, <2>3, <2>4
<1>6. ASSUME PlaceDir PROVE AnomalyInv'
    <2>1. AnomalyTypeOK' BY <1>6 DEF PlaceDir, SwapTo, AnomalyTypeOK, Pair, SwapRows, SwapPcs
    <2>2. GoodPairSurvives' BY <1>6 DEF PlaceDir, SwapTo, AnomalyTypeOK, Pair, SwapRows, GoodPairSurvives, OldAndNew, OldPair
    <2>3. PartsMatch' /\ UnprovenOnlyAtFirst'
        BY <1>6 DEF PlaceDir, SwapTo, AnomalyTypeOK, Pair, SwapRows, PartsMatch, UnprovenOnlyAtFirst, OldAndNew, OldPair
    <2>4. OldAndNew'
        BY <1>6 DEF PlaceDir, SwapTo, AnomalyTypeOK, Pair, SwapRows, OldAndNew, OldPair, GoodPairSurvives, PartsMatch, UnprovenOnlyAtFirst
    <2> QED BY <2>1, <2>2, <2>3, <2>4
<1>7. ASSUME PlaceSum PROVE AnomalyInv'
    <2>1. AnomalyTypeOK' BY <1>7 DEF PlaceSum, SwapTo, AnomalyTypeOK, Pair, SwapRows, SwapPcs
    <2>2. GoodPairSurvives' BY <1>7 DEF PlaceSum, SwapTo, AnomalyTypeOK, Pair, SwapRows, GoodPairSurvives, OldAndNew, OldPair
    <2>3. PartsMatch' /\ UnprovenOnlyAtFirst'
        BY <1>7 DEF PlaceSum, SwapTo, AnomalyTypeOK, Pair, SwapRows, PartsMatch, UnprovenOnlyAtFirst, OldAndNew, OldPair
    <2>4. OldAndNew'
        BY <1>7 DEF PlaceSum, SwapTo, AnomalyTypeOK, Pair, SwapRows, OldAndNew, OldPair, GoodPairSurvives, PartsMatch, UnprovenOnlyAtFirst
    <2> QED BY <2>1, <2>2, <2>3, <2>4
<1>8. ASSUME smoke_horizon PROVE AnomalyInv'
    <2>1. AnomalyTypeOK' BY <1>8 DEF smoke_horizon, SwapTo, AnomalyTypeOK, Pair, SwapRows, SwapPcs
    <2>2. GoodPairSurvives' BY <1>8 DEF smoke_horizon, SwapTo, AnomalyTypeOK, Pair, SwapRows, GoodPairSurvives, OldAndNew, OldPair
    <2>3. PartsMatch' /\ UnprovenOnlyAtFirst'
        BY <1>8 DEF smoke_horizon, SwapTo, AnomalyTypeOK, Pair, SwapRows, PartsMatch, UnprovenOnlyAtFirst, OldAndNew, OldPair
    <2>4. OldAndNew'
        BY <1>8 DEF smoke_horizon, SwapTo, AnomalyTypeOK, Pair, SwapRows, OldAndNew, OldPair, GoodPairSurvives, PartsMatch, UnprovenOnlyAtFirst
    <2> QED BY <2>1, <2>2, <2>3, <2>4
<1>9. ASSUME SetAside PROVE AnomalyInv'
    <2>1. AnomalyTypeOK'
        <3>1. CASE swap.moved BY <1>9, <3>1 DEF SetAside, SwapTo, AnomalyTypeOK, Pair, SwapRows, SwapPcs
        <3>2. CASE ~ swap.moved
            <4>1. NoSwap \in SwapRows /\ swap.backup \in Pair BY DEF SwapRows, SwapPcs, Pair, AnomalyTypeOK
            <4>2. backups' = backups \cup ({swap.backup} \ {NoPair}) /\ swap' = NoSwap /\ UNCHANGED <<active, failed, aside, stage, good, damaged>>
                BY <1>9, <3>2 DEF SetAside, Unlock
            <4> HIDE DEF NoPair, NoSwap
            <4> QED BY <4>1, <4>2 DEF AnomalyTypeOK
        <3> QED BY <3>1, <3>2
    <2>2. GoodPairSurvives' BY <1>9 DEF SetAside, SwapTo, Unlock, AnomalyTypeOK, Pair, SwapRows, GoodPairSurvives, OldAndNew, OldPair
    <2>3. PartsMatch' /\ UnprovenOnlyAtFirst'
        BY <1>9 DEF SetAside, SwapTo, Unlock, AnomalyTypeOK, Pair, SwapRows, PartsMatch, UnprovenOnlyAtFirst, OldAndNew, OldPair
    <2>4. OldAndNew'
        BY <1>9 DEF SetAside, SwapTo, Unlock, AnomalyTypeOK, Pair, SwapRows, OldAndNew, OldPair, GoodPairSurvives, PartsMatch, UnprovenOnlyAtFirst
    <2> QED BY <2>1, <2>2, <2>3, <2>4
<1>10. ASSUME BackDir PROVE AnomalyInv'
    <2>1. AnomalyTypeOK' BY <1>10 DEF BackDir, SwapTo, AnomalyTypeOK, Pair, SwapRows, SwapPcs
    <2>2. GoodPairSurvives' BY <1>10 DEF BackDir, SwapTo, AnomalyTypeOK, Pair, SwapRows, GoodPairSurvives, OldAndNew, OldPair
    <2>3. PartsMatch' /\ UnprovenOnlyAtFirst'
        BY <1>10 DEF BackDir, SwapTo, AnomalyTypeOK, Pair, SwapRows, PartsMatch, UnprovenOnlyAtFirst, OldAndNew, OldPair
    <2>4. OldAndNew'
        BY <1>10 DEF BackDir, SwapTo, AnomalyTypeOK, Pair, SwapRows, OldAndNew, OldPair, GoodPairSurvives, PartsMatch, UnprovenOnlyAtFirst
    <2> QED BY <2>1, <2>2, <2>3, <2>4
<1>11. ASSUME BackSum PROVE AnomalyInv'
    <2>1. AnomalyTypeOK' BY <1>11 DEF BackSum, Unlock, AnomalyTypeOK, Pair, SwapRows, SwapPcs
    <2>2. GoodPairSurvives' BY <1>11 DEF BackSum, Unlock, AnomalyTypeOK, Pair, SwapRows, GoodPairSurvives, OldAndNew, OldPair
    <2>3. PartsMatch' /\ UnprovenOnlyAtFirst'
        BY <1>11 DEF BackSum, Unlock, AnomalyTypeOK, Pair, SwapRows, PartsMatch, UnprovenOnlyAtFirst, OldAndNew, OldPair
    <2>4. OldAndNew'
        BY <1>11 DEF BackSum, Unlock, AnomalyTypeOK, Pair, SwapRows, OldAndNew, OldPair, GoodPairSurvives, PartsMatch, UnprovenOnlyAtFirst
    <2> QED BY <2>1, <2>2, <2>3, <2>4
<1>12. ASSUME CleanDir PROVE AnomalyInv'
    <2>1. AnomalyTypeOK' BY <1>12 DEF CleanDir, SwapTo, AnomalyTypeOK, Pair, SwapRows, SwapPcs
    <2>2. GoodPairSurvives' BY <1>12 DEF CleanDir, SwapTo, AnomalyTypeOK, Pair, SwapRows, GoodPairSurvives, OldAndNew, OldPair
    <2>3. PartsMatch' /\ UnprovenOnlyAtFirst'
        BY <1>12 DEF CleanDir, SwapTo, AnomalyTypeOK, Pair, SwapRows, PartsMatch, UnprovenOnlyAtFirst, OldAndNew, OldPair
    <2>4. OldAndNew'
        BY <1>12 DEF CleanDir, SwapTo, AnomalyTypeOK, Pair, SwapRows, OldAndNew, OldPair, GoodPairSurvives, PartsMatch, UnprovenOnlyAtFirst
    <2> QED BY <2>1, <2>2, <2>3, <2>4
<1>13. ASSUME CleanSum PROVE AnomalyInv'
    <2>1. AnomalyTypeOK' BY <1>13 DEF CleanSum, Unlock, AnomalyTypeOK, Pair, SwapRows, SwapPcs
    <2>2. GoodPairSurvives' BY <1>13 DEF CleanSum, Unlock, AnomalyTypeOK, Pair, SwapRows, GoodPairSurvives, OldAndNew, OldPair
    <2>3. PartsMatch' /\ UnprovenOnlyAtFirst'
        BY <1>13 DEF CleanSum, Unlock, AnomalyTypeOK, Pair, SwapRows, PartsMatch, UnprovenOnlyAtFirst, OldAndNew, OldPair
    <2>4. OldAndNew'
        BY <1>13 DEF CleanSum, Unlock, AnomalyTypeOK, Pair, SwapRows, OldAndNew, OldPair, GoodPairSurvives, PartsMatch, UnprovenOnlyAtFirst
    <2> QED BY <2>1, <2>2, <2>3, <2>4
<1>14. ASSUME SwapFails PROVE AnomalyInv'
    <2>1. AnomalyTypeOK'
        <3>1. CASE PutBack /\ swap' = NoSwap /\ UNCHANGED backups
            BY <1>14, <3>1 DEF SwapFails, PutBack, AnomalyTypeOK, Pair, SwapRows, SwapPcs
        <3>2. CASE Unlock /\ UNCHANGED <<active, aside>>
            BY <1>14, <3>2 DEF SwapFails, Unlock, AnomalyTypeOK, Pair, SwapRows, SwapPcs
        <3> QED BY <1>14, <3>1, <3>2 DEF SwapFails
    <2>2. GoodPairSurvives' BY <1>14 DEF SwapFails, Unlock, PutBack, AnomalyTypeOK, Pair, SwapRows, GoodPairSurvives, OldAndNew, OldPair
    <2>3. PartsMatch' /\ UnprovenOnlyAtFirst'
        BY <1>14 DEF SwapFails, Unlock, PutBack, AnomalyTypeOK, Pair, SwapRows, PartsMatch, UnprovenOnlyAtFirst, OldAndNew, OldPair
    <2>4. OldAndNew'
        BY <1>14 DEF SwapFails, Unlock, PutBack, AnomalyTypeOK, Pair, SwapRows, OldAndNew, OldPair, GoodPairSurvives, PartsMatch, UnprovenOnlyAtFirst
    <2> QED BY <2>1, <2>2, <2>3, <2>4
<1>15. ASSUME BackFails PROVE AnomalyInv'
    <2>1. AnomalyTypeOK' BY <1>15 DEF BackFails, Unlock, AnomalyTypeOK, Pair, SwapRows, SwapPcs
    <2>2. GoodPairSurvives' BY <1>15 DEF BackFails, Unlock, AnomalyTypeOK, Pair, SwapRows, GoodPairSurvives, OldAndNew, OldPair
    <2>3. PartsMatch' /\ UnprovenOnlyAtFirst'
        BY <1>15 DEF BackFails, Unlock, AnomalyTypeOK, Pair, SwapRows, PartsMatch, UnprovenOnlyAtFirst, OldAndNew, OldPair
    <2>4. OldAndNew'
        BY <1>15 DEF BackFails, Unlock, AnomalyTypeOK, Pair, SwapRows, OldAndNew, OldPair, GoodPairSurvives, PartsMatch, UnprovenOnlyAtFirst
    <2> QED BY <2>1, <2>2, <2>3, <2>4
<1>16. ASSUME CleanFails PROVE AnomalyInv'
    <2>1. AnomalyTypeOK' BY <1>16 DEF CleanFails, Unlock, AnomalyTypeOK, Pair, SwapRows, SwapPcs
    <2>2. GoodPairSurvives' BY <1>16 DEF CleanFails, Unlock, AnomalyTypeOK, Pair, SwapRows, GoodPairSurvives, OldAndNew, OldPair
    <2>3. PartsMatch' /\ UnprovenOnlyAtFirst'
        BY <1>16 DEF CleanFails, Unlock, AnomalyTypeOK, Pair, SwapRows, PartsMatch, UnprovenOnlyAtFirst, OldAndNew, OldPair
    <2>4. OldAndNew'
        BY <1>16 DEF CleanFails, Unlock, AnomalyTypeOK, Pair, SwapRows, OldAndNew, OldPair, GoodPairSurvives, PartsMatch, UnprovenOnlyAtFirst
    <2> QED BY <2>1, <2>2, <2>3, <2>4
<1>17. ASSUME CrashSwap PROVE AnomalyInv'
    <2>1. AnomalyTypeOK' BY <1>17 DEF CrashSwap, Unlock, AnomalyTypeOK, Pair, SwapRows, SwapPcs
    <2>2. GoodPairSurvives' BY <1>17 DEF CrashSwap, Unlock, AnomalyTypeOK, Pair, SwapRows, GoodPairSurvives, OldAndNew, OldPair
    <2>3. PartsMatch' /\ UnprovenOnlyAtFirst'
        BY <1>17 DEF CrashSwap, Unlock, AnomalyTypeOK, Pair, SwapRows, PartsMatch, UnprovenOnlyAtFirst, OldAndNew, OldPair
    <2>4. OldAndNew'
        BY <1>17 DEF CrashSwap, Unlock, AnomalyTypeOK, Pair, SwapRows, OldAndNew, OldPair, GoodPairSurvives, PartsMatch, UnprovenOnlyAtFirst
    <2> QED BY <2>1, <2>2, <2>3, <2>4
<1>18. CASE UNCHANGED avars
    BY <1>18 DEF avars, AnomalyTypeOK, GoodPairSurvives, PartsMatch, UnprovenOnlyAtFirst, OldAndNew, OldPair
<1> QED
    BY <1>1, <1>2, <1>3, <1>4, <1>5, <1>6, <1>7, <1>8, <1>9, <1>10, <1>11, <1>12, <1>13, <1>14, <1>15, <1>16, <1>17, <1>18 DEF AnomalyNext, SwapStep

\* Theorem: a horizon's models and their training summary, renamed one after the other, belong
\* together whenever no operation is in progress, and both parts of the last good pair survive
\* every failure, for any models and faults (anomaly/promotion.py).
THEOREM AnomalyIsSafe == AnomalySpec => []AnomalyInv
<1>1. AnomalyInv /\ [AnomalyNext]_avars => AnomalyInv' BY AnomalyInvStep
<1> QED BY <1>1, AnomalyInvInit, PTL DEF AnomalySpec

(***************************************************************************)
(* Threshold files.                                                        *)
(***************************************************************************)

\* No file and no command at the start.
LEMMA ThresholdInvInit == ThresholdInit => ThresholdInv
BY NoFileAssumption DEF ThresholdInit, ThresholdInv, ThresholdTypeOK, DeployedVetted, VerdictOfWholeFile,
       CompleteCopySurvives, CommandShape, IsWhole, At, NoCommand, ThresholdFiles

\* Replacing the last member of a sequence leaves the others.
LEMMA LastChanged ==
    ASSUME NEW T, NEW q \in Seq(T), q # <<>>, NEW x \in T
    PROVE  /\ [q EXCEPT ![Len(q)] = x] \in Seq(T) /\ Len([q EXCEPT ![Len(q)] = x]) = Len(q)
           /\ DOMAIN [q EXCEPT ![Len(q)] = x] = DOMAIN q /\ [q EXCEPT ![Len(q)] = x][Len(q)] = x
           /\ Len(q) \in DOMAIN q /\ \A i \in DOMAIN q : i # Len(q) => [q EXCEPT ![Len(q)] = x][i] = q[i]
OBVIOUS

\* Every file operation, failure and kill keeps the invariant.
LEMMA ThresholdInvStep ==
    ASSUME ThresholdInv, [ThresholdNext]_tvars
    PROVE  ThresholdInv'
<1> USE NoFileAssumption, ThresholdAssumption DEF ThresholdInv
<1>1. ASSUME NEW r \in TRuns, NEW overwrite \in BOOLEAN, build_candidate(r, overwrite) PROVE ThresholdInv'
    <2>1. ThresholdTypeOK' BY <1>1 DEF build_candidate, ThresholdTypeOK, ThresholdFiles, Results, At, BuildCommands, WriteCommands, PromoteCommands, RollbackCommands, NoCommand, CommandShape
    <2>2. DeployedVetted' /\ VerdictOfWholeFile' /\ CompleteCopySurvives'
        BY <1>1 DEF build_candidate, ThresholdTypeOK, ThresholdFiles, At, BuildCommands, WriteCommands, PromoteCommands, RollbackCommands, NoCommand, CommandShape, IsWhole, LastArchived,
            DeployedVetted, VerdictOfWholeFile, CompleteCopySurvives
    <2>3. CommandShape'
        BY <1>1 DEF build_candidate, ThresholdTypeOK, ThresholdFiles, At, BuildCommands, WriteCommands, PromoteCommands, RollbackCommands, NoCommand, CommandShape, IsWhole, LastArchived,
            DeployedVetted, VerdictOfWholeFile, CompleteCopySurvives
    <2> QED BY <2>1, <2>2, <2>3
<1>2. ASSUME NEW r \in TRuns, validate_threshold(r) PROVE ThresholdInv'
    <2>1. ThresholdTypeOK' BY <1>2 DEF validate_threshold, validate_threshold_file, Readable, ThresholdTypeOK, ThresholdFiles, Results, At, BuildCommands, WriteCommands, PromoteCommands, RollbackCommands, NoCommand, CommandShape
    <2>2. DeployedVetted' /\ VerdictOfWholeFile' /\ CompleteCopySurvives'
        BY <1>2 DEF validate_threshold, validate_threshold_file, Readable, ThresholdTypeOK, ThresholdFiles, At, BuildCommands, WriteCommands, PromoteCommands, RollbackCommands, NoCommand, CommandShape, IsWhole, LastArchived,
            DeployedVetted, VerdictOfWholeFile, CompleteCopySurvives
    <2>3. CommandShape'
        BY <1>2 DEF validate_threshold, validate_threshold_file, Readable, ThresholdTypeOK, ThresholdFiles, At, BuildCommands, WriteCommands, PromoteCommands, RollbackCommands, NoCommand, CommandShape, IsWhole, LastArchived,
            DeployedVetted, VerdictOfWholeFile, CompleteCopySurvives
    <2> QED BY <2>1, <2>2, <2>3
<1>3. ASSUME NEW r \in TRuns, NEW w \in BOOLEAN, NEW f \in BOOLEAN, promote_threshold(r, w, f) PROVE ThresholdInv'
    <2>1. ThresholdTypeOK' BY <1>3 DEF promote_threshold, Accepted, validate_threshold_file, Readable, ThresholdTypeOK, ThresholdFiles, Results, At, BuildCommands, WriteCommands, PromoteCommands, RollbackCommands, NoCommand, CommandShape
    <2>2. DeployedVetted' /\ VerdictOfWholeFile' /\ CompleteCopySurvives'
        BY <1>3 DEF promote_threshold, Accepted, validate_threshold_file, Readable, ThresholdTypeOK, ThresholdFiles, At, BuildCommands, WriteCommands, PromoteCommands, RollbackCommands, NoCommand, CommandShape, IsWhole, LastArchived,
            DeployedVetted, VerdictOfWholeFile, CompleteCopySurvives
    <2>3. CommandShape'
        BY <1>3 DEF promote_threshold, Accepted, validate_threshold_file, Readable, ThresholdTypeOK, ThresholdFiles, At, BuildCommands, WriteCommands, PromoteCommands, RollbackCommands, NoCommand, CommandShape, IsWhole, LastArchived,
            DeployedVetted, VerdictOfWholeFile, CompleteCopySurvives
    <2> QED BY <2>1, <2>2, <2>3
<1>4. ASSUME NEW a \in DOMAIN archived, rollback(a) PROVE ThresholdInv'
    <2>1. ThresholdTypeOK' BY <1>4 DEF rollback, validate_threshold_file, Readable, ThresholdTypeOK, ThresholdFiles, Results, At, BuildCommands, WriteCommands, PromoteCommands, RollbackCommands, NoCommand, CommandShape
    <2>2. DeployedVetted' /\ VerdictOfWholeFile' /\ CompleteCopySurvives'
        BY <1>4 DEF rollback, validate_threshold_file, Readable, ThresholdTypeOK, ThresholdFiles, At, BuildCommands, WriteCommands, PromoteCommands, RollbackCommands, NoCommand, CommandShape, IsWhole, LastArchived,
            DeployedVetted, VerdictOfWholeFile, CompleteCopySurvives
    <2>3. CommandShape'
        BY <1>4 DEF rollback, validate_threshold_file, Readable, ThresholdTypeOK, ThresholdFiles, At, BuildCommands, WriteCommands, PromoteCommands, RollbackCommands, NoCommand, CommandShape, IsWhole, LastArchived,
            DeployedVetted, VerdictOfWholeFile, CompleteCopySurvives
    <2> QED BY <2>1, <2>2, <2>3
<1>5. ASSUME RemoveTree PROVE ThresholdInv'
    <2>0. cmd \in BuildCommands /\ cmd.pc = "remove" BY <1>5 DEF RemoveTree, At, ThresholdTypeOK, BuildCommands, WriteCommands, PromoteCommands, RollbackCommands, NoCommand
    <2>1. ThresholdTypeOK'
        <3>1. CASE cmd' = cmd BY <1>5, <3>1 DEF RemoveTree, StepTo, At, ThresholdTypeOK, ThresholdFiles, BuildCommands, WriteCommands, PromoteCommands, RollbackCommands, NoCommand
        <3>2. CASE cmd' # cmd
            <4>1. cmd' \in BuildCommands /\ made' = made \cup {cmd.run} /\ UNCHANGED <<csv, verdict, inforce, staged, archived>>
                BY <1>5, <2>0, <3>2 DEF RemoveTree, StepTo, BuildCommands
            <4> QED BY <2>0, <4>1 DEF ThresholdTypeOK, BuildCommands
        <3> QED BY <3>1, <3>2
    <2>2. DeployedVetted' /\ VerdictOfWholeFile' /\ CompleteCopySurvives'
        BY <1>5 DEF RemoveTree, StepTo, ThresholdTypeOK, ThresholdFiles, At, BuildCommands, WriteCommands, PromoteCommands, RollbackCommands, NoCommand, CommandShape, IsWhole, LastArchived,
            DeployedVetted, VerdictOfWholeFile, CompleteCopySurvives
    <2>3. CommandShape'
        BY <1>5 DEF RemoveTree, StepTo, ThresholdTypeOK, ThresholdFiles, At, BuildCommands, WriteCommands, PromoteCommands, RollbackCommands, NoCommand, CommandShape, IsWhole, LastArchived,
            DeployedVetted, VerdictOfWholeFile, CompleteCopySurvives
    <2> QED BY <2>1, <2>2, <2>3
<1>6. ASSUME QueryRows PROVE ThresholdInv'
    <2>1. ThresholdTypeOK' BY <1>6 DEF QueryRows, Finish, ThresholdTypeOK, ThresholdFiles, Results, At, BuildCommands, WriteCommands, PromoteCommands, RollbackCommands, NoCommand, CommandShape
    <2>2. DeployedVetted' /\ VerdictOfWholeFile' /\ CompleteCopySurvives'
        BY <1>6 DEF QueryRows, Finish, ThresholdTypeOK, ThresholdFiles, At, BuildCommands, WriteCommands, PromoteCommands, RollbackCommands, NoCommand, CommandShape, IsWhole, LastArchived,
            DeployedVetted, VerdictOfWholeFile, CompleteCopySurvives
    <2>3. CommandShape'
        BY <1>6 DEF QueryRows, Finish, ThresholdTypeOK, ThresholdFiles, At, BuildCommands, WriteCommands, PromoteCommands, RollbackCommands, NoCommand, CommandShape, IsWhole, LastArchived,
            DeployedVetted, VerdictOfWholeFile, CompleteCopySurvives
    <2> QED BY <2>1, <2>2, <2>3
<1>7. ASSUME WriteCsv PROVE ThresholdInv'
    <2>0. cmd \in WriteCommands /\ verdict[cmd.run] = NoFile /\ cmd.run \in made
        BY <1>7 DEF WriteCsv, CommandShape, ThresholdTypeOK, BuildCommands, WriteCommands, PromoteCommands, RollbackCommands, NoCommand
    <2>a. UNCHANGED <<verdict, made, inforce, staged, archived>> BY <1>7 DEF WriteCsv
    <2>1. CASE cmd.pc = "open"
        <3>1. csv' = [csv EXCEPT ![cmd.run] = [v |-> cmd.v, part |-> "empty"]] /\ cmd' = [cmd EXCEPT !.pc = "rows"]
            BY <1>7, <2>1 DEF WriteCsv, StepTo, Finish
        <3>2. ThresholdTypeOK' BY <2>0, <2>a, <2>1, <3>1 DEF ThresholdTypeOK, ThresholdFiles, BuildCommands, WriteCommands, PromoteCommands, RollbackCommands, NoCommand
        <3>3. DeployedVetted' /\ VerdictOfWholeFile' /\ CompleteCopySurvives'
            BY <2>0, <2>a, <3>1 DEF ThresholdTypeOK, WriteCommands, DeployedVetted, VerdictOfWholeFile, CompleteCopySurvives, IsWhole
        <3>4. CommandShape'
            BY <2>0, <2>a, <2>1, <3>1 DEF ThresholdTypeOK, WriteCommands, NoCommand, CommandShape, At, LastArchived
        <3> QED BY <3>2, <3>3, <3>4
    <2>2. CASE cmd.pc = "rows"
        <3>1. csv' = [csv EXCEPT ![cmd.run] = [v |-> cmd.v, part |-> "partial"]] /\ cmd' = [cmd EXCEPT !.pc = "close"]
            BY <1>7, <2>2 DEF WriteCsv, StepTo, Finish
        <3>2. ThresholdTypeOK' BY <2>0, <2>a, <2>2, <3>1 DEF ThresholdTypeOK, ThresholdFiles, BuildCommands, WriteCommands, PromoteCommands, RollbackCommands, NoCommand
        <3>3. DeployedVetted' /\ VerdictOfWholeFile' /\ CompleteCopySurvives'
            BY <2>0, <2>a, <3>1 DEF ThresholdTypeOK, WriteCommands, DeployedVetted, VerdictOfWholeFile, CompleteCopySurvives, IsWhole
        <3>4. CommandShape'
            BY <2>0, <2>a, <2>2, <3>1 DEF ThresholdTypeOK, WriteCommands, NoCommand, CommandShape, At, LastArchived
        <3> QED BY <3>2, <3>3, <3>4
    <2>3. CASE cmd.pc = "close"
        <3>1. csv' = [csv EXCEPT ![cmd.run] = [v |-> cmd.v, part |-> "whole"]] /\ cmd' = NoCommand
            BY <1>7, <2>3 DEF WriteCsv, StepTo, Finish
        <3>2. ThresholdTypeOK' BY <2>0, <2>a, <2>3, <3>1 DEF ThresholdTypeOK, ThresholdFiles, BuildCommands, WriteCommands, PromoteCommands, RollbackCommands, NoCommand
        <3>3. DeployedVetted' /\ VerdictOfWholeFile' /\ CompleteCopySurvives'
            BY <2>0, <2>a, <3>1 DEF ThresholdTypeOK, WriteCommands, DeployedVetted, VerdictOfWholeFile, CompleteCopySurvives, IsWhole
        <3>4. CommandShape'
            BY <2>0, <2>a, <2>3, <3>1 DEF ThresholdTypeOK, WriteCommands, NoCommand, CommandShape, At, LastArchived
        <3> QED BY <3>2, <3>3, <3>4
    <2> QED BY <2>0, <2>1, <2>2, <2>3 DEF WriteCommands
<1>8. ASSUME ArchiveCurrent PROVE ThresholdInv'
    <2>0. cmd \in PromoteCommands /\ archived \in Seq(ThresholdFiles \cup {NoFile}) /\ inforce \in ThresholdFiles \cup {NoFile}
        BY <1>8 DEF ArchiveCurrent, ThresholdTypeOK, BuildCommands, WriteCommands, PromoteCommands, RollbackCommands, NoCommand
    <2>a. UNCHANGED <<csv, verdict, made, inforce, staged>> BY <1>8 DEF ArchiveCurrent
    <2>1. CASE cmd.pc = "archive"
        <3>1. archived' = Append(archived, NoFile) /\ cmd' = [cmd EXCEPT !.pc = IF inforce = NoFile THEN "stage" ELSE "backup"]
            BY <1>8, <2>1 DEF ArchiveCurrent, StepTo
        <3>2. /\ archived' \in Seq(ThresholdFiles \cup {NoFile}) /\ archived' # <<>> /\ archived'[Len(archived')] = NoFile
              /\ \A k \in DOMAIN archived : k \in DOMAIN archived' /\ archived'[k] = archived[k]
              /\ \A k \in DOMAIN archived' : k \in DOMAIN archived \/ archived'[k] = NoFile
            BY <2>0, <3>1
        <3>3. cmd' \in PromoteCommands BY <2>0, <3>1 DEF PromoteCommands
        <3>4. ThresholdTypeOK' BY <2>a, <3>2, <3>3 DEF ThresholdTypeOK
        <3>5. DeployedVetted' /\ VerdictOfWholeFile' /\ CompleteCopySurvives'
            BY <2>a, <3>2 DEF DeployedVetted, VerdictOfWholeFile, CompleteCopySurvives, IsWhole
        <3>6. CommandShape' BY <2>0, <2>a, <2>1, <3>1, <3>2, <3>3 DEF PromoteCommands, CommandShape, At, LastArchived, IsWhole
        <3> QED BY <3>4, <3>5, <3>6
    <2>2. CASE cmd.pc = "backup"
        <3> DEFINE new == [v |-> inforce.v, part |-> "empty"]
        <3>0. new \in ThresholdFiles /\ new # NoFile /\ new.part = "empty" /\ inforce # NoFile /\ archived # <<>> /\ LastArchived = NoFile
            BY <2>0, <2>2 DEF CommandShape, At, ThresholdFiles, PromoteCommands
        <3>1. archived' = [archived EXCEPT ![Len(archived)] = new] /\ cmd' = [cmd EXCEPT !.pc = "backed"]
            BY <1>8, <2>2 DEF ArchiveCurrent, StepTo
        <3> HIDE DEF new
        <3>2. /\ archived' \in Seq(ThresholdFiles \cup {NoFile}) /\ Len(archived') = Len(archived)
              /\ DOMAIN archived' = DOMAIN archived /\ archived'[Len(archived)] = new /\ archived' # <<>>
              /\ Len(archived) \in DOMAIN archived /\ \A k \in DOMAIN archived : k # Len(archived) => archived'[k] = archived[k]
            BY <2>0, <3>0, <3>1, LastChanged
        <3>3. cmd' \in PromoteCommands BY <2>0, <3>1 DEF PromoteCommands
        <3>4. ThresholdTypeOK' BY <2>a, <3>2, <3>3 DEF ThresholdTypeOK
        <3>5. DeployedVetted' /\ VerdictOfWholeFile' /\ CompleteCopySurvives'
            BY <2>a, <3>0, <3>2 DEF DeployedVetted, VerdictOfWholeFile, CompleteCopySurvives, IsWhole, LastArchived
        <3>6. CommandShape'
            BY <2>0, <2>a, <2>2, <3>0, <3>1, <3>2, <3>3 DEF PromoteCommands, CommandShape, At, LastArchived, IsWhole
        <3> QED BY <3>4, <3>5, <3>6
    <2>3. CASE cmd.pc = "backed"
        <3>0. inforce # NoFile /\ archived # <<>> /\ LastArchived.part = "empty"
            BY <2>0, <2>3 DEF CommandShape, At, PromoteCommands
        <3>1. archived' = [archived EXCEPT ![Len(archived)] = inforce] /\ cmd' = [cmd EXCEPT !.pc = "stage"]
            BY <1>8, <2>3 DEF ArchiveCurrent, StepTo
        <3>2. /\ archived' \in Seq(ThresholdFiles \cup {NoFile}) /\ Len(archived') = Len(archived)
              /\ DOMAIN archived' = DOMAIN archived /\ archived'[Len(archived)] = inforce /\ archived' # <<>>
              /\ Len(archived) \in DOMAIN archived /\ \A k \in DOMAIN archived : k # Len(archived) => archived'[k] = archived[k]
            BY <2>0, <3>0, <3>1, LastChanged
        <3>3. cmd' \in PromoteCommands BY <2>0, <3>1 DEF PromoteCommands
        <3>4. ThresholdTypeOK' BY <2>a, <3>2, <3>3 DEF ThresholdTypeOK
        <3>5. DeployedVetted' /\ VerdictOfWholeFile' /\ CompleteCopySurvives'
            BY <2>a, <3>0, <3>2 DEF DeployedVetted, VerdictOfWholeFile, CompleteCopySurvives, IsWhole, LastArchived
        <3>6. CommandShape'
            BY <2>0, <2>a, <2>3, <3>0, <3>1, <3>2, <3>3
            DEF PromoteCommands, CommandShape, At, LastArchived, IsWhole, DeployedVetted
        <3> QED BY <3>4, <3>5, <3>6
    <2> QED BY <1>8, <2>1, <2>2, <2>3 DEF ArchiveCurrent
<1>9. ASSUME StageCandidate PROVE ThresholdInv'
    <2>1. ThresholdTypeOK' BY <1>9 DEF StageCandidate, StepTo, Finish, ThresholdTypeOK, ThresholdFiles, Results, At, BuildCommands, WriteCommands, PromoteCommands, RollbackCommands, NoCommand, CommandShape
    <2>2. DeployedVetted' /\ VerdictOfWholeFile' /\ CompleteCopySurvives'
        BY <1>9 DEF StageCandidate, StepTo, Finish, ThresholdTypeOK, ThresholdFiles, At, BuildCommands, WriteCommands, PromoteCommands, RollbackCommands, NoCommand, CommandShape, IsWhole, LastArchived,
            DeployedVetted, VerdictOfWholeFile, CompleteCopySurvives
    <2>3. CommandShape'
        BY <1>9 DEF StageCandidate, StepTo, Finish, ThresholdTypeOK, ThresholdFiles, At, BuildCommands, WriteCommands, PromoteCommands, RollbackCommands, NoCommand, CommandShape, IsWhole, LastArchived,
            DeployedVetted, VerdictOfWholeFile, CompleteCopySurvives
    <2> QED BY <2>1, <2>2, <2>3
<1>10. ASSUME Replace PROVE ThresholdInv'
    <2>1. ThresholdTypeOK' BY <1>10 DEF Replace, StepTo, Finish, ThresholdTypeOK, ThresholdFiles, Results, At, BuildCommands, WriteCommands, PromoteCommands, RollbackCommands, NoCommand, CommandShape
    <2>2. DeployedVetted' /\ VerdictOfWholeFile' /\ CompleteCopySurvives'
        BY <1>10 DEF Replace, StepTo, Finish, ThresholdTypeOK, ThresholdFiles, At, BuildCommands, WriteCommands, PromoteCommands, RollbackCommands, NoCommand, CommandShape, IsWhole, LastArchived,
            DeployedVetted, VerdictOfWholeFile, CompleteCopySurvives
    <2>0. cmd \in PromoteCommands /\ cmd.pc = "replace" /\ cmd.name = "promote" /\ UNCHANGED <<csv, verdict, made, archived>>
        BY <1>10 DEF Replace, At, ThresholdTypeOK, BuildCommands, WriteCommands, PromoteCommands, RollbackCommands, NoCommand
    <2>3. CommandShape'
        <3>1. CASE cmd' = NoCommand BY <2>0, <3>1 DEF CommandShape, NoCommand, At
        <3>2. CASE LastArchived # NoFile /\ cmd' = [cmd EXCEPT !.pc = "undo"] /\ inforce' = inforce
            BY <2>0, <3>2 DEF CommandShape, At, LastArchived, PromoteCommands
        <3> QED BY <1>10, <3>1, <3>2 DEF Replace, LastArchived, StepTo, Finish
    <2> QED BY <2>1, <2>2, <2>3
<1>11. ASSUME UndoReplace PROVE ThresholdInv'
    <2>0. cmd \in PromoteCommands /\ LastArchived \in ThresholdFiles
        <3>1. cmd \in PromoteCommands /\ cmd.pc \in {"undo", "copying"} BY <1>11 DEF UndoReplace, ThresholdTypeOK, BuildCommands, WriteCommands, PromoteCommands, RollbackCommands, NoCommand
        <3>2. LastArchived # NoFile /\ archived # <<>> /\ archived \in Seq(ThresholdFiles \cup {NoFile})
            BY <3>1 DEF CommandShape, ThresholdTypeOK, PromoteCommands
        <3> QED BY <3>1, <3>2 DEF LastArchived
    <2>1. ThresholdTypeOK'
        <3> DEFINE new == [v |-> LastArchived.v, part |-> "empty"]
        <3>1. new \in ThresholdFiles /\ [cmd EXCEPT !.pc = "copying"] \in PromoteCommands BY <2>0 DEF ThresholdFiles, PromoteCommands
        <3>2. (inforce' = new /\ cmd' = [cmd EXCEPT !.pc = "copying"]) \/ (inforce' = LastArchived /\ cmd' = NoCommand)
            BY <1>11 DEF UndoReplace, CopyOver, StepTo, Finish, LastArchived
        <3>3. UNCHANGED <<csv, verdict, made, staged, archived>> BY <1>11 DEF UndoReplace
        <3> HIDE DEF new
        <3>4. inforce' \in ThresholdFiles /\ cmd' \in {NoCommand} \cup PromoteCommands BY <2>0, <3>1, <3>2
        <3> QED BY <3>3, <3>4 DEF ThresholdTypeOK
    <2>2. DeployedVetted' /\ VerdictOfWholeFile' /\ CompleteCopySurvives'
        BY <1>11 DEF UndoReplace, CopyOver, StepTo, Finish, ThresholdTypeOK, ThresholdFiles, At, BuildCommands, WriteCommands, PromoteCommands, RollbackCommands, NoCommand, CommandShape, IsWhole, LastArchived,
            DeployedVetted, VerdictOfWholeFile, CompleteCopySurvives
    <2>3. CommandShape'
        BY <1>11 DEF UndoReplace, CopyOver, StepTo, Finish, ThresholdTypeOK, ThresholdFiles, At, BuildCommands, WriteCommands, PromoteCommands, RollbackCommands, NoCommand, CommandShape, IsWhole, LastArchived,
            DeployedVetted, VerdictOfWholeFile, CompleteCopySurvives
    <2> QED BY <2>1, <2>2, <2>3
<1>12. ASSUME RestoreArchive PROVE ThresholdInv'
    <2>0. cmd \in RollbackCommands /\ archived[cmd.from] \in ThresholdFiles
        <3>1. cmd \in RollbackCommands BY <1>12 DEF RestoreArchive, ThresholdTypeOK, BuildCommands, WriteCommands, PromoteCommands, RollbackCommands, NoCommand
        <3>2. cmd.from \in DOMAIN archived /\ archived[cmd.from] # NoFile BY <3>1 DEF CommandShape, RollbackCommands, IsWhole
        <3> QED BY <3>1, <3>2 DEF ThresholdTypeOK
    <2>1. ThresholdTypeOK'
        <3> DEFINE old == archived[cmd.from]
                   new == [v |-> old.v, part |-> "empty"]
        <3>1. new \in ThresholdFiles /\ [cmd EXCEPT !.pc = "copying"] \in RollbackCommands BY <2>0 DEF ThresholdFiles, RollbackCommands
        <3>2. (inforce' = new /\ cmd' = [cmd EXCEPT !.pc = "copying"]) \/ (inforce' = old /\ cmd' = NoCommand)
            BY <1>12 DEF RestoreArchive, CopyOver, StepTo, Finish
        <3>3. UNCHANGED <<csv, verdict, made, staged, archived>> BY <1>12 DEF RestoreArchive
        <3> HIDE DEF new
        <3>4. inforce' \in ThresholdFiles /\ cmd' \in {NoCommand} \cup RollbackCommands BY <2>0, <3>1, <3>2
        <3>5. RollbackCommands' = RollbackCommands BY <3>3 DEF RollbackCommands
        <3> QED BY <3>3, <3>4, <3>5 DEF ThresholdTypeOK
    <2>2. DeployedVetted' /\ VerdictOfWholeFile' /\ CompleteCopySurvives'
        BY <1>12 DEF RestoreArchive, CopyOver, StepTo, Finish, ThresholdTypeOK, ThresholdFiles, At, BuildCommands, WriteCommands, PromoteCommands, RollbackCommands, NoCommand, CommandShape, IsWhole, LastArchived,
            DeployedVetted, VerdictOfWholeFile, CompleteCopySurvives
    <2>3. CommandShape'
        BY <1>12 DEF RestoreArchive, CopyOver, StepTo, Finish, ThresholdTypeOK, ThresholdFiles, At, BuildCommands, WriteCommands, PromoteCommands, RollbackCommands, NoCommand, CommandShape, IsWhole, LastArchived,
            DeployedVetted, VerdictOfWholeFile, CompleteCopySurvives
    <2> QED BY <2>1, <2>2, <2>3
<1>13. ASSUME KillCommand PROVE ThresholdInv'
    <2>1. ThresholdTypeOK'
        <3>1. inforce' \in ThresholdFiles \cup {NoFile}
            BY <1>13 DEF KillCommand, CommandShape, ThresholdTypeOK, ThresholdFiles
        <3>2. archived' \in Seq(ThresholdFiles \cup {NoFile})
            <4>1. CASE cmd.name = "promote" /\ cmd.pc = "backed"
                <5>1. PICK part \in {"empty", "partial"} : archived' = [archived EXCEPT ![Len(archived)].part = part]
                    BY <1>13, <4>1 DEF KillCommand
                <5>2. archived # <<>> /\ LastArchived # NoFile BY <4>1 DEF CommandShape, At
                <5> DEFINE new == [LastArchived EXCEPT !.part = part]
                <5>3. LastArchived \in ThresholdFiles BY <5>2 DEF LastArchived, ThresholdTypeOK
                <5>4. new \in ThresholdFiles BY <5>3 DEF ThresholdFiles
                <5>5. archived' = [archived EXCEPT ![Len(archived)] = new] BY <5>1 DEF LastArchived
                <5> HIDE DEF new
                <5> QED BY <5>2, <5>4, <5>5, LastChanged DEF ThresholdTypeOK
            <4>2. CASE ~ (cmd.name = "promote" /\ cmd.pc = "backed") BY <1>13, <4>2 DEF KillCommand, ThresholdTypeOK
            <4> QED BY <4>1, <4>2
        <3> QED BY <1>13, <3>1, <3>2 DEF KillCommand, Finish, ThresholdTypeOK
    <2>2. DeployedVetted' /\ VerdictOfWholeFile' /\ CompleteCopySurvives'
        BY <1>13 DEF KillCommand, Finish, ThresholdTypeOK, ThresholdFiles, At, BuildCommands, WriteCommands, PromoteCommands, RollbackCommands, NoCommand, CommandShape, IsWhole, LastArchived,
            DeployedVetted, VerdictOfWholeFile, CompleteCopySurvives
    <2>3. CommandShape'
        BY <1>13 DEF KillCommand, Finish, ThresholdTypeOK, ThresholdFiles, At, BuildCommands, WriteCommands, PromoteCommands, RollbackCommands, NoCommand, CommandShape, IsWhole, LastArchived,
            DeployedVetted, VerdictOfWholeFile, CompleteCopySurvives
    <2> QED BY <2>1, <2>2, <2>3
<1>14. CASE UNCHANGED tvars
    BY <1>14 DEF tvars, ThresholdTypeOK, DeployedVetted, VerdictOfWholeFile, CompleteCopySurvives, CommandShape,
        LastArchived, At, RollbackCommands
<1> QED
    BY <1>1, <1>2, <1>3, <1>4, <1>5, <1>6, <1>7, <1>8, <1>9, <1>10, <1>11, <1>12, <1>13, <1>14 DEF ThresholdNext, CommandStep

\* Only the rename of a promotion, or the undoing of one that failed, changes the file in force.
LEMMA RenameIsWhole ==
    ASSUME ThresholdInv, ThresholdNext, cmd.name = "promote", cmd.pc \notin {"undo", "copying"}, inforce' # inforce
    PROVE  IsWhole(inforce')
<1>1. cmd # NoCommand BY DEF NoCommand
<1>2. CASE Replace
    BY <1>2 DEF Replace, ThresholdInv, CommandShape
<1>3. CASE KillCommand BY <1>3 DEF KillCommand
<1>4. ~ UndoReplace /\ ~ RestoreArchive BY DEF UndoReplace, RestoreArchive
<1> QED
    BY <1>1, <1>2, <1>3, <1>4 DEF ThresholdNext, CommandStep, build_candidate, validate_threshold, promote_threshold,
        rollback, RemoveTree, QueryRows, WriteCsv, ArchiveCurrent, StageCandidate

\* Theorem: whatever command is killed or fails where, inference never loads thresholds without
\* bounds, a stored verdict is about the complete file beside it and a complete copy of
\* thresholds that were in force remains, for any runs, rows and promotions
\* (anomaly_threshold_ops.py).
THEOREM ThresholdsAreVetted == ThresholdSpec => []ThresholdInv
<1>1. ThresholdInv /\ [ThresholdNext]_tvars => ThresholdInv' BY ThresholdInvStep
<1> QED BY <1>1, ThresholdInvInit, PTL DEF ThresholdSpec

\* Theorem: readers of the deployed thresholds see the old file or the new one while a promotion
\* runs (promote_threshold's os.replace).
THEOREM ThresholdsSwitchAtomically == ThresholdSpec => PromotionIsAtomic
<1>1. ThresholdInv /\ [ThresholdNext]_tvars =>
        [cmd.name = "promote" /\ cmd.pc \notin {"undo", "copying"} /\ inforce' # inforce => IsWhole(inforce')]_tvars
    BY RenameIsWhole
<1> QED BY <1>1, ThresholdsAreVetted, PTL DEF ThresholdSpec, PromotionIsAtomic

(***************************************************************************)
(* Retraining records.                                                     *)
(***************************************************************************)

\* No job at the start.
LEMMA RetrainInvInit == RetrainInit => RetrainInv
<1> SUFFICES ASSUME RetrainInit PROVE RetrainInv
    OBVIOUS
<1>1. RetrainTypeOK
    BY RetriesAssumption DEF RetrainInit, RetrainTypeOK, NewJob, JobRows, Stages, Attempts, NoRefresh, RefreshRows
<1>2. ValidateIsInstalled /\ RequestsSound
    BY DEF RetrainInit, ValidateIsInstalled, RequestsSound, NewJob, NoRefresh, Uploads
<1> QED BY <1>1, <1>2 DEF RetrainInv

\* An ended job's record is final, and RunPod's answer is sound when it is given.
LEMMA AnswerIsSound ==
    ASSUME RetrainInv, NEW j \in TrainJobs
    PROVE  RecordOf(j) \in Records /\ Said(RecordOf(j), j)
<1>1. job[j].stage \in Stages BY DEF RetrainInv, RetrainTypeOK, JobRows
<1>2. RecordOf(j) \in Records
    BY <1>1 DEF RecordOf, StatusOf, next_action, Records, Terminal, Stages, Ended
<1>3. RecordOf(j).next = "validate" => job[j].stage = "uploaded"
    BY <1>1 DEF RecordOf, StatusOf, next_action, Terminal, Stages, Ended
<1>4. job[j].stage = "uploaded" => j \in installed BY DEF RetrainInv, ValidateIsInstalled
<1> QED BY <1>2, <1>3, <1>4 DEF Said

\* What was said of a job stays true: installed jobs stay installed and ended jobs ended.
LEMMA SaidStays ==
    ASSUME NEW j \in TrainJobs, NEW text, Said(text, j), installed \subseteq installed',
           job'[j] = job[j] \/ job[j].stage \notin Ended, job[j].stage \in Stages
    PROVE  Said(text, j)'
<1>1. RecordOf(j).status \in Terminal <=> job[j].stage \in Ended
    BY DEF RecordOf, StatusOf, Terminal, Ended, Stages
<1>2. CASE job'[j] = job[j] BY <1>2 DEF Said, RecordOf, StatusOf
<1>3. CASE job[j].stage \notin Ended
    <2>1. text.status \notin Terminal BY <1>1, <1>3 DEF Said
    <2> QED BY <2>1 DEF Said
<1> QED BY <1>2, <1>3

\* A row job j may have after an answer or a timeout: still its run's, and uploaded only when installed.
LaterStage(j, new) ==
    /\ new \in JobRows /\ new.stage # "none" /\ new.run \in TrainRuns
    /\ new.stage = "uploaded" => j \in installed

\* Every step keeps the invariant.
LEMMA RetrainInvStep ==
    ASSUME RetrainInv, [RetrainNext]_trainvars
    PROVE  RetrainInv'
<1> USE RetriesAssumption DEF RetrainInv
<1>s. \A j \in TrainJobs : job[j].stage \in Stages /\ job[j] \in JobRows BY DEF RetrainTypeOK, JobRows
<1>q. \A q \in Uploads : q[1] \in TrainJobs BY DEF Uploads
\* A step that leaves the records, the temporary files and the requests alone.
<1>k. ASSUME UNCHANGED <<record, tmp, refresh>>, installed \subseteq installed', RetrainTypeOK',
             \A j \in TrainJobs : job'[j] = job[j] \/ (job[j].stage \notin Ended /\ job'[j].stage # "none"
                                                       /\ job'[j].run \in TrainRuns
                                                       /\ (job'[j].stage = "uploaded" => j \in installed)),
             \A q \in Uploads : /\ upload'[q] # "none" => job'[q[1]].stage # "none"
                                /\ upload'[q] = "ok" => q[1] \in installed'
      PROVE  RetrainInv'
    <2>1. \A j \in TrainJobs : \A text : Said(text, j) => Said(text, j)' BY <1>s, <1>k, SaidStays
    <2>2. \A j \in TrainJobs : record[j] # Absent => Said(record[j], j) BY DEF ValidateIsInstalled, Said
    <2>3. \A j \in TrainJobs : record'[j] # Absent => Said(record[j], j)' BY <1>k, <2>1, <2>2
    <2>4. \A j \in TrainJobs : job'[j].stage = "uploaded" => j \in installed' BY <1>k DEF ValidateIsInstalled
    <2>5. ValidateIsInstalled' BY <1>k, <2>3, <2>4 DEF ValidateIsInstalled, Said
    <2>a. \A t \in Refreshers : refresh[t].at = "write" =>
             refresh[t].job \in TrainJobs /\ Said(refresh[t].got, refresh[t].job)
        BY DEF RequestsSound
    <2>6. \A t \in Refreshers : refresh'[t].at = "write" => Said(refresh[t].got, refresh[t].job)'
        BY <1>k, <2>1, <2>a
    <2>b. \A j \in TrainJobs : tmp[j] # Absent => Said(tmp[j], j) BY DEF RequestsSound
    <2>7. \A j \in TrainJobs : job'[j].stage # "none" => job'[j].run \in TrainRuns BY <1>k DEF RequestsSound
    <2>8. \A j \in TrainJobs : tmp'[j] # Absent => Said(tmp[j], j)' BY <1>k, <2>1, <2>b
    <2>c. \A t \in Refreshers : /\ refresh'[t].at # "idle" => refresh'[t].job \in TrainJobs
                               /\ refresh'[t].at = "write" => refresh'[t].got \in Records
        BY <1>k DEF RequestsSound
    <2>9. RequestsSound' BY <1>k, <2>6, <2>7, <2>8, <2>c DEF RequestsSound
    <2> QED BY <1>k, <2>5, <2>9
<1>n. ASSUME NEW j \in TrainJobs, job[j].stage = "sent", job[j].run \in TrainRuns PROVE LaterStage(j, NextTry(j))
    <2>1. job[j] \in JobRows /\ job[j].attempt \in Nat BY <1>s DEF JobRows, Attempts
    <2>2. CASE job[j].attempt < UploadRetries
        <3>1. NextTry(j) = [job[j] EXCEPT !.stage = "upload", !.attempt = job[j].attempt + 1] BY <2>2 DEF NextTry
        <3>2. job[j].attempt + 1 \in Attempts BY <2>1, <2>2 DEF Attempts
        <3> QED BY <1>n, <2>1, <3>1, <3>2 DEF LaterStage, JobRows, Stages
    <2>3. CASE ~(job[j].attempt < UploadRetries)
        <3>1. NextTry(j) = [job[j] EXCEPT !.stage = "failed"] BY <2>3 DEF NextTry
        <3> QED BY <1>n, <2>1, <3>1 DEF LaterStage, JobRows, Stages, Ended
    <2> QED BY <2>2, <2>3
<1>1. ASSUME NEW j \in TrainJobs, handler(j) PROVE RetrainInv'
    <2>1. RetrainTypeOK' BY <1>1, <1>q DEF handler, Reach, RetrainTypeOK, RequestsSound, JobRows, Stages, Ended
    <2>2. UNCHANGED <<record, tmp, refresh>> /\ installed \subseteq installed' BY <1>1 DEF handler, Reach
    <2>3. \A i \in TrainJobs : job'[i] = job[i] \/ (job[i].stage \notin Ended /\ job'[i].stage # "none"
                /\ job'[i].run \in TrainRuns /\ (job'[i].stage = "uploaded" => i \in installed))
        BY <1>1, <1>s DEF handler, Reach, RetrainTypeOK, RequestsSound, JobRows, Stages, Ended
    <2>4. \A p \in Uploads : (upload'[p] # "none" => job'[p[1]].stage # "none") /\ (upload'[p] = "ok" => p[1] \in installed')
        BY <1>1, <1>s, <1>q DEF handler, Reach, RetrainTypeOK, RequestsSound, JobRows, Stages, Ended
    <2> QED BY <1>k, <2>1, <2>2, <2>3, <2>4
<1>2. ASSUME NEW j \in TrainJobs, Train(j) PROVE RetrainInv'
    <2>a. job[j].run \in TrainRuns BY <1>2 DEF Train, RequestsSound
    <2>b. trained' \subseteq TrainRuns BY <1>2, <2>a DEF Train, RetrainTypeOK
    <2>c. \E st \in Stages : job' = [job EXCEPT ![j].stage = st] BY <1>2 DEF Train, Reach, Stages, Ended
    <2>d. job' \in [TrainJobs -> JobRows] BY <1>s, <2>c DEF RetrainTypeOK, JobRows
    <2>1. RetrainTypeOK' BY <1>2, <2>b, <2>d DEF Train, RetrainTypeOK
    <2>2. UNCHANGED <<record, tmp, refresh>> /\ installed \subseteq installed' BY <1>2 DEF Train, Reach
    <2>3. \A i \in TrainJobs : job'[i] = job[i] \/ (job[i].stage \notin Ended /\ job'[i].stage # "none"
                /\ job'[i].run \in TrainRuns /\ (job'[i].stage = "uploaded" => i \in installed))
        BY <1>2, <1>s DEF Train, Reach, RetrainTypeOK, RequestsSound, JobRows, Stages, Ended
    <2>4. \A p \in Uploads : (upload'[p] # "none" => job'[p[1]].stage # "none") /\ (upload'[p] = "ok" => p[1] \in installed')
        BY <1>2, <1>s, <1>q DEF Train, Reach, RetrainTypeOK, RequestsSound, JobRows, Stages, Ended
    <2> QED BY <1>k, <2>1, <2>2, <2>3, <2>4
<1>3. ASSUME NEW j \in TrainJobs, upload_archive_once(j) PROVE RetrainInv'
    <2>1. RetrainTypeOK' BY <1>3, <1>q DEF upload_archive_once, Reach, Uploads, Attempts, RetrainTypeOK, RequestsSound, JobRows, Stages, Ended
    <2>2. UNCHANGED <<record, tmp, refresh>> /\ installed \subseteq installed' BY <1>3 DEF upload_archive_once, Reach, Uploads, Attempts
    <2>3. \A i \in TrainJobs : job'[i] = job[i] \/ (job[i].stage \notin Ended /\ job'[i].stage # "none"
                /\ job'[i].run \in TrainRuns /\ (job'[i].stage = "uploaded" => i \in installed))
        BY <1>3, <1>s DEF upload_archive_once, Reach, Uploads, Attempts, RetrainTypeOK, RequestsSound, JobRows, Stages, Ended
    <2>4. \A p \in Uploads : (upload'[p] # "none" => job'[p[1]].stage # "none") /\ (upload'[p] = "ok" => p[1] \in installed')
        BY <1>3, <1>s, <1>q DEF upload_archive_once, Reach, Uploads, Attempts, RetrainTypeOK, RequestsSound, JobRows, Stages, Ended
    <2> QED BY <1>k, <2>1, <2>2, <2>3, <2>4
<1>4. ASSUME NEW j \in TrainJobs, AnswerArrives(j) PROVE RetrainInv'
    <2>0. job[j].stage = "sent" /\ job[j].run \in TrainRuns /\ job[j].attempt \in Attempts
        BY <1>4, <1>s DEF AnswerArrives, RequestsSound, JobRows
    <2>a. <<j, job[j].attempt>> \in Uploads BY <2>0 DEF Uploads
    <2>b. UNCHANGED <<trained, upload, upload_file, candidate, installed, record, tmp, refresh, restarts>>
        BY <1>4 DEF AnswerArrives
    <2>d. ASSUME NEW st \in Ended, st = "uploaded" => j \in installed
          PROVE  LaterStage(j, [job[j] EXCEPT !.stage = st])
        BY <1>s, <2>0, <2>d DEF LaterStage, JobRows, Stages, Ended
    <2>e. upload[<<j, job[j].attempt>>] = "ok" => j \in installed BY <2>a DEF RequestsSound
    <2>f. LaterStage(j, NextTry(j)) BY <1>n, <2>0
    <2>c. PICK new : job' = [job EXCEPT ![j] = new] /\ LaterStage(j, new)
        <3>1. CASE upload[<<j, job[j].attempt>>] = "ok" /\ Reach(j, "uploaded")
            <4>1. job' = [job EXCEPT ![j] = [job[j] EXCEPT !.stage = "uploaded"]] BY <3>1 DEF Reach
            <4> QED BY <2>d, <2>e, <3>1, <4>1 DEF Ended
        <3>2. CASE Reach(j, "failed")
            <4>1. job' = [job EXCEPT ![j] = [job[j] EXCEPT !.stage = "failed"]] BY <3>2 DEF Reach
            <4> QED BY <2>d, <4>1 DEF Ended
        <3>3. CASE job' = [job EXCEPT ![j] = NextTry(j)] BY <2>f, <3>3
        <3> QED BY <1>4, <3>1, <3>2, <3>3 DEF AnswerArrives
    <2>1. RetrainTypeOK' BY <2>b, <2>c DEF RetrainTypeOK, LaterStage
    <2>3. \A i \in TrainJobs : job'[i] = job[i] \/ (job[i].stage \notin Ended /\ job'[i].stage # "none"
                /\ job'[i].run \in TrainRuns /\ (job'[i].stage = "uploaded" => i \in installed))
        BY <2>0, <2>c DEF LaterStage, Ended, RetrainTypeOK
    <2>4. \A p \in Uploads : (upload'[p] # "none" => job'[p[1]].stage # "none") /\ (upload'[p] = "ok" => p[1] \in installed')
        BY <1>q, <2>b, <2>3 DEF RequestsSound
    <2> QED BY <1>k, <2>1, <2>b, <2>3, <2>4
<1>5. ASSUME NEW j \in TrainJobs, UploadTimesOut(j) PROVE RetrainInv'
    <2>0. job[j].stage = "sent" /\ job[j].run \in TrainRuns /\ job' = [job EXCEPT ![j] = NextTry(j)]
        BY <1>5 DEF UploadTimesOut, RequestsSound
    <2>a. LaterStage(j, NextTry(j)) BY <1>n, <2>0
    <2>b. UNCHANGED <<trained, upload_file, candidate, installed, record, tmp, refresh, restarts>>
        BY <1>5 DEF UploadTimesOut
    <2>c. /\ upload' \in [Uploads -> {"none", "body", "saving", "gone", "ok", "refused", "error"}]
          /\ \A p \in Uploads : upload'[p] = upload[p] \/ (upload[p] = "body" /\ upload'[p] = "gone")
        BY <1>5 DEF UploadTimesOut, RetrainTypeOK
    <2>1. RetrainTypeOK' BY <2>0, <2>a, <2>b, <2>c DEF RetrainTypeOK, LaterStage
    <2>3. \A i \in TrainJobs : job'[i] = job[i] \/ (job[i].stage \notin Ended /\ job'[i].stage # "none"
                /\ job'[i].run \in TrainRuns /\ (job'[i].stage = "uploaded" => i \in installed))
        BY <2>0, <2>a DEF LaterStage, Ended, RetrainTypeOK
    <2>4. \A p \in Uploads : (upload'[p] # "none" => job'[p[1]].stage # "none") /\ (upload'[p] = "ok" => p[1] \in installed')
        BY <1>q, <2>b, <2>c, <2>3 DEF RequestsSound
    <2> QED BY <1>k, <2>1, <2>b, <2>3, <2>4
<1>6. ASSUME NEW j \in TrainJobs, KillJob(j) PROVE RetrainInv'
    <2>1. RetrainTypeOK' BY <1>6, <1>q DEF KillJob, Reach, RetrainTypeOK, RequestsSound, JobRows, Stages, Ended
    <2>2. UNCHANGED <<record, tmp, refresh>> /\ installed \subseteq installed' BY <1>6 DEF KillJob, Reach
    <2>3. \A i \in TrainJobs : job'[i] = job[i] \/ (job[i].stage \notin Ended /\ job'[i].stage # "none"
                /\ job'[i].run \in TrainRuns /\ (job'[i].stage = "uploaded" => i \in installed))
        BY <1>6, <1>s DEF KillJob, Reach, RetrainTypeOK, RequestsSound, JobRows, Stages, Ended
    <2>4. \A p \in Uploads : (upload'[p] # "none" => job'[p[1]].stage # "none") /\ (upload'[p] = "ok" => p[1] \in installed')
        BY <1>6, <1>s, <1>q DEF KillJob, Reach, RetrainTypeOK, RequestsSound, JobRows, Stages, Ended
    <2> QED BY <1>k, <2>1, <2>2, <2>3, <2>4
<1>7. ASSUME NEW q \in Uploads, SaveUpload(q) PROVE RetrainInv'
    <2>1. RetrainTypeOK' BY <1>7, <1>q DEF SaveUpload, RetrainTypeOK, RequestsSound, JobRows, Stages, Ended
    <2>2. UNCHANGED <<record, tmp, refresh>> /\ installed \subseteq installed' BY <1>7 DEF SaveUpload
    <2>3. \A i \in TrainJobs : job'[i] = job[i] \/ (job[i].stage \notin Ended /\ job'[i].stage # "none"
                /\ job'[i].run \in TrainRuns /\ (job'[i].stage = "uploaded" => i \in installed))
        BY <1>7, <1>s DEF SaveUpload, RetrainTypeOK, RequestsSound, JobRows, Stages, Ended
    <2>4. \A p \in Uploads : (upload'[p] # "none" => job'[p[1]].stage # "none") /\ (upload'[p] = "ok" => p[1] \in installed')
        BY <1>7, <1>s, <1>q DEF SaveUpload, RetrainTypeOK, RequestsSound, JobRows, Stages, Ended
    <2> QED BY <1>k, <2>1, <2>2, <2>3, <2>4
<1>8. ASSUME NEW q \in Uploads, upload_artifact(q) PROVE RetrainInv'
    <2>1. RetrainTypeOK' BY <1>8, <1>q DEF upload_artifact, Intact, RetrainTypeOK, RequestsSound, JobRows, Stages, Ended
    <2>2. UNCHANGED <<record, tmp, refresh>> /\ installed \subseteq installed' BY <1>8 DEF upload_artifact, Intact
    <2>3. \A i \in TrainJobs : job'[i] = job[i] \/ (job[i].stage \notin Ended /\ job'[i].stage # "none"
                /\ job'[i].run \in TrainRuns /\ (job'[i].stage = "uploaded" => i \in installed))
        BY <1>8, <1>s DEF upload_artifact, Intact, RetrainTypeOK, RequestsSound, JobRows, Stages, Ended
    <2>4. \A p \in Uploads : (upload'[p] # "none" => job'[p[1]].stage # "none") /\ (upload'[p] = "ok" => p[1] \in installed')
        BY <1>8, <1>s, <1>q DEF upload_artifact, Intact, RetrainTypeOK, RequestsSound, JobRows, Stages, Ended
    <2> QED BY <1>k, <2>1, <2>2, <2>3, <2>4
<1>9. ASSUME NEW j \in TrainJobs, start_training(j) PROVE RetrainInv'
    <2>0. PICK r \in TrainRuns, overwrite \in BOOLEAN :
             job' = [job EXCEPT ![j] = [stage |-> "IN_QUEUE", run |-> r, overwrite |-> overwrite, attempt |-> 1]]
        BY <1>9 DEF start_training
    <2> DEFINE new == [stage |-> "IN_QUEUE", run |-> r, overwrite |-> overwrite, attempt |-> 1]
               first == [status |-> "IN_QUEUE", next |-> "wait"]
    <2>f. 1 \in Attempts BY DEF Attempts
    <2>a. new \in JobRows /\ new.stage = "IN_QUEUE" /\ new.run = r BY <2>f DEF JobRows, Stages
    <2>b. first \in Records /\ first.next = "wait" /\ first.status \notin Terminal BY DEF Records, Terminal
    <2>c. record' = record \/ record' = [record EXCEPT ![j] = first] BY <1>9 DEF start_training
    <2>d. job[j].stage = "none" /\ UNCHANGED <<trained, upload, upload_file, candidate, installed, tmp, refresh, restarts>>
        BY <1>9 DEF start_training
    <2> HIDE DEF new, first
    <2>1. RetrainTypeOK' BY <2>0, <2>a, <2>b, <2>c, <2>d DEF RetrainTypeOK, new
    <2>2. \A i \in TrainJobs : \A text : Said(text, i) => Said(text, i)'
        BY <1>s, <2>0, <2>d, SaidStays DEF RetrainTypeOK, Ended
    <2>3. \A i \in TrainJobs : job'[i].stage = "uploaded" => i \in installed'
        BY <2>0, <2>a, <2>d DEF ValidateIsInstalled, RetrainTypeOK, new
    <2>4. \A i \in TrainJobs : record'[i] = record[i] \/ record'[i] = first BY <2>c DEF RetrainTypeOK
    <2>5. \A i \in TrainJobs : record'[i] # Absent =>
             (record'[i].next = "validate" => i \in installed') /\ (record'[i].status \in Terminal => record'[i] = RecordOf(i)')
        BY <2>2, <2>4, <2>b, <2>d DEF ValidateIsInstalled, Said
    <2>6. ValidateIsInstalled' BY <2>3, <2>5 DEF ValidateIsInstalled
    <2>7. \A i \in TrainJobs : job'[i].stage # "none" => job'[i].run \in TrainRuns
        BY <2>0, <2>a DEF RequestsSound, RetrainTypeOK, new
    <2>8. \A i \in TrainJobs : job[i].stage # "none" => job'[i].stage # "none"
        BY <2>0, <2>d DEF RetrainTypeOK
    <2>9. RequestsSound' BY <1>q, <2>2, <2>7, <2>8, <2>d DEF RequestsSound, Said
    <2> QED BY <2>1, <2>6, <2>9
<1>10. ASSUME RestartService PROVE RetrainInv'
    <2>0. UNCHANGED <<job, trained, upload_file, installed, record, tmp>> /\ refresh' = [t \in Refreshers |-> NoRefresh]
        BY <1>10 DEF RestartService
    <2>a. \A j \in TrainJobs : RecordOf(j)' = RecordOf(j) BY <2>0 DEF RecordOf, StatusOf
    <2>b. /\ upload' \in [Uploads -> {"none", "body", "saving", "gone", "ok", "refused", "error"}]
          /\ \A q \in Uploads : (upload'[q] # "none" => upload[q] # "none") /\ (upload'[q] = "ok" => upload[q] = "ok")
        BY <1>10 DEF RestartService, RetrainTypeOK
    <2>c. candidate' \in [TrainRuns -> TrainJobs \cup {Absent}] /\ restarts' \in 0 .. MaxRestarts
        BY <1>10 DEF RestartService, RetrainTypeOK
    <2>d. NoRefresh \in RefreshRows BY DEF NoRefresh, RefreshRows
    <2>1. RetrainTypeOK' BY <2>0, <2>b, <2>c, <2>d DEF RetrainTypeOK
    <2>2. ValidateIsInstalled' BY <2>0, <2>a DEF ValidateIsInstalled
    <2>3. RequestsSound' BY <2>0, <2>a, <2>b DEF RequestsSound, Said, NoRefresh
    <2> QED BY <2>1, <2>2, <2>3
<1>11. ASSUME NEW t \in Refreshers, RefreshStep(t) PROVE RetrainInv'
    <2>0. UNCHANGED <<job, trained, upload, upload_file, candidate, installed, restarts>>
        BY <1>11 DEF RefreshStep, ReadRecord, AskRunPod, WriteTmp, ReplaceRecord
    <2>a. \A j \in TrainJobs : RecordOf(j)' = RecordOf(j) BY <2>0 DEF RecordOf, StatusOf
    <2>b. \A j \in TrainJobs : \A text : Said(text, j)' <=> Said(text, j) BY <2>0, <2>a DEF Said
    <2>d. refresh \in [Refreshers -> RefreshRows] BY DEF RetrainTypeOK
    <2>e. NoRefresh \in RefreshRows /\ \A j \in TrainJobs : [at |-> "ask", job |-> j, got |-> Absent] \in RefreshRows
        BY DEF NoRefresh, RefreshRows
    <2>1. CASE ReadRecord(t)
        <3>1. PICK j \in TrainJobs : refresh' = [refresh EXCEPT ![t] = [at |-> "ask", job |-> j, got |-> Absent]]
            BY <2>1 DEF ReadRecord, RefreshTo
        <3>2. UNCHANGED <<record, tmp>> BY <2>1 DEF ReadRecord
        <3>3. RetrainTypeOK' BY <2>0, <2>e, <3>1, <3>2 DEF RetrainTypeOK
        <3>4. ValidateIsInstalled' BY <2>0, <2>a, <3>2 DEF ValidateIsInstalled
        <3>5. RequestsSound' BY <2>0, <2>b, <2>d, <3>1, <3>2 DEF RequestsSound
        <3> QED BY <3>3, <3>4, <3>5
    <2>2. CASE AskRunPod(t)
        <3>0. refresh[t].job \in TrainJobs BY <2>2 DEF AskRunPod, RequestsSound
        <3> DEFINE j == refresh[t].job
                   new == [refresh[t] EXCEPT !.at = "write", !.got = RecordOf(j)]
        <3>1. refresh' = [refresh EXCEPT ![t] = NoRefresh] \/ refresh' = [refresh EXCEPT ![t] = new]
            BY <2>2 DEF AskRunPod, RefreshTo
        <3>2. UNCHANGED <<record, tmp>> BY <2>2 DEF AskRunPod
        <3>5. RecordOf(j) \in Records /\ Said(RecordOf(j), j) BY <3>0, AnswerIsSound
        <3>7. new \in RefreshRows /\ new.at = "write" /\ new.job = j /\ new.got = RecordOf(j) BY <2>d, <3>5 DEF RefreshRows
        <3> HIDE DEF new, j
        <3>3. RetrainTypeOK' BY <2>0, <2>d, <2>e, <3>1, <3>2, <3>7 DEF RetrainTypeOK
        <3>4. ValidateIsInstalled' BY <2>0, <2>a, <3>2 DEF ValidateIsInstalled
        <3>6. RequestsSound'
            <4>1. CASE refresh' = [refresh EXCEPT ![t] = NoRefresh]
                BY <2>0, <2>b, <2>d, <3>2, <4>1 DEF RequestsSound, NoRefresh
            <4>2. CASE refresh' = [refresh EXCEPT ![t] = new]
                BY <2>0, <2>b, <2>d, <3>0, <3>2, <3>5, <3>7, <4>2 DEF RequestsSound, j
            <4> QED BY <3>1, <4>1, <4>2
        <3> QED BY <3>3, <3>4, <3>6
    <2>3. CASE WriteTmp(t)
        <3> DEFINE j == refresh[t].job
                   text == refresh[t].got
                   new == [refresh[t] EXCEPT !.at = "replace", !.got = Absent]
        <3>0. j \in TrainJobs /\ text \in Records /\ Said(text, j) BY <2>3 DEF WriteTmp, RequestsSound
        <3>1. tmp' = [tmp EXCEPT ![j] = text] /\ refresh' = [refresh EXCEPT ![t] = new] /\ record' = record
            BY <2>3 DEF WriteTmp, RefreshTo
        <3>2. new \in RefreshRows /\ new.at = "replace" /\ new.job = j BY <2>d DEF RefreshRows
        <3> HIDE DEF j, text, new
        <3>3. RetrainTypeOK' BY <2>0, <2>d, <3>0, <3>1, <3>2 DEF RetrainTypeOK
        <3>4. ValidateIsInstalled' BY <2>0, <2>a, <3>1 DEF ValidateIsInstalled
        <3>5. RequestsSound' BY <2>0, <2>b, <2>d, <3>0, <3>1, <3>2 DEF RequestsSound, RetrainTypeOK
        <3> QED BY <3>3, <3>4, <3>5
    <2>4. CASE ReplaceRecord(t)
        <3> DEFINE j == refresh[t].job
        <3>0. j \in TrainJobs BY <2>4 DEF ReplaceRecord, RequestsSound
        <3>1. /\ record' = IF tmp[j] = Absent THEN record ELSE [record EXCEPT ![j] = tmp[j]]
              /\ tmp' = [tmp EXCEPT ![j] = Absent] /\ refresh' = [refresh EXCEPT ![t] = NoRefresh]
            BY <2>4 DEF ReplaceRecord, RefreshTo
        <3> HIDE DEF j
        <3>2. RetrainTypeOK' BY <2>0, <2>d, <2>e, <3>0, <3>1 DEF RetrainTypeOK
        <3>3. tmp[j] # Absent => Said(tmp[j], j) BY <3>0 DEF RequestsSound
        <3>4. ValidateIsInstalled' BY <2>0, <2>a, <3>0, <3>1, <3>3 DEF ValidateIsInstalled, Said, RetrainTypeOK
        <3>5. RequestsSound' BY <2>0, <2>b, <2>d, <3>0, <3>1 DEF RequestsSound, NoRefresh, RetrainTypeOK
        <3> QED BY <3>2, <3>4, <3>5
    <2> QED BY <1>11, <2>1, <2>2, <2>3, <2>4 DEF RefreshStep
<1>12. CASE UNCHANGED trainvars
    BY <1>12 DEF trainvars, RetrainTypeOK, ValidateIsInstalled, RequestsSound, Said, RecordOf, StatusOf
<1> QED
    BY <1>1, <1>2, <1>3, <1>4, <1>5, <1>6, <1>7, <1>8, <1>9, <1>10, <1>11, <1>12
    DEF RetrainNext, HandlerStep, ServeUpload

\* Theorem: a job whose record says "validate" has had its own archive installed, however its
\* uploads timed out and were retried, whichever job shared its run and however status requests
\* raced for the record's temporary file; and a final record says what RunPod says
\* (service/routers/model_ops.py).
THEOREM RecordsAreTrue == RetrainSpec => []RetrainInv
<1>1. RetrainInv /\ [RetrainNext]_trainvars => RetrainInv' BY RetrainInvStep
<1> QED BY <1>1, RetrainInvInit, PTL DEF RetrainSpec

(***************************************************************************)
(* The replayed archive.                                                   *)
(***************************************************************************)

\* A bounded, nonempty set of numbers has a greatest one.
LEMMA GreatestExists ==
    ASSUME NEW n \in Nat, NEW T \in SUBSET (0 .. n), T # {}
    PROVE  \E t \in T : \A u \in T : u <= t
<1> DEFINE R == OpToRel(<, Nat)
           Rests == {n - t : t \in T}
<1>2. IsWellFoundedOn(R, Nat) BY NatLessThanWellFounded
<1> HIDE DEF R
<1>0. PICK t0 \in T : TRUE OBVIOUS
<1>1. Rests \subseteq Nat /\ n - t0 \in Rests OBVIOUS
<1>3. PICK x \in Rests : \A y \in Rests : ~ (<<y, x>> \in R) BY <1>1, <1>2, WFMin
<1>4. \A y \in Rests : ~ (y < x) BY <1>1, <1>3 DEF R, OpToRel
<1>5. PICK t \in T : x = n - t OBVIOUS
<1>6. \A u \in T : u <= t
    <2> SUFFICES ASSUME NEW u \in T PROVE u <= t OBVIOUS
    <2>1. n - u \in Rests OBVIOUS
    <2>2. ~ (n - u < n - t) BY <1>4, <1>5, <2>1
    <2>3. u \in Int /\ t \in Int OBVIOUS
    <2> HIDE DEF Rests
    <2> QED BY <2>2, <2>3
<1> QED BY <1>6

\* A row of the archive is a meter's, at a time of the window.
LEMMA RowShape ==
    ASSUME NEW row \in Archive
    PROVE  row[1] \in Meters /\ row[2] \in 0 .. TargetEnd - 1 /\ row[2] \in Nat /\ row = <<row[1], row[2]>>
BY ReplayArchive, ReplaySizes

\* Row numbers of the whole archive are numbers, and tell the rows of a file apart.
LEMMA EventIdsDiffer ==
    /\ \A row \in Archive : Event(Live, All, row) \in Events
    /\ \A a, b \in Archive : EventId(Live, All, a) = EventId(Live, All, b) => a = b
<1> DEFINE Upto(row) == {x \in Archive : x[1] = row[1] /\ x[2] <= row[2]}
<1>0. \A row : EventId(Live, All, row) = <<Live, row[1], Cardinality(Upto(row))>> BY DEF EventId, RowsOf
<1>1. \A row : IsFiniteSet(Upto(row)) /\ Cardinality(Upto(row)) \in Nat
    BY ReplayArchive, FS_Subset, FS_CardinalityType
<1>2. ASSUME NEW a \in Archive, NEW b \in Archive, a[1] = b[1], a[2] < b[2]
      PROVE  Cardinality(Upto(a)) # Cardinality(Upto(b))
    <2>1. Upto(a) \subseteq Upto(b) BY <1>2, RowShape
    <2>2. b \in Upto(b) /\ b \notin Upto(a) BY <1>2, RowShape
    <2> HIDE DEF Upto
    <2> QED BY <1>1, <2>1, <2>2, FS_Subset
<1>3. \A row \in Archive : Event(Live, All, row) \in Events
    <2> HIDE DEF Upto
    <2> QED BY <1>0, <1>1, RowShape DEF Event, Events
<1>4. ASSUME NEW a \in Archive, NEW b \in Archive, EventId(Live, All, a) = EventId(Live, All, b)
      PROVE  a = b
    <2> HIDE DEF Upto
    <2>1. a[1] = b[1] /\ Cardinality(Upto(a)) = Cardinality(Upto(b)) BY <1>0, <1>4
    <2>2. ~ (a[2] < b[2]) /\ ~ (b[2] < a[2]) BY <1>2, <2>1
    <2> QED BY <2>1, <2>2, RowShape
<1> QED BY <1>3, <1>4

\* Event x waits in the queue q.
Waits(x, q) == \E i \in DOMAIN q : q[i] = x

\* An append adds one member at the end.
LEMMA MembersOfAppend ==
    ASSUME NEW S, NEW q \in Seq(S), NEW x \in S
    PROVE  /\ Append(q, x) \in Seq(S) /\ Len(Append(q, x)) = Len(q) + 1
           /\ \A y : Waits(y, Append(q, x)) <=> Waits(y, q) \/ y = x
<1>1. Append(q, x) \in Seq(S) /\ Len(Append(q, x)) = Len(q) + 1 OBVIOUS
<1>2. /\ DOMAIN q = 1 .. Len(q) /\ DOMAIN Append(q, x) = 1 .. Len(q) + 1 /\ Len(q) \in Nat
      /\ Append(q, x)[Len(q) + 1] = x /\ \A i \in 1 .. Len(q) : Append(q, x)[i] = q[i]
    OBVIOUS
<1>3. \A i \in 1 .. Len(q) + 1 : i \in 1 .. Len(q) \/ i = Len(q) + 1 BY <1>2
<1> QED BY <1>1, <1>2, <1>3 DEF Waits

\* Taking the head off removes no other member.
LEMMA MembersOfTail ==
    ASSUME NEW S, NEW q \in Seq(S), q # <<>>
    PROVE  /\ Tail(q) \in Seq(S) /\ Len(Tail(q)) <= Len(q) /\ Head(q) \in S
           /\ \A y : Waits(y, q) <=> Waits(y, Tail(q)) \/ y = Head(q)
<1>1. Tail(q) \in Seq(S) /\ Len(Tail(q)) = Len(q) - 1 /\ Len(q) \in Nat \ {0} /\ Head(q) \in S OBVIOUS
<1>2. /\ DOMAIN q = 1 .. Len(q) /\ DOMAIN Tail(q) = 1 .. Len(q) - 1
      /\ Head(q) = q[1] /\ \A i \in 1 .. Len(q) - 1 : Tail(q)[i] = q[i + 1]
    OBVIOUS
<1>3. ASSUME NEW y, Waits(y, q) PROVE Waits(y, Tail(q)) \/ y = Head(q)
    <2>1. PICK i \in 1 .. Len(q) : q[i] = y BY <1>2, <1>3 DEF Waits
    <2>2. CASE i = 1 BY <1>2, <2>1, <2>2
    <2>3. CASE i # 1
        <3>1. i - 1 \in 1 .. Len(q) - 1 /\ (i - 1) + 1 = i BY <1>1, <2>3
        <3> QED BY <1>2, <2>1, <3>1 DEF Waits
    <2> QED BY <2>2, <2>3
<1>4. ASSUME NEW y, Waits(y, Tail(q)) PROVE Waits(y, q)
    <2>1. PICK i \in 1 .. Len(q) - 1 : Tail(q)[i] = y BY <1>2, <1>4 DEF Waits
    <2>2. i + 1 \in 1 .. Len(q) BY <1>1
    <2> QED BY <1>2, <2>1, <2>2 DEF Waits
<1>5. Waits(Head(q), q)
    <2>1. 1 \in 1 .. Len(q) BY <1>1
    <2> QED BY <1>2, <2>1 DEF Waits
<1> QED BY <1>1, <1>3, <1>4, <1>5

\* The invariant when every chunk is read from the whole archive.
WholeArchive == ReplayTypeOK /\ PostedInOrder /\ root = All

\* A row is handled when an event of it was posted, or its POST was refused.
LEMMA HandledIsPosted ==
    ASSUME NEW row
    PROVE  Handled(row) <=> (\E e \in Posted : e.row = row) \/ row \in refused
BY DEF Handled, Posted, Stored, InTopic

\* Posted events are events, and only posted events are stored or on their way.
LEMMA PostedShape ==
    ASSUME ReplayTypeOK
    PROVE  Posted \subseteq Events /\ ledger \subseteq Posted
<1>1. \A m \in Meters : \A i \in DOMAIN topic[m] : topic[m][i] \in Events BY DEF ReplayTypeOK
<1> QED BY <1>1 DEF Posted, ReplayTypeOK

\* What lies before the point of resumption was handled: the newest stored event of the run
\* was posted after everything that precedes it.
LEMMA BeforeResume ==
    ASSUME ReplayTypeOK, PostedInOrder
    PROVE  /\ choose_resume_start \in Nat
           /\ \A row \in Archive : row[2] < choose_resume_start => Handled(row)
<1>1. RunTimes \subseteq 0 .. TargetEnd - 1
    BY RowShape DEF RunTimes, ReplayTypeOK, Events
<1>2. CASE RunTimes = {} BY <1>2, RowShape DEF choose_resume_start
<1>3. CASE RunTimes # {}
    <2>1. choose_resume_start \in RunTimes
        <3>1. TargetEnd - 1 \in Nat BY ReplaySizes
        <3>2. \E t \in RunTimes : \A u \in RunTimes : u <= t BY <1>1, <1>3, <3>1, GreatestExists
        <3> QED BY <1>3, <3>2 DEF choose_resume_start, Newest
    <2>2. PICK e \in ledger : e.row[2] = choose_resume_start BY <2>1 DEF RunTimes
    <2>3. e \in Posted BY PostedShape
    <2> QED BY <1>1, <2>1, <2>2, <2>3 DEF PostedInOrder
<1> QED BY <1>2, <1>3

\* Posting in order is all that the other two promises need.
LEMMA OrderIsEnough ==
    ASSUME ReplayTypeOK, PostedInOrder
    PROVE  ReplayInv
<1>1. NoRowLeftBehind
    <2> SUFFICES ASSUME NEW row \in Archive, ~(row[2] >= choose_resume_start) PROVE Handled(row)
        BY DEF NoRowLeftBehind, Handled
    <2>1. row[2] < choose_resume_start BY BeforeResume, RowShape
    <2> QED BY <2>1, BeforeResume
<1>2. NoRowTwice BY PostedShape DEF NoRowTwice, PostedInOrder
<1> QED BY <1>1, <1>2 DEF ReplayInv

\* Nothing is posted at the start.
LEMMA ReplayInvInit == ReplayInit => WholeArchive
<1> SUFFICES ASSUME ReplayInit PROVE WholeArchive OBVIOUS
<1>1. ReplayTypeOK BY ReplaySizes DEF ReplayInit, ReplayTypeOK, Roots
<1>2. Posted = {} BY DEF ReplayInit, Posted
<1>3. PostedInOrder BY <1>2 DEF PostedInOrder, ReplayInit
<1> QED BY <1>1, <1>3 DEF WholeArchive, ReplayInit

\* Every step of the supervisor, of its crashes and of the consumers keeps the invariant.
LEMMA ReplayInvStep ==
    ASSUME ~DayCache, WholeArchive, [ReplayNext]_rvars
    PROVE  WholeArchive'
<1> USE ReplaySizes DEF WholeArchive
<1>e. \A e \in Posted : e \in Events /\ e.row \in Archive /\ e = Event(Live, All, e.row)
    BY PostedShape DEF PostedInOrder, Events
\* It is enough that posted events stay handled and new ones come in order.
<1>k. ASSUME ReplayTypeOK', root' = All, refused \subseteq refused',
             \A e \in Posted' : \/ e \in Posted
                                \/ e = Event(Live, All, e.row) /\ \A row \in Archive : row[2] < e.row[2] => Handled(row),
             \A e \in Posted : \E f \in Posted' : f.row = e.row,
             \A x \in todo' : \A row \in Archive : row[2] < x[2] => row \in todo' \/ Handled(row)'
      PROVE  WholeArchive'
    <2>1. \A row : Handled(row) => Handled(row)'
        <3>1. \A row : Handled(row)' <=> (\E e \in Posted' : e.row = row) \/ row \in refused'
            BY DEF Handled, Posted, Stored, InTopic
        <3> QED BY <1>k, <3>1, HandledIsPosted
    <2>2. \A e \in Posted' : e = Event(Live, All, e.row) BY <1>k, <1>e
    <2>3. \A e \in Posted' : \A row \in Archive : row[2] < e.row[2] => Handled(row)'
        BY <1>k, <2>1 DEF PostedInOrder
    <2>5. PostedInOrder' BY <1>k, <2>2, <2>3 DEF PostedInOrder, Event, EventId
    <2> QED BY <1>k, <2>5
<1>1. ASSUME ChooseChunk PROVE WholeArchive'
    <2> DEFINE s == choose_resume_start
    <2>0. UNCHANGED <<topic, ledger, crashes, refused>> BY <1>1 DEF ChooseChunk
    <2>1. root' = All BY <1>1 DEF ChooseChunk, source_root_for_start
    <2>2. Posted' = Posted /\ \A row : Handled(row)' <=> Handled(row)
        BY <2>0 DEF Posted, Handled, Stored, InTopic
    <2>3. pc' \in {"emit", "complete"} /\ emitted' \in 0 .. ChunkEvents
        BY <1>1 DEF ChooseChunk, ReplayTypeOK
    <2>4. todo' = todo \/ todo' = {row \in Archive : s <= row[2] /\ row[2] < chunk_end(s)}
        BY <1>1, <2>1 DEF ChooseChunk, RowsOf
    <2>5. ReplayTypeOK' BY <2>0, <2>1, <2>3, <2>4 DEF ReplayTypeOK, Roots
    <2>6. s \in Nat /\ chunk_end(s) \in Nat /\ \A row \in Archive : row[2] < s => Handled(row)
        BY BeforeResume DEF chunk_end, Least
    <2> HIDE DEF s
    <2>7. \A x \in todo' : \A row \in Archive : row[2] < x[2] => row \in todo' \/ Handled(row)
        <3>1. CASE todo' = todo BY <3>1 DEF PostedInOrder
        <3>2. CASE todo' = {row \in Archive : s <= row[2] /\ row[2] < chunk_end(s)}
            <4> SUFFICES ASSUME NEW x \in todo', NEW row \in Archive, row[2] < x[2], ~ (row[2] < s)
                         PROVE  row \in todo'
                BY <2>6
            <4> QED BY <2>6, <3>2, RowShape
        <3> QED BY <2>4, <3>1, <3>2
    <2> QED BY <1>k, <2>0, <2>1, <2>2, <2>5, <2>7
<1>2. ASSUME PostRow PROVE WholeArchive'
    <2>0. PICK row \in todo : /\ IsNext(row) /\ Len(topic[row[1]]) < MaxLag
                              /\ todo' = todo \ {row} /\ emitted' = emitted + 1
                              /\ \/ Send(row) /\ UNCHANGED refused
                                 \/ row \notin refused /\ refused' = refused \cup {row} /\ UNCHANGED topic
                                 \/ Send(row) /\ refused' = refused \cup {row}
        BY <1>2 DEF PostRow
    <2> DEFINE new == Event(Live, All, row)
    <2>1. row \in Archive /\ row[1] \in Meters /\ new \in Events /\ new.row = row
        BY RowShape, EventIdsDiffer DEF ReplayTypeOK, Event
    <2>2. UNCHANGED <<pc, root, ledger, crashes>> /\ emitted < ChunkEvents BY <1>2 DEF PostRow
    <2> HIDE DEF new
    <2>3. Send(row) <=> topic' = [topic EXCEPT ![row[1]] = Append(topic[row[1]], new)] BY DEF Send, new
    <2>4. topic \in [Meters -> Seq(Events)] BY DEF ReplayTypeOK
    <2>5. ASSUME Send(row)
          PROVE  /\ topic' \in [Meters -> Seq(Events)] /\ \A m \in Meters : Len(topic'[m]) <= MaxLag
                 /\ Posted' = Posted \cup {new}
        <3>1. topic'[row[1]] = Append(topic[row[1]], new) /\ \A m \in Meters : m # row[1] => topic'[m] = topic[m]
            BY <2>1, <2>3, <2>4, <2>5
        <3>0. topic[row[1]] \in Seq(Events) BY <2>1, <2>4
        <3>a. /\ Append(topic[row[1]], new) \in Seq(Events)
              /\ Len(Append(topic[row[1]], new)) = Len(topic[row[1]]) + 1
              /\ \A y : Waits(y, Append(topic[row[1]], new)) <=> Waits(y, topic[row[1]]) \/ y = new
            BY <2>1, <3>0, MembersOfAppend
        <3>2. topic' \in [Meters -> Seq(Events)] BY <2>1, <2>3, <2>4, <2>5, <3>a
        <3>3. Len(topic'[row[1]]) = Len(topic[row[1]]) + 1 BY <3>1, <3>a
        <3>4. \A m \in Meters : Len(topic'[m]) <= MaxLag
            BY <2>0, <2>1, <2>4, <3>1, <3>3 DEF ReplayTypeOK
        <3>5. \A y : (\E m \in Meters : Waits(y, topic'[m])) <=> (\E m \in Meters : Waits(y, topic[m])) \/ y = new
            BY <2>1, <3>1, <3>a
        <3>6. Posted' = Posted \cup {new}
            <4>1. \A y : y \in Posted <=> y \in ledger \/ \E m \in Meters : Waits(y, topic[m]) BY DEF Posted, Waits
            <4>2. \A y : y \in Posted' <=> y \in ledger' \/ \E m \in Meters : Waits(y, topic'[m]) BY DEF Posted, Waits
            <4> QED BY <2>2, <3>5, <4>1, <4>2
        <3> QED BY <3>2, <3>4, <3>6
    <2>6. ReplayTypeOK'
        <3>1. emitted' \in 0 .. ChunkEvents BY <2>0, <2>2 DEF ReplayTypeOK
        <3>2. todo' \subseteq Archive /\ refused' \subseteq Archive BY <2>0, <2>1 DEF ReplayTypeOK
        <3>3. topic' \in [Meters -> Seq(Events)] /\ \A m \in Meters : Len(topic'[m]) <= MaxLag
            BY <2>0, <2>5 DEF ReplayTypeOK
        <3> QED BY <2>2, <3>1, <3>2, <3>3 DEF ReplayTypeOK
    <2>7. Posted \subseteq Posted' /\ Posted' \subseteq Posted \cup {new} /\ refused \subseteq refused'
          /\ (new \in Posted' \/ row \in refused')
        <3>1. topic' = topic => Posted' = Posted BY <2>2 DEF Posted
        <3> QED BY <2>0, <2>5, <3>1
    <2>8. \A r \in Archive : r[2] < row[2] => Handled(r)
        <3> SUFFICES ASSUME NEW r \in Archive, r[2] < row[2], r \in todo PROVE FALSE
            BY <2>0 DEF PostedInOrder
        <3>1. r = row \/ Precedes(row, r) BY <2>0 DEF IsNext
        <3> QED BY <2>1, <3>1, RowShape DEF Precedes
    <2>9. \A r : Handled(r) \/ r = row => Handled(r)'
        <3>1. \A r : Handled(r)' <=> (\E e \in Posted' : e.row = r) \/ r \in refused'
            BY DEF Handled, Posted, Stored, InTopic
        <3> QED BY <2>1, <2>7, <3>1, HandledIsPosted
    <2>10. \A x \in todo' : \A r \in Archive : r[2] < x[2] => r \in todo' \/ Handled(r)'
        BY <2>0, <2>9 DEF PostedInOrder
    <2>11. \A e \in Posted' : e \in Posted \/ (e = Event(Live, All, e.row) /\ \A r \in Archive : r[2] < e.row[2] => Handled(r))
        BY <2>1, <2>7, <2>8 DEF new
    <2> QED BY <1>k, <2>2, <2>6, <2>7, <2>10, <2>11
<1>3. ASSUME NEW m \in Meters, Consume(m) PROVE WholeArchive'
    <2> DEFINE e == Head(topic[m])
    <2>0. topic[m] # <<>> /\ topic' = [topic EXCEPT ![m] = Tail(topic[m])] /\ ledger' = Store(e)
          /\ UNCHANGED <<pc, root, todo, emitted, crashes, refused>>
        BY <1>3 DEF Consume
    <2>1. topic \in [Meters -> Seq(Events)] /\ topic[m] \in Seq(Events) BY DEF ReplayTypeOK
    <2>2. /\ Tail(topic[m]) \in Seq(Events) /\ Len(Tail(topic[m])) <= Len(topic[m]) /\ e \in Events
          /\ \A y : Waits(y, topic[m]) <=> Waits(y, Tail(topic[m])) \/ y = e
        BY <2>0, <2>1, MembersOfTail
    <2> HIDE DEF e
    <2>3. /\ \A y : y \in Posted <=> y \in ledger \/ \E n \in Meters : Waits(y, topic[n])
          /\ \A y : y \in Posted' <=> y \in ledger' \/ \E n \in Meters : Waits(y, topic'[n])
        BY DEF Posted, Waits
    <2>4. e \in Posted BY <2>2, <2>3
    <2>5. \E f \in ledger' : f.row = e.row
        <3>1. CASE \E x \in ledger : x.id = e.id
            <4>1. PICK x \in ledger : x.id = e.id BY <3>1
            <4>2. x \in Posted BY PostedShape
            <4>3. x.id = EventId(Live, All, x.row) /\ e.id = EventId(Live, All, e.row)
                BY <1>e, <2>4, <4>2 DEF Event
            <4>4. x.row = e.row BY <1>e, <2>4, <4>1, <4>2, <4>3, EventIdsDiffer
            <4> QED BY <2>0, <3>1, <4>4 DEF Store
        <3>2. CASE ~ \E x \in ledger : x.id = e.id BY <2>0, <3>2 DEF Store
        <3> QED BY <3>1, <3>2
    <2>6. ledger \subseteq ledger' /\ ledger' \subseteq ledger \cup {e} BY <2>0 DEF Store
    <2>7. topic'[m] = Tail(topic[m]) /\ \A n \in Meters : n # m => topic'[n] = topic[n] BY <2>0, <2>1
    <2>8. ReplayTypeOK'
        <3>1. topic' \in [Meters -> Seq(Events)] /\ \A n \in Meters : Len(topic'[n]) <= Len(topic[n])
            BY <2>0, <2>1, <2>2, <2>7
        <3>2. \A n \in Meters : Len(topic'[n]) <= MaxLag
            <4> SUFFICES ASSUME NEW n \in Meters PROVE Len(topic'[n]) <= MaxLag OBVIOUS
            <4>1. Len(topic[n]) <= MaxLag /\ Len(topic[n]) \in Nat /\ Len(topic'[n]) \in Nat
                BY <2>1, <3>1 DEF ReplayTypeOK
            <4> QED BY <3>1, <4>1
        <3> QED BY <2>0, <2>2, <2>6, <3>1, <3>2 DEF ReplayTypeOK
    <2>9. Posted' \subseteq Posted /\ Posted \subseteq Posted' \cup {e} /\ ledger' \subseteq Posted'
        BY <2>2, <2>3, <2>4, <2>6, <2>7
    <2>10. \A f \in Posted : \E g \in Posted' : g.row = f.row BY <2>5, <2>9
    <2>11. \A r : Handled(r) => Handled(r)'
        <3>1. \A r : Handled(r)' <=> (\E f \in Posted' : f.row = r) \/ r \in refused'
            BY DEF Handled, Posted, Stored, InTopic
        <3> QED BY <2>0, <2>10, <3>1, HandledIsPosted
    <2>12. \A x \in todo' : \A r \in Archive : r[2] < x[2] => r \in todo' \/ Handled(r)'
        BY <2>0, <2>11 DEF PostedInOrder
    <2> QED BY <1>k, <2>0, <2>8, <2>9, <2>10, <2>12
<1>4. ASSUME ChunkDone \/ CrashSupervisor \/ RestartSupervisor PROVE WholeArchive'
    <2>1. UNCHANGED <<root, topic, ledger, refused>> BY <1>4 DEF ChunkDone, CrashSupervisor, RestartSupervisor
    <2>2. todo' = {} \/ todo' = todo BY <1>4 DEF ChunkDone, CrashSupervisor, RestartSupervisor
    <2>3. Posted' = Posted /\ \A row : Handled(row)' <=> Handled(row)
        BY <2>1 DEF Posted, Handled, Stored, InTopic
    <2>4. ReplayTypeOK'
        BY <1>4, <2>1 DEF ReplayTypeOK, ChunkDone, CrashSupervisor, RestartSupervisor
    <2>5. \A x \in todo' : \A row \in Archive : row[2] < x[2] => row \in todo' \/ Handled(row)'
        BY <2>2, <2>3 DEF PostedInOrder
    <2> QED BY <1>k, <2>1, <2>3, <2>4, <2>5
<1>5. CASE UNCHANGED rvars
    <2>1. Posted' = Posted /\ \A row : Handled(row)' <=> Handled(row)
        BY <1>5 DEF rvars, Posted, Handled, Stored, InTopic
    <2>2. ReplayTypeOK' BY <1>5 DEF rvars, ReplayTypeOK
    <2>3. \A x \in todo' : \A row \in Archive : row[2] < x[2] => row \in todo' \/ Handled(row)'
        BY <1>5, <2>1 DEF rvars, PostedInOrder
    <2> QED BY <1>5, <1>k, <2>1, <2>2, <2>3 DEF rvars
<1> QED BY <1>1, <1>2, <1>3, <1>4, <1>5 DEF ReplayNext, SupervisorStep

\* Theorem: with one source root for the whole window, a supervisor that crashes anywhere, posts
\* that fail or are delivered although they were reported as failed, and consumers that lag
\* behind leave no row behind the point of resumption and store none twice, for every archive
\* and chunk size (scripts/live/live_source_supervisor.py).
THEOREM ReplayLosesNothing ==
    ASSUME ~DayCache
    PROVE  ReplaySpec => []ReplayInv
<1>1. WholeArchive /\ [ReplayNext]_rvars => WholeArchive' BY ReplayInvStep
<1>2. WholeArchive => ReplayInv BY OrderIsEnough DEF WholeArchive
<1> QED BY <1>1, <1>2, ReplayInvInit, PTL DEF ReplaySpec
=============================================================================
