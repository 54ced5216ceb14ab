-------------------------- MODULE ModelDeployment --------------------------
(***************************************************************************)
(* The P-Max champion on disk: candidate runs are uploaded or trained in   *)
(* place, validated, promoted over the deployed tree and rolled back from  *)
(* an archive.  Promotion and rollback hold an flock for their whole       *)
(* duration, so one of them runs at a time; every filesystem call of the   *)
(* swap is a step, and the process may die between any two of them or the  *)
(* call may raise.  Uploads, training and validation take no lock.         *)
(***************************************************************************)
EXTENDS Naturals, FiniteSets

CONSTANTS
    Files,      \* runtime files of a model tree (one per logical meter and kind)
    Versions,   \* contents a training run can give a file
    Gone,       \* a file that is missing from its tree
    NoTree,     \* a directory that does not exist
    Runs,       \* candidate run ids
    Verdict,    \* per version: what the RMSE comparison says, or "broken" when it does not load
    First,      \* the version deployed at the start, if any is
    MaxArchives, \* bound: no promotion or rollback starts with more archives than this
    DeployFaults \* what may go wrong, a subset of AllDeployFaults

(***************************************************************************)
(* crash    the process dies; the flock dies with it                       *)
(* oserror  a rename or rmtree raises                                      *)
(* race     a candidate is written while it is validated or promoted       *)
(***************************************************************************)
AllDeployFaults == {"crash", "oserror", "race"}

ASSUME DeployFilesAssumption == Files # {}
ASSUME DeployNamesAssumption == NoTree \notin Versions /\ Gone \notin Versions /\ First \in Versions
ASSUME DeployVerdictAssumption == Verdict \in [Versions -> {"pass", "warn", "broken"}] /\ Verdict[First] # "broken"
ASSUME DeployFaultAssumption == DeployFaults \subseteq AllDeployFaults /\ MaxArchives \in Nat

VARIABLES
    cand,       \* per run: [tree, mark], its artifact tree and validation.json
    incoming,   \* per run: an upload extracted but not yet renamed into place
    checking,   \* per run: the verdict a validation has reached and not yet written
    deployed,   \* the tree inference loads
    retired,    \* the previous tree while a swap is unresolved
    staging,    \* the tree being prepared
    archives,   \* the backup trees
    op,         \* the promotion or rollback that holds the lock
    champion,   \* history: the last tree that passed its smoke test or was rolled back to
    vetted,     \* history: the trees some validation accepted
    broke       \* history: a crash or an OS error has happened

dvars == <<cand, incoming, checking, deployed, retired, staging, archives, op, champion, vetted, broke>>
ops == <<deployed, retired, staging, archives, op, champion, broke>>

Trees == [Files -> Versions \cup {Gone}] \cup {NoTree}
NoMark == [digest |-> NoTree, result |-> "none"]
Whole(v) == [f \in Files |-> v]

Complete(t) == t # NoTree /\ \A f \in Files : t[f] # Gone

\* validate_runtime_artifacts: every file is there and deserializes.
Loads(t) == Complete(t) /\ \A f \in Files : Verdict[t[f]] # "broken"

\* What an interrupted or failing rmtree or copytree may leave of tree t.
Torn(t) == {u \in Trees : u # NoTree /\ \A f \in Files : u[f] \in {t[f], Gone}}

Pcs == {"idle", "copy", "backup", "retire", "activate", "smoke", "undo", "restore", "cleanup", "discard"}
Idle == [kind |-> "none", pc |-> "idle", run |-> NoTree, todo |-> {}, moved |-> FALSE, backup |-> NoTree]

DeployInit ==
    /\ cand = [r \in Runs |-> [tree |-> NoTree, mark |-> NoMark]]
    /\ incoming = [r \in Runs |-> NoTree]
    /\ checking = [r \in Runs |-> "none"]
    /\ deployed \in {NoTree, Whole(First)}
    /\ retired = NoTree /\ staging = NoTree /\ archives = {}
    /\ op = Idle
    /\ champion = deployed
    /\ vetted = {deployed} \ {NoTree}
    /\ broke = FALSE

\* Nobody else uses the candidate, or the operators do not keep apart.
Free(r) == "race" \in DeployFaults \/ (op.run # r /\ checking[r] = "none")

----------------------------------------------------------------------------
\* The candidate directory: no operation on it takes the deployment lock.

\* install_candidate_archive: with overwrite the old run is removed first, and the
\* extracted tree is renamed into place afterwards.
install_candidate_archive(r, v) ==
    /\ incoming[r] = NoTree /\ Free(r)
    /\ incoming' = [incoming EXCEPT ![r] = v]
    /\ cand' = [cand EXCEPT ![r] = [tree |-> NoTree, mark |-> NoMark]]
    /\ UNCHANGED <<checking, vetted, ops>>

PlaceUpload(r) ==
    /\ incoming[r] # NoTree /\ Free(r)
    /\ cand' = [cand EXCEPT ![r] = [tree |-> Whole(incoming[r]), mark |-> NoMark]]
    /\ incoming' = [incoming EXCEPT ![r] = NoTree]
    /\ UNCHANGED <<checking, vetted, ops>>

\* A training run under an existing run id rewrites files in place and leaves the marker.
Retrain(r, f, v) ==
    /\ incoming[r] = NoTree /\ Free(r)
    /\ cand[r].tree # NoTree
    /\ cand' = [cand EXCEPT ![r].tree[f] = v]
    /\ UNCHANGED <<incoming, checking, vetted, ops>>

delete_candidate(r) ==
    /\ Free(r) /\ cand[r].tree # NoTree
    /\ cand' = [cand EXCEPT ![r] = [tree |-> NoTree, mark |-> NoMark]]
    /\ UNCHANGED <<incoming, checking, vetted, ops>>

Worst(t) == IF \E f \in Files : Verdict[t[f]] = "warn" THEN "warn" ELSE "pass"

\* validate_candidate first loads the models and compares their RMSE ...
validate_candidate(r) ==
    /\ checking[r] = "none" /\ Free(r)
    /\ Loads(cand[r].tree)
    /\ checking' = [checking EXCEPT ![r] = Worst(cand[r].tree)]
    /\ vetted' = vetted \cup {cand[r].tree}
    /\ UNCHANGED <<cand, incoming, ops>>

\* ... and then hashes the files and writes the marker beside them.
WriteValidation(r) ==
    /\ checking[r] # "none"
    /\ checking' = [checking EXCEPT ![r] = "none"]
    /\ cand' = IF Complete(cand[r].tree)
               THEN [cand EXCEPT ![r].mark = [digest |-> cand[r].tree, result |-> checking[r]]]
               ELSE cand
    /\ UNCHANGED <<incoming, vetted, ops>>

\* Mutant: the digest is not compared.
assert_validation_current_by_name(r, allowWarn) ==
    cand[r].mark.result \in (IF allowWarn THEN {"pass", "warn"} ELSE {"pass"})

assert_validation_current(r, allowWarn) ==
    /\ cand[r].mark.result \in (IF allowWarn THEN {"pass", "warn"} ELSE {"pass"})
    /\ cand[r].mark.digest = cand[r].tree

----------------------------------------------------------------------------
\* The swap, under the deployment lock.  A refused call changes nothing.

Step(pc) == op' = [op EXCEPT !.pc = pc]

\* Mutant: a missing backup is recorded as one.
ReleaseUnconditionally == op' = Idle /\ archives' = archives \cup {op.backup}

\* Leaving the lock keeps the backup taken on the way in the archive.
Release == op' = Idle /\ archives' = archives \cup ({op.backup} \ {NoTree})

\* Mutant: an unresolved swap is not looked for.
promote_candidate_over_swap(r, allowWarn) ==
    /\ op = Idle /\ Cardinality(archives) <= MaxArchives
    /\ assert_validation_current(r, allowWarn)
    /\ staging' = Whole(Gone)
    /\ op' = [Idle EXCEPT !.kind = "promote", !.pc = "copy", !.run = r, !.todo = Files]
    /\ UNCHANGED <<cand, incoming, checking, deployed, retired, archives, champion, vetted, broke>>

promote_candidate(r, allowWarn) ==
    /\ op = Idle /\ Cardinality(archives) <= MaxArchives
    /\ assert_validation_current(r, allowWarn)
    /\ retired = NoTree
    /\ staging' = Whole(Gone)
    /\ op' = [Idle EXCEPT !.kind = "promote", !.pc = "copy", !.run = r, !.todo = Files]
    /\ UNCHANGED <<cand, incoming, checking, deployed, retired, archives, champion, vetted, broke>>

\* One file; a candidate removed meanwhile raises and leaves the staging tree behind.
copy_runtime_artifacts(f) ==
    /\ op.pc = "copy" /\ f \in op.todo
    /\ LET t == cand[op.run].tree IN
         IF t = NoTree \/ t[f] = Gone
         THEN Release /\ UNCHANGED staging
         ELSE /\ staging' = [staging EXCEPT ![f] = t[f]]
              /\ op' = [op EXCEPT !.todo = @ \ {f}]
              /\ UNCHANGED archives
    /\ UNCHANGED <<cand, incoming, checking, deployed, retired, champion, vetted, broke>>

\* validate_runtime_artifacts on the staged copy.
CheckStaging ==
    /\ op.pc = "copy" /\ op.todo = {}
    /\ IF Loads(staging) THEN Step("backup") /\ UNCHANGED archives ELSE Release
    /\ UNCHANGED <<cand, incoming, checking, deployed, retired, staging, champion, vetted, broke>>

rollback_deployment(a) ==
    /\ op = Idle /\ Cardinality(archives) <= MaxArchives
    /\ a \in archives /\ Loads(a)
    /\ retired = NoTree
    /\ staging' = a
    /\ op' = [Idle EXCEPT !.kind = "rollback", !.pc = "backup"]
    /\ UNCHANGED <<cand, incoming, checking, deployed, retired, archives, champion, vetted, broke>>

\* The copy of the deployed tree must load, else the promotion is abandoned and the
\* copy removed.
backup_runtime ==
    /\ op.pc = "backup"
    /\ \/ deployed = NoTree /\ Step("activate") /\ UNCHANGED <<staging, archives>>
       \/ Loads(deployed) /\ op' = [op EXCEPT !.pc = "retire", !.backup = deployed]
                          /\ UNCHANGED <<staging, archives>>
       \/ deployed # NoTree /\ ~Loads(deployed) /\ Release /\ staging' = NoTree
    /\ UNCHANGED <<cand, incoming, checking, deployed, retired, champion, vetted, broke>>

RetireOld ==
    /\ op.pc = "retire"
    /\ retired' = deployed /\ deployed' = NoTree
    /\ op' = [op EXCEPT !.pc = "activate", !.moved = TRUE]
    /\ UNCHANGED <<cand, incoming, checking, staging, archives, champion, vetted, broke>>

\* Mutant: the retired tree is removed before the smoke test.
ActivateAndDrop ==
    /\ op.pc = "activate"
    /\ deployed' = staging /\ staging' = NoTree /\ retired' = NoTree
    /\ IF op.kind = "promote" THEN Step("smoke") /\ UNCHANGED champion
                              ELSE Step("cleanup") /\ champion' = staging
    /\ UNCHANGED <<cand, incoming, checking, archives, vetted, broke>>

\* A promotion is then smoke-tested; a rollback only removes the retired tree.
Activate ==
    /\ op.pc = "activate"
    /\ deployed' = staging /\ staging' = NoTree
    /\ IF op.kind = "promote" THEN Step("smoke") /\ UNCHANGED champion
                              ELSE Step("cleanup") /\ champion' = staging
    /\ UNCHANGED <<cand, incoming, checking, retired, archives, vetted, broke>>

\* The except branch of the swap: put the retired tree back and drop the backup; when
\* that rename raises as well, everything is left as it is.
SwapRaises ==
    /\ "oserror" \in DeployFaults /\ op.pc \in {"retire", "activate"}
    /\ staging' = NoTree /\ broke' = TRUE
    /\ \/ /\ IF op.moved THEN deployed' = retired /\ retired' = NoTree ELSE UNCHANGED <<deployed, retired>>
          /\ op' = Idle /\ UNCHANGED archives
       \/ op.moved /\ Release /\ UNCHANGED <<deployed, retired>>
    /\ UNCHANGED <<cand, incoming, checking, champion, vetted>>

\* Mutant: a failed smoke test does not undo the swap.
run_inference_smoke_ignored ==
    /\ op.pc = "smoke"
    /\ Step("cleanup")
    /\ \/ champion' = deployed
       \/ UNCHANGED champion
    /\ UNCHANGED <<cand, incoming, checking, deployed, retired, staging, archives, vetted, broke>>

run_inference_smoke ==
    /\ op.pc = "smoke"
    /\ \/ Step("cleanup") /\ champion' = deployed
       \/ Step("undo") /\ UNCHANGED champion
    /\ UNCHANGED <<cand, incoming, checking, deployed, retired, staging, archives, vetted, broke>>

\* A failed smoke test: remove the new tree, then rename the retired one back.  An OS
\* error in either ends the promotion where it stands.
UndoActivation ==
    /\ op.pc = "undo"
    /\ deployed' = NoTree /\ Step("restore")
    /\ UNCHANGED <<cand, incoming, checking, retired, staging, archives, champion, vetted, broke>>

\* Mutant: the failed tree is removed and nothing put back.
RestoreNothing ==
    /\ op.pc = "restore"
    /\ Release
    /\ UNCHANGED <<cand, incoming, checking, deployed, retired, staging, champion, vetted, broke>>

RestoreRetired ==
    /\ op.pc = "restore"
    /\ IF op.moved THEN deployed' = retired /\ retired' = NoTree ELSE UNCHANGED <<deployed, retired>>
    /\ Release
    /\ UNCHANGED <<cand, incoming, checking, staging, champion, vetted, broke>>

UndoRaises ==
    /\ "oserror" \in DeployFaults /\ op.pc \in {"undo", "restore"}
    /\ deployed' \in IF op.pc = "undo" THEN Torn(deployed) ELSE {deployed}
    /\ Release /\ broke' = TRUE
    /\ UNCHANGED <<cand, incoming, checking, retired, staging, champion, vetted>>

\* rmtree of the retired tree; its errors are only recorded.
CleanRetired ==
    /\ op.pc = "cleanup"
    /\ \/ retired' = NoTree /\ UNCHANGED broke
       \/ "oserror" \in DeployFaults /\ retired # NoTree /\ retired' \in Torn(retired) /\ broke' = TRUE
    /\ IF op.kind = "promote" THEN Step("discard") /\ UNCHANGED archives ELSE Release
    /\ UNCHANGED <<cand, incoming, checking, deployed, staging, champion, vetted>>

\* promotion.json is written and the promoted candidate removed; the last branch is a
\* failed write (candidate kept) or a failed rmtree (part of it kept).
DiscardCandidate ==
    /\ op.pc = "discard" /\ Release
    /\ \/ cand' = [cand EXCEPT ![op.run] = [tree |-> NoTree, mark |-> NoMark]] /\ UNCHANGED broke
       \/ /\ "oserror" \in DeployFaults /\ cand[op.run].tree # NoTree
          /\ \E t \in Torn(cand[op.run].tree) : cand' = [cand EXCEPT ![op.run].tree = t]
          /\ broke' = TRUE
    /\ UNCHANGED <<incoming, checking, deployed, retired, staging, champion, vetted>>

\* The process dies.  A tree it was copying or removing is left in part.
CrashDeployment ==
    /\ "crash" \in DeployFaults /\ op # Idle
    /\ op' = Idle /\ broke' = TRUE
    /\ \E partial \in IF op.pc = "backup" /\ deployed # NoTree THEN Torn(deployed) ELSE {NoTree} :
         archives' = archives \cup ({op.backup, partial} \ {NoTree})
    /\ deployed' \in IF op.pc = "undo" THEN Torn(deployed) ELSE {deployed}
    /\ retired' \in IF op.pc = "cleanup" /\ retired # NoTree THEN Torn(retired) ELSE {retired}
    /\ IF op.pc = "discard" /\ cand[op.run].tree # NoTree
       THEN \E t \in Torn(cand[op.run].tree) : cand' = [cand EXCEPT ![op.run].tree = t]
       ELSE UNCHANGED cand
    /\ UNCHANGED <<incoming, checking, staging, champion, vetted>>

OpStep ==
    \/ \E f \in Files : copy_runtime_artifacts(f)
    \/ CheckStaging \/ backup_runtime \/ RetireOld \/ Activate \/ run_inference_smoke
    \/ UndoActivation \/ RestoreRetired \/ CleanRetired \/ DiscardCandidate

DeployNext ==
    \/ \E r \in Runs, v \in Versions : install_candidate_archive(r, v)
    \/ \E r \in Runs, f \in Files, v \in Versions : Retrain(r, f, v)
    \/ \E r \in Runs : PlaceUpload(r) \/ delete_candidate(r) \/ validate_candidate(r) \/ WriteValidation(r)
    \/ \E r \in Runs, w \in BOOLEAN : promote_candidate(r, w)
    \/ \E a \in archives : rollback_deployment(a)
    \/ OpStep \/ SwapRaises \/ UndoRaises \/ CrashDeployment

\* A started operation runs to its end unless the process dies: it waits for nobody.
DeploySpec == DeployInit /\ [][DeployNext]_dvars /\ WF_dvars(OpStep)

----------------------------------------------------------------------------
CandRows == [tree : Trees, mark : [digest : Trees, result : {"none", "pass", "warn"}]]
OpRows == [kind : {"none", "promote", "rollback"}, pc : Pcs, run : Runs \cup {NoTree},
           todo : SUBSET Files, moved : BOOLEAN, backup : Trees]

\* Types of the directories, of the operation in progress and of the history variables.
DeployTypeOK ==
    /\ cand \in [Runs -> CandRows]
    /\ incoming \in [Runs -> Versions \cup {NoTree}]
    /\ checking \in [Runs -> {"none", "pass", "warn"}]
    /\ deployed \in Trees /\ retired \in Trees /\ staging \in Trees
    /\ archives \subseteq Trees \ {NoTree}
    /\ op \in OpRows
    /\ champion \in Trees /\ vetted \subseteq Trees /\ broke \in BOOLEAN

\* Whatever call of a promotion or rollback raises, and wherever its process dies, the
\* last good model is still on disk, deployed or retired: the swap never removes it.
ChampionSurvives == champion # NoTree => champion \in {deployed, retired}

\* A model that passed its smoke test or was rolled back to is a complete tree exactly as
\* some validation accepted it: not one retrained in place after its validation, and not
\* the partial archive of a promotion that died while copying.
ChampionIsVetted == champion # NoTree => champion \in vetted /\ Loads(champion)

\* A swap that ended with the deployed tree gone and its predecessor retired is never
\* touched again by promote_candidate or rollback_deployment: the only copy of the last
\* model is not overwritten, and no operation repairs the deployment either.
Unresolved == op = Idle /\ retired # NoTree
UnresolvedSwapIsKept == [][Unresolved => UNCHANGED <<deployed, retired, archives, op>>]_dvars

\* While no process dies and no OS call raises, the model is only missing for the length of
\* a swap: a failed smoke test puts the old tree back.
ServiceReturns == []<>(champion = NoTree \/ deployed = champion \/ broke)

\* A tree is live without a smoke test only during its promotion, unless a crash left it.
Unproven == deployed # NoTree /\ deployed # champion
NoUnprovenModel == Unproven /\ ~broke => op.pc \in {"smoke", "undo"}

\* How far the swap is tells where the last good model is: deployed until the old tree is
\* retired, retired until the new one has been proven, deployed again from then on.
SwapShape ==
    /\ op.pc = "idle" => op = Idle
    /\ op.pc \in {"copy", "discard"} => op.kind = "promote"
    /\ op.kind = "promote" => op.run \in Runs
    /\ op.pc \in {"copy", "backup", "retire"} => retired = NoTree /\ ~op.moved
    /\ op.pc \in {"activate", "restore"} => deployed = NoTree
    /\ op.pc \in {"activate", "smoke", "undo", "restore"} =>
          /\ champion \in {NoTree, retired} /\ (~op.moved => retired = NoTree)
          /\ ~broke => retired \in {NoTree, champion}
    /\ op.pc \in {"cleanup", "discard"} => deployed = champion

\* A complete tree anywhere in the swap is one that a validation accepted as it is: what is
\* copied file by file is not rewritten meanwhile, and what is left in part is not complete.
VettedTrees ==
    /\ \A t \in vetted : Loads(t)
    /\ \A t \in archives \cup {deployed, retired, op.backup} : Complete(t) => t \in vetted
    /\ op.pc \in {"backup", "retire", "activate"} => staging \in vetted
    /\ op.pc \in {"smoke", "undo"} => deployed \in vetted
    /\ op.pc = "copy" =>
          /\ cand[op.run].tree \in vetted /\ staging \in [Files -> Versions \cup {Gone}]
          /\ \A f \in Files \ op.todo : staging[f] = cand[op.run].tree[f]
    /\ \A r \in Runs :
          /\ cand[r].mark.result # "none" => cand[r].mark.digest \in vetted
          /\ checking[r] # "none" /\ Complete(cand[r].tree) => cand[r].tree \in vetted

\* P-Max promotion: the last good model stays on disk, was validated as it is, and nothing
\* serves without its smoke test (pmax/promotion.py).
DeploymentInv ==
    DeployTypeOK /\ ChampionSurvives /\ ChampionIsVetted /\ NoUnprovenModel /\ SwapShape /\ VettedTrees
============================================================================
