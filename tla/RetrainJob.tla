----------------------------- MODULE RetrainJob -----------------------------
(***************************************************************************)
(* Retraining on a rented GPU: the service submits a job to RunPod and     *)
(* keeps a record of it, the job's handler trains, packs the candidate and *)
(* uploads it back with retries, the service installs it and the operator  *)
(* follows the record.  src/src/cms/modeling/model_ops.py,                 *)
(* src/src/cms/service/routers/model_ops.py and the handlers under         *)
(* src/scripts/runpod/.                                                    *)
(*                                                                         *)
(* An upload is served by a coroutine of the service: it receives the body *)
(* (its client may still go away), opens the one file the run has under    *)
(* incoming/ and, after further awaits, renames it, installs it and        *)
(* unlinks it without an await.  A client that timed out may be at its     *)
(* next attempt while the service still serves the previous one.           *)
(***************************************************************************)
EXTENDS Naturals, FiniteSets

CONSTANTS TrainJobs,        \* the jobs RunPod may be given
          TrainRuns,             \* run ids; two jobs may be given the same one
          UploadRetries,    \* upload_retries
          Refreshers,       \* threads that serve a status request
          MaxRestarts,      \* bound on restarts of the service
          Absent            \* no file, no record

ASSUME RetriesAssumption == UploadRetries \in Nat \ {0} /\ MaxRestarts \in Nat

VARIABLES job,        \* RunPod's job: its stage, run, options and attempt
          trained,    \* runs whose candidate directory some worker holds
          upload,     \* the upload request of each job and attempt
          upload_file,   \* the request that last opened incoming/<run>.upload
          candidate,  \* the job whose archive candidates/<run> holds
          installed,  \* jobs whose archive was installed (history)
          record,     \* training_jobs/<job>.json
          tmp,        \* training_jobs/<job>.json.tmp
          refresh,    \* the status requests under way
          restarts

trainvars == <<job, trained, upload, upload_file, candidate, installed, record, tmp,
           refresh, restarts>>

Attempts == 1 .. UploadRetries
Uploads == TrainJobs \X Attempts

Ended == {"uploaded", "failed", "killed"}
Stages == {"none", "IN_QUEUE", "training", "upload", "sent"} \cup Ended

NewJob == [stage |-> "none", run |-> Absent, overwrite |-> FALSE, attempt |-> 1]
NoRefresh == [at |-> "idle", job |-> Absent, got |-> Absent]

RetrainInit ==
    /\ job = [j \in TrainJobs |-> NewJob]
    /\ trained = {}
    /\ upload = [q \in Uploads |-> "none"]
    /\ upload_file = [r \in TrainRuns |-> Absent]
    /\ candidate = [r \in TrainRuns |-> Absent]
    /\ installed = {}
    /\ record = [j \in TrainJobs |-> Absent]
    /\ tmp = [j \in TrainJobs |-> Absent]
    /\ refresh = [t \in Refreshers |-> NoRefresh]
    /\ restarts = 0

(***************************************************************************)
(* What RunPod answers about a job, and what the record says to do next.   *)
(* A handler that catches its failure returns it as the job's output: the  *)
(* status is COMPLETED all the same.                                       *)
(***************************************************************************)
StatusOf(j) ==
    CASE job[j].stage \in {"uploaded", "failed"} -> "COMPLETED"
      [] job[j].stage = "killed" -> "FAILED"
      [] job[j].stage = "IN_QUEUE" -> "IN_QUEUE"
      [] OTHER -> "IN_PROGRESS"

Terminal == {"COMPLETED", "FAILED"}

\* Mutant: a completed job is taken for an uploaded one.
next_action_by_status(status, output) ==
    IF status = "COMPLETED" THEN "validate" ELSE "wait"

next_action(status, output) ==
    CASE output = "uploaded" -> "validate"
      [] output = "failed" -> "inspect_failure"
      [] status \in Terminal -> "inspect_result"
      [] OTHER -> "wait"

RecordOf(j) ==
    LET output == IF job[j].stage \in {"uploaded", "failed"} THEN job[j].stage ELSE "none"
    IN  [status |-> StatusOf(j), next |-> next_action(StatusOf(j), output)]

---------------------------------------------------------------------------
(***************************************************************************)
(* start_training: RunPod takes the job; its answer may be lost, and then  *)
(* no record is written and nobody knows the job's id.                     *)
(***************************************************************************)
start_training(j) ==
    /\ job[j].stage = "none"
    /\ \E r \in TrainRuns, overwrite \in BOOLEAN :
          job' = [job EXCEPT ![j] = [stage |-> "IN_QUEUE", run |-> r,
                                     overwrite |-> overwrite, attempt |-> 1]]
    /\ \E answered \in BOOLEAN :
          record' = IF answered
                    THEN [record EXCEPT ![j] = [status |-> "IN_QUEUE", next |-> "wait"]]
                    ELSE record
    /\ UNCHANGED <<trained, upload, upload_file, candidate, installed, tmp, refresh, restarts>>

Reach(j, stage) == job' = [job EXCEPT ![j].stage = stage]

\* Every stage of the handler either goes on or raises, which fails the job.
\* What the service was asked for decides neither an unset token or a refused
\* host of read_input nor a failed transfer or a broken archive of the download.
read_input == {"ok", "failed"}
download_training_data == {"ok", "failed"}

\* A run whose directory this worker already holds is refused too; another
\* worker of the endpoint may pick the job up and not hold it.
HeldHere(j) == IF job[j].run \in trained THEN BOOLEAN ELSE {FALSE}

handler(j) ==
    /\ job[j].stage = "IN_QUEUE"
    /\ \E input \in read_input, held \in HeldHere(j), data \in download_training_data :
          Reach(j, IF input = "ok" /\ ~held /\ data = "ok" THEN "training" ELSE "failed")
    /\ UNCHANGED <<trained, upload, upload_file, candidate, installed, record, tmp, refresh,
                   restarts>>

\* The training process ends: with a complete candidate, or with an error, a
\* timeout or an incomplete layout, which may leave a directory behind.
Train(j) ==
    /\ job[j].stage = "training"
    /\ \/ Reach(j, "upload") /\ trained' = trained \cup {job[j].run}
       \/ Reach(j, "failed") /\ trained' \in {trained, trained \cup {job[j].run}}
    /\ UNCHANGED <<upload, upload_file, candidate, installed, record, tmp, refresh, restarts>>

upload_archive_once(j) ==
    /\ job[j].stage = "upload"
    /\ Reach(j, "sent")
    /\ upload' = [upload EXCEPT ![<<j, job[j].attempt>>] = "body"]
    /\ UNCHANGED <<trained, upload_file, candidate, installed, record, tmp, refresh, restarts>>

(***************************************************************************)
(* The service: the body is in, the run's file is opened and truncated.    *)
(***************************************************************************)
SaveUpload(q) ==
    /\ upload[q] = "body"
    /\ upload' = [upload EXCEPT ![q] = "saving"]
    /\ upload_file' = [upload_file EXCEPT ![job[q[1]].run] = q]
    /\ UNCHANGED <<job, trained, candidate, installed, record, tmp, refresh, restarts>>

\* Mutant: whatever archive lies under the run's name is installed.
IntactAnyway(q) == upload_file[job[q[1]].run] # Absent

\* The archive under the run's name is the one this request wrote: a request
\* that opened it later left it with two writers' bytes, which the archive's
\* own checksum refuses.
Intact(q) == upload_file[job[q[1]].run] = q

(***************************************************************************)
(* upload_artifact after its last await: rename, install_candidate_archive *)
(* and the unlink of its finally.  The rename fails when another request   *)
(* has taken the file; an existing candidate is refused without overwrite. *)
(***************************************************************************)
upload_artifact(q) ==
    LET r == job[q[1]].run
        refused == candidate[r] # Absent /\ ~job[q[1]].overwrite
    IN  /\ upload[q] = "saving"
        /\ upload' = [upload EXCEPT ![q] = CASE upload_file[r] = Absent -> "error"
                                             [] refused -> "refused"
                                             [] Intact(q) -> "ok"
                                             [] OTHER -> "error"]
        /\ upload_file' = [upload_file EXCEPT ![r] = Absent]
        /\ IF upload'[q] = "ok"
           THEN /\ candidate' = [candidate EXCEPT ![r] = upload_file[r][1]]
                /\ installed' = installed \cup {upload_file[r][1]}
           ELSE UNCHANGED <<candidate, installed>>
        /\ UNCHANGED <<job, trained, record, tmp, refresh, restarts>>

(***************************************************************************)
(* The service is restarted: its clients see their connections drop, its   *)
(* files stay, and an install it was in may have removed the old candidate *)
(* and not yet renamed the new one.                                        *)
(***************************************************************************)
RestartService ==
    /\ restarts < MaxRestarts
    /\ restarts' = restarts + 1
    /\ upload' = [q \in Uploads |-> IF upload[q] \in {"body", "saving"} THEN "error"
                                                                        ELSE upload[q]]
    /\ \/ UNCHANGED candidate
       \/ \E q \in Uploads : /\ upload[q] = "saving" /\ Intact(q) /\ job[q[1]].overwrite
                             /\ candidate' = [candidate EXCEPT ![job[q[1]].run] = Absent]
    /\ refresh' = [t \in Refreshers |-> NoRefresh]
    /\ UNCHANGED <<job, trained, upload_file, installed, record, tmp>>

---------------------------------------------------------------------------
\* Mutant: the attempt is not counted.
NextTryUncounted(j) == [job[j] EXCEPT !.stage = "upload"]

\* upload_archive: another attempt, or the job fails with its last one.
NextTry(j) ==
    IF job[j].attempt < UploadRetries
    THEN [job[j] EXCEPT !.stage = "upload", !.attempt = @ + 1]
    ELSE [job[j] EXCEPT !.stage = "failed"]

\* The handler reads the answer of its current attempt.
AnswerArrives(j) ==
    LET q == <<j, job[j].attempt>>
    IN  /\ job[j].stage = "sent"
        /\ \/ upload[q] = "ok" /\ Reach(j, "uploaded")
           \/ upload[q] = "refused" /\ Reach(j, "failed")
           \/ upload[q] = "error" /\ job' = [job EXCEPT ![j] = NextTry(j)]
        /\ UNCHANGED <<trained, upload, upload_file, candidate, installed, record, tmp, refresh,
                       restarts>>

\* The socket times out or breaks: a body still under way is lost with its
\* client, a request past it goes on without anybody listening.
UploadTimesOut(j) ==
    LET q == <<j, job[j].attempt>>
    IN  /\ job[j].stage = "sent"
        /\ job' = [job EXCEPT ![j] = NextTry(j)]
        /\ upload' = [upload EXCEPT ![q] = IF @ = "body" THEN "gone" ELSE @]
        /\ UNCHANGED <<trained, upload_file, candidate, installed, record, tmp, refresh, restarts>>

\* RunPod ends the worker (its own limit, a cancelled job, a lost host).
KillJob(j) ==
    /\ job[j].stage \in Stages \ ({"none"} \cup Ended)
    /\ Reach(j, "killed")
    /\ upload' = [q \in Uploads |-> IF q[1] = j /\ upload[q] = "body" THEN "gone" ELSE upload[q]]
    /\ UNCHANGED <<trained, upload_file, candidate, installed, record, tmp, refresh, restarts>>

---------------------------------------------------------------------------
(***************************************************************************)
(* training_status: read the record, ask RunPod, write the record through  *)
(* a temporary file that all requests share.                               *)
(***************************************************************************)
RefreshTo(t, step) == refresh' = [refresh EXCEPT ![t] = step]

ReadRecord(t) ==
    /\ refresh[t].at = "idle"
    /\ \E j \in TrainJobs :
          /\ record[j] # Absent /\ record[j].status \notin Terminal
          /\ RefreshTo(t, [at |-> "ask", job |-> j, got |-> Absent])
    /\ UNCHANGED <<job, trained, upload, upload_file, candidate, installed, record, tmp, restarts>>

AskRunPod(t) ==
    /\ refresh[t].at = "ask"
    /\ \/ RefreshTo(t, [refresh[t] EXCEPT !.at = "write", !.got = RecordOf(refresh[t].job)])
       \/ RefreshTo(t, NoRefresh)
    /\ UNCHANGED <<job, trained, upload, upload_file, candidate, installed, record, tmp, restarts>>

WriteTmp(t) ==
    /\ refresh[t].at = "write"
    /\ tmp' = [tmp EXCEPT ![refresh[t].job] = refresh[t].got]
    /\ RefreshTo(t, [refresh[t] EXCEPT !.at = "replace", !.got = Absent])
    /\ UNCHANGED <<job, trained, upload, upload_file, candidate, installed, record, restarts>>

\* The replace publishes what the temporary file holds now, and raises when
\* another request has already taken it.
ReplaceRecord(t) ==
    LET j == refresh[t].job
    IN  /\ refresh[t].at = "replace"
        /\ record' = IF tmp[j] = Absent THEN record ELSE [record EXCEPT ![j] = tmp[j]]
        /\ tmp' = [tmp EXCEPT ![j] = Absent]
        /\ RefreshTo(t, NoRefresh)
        /\ UNCHANGED <<job, trained, upload, upload_file, candidate, installed, restarts>>

RefreshStep(t) == ReadRecord(t) \/ AskRunPod(t) \/ WriteTmp(t) \/ ReplaceRecord(t)
HandlerStep(j) ==
    handler(j) \/ Train(j) \/ upload_archive_once(j) \/ AnswerArrives(j) \/ UploadTimesOut(j)
ServeUpload(q) == SaveUpload(q) \/ upload_artifact(q)

RetrainNext ==
    \/ \E j \in TrainJobs : start_training(j) \/ HandlerStep(j) \/ KillJob(j)
    \/ \E q \in Uploads : ServeUpload(q)
    \/ \E t \in Refreshers : RefreshStep(t)
    \/ RestartService

RetrainSpec == RetrainInit /\ [][RetrainNext]_trainvars
RetrainFairSpec ==
    /\ RetrainSpec
    /\ \A j \in TrainJobs : WF_trainvars(HandlerStep(j))

---------------------------------------------------------------------------
Records == [status : {"IN_QUEUE", "IN_PROGRESS"} \cup Terminal,
            next : {"wait", "validate", "inspect_failure", "inspect_result"}]

JobRows == [stage : Stages, run : TrainRuns \cup {Absent}, overwrite : BOOLEAN, attempt : Attempts]

RefreshRows == [at : {"idle", "ask", "write", "replace"}, job : TrainJobs \cup {Absent}, got : Records \cup {Absent}]

\* Jobs, uploads, files and records stay in their ranges.
RetrainTypeOK ==
    /\ job \in [TrainJobs -> JobRows]
    /\ trained \subseteq TrainRuns
    /\ upload \in [Uploads -> {"none", "body", "saving", "gone", "ok", "refused", "error"}]
    /\ upload_file \in [TrainRuns -> Uploads \cup {Absent}]
    /\ candidate \in [TrainRuns -> TrainJobs \cup {Absent}]
    /\ installed \subseteq TrainJobs
    /\ record \in [TrainJobs -> Records \cup {Absent}]
    /\ tmp \in [TrainJobs -> Records \cup {Absent}]
    /\ refresh \in [Refreshers -> RefreshRows]
    /\ restarts \in 0 .. MaxRestarts

\* What an operator is told to validate was installed: whenever a job's record
\* says "validate" (_next_action), this very job's archive was once installed
\* by the service, whatever attempts timed out, whichever other job of the run
\* was uploading to the same incoming file, and however the status requests
\* that write the record interleaved; and a record that will not be refreshed
\* any more says what RunPod says.
ValidateIsInstalled ==
    \A j \in TrainJobs :
       /\ job[j].stage = "uploaded" => j \in installed
       /\ record[j] # Absent =>
             /\ record[j].next = "validate" => j \in installed
             /\ record[j].status \in Terminal => record[j] = RecordOf(j)

\* What is said of job j, in a record or on the way into one, holds of it from then on.
Said(text, j) ==
    /\ text.next = "validate" => j \in installed
    /\ text.status \in Terminal => text = RecordOf(j)

\* A request reads only what is true when it reads it, and what it read stays true until it
\* is published: an upload was accepted by installing it, and an ended job stays as it is.
RequestsSound ==
    /\ \A j \in TrainJobs : job[j].stage # "none" => job[j].run \in TrainRuns
    /\ \A q \in Uploads : /\ upload[q] # "none" => job[q[1]].stage # "none"
                          /\ upload[q] = "ok" => q[1] \in installed
    /\ \A j \in TrainJobs : tmp[j] # Absent => Said(tmp[j], j)
    /\ \A t \in Refreshers :
          /\ refresh[t].at # "idle" => refresh[t].job \in TrainJobs
          /\ refresh[t].at = "write" => refresh[t].got \in Records /\ Said(refresh[t].got, refresh[t].job)

\* Every job RunPod takes ends, uploaded or failed or killed: the handler
\* retries a lost or refused answer upload_retries times and no more.
EveryJobEnds ==
    \A j \in TrainJobs : job[j].stage = "IN_QUEUE" ~> job[j].stage \in Ended

\* Retraining: what the operator is told to validate was installed, whatever attempts timed
\* out and whoever else refreshed the record (service/routers/model_ops.py).
RetrainInv == RetrainTypeOK /\ ValidateIsInstalled /\ RequestsSound
=============================================================================
