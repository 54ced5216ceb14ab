----------------------------- MODULE ReviewJobs -----------------------------
(***************************************************************************)
(* The durable review-job queue ops.langgraph_jobs: callers submit and     *)
(* approve jobs, LangGraph workers claim a queued row, run the review and  *)
(* write its result back.  Each transaction of the store is one step, so a *)
(* worker can stop, or fail, between the claim, the review, the result     *)
(* update and the read of the row that process_claimed returns; an         *)
(* approval is a read in one transaction and an UPDATE in another.         *)
(***************************************************************************)
EXTENDS Naturals

CONSTANTS
    Jobs,          \* job ids that may be submitted
    Workers,       \* worker processes
    Approvers,     \* concurrent callers of approve
    NoOne,         \* NULL worker_id, approved_by, or no job in hand
    WorkerIds,     \* values of LANGGRAPH_WORKER_ID
    WorkerId,      \* the id each worker runs under; two workers may share one
    NeedsHuman,    \* jobs whose review stops for approval (state.needs_human)
    MaxAttempts,   \* the column default of max_attempts
    Faults         \* what may go wrong, a subset of AllFaults

(***************************************************************************)
(* review    run_review raises, or the result UPDATE is rolled back        *)
(* ack_lost  the result UPDATE commits, the client sees an exception       *)
(* snapshot  the read of the row after the committed result raises         *)
(* mark      mark_failed cannot reach the database                         *)
(* crash     the worker process dies                                       *)
(***************************************************************************)
AllFaults == {"review", "ack_lost", "snapshot", "mark", "crash"}

ASSUME ReviewNoOneAssumption == NoOne \notin Jobs \cup Workers \cup WorkerIds \cup Approvers
ASSUME ReviewWorkerAssumption == WorkerId \in [Workers -> WorkerIds]
ASSUME ReviewSetsAssumption == NeedsHuman \subseteq Jobs
ASSUME ReviewBoundAssumption == MaxAttempts \in Nat \ {0} /\ Faults \subseteq AllFaults

VARIABLES
    row,       \* per job: its row of ops.langgraph_jobs
    wpc,       \* per worker: where run_once stands
    hold,      \* per worker: the job it claimed
    reading    \* per approver: the job whose row passed approve's check

jvars == <<row, wpc, hold, reading>>

Statuses == {"absent", "queued", "running", "awaiting_approval", "succeeded", "dead_letter"}
Settled == {"awaiting_approval", "succeeded", "dead_letter"}

\* "absent" before the INSERT; ready says next_run_at <= now(); result says that some
\* review wrote result_payload.
Row == [status : Statuses, worker : WorkerIds \cup {NoOne}, attempts : 0..MaxAttempts, awaiting : BOOLEAN,
        approvedBy : Approvers \cup {NoOne}, ready : BOOLEAN, result : BOOLEAN]

NewRow == [status |-> "absent", worker |-> NoOne, attempts |-> 0, awaiting |-> FALSE,
           approvedBy |-> NoOne, ready |-> TRUE, result |-> FALSE]

(***************************************************************************)
(* wpc values: "down", "idle" (top of run_once), "claimed" (row returned   *)
(* by claim_job, review not stored), "stored" (result committed, snapshot  *)
(* to be read), "failing" (in the except branch, before mark_failed).      *)
(***************************************************************************)
Locations == {"down", "idle", "claimed", "stored", "failing"}

JobsInit ==
    /\ row = [j \in Jobs |-> NewRow]
    /\ wpc = [w \in Workers |-> "down"]
    /\ hold = [w \in Workers |-> NoOne]
    /\ reading = [a \in Approvers |-> NoOne]

MoveWorker(w, l) == wpc' = [wpc EXCEPT ![w] = l]

ReleaseWorker(w, l) == MoveWorker(w, l) /\ hold' = [hold EXCEPT ![w] = NoOne]

\* The UPDATEs of a worker carry WHERE job_id = j AND worker_id = its own id.
OwnedUpdate(w, j, new) == row' = IF row[j].worker = WorkerId[w] THEN [row EXCEPT ![j] = new] ELSE row

submit(j) ==
    /\ row[j].status = "absent"
    /\ row' = [row EXCEPT ![j].status = "queued"]
    /\ UNCHANGED <<wpc, hold, reading>>

(***************************************************************************)
(* Claims.  FOR UPDATE SKIP LOCKED lets a worker pass over an earlier row  *)
(* another transaction holds, so any claimable row may be the one taken.   *)
(***************************************************************************)

\* Mutant: a running job may be claimed again.
ClaimableRunningToo(j) == row[j].status \in {"queued", "running"} /\ row[j].attempts < MaxAttempts

\* Mutant: the last attempt of a job is never claimed.
ClaimableOnceLess(j) == row[j].status = "queued" /\ row[j].attempts < MaxAttempts - 1

Claimable(j) == row[j].status = "queued" /\ row[j].attempts < MaxAttempts

Claim(w, j) ==
    /\ wpc[w] = "idle"
    /\ Claimable(j)
    /\ row' = [row EXCEPT ![j].status = "running", ![j].worker = WorkerId[w], ![j].attempts = @ + 1]
    /\ hold' = [hold EXCEPT ![w] = j]
    /\ MoveWorker(w, "claimed")
    /\ UNCHANGED reading

\* run_once: claim_job without a job id waits for next_run_at.
claim_next_job(w, j) == row[j].ready /\ Claim(w, j)

\* process(job_id) does not look at next_run_at.
process(w, j) == ~row[j].ready /\ Claim(w, j)

\* Mutant: the store writes succeeded whatever the review says.
ResultStatusIgnoringHuman(j) == "succeeded"

ResultStatus(j) == IF j \in NeedsHuman THEN "awaiting_approval" ELSE "succeeded"

StoreResult(w, j) ==
    OwnedUpdate(w, j, [row[j] EXCEPT !.status = ResultStatus(j), !.awaiting = (j \in NeedsHuman), !.result = TRUE])

\* process_claimed: the review succeeds and its result is committed.
process_claimed(w) ==
    /\ wpc[w] = "claimed"
    /\ StoreResult(w, hold[w])
    /\ \/ MoveWorker(w, "stored")
       \/ "ack_lost" \in Faults /\ MoveWorker(w, "failing")
    /\ UNCHANGED <<hold, reading>>

\* The review raises (a stored payload it cannot read raises on every attempt), or the
\* result UPDATE is rolled back.
ReviewFails(w) ==
    /\ wpc[w] = "claimed"
    /\ "review" \in Faults
    /\ MoveWorker(w, "failing")
    /\ UNCHANGED <<row, hold, reading>>

\* snapshot(job_id), the last expression of the try block.
snapshot(w) ==
    /\ wpc[w] = "stored"
    /\ \/ ReleaseWorker(w, "idle")
       \/ "snapshot" \in Faults /\ MoveWorker(w, "failing") /\ UNCHANGED hold
    /\ UNCHANGED <<row, reading>>

\* Mutant: the attempts of a failed job are handed back.
FailedRowRefunded(j) ==
    IF row[j].attempts >= MaxAttempts
    THEN [row[j] EXCEPT !.status = "dead_letter"]
    ELSE [row[j] EXCEPT !.status = "queued", !.ready = FALSE, !.attempts = @ - 1]

\* Mutant: a status the CHECK constraint allows and no reader of the table expects.
FailedRowFailed(j) ==
    IF row[j].attempts >= MaxAttempts
    THEN [row[j] EXCEPT !.status = "failed"]
    ELSE [row[j] EXCEPT !.status = "queued", !.ready = FALSE]

\* Mutant: a failed job is parked although it has attempts left.
FailedRowParked(j) == [row[j] EXCEPT !.status = "dead_letter"]

\* The attempts compared are those of the claimed row, which nobody else changes.
\* awaiting_approval and result_payload keep what an earlier UPDATE wrote.
FailedRow(j) ==
    IF row[j].attempts >= MaxAttempts
    THEN [row[j] EXCEPT !.status = "dead_letter"]
    ELSE [row[j] EXCEPT !.status = "queued", !.ready = FALSE]

\* mark_failed, then the exception leaves main_loop and the process ends.
mark_failed(w) ==
    /\ wpc[w] = "failing"
    /\ \/ OwnedUpdate(w, hold[w], FailedRow(hold[w]))
       \/ "mark" \in Faults /\ UNCHANGED row
    /\ ReleaseWorker(w, "down")
    /\ UNCHANGED reading

\* next_run_at passes.
BackoffEnds(j) ==
    /\ row[j].status = "queued" /\ ~row[j].ready
    /\ row' = [row EXCEPT ![j].ready = TRUE]
    /\ UNCHANGED <<wpc, hold, reading>>

StartWorker(w) ==
    /\ wpc[w] = "down"
    /\ MoveWorker(w, "idle")
    /\ UNCHANGED <<row, hold, reading>>

\* The death of an idle worker changes nothing a restart does not undo.
CrashWorker(w) ==
    /\ "crash" \in Faults
    /\ hold[w] # NoOne
    /\ ReleaseWorker(w, "down")
    /\ UNCHANGED <<row, reading>>

(***************************************************************************)
(* approve.                                                                *)
(***************************************************************************)

\* Mutant: approve does not look at awaiting_approval.
MayApproveAny(j) == row[j].status # "absent"

MayApprove(j) == row[j].status # "absent" /\ row[j].awaiting

ApproveReads(a, j) ==
    /\ reading[a] = NoOne
    /\ MayApprove(j)
    /\ reading' = [reading EXCEPT ![a] = j]
    /\ UNCHANGED <<row, wpc, hold>>

\* UPDATE ... WHERE job_id only.
ApproveWrites(a) ==
    /\ reading[a] # NoOne
    /\ row' = [row EXCEPT ![reading[a]].status = "succeeded", ![reading[a]].awaiting = FALSE,
                          ![reading[a]].approvedBy = a]
    /\ reading' = [reading EXCEPT ![a] = NoOne]
    /\ UNCHANGED <<wpc, hold>>

WorkerStep(w) ==
    \/ \E j \in Jobs : claim_next_job(w, j)
    \/ process_claimed(w) \/ ReviewFails(w) \/ snapshot(w) \/ mark_failed(w)

JobsNext ==
    \/ \E j \in Jobs : submit(j) \/ BackoffEnds(j)
    \/ \E w \in Workers : WorkerStep(w) \/ StartWorker(w) \/ CrashWorker(w) \/ \E j \in Jobs : process(w, j)
    \/ \E a \in Approvers : ApproveWrites(a) \/ \E j \in Jobs : ApproveReads(a, j)

JobsSpec == JobsInit /\ [][JobsNext]_jvars

(***************************************************************************)
(* The worker loop keeps running, backoffs end, and a worker that left     *)
(* main_loop with an exception is started again.  Callers promise nothing. *)
(***************************************************************************)
JobsFairSpec ==
    /\ JobsSpec
    /\ \A w \in Workers : WF_jvars(WorkerStep(w)) /\ WF_jvars(StartWorker(w))
    /\ \A j \in Jobs : WF_jvars(BackoffEnds(j))

(***************************************************************************)
(* Properties.                                                             *)
(***************************************************************************)

\* Type invariant of the job rows and of the processes' local state.
ReviewTypeOK ==
    /\ row \in [Jobs -> Row]
    /\ wpc \in [Workers -> Locations]
    /\ hold \in [Workers -> Jobs \cup {NoOne}]
    /\ reading \in [Approvers -> Jobs \cup {NoOne}]

\* While a worker is between its claim and its last update the row carries its attempt
\* and is in no other worker's hands, even when workers share a worker_id: the status
\* guard of claim_job, not the worker_id, is what keeps them apart.
OneWorkerPerJob ==
    /\ \A v, w \in Workers : v # w /\ hold[v] # NoOne => hold[v] # hold[w]
    /\ \A w \in Workers : hold[w] # NoOne =>
          /\ row[hold[w]].worker = WorkerId[w]
          /\ row[hold[w]].status # "queued"
          /\ row[hold[w]].attempts > 0

\* A job parked by mark_failed has really used all of its attempts, so dead_letter is
\* never the answer to a first failure.
DeadLetterIsExhausted == \A j \in Jobs : row[j].status = "dead_letter" => row[j].attempts = MaxAttempts

\* Whatever fails, is retried or re-queued, a job whose review asks for a human reaches
\* succeeded only through approve, and approve only ever follows a stored review.
NoSuccessWithoutApproval ==
    \A j \in Jobs :
        /\ row[j].status = "succeeded" /\ j \in NeedsHuman => row[j].approvedBy # NoOne
        /\ row[j].approvedBy # NoOne => row[j].result /\ j \in NeedsHuman

\* claim_job takes queued rows only, so nobody picks this job up again.
Abandoned(j) == row[j].status = "running" /\ \A w \in Workers : hold[w] # j

\* A queued job is settled in the end (answered, waiting for its approver, or parked)
\* unless its worker died, or could not reach the database, while it held the job.
SettlesOrAbandoned == \A j \in Jobs : row[j].status = "queued" ~> (row[j].status \in Settled \/ Abandoned(j))

\* The store makes "queued work durable ... for a separate worker container to claim":
\* every queued job is settled in the end.
EveryJobSettles == \A j \in Jobs : row[j].status = "queued" ~> row[j].status \in Settled

\* Attempts are only ever spent: the retry budget cannot grow back, however often a
\* finished job is re-queued by a failed read.
AttemptsOnlyGrow == [][\A j \in Jobs : row'[j].attempts >= row[j].attempts]_jvars

\* What NoSuccessWithoutApproval rests on.
ApprovalInv ==
    /\ NoSuccessWithoutApproval
    /\ \A j \in Jobs : row[j].awaiting => row[j].result /\ j \in NeedsHuman
    /\ \A a \in Approvers : reading[a] # NoOne => row[reading[a]].result /\ reading[a] \in NeedsHuman
    /\ \A j \in Jobs : row[j].status = "awaiting_approval" => j \in NeedsHuman

\* What OneWorkerPerJob rests on: a worker has a job in hand exactly between its claim and its
\* last update, and a row nobody submitted is untouched.
HandsInv ==
    /\ \A w \in Workers : hold[w] # NoOne <=> wpc[w] \in {"claimed", "stored", "failing"}
    /\ \A j \in Jobs : row[j].status = "absent" => row[j].worker = NoOne

\* The job store: a job is in one worker's hands, is parked only when its attempts are used
\* up, and a review that asks for a human succeeds through approve only (postgres_jobs.py).
ReviewInv == ReviewTypeOK /\ HandsInv /\ OneWorkerPerJob /\ DeadLetterIsExhausted /\ ApprovalInv
=============================================================================
