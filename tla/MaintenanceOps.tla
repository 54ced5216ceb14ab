--------------------------- MODULE MaintenanceOps ---------------------------
(***************************************************************************)
(* The maintenance side of the service API: background anomaly detection   *)
(* (service/routers/anomalies.py), the cached equipment diagnosis and the  *)
(* work orders (service/routers/cms.py).                                   *)
(*                                                                         *)
(* Ticks are the hours anomalies are recorded at, TicksPerDay of them make *)
(* a day.  Detection calls run on background threads, diagnosis requests   *)
(* on request threads; both stop at every call that leaves the process.    *)
(***************************************************************************)
EXTENDS Integers, FiniteSets, FiniteSetsExt

CONSTANTS Detections,    \* POST /anomalies/run calls
          JobIdOf,       \* job_id of each call: period and second of the call
          Askers,        \* requests for a diagnosis
          Orders,        \* work orders
          LastTick, TicksPerDay,
          WindowTicks,   \* window_days of the diagnosis
          MaxWindBacks   \* bound on moving the simulation clock backwards

ASSUME MaintenanceAssumption ==
    /\ LastTick \in Nat \ {0} /\ TicksPerDay \in Nat \ {0} /\ WindowTicks \in Nat \ {0}
    /\ MaxWindBacks \in Nat

Ticks == 1..LastTick
Day(t) == (t - 1) \div TicksPerDay
DetectionIds == {JobIdOf[c] : c \in Detections}
NoStatus == [status |-> "not_found", total |-> 0, error |-> FALSE]
NoAnswer == [anchor |-> 0, total |-> 0]
NoOrder == [status |-> "absent", resolved |-> FALSE]

VARIABLES anomaly,      \* ticks of the rows of ops.legacy_anomaly, unique by (timestamp, meter_id)
          clock,        \* [now, back]: the simulation clock and how often it was moved back
          call,         \* per detection call: pc, the flagged ticks, what was inserted
          run_status,   \* _run_status: job id -> what GET /run/status answers
          diag_cache,   \* _diag_cache: day of the anchor -> cached diagnosis
          diagnosis,          \* per asker: pc, what it read, what it was answered
          work_order    \* ops.work_order
mvars == <<anomaly, clock, call, run_status, diag_cache, diagnosis, work_order>>

MaintenanceInit ==
    /\ anomaly = {} /\ clock = [now |-> 1, back |-> 0]
    /\ call = [c \in Detections |-> [pc |-> "idle", flagged |-> {}, inserted |-> 0]]
    /\ run_status = [j \in DetectionIds |-> NoStatus]
    /\ diag_cache = [d \in {Day(t) : t \in Ticks} |-> NoAnswer]
    /\ diagnosis = [a \in Askers |-> [pc |-> "idle", read |-> NoAnswer, day |-> 0, answer |-> NoAnswer]]
    /\ work_order = [o \in Orders |-> NoOrder]

\* The clock of the simulator runs, and may be sought or reset to an earlier time.
ClockMoves == /\ \E t \in Ticks : /\ t = clock.now + 1 \/ (t < clock.now /\ clock.back < MaxWindBacks)
                                  /\ clock' = [now |-> t, back |-> IF t < clock.now THEN clock.back + 1 ELSE clock.back]
              /\ UNCHANGED <<anomaly, call, run_status, diag_cache, diagnosis, work_order>>

-----------------------------------------------------------------------------
(* Detection                                                               *)

Status(c, r) == run_status' = [run_status EXCEPT ![JobIdOf[c]] = r]
Step(c, pc) == call' = [call EXCEPT ![c].pc = pc]

run_detection(c) ==
    /\ call[c].pc = "idle"
    /\ Status(c, [NoStatus EXCEPT !.status = "queued"]) /\ Step(c, "queued")
    /\ UNCHANGED anomaly

\* _do_detection up to the load; a missing model module raises at once.
StartDetection(c) ==
    /\ call[c].pc = "queued"
    /\ \/ Status(c, [run_status[JobIdOf[c]] EXCEPT !.status = "running"]) /\ Step(c, "load")
       \/ Status(c, [run_status[JobIdOf[c]] EXCEPT !.status = "error", !.error = TRUE]) /\ Step(c, "end")
    /\ UNCHANGED anomaly

\* load_range and predict_anomaly, each within a timeout; an empty answer ends the job.
LoadAndPredict(c) ==
    /\ call[c].pc = "load"
    /\ \/ Status(c, [run_status[JobIdOf[c]] EXCEPT !.status = "error", !.error = TRUE]) /\ Step(c, "end")
       \/ Status(c, [run_status[JobIdOf[c]] EXCEPT !.status = "done", !.total = 0]) /\ Step(c, "end")
       \/ /\ \E F \in SUBSET Ticks : call' = [call EXCEPT ![c].pc = "save", ![c].flagged = F]
          /\ UNCHANGED run_status
    /\ UNCHANGED anomaly

\* rowcount of the inserts; when it is 0 the code answers the number of flagged rows.
Inserted(flagged, rows) == LET new == Cardinality(flagged \ rows)
                           IN  IF new = 0 THEN Cardinality(flagged) ELSE new

\* Mutant: the rows are committed one by one, so that a failing insert leaves part of them.
save_residual_results_piecemeal(c) ==
    /\ call[c].pc = "save"
    /\ \E F \in SUBSET call[c].flagged :
         /\ anomaly' = anomaly \cup F
         /\ call' = [call EXCEPT ![c].pc = "publish", ![c].inserted = Inserted(F, anomaly)]
    /\ UNCHANGED run_status
\* _save_residual_results: one transaction; a failure is recorded and counted as nothing inserted.
save_residual_results(c) ==
    /\ call[c].pc = "save"
    /\ \/ /\ anomaly' = anomaly \cup call[c].flagged
          /\ call' = [call EXCEPT ![c].pc = "publish", ![c].inserted = Inserted(call[c].flagged, anomaly)]
          /\ UNCHANGED run_status
       \/ /\ Status(c, [run_status[JobIdOf[c]] EXCEPT !.error = TRUE])
          /\ Step(c, "publish") /\ UNCHANGED anomaly

\* The final update keeps an "error" recorded before it.
PublishStatus(c) ==
    /\ call[c].pc = "publish"
    /\ Status(c, [run_status[JobIdOf[c]] EXCEPT !.status = "done", !.total = call[c].inserted])
    /\ Step(c, "end") /\ UNCHANGED anomaly

DetectionStep(c) == \/ run_detection(c) \/ StartDetection(c) \/ LoadAndPredict(c)
                    \/ save_residual_results(c) \/ PublishStatus(c)

-----------------------------------------------------------------------------
(* Diagnosis                                                               *)

\* _anchor_now: the simulation time, not later than the newest anomaly.
Anchor == IF anomaly = {} THEN clock.now ELSE Min({clock.now, Max(anomaly)})

\* _gather_anomalies over the window that ends at the anchor.
Total(anchor) == Cardinality({t \in anomaly : t > anchor - WindowTicks /\ t <= anchor})

\* Mutant: the cache key is the equipment alone.
cache_key_undated(anchor) == 0
cache_key(anchor) == Day(anchor)

\* run_diagnosis reads the rows, then answers from the cache unless regenerate is set.
run_diagnosis(a) ==
    /\ diagnosis[a].pc = "idle"
    /\ \E regenerate \in BOOLEAN :
         LET now == [anchor |-> Anchor, total |-> Total(Anchor)]
             cached == diag_cache[cache_key(Anchor)]
         IN  IF ~regenerate /\ cached # NoAnswer
             THEN diagnosis' = [diagnosis EXCEPT ![a] = [@ EXCEPT !.day = Day(Anchor), !.answer = cached]]
             ELSE diagnosis' = [diagnosis EXCEPT ![a] = [@ EXCEPT !.pc = "llm", !.read = now]]
    /\ UNCHANGED diag_cache

\* The language model answered or the fallback text is used: the result is cached and returned.
Diagnosed(a) ==
    /\ diagnosis[a].pc = "llm"
    /\ diag_cache' = [diag_cache EXCEPT ![cache_key(diagnosis[a].read.anchor)] = diagnosis[a].read]
    /\ diagnosis' = [diagnosis EXCEPT ![a] = [pc |-> "idle", read |-> NoAnswer, day |-> Day(@.read.anchor), answer |-> @.read]]

-----------------------------------------------------------------------------
(* Work orders                                                             *)

insert_work_order(o) ==
    /\ work_order[o] = NoOrder
    /\ work_order' = [work_order EXCEPT ![o] = [status |-> "open", resolved |-> FALSE]]

\* Mutant: reopening an order keeps the time it was resolved at.
update_work_order_keeping_time(o) ==
    /\ work_order[o] # NoOrder
    /\ \E s \in {"open", "in_progress", "done"} :
         work_order' = [work_order EXCEPT ![o] = [status |-> s, resolved |-> @.resolved \/ s = "done"]]
\* Any of the three states may follow any other; resolved_at is set with done and cleared with the rest.
update_work_order(o) ==
    /\ work_order[o] # NoOrder
    /\ \E s \in {"open", "in_progress", "done"} :
         work_order' = [work_order EXCEPT ![o] = [status |-> s, resolved |-> s = "done"]]

\* The process restarts: background jobs, their statuses and the cache are gone, the tables stay.
ServiceRestart ==
    /\ \E c \in Detections : call[c].pc \notin {"idle", "end"}
    /\ call' = [c \in Detections |-> IF call[c].pc = "idle" THEN call[c] ELSE [call[c] EXCEPT !.pc = "end"]]
    /\ run_status' = [j \in DetectionIds |-> NoStatus]
    /\ diag_cache' = [d \in DOMAIN diag_cache |-> NoAnswer]
    /\ diagnosis' = [a \in Askers |-> [diagnosis[a] EXCEPT !.pc = "idle"]]
    /\ UNCHANGED <<anomaly, clock, work_order>>

MaintenanceNext ==
    \/ ClockMoves
    \/ \E c \in Detections : DetectionStep(c) /\ UNCHANGED <<clock, diag_cache, diagnosis, work_order>>
    \/ \E a \in Askers : (run_diagnosis(a) \/ Diagnosed(a)) /\ UNCHANGED <<anomaly, clock, call, run_status, work_order>>
    \/ \E o \in Orders : (insert_work_order(o) \/ update_work_order(o))
                         /\ UNCHANGED <<anomaly, clock, call, run_status, diag_cache, diagnosis>>
    \/ ServiceRestart
MaintenanceSpec == MaintenanceInit /\ [][MaintenanceNext]_mvars

-----------------------------------------------------------------------------
\* A job that GET /run/status calls done without an error has all its flagged hours in
\* ops.legacy_anomaly, whatever other jobs, restarts and failed inserts did meanwhile.
DoneMeansStored ==
    \A c \in Detections :
      call[c].pc = "end" /\ run_status[JobIdOf[c]].status = "done" /\ ~run_status[JobIdOf[c]].error
        => call[c].flagged \subseteq anomaly

\* The total a job reports is never more than what it flagged, and is 0 only if that is nothing.
TotalOfTheJob ==
    \A c \in Detections :
      LET s == run_status[JobIdOf[c]] IN
      call[c].pc = "end" /\ s.status = "done" /\ ~s.error
        => s.total <= Cardinality(call[c].flagged) /\ (s.total = 0 <=> call[c].flagged = {})

\* A diagnosis is answered for the day it was asked about, although it may come from the cache, and
\* it counts only anomalies that are recorded.
DiagnosisOfItsDay ==
    \A a \in Askers : diagnosis[a].answer # NoAnswer =>
      /\ Day(diagnosis[a].answer.anchor) = diagnosis[a].day
      /\ diagnosis[a].answer.total <= Total(diagnosis[a].answer.anchor)

\* An order has a resolution time exactly while it is done.
DoneIsResolved == \A o \in Orders : work_order[o].resolved <=> work_order[o].status = "done"

\* What the maintenance endpoints answer agrees with the tables they answer from
\* (anomalies.py:396-520, cms.py:285-416, cms.py:805-831).
MaintenanceInv == DoneMeansStored /\ TotalOfTheJob /\ DiagnosisOfItsDay /\ DoneIsResolved

=============================================================================
