----------------------------- MODULE MCServices -----------------------------
(***************************************************************************)
(* The long-running services: the review job store and its workers, the    *)
(* simulator's monitor, report generation, and the connection pool of the  *)
(* API.  They share neither tables nor locks, so a behaviour moves the one *)
(* that part names while the others stay in their initial states.          *)
(*                                                                         *)
(* Two jobs, one of which needs a human, and two workers under the default *)
(* shared worker_id; days of two hours and a clock that gains one hour or, *)
(* faster than the monitor's cap, three; report days of four slots; two    *)
(* requests that each want two of two connections.                         *)
(***************************************************************************)
EXTENDS ReviewJobs, SimulatorMonitor, ReportGeneration, ConnectionPool

CONSTANTS j1, j2, w1, w2, a1, a2, sharedId, q1, q2

VARIABLE part

MCWorkerId == [w \in Workers |-> sharedId]

servicevars == <<part, jvars, mvars, pvars, poolvars>>

ServicesInit ==
    /\ part \in {"review", "monitor", "report", "pool"}
    /\ JobsInit /\ MonitorInit /\ ReportInit /\ PoolInit

ReviewMoves == part = "review" /\ JobsNext /\ UNCHANGED <<part, mvars, pvars, poolvars>>
MonitorMoves == part = "monitor" /\ MonitorNext /\ UNCHANGED <<part, jvars, pvars, poolvars>>
ReportMoves == part = "report" /\ ReportNext /\ UNCHANGED <<part, jvars, mvars, poolvars>>
PoolMoves == part = "pool" /\ PoolNext /\ UNCHANGED <<part, jvars, mvars, pvars>>

ServicesNext == ReviewMoves \/ MonitorMoves \/ ReportMoves \/ PoolMoves

\* The fairness of each component, for the behaviours that move it.
ServicesFairness ==
    /\ \A w \in Workers : WF_jvars(part = "review" /\ WorkerStep(w)) /\ WF_jvars(part = "review" /\ StartWorker(w))
    /\ \A j \in Jobs : WF_jvars(part = "review" /\ BackoffEnds(j))
    /\ WF_mvars(part = "monitor" /\ TimePasses) /\ WF_mvars(part = "monitor" /\ WorkerMoves)
    /\ WF_pvars(part = "report" /\ ReportProgress)
    /\ \A r \in PoolRequests : WF_poolvars(part = "pool" /\ RequestStep(r))

ServicesSpec == ServicesInit /\ [][ServicesNext]_servicevars /\ ServicesFairness

-----------------------------------------------------------------------------
\* A queued job is settled or, its worker lost while holding it, abandoned (postgres_jobs.py).
QueuedJobsEnd == part = "review" => SettlesOrAbandoned

\* A control decision is evaluated in the end, once, even if it is overwritten while the
\* evaluation is under way (routers/simulator.py, routers/control.py).
DecisionsJudgedOnce == OutcomeOnce /\ (part = "monitor" => DecisionIsEvaluated)

\* Every day whose schedule fires is reported although attempts fail (report_readiness_airflow.py).
EveryFiredDayReported == part = "report" => EveryDayReported

\* Requests that need two connections out of a pool that is used up are all answered (db.py).
PoolAnswersAll == part = "pool" => EveryRequestAnswered
=============================================================================
