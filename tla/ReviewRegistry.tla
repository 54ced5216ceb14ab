--------------------------- MODULE ReviewRegistry ---------------------------
(***************************************************************************)
(* The in-memory review registry behind the API (workflow/review_jobs.py,  *)
(* service/api.py): chat requests are answered inline or registered,       *)
(* threads of the server run and approve registered jobs.  The registry is *)
(* a module-level object without a lock, so two threads can be inside      *)
(* process or approve for the same record; each step below is one stretch  *)
(* of a handler between which another thread can run.                      *)
(***************************************************************************)
EXTENDS ReviewRouting

CONSTANTS
    Requests,    \* the requests clients send
    JobIds,      \* ids _next_id hands out
    Threads      \* server threads

ASSUME RegistryAssumption == Requests \subseteq Request /\ Unset \notin JobIds \cup Threads

VARIABLES
    record,   \* per job id: the ReviewRecord, or Unset
    asked,    \* the client's request; records never influence one another
    inline,   \* TRUE once that request was answered inline
    thread    \* per thread: the handler it is in and its job

gvars == <<record, asked, inline, thread>>

IdleThread == [at |-> "idle", job |-> Unset]

RegistryInit ==
    /\ record = [j \in JobIds |-> Unset]
    /\ asked \in Requests
    /\ inline = FALSE
    /\ thread = [t \in Threads |-> IdleThread]

Enter(t, l, j) == thread[t] = IdleThread /\ thread' = [thread EXCEPT ![t] = [at |-> l, job |-> j]]
Leave(t) == thread' = [thread EXCEPT ![t] = IdleThread]

\* Mutant: the decision is not copied, so the record keeps the dataclass defaults.
NewRecordDefaulted(r) == [request |-> r, route |-> classify_route(r), request_type |-> "query",
                          agent_route |-> "rag", status |-> "queued", awaiting |-> FALSE,
                          approvedBy |-> Unset, response |-> Unset]

NewRecord(r) == [request |-> r, route |-> classify_route(r), request_type |-> classify_request_type(r),
                 agent_route |-> classify_agent_route(r), status |-> "queued", awaiting |-> FALSE,
                 approvedBy |-> Unset, response |-> Unset]

\* registry_submit: quick_answer is the only inline route.
registry_submit ==
    /\ IF classify_route(asked) = "quick_answer"
       THEN inline' = TRUE /\ UNCHANGED record
       ELSE /\ \E j \in JobIds : record[j] = Unset /\ record' = [record EXCEPT ![j] = NewRecord(asked)]
            /\ UNCHANGED inline
    /\ UNCHANGED <<asked, thread>>

\* process, up to run_review: any registered job, whatever its status.
ProcessStarts(t, j) ==
    /\ record[j] # Unset
    /\ Enter(t, "process", j)
    /\ record' = [record EXCEPT ![j].status = "running"]
    /\ UNCHANGED <<asked, inline>>

\* The request the worker reviews: the context keys it lacks get the record's values.
ReviewedRequest(rec) ==
    [rec.request EXCEPT !.request_type = IF @ = Unset THEN rec.request_type ELSE @,
                        !.agent_route = IF @ = Unset THEN rec.agent_route ELSE @]

\* Mutant: the status the durable store would write.
StoredStatusDurable(resp) == IF resp.needs_human THEN "awaiting_approval" ELSE "succeeded"

StoredStatus(resp) == IF resp.needs_human THEN "running" ELSE "succeeded"

\* process, after run_review.
ProcessEnds(t) ==
    /\ thread[t].at = "process"
    /\ LET j == thread[t].job
           resp == run_review(ReviewedRequest(record[j]))
       IN  record' = [record EXCEPT ![j].response = resp, ![j].awaiting = resp.needs_human,
                                    ![j].status = StoredStatus(resp)]
    /\ Leave(t)
    /\ UNCHANGED <<asked, inline>>

RegistryMayApprove(j) == record[j] # Unset /\ record[j].awaiting

ApproveChecks(t, j) ==
    /\ RegistryMayApprove(j)
    /\ Enter(t, "approve", j)
    /\ UNCHANGED <<record, asked, inline>>

ApproveSets(t) ==
    /\ thread[t].at = "approve"
    /\ LET j == thread[t].job
       IN  record' = [record EXCEPT ![j].approvedBy = t, ![j].awaiting = FALSE, ![j].status = "succeeded"]
    /\ Leave(t)
    /\ UNCHANGED <<asked, inline>>

RegistryNext ==
    \/ registry_submit
    \/ \E t \in Threads : \/ ProcessEnds(t) \/ ApproveSets(t)
                          \/ \E j \in JobIds : ProcessStarts(t, j) \/ ApproveChecks(t, j)

RegistrySpec == RegistryInit /\ [][RegistryNext]_gvars

(***************************************************************************)
(* Properties.                                                             *)
(***************************************************************************)

Registered == {j \in JobIds : record[j] # Unset}

\* Type invariant of the registry.
RegistryTypeOK ==
    /\ \A j \in Registered : record[j].request = asked /\ record[j].status \in {"queued", "running", "succeeded"}
    /\ thread \in [Threads -> {IdleThread} \cup [at : {"process", "approve"}, job : JobIds]]

\* A request that asks for approval: a side-effect word or flag, and no explicit hint or
\* context key that overrides the rules.
AsksApproval(r) ==
    /\ r.route_hint = Unset /\ r.request_type = Unset
    /\ "approval" \in r.cues \/ "requires_approval" \in r.flags

\* Side-effect cues win over every other cue: such a request is never answered inline,
\* and however its runs and approvals interleave it succeeds only with an approver.
ApprovalGateHolds ==
    /\ inline => ~AsksApproval(asked)
    /\ \A j \in Registered : /\ record[j].status = "succeeded"
                             /\ AsksApproval(record[j].request)
                             => record[j].approvedBy # Unset

\* The worker classifies the request a second time, with the first decision in its
\* context: it lands on the ticket's route, except that QA may turn evidence into a shell.
RouteIsStable ==
    \A j \in Registered : record[j].response # Unset =>
        \/ record[j].response.route = record[j].route
        \/ record[j].route = "evidence_answer" /\ record[j].response.route = "report_shell"
           /\ assess_qa(record[j].request) = "blocked"

\* The durable worker and the API run different engines: they give the same answer.
EnginesAgree ==
    Answer(run_review(asked)) = Answer(run_review_skeleton(asked))

\* "Deterministic orchestrator mirroring the LangGraph topology": run_review and the
\* graph make_langgraph builds answer alike.
GraphMirrorsReview ==
    Answer(make_langgraph_skeleton(asked)) = Answer(run_review_skeleton(asked))
=============================================================================
