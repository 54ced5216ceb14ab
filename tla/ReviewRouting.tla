--------------------------- MODULE ReviewRouting ----------------------------
(***************************************************************************)
(* How a chat request is routed and reviewed: the classifier shared by the *)
(* API and the graphs (contracts/agent.py), the QA gate, the two           *)
(* deterministic review engines (langgraph/skeleton.py, used by the        *)
(* durable worker, and langgraph/review.py, used by the in-memory store)   *)
(* and the LangGraph topologies each of them also builds.                  *)
(*                                                                         *)
(* A text is reduced to its cues, the keyword tables it matches; a context *)
(* to the keys the rules look at.                                          *)
(***************************************************************************)
EXTENDS FiniteSets

CONSTANT Unset       \* an absent hint, context key or result field

RequestTypes == {"query", "action_request", "approval_required", "off_topic"}
AgentRoutes == {"anomaly", "cms", "forecast", "report", "rag"}
ChatRoutes == {"quick_answer", "evidence_answer", "needs_job", "approval_required", "report_shell"}
EvidenceAgents == {"anomaly", "cms", "forecast"}

\* One cue per keyword table; meter markers only choose between two spellings of "rag".
Cues == {"approval", "action", "off_topic", "forecast", "cms", "anomaly", "report", "job", "job_action",
         "evidence", "intent"}

\* Truthy context keys; "evidence" stands for any of EVIDENCE_CONTEXT_KEYS.
Flags == {"requires_approval", "action_request", "off_topic", "needs_job", "qa_blocked", "evidence"}

Request == [cues : SUBSET Cues, flags : SUBSET Flags, request_type : RequestTypes \cup {Unset},
            agent_route : AgentRoutes \cup {Unset}, route_hint : ChatRoutes \cup {Unset},
            coverage : {"none", "low", "enough"}, failed : BOOLEAN]

(***************************************************************************)
(* contracts/agent.py                                                      *)
(***************************************************************************)

\* Mutant: an off-topic word is looked at before the approval words.
classify_request_type_off_topic_first(r) ==
    IF r.request_type # Unset THEN r.request_type
    ELSE IF "off_topic" \in r.cues \cup r.flags THEN "off_topic"
    ELSE IF "approval" \in r.cues \/ "requires_approval" \in r.flags THEN "approval_required"
    ELSE IF "action" \in r.cues \/ "action_request" \in r.flags THEN "action_request"
    ELSE "query"

classify_request_type(r) ==
    IF r.request_type # Unset THEN r.request_type
    ELSE IF "approval" \in r.cues \/ "requires_approval" \in r.flags THEN "approval_required"
    ELSE IF "action" \in r.cues \/ "action_request" \in r.flags THEN "action_request"
    ELSE IF "off_topic" \in r.cues \cup r.flags THEN "off_topic"
    ELSE "query"

classify_agent_route(r) ==
    LET rt == classify_request_type(r)
    IN  IF r.agent_route # Unset THEN r.agent_route
        ELSE IF rt \in {"action_request", "approval_required"} THEN "cms"
        ELSE IF rt = "off_topic" THEN "rag"
        ELSE IF "forecast" \in r.cues THEN "forecast"
        ELSE IF "cms" \in r.cues THEN "cms"
        ELSE IF "anomaly" \in r.cues THEN "anomaly"
        ELSE IF "report" \in r.cues THEN "report"
        ELSE "rag"

\* A measurement word asks for evidence unless the text orders a job and asks nothing.
WantsEvidence(r) ==
    LET domain == classify_agent_route(r) \in EvidenceAgents
    IN  /\ domain \/ "evidence" \in r.cues \cup r.flags
        /\ domain \/ "intent" \in r.cues \/ "job_action" \notin r.cues

classify_route(r) ==
    LET rt == classify_request_type(r)
    IN  IF r.route_hint # Unset THEN r.route_hint
        ELSE IF rt = "approval_required" THEN "approval_required"
        ELSE IF "qa_blocked" \in r.flags THEN "report_shell"
        ELSE IF rt = "off_topic" THEN "quick_answer"
        ELSE IF rt = "action_request" THEN "needs_job"
        ELSE IF WantsEvidence(r) THEN "evidence_answer"
        ELSE IF "job" \in r.cues \/ "needs_job" \in r.flags THEN "needs_job"
        ELSE "quick_answer"

\* The QA gate of both engines.
assess_qa(r) ==
    IF "qa_blocked" \in r.flags \/ r.failed THEN "blocked"
    ELSE IF r.coverage = "low" THEN "warn" ELSE "pass"

(***************************************************************************)
(* GraphState, cut down to what the response discloses.  The nodes.        *)
(***************************************************************************)
ReviewStart(r) == [route |-> classify_route(r), qa |-> Unset, evidence |-> FALSE, report |-> FALSE,
             job |-> FALSE, human |-> FALSE]

qa_gate_node(s, r) == [s EXCEPT !.qa = assess_qa(r)]
evidence_node(s, r) == [s EXCEPT !.qa = IF @ = Unset THEN assess_qa(r) ELSE @, !.evidence = TRUE]
report_draft_node(s) == [s EXCEPT !.report = TRUE]
approval_node(s) == [s EXCEPT !.human = TRUE]
job_node(s) == [s EXCEPT !.job = TRUE]
\* Mutant: only a report shell is registered.
api_register_node_shell_only(s) == IF ~s.job /\ s.route = "report_shell" THEN job_node(s) ELSE s

api_register_node(s) == IF ~s.job /\ s.route \in {"needs_job", "report_shell"} THEN job_node(s) ELSE s

\* build_response / finalize_node.
finalize_node(s) ==
    [route |-> s.route, qa_status |-> s.qa, evidence |-> s.evidence,
     report_shell |-> s.report /\ s.route = "report_shell", needs_human |-> s.human, job_ref |-> s.job]

\* Both run_review functions turn a blocked evidence request into a report shell.
Demoted(s) == [s EXCEPT !.route = "report_shell"]

\* langgraph/skeleton.py, the engine of the durable worker.
run_review_skeleton(r) ==
    LET s == ReviewStart(r)
        q == qa_gate_node(s, r)
    IN  finalize_node(
          CASE s.route = "approval_required" -> approval_node(s)
            [] s.route = "needs_job" -> job_node(s)
            [] s.route = "report_shell" -> report_draft_node(s)
            [] s.route = "evidence_answer" ->
                 IF q.qa = "blocked" THEN report_draft_node(Demoted(q)) ELSE evidence_node(q, r)
            [] OTHER -> s)

\* langgraph/review.py, the engine of the in-memory store.
run_review(r) ==
    LET s == ReviewStart(r)
        q == qa_gate_node(s, r)
    IN  finalize_node(
          CASE s.route = "quick_answer" -> s
            [] s.route = "evidence_answer" ->
                 IF q.qa = "blocked" THEN report_draft_node(Demoted(q)) ELSE evidence_node(q, r)
            [] s.route = "report_shell" -> report_draft_node(q)
            [] s.route = "approval_required" -> approval_node(q)
            [] s.route = "needs_job" ->
                 IF q.qa = "blocked" THEN api_register_node(q) ELSE api_register_node(job_node(q)))

\* The StateGraph of langgraph/skeleton.py: no node on the blocked edge changes the route.
make_langgraph_skeleton(r) ==
    LET s == ReviewStart(r)
        q == qa_gate_node(s, r)
    IN  finalize_node(
          CASE s.route = "approval_required" -> approval_node(s)
            [] s.route = "needs_job" -> job_node(s)
            [] s.route = "report_shell" -> report_draft_node(s)
            [] s.route = "evidence_answer" -> IF q.qa = "blocked" THEN report_draft_node(q) ELSE evidence_node(q, r)
            [] OTHER -> s)

\* The fields both engines must agree on: review.py runs the QA gate on every job route,
\* so qa_status is not one of them.
Answer(resp) == <<resp.route, resp.evidence, resp.report_shell, resp.needs_human, resp.job_ref>>
=============================================================================
