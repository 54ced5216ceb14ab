--------------------------- MODULE ComponentProofs ---------------------------
(***************************************************************************)
(* Proofs about what a client's request may do: the review API and its     *)
(* registry (api.py, langgraph routing), the chat service (chat.py), the   *)
(* detection, diagnosis and work order endpoints (anomalies.py, cms.py)    *)
(* and the gated serving call (model_serving_pipeline.py).  Each part has  *)
(* an inductive invariant of its own, named ...Sound, that says where a    *)
(* request is and what it may already have written.  At the end, the       *)
(* invariants of MCComponents, for these parts and those of DataProofs.    *)
(***************************************************************************)
EXTENDS MCComponents, DataProofs

(***************************************************************************)
(* The review registry.  Every record carries the decision the handler     *)
(* took when it registered the job; the worker classifies the request      *)
(* again with that decision in its context, and finds the same one         *)
(* (SameDecision).  So approval is never skipped between the two.          *)
(***************************************************************************)

\* The classifier always answers with one of its names.
LEMMA RoutesAreRoutes ==
    ASSUME NEW r \in Request
    PROVE  classify_route(r) \in ChatRoutes
BY DEF Request, classify_route, ChatRoutes

\* The graph of the worker reads the ticket's decision as it was taken: with the record's values in
\* the context every classifier returns what it returned for the bare request.
LEMMA SameDecision ==
    ASSUME NEW r \in Request, NEW rec, rec.request = r,
           rec.request_type = classify_request_type(r), rec.agent_route = classify_agent_route(r)
    PROVE  /\ classify_route(ReviewedRequest(rec)) = classify_route(r)
           /\ assess_qa(ReviewedRequest(rec)) = assess_qa(r)
<1> DEFINE v == ReviewedRequest(rec)
<1>1. /\ v.cues = r.cues /\ v.flags = r.flags /\ v.route_hint = r.route_hint
      /\ v.coverage = r.coverage /\ v.failed = r.failed
      /\ v.request_type = IF r.request_type = Unset THEN classify_request_type(r) ELSE r.request_type
      /\ v.agent_route = IF r.agent_route = Unset THEN classify_agent_route(r) ELSE r.agent_route
    BY DEF Request, ReviewedRequest
<1> HIDE DEF v
<1>2. classify_request_type(v) = classify_request_type(r)
    BY <1>1 DEF classify_request_type
<1>3. classify_agent_route(v) = classify_agent_route(r)
    BY <1>1, <1>2 DEF classify_agent_route
<1>4. WantsEvidence(v) <=> WantsEvidence(r) BY <1>1, <1>3 DEF WantsEvidence
<1>5. classify_route(v) = classify_route(r) BY <1>1, <1>2, <1>4 DEF classify_route
<1> QED BY <1>1, <1>5 DEF v, assess_qa

\* The state of the graph, and what its nodes make of the part of it that the answer shows.
StateFields == {"route", "qa", "evidence", "report", "job", "human"}

\* Each node sets its own field and leaves the others alone.
LEMMA QaGateNode ==
    ASSUME NEW s, DOMAIN s = StateFields, NEW r
    PROVE  /\ qa_gate_node(s, r).route = s.route
           /\ qa_gate_node(s, r).evidence = s.evidence
           /\ qa_gate_node(s, r).report = s.report
           /\ qa_gate_node(s, r).job = s.job
           /\ qa_gate_node(s, r).human = s.human
           /\ qa_gate_node(s, r).qa = assess_qa(r)
           /\ DOMAIN qa_gate_node(s, r) = StateFields
BY DEF qa_gate_node, StateFields

\* evidence_node marks the answer as backed by evidence; the demotion of its route is the caller's.
LEMMA EvidenceNode ==
    ASSUME NEW s, DOMAIN s = StateFields, NEW r
    PROVE  /\ evidence_node(s, r).route = s.route
           /\ evidence_node(s, r).evidence = TRUE
           /\ evidence_node(s, r).report = s.report
           /\ evidence_node(s, r).job = s.job
           /\ evidence_node(s, r).human = s.human
           /\ DOMAIN evidence_node(s, r) = StateFields
BY DEF evidence_node, StateFields

\* report_draft_node drafts the report.
LEMMA DraftNode ==
    ASSUME NEW s, DOMAIN s = StateFields
    PROVE  /\ report_draft_node(s).route = s.route
           /\ report_draft_node(s).evidence = s.evidence
           /\ report_draft_node(s).report = TRUE
           /\ report_draft_node(s).job = s.job
           /\ report_draft_node(s).human = s.human
           /\ DOMAIN report_draft_node(s) = StateFields
BY DEF report_draft_node, StateFields

\* approval_node asks for a human.
LEMMA ApprovalNode ==
    ASSUME NEW s, DOMAIN s = StateFields
    PROVE  /\ approval_node(s).route = s.route
           /\ approval_node(s).evidence = s.evidence
           /\ approval_node(s).report = s.report
           /\ approval_node(s).job = s.job
           /\ approval_node(s).human = TRUE
           /\ DOMAIN approval_node(s) = StateFields
BY DEF approval_node, StateFields

\* job_node files the job.
LEMMA JobNode ==
    ASSUME NEW s, DOMAIN s = StateFields
    PROVE  /\ job_node(s).route = s.route
           /\ job_node(s).evidence = s.evidence
           /\ job_node(s).report = s.report
           /\ job_node(s).job = TRUE
           /\ job_node(s).human = s.human
           /\ DOMAIN job_node(s) = StateFields
BY DEF job_node, StateFields

\* A blocked evidence answer becomes a report and keeps the rest.
LEMMA DemotedNode ==
    ASSUME NEW s, DOMAIN s = StateFields
    PROVE  /\ Demoted(s).route = "report_shell"
           /\ Demoted(s).evidence = s.evidence
           /\ Demoted(s).report = s.report
           /\ Demoted(s).job = s.job
           /\ Demoted(s).human = s.human
           /\ DOMAIN Demoted(s) = StateFields
BY DEF Demoted, StateFields

\* The start of every review: nothing done on the route of the request.
LEMMA StartState ==
    ASSUME NEW r
    PROVE  /\ ReviewStart(r).route = classify_route(r) /\ ReviewStart(r).evidence = FALSE
           /\ ReviewStart(r).report = FALSE /\ ReviewStart(r).job = FALSE /\ ReviewStart(r).human = FALSE
           /\ DOMAIN ReviewStart(r) = StateFields
<1>1. /\ ReviewStart(r).route = classify_route(r) /\ ReviewStart(r).evidence = FALSE
      /\ ReviewStart(r).report = FALSE /\ ReviewStart(r).job = FALSE /\ ReviewStart(r).human = FALSE
    BY Zenon DEF ReviewStart
<1>2. DOMAIN ReviewStart(r) = StateFields BY DEF ReviewStart, StateFields
<1> QED BY <1>1, <1>2, Zenon

\* finalize_node discloses these fields, so that equal ones give equal answers.
LEMMA Disclosed ==
    ASSUME NEW x, NEW y, x.route = y.route, x.evidence = y.evidence, x.report = y.report, x.job = y.job, x.human = y.human
    PROVE  /\ finalize_node(x).route = x.route /\ finalize_node(x).needs_human = x.human
           /\ Answer(finalize_node(x)) = Answer(finalize_node(y))
<1>1. \A v : Answer(finalize_node(v)) = <<v.route, v.evidence, v.report /\ v.route = "report_shell", v.human, v.job>>
    BY Zenon DEF Answer, finalize_node
<1>2. finalize_node(x).route = x.route /\ finalize_node(x).needs_human = x.human BY Zenon DEF finalize_node
<1>3. Answer(finalize_node(x)) = Answer(finalize_node(y)) BY <1>1, Zenon
<1> QED BY <1>2, <1>3, Zenon

\* What run_review answers, by the route of the request.
LEMMA ReviewAnswer ==
    ASSUME NEW r, classify_route(r) \in ChatRoutes
    PROVE  /\ run_review(r).needs_human = (classify_route(r) = "approval_required")
           /\ \/ run_review(r).route = classify_route(r)
              \/ /\ classify_route(r) = "evidence_answer" /\ run_review(r).route = "report_shell"
                 /\ assess_qa(r) = "blocked"
           /\ Answer(run_review(r)) = Answer(run_review_skeleton(r))
<1> DEFINE route == classify_route(r)
           s == ReviewStart(r)
           q == qa_gate_node(s, r)
           d == report_draft_node(Demoted(q))
           e == evidence_node(q, r)
<1>1. s.route = route /\ s.evidence = FALSE /\ s.report = FALSE /\ s.job = FALSE /\ s.human = FALSE /\ DOMAIN s = StateFields
    BY StartState, Zenon
<1>2. /\ q.route = s.route /\ q.evidence = s.evidence /\ q.report = s.report /\ q.job = s.job /\ q.human = s.human
      /\ q.qa = assess_qa(r) /\ DOMAIN q = StateFields
    BY <1>1, QaGateNode, Zenon
<1> HIDE DEF s, q, route
<1>h. ASSUME NEW x, NEW y, run_review(r) = finalize_node(x), run_review_skeleton(r) = finalize_node(y),
             x.route = y.route, x.evidence = y.evidence, x.report = y.report, x.job = y.job, x.human = y.human
      PROVE  /\ run_review(r).route = x.route /\ run_review(r).needs_human = x.human
             /\ Answer(run_review(r)) = Answer(run_review_skeleton(r))
    BY <1>h, Disclosed, Zenon
<1>3. CASE route = "quick_answer"
    <2>1. run_review(r) = finalize_node(s) /\ run_review_skeleton(r) = finalize_node(s)
        BY <1>1, <1>3 DEF run_review, run_review_skeleton, s
    <2> QED BY <2>1, <1>h, <1>1, <1>3, Zenon DEF route
<1>4. CASE route = "evidence_answer" /\ assess_qa(r) = "blocked"
    <2>1. run_review(r) = finalize_node(d) /\ run_review_skeleton(r) = finalize_node(d)
        BY <1>1, <1>2, <1>4 DEF run_review, run_review_skeleton, s, q
    <2>2. Demoted(q).route = "report_shell" /\ Demoted(q).human = q.human /\ DOMAIN Demoted(q) = StateFields
        BY <1>2, DemotedNode, Zenon
    <2>3. d.route = Demoted(q).route /\ d.human = Demoted(q).human BY <2>2, DraftNode, Zenon
    <2> HIDE DEF d
    <2> QED BY <2>1, <2>2, <2>3, <1>1, <1>2, <1>h, <1>4, Zenon DEF route
<1>5. CASE route = "evidence_answer" /\ assess_qa(r) # "blocked"
    <2>1. run_review(r) = finalize_node(e) /\ run_review_skeleton(r) = finalize_node(e)
        BY <1>1, <1>2, <1>5 DEF run_review, run_review_skeleton, s, q
    <2>2. e.route = q.route /\ e.human = q.human BY <1>2, EvidenceNode, Zenon
    <2> HIDE DEF e
    <2> QED BY <2>1, <2>2, <1>1, <1>2, <1>h, <1>5, Zenon DEF route
<1>6. CASE route = "report_shell"
    <2> DEFINE x == report_draft_node(q)
               y == report_draft_node(s)
    <2>1. run_review(r) = finalize_node(x) /\ run_review_skeleton(r) = finalize_node(y)
        BY <1>1, <1>2, <1>6 DEF run_review, run_review_skeleton, s, q
    <2>2. /\ x.route = q.route /\ x.evidence = q.evidence /\ x.report = TRUE /\ x.job = q.job /\ x.human = q.human
          /\ y.route = s.route /\ y.evidence = s.evidence /\ y.report = TRUE /\ y.job = s.job /\ y.human = s.human
        BY <1>1, <1>2, DraftNode, Zenon
    <2> HIDE DEF x, y
    <2> QED BY <2>1, <2>2, <1>h, <1>1, <1>2, <1>6, Zenon DEF route
<1>7. CASE route = "approval_required"
    <2> DEFINE x == approval_node(q)
               y == approval_node(s)
    <2>1. run_review(r) = finalize_node(x) /\ run_review_skeleton(r) = finalize_node(y)
        BY <1>1, <1>2, <1>7 DEF run_review, run_review_skeleton, s, q
    <2>2. /\ x.route = q.route /\ x.evidence = q.evidence /\ x.report = q.report /\ x.job = q.job /\ x.human = TRUE
          /\ y.route = s.route /\ y.evidence = s.evidence /\ y.report = s.report /\ y.job = s.job /\ y.human = TRUE
        BY <1>1, <1>2, ApprovalNode, Zenon
    <2> HIDE DEF x, y
    <2> QED BY <2>1, <2>2, <1>h, <1>1, <1>2, <1>7, Zenon DEF route
<1>8. CASE route = "needs_job"
    <2> DEFINE x == job_node(q)
               y == job_node(s)
    <2>1. /\ x.route = q.route /\ x.evidence = q.evidence /\ x.report = q.report /\ x.job = TRUE /\ x.human = q.human
          /\ y.route = s.route /\ y.evidence = s.evidence /\ y.report = s.report /\ y.job = TRUE /\ y.human = s.human
        BY <1>1, <1>2, JobNode, Zenon
    <2>2. api_register_node(q) = x /\ api_register_node(x) = x BY <1>8, <1>1, <1>2, <2>1 DEF api_register_node
    <2> HIDE DEF x, y
    <2>3. run_review(r) = finalize_node(x) /\ run_review_skeleton(r) = finalize_node(y)
        BY <1>1, <1>2, <1>8, <2>2 DEF run_review, run_review_skeleton, s, q, x, y
    <2> QED BY <2>1, <2>3, <1>h, <1>1, <1>2, <1>8, Zenon DEF route
<1> QED BY <1>3, <1>4, <1>5, <1>6, <1>7, <1>8 DEF ChatRoutes, route

\* What the records of a behaviour look like: all of the one request, with its decisions.
RegistryRecords ==
    [request : {asked}, route : {classify_route(asked)}, request_type : {classify_request_type(asked)},
     agent_route : {classify_agent_route(asked)}, status : {"queued", "running", "succeeded"},
     awaiting : BOOLEAN, approvedBy : Threads \cup {Unset},
     response : {Unset, run_review(ReviewedRequest(NewRecord(asked)))}]

\* A job succeeds with an approver unless nothing asked for one.
GoodRecord(rec) ==
    /\ rec \in RegistryRecords
    /\ rec.status = "succeeded" /\ AsksApproval(asked) => rec.approvedBy # Unset

\* Threads are only ever in a handler for a registered job.
RegistrySound ==
    /\ asked \in Requests
    /\ record \in [JobIds -> {Unset} \cup RegistryRecords]
    /\ \A j \in JobIds : record[j] = Unset \/ GoodRecord(record[j])
    /\ thread \in [Threads -> {IdleThread} \cup [at : {"process", "approve"}, job : JobIds]]
    /\ \A t \in Threads : thread[t].at \in {"process", "approve"} =>
            thread[t].job \in JobIds /\ GoodRecord(record[thread[t].job])
    /\ inline => ~AsksApproval(asked)

\* A request for an approval is routed to it, whatever hint or cue it carries with it.
LEMMA ApprovalRoute ==
    ASSUME NEW r, AsksApproval(r)
    PROVE  classify_route(r) = "approval_required"
BY DEF AsksApproval, classify_route, classify_request_type

\* The answer of the worker keeps the route of the ticket (SameDecision), or is the one demotion.
LEMMA RegistrySoundEnough ==
    ASSUME RegistrySound
    PROVE  RegistryTypeOK /\ ApprovalGateHolds /\ RouteIsStable /\ EnginesAgree
<1> DEFINE n == NewRecord(asked)
           v == ReviewedRequest(n)
<1>0. asked \in Request BY RegistryAssumption DEF RegistrySound
<1>1. n.request = asked /\ n.request_type = classify_request_type(asked) /\ n.agent_route = classify_agent_route(asked)
    BY DEF NewRecord
<1>2. classify_route(v) = classify_route(asked) /\ assess_qa(v) = assess_qa(asked) BY <1>0, <1>1, SameDecision
<1>3. classify_route(asked) \in ChatRoutes BY <1>0, RoutesAreRoutes
<1>4. \/ run_review(v).route = classify_route(asked)
      \/ classify_route(asked) = "evidence_answer" /\ run_review(v).route = "report_shell" /\ assess_qa(asked) = "blocked"
    BY <1>2, <1>3, ReviewAnswer
<1>5. EnginesAgree BY <1>3, ReviewAnswer DEF EnginesAgree
<1>6. RegistryTypeOK BY DEF RegistrySound, RegistryTypeOK, GoodRecord, RegistryRecords, Registered
<1>7. ApprovalGateHolds BY DEF RegistrySound, ApprovalGateHolds, GoodRecord, RegistryRecords, Registered
<1>8. RouteIsStable BY <1>4 DEF RegistrySound, RouteIsStable, GoodRecord, RegistryRecords, Registered
<1> QED BY <1>5, <1>6, <1>7, <1>8

\* The registry starts empty.
LEMMA RegistryStarts == RegistryInit => RegistrySound
BY DEF RegistryInit, RegistrySound, IdleThread

\* Every handler of the registry, at every place where another thread may run, keeps it sound.
LEMMA RegistryStep == RegistrySound /\ [RegistryNext]_gvars => RegistrySound'
<1> SUFFICES ASSUME RegistrySound, [RegistryNext]_gvars PROVE RegistrySound'
    OBVIOUS
<1>a. asked \in Request BY RegistryAssumption DEF RegistrySound
<1>b. asked' = asked
    BY DEF RegistryNext, registry_submit, ProcessStarts, ProcessEnds, ApproveChecks, ApproveSets, gvars
<1>c. RegistryRecords' = RegistryRecords /\ \A rec : GoodRecord(rec)' <=> GoodRecord(rec)
    BY <1>b DEF RegistryRecords, GoodRecord
<1>1. ASSUME registry_submit PROVE RegistrySound'
    <2>1. CASE classify_route(asked) = "quick_answer"
        <3>1. ~AsksApproval(asked) BY <2>1, ApprovalRoute
        <3> QED BY <1>1, <1>b, <1>c, <2>1, <3>1 DEF registry_submit, RegistrySound
    <2>2. CASE classify_route(asked) # "quick_answer"
        <3>1. PICK j \in JobIds : record[j] = Unset /\ record' = [record EXCEPT ![j] = NewRecord(asked)]
            BY <1>1, <2>2 DEF registry_submit
        <3>2. GoodRecord(NewRecord(asked)) BY DEF GoodRecord, RegistryRecords, NewRecord
        <3>3. UNCHANGED <<inline, thread>> BY <1>1, <2>2 DEF registry_submit
        <3> QED BY <1>b, <1>c, <3>1, <3>2, <3>3 DEF RegistrySound, GoodRecord
    <2> QED BY <2>1, <2>2
<1>2. ASSUME NEW t \in Threads, NEW j \in JobIds, ProcessStarts(t, j) PROVE RegistrySound'
    <2>1. GoodRecord(record[j]) BY <1>2 DEF ProcessStarts, RegistrySound
    <2>2. GoodRecord([record[j] EXCEPT !.status = "running"]) BY <2>1 DEF GoodRecord, RegistryRecords
    <2>3. record' = [record EXCEPT ![j] = [record[j] EXCEPT !.status = "running"]] BY <1>2 DEF ProcessStarts
    <2>4. thread' = [thread EXCEPT ![t] = [at |-> "process", job |-> j]] /\ inline' = inline BY <1>2 DEF ProcessStarts, Enter
    <2> QED BY <1>b, <1>c, <2>2, <2>3, <2>4 DEF RegistrySound, GoodRecord
<1>3. ASSUME NEW t \in Threads, ProcessEnds(t) PROVE RegistrySound'
    <2> DEFINE j == thread[t].job
               resp == run_review(ReviewedRequest(record[j]))
               new == [record[j] EXCEPT !.response = resp, !.awaiting = resp.needs_human, !.status = StoredStatus(resp)]
    <2>1. j \in JobIds /\ GoodRecord(record[j]) BY <1>3 DEF ProcessEnds, RegistrySound
    <2>2. record[j].request = asked /\ record[j].request_type = classify_request_type(asked)
          /\ record[j].agent_route = classify_agent_route(asked)
        BY <2>1 DEF GoodRecord, RegistryRecords
    <2>3. ReviewedRequest(record[j]) = ReviewedRequest(NewRecord(asked))
        BY <2>2 DEF ReviewedRequest, NewRecord
    <2>4. resp.needs_human = (classify_route(asked) = "approval_required")
        BY <1>a, <2>2, SameDecision, RoutesAreRoutes, ReviewAnswer
    <2>5. GoodRecord(new)
        <3>1. StoredStatus(resp) \in {"running", "succeeded"}
              /\ (StoredStatus(resp) = "succeeded" => ~resp.needs_human)
            BY DEF StoredStatus
        <3>2. resp.needs_human \in BOOLEAN BY <2>4
        <3>3. AsksApproval(asked) => StoredStatus(resp) # "succeeded" BY <2>4, <3>1, ApprovalRoute
        <3> HIDE DEF resp, j
        <3>4. new.status = StoredStatus(resp) /\ new \in RegistryRecords
            BY <2>1, <2>3, <3>1, <3>2 DEF GoodRecord, RegistryRecords, resp
        <3> QED BY <3>3, <3>4 DEF GoodRecord
    <2>6. record' = [record EXCEPT ![j] = new] BY <1>3 DEF ProcessEnds
    <2>7. thread' = [thread EXCEPT ![t] = IdleThread] /\ inline' = inline BY <1>3 DEF ProcessEnds, Leave
    <2> HIDE DEF new, j
    <2> QED BY <1>b, <1>c, <2>1, <2>5, <2>6, <2>7 DEF RegistrySound, GoodRecord, IdleThread
<1>4. ASSUME NEW t \in Threads, NEW j \in JobIds, ApproveChecks(t, j) PROVE RegistrySound'
    <2>1. GoodRecord(record[j]) BY <1>4 DEF ApproveChecks, RegistryMayApprove, RegistrySound
    <2>2. thread' = [thread EXCEPT ![t] = [at |-> "approve", job |-> j]] /\ UNCHANGED <<record, inline>>
        BY <1>4 DEF ApproveChecks, Enter
    <2> QED BY <1>b, <1>c, <2>1, <2>2 DEF RegistrySound
<1>5. ASSUME NEW t \in Threads, ApproveSets(t) PROVE RegistrySound'
    <2> DEFINE j == thread[t].job
               new == [record[j] EXCEPT !.approvedBy = t, !.awaiting = FALSE, !.status = "succeeded"]
    <2>1. j \in JobIds /\ GoodRecord(record[j]) BY <1>5 DEF ApproveSets, RegistrySound
    <2>2. GoodRecord(new) BY <2>1, RegistryAssumption DEF GoodRecord, RegistryRecords
    <2>3. record' = [record EXCEPT ![j] = new] BY <1>5 DEF ApproveSets
    <2>4. thread' = [thread EXCEPT ![t] = IdleThread] /\ inline' = inline BY <1>5 DEF ApproveSets, Leave
    <2> HIDE DEF new, j
    <2> QED BY <1>b, <1>c, <2>1, <2>2, <2>3, <2>4 DEF RegistrySound, GoodRecord, IdleThread
<1>6. CASE UNCHANGED gvars BY <1>6, <1>b, <1>c DEF gvars, RegistrySound
<1> QED BY <1>1, <1>2, <1>3, <1>4, <1>5, <1>6 DEF RegistryNext

\* No approval is skipped on any interleaving of handlers and workers, a review keeps the route
\* it was registered with, and the graph and its skeleton answer alike (api.py, graph.py).
THEOREM ReviewsKeepTheirRoute ==
    RegistrySpec => [](RegistryTypeOK /\ ApprovalGateHolds /\ RouteIsStable /\ EnginesAgree)
<1> QED
  BY RegistryStarts, RegistryStep, RegistrySoundEnough, PTL DEF RegistrySpec

(***************************************************************************)
(* The chat service.  The counter of a session is updated with the row it  *)
(* counts; an answer is saved only by a request whose question was saved   *)
(* or is known to be missed; the graph acts only for an approved question. *)
(* Deletions may happen between any two steps of a request.                *)
(***************************************************************************)

\* The graph performs nothing for a question that was not approved, and leaves one of three intents.
LEMMA EffectNeedsApproval ==
    ASSUME NEW q \in Questions, NEW env \in Surroundings
    PROVE  /\ Invoke(q, env).intent \in {"", "cms", "off_topic"}
           /\ Invoke(q, env).effect = "none" \/ (Invoke(q, env).effect \in {"work_order", "simulator"} /\ q.approved)
<1> DEFINE type == rule_classify_request_type(q)
           route == classify_chat_route(q, env.word)
           run == agent_run(route, q, env)
<1>1. route \in Routes
    <2>1. rule_classify_route(q) \in Routes \cup {"none"} BY DEF rule_classify_route, Axes, Routes
    <2> QED BY <2>1 DEF classify_chat_route, Routes
<1>2. run.effect = "none" \/ (run.effect \in {"work_order", "simulator"} /\ q.approved)
    <2> HIDE DEF route
    <2>1. CASE route = "cms"
        BY <2>1 DEF agent_run, cms_run, CmsAction, side_effects_enabled
    <2>2. CASE route = "forecast" BY <2>2 DEF agent_run, forecast_run, Marked, TextOf
    <2>3. CASE route = "anomaly" BY <2>3 DEF agent_run, anomaly_run, Marked, TextOf
    <2>4. CASE route = "report" BY <2>4 DEF agent_run, report_run, TextOf
    <2>5. CASE route = "rag" BY <2>5 DEF agent_run, rag_run, TextOf
    <2> QED BY <1>1, <2>1, <2>2, <2>3, <2>4, <2>5 DEF Routes, Axes
<1> HIDE DEF run
<1>3. CASE type = "off_topic" BY <1>3 DEF Invoke
<1>4. CASE type \in {"action_request", "approval_required"} BY <1>4 DEF Invoke
<1>5. CASE type \notin {"off_topic", "action_request", "approval_required"}
    BY <1>2, <1>5 DEF Invoke, run
<1> QED BY <1>3, <1>4, <1>5

AskFields == {"pc", "session", "first", "stream", "q", "gone", "missed", "intent", "answer", "by"}
ChatIntents == {"", "cms", "off_topic"}

\* A request that has begun stays with its session and question; its answer follows its question.
AskSound(a) ==
    /\ DOMAIN ask[a] = AskFields
    /\ ask[a].pc \in {"new", "save_question", "invoke", "answer", "done"}
    /\ ask[a].pc = "new" => ask[a] = NoAsk
    /\ ask[a].pc # "new" => ask[a].session \in Sessions /\ ask[a].q \in Questions
    /\ ask[a].intent \in ChatIntents
    /\ deletes = 0 /\ ask[a].pc \in {"invoke", "answer"} /\ ~ ask[a].missed =>
          \E k \in 1 .. Len(message) : message[k].role = "user" /\ message[k].ask = a

ChatRows == {GoneRow} \cup [session : Sessions, role : {"user", "assistant"}, ask : Asks, intent : ChatIntents]

ChatSound ==
    /\ session \in [Sessions -> {NoSession} \cup [count : Nat, intent : ChatIntents]]
    /\ message \in Seq(ChatRows)
    /\ DOMAIN ask = Asks /\ \A a \in Asks : AskSound(a)
    /\ performed \subseteq Asks \X {"work_order", "simulator"}
    /\ deletes \in 0 .. MaxDeletes
    /\ CountsMatchRows
    /\ AnswerHasQuestion
    /\ \A i \in 1 .. Len(message) : message[i] = GoneRow \/ ask[message[i].ask].pc # "new"
    /\ \A p \in performed : ask[p[1]].pc # "new" /\ ask[p[1]].q.approved

\* A deleted row has no role.
LEMMA GoneRole == GoneRow.role = "gone"
BY DEF GoneRow

\* What the clients see follows.
LEMMA ChatSoundEnough == ChatSound => ChatTypeOK /\ CountsMatchRows /\ AnswerHasQuestion /\ EffectsApproved
<1> SUFFICES ASSUME ChatSound PROVE ChatTypeOK /\ EffectsApproved BY DEF ChatSound
<1>1. \A i \in DOMAIN message : message[i] = GoneRow \/ (message[i].session \in Sessions /\ message[i].ask \in Asks)
    BY DEF ChatSound, ChatRows
<1>2. \A a \in Asks : ask[a].pc \in {"new", "save_question", "invoke", "answer", "done"} BY DEF ChatSound, AskSound
<1> QED BY <1>1, <1>2 DEF ChatSound, ChatTypeOK, EffectsApproved, ChatIntents

\* The chat starts without sessions.
LEMMA ChatStarts == ChatInit => ChatSound
<1> SUFFICES ASSUME ChatInit PROVE ChatSound OBVIOUS
<1>1. message = <<>> /\ Len(message) = 0 /\ DOMAIN message = {} /\ message \in Seq(ChatRows) BY DEF ChatInit
<1>2. \A s : RowsOfSession(s) = {} BY <1>1 DEF RowsOfSession
<1>3. CountsMatchRows BY <1>2, FS_EmptySet DEF CountsMatchRows, ChatInit
<1>4. ASSUME NEW a \in Asks PROVE AskSound(a)
    <2>1. ask[a] = NoAsk BY DEF ChatInit
    <2>2. DOMAIN NoAsk = AskFields /\ NoAsk.pc = "new" /\ NoAsk.intent = "" BY DEF NoAsk, AskFields
    <2> QED BY <2>1, <2>2 DEF AskSound, ChatIntents
<1>5. AnswerHasQuestion BY <1>1 DEF AnswerHasQuestion
<1> QED BY <1>1, <1>3, <1>4, <1>5, ChatOptionsAssumption DEF ChatSound, ChatInit

\* A new row is the last one and adds one to the rows of its session.
LEMMA RowAdded ==
    ASSUME NEW row, message \in Seq(ChatRows), row \in ChatRows, message' = Append(message, row)
    PROVE  /\ message' \in Seq(ChatRows) /\ Len(message') = Len(message) + 1 /\ message'[Len(message) + 1] = row
           /\ \A i \in 1 .. Len(message) : message'[i] = message[i]
           /\ \A s : RowsOfSession(s)' = IF row.session = s THEN RowsOfSession(s) \cup {Len(message) + 1} ELSE RowsOfSession(s)
<1>1. /\ message' \in Seq(ChatRows) /\ Len(message') = Len(message) + 1 /\ message'[Len(message) + 1] = row
      /\ \A i \in 1 .. Len(message) : message'[i] = message[i]
    OBVIOUS
<1>2. DOMAIN message' = 1 .. (Len(message) + 1) /\ DOMAIN message = 1 .. Len(message) /\ Len(message) \in Nat BY <1>1
<1>3. ASSUME NEW s PROVE RowsOfSession(s)' = IF row.session = s THEN RowsOfSession(s) \cup {Len(message) + 1} ELSE RowsOfSession(s)
    <2>1. \A i : i \in DOMAIN message' <=> i \in DOMAIN message \/ i = Len(message) + 1 BY <1>2
    <2>2. ~ (Len(message) + 1 \in DOMAIN message) BY <1>2
    <2>3. \A i : i \in RowsOfSession(s)' <=> (i \in DOMAIN message' /\ message'[i].session = s) BY DEF RowsOfSession
    <2>4. \A i : i \in RowsOfSession(s) <=> (i \in DOMAIN message /\ message[i].session = s) BY DEF RowsOfSession
    <2>5. \A i \in DOMAIN message : message'[i] = message[i] BY <1>1, <1>2
    <2>6. CASE row.session = s BY <2>6, <2>1, <2>2, <2>3, <2>4, <2>5, <1>1
    <2>7. CASE row.session # s
        <3>1. \A i : i \in RowsOfSession(s)' <=> i \in RowsOfSession(s) BY <2>7, <2>1, <2>2, <2>3, <2>4, <2>5, <1>1
        <3>2. RowsOfSession(s)' = RowsOfSession(s) BY <3>1, Zenon DEF RowsOfSession
        <3> QED BY <2>7, <3>2
    <2> QED BY <2>6, <2>7
<1> QED BY <1>1, <1>3

\* The rows of a session are finitely many, and the next id is not one of them.
LEMMA RowsFinite ==
    ASSUME message \in Seq(ChatRows), NEW s
    PROVE  IsFiniteSet(RowsOfSession(s)) /\ Cardinality(RowsOfSession(s)) \in Nat
           /\ Cardinality(RowsOfSession(s) \cup {Len(message) + 1}) = Cardinality(RowsOfSession(s)) + 1
<1>1. RowsOfSession(s) \subseteq 1 .. Len(message) /\ Len(message) \in Nat BY DEF RowsOfSession
<1>a. IsFiniteSet(1 .. Len(message)) BY <1>1, FS_Interval
<1>2. IsFiniteSet(RowsOfSession(s)) BY <1>1, <1>a, FS_Subset
<1>3. ~ (Len(message) + 1 \in RowsOfSession(s)) BY <1>1
<1> QED BY <1>2, <1>3, FS_AddElement, FS_CardinalityType

\* Saving a row with its count, in one transaction, keeps the counts right.
LEMMA CountKept ==
    ASSUME ChatSound, NEW row \in ChatRows, message' = Append(message, row), row.session \in Sessions,
           session' \in [Sessions -> {NoSession} \cup [count : Nat, intent : ChatIntents]],
           session'[row.session] # NoSession,
           session'[row.session].count = (IF session[row.session] = NoSession THEN 0 ELSE session[row.session].count) + 1,
           \A s \in Sessions \ {row.session} : session'[s] = session[s]
    PROVE  CountsMatchRows'
<1> SUFFICES ASSUME NEW s \in Sessions
             PROVE  Cardinality(RowsOfSession(s)') = IF session'[s] = NoSession THEN 0 ELSE session'[s].count
    BY DEF CountsMatchRows
<1>0. message \in Seq(ChatRows) BY DEF ChatSound
<1>1. Cardinality(RowsOfSession(s)) = IF session[s] = NoSession THEN 0 ELSE session[s].count BY DEF ChatSound, CountsMatchRows
<1>2. CASE s = row.session
    <2>1. RowsOfSession(s)' = RowsOfSession(s) \cup {Len(message) + 1} BY <1>0, <1>2, RowAdded
    <2>2. Cardinality(RowsOfSession(s)') = Cardinality(RowsOfSession(s)) + 1 BY <1>0, <2>1, RowsFinite
    <2> QED BY <1>1, <1>2, <2>2
<1>3. CASE s # row.session
    <2>1. RowsOfSession(s)' = RowsOfSession(s) BY <1>0, <1>3, RowAdded
    <2> QED BY <1>1, <1>3, <2>1
<1> QED BY <1>2, <1>3

\* What other requests leave alone.
LEMMA OtherAsk ==
    ASSUME NEW a \in Asks, AskSound(a), ask'[a] = ask[a], deletes' = deletes,
           message \in Seq(ChatRows), message' = message \/ \E row \in ChatRows : message' = Append(message, row)
    PROVE  AskSound(a)'
<1>1. \A k \in 1 .. Len(message) : k \in 1 .. Len(message') /\ message'[k] = message[k]
    <2>1. CASE message' = message BY <2>1
    <2>2. ASSUME NEW row \in ChatRows, message' = Append(message, row) PROVE <1>1
        <3>1. Len(message') = Len(message) + 1 /\ \A i \in 1 .. Len(message) : message'[i] = message[i] BY <2>2, RowAdded
        <3> QED BY <3>1
    <2> QED BY <2>1, <2>2
<1> QED BY <1>1 DEF AskSound

\* One request moves on without touching the tables.
LEMMA AskMoves ==
    ASSUME ChatSound, NEW a \in Asks, NEW r, ask' = [ask EXCEPT ![a] = r], UNCHANGED <<session, message, deletes>>,
           AskSound(a)', r.pc # "new", ask[a].missed => r.missed \/ ask[a].pc = "new",
           performed' = performed \/ \E e \in {"work_order", "simulator"} : performed' = performed \cup {<<a, e>>} /\ r.q.approved,
           ask[a].pc = "new" \/ r.q = ask[a].q
    PROVE  ChatSound'
<1>1. DOMAIN ask' = Asks /\ ask'[a] = r /\ \A b \in Asks \ {a} : ask'[b] = ask[b] BY DEF ChatSound
<1>2. \A b \in Asks : AskSound(b)' BY <1>1, OtherAsk DEF ChatSound
<1>3. performed' \subseteq Asks \X {"work_order", "simulator"} BY DEF ChatSound
<1>4. \A b \in Asks : ask[b].pc # "new" => ask'[b].pc # "new" BY <1>1
<1>5. CountsMatchRows' BY DEF ChatSound, CountsMatchRows, RowsOfSession
<1>6. \A i \in 1 .. Len(message') : message'[i] = GoneRow \/ ask'[message'[i].ask].pc # "new"
    BY <1>4 DEF ChatSound, ChatRows
<1>7. AnswerHasQuestion'
    <2> SUFFICES ASSUME deletes = 0, NEW i \in DOMAIN message, message[i].role = "assistant", ~ ask'[message[i].ask].missed
                 PROVE  \E k \in 1 .. i - 1 : message[k].role = "user" /\ message[k].ask = message[i].ask
        BY DEF AnswerHasQuestion
    <2>1. message[i] # GoneRow BY GoneRole
    <2>2. message[i].ask \in Asks /\ ask[message[i].ask].pc # "new" BY <2>1 DEF ChatSound, ChatRows
    <2>3. ~ ask[message[i].ask].missed
        <3>1. CASE message[i].ask = a BY <1>1, <2>2, <3>1, Zenon
        <3>2. CASE message[i].ask # a
            <4>1. ask'[message[i].ask] = ask[message[i].ask] BY <1>1, <2>2, <3>2
            <4> QED BY <4>1, Zenon
        <3> QED BY <3>1, <3>2
    <2> QED BY <2>3 DEF ChatSound, AnswerHasQuestion
<1>8. \A p \in performed' : ask'[p[1]].pc # "new" /\ ask'[p[1]].q.approved
    <2>1. ASSUME NEW p \in performed PROVE ask'[p[1]].pc # "new" /\ ask'[p[1]].q.approved
        <3>1. p[1] \in Asks /\ ask[p[1]].pc # "new" /\ ask[p[1]].q.approved BY DEF ChatSound
        <3> QED BY <3>1, <1>1
    <2>2. ASSUME NEW e, performed' = performed \cup {<<a, e>>}, r.q.approved PROVE \A p \in performed' : ask'[p[1]].pc # "new" /\ ask'[p[1]].q.approved
        BY <2>1, <2>2, <1>1
    <2> QED BY <2>1, <2>2
<1> QED BY <1>1, <1>2, <1>3, <1>5, <1>6, <1>7, <1>8 DEF ChatSound

\* The fields of a request after a change of some of them.
LEMMA ChatAsked ==
    ASSUME ChatSound, NEW a \in Asks, NEW s \in Sessions, NEW q \in Questions, NEW first \in BOOLEAN, NEW stream \in BOOLEAN,
           chat(a, s, q, first, stream)
    PROVE  ChatSound'
<1> DEFINE r == [NoAsk EXCEPT !.pc = "save_question", !.session = s, !.q = q, !.first = first, !.stream = stream]
<1>1. DOMAIN r = AskFields /\ r.pc = "save_question" /\ r.session = s /\ r.q = q /\ r.intent = ""
    BY DEF NoAsk, AskFields
<1>2. ask' = [ask EXCEPT ![a] = r] /\ ask[a].pc = "new" /\ UNCHANGED <<session, message, performed, deletes>>
    BY DEF chat, AskAt
<1> HIDE DEF r
<1>3. ask'[a] = r BY <1>2 DEF ChatSound
<1>4. AskSound(a)' BY <1>1, <1>3 DEF AskSound, ChatIntents
<1> QED BY <1>1, <1>2, <1>4, AskMoves

\* A question that could not be saved is remembered as missed.
LEMMA QuestionLost == ASSUME ChatSound, NEW a \in Asks, save_user_message_fails(a) PROVE ChatSound'
<1> DEFINE r == [ask[a] EXCEPT !.pc = "invoke", !.missed = TRUE]
<1>0. AskSound(a) /\ ask[a].pc = "save_question" BY DEF ChatSound, save_user_message_fails, AskAt
<1>1. DOMAIN r = AskFields /\ r.pc = "invoke" /\ r.session = ask[a].session /\ r.q = ask[a].q /\ r.intent = ask[a].intent /\ r.missed
    BY <1>0 DEF AskSound, AskFields
<1>2. ask' = [ask EXCEPT ![a] = r] /\ UNCHANGED <<session, message, performed, deletes>> BY DEF save_user_message_fails
<1> HIDE DEF r
<1>3. ask'[a] = r BY <1>2 DEF ChatSound
<1>4. AskSound(a)' BY <1>0, <1>1, <1>3 DEF AskSound
<1> QED BY <1>0, <1>1, <1>2, <1>4, AskMoves

\* A lost answer leaves the tables as they were.
LEMMA AnswerLost == ASSUME ChatSound, NEW a \in Asks, save_assistant_message_fails(a) PROVE ChatSound'
<1> DEFINE r == [ask[a] EXCEPT !.pc = "done"]
<1>0. AskSound(a) /\ ask[a].pc = "answer" BY DEF ChatSound, save_assistant_message_fails, AskAt
<1>1. DOMAIN r = AskFields /\ r.pc = "done" /\ r.session = ask[a].session /\ r.q = ask[a].q /\ r.intent = ask[a].intent
      /\ r.missed = ask[a].missed
    BY <1>0 DEF AskSound, AskFields
<1>2. ask' = [ask EXCEPT ![a] = r] /\ UNCHANGED <<session, message, performed, deletes>> BY DEF save_assistant_message_fails
<1> HIDE DEF r
<1>3. ask'[a] = r BY <1>2 DEF ChatSound
<1>4. AskSound(a)' BY <1>0, <1>1, <1>3 DEF AskSound
<1>5. ask[a].missed => r.missed BY <1>1, Zenon
<1> QED BY <1>0, <1>1, <1>2, <1>4, <1>5, AskMoves

\* An exception of the graph ends the request and saves nothing.
LEMMA GraphRaised == ASSUME ChatSound, NEW a \in Asks, invoke_graph_raises(a) PROVE ChatSound'
<1> DEFINE r == [ask[a] EXCEPT !.pc = "done", !.answer = "error"]
<1>0. AskSound(a) /\ ask[a].pc = "invoke" BY DEF ChatSound, invoke_graph_raises, AskAt
<1>1. DOMAIN r = AskFields /\ r.pc = "done" /\ r.session = ask[a].session /\ r.q = ask[a].q /\ r.intent = ask[a].intent
      /\ r.missed = ask[a].missed
    BY <1>0 DEF AskSound, AskFields
<1>2. ask' = [ask EXCEPT ![a] = r] /\ UNCHANGED <<session, message, performed, deletes>> BY DEF invoke_graph_raises
<1> HIDE DEF r
<1>3. ask'[a] = r BY <1>2 DEF ChatSound
<1>4. AskSound(a)' BY <1>0, <1>1, <1>3 DEF AskSound
<1>5. ask[a].missed => r.missed BY <1>1, Zenon
<1> QED BY <1>0, <1>1, <1>2, <1>4, <1>5, AskMoves

\* A client that disconnects ends a stream, or leaves the request running.
LEMMA ClientGone == ASSUME ChatSound, NEW a \in Asks, Disconnect(a) PROVE ChatSound'
<1> DEFINE r == [ask[a] EXCEPT !.gone = TRUE]
           z == [ask[a] EXCEPT !.gone = TRUE, !.pc = "done"]
<1>0. AskSound(a) /\ ask[a].pc \in {"invoke", "answer"} BY DEF ChatSound, Disconnect, AskAt
<1>1. DOMAIN r = AskFields /\ r.pc = ask[a].pc /\ r.session = ask[a].session /\ r.q = ask[a].q /\ r.intent = ask[a].intent
      /\ r.missed = ask[a].missed
    BY <1>0 DEF AskSound, AskFields
<1>2. DOMAIN z = AskFields /\ z.pc = "done" /\ z.session = ask[a].session /\ z.q = ask[a].q /\ z.intent = ask[a].intent
      /\ z.missed = ask[a].missed
    BY <1>0 DEF AskSound, AskFields
<1>3. ask' = [ask EXCEPT ![a] = r] \/ ask' = [ask EXCEPT ![a] = z] BY DEF Disconnect
<1>4. UNCHANGED <<session, message, performed, deletes>> BY DEF Disconnect
<1> HIDE DEF r, z
<1>5. CASE ask' = [ask EXCEPT ![a] = r]
    <2>1. ask'[a] = r BY <1>5 DEF ChatSound
    <2>2. r.missed <=> ask[a].missed BY <1>1, Zenon
    <2>3. AskSound(a)' BY <1>0, <1>1, <1>4, <2>1, <2>2 DEF AskSound
    <2> QED BY <1>0, <1>1, <1>4, <1>5, <2>2, <2>3, AskMoves
<1>6. CASE ask' = [ask EXCEPT ![a] = z]
    <2>1. ask'[a] = z BY <1>6 DEF ChatSound
    <2>2. z.missed <=> ask[a].missed BY <1>2, Zenon
    <2>3. AskSound(a)' BY <1>0, <1>2, <1>4, <2>1, <2>2 DEF AskSound
    <2> QED BY <1>0, <1>2, <1>4, <1>6, <2>2, <2>3, AskMoves
<1> QED BY <1>3, <1>5, <1>6

\* The graph's effect is one the question was approved for.
LEMMA GraphAnswered == ASSUME ChatSound, NEW a \in Asks, invoke_graph(a) PROVE ChatSound'
<1>0. AskSound(a) /\ ask[a].pc = "invoke" /\ ask[a].q \in Questions BY DEF ChatSound, invoke_graph, AskAt, AskSound
<1>1. PICK o \in Outcomes[ask[a].q] :
         /\ ask' = [ask EXCEPT ![a].pc = IF ask[a].gone THEN "done" ELSE "answer",
                               ![a].intent = o.intent, ![a].answer = o.answer, ![a].by = o.by]
         /\ performed' = performed \cup ({<<a, o.effect>>} \ {<<a, "none">>})
    BY DEF invoke_graph
<1>2. /\ o.intent \in ChatIntents
      /\ o.effect = "none" \/ (o.effect \in {"work_order", "simulator"} /\ ask[a].q.approved)
    <2>1. PICK env \in Surroundings : o = Invoke(ask[a].q, env) BY <1>0 DEF Outcomes
    <2> QED BY <1>0, <2>1, EffectNeedsApproval, Zenon DEF ChatIntents
<1> DEFINE pc == IF ask[a].gone THEN "done" ELSE "answer"
           r == [ask[a] EXCEPT !.pc = pc, !.intent = o.intent, !.answer = o.answer, !.by = o.by]
<1>3. pc \in {"done", "answer"} OBVIOUS
<1>4. ask' = [ask EXCEPT ![a] = r] /\ UNCHANGED <<session, message, deletes>> BY <1>1 DEF invoke_graph
<1> HIDE DEF pc
<1>5. DOMAIN r = AskFields /\ r.pc = pc /\ r.session = ask[a].session /\ r.q = ask[a].q /\ r.intent = o.intent
      /\ r.missed = ask[a].missed
    BY <1>0 DEF AskSound, AskFields
<1> HIDE DEF r
<1>6. r.missed <=> ask[a].missed BY <1>5, Zenon
<1>7. ask'[a] = r BY <1>4 DEF ChatSound
<1>8. AskSound(a)' BY <1>0, <1>2, <1>3, <1>4, <1>5, <1>6, <1>7 DEF AskSound
<1>9. performed' = performed \/ \E e \in {"work_order", "simulator"} : performed' = performed \cup {<<a, e>>} /\ r.q.approved
    <2>1. CASE o.effect = "none" BY <1>1, <2>1
    <2>2. CASE o.effect # "none"
        <3>1. o.effect \in {"work_order", "simulator"} /\ r.q.approved BY <1>2, <1>5, <2>2
        <3>2. performed' = performed \cup {<<a, o.effect>>} BY <1>1, <2>2
        <3> QED BY <3>1, <3>2
    <2> QED BY <2>1, <2>2
<1> QED BY <1>0, <1>3, <1>4, <1>5, <1>6, <1>8, <1>9, AskMoves

\* A row is saved for request a, which moves on: its own question, or the answer after it.
LEMMA RowSaved ==
    ASSUME ChatSound, NEW a \in Asks, NEW role \in {"user", "assistant"}, NEW intent \in ChatIntents, NEW r,
           message' = Append(message, ChatRow(ask[a].session, role, a, intent)),
           ask' = [ask EXCEPT ![a] = r], DOMAIN r = AskFields, r.session = ask[a].session, r.q = ask[a].q,
           r.intent = ask[a].intent, r.missed <=> ask[a].missed,
           \/ ask[a].pc = "save_question" /\ role = "user" /\ r.pc = "invoke"
           \/ ask[a].pc = "answer" /\ role = "assistant" /\ r.pc = "done",
           UNCHANGED <<performed, deletes>>,
           session' \in [Sessions -> {NoSession} \cup [count : Nat, intent : ChatIntents]], CountsMatchRows'
    PROVE  ChatSound'
<1> DEFINE row == ChatRow(ask[a].session, role, a, intent)
           n == Len(message)
<1>0. AskSound(a) /\ message \in Seq(ChatRows) /\ n \in Nat BY DEF ChatSound
<1>1. row \in ChatRows /\ row.role = role /\ row.ask = a /\ row # GoneRow
    BY <1>0, ChatOptionsAssumption DEF AskSound, ChatRow, ChatRows, GoneRow
<1>2. message' = Append(message, row) OBVIOUS
<1> HIDE DEF row
<1>3. /\ message' \in Seq(ChatRows) /\ Len(message') = n + 1 /\ message'[n + 1] = row
      /\ \A i \in 1 .. n : message'[i] = message[i]
    BY <1>0, <1>1, <1>2, RowAdded
<1>4. DOMAIN ask' = Asks /\ ask'[a] = r /\ \A b \in Asks \ {a} : ask'[b] = ask[b] BY DEF ChatSound
<1>5. ASSUME NEW b \in Asks PROVE AskSound(b)'
    <2>1. CASE b # a
        <3>1. AskSound(b) /\ ask'[b] = ask[b] BY <1>4, <2>1 DEF ChatSound
        <3> QED BY <1>0, <1>1, <1>2, <3>1, OtherAsk
    <2>2. CASE b = a
        <3>1. r.pc = "invoke" => message'[n + 1].role = "user" /\ message'[n + 1].ask = a BY <1>1, <1>3
        <3>2. n + 1 \in 1 .. Len(message') BY <1>0, <1>3
        <3> QED BY <1>0, <1>4, <2>2, <3>1, <3>2 DEF AskSound
    <2> QED BY <2>1, <2>2
<1>6. \A b \in Asks : ask[b].pc # "new" => ask'[b].pc # "new" BY <1>4
<1>7. \A i \in 1 .. Len(message') : message'[i] = GoneRow \/ ask'[message'[i].ask].pc # "new"
    <2> SUFFICES ASSUME NEW i \in 1 .. Len(message'), message'[i] # GoneRow PROVE ask'[message'[i].ask].pc # "new" OBVIOUS
    <2>1. CASE i = n + 1 BY <2>1, <1>1, <1>3, <1>4
    <2>2. CASE i # n + 1
        <3>1. i \in 1 .. n /\ message'[i] = message[i] BY <1>0, <1>3, <2>2
        <3>2. message[i].ask \in Asks BY <1>0, <3>1 DEF ChatRows
        <3> QED BY <1>6, <3>1, <3>2 DEF ChatSound
    <2> QED BY <2>1, <2>2
<1>8. AnswerHasQuestion'
    <2> SUFFICES ASSUME deletes' = 0, NEW i \in 1 .. n + 1, message'[i].role = "assistant", ~ ask'[message'[i].ask].missed
                 PROVE  \E k \in 1 .. i - 1 : message'[k].role = "user" /\ message'[k].ask = message'[i].ask
        <3>1. DOMAIN message' = 1 .. n + 1 BY <1>0, <1>3
        <3> QED BY <3>1 DEF AnswerHasQuestion
    <2>1. CASE i = n + 1
        <3>1. role = "assistant" /\ message'[i].ask = a BY <1>1, <1>3, <2>1
        <3>2. ~ r.missed BY <3>1, <1>4, Zenon
        <3>3. \E k \in 1 .. n : message[k].role = "user" /\ message[k].ask = a BY <1>0, <3>1, <3>2 DEF AskSound
        <3> QED BY <1>0, <1>3, <2>1, <3>1, <3>3
    <2>2. CASE i # n + 1
        <3>1. i \in 1 .. n /\ message'[i] = message[i] /\ i \in DOMAIN message BY <1>0, <1>3, <2>2
        <3>2. message[i] # GoneRow BY <3>1, GoneRole
        <3>3. message[i].ask \in Asks BY <1>0, <3>1, <3>2 DEF ChatRows
        <3>4. ~ ask[message[i].ask].missed
            <4>1. CASE message[i].ask = a BY <1>4, <3>1, <4>1, Zenon
            <4>2. CASE message[i].ask # a
                <5>1. ask'[message[i].ask] = ask[message[i].ask] BY <1>4, <3>3, <4>2
                <5> QED BY <3>1, <5>1, Zenon
            <4> QED BY <4>1, <4>2
        <3>5. \E k \in 1 .. i - 1 : message[k].role = "user" /\ message[k].ask = message[i].ask
            BY <3>1, <3>4 DEF ChatSound, AnswerHasQuestion
        <3> QED BY <1>0, <1>3, <3>1, <3>5
    <2> QED BY <2>1, <2>2
<1>9. \A p \in performed' : ask'[p[1]].pc # "new" /\ ask'[p[1]].q.approved
    <2> SUFFICES ASSUME NEW p \in performed PROVE ask'[p[1]].pc # "new" /\ ask'[p[1]].q.approved OBVIOUS
    <2>1. p[1] \in Asks /\ ask[p[1]].pc # "new" /\ ask[p[1]].q.approved BY DEF ChatSound
    <2> QED BY <2>1, <1>4
<1> QED BY <1>3, <1>4, <1>5, <1>7, <1>8, <1>9 DEF ChatSound

\* The question's row and the counter are saved together.
LEMMA QuestionSaved == ASSUME ChatSound, NEW a \in Asks, save_user_message(a) PROVE ChatSound'
<1> DEFINE s == ask[a].session
           base == IF ask[a].first /\ session[s] = NoSession THEN [session EXCEPT ![s] = [count |-> 0, intent |-> ""]]
                   ELSE session
           r == [ask[a] EXCEPT !.pc = "invoke"]
           row == ChatRow(s, "user", a, "")
<1>0. AskSound(a) /\ ask[a].pc = "save_question" /\ s \in Sessions BY DEF ChatSound, save_user_message, AskAt, AskSound
<1>1. /\ base[s] # NoSession /\ session' = [base EXCEPT ![s].count = @ + 1] /\ message' = Append(message, row)
      /\ ask' = [ask EXCEPT ![a] = r] /\ UNCHANGED <<performed, deletes>>
    BY DEF save_user_message
<1>2. DOMAIN r = AskFields /\ r.pc = "invoke" /\ r.session = ask[a].session /\ r.q = ask[a].q /\ r.intent = ask[a].intent
      /\ r.missed = ask[a].missed
    BY <1>0 DEF AskSound, AskFields
<1>3. /\ base \in [Sessions -> {NoSession} \cup [count : Nat, intent : ChatIntents]]
      /\ base[s].count = IF session[s] = NoSession THEN 0 ELSE session[s].count
      /\ \A x \in Sessions \ {s} : base[x] = session[x]
    BY <1>0, <1>1 DEF ChatSound, ChatIntents
<1>4. row \in ChatRows /\ row.session = s BY <1>0 DEF ChatRow, ChatRows, ChatIntents
<1> HIDE DEF base, row, r
<1>5. base[s] \in [count : Nat, intent : ChatIntents] BY <1>0, <1>1, <1>3
<1>6. /\ session' \in [Sessions -> {NoSession} \cup [count : Nat, intent : ChatIntents]]
      /\ session'[s] # NoSession /\ session'[s].count = base[s].count + 1
      /\ \A x \in Sessions \ {s} : session'[x] = session[x]
    <2> DEFINE new == [base[s] EXCEPT !.count = @ + 1]
    <2>1. new \in [count : Nat, intent : ChatIntents] /\ new.count = base[s].count + 1 BY <1>5
    <2>2. session' = [base EXCEPT ![s] = new] BY <1>1
    <2>3. new # NoSession BY <2>1, ChatSessionAssumption DEF ChatIntents
    <2> HIDE DEF new
    <2> QED BY <1>0, <1>3, <2>1, <2>2, <2>3
<1>7. CountsMatchRows' BY <1>0, <1>1, <1>3, <1>4, <1>6, CountKept
<1>8. r.missed <=> ask[a].missed BY <1>2, Zenon
<1> QED BY <1>0, <1>1, <1>2, <1>6, <1>7, <1>8, RowSaved DEF row, ChatIntents

\* So are the answer's, after the question's.
LEMMA AnswerSaved == ASSUME ChatSound, NEW a \in Asks, save_assistant_message(a) PROVE ChatSound'
<1> DEFINE s == ask[a].session
           r == [ask[a] EXCEPT !.pc = "done"]
           row == ChatRow(s, "assistant", a, ask[a].intent)
           new == [count |-> session[s].count + 1, intent |-> ask[a].intent]
<1>0. AskSound(a) /\ ask[a].pc = "answer" /\ s \in Sessions /\ ask[a].intent \in ChatIntents
    BY DEF ChatSound, save_assistant_message, AskAt, AskSound
<1>1. /\ session[s] # NoSession /\ session' = [session EXCEPT ![s] = new] /\ message' = Append(message, row)
      /\ ask' = [ask EXCEPT ![a] = r] /\ UNCHANGED <<performed, deletes>>
    BY DEF save_assistant_message, Counted
<1>2. DOMAIN r = AskFields /\ r.pc = "done" /\ r.session = ask[a].session /\ r.q = ask[a].q /\ r.intent = ask[a].intent
      /\ r.missed = ask[a].missed
    BY <1>0 DEF AskSound, AskFields
<1>3. session[s] \in [count : Nat, intent : ChatIntents] BY <1>0, <1>1 DEF ChatSound
<1>4. row \in ChatRows /\ row.session = s BY <1>0 DEF ChatRow, ChatRows
<1>5. new \in [count : Nat, intent : ChatIntents] /\ new.count = session[s].count + 1 BY <1>0, <1>3
<1>6. new # NoSession BY <1>5, ChatSessionAssumption DEF ChatIntents
<1> HIDE DEF row, r, new
<1>7. /\ session' \in [Sessions -> {NoSession} \cup [count : Nat, intent : ChatIntents]]
      /\ session'[s] # NoSession /\ session'[s].count = session[s].count + 1
      /\ \A x \in Sessions \ {s} : session'[x] = session[x]
    BY <1>0, <1>1, <1>5, <1>6 DEF ChatSound
<1>8. CountsMatchRows' BY <1>0, <1>1, <1>4, <1>7, CountKept
<1>9. r.missed <=> ask[a].missed BY <1>2, Zenon
<1> QED BY <1>0, <1>1, <1>2, <1>7, <1>8, <1>9, RowSaved DEF row

\* Deleting sessions empties exactly their rows and keeps the order of the others.
LEMMA SessionsDeleted == ASSUME ChatSound, NEW S \in SUBSET Sessions, delete_sessions(S) PROVE ChatSound'
<1>0. message \in Seq(ChatRows) /\ deletes \in Nat BY ChatOptionsAssumption DEF ChatSound
<1>1. /\ session' = [s \in Sessions |-> IF s \in S THEN NoSession ELSE session[s]]
      /\ message' = [i \in DOMAIN message |-> IF message[i].session \in S THEN GoneRow ELSE message[i]]
      /\ deletes' = deletes + 1 /\ deletes < MaxDeletes /\ UNCHANGED <<ask, performed>>
    BY DEF delete_sessions
<1>2. DOMAIN message = 1 .. Len(message) /\ Len(message) \in Nat /\ \A i \in DOMAIN message : message[i] \in ChatRows BY <1>0
<1>3. GoneRow \in ChatRows /\ GoneRow.session = NoSession BY DEF ChatRows, GoneRow
<1>4. message' \in Seq(ChatRows) /\ Len(message') = Len(message) /\ DOMAIN message' = DOMAIN message
    <2>1. message' \in [1 .. Len(message) -> ChatRows] BY <1>1, <1>2, <1>3
    <2> QED BY <1>2, <2>1
<1>5. CountsMatchRows'
    <2> SUFFICES ASSUME NEW s \in Sessions
                 PROVE  Cardinality(RowsOfSession(s)') = IF session'[s] = NoSession THEN 0 ELSE session'[s].count
        BY DEF CountsMatchRows
    <2>0. NoSession # s BY ChatOptionsAssumption
    <2>1. CASE s \in S
        <3>1. \A i \in DOMAIN message' : message'[i].session # s BY <1>1, <1>3, <1>4, <2>0, <2>1
        <3>2. RowsOfSession(s)' = {} BY <3>1 DEF RowsOfSession
        <3> QED BY <1>1, <2>1, <3>2, FS_EmptySet
    <2>2. CASE s \notin S
        <3>1. \A i \in DOMAIN message : message'[i].session = s <=> message[i].session = s BY <1>1, <1>3, <2>0, <2>2
        <3>2. \A i : i \in RowsOfSession(s)' <=> i \in RowsOfSession(s) BY <1>4, <3>1 DEF RowsOfSession
        <3>3. RowsOfSession(s)' = RowsOfSession(s) BY <3>2, Zenon DEF RowsOfSession
        <3> QED BY <1>1, <2>2, <3>3 DEF ChatSound, CountsMatchRows
    <2> QED BY <2>1, <2>2
<1>6. session' \in [Sessions -> {NoSession} \cup [count : Nat, intent : ChatIntents]] BY <1>1 DEF ChatSound
<1>7. deletes' # 0 /\ deletes' \in 0 .. MaxDeletes BY <1>0, <1>1, ChatOptionsAssumption
<1>8. \A a \in Asks : AskSound(a)' BY <1>1, <1>7 DEF ChatSound, AskSound
<1>9. \A i \in 1 .. Len(message') : message'[i] = GoneRow \/ ask'[message'[i].ask].pc # "new" BY <1>1, <1>2, <1>4 DEF ChatSound
<1>10. AnswerHasQuestion' BY <1>7 DEF AnswerHasQuestion
<1> QED BY <1>1, <1>4, <1>5, <1>6, <1>7, <1>8, <1>9, <1>10 DEF ChatSound

\* Every step of a request, and a deletion at any time, keeps the chat sound.
LEMMA ChatStep == ChatSound /\ [ChatNext]_cvars => ChatSound'
<1> SUFFICES ASSUME ChatSound, [ChatNext]_cvars PROVE ChatSound' OBVIOUS
<1>1. ASSUME NEW a \in Asks, NEW s \in Sessions, NEW q \in Questions, NEW first \in BOOLEAN, NEW stream \in BOOLEAN,
             chat(a, s, q, first, stream)
      PROVE  ChatSound'
    BY <1>1, ChatAsked
<1>2. ASSUME NEW a \in Asks, AskStep(a) PROVE ChatSound'
    BY <1>2, QuestionSaved, QuestionLost, GraphAnswered, GraphRaised, AnswerSaved, AnswerLost DEF AskStep
<1>3. ASSUME NEW a \in Asks, Disconnect(a) PROVE ChatSound' BY <1>3, ClientGone
<1>4. ASSUME NEW s \in Sessions, delete_sessions({s}) PROVE ChatSound'
    <2>1. {s} \in SUBSET Sessions OBVIOUS
    <2> QED BY <1>4, <2>1, SessionsDeleted
<1>5. CASE delete_sessions(Sessions) BY <1>5, SessionsDeleted
<1>6. CASE UNCHANGED cvars
    BY <1>6 DEF cvars, ChatSound, AskSound, CountsMatchRows, RowsOfSession, AnswerHasQuestion
<1> QED BY <1>1, <1>2, <1>3, <1>4, <1>5, <1>6 DEF ChatNext

\* A session counts its rows, an answer has its question before it, and work orders and clock
\* commands were approved, for any number of requests, disconnects, losses and deletions (chat.py).
THEOREM ChatsAreConsistent ==
    ChatSpec => [](ChatTypeOK /\ CountsMatchRows /\ AnswerHasQuestion /\ EffectsApproved)
<1> QED
  BY ChatStarts, ChatStep, ChatSoundEnough, PTL DEF ChatSpec

(***************************************************************************)
(* Detection, diagnosis and work orders.  A detection reported done        *)
(* without an error has its rows in the table, which only grows; a         *)
(* diagnosis counted no more than is there at its anchor, and is cached    *)
(* under the day of that anchor.  Job ids have to differ: the code builds  *)
(* them from the period and the second of the call, so two calls within a  *)
(* second share one and each may report the other's end.                   *)
(***************************************************************************)

\* A bounded, nonempty set of integers has its maximum.
LEMMA MaxExists ==
    ASSUME NEW S, S \subseteq Int, S # {}, \E top \in Int : \A s \in S : s <= top
    PROVE  Max(S) \in S /\ \A y \in S : Max(S) >= y
<1>0. PICK b \in Int : \A s \in S : s <= b OBVIOUS
<1> DEFINE R == OpToRel(<, Nat)
           Rests == {b - t : t \in S}
<1>1. IsWellFoundedOn(R, Nat) BY NatLessThanWellFounded
<1> HIDE DEF R
<1>2. PICK s \in S : TRUE OBVIOUS
<1>3. Rests \subseteq Nat /\ b - s \in Rests BY <1>0
<1>4. PICK x \in Rests : \A y \in Rests : ~ (<<y, x>> \in R) BY <1>1, <1>3, WFMin
<1>5. \A y \in Rests : ~ (y < x) BY <1>3, <1>4 DEF R, OpToRel
<1>6. PICK t \in S : x = b - t OBVIOUS
<1>7. \A u \in S : t >= u
    <2> SUFFICES ASSUME NEW u \in S PROVE t >= u OBVIOUS
    <2>1. b - u \in Rests OBVIOUS
    <2>2. ~ (b - u < b - t) BY <1>5, <1>6, <2>1
    <2> QED BY <2>2
<1> QED BY <1>7 DEF Max

\* Two calls for one period come in different seconds, so that each has a job id of its own.
JobIdsDiffer == \A c, d \in Detections : c # d => JobIdOf[c] # JobIdOf[d]

DetectionCalls == [pc : {"idle", "queued", "load", "save", "publish", "end"}, flagged : SUBSET Ticks, inserted : Nat]
DetectionStatuses == [status : {"not_found", "queued", "running", "error", "done"}, total : Nat, error : BOOLEAN]

\* What the transaction of a job left behind, once it was committed.
Kept(c, n) == /\ call[c].flagged \subseteq anomaly
              /\ n <= Cardinality(call[c].flagged)
              /\ n = 0 <=> call[c].flagged = {}

\* A job has flagged nothing before it predicted, and its rows are there before it is called done.
JobSound(c) ==
    LET s == run_status[JobIdOf[c]]
    IN  /\ call[c].pc \in {"idle", "queued", "load"} => call[c].flagged = {}
        /\ call[c].pc = "publish" /\ ~ s.error => Kept(c, call[c].inserted)
        /\ call[c].pc = "end" /\ s.status = "done" /\ ~ s.error => Kept(c, s.total)

JobsSound ==
    /\ anomaly \in SUBSET Ticks
    /\ call \in [Detections -> DetectionCalls]
    /\ run_status \in [DetectionIds -> DetectionStatuses]
    /\ \A c \in Detections : JobSound(c)

\* A diagnosis that was read counts recorded anomalies of its window.
WasRead(r) == r.anchor \in Ticks /\ r.total \in Nat /\ r.total <= Total(r.anchor)

DiagnosesSound ==
    /\ clock.now \in Ticks
    /\ DOMAIN diag_cache = {Day(t) : t \in Ticks}
    /\ \A d \in DOMAIN diag_cache : diag_cache[d] # NoAnswer => WasRead(diag_cache[d]) /\ Day(diag_cache[d].anchor) = d
    /\ DOMAIN diagnosis = Askers
    /\ \A a \in Askers :
         /\ DOMAIN diagnosis[a] = {"pc", "read", "day", "answer"}
         /\ diagnosis[a].pc = "llm" => WasRead(diagnosis[a].read)
         /\ diagnosis[a].answer # NoAnswer => WasRead(diagnosis[a].answer) /\ Day(diagnosis[a].answer.anchor) = diagnosis[a].day

OrdersSound ==
    /\ work_order \in [Orders -> [status : {"absent", "open", "in_progress", "done"}, resolved : BOOLEAN]]
    /\ DoneIsResolved

MaintenanceSound == JobsSound /\ DiagnosesSound /\ OrdersSound

\* Ticks are a bounded set of integers.
LEMMA TicksFinite == IsFiniteSet(Ticks) /\ Ticks \subseteq Int /\ \A t \in Ticks : t <= LastTick
BY MaintenanceAssumption, FS_Interval DEF Ticks

\* Counting a set of ticks.
LEMMA TicksSubset ==
    ASSUME NEW S \in SUBSET Ticks
    PROVE  IsFiniteSet(S) /\ Cardinality(S) \in Nat /\ (Cardinality(S) = 0 <=> S = {})
BY TicksFinite, FS_Subset, FS_CardinalityType, FS_EmptySet

\* More anomalies never make a window smaller.
LEMMA TotalGrows ==
    ASSUME anomaly \in SUBSET Ticks, anomaly' \in SUBSET Ticks, anomaly \subseteq anomaly', NEW t
    PROVE  Total(t) <= Total(t)' /\ Total(t) \in Nat /\ Total(t)' \in Nat
<1> DEFINE S == {x \in anomaly : x > t - WindowTicks /\ x <= t}
           U == {x \in anomaly' : x > t - WindowTicks /\ x <= t}
<1>1. S \subseteq U /\ S \in SUBSET Ticks /\ U \in SUBSET Ticks OBVIOUS
<1>2. Cardinality(S) <= Cardinality(U) BY <1>1, TicksSubset, FS_Subset
<1>3. Cardinality(S) \in Nat /\ Cardinality(U) \in Nat BY <1>1, TicksSubset
<1> QED BY <1>2, <1>3 DEF Total

\* The anchor is a tick, and its day has a place in the cache.
LEMMA AnchorTick ==
    ASSUME anomaly \in SUBSET Ticks, clock.now \in Ticks
    PROVE  Anchor \in Ticks
<1>1. CASE anomaly = {} BY <1>1 DEF Anchor
<1>2. CASE anomaly # {}
    <2>1. Max(anomaly) \in anomaly
        <3>1. LastTick \in Int /\ \A s \in anomaly : s <= LastTick BY TicksFinite, MaintenanceAssumption
        <3> QED BY <1>2, <3>1, TicksFinite, MaxExists
    <2> DEFINE m == Max(anomaly)
               n == clock.now
    <2>2. m \in Int /\ n \in Int /\ m \in Ticks BY <2>1, TicksFinite
    <2> HIDE DEF m, n
    <2>3. Min({n, m}) \in {n, m}
        <3>1. \E x \in {n, m} : \A y \in {n, m} : x <= y
            <4>1. CASE n <= m BY <4>1, <2>2
            <4>2. CASE m <= n BY <4>2, <2>2
            <4> QED BY <4>1, <4>2, <2>2
        <3> QED BY <3>1 DEF Min
    <2> QED BY <1>2, <2>2, <2>3 DEF Anchor, m, n
<1> QED BY <1>1, <1>2

\* What a poll and a diagnosis show follows.
LEMMA MaintenanceSoundEnough == MaintenanceSound => MaintenanceInv
<1> SUFFICES ASSUME MaintenanceSound PROVE MaintenanceInv OBVIOUS
<1>1. DoneMeansStored /\ TotalOfTheJob
    BY DEF MaintenanceSound, JobsSound, JobSound, Kept, DoneMeansStored, TotalOfTheJob
<1>2. DiagnosisOfItsDay BY DEF MaintenanceSound, DiagnosesSound, WasRead, DiagnosisOfItsDay
<1> QED BY <1>1, <1>2 DEF MaintenanceSound, OrdersSound, MaintenanceInv

\* Nothing was detected or diagnosed at the start.
LEMMA MaintenanceStarts == MaintenanceInit => MaintenanceSound
<1> SUFFICES ASSUME MaintenanceInit PROVE MaintenanceSound OBVIOUS
<1>1. call \in [Detections -> DetectionCalls] /\ \A c \in Detections : call[c].pc = "idle" /\ call[c].flagged = {}
    BY DEF MaintenanceInit, DetectionCalls
<1>2. NoStatus \in DetectionStatuses BY DEF NoStatus, DetectionStatuses
<1>3. JobsSound BY <1>1, <1>2 DEF MaintenanceInit, JobsSound, JobSound
<1>4. clock.now \in Ticks BY MaintenanceAssumption DEF MaintenanceInit, Ticks
<1>5. DiagnosesSound BY <1>4 DEF MaintenanceInit, DiagnosesSound
<1>6. OrdersSound
    <2>1. NoOrder \in [status : {"absent", "open", "in_progress", "done"}, resolved : BOOLEAN]
        BY DEF NoOrder
    <2>2. ~ NoOrder.resolved /\ NoOrder.status # "done" BY DEF NoOrder
    <2> QED BY <2>1, <2>2 DEF MaintenanceInit, OrdersSound, DoneIsResolved
<1> QED BY <1>3, <1>5, <1>6 DEF MaintenanceSound

\* A job moves: the others keep what they have, because each has a status of its own and rows are only added.
LEMMA JobMoves ==
    ASSUME JobIdsDiffer, JobsSound, NEW c \in Detections, NEW r \in DetectionCalls, NEW s \in DetectionStatuses,
           call' = [call EXCEPT ![c] = r], run_status' = [run_status EXCEPT ![JobIdOf[c]] = s],
           anomaly' \in SUBSET Ticks, anomaly \subseteq anomaly',
           r.pc \in {"idle", "queued", "load"} => r.flagged = {},
           r.pc = "publish" /\ ~ s.error =>
               r.flagged \subseteq anomaly' /\ r.inserted <= Cardinality(r.flagged) /\ (r.inserted = 0 <=> r.flagged = {}),
           r.pc = "end" /\ s.status = "done" /\ ~ s.error =>
               r.flagged \subseteq anomaly' /\ s.total <= Cardinality(r.flagged) /\ (s.total = 0 <=> r.flagged = {})
    PROVE  JobsSound'
<1>1. \A d \in Detections : JobIdOf[d] \in DetectionIds BY DEF DetectionIds
<1>2. call' \in [Detections -> DetectionCalls] /\ run_status' \in [DetectionIds -> DetectionStatuses] BY <1>1 DEF JobsSound
<1>3. ASSUME NEW d \in Detections PROVE JobSound(d)'
    <2>1. CASE d = c
        <3>1. call'[c] = r /\ run_status'[JobIdOf[c]] = s BY <1>1 DEF JobsSound
        <3>2. call'[c].pc \in {"idle", "queued", "load"} => call'[c].flagged = {} BY <3>1, Zenon
        <3>3. call'[c].pc = "publish" /\ ~ run_status'[JobIdOf[c]].error => Kept(c, call[c].inserted)'
            <4> SUFFICES ASSUME call'[c].pc = "publish", ~ run_status'[JobIdOf[c]].error PROVE Kept(c, call[c].inserted)' OBVIOUS
            <4>1. r.pc = "publish" /\ ~ s.error BY <3>1, Zenon
            <4>2. r.flagged \subseteq anomaly' /\ r.inserted <= Cardinality(r.flagged) /\ (r.inserted = 0 <=> r.flagged = {})
                BY <4>1, Zenon
            <4> QED BY <3>1, <4>2 DEF Kept
        <3>4. call'[c].pc = "end" /\ run_status'[JobIdOf[c]].status = "done" /\ ~ run_status'[JobIdOf[c]].error =>
                 Kept(c, run_status[JobIdOf[c]].total)'
            BY <3>1, Zenon DEF Kept
        <3>5. JobSound(c)' BY <3>2, <3>3, <3>4, Zenon DEF JobSound
        <3> QED BY <2>1, <3>5
    <2>2. CASE d # c
        <3>1. JobSound(d) BY DEF JobsSound
        <3>2. JobIdOf[d] # JobIdOf[c] BY <2>2 DEF JobIdsDiffer
        <3>3. call'[d] = call[d] /\ run_status'[JobIdOf[d]] = run_status[JobIdOf[d]] BY <1>1, <2>2, <3>2 DEF JobsSound
        <3> QED BY <3>1, <3>3 DEF JobSound, Kept
    <2> QED BY <2>1, <2>2
<1> QED BY <1>2, <1>3 DEF JobsSound

\* What the endpoint counts as inserted: never more than was flagged, and nothing only for nothing.
LEMMA InsertedCount ==
    ASSUME NEW F \in SUBSET Ticks, NEW rows
    PROVE  Inserted(F, rows) \in Nat /\ Inserted(F, rows) <= Cardinality(F) /\ (Inserted(F, rows) = 0 <=> F = {})
<1> DEFINE N == F \ rows
<1>1. N \subseteq F /\ N \in SUBSET Ticks OBVIOUS
<1>2. Cardinality(N) <= Cardinality(F) BY <1>1, TicksSubset, FS_Subset
<1>3. Cardinality(N) \in Nat /\ (Cardinality(N) = 0 <=> N = {}) BY <1>1, TicksSubset
<1>4. Cardinality(F) \in Nat /\ (Cardinality(F) = 0 <=> F = {}) BY TicksSubset
<1>5. F = {} => N = {} OBVIOUS
<1> QED BY <1>2, <1>3, <1>4, <1>5 DEF Inserted

\* A detection call goes through its stages; only a save that worked counts rows.
LEMMA DetectionSound == ASSUME JobIdsDiffer, JobsSound, NEW c \in Detections, DetectionStep(c) PROVE JobsSound'
<1> DEFINE id == JobIdOf[c]
           s == run_status[id]
<1>1. id \in DetectionIds BY DEF DetectionIds
<1>2. s \in DetectionStatuses /\ call[c] \in DetectionCalls /\ anomaly \in SUBSET Ticks /\ JobSound(c) BY <1>1 DEF JobsSound
<1>3. s.error \in BOOLEAN /\ s.status \in {"not_found", "queued", "running", "error", "done"} /\ s.total \in Nat
    BY <1>2 DEF DetectionStatuses
<1>4. run_status = [run_status EXCEPT ![id] = s] BY <1>1 DEF JobsSound
<1>5. ASSUME NEW x \in {"queued", "running", "error", "done"}, NEW n \in Nat, NEW e \in BOOLEAN
      PROVE  [status |-> x, total |-> n, error |-> e] \in DetectionStatuses
    BY DEF DetectionStatuses
<1> HIDE DEF s
<1>6. CASE run_detection(c)
    <2> DEFINE new == [NoStatus EXCEPT !.status = "queued"]
               r == [call[c] EXCEPT !.pc = "queued"]
    <2>1. new \in DetectionStatuses BY DEF NoStatus, DetectionStatuses
    <2>2. r \in DetectionCalls /\ r.pc = "queued" /\ r.flagged = {} BY <1>2, <1>6 DEF DetectionCalls, run_detection, JobSound
    <2>3. call' = [call EXCEPT ![c] = r] /\ run_status' = [run_status EXCEPT ![id] = new] /\ anomaly' = anomaly
        BY <1>6 DEF run_detection, Status, Step
    <2> HIDE DEF new, r
    <2> QED BY <1>2, <2>1, <2>2, <2>3, JobMoves
<1>7. CASE StartDetection(c)
    <2> DEFINE run == [s EXCEPT !.status = "running"]
               bad == [s EXCEPT !.status = "error", !.error = TRUE]
               load == [call[c] EXCEPT !.pc = "load"]
               end == [call[c] EXCEPT !.pc = "end"]
    <2>1. run \in DetectionStatuses /\ bad \in DetectionStatuses /\ bad.status = "error" BY <1>2 DEF DetectionStatuses
    <2>2. /\ load \in DetectionCalls /\ load.pc = "load" /\ load.flagged = {} /\ end \in DetectionCalls /\ end.pc = "end"
        BY <1>2, <1>7 DEF DetectionCalls, StartDetection, JobSound
    <2>3. anomaly' = anomaly BY <1>7 DEF StartDetection
    <2>4. \/ call' = [call EXCEPT ![c] = load] /\ run_status' = [run_status EXCEPT ![id] = run]
          \/ call' = [call EXCEPT ![c] = end] /\ run_status' = [run_status EXCEPT ![id] = bad]
        BY <1>7 DEF StartDetection, Status, Step, s
    <2> HIDE DEF run, bad, load, end
    <2> QED BY <1>2, <2>1, <2>2, <2>3, <2>4, JobMoves
<1>8. CASE LoadAndPredict(c)
    <2> DEFINE bad == [s EXCEPT !.status = "error", !.error = TRUE]
               none == [s EXCEPT !.status = "done", !.total = 0]
               end == [call[c] EXCEPT !.pc = "end"]
               save(F) == [call[c] EXCEPT !.pc = "save", !.flagged = F]
    <2>0. call[c].flagged = {} /\ call[c].pc = "load" BY <1>2, <1>8 DEF LoadAndPredict, JobSound
    <2>1. bad \in DetectionStatuses /\ bad.status = "error" /\ none \in DetectionStatuses /\ none.total = 0 BY <1>2 DEF DetectionStatuses
    <2>2. end \in DetectionCalls /\ end.pc = "end" /\ end.flagged = {} BY <1>2, <2>0 DEF DetectionCalls
    <2>3. anomaly' = anomaly BY <1>8 DEF LoadAndPredict
    <2>4. \A F \in SUBSET Ticks : save(F) \in DetectionCalls /\ save(F).pc = "save"
        BY <1>2 DEF DetectionCalls
    <2>5. \/ call' = [call EXCEPT ![c] = end] /\ run_status' = [run_status EXCEPT ![id] = bad]
          \/ call' = [call EXCEPT ![c] = end] /\ run_status' = [run_status EXCEPT ![id] = none]
          \/ \E F \in SUBSET Ticks : call' = [call EXCEPT ![c] = save(F)] /\ run_status' = run_status
        BY <1>8 DEF LoadAndPredict, Status, Step, s
    <2>6. 0 <= Cardinality(end.flagged) BY <2>2, FS_EmptySet
    <2> HIDE DEF bad, none, end, save
    <2>7. CASE call' = [call EXCEPT ![c] = end] /\ run_status' = [run_status EXCEPT ![id] = bad]
        BY <1>2, <2>1, <2>2, <2>3, <2>7, JobMoves
    <2>9. CASE call' = [call EXCEPT ![c] = end] /\ run_status' = [run_status EXCEPT ![id] = none]
        BY <1>2, <2>1, <2>2, <2>3, <2>6, <2>9, JobMoves
    <2>8. ASSUME NEW F \in SUBSET Ticks, call' = [call EXCEPT ![c] = save(F)], run_status' = run_status PROVE JobsSound'
        BY <1>2, <1>4, <2>3, <2>4, <2>8, JobMoves
    <2> QED BY <2>5, <2>7, <2>8, <2>9
<1>9. CASE save_residual_results(c)
    <2> DEFINE F == call[c].flagged
               n == Inserted(F, anomaly)
               kept == [call[c] EXCEPT !.pc = "publish", !.inserted = n]
               lost == [call[c] EXCEPT !.pc = "publish"]
               bad == [s EXCEPT !.error = TRUE]
    <2>0. F \in SUBSET Ticks BY <1>2 DEF DetectionCalls
    <2>1. n \in Nat /\ n <= Cardinality(F) /\ (n = 0 <=> F = {}) BY <2>0, InsertedCount
    <2> HIDE DEF n
    <2>2. kept \in DetectionCalls /\ kept.pc = "publish" /\ kept.flagged = F /\ kept.inserted = n BY <1>2, <2>1 DEF DetectionCalls
    <2>3. lost \in DetectionCalls /\ lost.pc = "publish" BY <1>2 DEF DetectionCalls
    <2>4. bad \in DetectionStatuses /\ bad.error BY <1>2 DEF DetectionStatuses
    <2>5. \/ call' = [call EXCEPT ![c] = kept] /\ run_status' = run_status /\ anomaly' = anomaly \cup F
          \/ call' = [call EXCEPT ![c] = lost] /\ run_status' = [run_status EXCEPT ![id] = bad] /\ anomaly' = anomaly
        BY <1>9 DEF save_residual_results, Status, Step, s, n
    <2> HIDE DEF kept, lost, bad
    <2>6. CASE call' = [call EXCEPT ![c] = kept] /\ run_status' = run_status /\ anomaly' = anomaly \cup F
        <3>1. anomaly' \in SUBSET Ticks /\ anomaly \subseteq anomaly' /\ F \subseteq anomaly' BY <1>2, <2>0, <2>6
        <3> HIDE DEF F
        <3> QED BY <1>2, <1>4, <2>1, <2>2, <2>6, <3>1, JobMoves
    <2>7. CASE call' = [call EXCEPT ![c] = lost] /\ run_status' = [run_status EXCEPT ![id] = bad] /\ anomaly' = anomaly
        BY <1>2, <2>3, <2>4, <2>7, JobMoves
    <2> QED BY <2>5, <2>6, <2>7
<1>10. CASE PublishStatus(c)
    <2> DEFINE end == [call[c] EXCEPT !.pc = "end"]
               n == call[c].inserted
               new == [s EXCEPT !.status = "done", !.total = n]
    <2>0. n \in Nat /\ call[c].pc = "publish" /\ (~ s.error => Kept(c, n)) BY <1>2, <1>10 DEF PublishStatus, JobSound, DetectionCalls, s
    <2>1. end \in DetectionCalls /\ end.pc = "end" /\ end.flagged = call[c].flagged BY <1>2 DEF DetectionCalls
    <2> HIDE DEF n
    <2>2. new \in DetectionStatuses /\ new.total = n /\ new.error = s.error BY <1>2, <2>0 DEF DetectionStatuses
    <2>3. call' = [call EXCEPT ![c] = end] /\ run_status' = [run_status EXCEPT ![id] = new] /\ anomaly' = anomaly
        BY <1>10 DEF PublishStatus, Status, Step, s, n
    <2> HIDE DEF end, new
    <2>4. ~ new.error => ~ s.error BY <2>2, Zenon
    <2> QED BY <1>2, <2>0, <2>1, <2>2, <2>3, <2>4, JobMoves DEF Kept
<1> QED BY <1>6, <1>7, <1>8, <1>9, <1>10 DEF DetectionStep

\* What a diagnosis counted is still there after more anomalies were recorded.
LEMMA ReadKept ==
    ASSUME anomaly \in SUBSET Ticks, anomaly' \in SUBSET Ticks, anomaly \subseteq anomaly', NEW r, WasRead(r)
    PROVE  WasRead(r)'
<1>1. Total(r.anchor) <= Total(r.anchor)' /\ Total(r.anchor) \in Nat /\ Total(r.anchor)' \in Nat BY TotalGrows
<1> QED BY <1>1 DEF WasRead

\* Every other step keeps the diagnoses, and so does one that only adds anomalies or moves the clock.
LEMMA DiagnosesKept ==
    ASSUME DiagnosesSound, anomaly \in SUBSET Ticks, anomaly' \in SUBSET Ticks, anomaly \subseteq anomaly',
           clock'.now \in Ticks, UNCHANGED <<diag_cache, diagnosis>>
    PROVE  DiagnosesSound'
BY ReadKept DEF DiagnosesSound

\* A diagnosis is answered from the cache of its day, or counts what it reads now.
LEMMA DiagnosisRun ==
    ASSUME DiagnosesSound, anomaly \in SUBSET Ticks, NEW a \in Askers, run_diagnosis(a), UNCHANGED <<anomaly, clock>>
    PROVE  DiagnosesSound'
<1> DEFINE now == [anchor |-> Anchor, total |-> Total(Anchor)]
           cached == diag_cache[Day(Anchor)]
           hit == [diagnosis[a] EXCEPT !.day = Day(Anchor), !.answer = cached]
           miss == [diagnosis[a] EXCEPT !.pc = "llm", !.read = now]
<1>1. Anchor \in Ticks BY AnchorTick DEF DiagnosesSound
<1>2. Total(Anchor) \in Nat BY TotalGrows
<1>3. WasRead(now) BY <1>1, <1>2 DEF WasRead
<1>4. cached # NoAnswer => WasRead(cached) /\ Day(cached.anchor) = Day(Anchor) BY <1>1 DEF DiagnosesSound
<1>5. \A r : WasRead(r)' <=> WasRead(r) BY DEF WasRead, Total
<1>6. \/ diagnosis' = [diagnosis EXCEPT ![a] = hit] /\ cached # NoAnswer
      \/ diagnosis' = [diagnosis EXCEPT ![a] = miss]
    BY DEF run_diagnosis, cache_key
<1>7. diag_cache' = diag_cache BY DEF run_diagnosis
<1>8. diagnosis[a].pc = "idle" /\ DOMAIN diagnosis[a] = {"pc", "read", "day", "answer"} BY DEF run_diagnosis, DiagnosesSound
<1> HIDE DEF cached, now
<1>9. DOMAIN hit = {"pc", "read", "day", "answer"} /\ hit.pc = "idle" /\ hit.day = Day(Anchor) /\ hit.answer = cached
    BY <1>8
<1>10. /\ DOMAIN miss = {"pc", "read", "day", "answer"} /\ miss.pc = "llm" /\ miss.read = now
       /\ miss.day = diagnosis[a].day /\ miss.answer = diagnosis[a].answer
    BY <1>8
<1> HIDE DEF hit, miss
<1>11. CASE diagnosis' = [diagnosis EXCEPT ![a] = hit] /\ cached # NoAnswer
    BY <1>4, <1>5, <1>7, <1>9, <1>11 DEF DiagnosesSound
<1>12. CASE diagnosis' = [diagnosis EXCEPT ![a] = miss]
    BY <1>3, <1>5, <1>7, <1>10, <1>12 DEF DiagnosesSound
<1> QED BY <1>6, <1>11, <1>12

\* The model's answer is cached under the day that was read, not the day it is by now.
LEMMA DiagnosisDone ==
    ASSUME DiagnosesSound, anomaly \in SUBSET Ticks, NEW a \in Askers, Diagnosed(a), UNCHANGED <<anomaly, clock>>
    PROVE  DiagnosesSound'
<1> DEFINE r == diagnosis[a].read
           new == [pc |-> "idle", read |-> NoAnswer, day |-> Day(r.anchor), answer |-> r]
<1>1. WasRead(r) BY DEF DiagnosesSound, Diagnosed
<1>2. Day(r.anchor) \in DOMAIN diag_cache BY <1>1 DEF DiagnosesSound, WasRead
<1>3. \A x : WasRead(x)' <=> WasRead(x) BY DEF WasRead, Total
<1>4. diag_cache' = [diag_cache EXCEPT ![Day(r.anchor)] = r] /\ diagnosis' = [diagnosis EXCEPT ![a] = new]
    BY DEF Diagnosed, cache_key
<1>5. DOMAIN new = {"pc", "read", "day", "answer"} /\ new.pc = "idle" /\ new.day = Day(r.anchor) /\ new.answer = r
    OBVIOUS
<1> HIDE DEF r, new
<1> QED BY <1>1, <1>2, <1>3, <1>4, <1>5 DEF DiagnosesSound

\* A work order is resolved exactly when it is done.
LEMMA OrderStep ==
    ASSUME OrdersSound, NEW o \in Orders, insert_work_order(o) \/ update_work_order(o)
    PROVE  OrdersSound'
<1>1. \E s \in {"open", "in_progress", "done"}, b \in BOOLEAN :
         work_order' = [work_order EXCEPT ![o] = [status |-> s, resolved |-> b]] /\ (b <=> s = "done")
    BY DEF insert_work_order, update_work_order
<1>2. PICK s \in {"open", "in_progress", "done"}, b \in BOOLEAN :
         work_order' = [work_order EXCEPT ![o] = [status |-> s, resolved |-> b]] /\ (b <=> s = "done")
    BY <1>1
<1> DEFINE new == [status |-> s, resolved |-> b]
<1>3. new \in [status : {"absent", "open", "in_progress", "done"}, resolved : BOOLEAN] /\ (new.resolved <=> new.status = "done")
    BY <1>2
<1>4. work_order' = [work_order EXCEPT ![o] = new] BY <1>2
<1> HIDE DEF new
<1> QED BY <1>3, <1>4 DEF OrdersSound, DoneIsResolved

\* All of it survives a restart of the service, which forgets the statuses and the cache.
LEMMA MaintenanceStep == ASSUME JobIdsDiffer PROVE MaintenanceSound /\ [MaintenanceNext]_mvars => MaintenanceSound'
<1> SUFFICES ASSUME MaintenanceSound, [MaintenanceNext]_mvars PROVE MaintenanceSound' OBVIOUS
<1>0. JobsSound /\ DiagnosesSound /\ OrdersSound /\ anomaly \in SUBSET Ticks /\ clock.now \in Ticks
    BY DEF MaintenanceSound, JobsSound, DiagnosesSound
<1>1. CASE ClockMoves
    <2>1. clock'.now \in Ticks BY <1>1 DEF ClockMoves
    <2>2. UNCHANGED <<anomaly, call, run_status, diag_cache, diagnosis, work_order>> BY <1>1 DEF ClockMoves
    <2>3. JobsSound' /\ OrdersSound' BY <1>0, <2>2 DEF JobsSound, JobSound, Kept, OrdersSound, DoneIsResolved
    <2>4. DiagnosesSound' BY <1>0, <2>1, <2>2, DiagnosesKept
    <2> QED BY <2>3, <2>4 DEF MaintenanceSound
<1>2. ASSUME NEW c \in Detections, DetectionStep(c), UNCHANGED <<clock, diag_cache, diagnosis, work_order>> PROVE MaintenanceSound'
    <2>1. JobsSound' BY <1>0, <1>2, DetectionSound
    <2>2. anomaly \subseteq anomaly' /\ anomaly' \in SUBSET Ticks
        BY <1>2, <2>1 DEF JobsSound, DetectionStep, run_detection, StartDetection, LoadAndPredict, save_residual_results, PublishStatus
    <2>3. DiagnosesSound' BY <1>0, <1>2, <2>2, DiagnosesKept
    <2>4. OrdersSound' BY <1>0, <1>2 DEF OrdersSound, DoneIsResolved
    <2> QED BY <2>1, <2>3, <2>4 DEF MaintenanceSound
<1>3. ASSUME NEW a \in Askers, run_diagnosis(a) \/ Diagnosed(a), UNCHANGED <<anomaly, clock, call, run_status, work_order>>
      PROVE  MaintenanceSound'
    <2>1. DiagnosesSound' BY <1>0, <1>3, DiagnosisRun, DiagnosisDone
    <2>2. JobsSound' /\ OrdersSound' BY <1>0, <1>3 DEF JobsSound, JobSound, Kept, OrdersSound, DoneIsResolved
    <2> QED BY <2>1, <2>2 DEF MaintenanceSound
<1>4. ASSUME NEW o \in Orders, insert_work_order(o) \/ update_work_order(o),
             UNCHANGED <<anomaly, clock, call, run_status, diag_cache, diagnosis>>
      PROVE  MaintenanceSound'
    <2>1. OrdersSound' BY <1>0, <1>4, OrderStep
    <2>2. JobsSound' BY <1>0, <1>4 DEF JobsSound, JobSound, Kept
    <2>3. DiagnosesSound' BY <1>0, <1>4, DiagnosesKept
    <2> QED BY <2>1, <2>2, <2>3 DEF MaintenanceSound
<1>5. CASE ServiceRestart
    <2>1. UNCHANGED <<anomaly, clock, work_order>> BY <1>5 DEF ServiceRestart
    <2>2. OrdersSound' BY <1>0, <2>1 DEF OrdersSound, DoneIsResolved
    <2>3. NoStatus \in DetectionStatuses /\ NoStatus.status = "not_found" BY DEF NoStatus, DetectionStatuses
    <2>4. run_status' = [j \in DetectionIds |-> NoStatus] BY <1>5 DEF ServiceRestart
    <2>5. call' \in [Detections -> DetectionCalls] /\ \A c \in Detections : call'[c].pc = "idle" => call'[c] = call[c]
        BY <1>0, <1>5 DEF ServiceRestart, JobsSound, DetectionCalls
    <2>6. \A c \in Detections : call'[c].pc \in {"idle", "end"} BY <1>0, <1>5 DEF ServiceRestart, JobsSound, DetectionCalls
    <2>7. ASSUME NEW c \in Detections PROVE JobSound(c)'
        <3>1. run_status'[JobIdOf[c]].status = "not_found" BY <2>3, <2>4 DEF DetectionIds
        <3>2. JobSound(c) BY <1>0 DEF JobsSound
        <3> QED BY <2>5, <2>6, <3>1, <3>2 DEF JobSound
    <2>8. JobsSound' BY <1>0, <2>1, <2>3, <2>4, <2>5, <2>7 DEF JobsSound
    <2>9. /\ diag_cache' = [d \in DOMAIN diag_cache |-> NoAnswer]
          /\ diagnosis' = [a \in Askers |-> [diagnosis[a] EXCEPT !.pc = "idle"]]
        BY <1>5 DEF ServiceRestart
    <2>10. \A r : WasRead(r)' <=> WasRead(r) BY <2>1 DEF WasRead, Total
    <2>11. \A a \in Askers : /\ DOMAIN diagnosis'[a] = {"pc", "read", "day", "answer"} /\ diagnosis'[a].pc = "idle"
                              /\ diagnosis'[a].answer = diagnosis[a].answer /\ diagnosis'[a].day = diagnosis[a].day
        BY <1>0, <2>9 DEF DiagnosesSound
    <2>12. DiagnosesSound' BY <1>0, <2>1, <2>9, <2>10, <2>11 DEF DiagnosesSound
    <2> QED BY <2>2, <2>8, <2>12 DEF MaintenanceSound
<1>6. CASE UNCHANGED mvars
    <2>1. JobsSound' /\ OrdersSound' BY <1>0, <1>6 DEF mvars, JobsSound, JobSound, Kept, OrdersSound, DoneIsResolved
    <2>2. DiagnosesSound' BY <1>0, <1>6, DiagnosesKept DEF mvars
    <2> QED BY <2>1, <2>2 DEF MaintenanceSound
<1> QED BY <1>1, <1>2, <1>3, <1>4, <1>5, <1>6 DEF MaintenanceNext

\* A detection reported done is stored, a cached diagnosis is of its day and counts recorded
\* anomalies, and a work order is resolved exactly when done, under restarts, when no two calls
\* get one job id (anomalies.py, cms.py).
THEOREM DoneIsStored == ASSUME JobIdsDiffer PROVE MaintenanceSpec => []MaintenanceInv
<1> QED
  BY MaintenanceStarts, MaintenanceStep, MaintenanceSoundEnough, PTL DEF MaintenanceSpec

(***************************************************************************)
(* The gated serving call.  CallSound says at each stage what has been     *)
(* collected and that it is the configuration's; TasksSound says that the  *)
(* separate tasks of the DAG, which get nothing but the payload, decide    *)
(* alike.                                                                  *)
(***************************************************************************)

ServeFields == {"at", "payload", "config", "features", "loaded", "forecasts", "warnings"}

\* A call that passed a gate still runs on the configuration it loaded, and has kept what each stage made of it.
CallSound ==
    LET c == serve.config
        After(stages) == serve.at \in stages
    IN  /\ DOMAIN serve = ServeFields
        /\ After({"idle", "loaded", "gated", "built", "model", "warning", "cross", "published", "blocked"})
        /\ ~After({"idle"}) => serve.payload \in Payloads
        /\ After({"loaded", "gated", "built", "model", "warning", "cross", "published"}) =>
              c = load_model_serving_run_config(serve.payload)
        /\ After({"gated", "built", "model", "warning", "cross", "published"}) =>
              gate_model_serving_manual_nonprod_run(c)
        /\ After({"built", "model", "warning", "cross", "published"}) => serve.features = c.meters
        /\ After({"warning"}) => c.lane
        /\ After({"warning", "cross", "published"}) => serve.forecasts = forecast_rows(c, c.meters)
        /\ After({"idle", "loaded", "gated", "built", "model", "warning"}) => serve.warnings = {}
        /\ After({"cross", "published"}) =>
              serve.warnings = IF c.lane THEN {<<u, c.base_ts, s>> : u \in c.urns, s \in LeadSteps} ELSE {}

\* The later tasks of the DAG answer for the one payload of the run.
TasksSound ==
    /\ task \in Seq(BOOLEAN) /\ Len(task) <= 7
    /\ task # <<>> => serve.at # "idle"
    /\ \A i \in 5..7 : i <= Len(task) =>
          task[i] = (fixture_mode_enabled(serve.payload) /\ fixture_dry_run_ok(serve.payload))

GatesSound == CallSound /\ TasksSound

\* The DAG has seven tasks; the last three read the packet.
LEMMA SevenTasks == Len(TASK_IDS) = 7 /\ \A i \in 5..7 : TASK_IDS[i] \notin {"load_config", "gate_run", "gate_artifacts", "input_queries"}
BY DEF TASK_IDS

\* What a stage leaves behind.
LEMMA PassFields ==
    ASSUME NEW step, NEW more, DOMAIN serve = ServeFields, Pass(step, more)
    PROVE  /\ DOMAIN serve' = ServeFields /\ serve'.at = step /\ task' = task
           /\ \A f \in ServeFields \ {"at"} : serve'[f] = IF f \in DOMAIN more THEN more[f] ELSE serve[f]
BY DEF Pass, ServeFields

\* A stage that only moves on, and one that blocks.
LEMMA PassPlain ==
    ASSUME NEW step, DOMAIN serve = ServeFields, Pass(step, <<>>)
    PROVE  /\ DOMAIN serve' = ServeFields /\ serve'.at = step /\ task' = task
           /\ serve'.payload = serve.payload /\ serve'.config = serve.config /\ serve'.features = serve.features
           /\ serve'.forecasts = serve.forecasts /\ serve'.warnings = serve.warnings
BY DEF Pass, ServeFields

\* A stage that refuses ends the call.
LEMMA BlockSound == ASSUME GatesSound, serve.at # "idle", Block PROVE GatesSound'
<1>1. DOMAIN serve = ServeFields BY DEF GatesSound, CallSound
<1>2. /\ DOMAIN serve' = ServeFields /\ serve'.at = "blocked" /\ task' = task /\ serve'.payload = serve.payload
    BY <1>1, PassPlain DEF Block
<1>3. CallSound' BY <1>2 DEF GatesSound, CallSound
<1>4. TasksSound' BY <1>2 DEF GatesSound, TasksSound
<1> QED BY <1>3, <1>4 DEF GatesSound

\* Nothing but the order of the tasks depends on the payload once the call has arrived.
LEMMA TasksStay ==
    ASSUME TasksSound, serve.at # "idle", serve'.at # "idle", serve'.payload = serve.payload, task' = task
    PROVE  TasksSound'
BY DEF TasksSound

\* Nothing is served at the start.
LEMMA GatesStarts == GatesInit => GatesSound
BY DEF GatesInit, GatesSound, CallSound, TasksSound, NoCall, ServeFields

\* The configuration is the payload's.
LEMMA LoadSound == ASSUME GatesSound, LoadConfig PROVE GatesSound'
<1>1. DOMAIN serve = ServeFields /\ serve.at = "idle" /\ serve.warnings = {} BY DEF GatesSound, CallSound, LoadConfig, At
<1>2. task = <<>> BY <1>1 DEF GatesSound, TasksSound
<1>3. PICK p \in Payloads :
         IF Loadable(p) THEN Pass("loaded", [payload |-> p, config |-> load_model_serving_run_config(p)])
                        ELSE Pass("blocked", [payload |-> p])
    BY DEF LoadConfig
<1> DEFINE c == load_model_serving_run_config(p)
<1>4. task' = task /\ serve'.at # "idle" BY <1>1, <1>3 DEF Pass, ServeFields
<1>5. TasksSound' BY <1>2, <1>4 DEF TasksSound
<1>6. CASE Loadable(p)
    <2> HIDE DEF c
    <2>0. Pass("loaded", [payload |-> p, config |-> c]) BY <1>3, <1>6 DEF c
    <2>1. /\ DOMAIN serve' = ServeFields /\ serve'.at = "loaded" /\ serve'.payload = p /\ serve'.config = c
          /\ serve'.warnings = serve.warnings
        BY <1>1, <2>0 DEF Pass, ServeFields
    <2> QED BY <2>1, <1>1, <1>5 DEF CallSound, GatesSound, c
<1>7. CASE ~Loadable(p)
    <2>1. DOMAIN serve' = ServeFields /\ serve'.at = "blocked" /\ serve'.payload = p BY <1>1, <1>3, <1>7 DEF Pass, ServeFields
    <2> QED BY <2>1, <1>5 DEF CallSound, GatesSound
<1> QED BY <1>6, <1>7

\* Past the gate the configuration is a manual, dry run outside production.
LEMMA GateSound == ASSUME GatesSound, Gate PROVE GatesSound'
<1>1. DOMAIN serve = ServeFields /\ serve.at = "loaded" BY DEF GatesSound, CallSound, Gate, At
<1>2. CASE Block BY <1>1, <1>2, BlockSound
<1>3. CASE gate_model_serving_manual_nonprod_run(serve.config) /\ Pass("gated", <<>>)
    <2>1. /\ DOMAIN serve' = ServeFields /\ serve'.at = "gated" /\ task' = task
          /\ serve'.payload = serve.payload /\ serve'.config = serve.config /\ serve'.warnings = serve.warnings
        BY <1>1, <1>3, PassPlain
    <2>2. TasksSound' BY <2>1, <1>1, TasksStay DEF GatesSound
    <2>3. CallSound' BY <2>1, <1>1, <1>3 DEF GatesSound, CallSound
    <2> QED BY <2>2, <2>3 DEF GatesSound
<1> QED BY <1>2, <1>3 DEF Gate

\* The features are the configured meters'.
LEMMA FeaturesSound == ASSUME GatesSound, build_pmax_features PROVE GatesSound'
<1>1. DOMAIN serve = ServeFields /\ serve.at = "gated" BY DEF GatesSound, CallSound, build_pmax_features, At
<1>2. CASE Block BY <1>1, <1>2, BlockSound
<1>3. CASE Pass("built", [features |-> serve.config.meters])
    <2>1. /\ DOMAIN serve' = ServeFields /\ serve'.at = "built" /\ task' = task /\ serve'.features = serve.config.meters
          /\ serve'.payload = serve.payload /\ serve'.config = serve.config /\ serve'.warnings = serve.warnings
        BY <1>1, <1>3 DEF Pass, ServeFields
    <2>2. TasksSound' BY <2>1, <1>1, TasksStay DEF GatesSound
    <2>3. CallSound' BY <2>1, <1>1 DEF GatesSound, CallSound
    <2> QED BY <2>2, <2>3 DEF GatesSound
<1> QED BY <1>2, <1>3 DEF build_pmax_features

\* Loading a release changes nothing that is published.
LEMMA ReleaseSound == ASSUME GatesSound, LoadRelease PROVE GatesSound'
<1>1. DOMAIN serve = ServeFields /\ serve.at = "built" BY DEF GatesSound, CallSound, LoadRelease, At
<1>2. CASE Block BY <1>1, <1>2, BlockSound
<1>3. ASSUME NEW x, Pass("model", [loaded |-> x]) PROVE GatesSound'
    <2>1. /\ DOMAIN serve' = ServeFields /\ serve'.at = "model" /\ task' = task /\ serve'.features = serve.features
          /\ serve'.payload = serve.payload /\ serve'.config = serve.config /\ serve'.warnings = serve.warnings
        BY <1>1, <1>3 DEF Pass, ServeFields
    <2>2. TasksSound' BY <2>1, <1>1, TasksStay DEF GatesSound
    <2>3. CallSound' BY <2>1, <1>1 DEF GatesSound, CallSound
    <2> QED BY <2>2, <2>3 DEF GatesSound
<1> QED BY <1>2, <1>3 DEF LoadRelease

\* The forecasts are those of the configured meters.
LEMMA ForecastSound == ASSUME GatesSound, run_pmax_forecast_adapter PROVE GatesSound'
<1>1. DOMAIN serve = ServeFields /\ serve.at = "model" /\ serve.features = serve.config.meters /\ serve.warnings = {}
    BY DEF GatesSound, CallSound, run_pmax_forecast_adapter, At
<1>2. CASE Block BY <1>1, <1>2, BlockSound
<1> DEFINE rows == forecast_rows(serve.config, serve.features)
           next == IF serve.config.lane THEN "warning" ELSE "cross"
<1>3. CASE Pass(next, [forecasts |-> rows])
    <2> HIDE DEF rows, next
    <2>1. /\ DOMAIN serve' = ServeFields /\ serve'.at = next /\ task' = task /\ serve'.features = serve.features
          /\ serve'.payload = serve.payload /\ serve'.config = serve.config /\ serve'.warnings = serve.warnings
          /\ serve'.forecasts = rows
        BY <1>1, <1>3 DEF Pass, ServeFields
    <2>2. TasksSound' BY <2>1, <1>1, TasksStay DEF GatesSound, next
    <2>3. CallSound' BY <2>1, <1>1 DEF GatesSound, CallSound, rows, next
    <2> QED BY <2>2, <2>3 DEF GatesSound
<1> QED BY <1>2, <1>3 DEF run_pmax_forecast_adapter

\* The rows the lane keeps are exactly the configured ones.
LEMMA LongRows ==
    ASSUME NEW answer, NEW c, c.base_ts = c.origin_ts, validate_long_rows_against_config(long_rows(answer), c)
    PROVE  long_rows(answer) = {<<u, c.base_ts, s>> : u \in c.urns, s \in LeadSteps}
<1> DEFINE rows == long_rows(answer)
<1>1. \A r \in rows : \E u, o : \E s \in LeadSteps : r = <<u, o, s>>
    BY DEF long_rows, anomaly_wide_to_long_rows
<1>2. \A r \in rows : r[1] \in c.urns /\ r[2] = c.base_ts BY DEF validate_long_rows_against_config
<1>3. \A u \in c.urns, s \in LeadSteps : <<u, c.base_ts, s>> \in rows BY DEF validate_long_rows_against_config
<1> HIDE DEF rows
<1>4. \A r \in rows : r \in {<<u, c.base_ts, s>> : u \in c.urns, s \in LeadSteps} BY <1>1, <1>2
<1>5. \A r \in {<<u, c.base_ts, s>> : u \in c.urns, s \in LeadSteps} : r \in rows BY <1>3
<1> QED BY <1>4, <1>5 DEF rows

\* The warnings are exactly the configured ones.
LEMMA WarningSound == ASSUME GatesSound, run_anomaly_warning_adapter PROVE GatesSound'
<1> DEFINE c == serve.config
<1>1. /\ DOMAIN serve = ServeFields /\ serve.at = "warning" /\ c.lane /\ c.base_ts = c.origin_ts
      /\ serve.features = c.meters /\ serve.forecasts = forecast_rows(c, c.meters)
    BY DEF GatesSound, CallSound, run_anomaly_warning_adapter, At, gate_model_serving_manual_nonprod_run
<1>2. CASE Block BY <1>1, <1>2, BlockSound
<1>3. ASSUME NEW answer, validate_long_rows_against_config(long_rows(answer), c), Pass("cross", [warnings |-> long_rows(answer)])
      PROVE  GatesSound'
    <2> DEFINE rows == long_rows(answer)
    <2>0. rows = {<<u, c.base_ts, s>> : u \in c.urns, s \in LeadSteps} BY <1>1, <1>3, LongRows
    <2> HIDE DEF rows
    <2>1. /\ DOMAIN serve' = ServeFields /\ serve'.at = "cross" /\ task' = task /\ serve'.features = serve.features
          /\ serve'.payload = serve.payload /\ serve'.config = serve.config /\ serve'.forecasts = serve.forecasts
          /\ serve'.warnings = rows
        BY <1>1, <1>3 DEF Pass, ServeFields, rows
    <2>2. TasksSound' BY <2>1, <1>1, TasksStay DEF GatesSound
    <2>3. CallSound' BY <2>0, <2>1, <1>1 DEF GatesSound, CallSound
    <2> QED BY <2>2, <2>3 DEF GatesSound
<1> QED BY <1>2, <1>3 DEF run_anomaly_warning_adapter

\* What is published is what was collected.
LEMMA PublishSound == ASSUME GatesSound, PublishEvidence PROVE GatesSound'
<1>1. DOMAIN serve = ServeFields /\ serve.at = "cross" BY DEF GatesSound, CallSound, PublishEvidence, At
<1>2. CASE Block BY <1>1, <1>2, BlockSound
<1>3. CASE Pass("published", <<>>)
    <2>1. /\ DOMAIN serve' = ServeFields /\ serve'.at = "published" /\ task' = task
          /\ serve'.payload = serve.payload /\ serve'.config = serve.config /\ serve'.features = serve.features
          /\ serve'.forecasts = serve.forecasts /\ serve'.warnings = serve.warnings
        BY <1>1, <1>3, PassPlain
    <2>2. TasksSound' BY <2>1, <1>1, TasksStay DEF GatesSound
    <2>3. CallSound' BY <2>1, <1>1 DEF GatesSound, CallSound
    <2> QED BY <2>2, <2>3 DEF GatesSound
<1> QED BY <1>2, <1>3 DEF PublishEvidence

\* A task's answer depends on the payload alone.
LEMMA TaskSound == ASSUME GatesSound, RunTask PROVE GatesSound'
<1> DEFINE n == Len(task) + 1
           packet == fixture_mode_enabled(serve.payload) /\ fixture_dry_run_ok(serve.payload)
<1>1. serve.at # "idle" /\ serve' = serve /\ Len(task) < 7 /\ task \in Seq(BOOLEAN)
    BY SevenTasks DEF GatesSound, TasksSound, RunTask, At
<1>2. PICK mount \in Mounts : task' = Append(task, airflow_task_entrypoint(TASK_IDS[n], serve.payload, mount))
    BY DEF RunTask
<1> DEFINE answer == airflow_task_entrypoint(TASK_IDS[n], serve.payload, mount)
<1>3. n \in 5..7 => answer = packet
    <2> SUFFICES ASSUME n \in 5..7 PROVE answer = packet OBVIOUS
    <2>1. TASK_IDS[n] \notin {"load_config", "gate_run", "gate_artifacts", "input_queries"} BY SevenTasks
    <2> QED BY <2>1 DEF airflow_task_entrypoint
<1>4. answer \in BOOLEAN
    <2>1. ASSUME NEW id PROVE airflow_task_entrypoint(id, serve.payload, mount) \in BOOLEAN
        BY DEF airflow_task_entrypoint, Loadable, parse_base_ts, gate_model_serving_manual_nonprod_run, gate_manual_nonprod_run,
               gate_model_serving_artifacts, gate_pmax_model_artifact, build_model_serving_input_queries, fixture_mode_enabled,
               explicit_true
    <2> QED BY <2>1
<1> HIDE DEF answer
<1>5. task' \in Seq(BOOLEAN) /\ Len(task') = n /\ task'[n] = answer /\ \A i \in 1..Len(task) : task'[i] = task[i]
    BY <1>1, <1>2, <1>4 DEF answer
<1>6. TasksSound'
    <2>1. ASSUME NEW i \in 5..7, i <= Len(task') PROVE task'[i] = packet
        <3>1. CASE i = n BY <1>3, <1>5, <3>1
        <3>2. CASE i # n
            <4>1. i <= Len(task) /\ i \in 1..Len(task) BY <1>1, <1>5, <2>1, <3>2
            <4>2. task[i] = packet BY <4>1 DEF GatesSound, TasksSound
            <4> QED BY <4>1, <4>2, <1>5
        <3> QED BY <3>1, <3>2
    <2>2. packet' = packet BY <1>1
    <2>3. \A i \in 5..7 : i <= Len(task') => task'[i] = packet' BY <2>1, <2>2
    <2>4. task' \in Seq(BOOLEAN) /\ Len(task') <= 7 /\ serve'.at # "idle" BY <1>1, <1>5
    <2> HIDE DEF packet
    <2> QED BY <2>3, <2>4 DEF TasksSound, packet
<1>7. CallSound' BY <1>1 DEF GatesSound, CallSound
<1> QED BY <1>6, <1>7 DEF GatesSound

\* Every stage keeps the call sound.
LEMMA GatesStep == GatesSound /\ [GatesNext]_svars => GatesSound'
<1> SUFFICES ASSUME GatesSound, [GatesNext]_svars PROVE GatesSound' OBVIOUS
<1>1. CASE LoadConfig BY <1>1, LoadSound
<1>2. CASE Gate BY <1>2, GateSound
<1>3. CASE build_pmax_features BY <1>3, FeaturesSound
<1>4. CASE LoadRelease BY <1>4, ReleaseSound
<1>5. CASE run_pmax_forecast_adapter BY <1>5, ForecastSound
<1>6. CASE run_anomaly_warning_adapter BY <1>6, WarningSound
<1>7. CASE AnomalyLaneMissing BY <1>7, BlockSound DEF AnomalyLaneMissing, At
<1>8. CASE PublishEvidence BY <1>8, PublishSound
<1>9. CASE RunTask BY <1>9, TaskSound
<1>10. CASE UNCHANGED svars BY <1>10 DEF svars, GatesSound, CallSound, TasksSound
<1> QED BY <1>1, <1>2, <1>3, <1>4, <1>5, <1>6, <1>7, <1>8, <1>9, <1>10 DEF GatesNext

\* A published packet is complete and dry, and the tasks agree with it.
LEMMA GatesSoundEnough == GatesSound => EvidenceInv
<1> SUFFICES ASSUME GatesSound PROVE EvidenceInv OBVIOUS
<1>1. PacketIsComplete
    <2> SUFFICES ASSUME serve.at = "published" PROVE PacketIsComplete BY DEF PacketIsComplete, At
    <2> DEFINE c == serve.config
               p == serve.payload
    <2>1. /\ p \in PayloadType /\ c = load_model_serving_run_config(p) /\ gate_model_serving_manual_nonprod_run(c)
          /\ serve.forecasts = forecast_rows(c, c.meters)
          /\ serve.warnings = IF c.lane THEN {<<u, c.base_ts, s>> : u \in c.urns, s \in LeadSteps} ELSE {}
        <3>1. serve.payload \in Payloads BY DEF GatesSound, CallSound
        <3>2. p \in PayloadType BY <3>1, ServingGatesAssumption
        <3> QED BY <3>2 DEF GatesSound, CallSound
    <2>2. p.environment # "prod" /\ Truth(p.writes_enabled, FALSE) = FALSE
        <3>1. c.environment = p.environment /\ c.writes_enabled = Truth(p.writes_enabled, FALSE)
            <4>1. /\ load_model_serving_run_config(p).environment = p.environment
                  /\ load_model_serving_run_config(p).writes_enabled = Truth(p.writes_enabled, FALSE)
                BY Zenon DEF load_model_serving_run_config
            <4> QED BY <2>1, <4>1, Zenon
        <3>2. c.environment # "prod" /\ ~c.writes_enabled BY <2>1 DEF gate_model_serving_manual_nonprod_run, gate_manual_nonprod_run
        <3>3. Truth(p.writes_enabled, FALSE) \in BOOLEAN BY DEF Truth
        <3> QED BY <3>1, <3>2, <3>3, Zenon
    <2>3. p.environment = "nonprod" /\ ~explicit_true(p.writes_enabled)
        BY <2>1, <2>2 DEF PayloadType, Truth, explicit_true, Raw
    <2>4. c.base_ts % 60 = 0 BY <2>1 DEF gate_model_serving_manual_nonprod_run
    <2> QED BY <2>1, <2>3, <2>4 DEF PacketIsComplete, forecast_rows
<1>2. TaskPacketIsDry
    <2> SUFFICES ASSUME Len(task) = 7, task[7] PROVE TaskPacketIsDry BY SevenTasks DEF TaskPacketIsDry
    <2> DEFINE p == serve.payload
    <2> DEFINE packet == fixture_mode_enabled(p) /\ fixture_dry_run_ok(p)
    <2>0. \A i \in 5..7 : task[i] = packet
        <3>1. \A i \in 5..7 : i <= Len(task) => task[i] = packet BY Zenon DEF GatesSound, TasksSound
        <3> HIDE DEF packet
        <3> QED BY <3>1
    <2> HIDE DEF packet
    <2>a. task[7] = packet /\ task[5] = packet /\ task[6] = packet
        <3>1. 5 \in 5..7 /\ 6 \in 5..7 /\ 7 \in 5..7 OBVIOUS
        <3> QED BY <2>0, <3>1, Zenon
    <2>1. (fixture_mode_enabled(p) /\ fixture_dry_run_ok(p)) /\ task[5] = task[7] /\ task[6] = task[7]
        BY <2>a, Zenon DEF packet
    <2>2. fixture_mode_enabled(p) /\ ~fixture_refuses(p) BY <2>1 DEF fixture_dry_run_ok
    <2>3. p \in PayloadType BY ServingGatesAssumption DEF GatesSound, CallSound, TasksSound
    <2>4. p.environment = "nonprod" /\ ~explicit_true(p.writes_enabled) /\ config_bool(p.manual_run)
        BY <2>2, <2>3 DEF fixture_refuses, PayloadType
    <2>5. task[5] /\ task[6] BY <2>1
    <2> QED BY <2>2, <2>4, <2>5 DEF TaskPacketIsDry
<1> QED BY <1>1, <1>2 DEF EvidenceInv

\* A published evidence packet is complete, for exactly the configured meters and origin, and dry,
\* and so is the one the tasks build (model_serving_pipeline.py).
THEOREM PacketsAreCompleteAndDry == GatesSpec => []EvidenceInv
<1> QED
  BY GatesStarts, GatesStep, GatesSoundEnough, PTL DEF GatesSpec

(***************************************************************************)
(* The parts together.  They share no variable, so each one's own          *)
(* inductive invariant is kept by the steps of all the others.             *)
(***************************************************************************)

\* The parts that serve a client's requests.
RequestsSound ==
    /\ part = "registry" => RegistrySound
    /\ part = "chat" => ChatSound
    /\ part = "maintenance" => MaintenanceSound

\* The gated serving call.
PacketsSound == part = "gates" => GatesSound

\* The parts that feed a model.
ModelInputSound ==
    /\ part = "readiness" => ReadinessSound
    /\ part = "inference" => InferenceSound
    /\ part = "windows" => WindowsSound

\* The parts that load tables before or beside the live ones.
LoadsSound ==
    /\ part = "preload" => PreloadSound
    /\ part = "publisher" => PublisherSound
    /\ part = "ontology" => OntologySound

\* The parts that count what the tables hold.
QualitySound ==
    /\ part = "coverage" => CoverageSound
    /\ part = "equalization" => EqSound

\* Only the part that was chosen moves, and by its own actions.
LEMMA OnePartMoves ==
    ASSUME [ComponentsNext]_componentvars
    PROVE  /\ part' = part
           /\ part = "registry" => [RegistryNext]_gvars
           /\ part = "chat" => [ChatNext]_cvars
           /\ part = "maintenance" => [MaintenanceNext]_mvars
           /\ part = "gates" => [GatesNext]_svars
           /\ part = "readiness" => [FeaturesNext]_fvars
           /\ part = "inference" => [InferenceNext]_ivars
           /\ part = "windows" => [WindowsNext]_wvars
           /\ part = "preload" => [PreloadNext]_lvars
           /\ part = "publisher" => [PublisherNext]_pubvars
           /\ part = "ontology" => [OntologyNext]_ovars
           /\ part = "coverage" => [CoverageNext]_qvars
           /\ part = "equalization" => [EqNext]_evars
<1>1. CASE ComponentsNext
  BY <1>1 DEF ComponentsNext, RegistryMoves, ChatMoves, MaintenanceMoves, CoverageMoves, GatesMoves, ReadinessMoves,
     EqualizationMoves, InferenceMoves, WindowsMoves, PreloadMoves, PublisherMoves, OntologyMoves, OthersStill
<1>2. CASE UNCHANGED componentvars
  BY <1>2 DEF componentvars
<1> QED
  BY <1>1, <1>2

\* The chosen part starts as it does by itself.
LEMMA PartsStart == ComponentsInit => RequestsSound /\ PacketsSound /\ ModelInputSound /\ LoadsSound /\ QualitySound
<1>1. ComponentsInit => RequestsSound
  BY RegistryStarts, ChatStarts, MaintenanceStarts DEF ComponentsInit, RequestsSound
<1>2. ComponentsInit => PacketsSound
  BY GatesStarts DEF ComponentsInit, PacketsSound
<1>3. ComponentsInit => ModelInputSound
  BY ReadinessStarts, InferenceStarts, WindowsStart DEF ComponentsInit, ModelInputSound
<1>4. ComponentsInit => LoadsSound
  BY PreloadStarts, PublisherStarts, OntologyStarts DEF ComponentsInit, LoadsSound
<1>5. ComponentsInit => QualitySound
  BY CoverageStarts, EqStarts DEF ComponentsInit, QualitySound
<1> QED
  BY <1>1, <1>2, <1>3, <1>4, <1>5

\* Each request's part keeps its own invariant, and the other parts do not touch it.
LEMMA RequestsStep ==
    ASSUME JobIdsDiffer PROVE RequestsSound /\ [ComponentsNext]_componentvars => RequestsSound'
<1> SUFFICES ASSUME RequestsSound, [ComponentsNext]_componentvars PROVE RequestsSound'
  OBVIOUS
<1> QED
  BY OnePartMoves, RegistryStep, ChatStep, MaintenanceStep DEF RequestsSound

\* So does the serving call,
LEMMA PacketsStep == PacketsSound /\ [ComponentsNext]_componentvars => PacketsSound'
<1> SUFFICES ASSUME PacketsSound, [ComponentsNext]_componentvars PROVE PacketsSound'
  OBVIOUS
<1> QED
  BY OnePartMoves, GatesStep DEF PacketsSound

\* the parts that feed a model.
LEMMA ModelInputStep == ModelInputSound /\ [ComponentsNext]_componentvars => ModelInputSound'
<1> SUFFICES ASSUME ModelInputSound, [ComponentsNext]_componentvars PROVE ModelInputSound'
  OBVIOUS
<1> QED
  BY OnePartMoves, ReadinessStep, InferenceStep, WindowsStep DEF ModelInputSound

\* the loads, when the archive's files are sorted,
LEMMA LoadsStep == ASSUME FilesInOrder PROVE LoadsSound /\ [ComponentsNext]_componentvars => LoadsSound'
<1> SUFFICES ASSUME LoadsSound, [ComponentsNext]_componentvars PROVE LoadsSound'
  OBVIOUS
<1> QED
  BY OnePartMoves, PreloadStep, PublisherStep, OntologyStep DEF LoadsSound

\* and the counts, when windows and chunks are made of whole buckets.
LEMMA QualityStep ==
    ASSUME ChunksAligned, GrainsNest PROVE QualitySound /\ [ComponentsNext]_componentvars => QualitySound'
<1> SUFFICES ASSUME QualitySound, [ComponentsNext]_componentvars PROVE QualitySound'
  OBVIOUS
<1> QED
  BY OnePartMoves, CoverageStep, EqStep DEF QualitySound

\* What a client asked for is what happens (RequestsInv): approvals, routes, chat rows and counters, stored detections
\* and diagnoses, for any number of clients, when no two detection calls get one job id (api.py, chat.py, anomalies.py).
THEOREM RequestsAreSound == ASSUME JobIdsDiffer PROVE ComponentsSpec => []RequestsInv
<1>1. RequestsSound => RequestsInv
  BY RegistrySoundEnough, ChatSoundEnough, MaintenanceSoundEnough DEF RequestsSound, RequestsInv
<1> QED
  BY PartsStart, RequestsStep, <1>1, PTL DEF ComponentsSpec

\* An accepted evidence packet is complete and dry (PacketInv), for every payload (model_serving_pipeline.py).
THEOREM PacketsAreSound == ComponentsSpec => []PacketInv
<1>1. PacketsSound => PacketInv
  BY GatesSoundEnough DEF PacketsSound, PacketInv
<1> QED
  BY PartsStart, PacketsStep, <1>1, PTL DEF ComponentsSpec

\* A model is fed what it was trained on (ModelInputInv), for every table of readings, every gap in it and every
\* window size and lookback the configuration allows (pmax readiness and windows, anomaly predictor).
THEOREM ModelInputsAreSound == ComponentsSpec => []ModelInputInv
<1>1. ModelInputSound => ModelInputInv
  BY ReadinessEnough, InferenceEnough, WindowsEnough DEF ModelInputSound, ModelInputInv
<1> QED
  BY PartsStart, ModelInputStep, <1>1, PTL DEF ComponentsSpec

\* What is logged as loaded is loaded, a replay that ends clean put its whole window on the topic, and the projection is
\* one revision (LoadsInv), for any files, archive and ontology, when the archive's files are sorted by time.
THEOREM LoadsAreSound == ASSUME FilesInOrder PROVE ComponentsSpec => []LoadsInv
<1>1. LoadsSound => LoadsInv
  BY PublisherEnough, OntologyEnough DEF LoadsSound, LoadsInv, PreloadSound
<1> QED
  BY PartsStart, LoadsStep, <1>1, PTL DEF ComponentsSpec

\* Reported gaps are the gaps and every document is counted once at every resolution (QualityInv), for any stream of
\* events and any cadence, when windows and chunks are made of whole buckets (live_coverage_qa.py, the adapters).
THEOREM CountsAreSound == ASSUME ChunksAligned, GrainsNest PROVE ComponentsSpec => []QualityInv
<1>1. QualitySound => QualityInv
  BY CoverageEnough, EqEnough DEF QualitySound, QualityInv
<1> QED
  BY PartsStart, QualityStep, <1>1, PTL DEF ComponentsSpec
==============================================================================
