---------------------------- MODULE ChatService ----------------------------
(***************************************************************************)
(* The copilot: the question graph (graph.py and the agents it calls) and  *)
(* the chat sessions that store questions and answers (chat.py).  A        *)
(* request saves the question, runs the graph in a thread and saves the    *)
(* answer, each in a transaction of its own whose exceptions are           *)
(* swallowed; a streamed request may lose its client on the way, and       *)
(* sessions may be deleted at any time.                                    *)
(***************************************************************************)
EXTENDS Naturals, Sequences, FiniteSets

CONSTANTS
    Asks,           \* requests to POST /chat and POST /chat/stream
    Sessions,       \* session ids
    Questions,      \* what a question looks like to the rules, see QuestionType
    NoSession,
    SideEffects,    \* CMS_ROUTER_ENABLE_SIDE_EFFECTS
    MaxDeletes

Axes == {"anomaly", "report", "forecast", "cms"}
Routes == Axes \cup {"rag"}
TypeCues == {"off_topic", "meter_urn", "approval", "action"}
RouteCues == {"future", "equipment_count"}
ActionCues == {"create_work_order", "simulator", "date"}

\* The keyword tables that match, how often each routing table does, and whether
\* the caller's context says approved.
QuestionType == [cues : SUBSET (TypeCues \cup RouteCues \cup ActionCues), score : [Axes -> Nat], approved : BOOLEAN]

\* The words of an order to create a work order contain those of an action request.
ASSUME ChatQuestionsAssumption ==
    Questions \subseteq QuestionType /\ \A q \in Questions : "create_work_order" \in q.cues => "action" \in q.cues
ASSUME ChatOptionsAssumption == NoSession \notin Sessions /\ SideEffects \in BOOLEAN /\ MaxDeletes \in Nat
ASSUME ChatSessionAssumption == NoSession \notin [count : Nat, intent : {"", "cms", "off_topic"}]

VARIABLES
    session,    \* ops.chat_session: message_count and last_intent, or NoSession
    message,    \* ops.chat_message: the row each id was given to, or GoneRow
    ask,        \* the requests
    performed,  \* effects of the cms agent outside the chat tables
    deletes

cvars == <<session, message, ask, performed, deletes>>

NoAsk == [pc |-> "new", session |-> NoSession, first |-> FALSE, stream |-> FALSE, q |-> CHOOSE q \in Questions : TRUE,
          gone |-> FALSE, missed |-> FALSE, intent |-> "", answer |-> "none", by |-> "none"]

(***************************************************************************)
(* The question graph.                                                     *)
(***************************************************************************)

\* The rules always answer, so that the model call behind them is never made.
rule_classify_request_type(q) ==
    IF "off_topic" \in q.cues THEN "off_topic"
    ELSE IF "meter_urn" \in q.cues THEN "query"
    ELSE IF "approval" \in q.cues THEN "approval_required"
    ELSE IF "action" \in q.cues THEN "action_request"
    ELSE "query"

\* None when no table matches or the two best are level.
rule_classify_route(q) ==
    IF "future" \in q.cues THEN "forecast"
    ELSE IF "equipment_count" \in q.cues THEN "cms"
    ELSE LET best == {a \in Axes : \A b \in Axes \ {a} : q.score[a] > q.score[b]}
         IN  IF best # {} THEN CHOOSE a \in best : TRUE ELSE "none"

\* The model's word counts when it is one of the routes.
classify_chat_route(q, word) ==
    IF rule_classify_route(q) # "none" THEN rule_classify_route(q)
    ELSE IF word \in Routes THEN word ELSE "rag"

\* Mutant: the environment switch alone opens the gate.
side_effects_enabled_by_env(q) == SideEffects

side_effects_enabled(q) == SideEffects /\ q.approved

\* What the cms agent is asked to do: an action, or a status question.
CmsAction(q) ==
    IF "create_work_order" \in q.cues THEN "work_order"
    ELSE IF "simulator" \in q.cues \/ "date" \in q.cues THEN "simulator"
    ELSE "read"

\* A node of the graph: the answer it puts into the state and its effect.
cms_run(q) ==
    IF CmsAction(q) = "read" THEN [answer |-> "text", effect |-> "none"]
    ELSE IF side_effects_enabled(q) THEN [answer |-> "text", effect |-> CmsAction(q)]
    ELSE [answer |-> "approval_message", effect |-> "none"]

\* What a run of an agent meets: the model's word for the route and its text, whether
\* the forecast came back, and what the two warning tables gave.
Surroundings == [word : {"cms", "anomaly", "other"}, said : {"", "words"}, forecast : BOOLEAN,
                 mart : {"rows", "empty", "error"}, legacy : {"rows", "empty"}]

TextOf(said) == [answer |-> IF said = "" THEN "none" ELSE "text", effect |-> "none"]
Marked == [answer |-> "text", effect |-> "none"]

rag_run(env) == TextOf(env.said)
report_run(env) == TextOf(env.said)
\* A chart mark is added to the answer of a forecast that has no error...
forecast_run(env) == IF env.forecast THEN Marked ELSE TextOf(env.said)
\* ...and to one about warnings.  The legacy table is read when the mart cannot be,
\* and an error of that one reads as no warnings.
fetch_anomalies(env) == IF env.mart = "error" THEN env.legacy ELSE env.mart
anomaly_run(env) == IF fetch_anomalies(env) = "rows" THEN Marked ELSE TextOf(env.said)

agent_run(route, q, env) ==
    CASE route = "cms" -> cms_run(q)
      [] route = "forecast" -> forecast_run(env)
      [] route = "anomaly" -> anomaly_run(env)
      [] route = "report" -> report_run(env)
      [] route = "rag" -> rag_run(env)

critic(answer) == IF answer = "none" THEN "no_answer" ELSE answer

\* From classify_request_type to the end: the request types that are no query go from
\* resolve_request_to_route to the critic with an empty state; a query leaves the
\* intent field as it was given.
Invoke(q, env) ==
    LET type == rule_classify_request_type(q)
        route == classify_chat_route(q, env.word)
        run == agent_run(route, q, env)
    IN  CASE type = "off_topic" -> [intent |-> "off_topic", answer |-> "rejection", by |-> "none", effect |-> "none"]
          [] type \in {"action_request", "approval_required"} ->
               [intent |-> "cms", answer |-> critic("none"), by |-> "none", effect |-> "none"]
          [] OTHER -> [intent |-> "", answer |-> critic(run.answer), by |-> route, effect |-> run.effect]

Outcomes == [q \in Questions |-> {Invoke(q, env) : env \in Surroundings}]

(***************************************************************************)
(* The sessions.                                                           *)
(***************************************************************************)

ChatInit ==
    /\ session = [s \in Sessions |-> NoSession]
    /\ message = <<>>
    /\ ask = [a \in Asks |-> NoAsk]
    /\ performed = {}
    /\ deletes = 0

AskAt(a, pc) == ask[a].pc = pc
ChatRow(s, role, a, intent) == [session |-> s, role |-> role, ask |-> a, intent |-> intent]
GoneRow == [session |-> NoSession, role |-> "gone", ask |-> NoSession, intent |-> ""]
\* Mutant: only the row is written.
CountedNot(s, intent) == [session EXCEPT ![s].intent = intent]

Counted(s, intent) == [session EXCEPT ![s] = [count |-> @.count + 1, intent |-> intent]]

\* A request without a session id has a new one and is the first of its session.
chat(a, s, q, first, stream) ==
    /\ AskAt(a, "new")
    /\ ask' = [ask EXCEPT ![a] = [NoAsk EXCEPT !.pc = "save_question", !.session = s, !.q = q, !.first = first, !.stream = stream]]
    /\ UNCHANGED <<session, message, performed, deletes>>

\* Mutant: the session row is committed on its own and the question is left to later.
save_user_message_session_only(a) ==
    LET s == ask[a].session
    IN  /\ AskAt(a, "save_question")
        /\ session' = IF session[s] = NoSession THEN [session EXCEPT ![s] = [count |-> 0, intent |-> ""]] ELSE session
        /\ ask' = [ask EXCEPT ![a].pc = "invoke"]
        /\ UNCHANGED <<message, performed, deletes>>

\* ON CONFLICT DO NOTHING, then the row and the count, in one transaction.
save_user_message(a) ==
    LET s == ask[a].session
        base == IF ask[a].first /\ session[s] = NoSession THEN [session EXCEPT ![s] = [count |-> 0, intent |-> ""]]
                ELSE session
    IN  /\ AskAt(a, "save_question")
        /\ base[s] # NoSession
        /\ session' = [base EXCEPT ![s].count = @ + 1]
        /\ message' = Append(message, ChatRow(s, "user", a, ""))
        /\ ask' = [ask EXCEPT ![a].pc = "invoke"]
        /\ UNCHANGED <<performed, deletes>>

\* The foreign key or the connection fails: printed and forgotten.
save_user_message_fails(a) ==
    /\ AskAt(a, "save_question")
    /\ ask' = [ask EXCEPT ![a].pc = "invoke", ![a].missed = TRUE]
    /\ UNCHANGED <<session, message, performed, deletes>>

\* The graph in a thread of the pool; a client that is gone does not stop it.
invoke_graph(a) ==
    /\ AskAt(a, "invoke")
    /\ \E r \in Outcomes[ask[a].q] :
             /\ ask' = [ask EXCEPT ![a].pc = IF ask[a].gone THEN "done" ELSE "answer",
                                   ![a].intent = r.intent, ![a].answer = r.answer, ![a].by = r.by]
             /\ performed' = performed \cup ({<<a, r.effect>>} \ {<<a, "none">>})
    /\ UNCHANGED <<session, message, deletes>>

\* The import of build_graph, a model call or a query of an agent raises.
invoke_graph_raises(a) ==
    /\ AskAt(a, "invoke")
    /\ ask' = [ask EXCEPT ![a].pc = "done", ![a].answer = "error"]
    /\ UNCHANGED <<session, message, performed, deletes>>

\* The generator of a streamed answer is closed at one of its yields.
Disconnect(a) ==
    /\ ask[a].stream /\ ~ ask[a].gone
    /\ \/ AskAt(a, "invoke") /\ ask' = [ask EXCEPT ![a].gone = TRUE]
       \/ AskAt(a, "answer") /\ ask' = [ask EXCEPT ![a].gone = TRUE, ![a].pc = "done"]
    /\ UNCHANGED <<session, message, performed, deletes>>

save_assistant_message(a) ==
    LET s == ask[a].session
    IN  /\ AskAt(a, "answer")
        /\ session[s] # NoSession
        /\ session' = Counted(s, ask[a].intent)
        /\ message' = Append(message, ChatRow(s, "assistant", a, ask[a].intent))
        /\ ask' = [ask EXCEPT ![a].pc = "done"]
        /\ UNCHANGED <<performed, deletes>>

save_assistant_message_fails(a) ==
    /\ AskAt(a, "answer")
    /\ ask' = [ask EXCEPT ![a].pc = "done"]
    /\ UNCHANGED <<session, message, performed, deletes>>

\* Mutant: the rows of a deleted session stay.
delete_sessions_only(S) ==
    /\ deletes < MaxDeletes /\ \E s \in S : session[s] # NoSession
    /\ session' = [s \in Sessions |-> IF s \in S THEN NoSession ELSE session[s]]
    /\ deletes' = deletes + 1
    /\ UNCHANGED <<message, ask, performed>>

\* ON DELETE CASCADE; the serial never hands out the id of a deleted row again.
delete_sessions(S) ==
    /\ deletes < MaxDeletes /\ \E s \in S : session[s] # NoSession
    /\ session' = [s \in Sessions |-> IF s \in S THEN NoSession ELSE session[s]]
    /\ message' = [i \in DOMAIN message |-> IF message[i].session \in S THEN GoneRow ELSE message[i]]
    /\ deletes' = deletes + 1
    /\ UNCHANGED <<ask, performed>>

AskStep(a) ==
    \/ save_user_message(a) \/ save_user_message_fails(a)
    \/ invoke_graph(a) \/ invoke_graph_raises(a)
    \/ save_assistant_message(a) \/ save_assistant_message_fails(a)

ChatNext ==
    \/ \E a \in Asks, s \in Sessions, q \in Questions, first, stream \in BOOLEAN : chat(a, s, q, first, stream)
    \/ \E a \in Asks : AskStep(a) \/ Disconnect(a)
    \/ \E s \in Sessions : delete_sessions({s})
    \/ delete_sessions(Sessions)

ChatSpec == ChatInit /\ [][ChatNext]_cvars

(***************************************************************************)
(* Properties.                                                             *)
(***************************************************************************)

ChatTypeOK ==
    /\ session \in [Sessions -> {NoSession} \cup [count : Nat, intent : {"", "cms", "off_topic"}]]
    /\ \A i \in DOMAIN message : message[i] = GoneRow \/ (message[i].session \in Sessions /\ message[i].ask \in Asks)
    /\ \A a \in Asks : ask[a].pc \in {"new", "save_question", "invoke", "answer", "done"}
    /\ performed \subseteq Asks \X {"work_order", "simulator"}
    /\ deletes \in 0 .. MaxDeletes

RowsOfSession(s) == {i \in DOMAIN message : message[i].session = s}

\* Concurrent requests, swallowed errors and deletions leave message_count equal to
\* the number of rows of every session, and no row of a session that is gone.
CountsMatchRows ==
    \A s \in Sessions : Cardinality(RowsOfSession(s)) = IF session[s] = NoSession THEN 0 ELSE session[s].count

\* A stored answer comes after the stored question of its request, unless the
\* question could not be saved or a deletion took it away in between.
AnswerHasQuestion ==
    deletes = 0 => \A i \in DOMAIN message :
        message[i].role = "assistant" /\ ~ ask[message[i].ask].missed =>
            \E k \in 1 .. i - 1 : message[k].role = "user" /\ message[k].ask = message[i].ask

\* Work orders and clock commands come from requests whose context was approved,
\* whatever route the rules or the model chose.
EffectsApproved == \A p \in performed : ask[p[1]].q.approved

\* What the graph's documentation says of requests that are no query: the cms agent
\* answers them.
ActionRequestsReachCms ==
    \A a \in Asks : ask[a].pc = "done" /\ ask[a].answer \notin {"none", "error"}
                    /\ rule_classify_request_type(ask[a].q) \in {"action_request", "approval_required"}
                    => ask[a].by = "cms"
=============================================================================
