--------------------------- MODULE MCComponents ---------------------------
(***************************************************************************)
(* The components whose promises are about safety alone, each by itself:   *)
(* they meet only through tables that the module of the reading side takes *)
(* as input.  part names the component a behaviour moves; the variables of *)
(* the others are NotMoved.  Each instance is described at its constants.  *)
(***************************************************************************)
EXTENDS ReviewRegistry, ChatService, MaintenanceOps, CoverageQa, ServingGates,
        PmaxReadiness, LiveEqualization, AnomalyPredictor, PmaxWindows, PreloadJobs,
        ArchivePublisher, OntologyProjection

CONSTANTS j1, j2, t1, t2, c1, c2, a1, o1, p1, p2, x1, l1, l2, NotMoved

VARIABLE part

\* Registry: requests with up to two cues and one context key each, with and without overrides.
AtMost(S, n) == {X \in SUBSET S : Cardinality(X) <= n}
PlainRequest(cues, flags, coverage, failed) ==
    [cues |-> cues, flags |-> flags, request_type |-> Unset, agent_route |-> Unset, route_hint |-> Unset,
     coverage |-> coverage, failed |-> failed]
MCRequests ==
    {PlainRequest(c, f, "enough", FALSE) : c \in AtMost(Cues, 2), f \in AtMost(Flags, 1)}
    \cup {PlainRequest({c}, {}, cov, bad) : c \in Cues, cov \in {"none", "low"}, bad \in BOOLEAN}
    \cup {[PlainRequest({c}, {}, "low", bad) EXCEPT !.request_type = rt, !.agent_route = ar] :
             c \in {"approval", "evidence", "job"}, bad \in BOOLEAN,
             rt \in RequestTypes \cup {Unset}, ar \in AgentRoutes \cup {Unset}}
    \cup {[PlainRequest({c}, {}, "enough", bad) EXCEPT !.route_hint = h] :
             c \in {"approval", "evidence", "off_topic"}, bad \in BOOLEAN, h \in ChatRoutes}

\* Chat: questions whose words, scores and approval pull the router apart.
Score(a, r, f, c) == [anomaly |-> a, report |-> r, forecast |-> f, cms |-> c]
ChatQuestions ==
    {[cues |-> {"off_topic", "action"}, score |-> Score(0, 0, 0, 1), approved |-> TRUE],
     [cues |-> {"meter_urn", "action", "create_work_order"}, score |-> Score(0, 0, 0, 1), approved |-> TRUE],
     [cues |-> {"simulator"}, score |-> Score(0, 1, 0, 1), approved |-> FALSE],
     [cues |-> {"action", "approval"}, score |-> Score(0, 0, 0, 1), approved |-> TRUE]}

\* Maintenance: two detection calls with ids of their own.
MCJobIdOf == [c \in Detections |-> c]

\* Coverage: buckets of 2, 4 and 8 ticks, a window of whole buckets.
MCWidth == [r \in Resolutions |-> CASE r = "1min" -> 2 [] r = "15min" -> 4 [] r = "1h" -> 8]
AlignedWindows == {<<0, 8>>}

\* Gates: payloads with absent, boolean and textual flags, aligned and unaligned times.
MCPayloads ==
    [fixture : {"absent", "'true'"}, environment : {"nonprod", "prod"}, manual_run : {"absent", "False", "'false'"},
     dry_run : {"absent"}, writes_enabled : {"absent", "'false'", "True"}, base_ts : {60, 15, 7},
     origin_ts : {60, 0}, lane : {"absent", "True"},
     meters : {{"m1"}, {"m1", "m2"}, {"unknown"}}, urns : {{"u1"}, {"u1", "u2"}}]

\* Equalization: any set of ticks has an event; at most one tick has two or one without a value.
MCGrain == [g \in Resolutions4 |-> CASE g = "1min" -> 1 [] g = "5min" -> 2 [] g = "15min" -> 4 [] OTHER -> 8]
MCStreams ==
    LET Events(P) == [t \in P |-> <<"v">>]
    IN  {Events(P) : P \in SUBSET (0..7)}
        \cup UNION {{[Events(P) EXCEPT ![t] = x] : t \in P, x \in {<<"v", "v">>, <<"null">>}} : P \in SUBSET (0..7)}
MCWindows == {<<0, 8>>, <<0, 6>>}

\* P-Max windows: a meter with one source, one whose source was replaced, gaps in either column.
MCLogicalMeters == [V |-> <<"v">>, H |-> <<"h1", "h2">>]
Cells(S) == S \X {"P", "U"}
MCReadings ==
    {[v |-> Cells(0..5), h1 |-> (Cells(0..6)) \ gaps, h2 |-> h2] :
        gaps \in {{<<t, "P">> : t \in A} \cup {<<t, "U">> : t \in B} :
                    A \in SUBSET (2..6), B \in {{}, {1}, {4}, {6}, {3, 4}}},
        h2 \in {{}, Cells(0..6)}}
    \cup {[v |-> Cells(0..6) \ {<<t, c>>}, h1 |-> Cells(0..n), h2 |-> Cells(3..6)] :
             t \in 0..6, c \in {"P", "U"}, n \in {3, 5}}

\* Preload: the test and the validation file of a meter may overlap in w1.
FileRow(k, u) == [key |-> k, usable |-> u]
MCFeatures == <<FileRow("f1", TRUE), FileRow("f2", TRUE), FileRow("f3", TRUE)>>
MCFiles == {[warnings |-> w, features |-> MCFeatures, pmax |-> <<FileRow("p1", TRUE), FileRow("p2", FALSE)>>] :
              w \in {<<FileRow("w1", TRUE), FileRow("w2", TRUE), FileRow("w3", TRUE), FileRow("w1", TRUE),
                       FileRow("w4", FALSE)>>,
                     <<FileRow("w1", TRUE), FileRow("w2", TRUE), FileRow("w3", FALSE)>>}}

\* Publisher: two files of one meter and one of another, with rows that are no events.
ArchiveRow(t, k) == [ts |-> t, kind |-> k]
MCArchived ==
    <<[meter |-> 1, rows |-> <<ArchiveRow(0, "value"), ArchiveRow(1, "value"), ArchiveRow(2, "value")>>],
      [meter |-> 1, rows |-> <<ArchiveRow(1, "unparsable"), ArchiveRow(2, "value")>>],
      [meter |-> 2, rows |-> <<ArchiveRow(1, "value"), ArchiveRow(3, "empty")>>]>>
MCCuts == <<0, 2, 4>>

\* Ontology: the second revision replaces meter b by c, moves a to a new group, changes triples.
OGroup(g) == <<"equipment_group", g>>
OModel(h) == <<"hardware_model", h>>
OMeter(m) == <<"meter", m>>
OPair(m, n) == <<"redundancy_pair", m, n>>
OTriple(t) == <<"triple", t>>
MCRowsIn ==
    [v \in Revisions |->
       IF v = "r1" THEN {OGroup("g"), OModel("h"), OMeter("a"), OMeter("b"), OPair("a", "b"), OTriple("x")}
       ELSE {OGroup("g"), OGroup("k"), OModel("h"), OMeter("a"), OMeter("c"), OPair("a", "c"), OTriple("y")}]
MCNeeds ==
    [v \in Revisions |-> [k \in MCRowsIn[v] |->
       CASE k[1] = "meter" -> {OModel("h"), IF v = "r2" /\ k[2] = "a" THEN OGroup("k") ELSE OGroup("g")}
         [] k[1] = "redundancy_pair" -> {OMeter(k[2]), OMeter(k[3]), OGroup("g")}
         [] OTHER -> {}]]
-----------------------------------------------------------------------------
Parts == {"registry", "chat", "maintenance", "coverage", "gates", "readiness",
          "equalization", "inference", "windows", "preload", "publisher", "ontology"}

RegistryOff == record = NotMoved /\ asked = NotMoved /\ inline = NotMoved /\ thread = NotMoved
ChatOff ==
    /\ session = NotMoved /\ message = NotMoved /\ ask = NotMoved /\ performed = NotMoved
    /\ deletes = NotMoved
MaintenanceOff ==
    /\ anomaly = NotMoved /\ clock = NotMoved /\ call = NotMoved /\ run_status = NotMoved
    /\ diag_cache = NotMoved /\ diagnosis = NotMoved /\ work_order = NotMoved
CoverageOff ==
    /\ live_rows = NotMoved /\ rolled = NotMoved /\ scan = NotMoved /\ issues = NotMoved
    /\ onceGaps = NotMoved /\ coverageRuns = NotMoved
GatesOff == serve = NotMoved /\ task = NotMoved
ReadinessOff == features = NotMoved /\ serving_mode = NotMoved
EqualizationOff == eq = NotMoved
InferenceOff == answered = NotMoved /\ predicting = NotMoved
WindowsOff ==
    /\ table = NotMoved /\ artifact = NotMoved /\ dataset = NotMoved /\ batch = NotMoved
    /\ history = NotMoved
PreloadOff ==
    /\ files = NotMoved /\ preloaded = NotMoved /\ run_log = NotMoved /\ loader = NotMoved
    /\ starts = NotMoved
PublisherOff ==
    /\ mode = NotMoved /\ job = NotMoved /\ pending = NotMoved /\ reports = NotMoved /\ sent = NotMoved
    /\ exits = NotMoved /\ repeats = NotMoved
OntologyOff ==
    /\ revision = NotMoved /\ ontology = NotMoved /\ load_log = NotMoved /\ writing = NotMoved
    /\ projector = NotMoved /\ fetcher = NotMoved

\* The chosen component starts, the others are off.
ComponentsInit ==
    /\ part \in Parts
    /\ IF part = "registry" THEN RegistryInit ELSE RegistryOff
    /\ IF part = "chat" THEN ChatInit ELSE ChatOff
    /\ IF part = "maintenance" THEN MaintenanceInit ELSE MaintenanceOff
    /\ IF part = "coverage" THEN CoverageInit ELSE CoverageOff
    /\ IF part = "gates" THEN GatesInit ELSE GatesOff
    /\ IF part = "readiness" THEN FeaturesInit ELSE ReadinessOff
    /\ IF part = "equalization" THEN EqInit ELSE EqualizationOff
    /\ IF part = "inference" THEN InferenceInit ELSE InferenceOff
    /\ IF part = "windows" THEN WindowsInit ELSE WindowsOff
    /\ IF part = "preload" THEN PreloadInit ELSE PreloadOff
    /\ IF part = "publisher" THEN PublisherInit ELSE PublisherOff
    /\ IF part = "ontology" THEN OntologyInit ELSE OntologyOff

\* All but the chosen component keep their values.
Still(p, v) == IF part = p THEN TRUE ELSE UNCHANGED v
OthersStill ==
    /\ UNCHANGED part
    /\ Still("registry", gvars) /\ Still("chat", cvars)
    /\ Still("maintenance", mvars) /\ Still("coverage", qvars) /\ Still("gates", svars)
    /\ Still("readiness", fvars) /\ Still("equalization", evars) /\ Still("inference", ivars)
    /\ Still("windows", wvars) /\ Still("preload", lvars) /\ Still("publisher", pubvars)
    /\ Still("ontology", ovars)

RegistryMoves == part = "registry" /\ RegistryNext /\ OthersStill
ChatMoves == part = "chat" /\ ChatNext /\ OthersStill
MaintenanceMoves == part = "maintenance" /\ MaintenanceNext /\ OthersStill
CoverageMoves == part = "coverage" /\ CoverageNext /\ OthersStill
GatesMoves == part = "gates" /\ GatesNext /\ OthersStill
ReadinessMoves == part = "readiness" /\ FeaturesNext /\ OthersStill
EqualizationMoves == part = "equalization" /\ EqNext /\ OthersStill
InferenceMoves == part = "inference" /\ InferenceNext /\ OthersStill
WindowsMoves == part = "windows" /\ WindowsNext /\ OthersStill
PreloadMoves == part = "preload" /\ PreloadNext /\ OthersStill
PublisherMoves == part = "publisher" /\ PublisherNext /\ OthersStill
OntologyMoves == part = "ontology" /\ OntologyNext /\ OthersStill

ComponentsNext ==
    \/ RegistryMoves \/ ChatMoves \/ MaintenanceMoves \/ CoverageMoves
    \/ GatesMoves \/ ReadinessMoves \/ EqualizationMoves \/ InferenceMoves \/ WindowsMoves
    \/ PreloadMoves \/ PublisherMoves \/ OntologyMoves

componentvars == <<part, gvars, cvars, mvars, qvars, svars, fvars, evars, ivars, wvars, lvars, pubvars, ovars>>
ComponentsSpec == ComponentsInit /\ [][ComponentsNext]_componentvars

-----------------------------------------------------------------------------
\* What a client asked for is what happens: no approval is skipped on any route, a review keeps
\* its route, work orders and clock commands were approved, chat counters match their rows, and
\* a detection or diagnosis reported done is the stored one (api.py, chat.py, cms.py, anomalies.py).
RequestsInv ==
    /\ part = "registry" => RegistryTypeOK /\ ApprovalGateHolds /\ RouteIsStable /\ EnginesAgree
    /\ part = "chat" => ChatTypeOK /\ CountsMatchRows /\ AnswerHasQuestion /\ EffectsApproved
    /\ part = "maintenance" => MaintenanceInv

\* What a load reports as done is in the tables or on the topic, whole and once, whichever
\* batch, process or delivery failed (preload scripts, archive publisher, ontology projection).
LoadsInv ==
    /\ part = "preload" => LoggedIsLoaded
    /\ part = "publisher" => ArchiveInv
    /\ part = "ontology" => OntologyInv

\* The quality tables tell the truth about the data: issues are the gaps, and every point of
\* the raw events is counted in one bucket of each grain (coverage_worker.py, equalization).
QualityInv ==
    /\ part = "coverage" => IssuesAreTheGaps
    /\ part = "equalization" => EqualizationInv

\* A model is fed what it was trained on: one physical meter, no gap it did not learn from,
\* no value later than the origin (pmax readiness and windows, anomaly predictor).
ModelInputInv ==
    /\ part = "readiness" => VectorOfOneMeter
    /\ part = "windows" => WindowsInv
    /\ part = "inference" => InferenceInv

\* An accepted evidence packet is complete and dry (model_serving_pipeline.py, tasks).
PacketInv == part = "gates" => EvidenceInv
=============================================================================
