---------------------------- MODULE SourceReplay ----------------------------
(***************************************************************************)
(* The live source: a supervisor replays an archive of measurements chunk  *)
(* by chunk through POST /ingest/measurements, resuming from the newest    *)
(* event its run has in the ledger.  Between the two lie the ingestion     *)
(* API, one Kafka partition per meter and the consumers, which store a     *)
(* message unless its source_event_id is already there.                    *)
(***************************************************************************)
EXTENDS Naturals, Sequences, FiniteSets

CONSTANTS
    Meters,        \* archive files, one measurement each
    Rank,          \* their order in the merge of equal timestamps
    TargetEnd,     \* event times are 0 .. TargetEnd - 1
    Archive,       \* the rows: pairs of a meter and an event time
    All,           \* the root with the whole archive
    DayLength,     \* event times per local day
    ChunkLength,   \* --chunk-hours, in event times
    ChunkEvents,   \* --max-events-per-chunk
    DayCache,      \* whether --day-cache-parent is given
    Cached,        \* the days that have a cache directory
    ReplayFaults,  \* what may go wrong, a subset of AllReplayFaults
    MaxCrashes,    \* bound: crashes of the supervisor
    MaxLag         \* bound: messages of a meter that wait for a consumer

(***************************************************************************)
(* refuse  a POST fails: invalid, producer down, timeout; it is not sent   *)
(* late    a POST is reported as failed but its message is delivered       *)
(* crash   the supervisor's container dies and is started again            *)
(***************************************************************************)
AllReplayFaults == {"refuse", "late", "crash"}

ASSUME ReplaySizes == {TargetEnd, DayLength, ChunkLength, ChunkEvents} \subseteq Nat \ {0} /\ {MaxCrashes, MaxLag} \subseteq Nat
ASSUME ReplayArchive == Archive \subseteq Meters \X (0 .. TargetEnd - 1) /\ IsFiniteSet(Archive)
ASSUME ReplayOrder == Rank \in [Meters -> Nat] /\ \A m, n \in Meters : Rank[m] = Rank[n] => m = n
ASSUME ReplayOptions == All \notin Nat /\ DayCache \in BOOLEAN /\ Cached \subseteq Nat /\ ReplayFaults \subseteq AllReplayFaults

VARIABLES
    pc,        \* the supervisor: choose, emit, complete or down
    root,      \* the source root of the chunk
    todo,      \* rows of the chunk that are not posted yet
    emitted,   \* rows of the chunk posted so far
    topic,     \* per meter: messages no consumer has handled
    ledger,    \* stored events
    crashes,
    refused    \* history: rows whose POST failed

rvars == <<pc, root, todo, emitted, topic, ledger, crashes, refused>>

DayOf(t) == t \div DayLength

Roots == {All} \cup {DayOf(t) : t \in 0 .. TargetEnd - 1}
Live == "live"

\* A cache directory holds the rows of its day, under the same relative paths.
RowsOf(r) == IF r = All THEN Archive ELSE {row \in Archive : DayOf(row[2]) = r}

\* Mutant: rows are numbered within the chunk.
EventIdInChunk(run, r, row) == <<run, row[1], emitted>>

\* source_event_id_for_row: run id, relative path and the row's number in its file.
EventId(run, r, row) == <<run, row[1], Cardinality({x \in RowsOf(r) : x[1] = row[1] /\ x[2] <= row[2]})>>

Event(run, r, row) == [row |-> row, id |-> EventId(run, r, row)]

Events == [row : Archive, id : {Live} \X Meters \X Nat]

Stored(row) == \E e \in ledger : e.row = row

InTopic(row) == \E m \in Meters : \E i \in DOMAIN topic[m] : topic[m][i].row = row

ReplayInit ==
    /\ pc = "choose" /\ root = All /\ todo = {} /\ emitted = 0
    /\ topic = [m \in Meters |-> <<>>] /\ ledger = {}
    /\ crashes = 0 /\ refused = {}

----------------------------------------------------------------------------
\* The supervisor loop.

\* latest_event_ts_for_run: the event times of this run's stored events.
RunTimes == {e.row[2] : e \in {x \in ledger : x.id[1] = Live}}

Newest(T) == CHOOSE t \in T : \A u \in T : u <= t

\* Mutant: resumes after the newest stored timestamp.
choose_resume_start_after == IF RunTimes = {} THEN 0 ELSE Newest(RunTimes) + 1

\* Inclusive: peers of the newest timestamp may be missing.
choose_resume_start == IF RunTimes = {} THEN 0 ELSE Newest(RunTimes)

source_root_for_start(s) == IF DayCache /\ DayOf(s) \in Cached THEN DayOf(s) ELSE All

Least(a, b) == IF a < b THEN a ELSE b

\* Mutant: every chunk ends at local midnight.
chunk_end_at_midnight(s) == Least(Least(s + ChunkLength, TargetEnd), (DayOf(s) + 1) * DayLength)

chunk_end(s) ==
    LET end == Least(s + ChunkLength, TargetEnd)
    IN  IF DayCache THEN Least(end, (DayOf(s) + 1) * DayLength) ELSE end

\* One turn of run_supervisor's loop up to the replay: the window is start-inclusive and
\* end-exclusive.
ChooseChunk ==
    /\ pc = "choose"
    /\ LET s == choose_resume_start IN
         IF s >= TargetEnd THEN pc' = "complete" /\ UNCHANGED <<root, todo, emitted>> ELSE
           /\ pc' = "emit" /\ emitted' = 0
           /\ root' = source_root_for_start(s)
           /\ todo' = {row \in RowsOf(root') : s <= row[2] /\ row[2] < chunk_end(s)}
    /\ UNCHANGED <<topic, ledger, crashes, refused>>

\* merged_rows: by event time, then by file.
Precedes(a, b) == a[2] < b[2] \/ (a[2] = b[2] /\ Rank[a[1]] < Rank[b[1]])

IsNext(row) == row \in todo /\ \A other \in todo : other = row \/ Precedes(row, other)

Send(row) == topic' = [topic EXCEPT ![row[1]] = Append(@, Event(Live, root, row))]

\* Mutant: the cap of a chunk is not looked at.
PostRowUncapped ==
    /\ pc = "emit"
    /\ \E row \in todo :
         /\ IsNext(row) /\ Len(topic[row[1]]) < MaxLag
         /\ todo' = todo \ {row} /\ emitted' = emitted + 1
         /\ Send(row)
    /\ UNCHANGED <<pc, root, ledger, crashes, refused>>

\* One iteration of the injector's loop; a failed POST is counted and the loop goes on.
\* Bound: a row is refused once.
PostRow ==
    /\ pc = "emit" /\ emitted < ChunkEvents
    /\ \E row \in todo :
         /\ IsNext(row) /\ Len(topic[row[1]]) < MaxLag
         /\ todo' = todo \ {row} /\ emitted' = emitted + 1
         /\ \/ Send(row) /\ UNCHANGED refused
            \/ "refuse" \in ReplayFaults /\ row \notin refused /\ refused' = refused \cup {row} /\ UNCHANGED topic
            \/ "late" \in ReplayFaults /\ Send(row) /\ refused' = refused \cup {row}
    /\ UNCHANGED <<pc, root, ledger, crashes>>

\* The chunk is exhausted or at its cap; an empty one only sleeps before the next turn.
ChunkDone ==
    /\ pc = "emit" /\ (todo = {} \/ emitted = ChunkEvents)
    /\ pc' = "choose" /\ todo' = {} /\ emitted' = 0
    /\ UNCHANGED <<root, topic, ledger, crashes, refused>>

CrashSupervisor ==
    /\ "crash" \in ReplayFaults /\ crashes < MaxCrashes /\ pc \in {"choose", "emit"}
    /\ pc' = "down" /\ todo' = {} /\ emitted' = 0 /\ crashes' = crashes + 1
    /\ UNCHANGED <<root, topic, ledger, refused>>

\* restart: on-failure
RestartSupervisor ==
    /\ pc = "down" /\ pc' = "choose"
    /\ UNCHANGED <<root, todo, emitted, topic, ledger, crashes, refused>>

----------------------------------------------------------------------------
\* The consumers, as StreamConsumer shows them: at least once, in partition order, and a
\* message whose source_event_id is in the ledger changes nothing.

Store(e) == IF \E x \in ledger : x.id = e.id THEN ledger ELSE ledger \cup {e}

Consume(m) ==
    /\ topic[m] # <<>>
    /\ ledger' = Store(Head(topic[m]))
    /\ topic' = [topic EXCEPT ![m] = Tail(@)]
    /\ UNCHANGED <<pc, root, todo, emitted, crashes, refused>>

SupervisorStep == ChooseChunk \/ PostRow \/ ChunkDone \/ RestartSupervisor

ReplayNext == SupervisorStep \/ CrashSupervisor \/ \E m \in Meters : Consume(m)

\* The container is restarted, its loop never blocks for ever, the consumers keep up.
ReplayFairness == WF_rvars(SupervisorStep) /\ \A m \in Meters : WF_rvars(Consume(m))

ReplaySpec == ReplayInit /\ [][ReplayNext]_rvars /\ ReplayFairness

----------------------------------------------------------------------------
\* Types of the supervisor, the topic and the ledger.
ReplayTypeOK ==
    /\ pc \in {"choose", "emit", "complete", "down"} /\ root \in Roots
    /\ todo \subseteq Archive /\ emitted \in 0 .. ChunkEvents
    /\ topic \in [Meters -> Seq(Events)] /\ \A m \in Meters : Len(topic[m]) <= MaxLag
    /\ ledger \subseteq Events
    /\ crashes \in 0 .. MaxCrashes /\ refused \subseteq Archive

\* Wherever the supervisor crashes, inside a timestamp or behind the consumers, no row is
\* left behind the point it resumes from: a row that is neither stored nor on its way will
\* be read again, unless its POST was refused.
NoRowLeftBehind ==
    \A row \in Archive :
        \/ Stored(row) \/ InTopic(row) \/ row \in todo \/ row \in refused
        \/ row[2] >= choose_resume_start

\* The repeats of a resumed replay leave no trace: a row is stored at most once.
NoRowTwice == \A e, f \in ledger : e.row = f.row => e = f

\* Events are posted in the order of their times, so whatever precedes a posted event, or one
\* about to be posted, has been posted before it or is about to be; and a row has one id.
Handled(row) == Stored(row) \/ InTopic(row) \/ row \in refused
Posted == ledger \cup UNION {{topic[m][i] : i \in DOMAIN topic[m]} : m \in Meters}
PostedInOrder ==
    /\ \A e \in Posted : e = Event(Live, root, e.row)
    /\ \A e \in Posted : \A row \in Archive : row[2] < e.row[2] => Handled(row)
    /\ \A x \in todo : \A row \in Archive : row[2] < x[2] => row \in todo \/ Handled(row)

\* Every row of the window whose POST is not refused is stored in the end.
EveryRowReplayed == <>(\A row \in Archive : Stored(row) \/ row \in refused)

\* The supervisor runs until the window is exhausted, and then stops.
ReplayCompletes == <>(pc = "complete")

\* Replay: a crash leaves no row behind and stores none twice (live_source_supervisor.py).
ReplayInv == ReplayTypeOK /\ NoRowLeftBehind /\ NoRowTwice /\ PostedInOrder
============================================================================
