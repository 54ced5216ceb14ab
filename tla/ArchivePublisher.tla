-------------------------- MODULE ArchivePublisher --------------------------
(***************************************************************************)
(* Replays of the measurement archive by hand.  backfill_source_publisher  *)
(* sends windows of the archive to the backfill topic, one run per window, *)
(* repeated while it exits with an error; ingest_replay posts one window   *)
(* to the ingestion API.  Both merge sorted files by time.                 *)
(*                                                                         *)
(* A row is a pair of its file's place and its number there.  A producer   *)
(* may lose a message, store it and report an error, or still hold it when *)
(* flush gives up; its reports are only seen in poll and flush.            *)
(***************************************************************************)
EXTENDS Integers, Sequences, FiniteSets

CONSTANTS Archived,       \* the files, sorted by path: meter, and rows with a time and a kind
          Cuts,           \* borders of the windows, in order
          MaxFiles, RequiredMeters,
          MaxPublished,   \* --max-events
          QueueLimit,     \* capacity of the producer's queue
          MaxRepeats      \* bound: runs of one window

\* kinds: "value", "empty" (fails the raw event contract), "unparsable" (no time: never read)
Kinds == {"value", "empty", "unparsable"}
ASSUME ArchiveAssumption ==
    /\ Archived \in Seq([meter : Nat, rows : Seq([ts : Nat, kind : Kinds])])
    /\ Cuts \in Seq(Nat) /\ \A i \in DOMAIN Cuts \ {1} : Cuts[i - 1] < Cuts[i]
    /\ {MaxFiles, MaxPublished, QueueLimit, MaxRepeats} \subseteq Nat \ {0} /\ RequiredMeters \in Nat

WindowNos == 1..(Len(Cuts) - 1)
FileNos == DOMAIN Archived
AllRows == UNION {{f} \X DOMAIN Archived[f].rows : f \in FileNos}
RowTime(r) == Archived[r[1]].rows[r[2]].ts
Kind(r) == Archived[r[1]].rows[r[2]].kind

VARIABLES mode,     \* --selection-mode: "first-files", "meter-balanced" or "all-meters" (publisher only)
          job,      \* the run in progress: tool, window, at, its files in merge order, last row read of each, current row, counts
          pending,  \* the producer's queue
          reports,  \* delivery reports not yet seen: pairs of a row and its outcome
          sent,     \* what reached the topic: triples of a run id, a file and a row
          exits,    \* window -> exit code of its last publisher run, "none", or "refused" by either tool
          repeats   \* window -> runs started
pubvars == <<mode, job, pending, reports, sent, exits, repeats>>

NoJob == [tool |-> "none", window |-> 0, at |-> "over", order |-> <<>>, read |-> [f \in FileNos |-> 0], row |-> <<>>,
          emitted |-> 0, invalid |-> 0, errors |-> 0, acked |-> 0]
PublisherInit == /\ mode \in {"first-files", "meter-balanced", "all-meters"}
                 /\ job = NoJob /\ pending = {} /\ reports = {} /\ sent = {}
                 /\ exits = [w \in WindowNos |-> "none"]
                 /\ repeats = [w \in WindowNos |-> 0]

-----------------------------------------------------------------------------
MetersOf(fs) == {Archived[f].meter : f \in fs}

\* Its place among the files of its meter: the round that meter-balanced takes it in.
Round(f) == Cardinality({g \in FileNos : g < f /\ Archived[g].meter = Archived[f].meter})
MeterOrder(f, g) == Archived[f].meter < Archived[g].meter

\* Mutant: meter-balanced forgets the rounds.
TakenBefore_by_meter(f, g) == MeterOrder(f, g) \/ (Archived[f].meter = Archived[g].meter /\ f < g)
TakenBefore(f, g) == \/ Round(f) < Round(g)
                     \/ Round(f) = Round(g) /\ MeterOrder(f, g)

select_source_files ==
    LET Before(f, g) == IF mode = "meter-balanced" THEN TakenBefore(f, g) ELSE f < g
        Place == [f \in FileNos |-> Cardinality({g \in FileNos : Before(g, f)})]
    IN [f \in {g \in FileNos : mode = "all-meters" \/ Place[g] < MaxFiles} |-> Place[f]]

\* The order of the merge: fast (heapq over open files) and bounded (files reread) agree on it.
MergedBefore(j, r, s) == \/ RowTime(r) < RowTime(s)
                         \/ RowTime(r) = RowTime(s) /\ j.order[r[1]] < j.order[s[1]]
                         \/ RowTime(r) = RowTime(s) /\ r[1] = s[1] /\ r[2] < s[2]

\* What iter_source_rows still yields of a file: rows with a time, from the start of the window on.
Unread(j, f) == {n \in (j.read[f] + 1)..Len(Archived[f].rows) :
                    Kind(<<f, n>>) # "unparsable" /\ RowTime(<<f, n>>) >= Cuts[j.window]}
\* The heap holds the first unread row of each file and gives the least: no row or one.
Heads(j) == {<<f, CHOOSE n \in Unread(j, f) : \A k \in Unread(j, f) : n <= k>> :
                f \in {g \in DOMAIN j.order : Unread(j, g) # {}}}
NextRow(j) == LET heads == Heads(j) IN {r \in heads : \A s \in heads \ {r} : MergedBefore(j, r, s)}

\* The publisher's window excludes its end, the injector's includes it.
\* Mutant: the publisher's window includes its end.
PastEnd_inclusive(j, t) == t > Cuts[j.window + 1]
PastEnd(j, t) == IF j.tool = "publisher" THEN t >= Cuts[j.window + 1] ELSE t > Cuts[j.window + 1]

Truncated(j) == j.emitted = MaxPublished
Ended(j) == Truncated(j) \/ \A r \in NextRow(j) : PastEnd(j, RowTime(r))

\* The publisher's event ids carry the run id, with its day key; the injector's only path and row.
SourceEventId(j, r) == <<IF j.tool = "publisher" THEN j.window ELSE 0, r[1], r[2]>>

-----------------------------------------------------------------------------
\* A run starts with the choice of its files and stops there when they have too few meters.
StartRun(tool, w) ==
    /\ job.at = "over" /\ repeats[w] < MaxRepeats
    /\ repeats' = [repeats EXCEPT ![w] = @ + 1]
    /\ IF Cardinality(MetersOf(DOMAIN select_source_files)) < RequiredMeters
       THEN /\ exits' = [exits EXCEPT ![w] = "refused"] /\ UNCHANGED job
       ELSE /\ job' = [NoJob EXCEPT !.tool = tool, !.window = w, !.at = "read", !.order = select_source_files]
            /\ UNCHANGED exits
    /\ UNCHANGED <<mode, pending, reports, sent>>

\* The operator publishes a window until its run exits with 0; a window may also be replayed.
StartPublisher(w) == exits[w] \in {"none", "failed"} /\ StartRun("publisher", w)
StartInjector(w) == mode # "all-meters" /\ StartRun("injector", w)

\* The loop reads the next row; a row that fails the contract is counted and left out by the
\* publisher and refused by the API for the injector.
ReadRow ==
    /\ job.at = "read" /\ ~Ended(job)
    /\ \E r \in NextRow(job) :
       LET j == [job EXCEPT !.read[r[1]] = r[2], !.row = r] IN
       job' = IF job.tool = "publisher" /\ Kind(r) = "empty" THEN [j EXCEPT !.invalid = @ + 1]
              ELSE [j EXCEPT !.emitted = @ + 1, !.at = IF job.tool = "publisher" THEN "produce" ELSE "post"]
    /\ UNCHANGED <<mode, pending, reports, sent, exits, repeats>>

Served(j, seen) == [j EXCEPT !.acked = @ + Cardinality({p \in seen : p[2] = "ok"}),
                             !.errors = @ + Cardinality({p \in seen : p[2] = "error"})]

\* produce and poll(0); on BufferError the loop polls and tries again.
Produce ==
    /\ job.at = "produce"
    /\ IF Cardinality(pending) < QueueLimit
       THEN /\ pending' = pending \cup {job.row}
            /\ job' = [Served(job, reports) EXCEPT !.at = "read"]
       ELSE job' = Served(job, reports) /\ UNCHANGED pending
    /\ reports' = {}
    /\ UNCHANGED <<mode, sent, exits, repeats>>

\* The client library: a message reaches the broker and is reported, is lost, or is stored although
\* its report is an error.
Deliver(r, outcome) ==
    /\ r \in pending /\ job.at # "over"
    /\ pending' = pending \ {r}
    /\ reports' = reports \cup {<<r, IF outcome = "stored" THEN "ok" ELSE "error">>}
    /\ sent' = IF outcome = "lost" THEN sent ELSE sent \cup {SourceEventId(job, r)}
    /\ UNCHANGED <<mode, job, exits, repeats>>

\* post_payload: the API stores no event that fails the contract; after a timeout the event may be in.
post_payload(r, outcome) == IF outcome = "lost" \/ Kind(r) = "empty" THEN sent ELSE sent \cup {SourceEventId(job, r)}

\* The injector counts an answer other than 202 accepted, a timeout too, as an error and goes on.
Post(outcome) ==
    /\ job.at = "post"
    /\ outcome = "stored" => Kind(job.row) # "empty"
    /\ sent' = post_payload(job.row, outcome)
    /\ job' = IF outcome = "stored" THEN [job EXCEPT !.at = "read", !.acked = @ + 1]
              ELSE [job EXCEPT !.at = "read", !.errors = @ + 1]
    /\ UNCHANGED <<mode, pending, reports, exits, repeats>>

\* Mutant: what flush leaves in the queue is not looked at.
FlushRemaining_ignored(left) == 0
FlushRemaining(left) == IF left = {} THEN 0 ELSE 1

ExitCode(j) == IF j.invalid + j.errors > 0 THEN "failed" ELSE "ok"

\* The end of the loop: flush(60) serves the reports and returns what is left, which dies with the
\* process; main turns the counts into the exit code.  The injector prints its counts.
Finish ==
    LET last == Served(job, reports)
        done == [last EXCEPT !.errors = @ + FlushRemaining(pending), !.at = "over"]
    IN /\ job.at = "read" /\ Ended(job)
       /\ job' = done
       /\ exits' = IF job.tool = "publisher" THEN [exits EXCEPT ![job.window] = ExitCode(done)] ELSE exits
       /\ pending' = {} /\ reports' = {}
       /\ UNCHANGED <<mode, sent, repeats>>

DeliveryOutcomes == {"stored", "lost", "stored_error"}
PublisherNext ==
    \/ \E w \in WindowNos : StartPublisher(w) \/ StartInjector(w)
    \/ \E r \in AllRows, o \in DeliveryOutcomes : Deliver(r, o)
    \/ ReadRow \/ Produce \/ Finish \/ \E o \in DeliveryOutcomes : Post(o)
PublisherSpec == PublisherInit /\ [][PublisherNext]_pubvars

-----------------------------------------------------------------------------
OfWindow(r, w) == Cuts[w] <= RowTime(r) /\ RowTime(r) < Cuts[w + 1]
Wanted(w) == {r \in AllRows : r[1] \in DOMAIN job.order /\ Kind(r) # "unparsable" /\ OfWindow(r, w)}
Published(w) == {<<i[2], i[3]>> : i \in {x \in sent : x[1] = w}}

Clean(j) == IF j.tool = "publisher" THEN exits[j.window] = "ok" ELSE j.errors = 0
\* A window whose run exited with 0 short of --max-events is on the topic as a whole, nothing of it
\* held back by a lost message, a full queue, a late report or a bad row (run, main of
\* backfill_source_publisher.py); a replay with no errors likewise.
CleanRunIsWhole ==
    job.at = "over" /\ job.tool # "none" /\ ~Truncated(job) /\ Clean(job) =>
        \A r \in Wanted(job.window) : SourceEventId(job, r) \in sent

\* The windows tile: no row is sent under two run ids, whatever was repeated
\* (the consumer tells events apart by their id).
NoRowUnderTwoRuns == \A v, w \in WindowNos : v # w => Published(v) \cap Published(w) = {}

\* meter-balanced takes as many meters as the limit allows, so a run it refuses for too few meters
\* could not have been made with that many files (select_source_files).
RefusedOnlyIfImpossible ==
    mode = "meter-balanced" /\ (\E w \in WindowNos : exits[w] = "refused") =>
        \A fs \in SUBSET FileNos : Cardinality(fs) <= MaxFiles => Cardinality(MetersOf(fs)) < RequiredMeters

ArchiveInv == CleanRunIsWhole /\ NoRowUnderTwoRuns /\ RefusedOnlyIfImpossible
=============================================================================
