--------------------------- MODULE StreamConsumer ---------------------------
(***************************************************************************)
(* The Kafka-to-PostgreSQL ingestion path: one partition of                *)
(* measurement_raw_v1, the consumers of the group postgres-live-ingest,    *)
(* the event ledger live.measurement_event with its BEFORE INSERT trigger, *)
(* and the dead-letter topic.                                              *)
(*                                                                         *)
(* A consumer polls a message, decides what to do with it, writes it to    *)
(* the ledger or to the dead-letter topic, and commits the offset only     *)
(* when the decision allows it.  The client's fetch position moves on when *)
(* a message is handed out, whatever happens to the message afterwards.    *)
(* Offsets count from 1: offset o is log[o], and committed = o says that   *)
(* the group resumes at o + 1.                                             *)
(***************************************************************************)
EXTENDS Naturals, Sequences

CONSTANTS
    Consumers,      \* consumer processes of the group
    NoConsumer,     \* "the partition is not assigned"
    Messages,       \* the messages producers may publish
    NoSourceId,     \* source_event_id IS NULL
    OffsetReset,    \* auto.offset.reset: "earliest" or "latest"
    Faults,         \* what the environment may do wrong, a subset of AllFaults
    MaxLog,         \* bound: messages published
    MaxCrashes,     \* bound: consumer crashes
    MaxRebalances   \* bound: partition revocations

(***************************************************************************)
(* db_write      the INSERT or its transaction fails and is rolled back    *)
(* db_ack_lost   the transaction commits but the client sees an exception  *)
(* dlq_timeout   the producer's flush leaves the message in its queue      *)
(* dlq_rejected  the broker refuses the dead letter; flush still drains    *)
(* kafka_commit  the synchronous offset commit raises                      *)
(* kafka_poll    poll hands out a broker error, which poll_message raises  *)
(***************************************************************************)
AllFaults == {"db_write", "db_ack_lost", "dlq_timeout", "dlq_rejected", "kafka_commit", "kafka_poll"}

(***************************************************************************)
(* "event"        passes parse_kafka_envelope and validate_raw_event       *)
(* "invalid"      decodes, but is not an object or fails validation        *)
(* "undecodable"  bytes that are not UTF-8                                 *)
(***************************************************************************)
MessageKinds == {"event", "invalid", "undecodable"}

ASSUME ConsumerAssumption == NoConsumer \notin Consumers
ASSUME OffsetResetAssumption == OffsetReset \in {"earliest", "latest"}
ASSUME FaultAssumption == Faults \subseteq AllFaults
ASSUME BoundAssumption == MaxLog \in Nat /\ MaxCrashes \in Nat /\ MaxRebalances \in Nat
ASSUME MessageAssumption == \A m \in Messages : m.kind \in MessageKinds

VARIABLES
    log,         \* the partition, a sequence of messages
    committed,   \* offset committed for the group
    owner,       \* the consumer the partition is assigned to
    pc,          \* where each consumer's loop stands
    position,    \* per consumer: the last offset its client handed out
    current,     \* per consumer: offset of the message in hand
    mayCommit,   \* per consumer: ConsumerDecision.commit_offset
    ledger,      \* rows of live.measurement_event
    applied,     \* per event_id: committed trigger runs that left its QA, 1min or queue rows
    deadLetters, \* offsets that reached measurement_dead_letter_v1
    crashes,     \* crashes so far
    rebalances   \* revocations so far

tables == <<ledger, applied, deadLetters>>
budget == <<crashes, rebalances>>
vars == <<log, committed, owner, pc, position, current, mayCommit, ledger,
          applied, deadLetters, crashes, rebalances>>

(***************************************************************************)
(* Identity of events.                                                     *)
(***************************************************************************)

\* The business key, which is also the ledger's primary key event_id.  An empty source
\* id does not count as one here, although it is not NULL for the ledger.
idempotency_key(m) ==
    IF m.source_event_id \notin {NoSourceId, ""}
    THEN <<"source_event", m.source_system, m.source_event_id>>
    ELSE <<"payload_hash", m.payload, m.payload>>

EventIds == {idempotency_key(m) : m \in {n \in Messages : n.kind = "event"}}

\* The ledger row the insert payload becomes.
RowOf(o) == [event_id |-> idempotency_key(log[o]),
             source_event_id |-> log[o].source_event_id,
             offset |-> o]

Rows == [event_id : EventIds, source_event_id : {m.source_event_id : m \in Messages}, offset : 1..MaxLog]

SameSource(r, s) == r.source_event_id # NoSourceId /\ r.source_event_id = s.source_event_id

\* Mutant: the guard compares transport coordinates only.
GuardHitOffsetOnly(r) == \E s \in ledger : s.offset = r.offset

\* The EXISTS of the trigger's idempotency guard.
GuardHit(r) == \E s \in ledger : \/ s.event_id = r.event_id
                                 \/ SameSource(r, s)
                                 \/ s.offset = r.offset

\* ON CONFLICT (event_id) DO NOTHING: no row is added, the trigger's writes stay.
KeyConflict(r) == \E s \in ledger : s.event_id = r.event_id

\* One of the other two unique indexes raises; the transaction rolls back.
IndexConflict(r) == \E s \in ledger : s.event_id # r.event_id /\ (SameSource(r, s) \/ s.offset = r.offset)

(***************************************************************************)
(* The consumer loop.  pc values: "down" (process not running), "poll"     *)
(* (top of the loop), "insert" (valid event, transaction not begun),       *)
(* "triggered" (trigger past its guard), "dlq" (validation failed),        *)
(* "decided" (process_kafka_message returned).                             *)
(***************************************************************************)
Locations == {"down", "poll", "insert", "triggered", "dlq", "decided"}

Goto(c, l) == pc' = [pc EXCEPT ![c] = l]

Decide(c, commit) ==
    /\ Goto(c, "decided")
    /\ mayCommit' = [mayCommit EXCEPT ![c] = commit]

\* Mutant: the client always resumes at the end of the log.
ResumeAtEnd == Len(log)

\* Where the client starts to fetch: after the group's committed offset.  A group
\* that has committed nothing (committed = 0) starts where auto.offset.reset says.
ResumeAt == IF committed = 0 /\ OffsetReset = "latest" THEN Len(log) ELSE committed

\* The finally block of the loop: writer and consumer are closed, the consumer leaves the group.
Close(c) ==
    /\ Goto(c, "down")
    /\ owner' = IF owner = c THEN NoConsumer ELSE owner

TypeOK ==
    /\ log \in Seq(Messages) /\ Len(log) <= MaxLog
    /\ committed \in 0..Len(log)
    /\ owner \in Consumers \cup {NoConsumer}
    /\ pc \in [Consumers -> Locations]
    /\ position \in [Consumers -> 0..Len(log)]
    /\ current \in [Consumers -> 0..Len(log)]
    /\ mayCommit \in [Consumers -> BOOLEAN]
    /\ ledger \subseteq Rows
    /\ applied \in [EventIds -> Nat]
    /\ deadLetters \subseteq 1..Len(log)
    /\ crashes \in 0..MaxCrashes
    /\ rebalances \in 0..MaxRebalances

Init ==
    /\ log = <<>>
    /\ committed = 0
    /\ owner = NoConsumer
    /\ pc = [c \in Consumers |-> "down"]
    /\ position = [c \in Consumers |-> 0]
    /\ current = [c \in Consumers |-> 0]
    /\ mayCommit = [c \in Consumers |-> FALSE]
    /\ ledger = {}
    /\ applied = [e \in EventIds |-> 0]
    /\ deadLetters = {}
    /\ crashes = 0
    /\ rebalances = 0

\* A producer appends a message; publishing the same event again is its retry.
Publish(m) ==
    /\ Len(log) < MaxLog
    /\ log' = Append(log, m)
    /\ UNCHANGED <<committed, owner, pc, position, current, mayCommit, tables, budget>>

\* The service starts and subscribes.  A static member that kept its assignment
\* resumes from the committed offset.
Start(c) ==
    /\ pc[c] = "down"
    /\ Goto(c, "poll")
    /\ position' = [position EXCEPT ![c] = ResumeAt]
    /\ UNCHANGED <<log, committed, owner, current, mayCommit, tables, budget>>

\* The group coordinator assigns the partition; the client seeks to the committed offset.
Assign(c) ==
    /\ owner = NoConsumer
    /\ pc[c] # "down"
    /\ owner' = c
    /\ position' = [position EXCEPT ![c] = ResumeAt]
    /\ UNCHANGED <<log, committed, pc, current, mayCommit, tables, budget>>

\* The coordinator takes the partition away: a member joined or left, or the
\* owner missed its session or poll deadline.  The old owner may still be busy
\* with a message.
Revoke ==
    /\ owner # NoConsumer
    /\ rebalances < MaxRebalances
    /\ rebalances' = rebalances + 1
    /\ owner' = NoConsumer
    /\ UNCHANGED <<log, committed, pc, position, current, mayCommit, tables, crashes>>

\* The session of a dead owner times out.
SessionTimeout ==
    /\ owner \in Consumers
    /\ pc[owner] = "down"
    /\ owner' = NoConsumer
    /\ UNCHANGED <<log, committed, pc, position, current, mayCommit, tables, budget>>

\* The process is killed: nothing is closed, nothing is committed.
Crash(c) ==
    /\ pc[c] # "down"
    /\ crashes < MaxCrashes
    /\ crashes' = crashes + 1
    /\ Goto(c, "down")
    /\ UNCHANGED <<log, committed, owner, position, current, mayCommit, tables, rebalances>>

\* Mutant: the position runs one message ahead of what was handed out.
PollMessageAhead(c) ==
    /\ pc[c] = "poll"
    /\ owner = c
    /\ position[c] < Len(log)
    /\ LET o == position[c] + 1 IN
         /\ log[o].kind # "undecodable"
         /\ position' = [position EXCEPT ![c] = o + 1]
         /\ current' = [current EXCEPT ![c] = o]
         /\ Goto(c, IF log[o].kind = "event" THEN "insert" ELSE "dlq")
    /\ UNCHANGED <<log, committed, owner, mayCommit, tables, budget>>

\* poll_message returns the next message and process_kafka_message takes its
\* first decision.
PollMessage(c) ==
    /\ pc[c] = "poll"
    /\ owner = c
    /\ position[c] < Len(log)
    /\ LET o == position[c] + 1 IN
         /\ log[o].kind # "undecodable"
         /\ position' = [position EXCEPT ![c] = o]
         /\ current' = [current EXCEPT ![c] = o]
         /\ Goto(c, IF log[o].kind = "event" THEN "insert" ELSE "dlq")
    /\ UNCHANGED <<log, committed, owner, mayCommit, tables, budget>>

\* A broker error, or bytes that are not UTF-8 in _message_to_envelope: the exception
\* leaves the loop through its finally block.
PollRaises(c) ==
    /\ pc[c] = "poll"
    /\ \/ "kafka_poll" \in Faults
       \/ /\ owner = c
          /\ position[c] < Len(log)
          /\ log[position[c] + 1].kind = "undecodable"
    /\ Close(c)
    /\ UNCHANGED <<log, committed, position, current, mayCommit, tables, budget>>

\* poll_message returns None max_idle_polls times: the loop ends and closes.
IdleExit(c) ==
    /\ pc[c] = "poll"
    /\ owner # c \/ position[c] = Len(log)
    /\ Close(c)
    /\ UNCHANGED <<log, committed, position, current, mayCommit, tables, budget>>

\* The INSERT reaches the trigger, whose guard finds the event: RETURN NULL,
\* no row and no side effect, the write result is "duplicate".
TriggerSkips(c) ==
    /\ pc[c] = "insert"
    /\ GuardHit(RowOf(current[c]))
    /\ Decide(c, TRUE)
    /\ UNCHANGED <<log, committed, owner, position, current, tables, budget>>

\* The guard finds nothing; the trigger goes on to its side effects.
TriggerProceeds(c) ==
    /\ pc[c] = "insert"
    /\ ~ GuardHit(RowOf(current[c]))
    /\ Goto(c, "triggered")
    /\ UNCHANGED <<log, committed, owner, position, current, mayCommit, tables, budget>>

\* What the committed transaction leaves behind.  Another consumer may have
\* committed the same event since the guard looked.
CommitTransaction(r) ==
    IF IndexConflict(r)
    THEN UNCHANGED tables
    ELSE /\ ledger' = IF KeyConflict(r) THEN ledger ELSE ledger \cup {r}
         /\ applied' = [applied EXCEPT ![r.event_id] = @ + 1]
         /\ UNCHANGED deadLetters

\* insert_measurement_event succeeds, with or without duplicate_event.
InsertSucceeds(c) ==
    /\ pc[c] = "triggered"
    /\ CommitTransaction(RowOf(current[c]))
    /\ Decide(c, TRUE)
    /\ UNCHANGED <<log, committed, owner, position, current, budget>>

\* The write fails and is rolled back: succeeded = False, action "retry".
InsertFails(c) ==
    /\ "db_write" \in Faults
    /\ pc[c] \in {"insert", "triggered"}
    /\ Decide(c, FALSE)
    /\ UNCHANGED <<log, committed, owner, position, current, tables, budget>>

\* The server commits but the client gets an exception: reported as a failure.
InsertAckLost(c) ==
    /\ "db_ack_lost" \in Faults
    /\ pc[c] = "triggered"
    /\ CommitTransaction(RowOf(current[c]))
    /\ Decide(c, FALSE)
    /\ UNCHANGED <<log, committed, owner, position, current, budget>>

\* The dead letter is delivered and flush returns 0.
DlqAcknowledged(c) ==
    /\ pc[c] = "dlq"
    /\ deadLetters' = deadLetters \cup {current[c]}
    /\ Decide(c, TRUE)
    /\ UNCHANGED <<log, committed, owner, position, current, ledger, applied, budget>>

\* flush leaves the message in the queue and produce raises; it may still be
\* delivered in the background.
DlqTimesOut(c) ==
    /\ "dlq_timeout" \in Faults
    /\ pc[c] = "dlq"
    /\ deadLetters' \in {deadLetters, deadLetters \cup {current[c]}}
    /\ Decide(c, FALSE)
    /\ UNCHANGED <<log, committed, owner, position, current, ledger, applied, budget>>

\* The broker refuses the message.  With on_delivery=None nobody sees the
\* delivery report, flush returns 0 and produce answers acknowledged.
DlqRejected(c) ==
    /\ "dlq_rejected" \in Faults
    /\ pc[c] = "dlq"
    /\ Decide(c, TRUE)
    /\ UNCHANGED <<log, committed, owner, position, current, tables, budget>>

\* Mutant: the caller adds one to the offset, as the client does already.
CommitOffsetNext(c) ==
    /\ pc[c] = "decided"
    /\ mayCommit[c]
    /\ committed' = IF current[c] < Len(log) THEN current[c] + 1 ELSE current[c]
    /\ Goto(c, "poll")
    /\ UNCHANGED <<log, owner, position, current, mayCommit, tables, budget>>

\* consumer.commit(raw_message): the broker takes the offset of any live member
\* of the group, whether or not the partition is still assigned to it.
CommitOffset(c) ==
    /\ pc[c] = "decided"
    /\ mayCommit[c]
    /\ committed' = current[c]
    /\ Goto(c, "poll")
    /\ UNCHANGED <<log, owner, position, current, mayCommit, tables, budget>>

\* The commit is refused because the member was fenced, or fails: the exception
\* ends the loop.
CommitRaises(c) ==
    /\ pc[c] = "decided"
    /\ mayCommit[c]
    /\ owner # c \/ "kafka_commit" \in Faults
    /\ Close(c)
    /\ UNCHANGED <<log, committed, position, current, mayCommit, tables, budget>>

\* commit_offset is False: the loop goes straight to its next poll.
SkipCommit(c) ==
    /\ pc[c] = "decided"
    /\ ~ mayCommit[c]
    /\ Goto(c, "poll")
    /\ UNCHANGED <<log, committed, owner, position, current, mayCommit, tables, budget>>

\* One turn of the consumer's own code.
ConsumerStep(c) ==
    \/ PollMessage(c) \/ PollRaises(c)
    \/ TriggerSkips(c) \/ TriggerProceeds(c)
    \/ InsertSucceeds(c) \/ InsertFails(c) \/ InsertAckLost(c)
    \/ DlqAcknowledged(c) \/ DlqTimesOut(c) \/ DlqRejected(c)
    \/ CommitOffset(c) \/ CommitRaises(c) \/ SkipCommit(c)

Next ==
    \/ \E m \in Messages : Publish(m)
    \/ \E c \in Consumers : Start(c) \/ Assign(c) \/ Crash(c) \/ IdleExit(c) \/ ConsumerStep(c)
    \/ Revoke
    \/ SessionTimeout

Spec == Init /\ [][Next]_vars

(***************************************************************************)
(* Fairness.  A running consumer keeps executing its loop; compose starts a*)
(* stopped one again (restart: unless-stopped); the coordinator expires    *)
(* dead sessions.  Assignment is strongly fair: a consumer idles for       *)
(* max_idle_polls seconds before it leaves, far longer than the            *)
(* coordinator needs to hand out a free partition.                         *)
(***************************************************************************)
Fairness ==
    /\ \A c \in Consumers : WF_vars(ConsumerStep(c)) /\ WF_vars(Start(c))
    /\ SF_vars(\E c \in Consumers : Assign(c))
    /\ WF_vars(SessionTimeout)

FairSpec == Spec /\ Fairness

(***************************************************************************)
(* Properties.                                                             *)
(***************************************************************************)

\* The message at offset o has found its place: its event is in the ledger, or
\* the dead-letter topic holds it.
Resolved(o) ==
    IF log[o].kind = "event"
    THEN \E r \in ledger : r.event_id = idempotency_key(log[o])
    ELSE o \in deadLetters

\* Offsets are committed only after the ledger transaction or the dead-letter
\* publish succeeded (decide_offset_commit): the group never resumes beyond a
\* message that was not stored.
CommittedResolved == \A o \in 1..committed : Resolved(o)

\* A duplicate or replayed message has no QA, 1min or queue side effect
\* (handle_measurement_event_insert): the trigger ran to its end exactly once
\* for every event in the ledger and never for any other.
TriggerEffectsOnce ==
    \A e \in EventIds : applied[e] = IF \E r \in ledger : r.event_id = e THEN 1 ELSE 0

\* The environment never makes a write or a dead letter disappear, a fresh group
\* reads from the beginning, and no two source systems share a source_event_id.
LossyFaults == {"db_write", "dlq_timeout", "dlq_rejected"}

Lossless ==
    /\ Faults \cap LossyFaults = {}
    /\ OffsetReset = "earliest"
    /\ \A m, n \in Messages :
          (m.kind = "event" /\ n.kind = "event" /\ SameSource(m, n)) => idempotency_key(m) = idempotency_key(n)

(***************************************************************************)
(* The inductive invariant behind CommittedResolved.                       *)
(***************************************************************************)

\* The kind of the message in hand agrees with the place in the loop.
InHand ==
    \A c \in Consumers :
        /\ pc[c] \in {"insert", "triggered", "dlq", "decided"} => current[c] \in 1..Len(log)
        /\ pc[c] \in {"insert", "triggered"} => log[current[c]].kind = "event"
        /\ pc[c] = "dlq" => log[current[c]].kind # "event"

\* A ledger row is the row of the message at its offset.
LedgerFaithful ==
    \A r \in ledger : /\ r.offset \in 1..Len(log)
                      /\ log[r.offset].kind = "event"
                      /\ r = RowOf(r.offset)

\* Nothing unresolved lies behind a consumer, except the message it has in hand.
NothingLeftBehind ==
    \A c \in Consumers :
        /\ pc[c] # "down" =>
             \A o \in 1..position[c] :
                 Resolved(o) \/ (o = current[c] /\ pc[c] \in {"insert", "triggered", "dlq"})
        /\ pc[c] \in {"insert", "triggered", "dlq"} => \A o \in 1..(current[c] - 1) : Resolved(o)
        /\ pc[c] = "decided" => \A o \in 1..current[c] : Resolved(o)

\* Inductive when Lossless: the loop's positions, the message in hand and the
\* committed offset never leave an unstored message behind.
IInv == TypeOK /\ InHand /\ LedgerFaithful /\ CommittedResolved /\ NothingLeftBehind

\* Every published message is eventually stored or dead-lettered
\* (process_kafka_message: valid events are written, poison goes to the DLQ).
EveryMessageResolved ==
    \A o \in 1..MaxLog : (o <= Len(log)) ~> (o <= Len(log) /\ Resolved(o))

\* The consumer group implements the at-least-once contract: the mapping takes
\* an offset as stored when its message is resolved.
Contract == INSTANCE IngestContract WITH stored <- {o \in 1..Len(log) : Resolved(o)}

\* Every behaviour of the consumer group is one of the contract.
ImplementsContract == Contract!Spec

=============================================================================
