------------------------ MODULE StreamConsumerProofs ------------------------
(***************************************************************************)
(* Proofs about StreamConsumer, for any set of consumers and messages and  *)
(* any bounds.                                                             *)
(***************************************************************************)
EXTENDS StreamConsumer, TLAPS

\* What a proof about one step needs to know of the state: the kinds of the
\* messages in hand keep ledger rows well typed.
TypeInv == TypeOK /\ InHand

\* The row of an event in the log is a ledger row.
LEMMA RowOfType ==
    ASSUME TypeOK, NEW o \in 1..Len(log), log[o].kind = "event"
    PROVE  RowOf(o) \in Rows
<1>1. log[o] \in Messages BY DEF TypeOK
<1>2. idempotency_key(log[o]) \in EventIds BY <1>1 DEF EventIds
<1>3. o \in 1..MaxLog BY BoundAssumption DEF TypeOK
<1> QED BY <1>1, <1>2, <1>3 DEF RowOf, Rows

\* The types hold at the start.
LEMMA InitType == Init => TypeInv
BY BoundAssumption DEF Init, TypeInv, TypeOK, InHand, Locations

\* A committed transaction keeps the types of the tables.
LEMMA TransactionType ==
    ASSUME TypeInv, NEW c \in Consumers, pc[c] = "triggered", CommitTransaction(RowOf(current[c]))
    PROVE  ledger' \subseteq Rows /\ applied' \in [EventIds -> Nat] /\ deadLetters' = deadLetters
<1>1. RowOf(current[c]) \in Rows BY RowOfType DEF TypeInv, InHand
<1>2. RowOf(current[c]).event_id \in EventIds BY <1>1 DEF Rows
<1> QED BY <1>1, <1>2 DEF TypeInv, TypeOK, CommitTransaction, tables

\* Every step keeps the types.
LEMMA NextType == TypeInv /\ [Next]_vars => TypeInv'
<1> SUFFICES ASSUME TypeInv, [Next]_vars PROVE TypeInv'
    OBVIOUS
<1> USE BoundAssumption, MessageAssumption DEF TypeInv, TypeOK, InHand, tables, budget, Locations, Goto, Decide, Close
<1>1. ASSUME NEW m \in Messages, Publish(m) PROVE TypeInv'
    BY <1>1 DEF Publish
<1>2. ASSUME NEW c \in Consumers, Start(c) PROVE TypeInv'
    BY <1>2 DEF Start, ResumeAt
<1>3. ASSUME NEW c \in Consumers, Assign(c) PROVE TypeInv'
    BY <1>3 DEF Assign, ResumeAt
<1>4. ASSUME NEW c \in Consumers, Crash(c) PROVE TypeInv'
    BY <1>4 DEF Crash
<1>5. ASSUME NEW c \in Consumers, IdleExit(c) PROVE TypeInv'
    BY <1>5 DEF IdleExit
<1>6. CASE Revoke
    BY <1>6 DEF Revoke
<1>7. CASE SessionTimeout
    BY <1>7 DEF SessionTimeout
<1>8. ASSUME NEW c \in Consumers, PollMessage(c) PROVE TypeInv'
    BY <1>8 DEF PollMessage
<1>9. ASSUME NEW c \in Consumers, PollRaises(c) PROVE TypeInv'
    BY <1>9 DEF PollRaises
<1>10. ASSUME NEW c \in Consumers, TriggerSkips(c) PROVE TypeInv'
    BY <1>10 DEF TriggerSkips
<1>11. ASSUME NEW c \in Consumers, TriggerProceeds(c) PROVE TypeInv'
    BY <1>11 DEF TriggerProceeds
<1>12. ASSUME NEW c \in Consumers, InsertSucceeds(c) PROVE TypeInv'
    BY <1>12, TransactionType DEF InsertSucceeds
<1>13. ASSUME NEW c \in Consumers, InsertFails(c) PROVE TypeInv'
    BY <1>13 DEF InsertFails
<1>14. ASSUME NEW c \in Consumers, InsertAckLost(c) PROVE TypeInv'
    BY <1>14, TransactionType DEF InsertAckLost
<1>15. ASSUME NEW c \in Consumers, DlqAcknowledged(c) PROVE TypeInv'
    BY <1>15 DEF DlqAcknowledged
<1>16. ASSUME NEW c \in Consumers, DlqTimesOut(c) PROVE TypeInv'
    BY <1>16 DEF DlqTimesOut
<1>17. ASSUME NEW c \in Consumers, DlqRejected(c) PROVE TypeInv'
    BY <1>17 DEF DlqRejected
<1>18. ASSUME NEW c \in Consumers, CommitOffset(c) PROVE TypeInv'
    BY <1>18 DEF CommitOffset
<1>19. ASSUME NEW c \in Consumers, CommitRaises(c) PROVE TypeInv'
    BY <1>19 DEF CommitRaises
<1>20. ASSUME NEW c \in Consumers, SkipCommit(c) PROVE TypeInv'
    BY <1>20 DEF SkipCommit
<1>21. CASE UNCHANGED vars
    BY <1>21 DEF vars
<1> QED
    BY <1>1, <1>2, <1>3, <1>4, <1>5, <1>6, <1>7, <1>8, <1>9, <1>10, <1>11, <1>12, <1>13,
       <1>14, <1>15, <1>16, <1>17, <1>18, <1>19, <1>20, <1>21 DEF Next, ConsumerStep

(***************************************************************************)
(* What is stored stays stored.                                            *)
(***************************************************************************)
LEMMA StorageMonotone ==
    ASSUME log' = log, ledger \subseteq ledger', deadLetters \subseteq deadLetters',
           NEW o, Resolved(o)
    PROVE  Resolved(o)'
BY DEF Resolved, idempotency_key

\* A new message leaves the offsets before it, and what is stored of them, as they were.
LEMMA StorageMonotoneOnPublish ==
    ASSUME TypeOK, NEW m \in Messages, Publish(m), NEW o \in 1..Len(log)
    PROVE  /\ o \in 1..Len(log')
           /\ log'[o] = log[o]
           /\ Resolved(o) <=> Resolved(o)'
<1>1. log'[o] = log[o] /\ Len(log') = Len(log) + 1 BY DEF TypeOK, Publish
<1> QED BY <1>1 DEF TypeOK, Publish, Resolved, idempotency_key, tables

\* A guard hit on a published event means that the event is in the ledger: the
\* source_event_id and the offset identify events as well as event_id does.
LEMMA HitIsStored ==
    ASSUME Lossless, TypeOK, LedgerFaithful,
           NEW o \in 1..Len(log), log[o].kind = "event",
           NEW s \in ledger,
           s.event_id = RowOf(o).event_id \/ SameSource(RowOf(o), s) \/ s.offset = RowOf(o).offset
    PROVE  s.event_id = idempotency_key(log[o])
<1>1. RowOf(o).event_id = idempotency_key(log[o]) /\ RowOf(o).offset = o
      /\ RowOf(o).source_event_id = log[o].source_event_id
    BY DEF RowOf
<1>2. s.offset \in 1..Len(log) /\ log[s.offset].kind = "event"
      /\ s.event_id = idempotency_key(log[s.offset])
      /\ s.source_event_id = log[s.offset].source_event_id
    BY DEF LedgerFaithful, RowOf
<1>3. log[o] \in Messages /\ log[s.offset] \in Messages BY <1>2 DEF TypeOK
<1>4. CASE SameSource(RowOf(o), s)
    <2>1. SameSource(log[o], log[s.offset]) BY <1>1, <1>2, <1>4 DEF SameSource
    <2> QED BY <2>1, <1>2, <1>3 DEF Lossless
<1> QED BY <1>1, <1>2, <1>4

\* When nothing is lossy, the transaction ends with the event in the ledger.
LEMMA TransactionStores ==
    ASSUME Lossless, TypeInv, LedgerFaithful, NEW c \in Consumers, pc[c] = "triggered",
           log' = log, current' = current, CommitTransaction(RowOf(current[c]))
    PROVE  /\ ledger \subseteq ledger'
           /\ deadLetters' = deadLetters
           /\ LedgerFaithful'
           /\ Resolved(current[c])'
<1> DEFINE o == current[c]
<1>1. o \in 1..Len(log) /\ log[o].kind = "event" BY DEF TypeInv, InHand
<1>2. RowOf(o).event_id = idempotency_key(log[o]) /\ RowOf(o).offset = o BY DEF RowOf
<1>3. ~ IndexConflict(RowOf(o)) BY <1>1, <1>2, HitIsStored DEF TypeInv, IndexConflict
<1>4. ledger' = (IF KeyConflict(RowOf(o)) THEN ledger ELSE ledger \cup {RowOf(o)}) /\ deadLetters' = deadLetters
    BY <1>3 DEF CommitTransaction
<1>5. LedgerFaithful'
    BY <1>1, <1>2, <1>4 DEF LedgerFaithful, RowOf, idempotency_key
<1>6. Resolved(o)'
    BY <1>1, <1>2, <1>4 DEF Resolved, KeyConflict, idempotency_key
<1> QED BY <1>4, <1>5, <1>6

\* Every variable of the ingestion path keeps its type: offsets stay inside the
\* log and ledger rows are rows of published events.
THEOREM TypeCorrect == Spec => []TypeOK
<1>1. TypeInv => TypeOK BY DEF TypeInv
<1> QED BY InitType, NextType, <1>1, PTL DEF Spec

\* The inductive invariant holds at the start.
LEMMA InitIInv == ASSUME Lossless PROVE Init => IInv
BY InitType DEF Init, TypeInv, IInv, LedgerFaithful, CommittedResolved, NothingLeftBehind

(***************************************************************************)
(* Steps that store nothing and only move consumers around.                *)
(***************************************************************************)
LEMMA QuietStep ==
    ASSUME IInv, TypeInv', UNCHANGED <<log, ledger, deadLetters>>, CommittedResolved', NothingLeftBehind'
    PROVE  IInv'
<1>1. LedgerFaithful' BY DEF IInv, LedgerFaithful, RowOf, idempotency_key
<1> QED BY <1>1 DEF IInv, TypeInv

\* What is stored is a matter of the log and the two tables.
LEMMA QuietResolved ==
    ASSUME UNCHANGED <<log, ledger, deadLetters>>
    PROVE  \A o : Resolved(o) <=> Resolved(o)'
BY DEF Resolved, idempotency_key

\* Every step keeps the inductive invariant.
LEMMA NextIInv == ASSUME Lossless PROVE IInv /\ [Next]_vars => IInv'
<1> SUFFICES ASSUME IInv, [Next]_vars PROVE IInv'
    OBVIOUS
<1>t. TypeInv /\ TypeInv' BY NextType DEF IInv, TypeInv
<1>e. ResumeAt = committed BY DEF Lossless, ResumeAt
<1> USE DEF IInv, CommittedResolved, NothingLeftBehind, tables, budget, Goto, Decide, Close, TypeOK
<1>1. ASSUME NEW m \in Messages, Publish(m) PROVE IInv'
    <2>1. \A o \in 1..Len(log) : log'[o] = log[o] /\ (Resolved(o) <=> Resolved(o)') /\ o \in 1..Len(log')
        BY <1>1, StorageMonotoneOnPublish
    <2>2. LedgerFaithful' BY <1>1, <2>1 DEF Publish, LedgerFaithful, RowOf, idempotency_key
    <2>3. CommittedResolved' BY <1>1, <2>1 DEF Publish
    <2>4. NothingLeftBehind' BY <1>1, <1>t, <2>1 DEF Publish, TypeInv, InHand
    <2> QED BY <1>t, <2>2, <2>3, <2>4 DEF TypeInv
<1>2. ASSUME NEW c \in Consumers, Start(c) PROVE IInv'
    BY <1>2, <1>t, <1>e, QuietStep, QuietResolved DEF Start
<1>3. ASSUME NEW c \in Consumers, Assign(c) PROVE IInv'
    BY <1>3, <1>t, <1>e, QuietStep, QuietResolved DEF Assign
<1>4. ASSUME NEW c \in Consumers, Crash(c) PROVE IInv'
    BY <1>4, <1>t, QuietStep, QuietResolved DEF Crash
<1>5. ASSUME NEW c \in Consumers, IdleExit(c) PROVE IInv'
    BY <1>5, <1>t, QuietStep, QuietResolved DEF IdleExit
<1>6. CASE Revoke
    BY <1>6, <1>t, QuietStep, QuietResolved DEF Revoke
<1>7. CASE SessionTimeout
    BY <1>7, <1>t, QuietStep, QuietResolved DEF SessionTimeout
<1>8. ASSUME NEW c \in Consumers, PollMessage(c) PROVE IInv'
    BY <1>8, <1>t, QuietStep, QuietResolved DEF PollMessage
<1>9. ASSUME NEW c \in Consumers, PollRaises(c) PROVE IInv'
    BY <1>9, <1>t, QuietStep, QuietResolved DEF PollRaises
<1>10. ASSUME NEW c \in Consumers, TriggerSkips(c) PROVE IInv'
    <2>1. current[c] \in 1..Len(log) /\ log[current[c]].kind = "event" BY <1>10, <1>t DEF TypeInv, InHand, TriggerSkips
    <2>2. Resolved(current[c]) BY <1>10, <2>1, HitIsStored DEF TriggerSkips, GuardHit, Resolved
    <2> QED BY <1>10, <1>t, <2>1, <2>2, QuietStep, QuietResolved DEF TriggerSkips
<1>11. ASSUME NEW c \in Consumers, TriggerProceeds(c) PROVE IInv'
    BY <1>11, <1>t, QuietStep, QuietResolved DEF TriggerProceeds
<1>12. ASSUME NEW c \in Consumers, InsertSucceeds(c) \/ InsertAckLost(c) PROVE IInv'
    <2>1. /\ pc[c] = "triggered"
          /\ CommitTransaction(RowOf(current[c]))
          /\ UNCHANGED <<log, committed, owner, position, current, budget>>
          /\ pc' = [pc EXCEPT ![c] = "decided"]
        BY <1>12 DEF InsertSucceeds, InsertAckLost
    <2>2. /\ ledger \subseteq ledger' /\ deadLetters' = deadLetters
          /\ LedgerFaithful' /\ Resolved(current[c])'
        BY <2>1, <1>t, TransactionStores
    <2>3. \A o : Resolved(o) => Resolved(o)' BY <2>1, <2>2, StorageMonotone
    <2>4. current[c] \in 1..Len(log) BY <2>1, <1>t DEF TypeInv, InHand
    <2>5. CommittedResolved' BY <2>1, <2>3
    <2>6. NothingLeftBehind' BY <2>1, <2>2, <2>3, <2>4
    <2> QED BY <1>t, <2>2, <2>5, <2>6 DEF TypeInv
<1>13. ASSUME NEW c \in Consumers, InsertFails(c) \/ DlqTimesOut(c) \/ DlqRejected(c) PROVE IInv'
    BY <1>13 DEF Lossless, LossyFaults, InsertFails, DlqTimesOut, DlqRejected
<1>14. ASSUME NEW c \in Consumers, DlqAcknowledged(c) PROVE IInv'
    <2>1. current[c] \in 1..Len(log) /\ log[current[c]].kind # "event" BY <1>14, <1>t DEF TypeInv, InHand, DlqAcknowledged
    <2>2. \A o : Resolved(o) => Resolved(o)' BY <1>14, StorageMonotone DEF DlqAcknowledged
    <2>3. Resolved(current[c])' BY <1>14, <2>1 DEF DlqAcknowledged, Resolved
    <2>4. LedgerFaithful' BY <1>14 DEF DlqAcknowledged, LedgerFaithful, RowOf, idempotency_key
    <2>5. CommittedResolved' BY <1>14, <2>2 DEF DlqAcknowledged
    <2>6. NothingLeftBehind' BY <1>14, <2>1, <2>2, <2>3 DEF DlqAcknowledged
    <2> QED BY <1>t, <2>4, <2>5, <2>6 DEF TypeInv
<1>15. ASSUME NEW c \in Consumers, CommitOffset(c) PROVE IInv'
    BY <1>15, <1>t, QuietStep, QuietResolved DEF CommitOffset
<1>16. ASSUME NEW c \in Consumers, CommitRaises(c) PROVE IInv'
    BY <1>16, <1>t, QuietStep, QuietResolved DEF CommitRaises
<1>17. ASSUME NEW c \in Consumers, SkipCommit(c) PROVE IInv'
    BY <1>17, <1>t, QuietStep, QuietResolved DEF SkipCommit
<1>18. CASE UNCHANGED vars
    BY <1>18, <1>t, QuietStep, QuietResolved DEF vars
<1> QED
    BY <1>1, <1>2, <1>3, <1>4, <1>5, <1>6, <1>7, <1>8, <1>9, <1>10, <1>11, <1>12, <1>13,
       <1>14, <1>15, <1>16, <1>17, <1>18 DEF Next, ConsumerStep

\* The consumer group's inductive invariant, whatever crashes, rebalances, zombie commits and
\* lost acknowledgements happen, as long as no write fails visibly, no dead letter is lost, the
\* group starts from the earliest offset and source_event_ids are not shared: positions, the
\* message in hand and the committed offset never leave an unstored message behind.
THEOREM NothingIsSkipped == ASSUME Lossless PROVE Spec => []IInv
BY InitIInv, NextIInv, PTL DEF Spec

\* Under the same proviso the committed offset covers stored messages only
\* (decide_offset_commit).
THEOREM CommittedIsStored == ASSUME Lossless PROVE Spec => []CommittedResolved
<1>1. IInv => CommittedResolved BY DEF IInv
<1> QED BY NothingIsSkipped, <1>1, PTL

(***************************************************************************)
(* Refinement of IngestContract, with stored mapped to Stored.             *)
(***************************************************************************)
Stored == {o \in 1..Len(log) : Resolved(o)}

\* Every step is a step of the contract or leaves its variables alone.
LEMMA StepImplements ==
    ASSUME Lossless PROVE IInv /\ IInv' /\ [Next]_vars => [Contract!Next]_<<log, Stored, committed>>
<1> SUFFICES ASSUME IInv, IInv', [Next]_vars PROVE [Contract!Next]_<<log, Stored, committed>>
    OBVIOUS
<1>t. TypeInv BY DEF IInv, TypeInv
<1> USE DEF tables, budget, Goto, Decide, Close
<1>1. ASSUME NEW m \in Messages, Publish(m) PROVE Contract!Accept
    <2>1. \A o \in 1..Len(log) : Resolved(o) <=> Resolved(o)' BY <1>1, <1>t, StorageMonotoneOnPublish DEF TypeInv
    <2>2. log' = Append(log, m) /\ committed' = committed BY <1>1 DEF Publish
    <2>3. 1..Len(log') = 1..Len(log) \cup {Len(log) + 1} BY <2>2, <1>t DEF TypeInv, TypeOK
    <2>4. Stored' \in {Stored, Stored \cup {Len(log) + 1}} BY <2>1, <2>3 DEF Stored
    <2> QED BY <2>2, <2>4 DEF Contract!Accept, Stored
<1>2. ASSUME UNCHANGED <<log, ledger, deadLetters>> PROVE Stored' = Stored
    BY <1>2, QuietResolved DEF Stored
<1>3. ASSUME NEW c \in Consumers,
             InsertSucceeds(c) \/ InsertAckLost(c) \/ DlqAcknowledged(c)
      PROVE  Contract!Store
    <2>1. log' = log /\ committed' = committed
        BY <1>3 DEF InsertSucceeds, InsertAckLost, DlqAcknowledged
    <2>2. ledger \subseteq ledger' /\ deadLetters \subseteq deadLetters'
        BY <1>3, <1>t DEF InsertSucceeds, InsertAckLost, DlqAcknowledged, CommitTransaction
    <2>3. \A o : Resolved(o) => Resolved(o)' BY <2>1, <2>2, StorageMonotone
    <2>4. Stored \subseteq Stored' /\ Stored' \in SUBSET (1..Len(log)) BY <2>1, <2>3 DEF Stored
    <2> QED BY <2>1, <2>4 DEF Contract!Store, Stored
<1>4. ASSUME NEW c \in Consumers, CommitOffset(c) PROVE Contract!Advance
    <2>1. log' = log /\ Stored' = Stored BY <1>4, <1>2 DEF CommitOffset
    <2>2. committed' \in 0..Len(log) /\ 1..committed' \subseteq Stored
        BY <1>4, <2>1 DEF IInv, TypeOK, CommitOffset, InHand, NothingLeftBehind, Stored
    <2> QED BY <2>1, <2>2 DEF Contract!Advance, Stored
<1>5. ASSUME UNCHANGED <<log, ledger, deadLetters, committed>>
      PROVE  UNCHANGED <<log, Stored, committed>>
    BY <1>5, <1>2
<1>6. ASSUME NEW c \in Consumers, InsertFails(c) \/ DlqTimesOut(c) \/ DlqRejected(c) PROVE FALSE
    BY <1>6 DEF Lossless, LossyFaults, InsertFails, DlqTimesOut, DlqRejected
<1>7. ASSUME NEW c \in Consumers,
             \/ Start(c) \/ Assign(c) \/ Crash(c) \/ IdleExit(c) \/ PollMessage(c) \/ PollRaises(c)
             \/ TriggerSkips(c) \/ TriggerProceeds(c) \/ CommitRaises(c) \/ SkipCommit(c)
      PROVE  UNCHANGED <<log, ledger, deadLetters, committed>>
    BY <1>7 DEF Start, Assign, Crash, IdleExit, PollMessage, PollRaises, TriggerSkips,
                TriggerProceeds, CommitRaises, SkipCommit
<1>8. ASSUME Revoke \/ SessionTimeout \/ UNCHANGED vars
      PROVE  UNCHANGED <<log, ledger, deadLetters, committed>>
    BY <1>8 DEF Revoke, SessionTimeout, vars
<1> QED
    BY <1>1, <1>3, <1>4, <1>5, <1>6, <1>7, <1>8 DEF Next, ConsumerStep, Contract!Next

\* Under the same conditions the consumer group implements the at-least-once
\* contract: every step stores, accepts, advances over stored messages, or is
\* invisible (run_consumer_loop, process_kafka_message).
THEOREM RefinesContract == ASSUME Lossless PROVE Spec => ImplementsContract
<1>1. Init => Contract!Init
    BY DEF Init, Contract!Init
<1>2. IInv /\ IInv' /\ [Next]_vars => [Contract!Next]_<<log, {o \in 1..Len(log) : Resolved(o)}, committed>>
    BY StepImplements DEF Stored
<1> QED BY <1>1, <1>2, NothingIsSkipped, PTL DEF Spec, ImplementsContract, Contract!Spec
(***************************************************************************)
(* One consumer.                                                           *)
(***************************************************************************)

\* A group of one process, as the deployment starts it.
OneConsumer == \A c, d \in Consumers : c = d

\* What the guard of a trigger saw still stands when its transaction ends: nobody else writes.
GuardStands == \A c \in Consumers : pc[c] = "triggered" => ~ GuardHit(RowOf(current[c]))

OnceInv == TypeInv /\ TriggerEffectsOnce /\ GuardStands

\* A step that writes no row and moves nobody past the guard.
LEMMA QuietGuard ==
    ASSUME OnceInv, TypeInv', UNCHANGED <<ledger, applied>>,
           \A c \in Consumers : pc'[c] = "triggered" =>
               pc[c] = "triggered" /\ current'[c] = current[c] /\ log'[current[c]] = log[current[c]]
    PROVE  OnceInv'
<1>1. TriggerEffectsOnce' BY DEF OnceInv, TriggerEffectsOnce
<1>2. GuardStands'
    <2> SUFFICES ASSUME NEW c \in Consumers, pc'[c] = "triggered" PROVE ~ GuardHit(RowOf(current[c]))'
        BY DEF GuardStands
    <2>1. ~ GuardHit(RowOf(current[c])) BY DEF OnceInv, GuardStands
    <2>2. RowOf(current[c])' = RowOf(current[c]) BY DEF RowOf, idempotency_key
    <2> QED BY <2>1, <2>2 DEF GuardHit, SameSource
<1> QED BY <1>1, <1>2 DEF OnceInv

\* A transaction whose guard stands adds its row and counts its effects, both once.
LEMMA TransactionOnce ==
    ASSUME OneConsumer, OnceInv, TypeInv', NEW c \in Consumers, pc[c] = "triggered",
           CommitTransaction(RowOf(current[c])), pc'[c] # "triggered"
    PROVE  OnceInv'
<1> DEFINE r == RowOf(current[c])
<1>1. ~ GuardHit(r) BY DEF OnceInv, GuardStands
<1>2. r \in Rows BY RowOfType DEF OnceInv, TypeInv, InHand
<1>3. r.event_id \in EventIds BY <1>2 DEF Rows
<1>4. ~ IndexConflict(r) /\ ~ KeyConflict(r) BY <1>1 DEF GuardHit, IndexConflict, KeyConflict
<1>5. ledger' = ledger \cup {r} /\ applied' = [applied EXCEPT ![r.event_id] = @ + 1]
    BY <1>4 DEF CommitTransaction
<1>6. ~ \E s \in ledger : s.event_id = r.event_id BY <1>1 DEF GuardHit
<1>7. TriggerEffectsOnce'
    <2> SUFFICES ASSUME NEW e \in EventIds
                 PROVE  applied'[e] = IF \E s \in ledger' : s.event_id = e THEN 1 ELSE 0
        BY DEF TriggerEffectsOnce
    <2>1. applied[e] = IF \E s \in ledger : s.event_id = e THEN 1 ELSE 0
        BY DEF OnceInv, TriggerEffectsOnce
    <2> HIDE DEF r
    <2>2. CASE e = r.event_id
        BY <2>1, <2>2, <1>3, <1>5, <1>6 DEF OnceInv, TypeInv, TypeOK
    <2>3. CASE e # r.event_id
        BY <2>1, <2>3, <1>3, <1>5 DEF OnceInv, TypeInv, TypeOK
    <2> QED BY <2>2, <2>3
<1>8. GuardStands' BY DEF GuardStands, OneConsumer
<1> QED BY <1>7, <1>8 DEF OnceInv

\* Every step of a group of one keeps the invariant.
LEMMA NextOnce == ASSUME OneConsumer PROVE OnceInv /\ [Next]_vars => OnceInv'
<1> SUFFICES ASSUME OnceInv, [Next]_vars PROVE OnceInv'
    OBVIOUS
<1>t. TypeInv /\ TypeInv' BY NextType DEF OnceInv
<1> USE DEF tables, budget, Goto, Decide, Close
<1>1. ASSUME NEW m \in Messages, Publish(m) PROVE OnceInv'
    <2>1. \A c \in Consumers : pc[c] = "triggered" => log'[current[c]] = log[current[c]]
        BY <1>1, <1>t DEF Publish, TypeInv, TypeOK, InHand
    <2> QED BY <1>1, <1>t, <2>1, QuietGuard DEF Publish
<1>2. ASSUME NEW c \in Consumers,
             \/ Start(c) \/ Assign(c) \/ Crash(c) \/ IdleExit(c) \/ PollMessage(c) \/ PollRaises(c)
             \/ TriggerSkips(c) \/ InsertFails(c) \/ DlqAcknowledged(c) \/ DlqTimesOut(c) \/ DlqRejected(c)
             \/ CommitOffset(c) \/ CommitRaises(c) \/ SkipCommit(c)
      PROVE  OnceInv'
    <2>1. UNCHANGED <<log, ledger, applied>>
        BY <1>2 DEF Start, Assign, Crash, IdleExit, PollMessage, PollRaises, TriggerSkips, InsertFails,
                    DlqAcknowledged, DlqTimesOut, DlqRejected, CommitOffset, CommitRaises, SkipCommit
    <2>2. \A d \in Consumers : pc'[d] = "triggered" => pc[d] = "triggered" /\ current'[d] = current[d]
        BY <1>2, <1>t DEF TypeInv, TypeOK, Start, Assign, Crash, IdleExit, PollMessage, PollRaises, TriggerSkips,
              InsertFails, DlqAcknowledged, DlqTimesOut, DlqRejected, CommitOffset, CommitRaises, SkipCommit
    <2> QED BY <1>t, <2>1, <2>2, QuietGuard
<1>3. ASSUME NEW c \in Consumers, TriggerProceeds(c) PROVE OnceInv'
    <2>1. TriggerEffectsOnce' BY <1>3 DEF OnceInv, TriggerEffectsOnce, TriggerProceeds
    <2>2. GuardStands'
        <3>1. UNCHANGED <<log, ledger, current>> BY <1>3 DEF TriggerProceeds
        <3>2. \A o : GuardHit(RowOf(o))' <=> GuardHit(RowOf(o))
            BY <3>1 DEF GuardHit, RowOf, idempotency_key, SameSource
        <3>3. \A d \in Consumers : d = c BY DEF OneConsumer
        <3> QED BY <1>3, <3>1, <3>2, <3>3 DEF GuardStands, TriggerProceeds
    <2> QED BY <1>t, <2>1, <2>2 DEF OnceInv
<1>4. ASSUME NEW c \in Consumers, InsertSucceeds(c) \/ InsertAckLost(c) PROVE OnceInv'
    <2>1. pc[c] = "triggered" /\ CommitTransaction(RowOf(current[c])) /\ pc'[c] # "triggered"
        BY <1>4, <1>t DEF InsertSucceeds, InsertAckLost, TypeInv, TypeOK
    <2> QED BY <1>t, <2>1, TransactionOnce
<1>5. CASE Revoke \/ SessionTimeout \/ UNCHANGED vars
    BY <1>5, <1>t, QuietGuard DEF Revoke, SessionTimeout, vars
<1> QED BY <1>1, <1>2, <1>3, <1>4, <1>5 DEF Next, ConsumerStep

\* A single consumer leaves the effects of the insert trigger exactly once for every event in the
\* ledger and never for any other, under every fault and for every kind of message: its
\* guard cannot be overtaken (handle_measurement_event_insert).
THEOREM TriggerRunsOnce == ASSUME OneConsumer PROVE Spec => []TriggerEffectsOnce
<1>1. Init => OnceInv BY InitType DEF Init, OnceInv, TriggerEffectsOnce, GuardStands
<1>2. OnceInv => TriggerEffectsOnce BY DEF OnceInv
<1> QED BY <1>1, <1>2, NextOnce, PTL DEF Spec
=============================================================================
