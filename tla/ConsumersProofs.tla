-------------------------- MODULE ConsumersProofs --------------------------
(***************************************************************************)
(* The group of one process in MCConsumers runs the trigger's effects      *)
(* exactly once.  The argument is that of StreamConsumerProofs, taken for  *)
(* the variables and constants of that group; the other group stands still *)
(* while it moves.                                                         *)
(***************************************************************************)
EXTENDS MCConsumers, TLAPS

\* The theorems about StreamConsumer, read for the group of one process.
P == INSTANCE StreamConsumerProofs WITH
    Consumers <- {OneProcess}, Messages <- AllMessages, Faults <- AllFaults, MaxLog <- SingleMaxLog,
    log <- log1, committed <- committed1, owner <- owner1, pc <- pc1, position <- position1,
    current <- current1, mayCommit <- mayCommit1, ledger <- ledger1, applied <- applied1,
    deadLetters <- deadLetters1, crashes <- crashes1, rebalances <- rebalances1

\* Single and P are the same consumer.
LEMMA SameConsumer ==
    /\ Single!Init <=> P!Init
    /\ Single!Next <=> P!Next
    /\ Single!vars = P!vars
    /\ TriggerOnce <=> P!TriggerEffectsOnce
<1>1. Single!Init <=> P!Init
  BY DEF Single!Init, P!Init, Single!EventIds, P!EventIds, Single!idempotency_key, P!idempotency_key
<1>2. (Single!Next <=> P!Next) /\ Single!vars = P!vars
  BY DEF Single!idempotency_key, P!idempotency_key, Single!EventIds, P!EventIds, Single!RowOf, P!RowOf,
   Single!SameSource, P!SameSource, Single!GuardHit, P!GuardHit, Single!KeyConflict, P!KeyConflict,
   Single!IndexConflict, P!IndexConflict, Single!Goto, P!Goto, Single!Decide, P!Decide, Single!ResumeAt,
   P!ResumeAt, Single!Close, P!Close, Single!tables, P!tables, Single!budget, P!budget, Single!vars, P!vars,
   Single!Publish, P!Publish, Single!Start, P!Start, Single!Assign, P!Assign, Single!Revoke, P!Revoke,
   Single!SessionTimeout, P!SessionTimeout, Single!Crash, P!Crash, Single!PollMessage, P!PollMessage,
   Single!PollRaises, P!PollRaises, Single!IdleExit, P!IdleExit, Single!TriggerSkips, P!TriggerSkips,
   Single!TriggerProceeds, P!TriggerProceeds, Single!CommitTransaction, P!CommitTransaction,
   Single!InsertSucceeds, P!InsertSucceeds, Single!InsertFails, P!InsertFails, Single!InsertAckLost,
   P!InsertAckLost, Single!DlqAcknowledged, P!DlqAcknowledged, Single!DlqTimesOut, P!DlqTimesOut,
   Single!DlqRejected, P!DlqRejected, Single!CommitOffset, P!CommitOffset, Single!CommitRaises,
   P!CommitRaises, Single!SkipCommit, P!SkipCommit, Single!ConsumerStep, P!ConsumerStep, Single!Next, P!Next
<1>3. TriggerOnce <=> P!TriggerEffectsOnce
  BY DEF TriggerOnce, Single!TriggerEffectsOnce, P!TriggerEffectsOnce, Single!EventIds, P!EventIds,
         Single!idempotency_key, P!idempotency_key
<1> QED
  BY <1>1, <1>2, <1>3

\* The assumptions that those theorems make of their constants.
LEMMA SingleConstants ==
    /\ NoConsumer \notin {OneProcess} /\ OffsetReset \in {"earliest", "latest"} /\ AllFaults \subseteq P!AllFaults
    /\ SingleMaxLog \in Nat /\ MaxCrashes \in Nat /\ MaxRebalances \in Nat
    /\ \A m \in AllMessages : m.kind \in P!MessageKinds
    /\ P!OneConsumer
<1>1. \A m \in AllMessages : m.kind \in P!MessageKinds
  <2>1. \A sys, id, payload : Event(sys, id, payload).kind \in P!MessageKinds
    BY DEF Event, P!MessageKinds
  <2>2. Broken("invalid").kind \in P!MessageKinds /\ Broken("undecodable").kind \in P!MessageKinds
    BY DEF Broken, P!MessageKinds
  <2> QED
    BY <2>1, <2>2 DEF AllMessages, MixedMessages, PoisonMessages
<1>2. AllFaults \subseteq P!AllFaults
  BY DEF AllFaults, P!AllFaults
<1>3. P!OneConsumer
  BY DEF P!OneConsumer
<1>4. NoConsumer \notin {OneProcess} /\ SingleMaxLog \in Nat
  BY SingleAssumption
<1>5. OffsetReset \in {"earliest", "latest"}
  BY OffsetResetAssumption
<1>6. MaxCrashes \in Nat /\ MaxRebalances \in Nat
  BY BoundAssumption
<1> QED
  BY <1>1, <1>2, <1>3, <1>4, <1>5, <1>6

\* The insert trigger of a group of one process leaves the derived rows of every event in the ledger exactly once and of
\* no other, under every fault, every kind of message, every crash and restart (live_event_trigger.sql).
THEOREM TriggersRunOnce == ConsumersSpec => []TriggerOnce
<1>1. ConsumersInit => P!OnceInv
  <2>1. P!Init => P!TypeInv
    BY SingleConstants, P!InitType
  <2>2. P!Init /\ P!TypeInv => P!OnceInv
    BY DEF P!Init, P!OnceInv, P!TriggerEffectsOnce, P!GuardStands
  <2> QED
    BY <2>1, <2>2, SameConsumer DEF ConsumersInit
<1>2. P!OnceInv /\ [GroupMoves \/ SingleMoves]_<<mode, vars, vars1>> => P!OnceInv'
  <2>1. P!OnceInv /\ [P!Next]_(P!vars) => P!OnceInv'
    BY SingleConstants, P!NextOnce
  <2>2. GroupMoves => UNCHANGED P!vars
    BY DEF GroupMoves, vars1, P!vars, P!tables, P!budget
  <2>3. SingleMoves => P!Next
    BY SameConsumer DEF SingleMoves
  <2>4. UNCHANGED <<mode, vars, vars1>> => UNCHANGED P!vars
    BY DEF vars1, P!vars, P!tables, P!budget
  <2> QED
    BY <2>1, <2>2, <2>3, <2>4
<1>3. P!OnceInv => TriggerOnce
  BY SameConsumer DEF P!OnceInv
<1> QED
  BY <1>1, <1>2, <1>3, PTL DEF ConsumersSpec
=============================================================================
