---------------------------- MODULE MCConsumers ----------------------------
(***************************************************************************)
(* Two instances of StreamConsumer: a group of consumers without lossy     *)
(* faults, which must lose nothing, and a group of one process under every *)
(* fault and every kind of message (Single).  mode names the one a         *)
(* behaviour moves; the other stays in its initial state.                  *)
(***************************************************************************)
EXTENDS MCStreamConsumer

CONSTANTS OneProcess, SingleMaxLog
ASSUME SingleAssumption == OneProcess # NoConsumer /\ SingleMaxLog \in Nat

VARIABLES mode, log1, committed1, owner1, pc1, position1, current1, mayCommit1, ledger1,
          applied1, deadLetters1, crashes1, rebalances1

vars1 == <<log1, committed1, owner1, pc1, position1, current1, mayCommit1, ledger1,
           applied1, deadLetters1, crashes1, rebalances1>>

Single == INSTANCE StreamConsumer WITH
    Consumers <- {OneProcess}, Messages <- AllMessages, Faults <- AllFaults, MaxLog <- SingleMaxLog,
    log <- log1, committed <- committed1, owner <- owner1, pc <- pc1, position <- position1,
    current <- current1, mayCommit <- mayCommit1, ledger <- ledger1, applied <- applied1,
    deadLetters <- deadLetters1, crashes <- crashes1, rebalances <- rebalances1

ConsumersInit == mode \in {"group", "single"} /\ Init /\ Single!Init

GroupMoves == mode = "group" /\ Next /\ UNCHANGED <<mode, vars1>>
SingleMoves == mode = "single" /\ Single!Next /\ UNCHANGED <<mode, vars>>

\* The group's fairness, for the behaviours that move it.
GroupFairness ==
    /\ \A c \in Consumers : WF_vars(mode = "group" /\ ConsumerStep(c)) /\ WF_vars(mode = "group" /\ Start(c))
    /\ SF_vars(mode = "group" /\ \E c \in Consumers : Assign(c))
    /\ WF_vars(mode = "group" /\ SessionTimeout)

ConsumersSpec ==
    ConsumersInit /\ [][GroupMoves \/ SingleMoves]_<<mode, vars, vars1>> /\ GroupFairness

\* The insert trigger leaves an event's derived rows exactly once although messages are
\* repeated, writes fail and their answers get lost (live_event_trigger.sql, runtime_ledger.py).
TriggerOnce == Single!TriggerEffectsOnce
=============================================================================
