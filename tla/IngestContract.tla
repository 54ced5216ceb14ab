--------------------------- MODULE IngestContract ---------------------------
(***************************************************************************)
(* What ingestion promises its producers: a message, once published, stays *)
(* available until it has been stored (in the ledger or as a dead letter), *)
(* what is stored stays stored, and the group's progress marker covers     *)
(* stored messages only.  The marker may fall back: a late member of the   *)
(* group can commit an older offset, which only makes the group repeat     *)
(* messages.                                                               *)
(***************************************************************************)
EXTENDS Naturals, Sequences

CONSTANT Messages

VARIABLES
    log,        \* published messages
    stored,     \* offsets of stored messages
    committed   \* the group's progress marker

Init ==
    /\ log = <<>>
    /\ stored = {}
    /\ committed = 0

\* A new message; it counts as stored at once when it repeats a stored event.
Accept ==
    /\ \E m \in Messages : log' = Append(log, m)
    /\ stored' \in {stored, stored \cup {Len(log) + 1}}
    /\ UNCHANGED committed

\* A message is stored, and with it every repetition of the same event.
Store ==
    /\ stored' \in SUBSET (1..Len(log))
    /\ stored \subseteq stored'
    /\ UNCHANGED <<log, committed>>

Advance ==
    /\ committed' \in {o \in 0..Len(log) : 1..o \subseteq stored}
    /\ UNCHANGED <<log, stored>>

Next == Accept \/ Store \/ Advance

Spec == Init /\ [][Next]_<<log, stored, committed>>
=============================================================================
