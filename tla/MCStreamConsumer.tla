-------------------------- MODULE MCStreamConsumer --------------------------
(* Instances of StreamConsumer for TLC. *)
EXTENDS StreamConsumer

Event(sys, id, payload) ==
    [kind |-> "event", source_system |-> sys, source_event_id |-> id, payload |-> payload]

Broken(kind) ==
    [kind |-> kind, source_system |-> "none", source_event_id |-> NoSourceId, payload |-> "none"]

\* An event with a source id, one identified by its payload hash, and one that fails validation.
MixedMessages == {Event("pc1", "s1", "p1"), Event("pc1", NoSourceId, "p2"), Broken("invalid")}

\* A message whose bytes are not UTF-8, before a good one.
PoisonMessages == {Event("pc1", "s1", "p1"), Broken("undecodable")}

\* All of them, and an event with an empty source id.
AllMessages == MixedMessages \cup PoisonMessages \cup {Event("pc1", "", "p1")}

=============================================================================
