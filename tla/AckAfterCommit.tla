--------------------------- MODULE AckAfterCommit ---------------------------
(***************************************************************************)
(* What ingestion promises to its transports: events are stored once and   *)
(* for all, and a message is acknowledged only when every event in it has  *)
(* been stored.                                                            *)
(***************************************************************************)
CONSTANTS Messages, Needs(_)   \* Needs(m): the events of message m

VARIABLES stored, acknowledged

vars == <<stored, acknowledged>>

Init == stored = {} /\ acknowledged = {}

Store(m) ==
    /\ \E k \in Needs(m) : stored' = stored \cup {k}
    /\ UNCHANGED acknowledged

Acknowledge(m) ==
    /\ Needs(m) \subseteq stored
    /\ acknowledged' = acknowledged \cup {m}
    /\ UNCHANGED stored

Next == \E m \in Messages : Store(m) \/ Acknowledge(m)

Spec == Init /\ [][Next]_vars
=============================================================================
