---------------------------- MODULE StreamService ---------------------------
(***************************************************************************)
(* What a RELIABLE_ORDERED or AT_LEAST_ONCE stream promises its            *)
(* application, without a word on networks, buffers or replay: frames are  *)
(* published with growing sequences; the subscriber hears of a frame and   *)
(* thereby owes it and all earlier ones; it hands over nothing else, and   *)
(* it hands over all it owes or is excused.                                *)
(***************************************************************************)
EXTENDS Naturals

CONSTANT Frame  \* records with a sequence

VARIABLES
    published,
    owed,       \* frames the subscriber can know of
    received,
    excused     \* the subscriber has left, dropped a frame or reports failure

stream == <<published, owed, received>>

Init ==
    /\ published = {}
    /\ owed = {}
    /\ received = {}
    /\ excused = FALSE

Publish(frame) ==
    /\ \A earlier \in published : earlier.sequence < frame.sequence
    /\ published' = published \cup {frame}
    /\ UNCHANGED <<owed, received>>

HearOf(frame) ==
    /\ frame \in published
    /\ owed' = {f \in published : f.sequence <= frame.sequence}
    /\ owed \subseteq owed'
    /\ UNCHANGED <<published, received>>

Receive(frame) ==
    /\ frame \in owed
    /\ received' = received \cup {frame}
    /\ UNCHANGED <<published, owed>>

Next ==
    /\ \/ \E frame \in Frame : Publish(frame) \/ HearOf(frame) \/ Receive(frame)
       \/ UNCHANGED stream
    /\ excused' \in BOOLEAN

(* Nothing is handed over that is not owed.                                *)
Safety == Init /\ [][Next]_<<stream, excused>>

(* All that is owed is handed over in the end.                             *)
Promise == \A frame \in Frame : frame \in owed ~> (frame \in received \/ excused)

Spec == Safety /\ Promise
=============================================================================
