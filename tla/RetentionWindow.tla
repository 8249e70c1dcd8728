--------------------------- MODULE RetentionWindow --------------------------
(***************************************************************************)
(* What the retention buffer promises, without slots and indices: frames   *)
(* are stored under consecutive sequences and the newest Capacity of them  *)
(* can be had back.                                                        *)
(***************************************************************************)
EXTENDS Naturals

CONSTANTS
    Frame,     \* records with a sequence
    Capacity

VARIABLE retained  \* the frames that can be had back

Init == retained = {}

(* Storing a frame drops the one that is Capacity older, and no other.     *)
Store(frame) ==
    /\ retained # {} => \E newest \in retained : frame.sequence = newest.sequence + 1
    /\ \A older \in retained : older.sequence < frame.sequence
    /\ retained' = {f \in retained \cup {frame} : f.sequence + Capacity > frame.sequence}

Forget == retained' = {}

Next == (\E frame \in Frame : Store(frame)) \/ Forget

Spec == Init /\ [][Next]_retained
=============================================================================
