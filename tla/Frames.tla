------------------------------- MODULE Frames -------------------------------
(***************************************************************************)
(* The DATA frame as the receive and replay paths see it (OwnedFrame and   *)
(* its FixedHeader, src/core/src/protocol/frame.rs, header.rs).  Of the    *)
(* header only publisher_id and sequence steer the code, and of the        *)
(* payload only its length: every other field is carried along unread.     *)
(* One stream is modelled, so stream_id is left out as well.               *)
(***************************************************************************)
EXTENDS Naturals

CONSTANTS
    PublisherIds,    \* publisher identities in use
    SeqNums,         \* sequence numbers in use; DATA frames are numbered from 1
    PayloadLengths,  \* payload sizes in bytes
    None             \* Rust's Option::None

ASSUME FramesAssumption ==
    /\ SeqNums \subseteq Nat \ {0}
    /\ PayloadLengths \subseteq Nat
    /\ None \notin Nat
    /\ None \notin PublisherIds

Frame == [publisher_id : PublisherIds, sequence : SeqNums, payload_length : PayloadLengths]

OptionFrame == Frame \cup {None}

OptionNat == Nat \cup {None}
=============================================================================
