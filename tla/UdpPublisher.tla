---------------------------- MODULE UdpPublisher ----------------------------
(***************************************************************************)
(* UdpPublisher (src/transports/udp/src/publisher.rs): the application's   *)
(* thread, which numbers, stores and sends frames and may restart under a  *)
(* new identity, and the replay thread, which answers REPLAY_REQUESTs from *)
(* the same ring buffer.  They share the buffer behind a mutex and nothing *)
(* else: one step here is one critical section or one datagram.            *)
(*                                                                         *)
(* What a step hands to the socket is named beside it (DataSent,           *)
(* ResponseSent, RefusalSent): a set of no or one datagram.                *)
(***************************************************************************)
EXTENDS BoundedRingBuffer, Sequences

CONSTANTS
    MaxFrameSize,      \* config.max_frame_size
    ReplayBufferSize   \* the replay thread's send_buf, 1500 bytes in the code

HeaderSize == 48       \* FIXED_HEADER_SIZE

RequestIdSize == 8     \* request_id in front of a replayed payload

ASSUME PublisherAssumption ==
    /\ MaxFrameSize \in Nat
    /\ ReplayBufferSize \in Nat
    /\ PublisherIds # {}

ASSUME NoneIsNoAnswer ==
    None \notin [request_id : Nat, reply : [ok : {TRUE}, frames : Seq(Frame)]]

VARIABLES
    publisher_id,      \* config.publisher_id
    sequence_counter,
    unsent,            \* the frame publish has stored and not yet sent, or None
    answer,            \* the answer the replay thread is sending, or None
    retired            \* history: identities given up by a restart

appVars == <<publisher_id, sequence_counter, unsent, retired>>

publisherVars == <<ringVars, appVars, answer>>

Data(frame) == [type |-> "DATA", frame |-> frame]

ReplayResponse(request_id, frame) ==
    [type |-> "REPLAY_RESPONSE", request_id |-> request_id, frame |-> frame]

ReplayUnavailable(request_id, first, last) ==
    [type |-> "REPLAY_UNAVAILABLE", request_id |-> request_id, first |-> first, last |-> last]

PublisherInit ==
    /\ RingInit
    /\ publisher_id \in PublisherIds
    /\ sequence_counter = 1
    /\ unsent = None
    /\ answer = None
    /\ retired = {}

-----------------------------------------------------------------------------
(* Mutant: a frame of exactly the maximum size is refused.                 *)
EncodableBelow(payload_length, buffer_size) ==
    /\ HeaderSize + payload_length < MaxFrameSize
    /\ HeaderSize + payload_length < buffer_size

(* The codec's size checks (encode): the frame must fit max_frame_size and *)
(* the buffer it is written to.                                            *)
Encodable(payload_length, buffer_size) ==
    /\ HeaderSize + payload_length <= MaxFrameSize
    /\ HeaderSize + payload_length <= buffer_size

(* publish, up to the push: the sequence is taken and the frame stored     *)
(* before anything can fail.                                               *)
PublishStore(payload_length) ==
    LET frame == [publisher_id |-> publisher_id, sequence |-> sequence_counter,
                  payload_length |-> payload_length]
    IN  /\ unsent = None
        /\ frame \in Frame
        /\ Push(frame)
        /\ sequence_counter' = sequence_counter + 1
        /\ unsent' = frame
        /\ UNCHANGED <<publisher_id, retired, answer>>

(* Mutant: the header is numbered after the counter has moved on.          *)
DataSentNextSequence == {Data([unsent EXCEPT !.sequence = @ + 1])}

(* publish, encode and send_to: the buffer has max_frame_size bytes.       *)
DataSent == {Data(unsent)}

PublishSend ==
    /\ unsent # None
    /\ Encodable(unsent.payload_length, MaxFrameSize)
    /\ unsent' = None
    /\ UNCHANGED <<ringVars, publisher_id, sequence_counter, retired, answer>>

(* Mutant: a failed publish gives its sequence back.                       *)
PublishFailsRollsBack ==
    /\ unsent # None
    /\ unsent' = None
    /\ sequence_counter' = sequence_counter - 1
    /\ UNCHANGED <<ringVars, publisher_id, retired, answer>>

(* publish returns an error: the frame does not encode, or send_to fails.  *)
PublishFails ==
    /\ unsent # None
    /\ unsent' = None
    /\ UNCHANGED <<ringVars, publisher_id, sequence_counter, retired, answer>>

(* Mutants: the buffer survives the restart; the sequence starts at 0.     *)
RestartKeepsBuffer(new_publisher_id) ==
    /\ unsent = None
    /\ new_publisher_id \notin retired \cup {publisher_id}
    /\ publisher_id' = new_publisher_id
    /\ retired' = retired \cup {publisher_id}
    /\ sequence_counter' = 1
    /\ UNCHANGED <<ringVars, unsent, answer>>

RestartAtZero(new_publisher_id) ==
    /\ unsent = None
    /\ new_publisher_id \notin retired \cup {publisher_id}
    /\ publisher_id' = new_publisher_id
    /\ retired' = retired \cup {publisher_id}
    /\ sequence_counter' = 0
    /\ Clear
    /\ UNCHANGED <<unsent, answer>>

(* restart_with_new_publisher_id.  That the identity is a fresh one is the *)
(* caller's duty (RTDP-1.md:33, "must increment or randomize its           *)
(* publisher_id"); the code takes whatever it is given.                    *)
Restart(new_publisher_id) ==
    /\ unsent = None
    /\ new_publisher_id \notin retired \cup {publisher_id}
    /\ publisher_id' = new_publisher_id
    /\ retired' = retired \cup {publisher_id}
    /\ sequence_counter' = 1
    /\ Clear
    /\ UNCHANGED <<unsent, answer>>

-----------------------------------------------------------------------------
(* The replay thread: the whole range is cloned under the lock, then sent  *)
(* frame by frame without it.  The identity and the stream of a request    *)
(* are not looked at.                                                      *)
ReplayLookup(request_id, from, to) ==
    /\ answer = None
    /\ answer' = [request_id |-> request_id, reply |-> GetRange(from, to)]
    /\ UNCHANGED <<ringVars, appVars>>

(* A frame that does not encode with its request_id in front is skipped; a *)
(* send_to that fails is a datagram that is never delivered.               *)
ResponseSent ==
    LET frame == Head(answer.reply.frames)
    IN  IF Encodable(frame.payload_length + RequestIdSize, ReplayBufferSize)
        THEN {ReplayResponse(answer.request_id, frame)}
        ELSE {}

ReplaySendFrame ==
    /\ answer # None
    /\ answer.reply.ok
    /\ answer.reply.frames # <<>>
    /\ answer' = [answer EXCEPT !.reply = Available(Tail(@.frames))]
    /\ UNCHANGED <<ringVars, appVars>>

ReplayDone ==
    /\ answer # None
    /\ answer.reply.ok
    /\ answer.reply.frames = <<>>
    /\ answer' = None
    /\ UNCHANGED <<ringVars, appVars>>

(* The 24-byte refusal.                                                    *)
RefusalSent ==
    IF Encodable(24, ReplayBufferSize)
    THEN {ReplayUnavailable(answer.request_id, answer.reply.first, answer.reply.last)}
    ELSE {}

ReplayRefuse ==
    /\ answer # None
    /\ ~ answer.reply.ok
    /\ answer' = None
    /\ UNCHANGED <<ringVars, appVars>>

PublisherTypeOK ==
    /\ RingTypeOK
    /\ publisher_id \in PublisherIds
    /\ sequence_counter \in Nat \ {0}
    /\ unsent \in OptionFrame
    /\ retired \subseteq PublisherIds
=============================================================================
