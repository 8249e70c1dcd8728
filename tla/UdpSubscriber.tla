--------------------------- MODULE UdpSubscriber ----------------------------
(***************************************************************************)
(* UdpSubscriber (src/transports/udp/src/subscriber.rs): the worker thread *)
(* owns the StreamReceiver, takes in datagrams, checks timeouts, and hands *)
(* frames to the application through a bounded channel.  Only the channel  *)
(* and the running flag are shared, so each arm of the worker's match is   *)
(* one step, except that frames enter the channel one by one.              *)
(*                                                                         *)
(* The REPLAY_REQUESTs a step sends are named beside it (RequestSent,      *)
(* RetriesSent).                                                           *)
(***************************************************************************)
EXTENDS StreamReceiver

CONSTANTS
    ChannelCapacity,   \* config.channel_capacity
    PublisherAddr,     \* the address DATA frames come from
    Addresses          \* the addresses subscribers are configured with

ASSUME ChannelAssumption == ChannelCapacity \in Nat

VARIABLES
    publisher_addr,   \* config.publisher_addr
    running,          \* the worker is in its loop
    to_deliver,       \* frames the worker is handing to the channel
    channel           \* frames waiting for the application

workerVars == <<publisher_addr, running, to_deliver, channel>>

subscriberVars == <<receiverVars, workerVars>>

SubscriberInit ==
    /\ ReceiverInit
    /\ publisher_addr \in Addresses
    /\ running = TRUE
    /\ to_deliver = <<>>
    /\ channel = <<>>

SubscriberTypeOK ==
    /\ ReceiverTypeOK
    /\ publisher_addr \in Addresses
    /\ running \in BOOLEAN
    /\ to_deliver \in Seq(Frame)
    /\ channel \in Seq(Frame)
    /\ Len(channel) <= ChannelCapacity

ReplayRequest(request_id, from, to, target) ==
    [type |-> "REPLAY_REQUEST", request_id |-> request_id, from |-> from, to |-> to,
     target |-> target]

(* The worker has dealt with one datagram and has not left its loop.       *)
Reading == running /\ to_deliver = <<>>

-----------------------------------------------------------------------------
(* The DATA arm.  A gap is asked of the frame's sender, if the receiver    *)
(* could open a request.                                                   *)
AsksForGap(frame) ==
    /\ mode \in {"AtLeastOnce", "ReliableOrdered"}
    /\ mode = "ReliableOrdered" => ~ IsDuplicate(Key(frame))
    /\ StatusOf(frame) = "Gap"
    /\ RequestForGap(frame)

RequestSent(frame) ==
    IF AsksForGap(frame)
    THEN {ReplayRequest(next_request_id, GapFrom(frame.publisher_id),
                        GapTo(frame.sequence), PublisherAddr)}
    ELSE {}

ReceiveData(frame) ==
    /\ Reading
    /\ ProcessDataFrame(frame)
    /\ to_deliver' = ToDeliver(frame)
    /\ UNCHANGED <<publisher_addr, running, channel>>

(* The REPLAY_RESPONSE arm: the drained frames raise the highest delivered *)
(* sequence; tracker and duplicate filter are left alone.                  *)
ReceiveResponse(request_id, frame) ==
    /\ Reading
    /\ HandleReplayResponse(request_id, frame)
    /\ to_deliver' = Drained(request_id, frame)
    /\ highest_delivered_sequence' =
          Max({highest_delivered_sequence}
                \cup {f.sequence : f \in Range(Drained(request_id, frame))})
    /\ UNCHANGED <<trackerVars, dedupVars, mode, publisher_addr, running, channel>>

(* The REPLAY_UNAVAILABLE arm.                                             *)
ReceiveUnavailable(request_id) ==
    /\ Reading
    /\ HandleReplayUnavailable(request_id)
    /\ UNCHANGED <<trackerVars, dedupVars, mode, highest_delivered_sequence>>
    /\ UNCHANGED workerVars

(* Mutant: the retries are counted and never sent.                         *)
RetriesUnsent == {}

(* check_timeouts: retries go to the configured address, and only if no    *)
(* request failed in the same call.                                        *)
RetriesSent ==
    IF Exhausted = {}
    THEN {ReplayRequest(id, outstanding_requests[id].from_sequence,
                        outstanding_requests[id].to_sequence, publisher_addr) : id \in Due}
    ELSE {}

WorkerTimeouts ==
    /\ Reading
    /\ Due # {}
    /\ CheckTimeouts
    /\ UNCHANGED <<trackerVars, dedupVars, mode, highest_delivered_sequence>>
    /\ UNCHANGED workerVars

-----------------------------------------------------------------------------
(* Mutant: the channel refuses its last place.                             *)
TrySendShort ==
    /\ to_deliver # <<>>
    /\ channel' = IF Len(channel) + 1 < ChannelCapacity
                  THEN Append(channel, Head(to_deliver))
                  ELSE channel
    /\ to_deliver' = Tail(to_deliver)
    /\ UNCHANGED <<receiverVars, publisher_addr, running>>

(* Mutant: the channel takes one frame too many.                           *)
ChannelOverFull == Len(channel) > ChannelCapacity

(* try_send: a frame that meets a full channel is dropped.                 *)
ChannelFull == Len(channel) >= ChannelCapacity

TrySend ==
    /\ to_deliver # <<>>
    /\ channel' = IF ChannelFull THEN channel ELSE Append(channel, Head(to_deliver))
    /\ to_deliver' = Tail(to_deliver)
    /\ UNCHANGED <<receiverVars, publisher_addr, running>>

(* try_recv and recv_timeout; the channel outlives the worker.             *)
AppRecv ==
    /\ channel # <<>>
    /\ channel' = Tail(channel)
    /\ UNCHANGED <<receiverVars, publisher_addr, running, to_deliver>>

(* The worker leaves its loop: Drop has cleared the flag, or recv_from has *)
(* failed otherwise than by a timeout.                                     *)
WorkerExit ==
    /\ Reading
    /\ running' = FALSE
    /\ UNCHANGED <<receiverVars, publisher_addr, to_deliver, channel>>
=============================================================================
