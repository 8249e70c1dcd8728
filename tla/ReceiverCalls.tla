--------------------------- MODULE ReceiverCalls ----------------------------
(***************************************************************************)
(* A StreamReceiver in the hands of the subscriber's worker                *)
(* (src/transports/udp/src/subscriber.rs), for every order in which UDP    *)
(* can present datagrams: DATA frames lost, duplicated and reordered,      *)
(* answers to any request made so far, late ones included, and timeouts in *)
(* between.  The environment sends what a publisher can send: any DATA     *)
(* frame, and in answer to an outstanding request a frame of its range.    *)
(*                                                                         *)
(* History variables record what the application gets and what happened.   *)
(***************************************************************************)
EXTENDS StreamReceiver

CONSTANTS
    MaxRequests,   \* bound on the replay requests TLC lets the receiver make
    MaxDelivered   \* bound on the length of `delivered'

VARIABLES
    delivered,   \* history: every frame handed out, in order
    arrived,     \* history: DATA frames seen since the publisher last changed
    replayed,    \* history: some replay request has completed
    mixed        \* history: frames of two publishers may share the buffers

callsVars == <<receiverVars, delivered, arrived, replayed, mixed>>

ReceiverCallsInit ==
    /\ ReceiverInit
    /\ delivered = <<>>
    /\ arrived = {}
    /\ replayed = FALSE
    /\ mixed = FALSE

(* The publisher changes other than by a clean reset: a frame of another   *)
(* publisher that is not its first, or its first while the duplicate       *)
(* filter still holds keys of that publisher.  The filter outlives a       *)
(* reset, the buffered frames it stands for do not: such a frame would be  *)
(* suppressed though it was never handed out.                              *)
Remembered(publisher_id) == \E key \in recent_keys : key[1] = publisher_id

UncleanChange(frame) ==
    /\ active_publisher_id \notin {None, frame.publisher_id}
    /\ StatusOf(frame) = "PublisherReset" => Remembered(frame.publisher_id)

HandOut(frames) ==
    /\ Len(delivered) + Len(frames) <= MaxDelivered
    /\ delivered' = delivered \o frames

DataCall(frame) ==
    /\ ProcessDataFrame(frame)
    /\ next_request_id' <= MaxRequests + 1
    /\ HandOut(ToDeliver(frame))
    /\ arrived' = (IF active_publisher_id = frame.publisher_id THEN arrived ELSE {})
                      \cup {frame}
    /\ mixed' = (mixed \/ UncleanChange(frame))
    /\ UNCHANGED replayed

(* The REPLAY_RESPONSE arm of the worker: the drained frames are delivered *)
(* and raise highest_delivered_sequence; tracker and filter are left alone.*)
ResponseCall(request_id, frame) ==
    /\ HandleReplayResponse(request_id, frame)
    /\ HandOut(Drained(request_id, frame))
    /\ highest_delivered_sequence' =
          Max({highest_delivered_sequence}
                \cup {f.sequence : f \in Range(Drained(request_id, frame))})
    /\ replayed' = (replayed \/ Completes(request_id, frame))
    /\ mixed' = (mixed \/ (request_id \in Outstanding
                             /\ frame.publisher_id # active_publisher_id))
    /\ UNCHANGED <<trackerVars, dedupVars, mode, arrived>>

UnavailableCall(request_id) ==
    /\ HandleReplayUnavailable(request_id)
    /\ UNCHANGED <<trackerVars, dedupVars, mode, highest_delivered_sequence>>
    /\ UNCHANGED <<delivered, arrived, replayed, mixed>>

TimeoutsCall ==
    /\ CheckTimeouts
    /\ UNCHANGED <<trackerVars, dedupVars, mode, highest_delivered_sequence>>
    /\ UNCHANGED <<delivered, arrived, replayed, mixed>>

TickCall ==
    /\ Tick
    /\ UNCHANGED <<trackerVars, dedupVars, mode, highest_delivered_sequence>>
    /\ UNCHANGED <<delivered, arrived, replayed, mixed>>

RequestIds == 1 .. next_request_id - 1

InRangeOf(request_id, frame) ==
    request_id \in Outstanding =>
        frame.sequence \in outstanding_requests[request_id].from_sequence
                            .. outstanding_requests[request_id].to_sequence

ReceiverCallsNext ==
    \/ \E frame \in Frame : DataCall(frame)
    \/ \E id \in RequestIds, frame \in Frame :
          InRangeOf(id, frame) /\ ResponseCall(id, frame)
    \/ \E id \in RequestIds : UnavailableCall(id)
    \/ TimeoutsCall
    \/ TickCall

ReceiverCallsSpec == ReceiverCallsInit /\ [][ReceiverCallsNext]_callsVars

ReceiverCallsTypeOK ==
    /\ ReceiverTypeOK
    /\ delivered \in Seq(Frame)
    /\ arrived \subseteq Frame
    /\ replayed \in BOOLEAN
    /\ mixed \in BOOLEAN

-----------------------------------------------------------------------------
(* RELIABLE_ORDERED delivers without gap, duplicate or inversion: the last *)
(* expected_sequence - 1 frames handed out are the active publisher's      *)
(* 1, 2, ..., expected_sequence - 1, whatever order, loss, duplication,    *)
(* filter eviction, refusal or timeout came before, and across clean       *)
(* publisher restarts.  It holds until a replay request completes or       *)
(* publishers mix (see StrictlyAscending and OnePublisherAtATime).         *)
InOrderUntilReplay ==
    mode = "ReliableOrdered" /\ ~ replayed /\ ~ mixed =>
        LET n     == expected_sequence - 1
            start == Len(delivered) - n
        IN  /\ start >= 0
            /\ \A i \in 1 .. n : /\ delivered[start + i].sequence = i
                                 /\ delivered[start + i].publisher_id = active_publisher_id

(* RELIABLE_ORDERED does not lose a DATA frame that reached it: the frame  *)
(* has been handed out or waits in the buffer, also when its replay        *)
(* request was refused, failed or ran out.                                 *)
HandedOut(frame) ==
    \E f \in Range(delivered) : Key(f) = Key(frame)

ArrivedIsNotLost ==
    mode = "ReliableOrdered" /\ ~ mixed =>
        \A frame \in arrived : HandedOut(frame) \/ frame.sequence \in Buffered

(* LATEST never hands out a stale frame or a duplicate: of one publisher,  *)
(* what comes later is newer, whatever was lost, reordered or delivered    *)
(* twice and however often publishers alternated in between.               *)
LatestOnlyAdvances ==
    mode = "Latest" =>
        \A i, j \in DOMAIN delivered :
            i < j /\ delivered[i].publisher_id = delivered[j].publisher_id
                => delivered[i].sequence < delivered[j].sequence

-----------------------------------------------------------------------------
(* What the documents say and the code does not keep.                      *)

(* RTDP-1.md:143, RELIABLE_ORDERED: "Strictly ascending sequence" and      *)
(* "Duplicates strictly suppressed".                                       *)
StrictlyAscending ==
    mode = "ReliableOrdered" =>
        \A i, j \in DOMAIN delivered :
            i < j /\ delivered[i].publisher_id = delivered[j].publisher_id
                => delivered[i].sequence < delivered[j].sequence

(* tracker.rs:72: "Receiver must not assume continuity across publisher_id *)
(* changes": when delivery passes from one publisher to another it starts  *)
(* at the new publisher's first frame.                                     *)
OnePublisherAtATime ==
    mode = "ReliableOrdered" /\ ~ replayed =>
        \A i \in 2 .. Len(delivered) :
            delivered[i - 1].publisher_id # delivered[i].publisher_id
                => delivered[i].sequence = 1

(* tracker.rs:72 again, for LATEST, which RTDP-1.md:141 describes as       *)
(* "Replaces state with newest accepted sequence": the newest of the       *)
(* frames that arrived since the publisher changed is handed out, without  *)
(* regard to the sequences of the publisher before.                        *)
LatestStartsAnew ==
    mode = "Latest" =>
        \A frame \in arrived :
            (\A other \in arrived : other.sequence <= frame.sequence) => HandedOut(frame)

(* RTDP-1.md:142, AT_LEAST_ONCE "Recoverable within ring buffer" with an   *)
(* "Automatic REPLAY_REQUEST on gap", and RTDP-1.md:143, RELIABLE_ORDERED  *)
(* "transitions to error if unrecoverable": when a frame that arrived has  *)
(* not been handed out, a request is open or the state says that recovery  *)
(* failed.                                                                 *)
NoSilentLoss ==
    mode \in {"AtLeastOnce", "ReliableOrdered"} =>
        \A frame \in arrived :
            HandedOut(frame) \/ Outstanding # {} \/ state = "RecoveryFailed"
=============================================================================
