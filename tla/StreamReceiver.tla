--------------------------- MODULE StreamReceiver ---------------------------
(***************************************************************************)
(* StreamReceiver (src/core/src/delivery/modes.rs): one stream's tracker,  *)
(* duplicate filter and recovery engine behind process_data_frame, which   *)
(* treats a frame by the delivery mode chosen at construction.             *)
(*                                                                         *)
(* ToDeliver is the list of frames process_data_frame returns, read in the *)
(* state before the call; the replay request it returns is the one         *)
(* CreateForGap opens.                                                     *)
(***************************************************************************)
EXTENDS SequenceTracker, DuplicateFilter, RecoveryEngine

CONSTANT Modes  \* the delivery modes subscribers are configured with

DeliveryMode == {"BestEffort", "Latest", "AtLeastOnce", "ReliableOrdered"}

ASSUME ModesAssumption == Modes \subseteq DeliveryMode

VARIABLES
    mode,                         \* DeliveryMode, fixed at construction
    highest_delivered_sequence

receiverVars == <<trackerVars, dedupVars, recoveryVars, mode, highest_delivered_sequence>>

ReceiverTypeOK ==
    /\ TrackerTypeOK
    /\ DedupTypeOK
    /\ RecoveryTypeOK
    /\ mode \in Modes
    /\ highest_delivered_sequence \in Nat

ReceiverInit ==
    /\ TrackerInit
    /\ DedupInit
    /\ RecoveryInit
    /\ mode \in Modes
    /\ highest_delivered_sequence = 0

-----------------------------------------------------------------------------
Key(frame) == <<frame.publisher_id, frame.sequence>>

StatusOf(frame) == Status(frame.publisher_id, frame.sequence)

RequestForGap(frame) ==
    RequestAccepted(GapFrom(frame.publisher_id), GapTo(frame.sequence))

HigherOf(a, b) == IF a >= b THEN a ELSE b

ObserveFrame(frame) == Observe(frame.publisher_id, frame.sequence)

CreateForGap(frame) ==
    CreateReplayRequest(GapFrom(frame.publisher_id), GapTo(frame.sequence))

-----------------------------------------------------------------------------
BestEffortFrame(frame) ==
    /\ mode = "BestEffort"
    /\ ObserveFrame(frame)
    /\ highest_delivered_sequence' = HigherOf(highest_delivered_sequence, frame.sequence)
    /\ UNCHANGED <<dedupVars, recoveryVars, mode>>

LatestFrame(frame) ==
    /\ mode = "Latest"
    /\ ObserveFrame(frame)
    /\ highest_delivered_sequence' = HigherOf(highest_delivered_sequence, frame.sequence)
    /\ UNCHANGED <<dedupVars, recoveryVars, mode>>

(* A gap that cannot be requested is an error: the frame is not delivered  *)
(* and the highest sequence stays.                                         *)
AtLeastOnceGap(frame) ==
    /\ StatusOf(frame) = "Gap"
    /\ CreateForGap(frame)
    /\ highest_delivered_sequence' =
          IF RequestForGap(frame)
          THEN HigherOf(highest_delivered_sequence, frame.sequence)
          ELSE highest_delivered_sequence
    /\ UNCHANGED buffered_out_of_order

AtLeastOnceNoGap(frame) ==
    /\ StatusOf(frame) # "Gap"
    /\ highest_delivered_sequence' =
          IF StatusOf(frame) = "InOrder"
          THEN HigherOf(highest_delivered_sequence, frame.sequence)
          ELSE IF StatusOf(frame) = "PublisherReset" THEN frame.sequence
               ELSE highest_delivered_sequence
    /\ UNCHANGED recoveryVars

AtLeastOnceFrame(frame) ==
    /\ mode = "AtLeastOnce"
    /\ ObserveFrame(frame)
    /\ AtLeastOnceGap(frame) \/ AtLeastOnceNoGap(frame)
    /\ UNCHANGED <<dedupVars, mode>>

(* RELIABLE_ORDERED.  The tracker has observed the frame before the        *)
(* duplicate filter is asked.                                              *)
SuppressDuplicate(frame) ==
    /\ IsDuplicate(Key(frame))
    /\ ObserveFrame(frame)
    /\ UNCHANGED <<recoveryVars, highest_delivered_sequence>>

DeliverInOrder(frame) ==
    LET end == ContiguousEnd(frame.sequence + 1)
    IN  /\ ~ IsDuplicate(Key(frame))
        /\ StatusOf(frame) = "InOrder"
        /\ ObserveThenAdvance(frame.publisher_id, frame.sequence, end)
        /\ buffered_out_of_order' = WithoutContiguous(frame.sequence + 1)
        /\ highest_delivered_sequence' = end - 1
        /\ UNCHANGED <<state, next_request_id, outstanding_requests>>

(* Mutant: a refused request returns before the frame is buffered.         *)
RequestThenBuffer(frame) ==
    /\ ~ IsDuplicate(Key(frame))
    /\ StatusOf(frame) = "Gap"
    /\ ObserveFrame(frame)
    /\ buffered_out_of_order' =
          IF RequestForGap(frame) THEN WithFrame(frame) ELSE buffered_out_of_order
    /\ CreateForGap(frame)
    /\ UNCHANGED highest_delivered_sequence

BufferAndRequest(frame) ==
    /\ ~ IsDuplicate(Key(frame))
    /\ StatusOf(frame) = "Gap"
    /\ ObserveFrame(frame)
    /\ buffered_out_of_order' = WithFrame(frame)
    /\ CreateForGap(frame)
    /\ UNCHANGED highest_delivered_sequence

SuppressOld(frame) ==
    /\ ~ IsDuplicate(Key(frame))
    /\ StatusOf(frame) = "DuplicateOrOld"
    /\ ObserveFrame(frame)
    /\ UNCHANGED <<recoveryVars, highest_delivered_sequence>>

ResetForPublisher(frame) ==
    /\ ~ IsDuplicate(Key(frame))
    /\ StatusOf(frame) = "PublisherReset"
    /\ ObserveFrame(frame)
    /\ Reset
    /\ highest_delivered_sequence' = frame.sequence

ReliableOrderedFrame(frame) ==
    /\ mode = "ReliableOrdered"
    /\ \/ SuppressDuplicate(frame)
       \/ DeliverInOrder(frame)
       \/ BufferAndRequest(frame)
       \/ SuppressOld(frame)
       \/ ResetForPublisher(frame)
    /\ IsDuplicateAndRecord(Key(frame))
    /\ UNCHANGED mode

ProcessDataFrame(frame) ==
    \/ BestEffortFrame(frame)
    \/ LatestFrame(frame)
    \/ AtLeastOnceFrame(frame)
    \/ ReliableOrderedFrame(frame)

-----------------------------------------------------------------------------
(* The frames process_data_frame returns for delivery.                     *)
ToDeliverReliable(frame) ==
    IF IsDuplicate(Key(frame)) THEN <<>>
    ELSE IF StatusOf(frame) = "InOrder" THEN <<frame>> \o Contiguous(frame.sequence + 1)
    ELSE IF StatusOf(frame) = "PublisherReset" THEN <<frame>>
    ELSE <<>>

(* Mutant: LATEST lets the highest sequence through again.                 *)
AcceptsEqual(frame) ==
    \/ mode = "BestEffort"
    \/ mode = "Latest" /\ frame.sequence >= highest_delivered_sequence
    \/ mode = "AtLeastOnce" /\ (StatusOf(frame) = "Gap" => RequestForGap(frame))

Accepts(frame) ==
    \/ mode = "BestEffort"
    \/ mode = "Latest" /\ frame.sequence > highest_delivered_sequence
    \/ mode = "AtLeastOnce" /\ (StatusOf(frame) = "Gap" => RequestForGap(frame))

ToDeliver(frame) ==
    IF mode = "ReliableOrdered" THEN ToDeliverReliable(frame)
    ELSE IF Accepts(frame) THEN <<frame>> ELSE <<>>

-----------------------------------------------------------------------------
(* RTDP-1.md:143, RELIABLE_ORDERED "transitions to error if unrecoverable":*)
(* frames that wait in the buffer are waited for by an outstanding request *)
(* or the state says that recovery failed; the receiver is never Live with *)
(* frames it will not deliver.                                             *)
NoSilentStall ==
    mode = "ReliableOrdered" /\ Buffered # {} =>
        Outstanding # {} \/ state = "RecoveryFailed"
=============================================================================
