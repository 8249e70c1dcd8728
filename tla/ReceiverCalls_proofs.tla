------------------------ MODULE ReceiverCalls_proofs ------------------------
(***************************************************************************)
(* What the application gets from a receiver, for every configuration,     *)
(* every number of frames, publishers and requests, and every order in     *)
(* which datagrams and timeouts reach it.                                  *)
(***************************************************************************)
EXTENDS ReceiverCalls, StreamReceiver_proofs

USE FramesAssumption, RecoveryAssumption, DedupCapacityAssumption, ModesAssumption

-----------------------------------------------------------------------------
(* Types, with the finiteness of the buffer that drain_contiguous needs to *)
(* stop and drain_buffered to be a list.                                   *)
CallsTypeInv ==
    /\ ReceiverInv
    /\ delivered \in Seq(Frame)
    /\ arrived \subseteq Frame
    /\ replayed \in BOOLEAN
    /\ mixed \in BOOLEAN

LEMMA HandOutIs ==
    ASSUME delivered \in Seq(Frame), NEW frames \in Seq(Frame), HandOut(frames)
    PROVE  /\ delivered' \in Seq(Frame) /\ delivered' = delivered \o frames
           /\ Len(delivered') = Len(delivered) + Len(frames)
           /\ \A i \in 1 .. Len(delivered) : delivered'[i] = delivered[i]
           /\ \A i \in 1 .. Len(frames) : delivered'[Len(delivered) + i] = frames[i]
           /\ Range(delivered') = Range(delivered) \cup Range(frames)
<1>1. delivered' = delivered \o frames
  BY DEF HandOut
<1>2. /\ delivered' \in Seq(Frame) /\ Len(delivered) \in Nat /\ Len(frames) \in Nat
      /\ Len(delivered') = Len(delivered) + Len(frames)
      /\ \A i \in 1 .. Len(delivered) : delivered'[i] = delivered[i]
      /\ \A i \in 1 .. Len(frames) : delivered'[Len(delivered) + i] = frames[i]
  BY <1>1, ConcatProperties, LenProperties
<1>3. /\ DOMAIN delivered = 1 .. Len(delivered) /\ DOMAIN frames = 1 .. Len(frames)
      /\ DOMAIN delivered' = 1 .. (Len(delivered) + Len(frames))
  BY <1>2, LenProperties
<1>4. \A i \in 1 .. (Len(delivered) + Len(frames)) :
         \/ i \in 1 .. Len(delivered)
         \/ i - Len(delivered) \in 1 .. Len(frames) /\ Len(delivered) + (i - Len(delivered)) = i
  BY <1>2
<1>5. \A i \in 1 .. Len(frames) : Len(delivered) + i \in 1 .. (Len(delivered) + Len(frames))
  BY <1>2
<1>6. \A i \in 1 .. Len(delivered) : i \in 1 .. (Len(delivered) + Len(frames))
  BY <1>2
<1>7. Range(delivered') \subseteq Range(delivered) \cup Range(frames)
  <2> SUFFICES ASSUME NEW i \in 1 .. (Len(delivered) + Len(frames))
               PROVE  delivered'[i] \in Range(delivered) \cup Range(frames)
    BY <1>3 DEF Range
  <2>1. CASE i \in 1 .. Len(delivered)
    BY <1>2, <1>3, <2>1 DEF Range
  <2>2. CASE i - Len(delivered) \in 1 .. Len(frames) /\ Len(delivered) + (i - Len(delivered)) = i
    <3>1. delivered'[i] = frames[i - Len(delivered)]
      BY <1>2, <2>2
    <3> QED
      BY <1>3, <2>2, <3>1 DEF Range
  <2> QED
    BY <1>4, <2>1, <2>2
<1>8. Range(delivered) \cup Range(frames) \subseteq Range(delivered')
  BY <1>2, <1>3, <1>5, <1>6 DEF Range
<1> QED
  BY <1>1, <1>2, <1>7, <1>8

LEMMA NothingHandedOut ==
    ASSUME delivered \in Seq(Frame), HandOut(<<>>)
    PROVE  UNCHANGED delivered
BY ConcatEmptySeq DEF HandOut

(* The REPLAY_RESPONSE arm: the frames it hands out and the highest        *)
(* sequence it leaves.                                                     *)
LEMMA ResponseCallIs ==
    ASSUME CallsTypeInv, NEW request_id, NEW frame \in Frame, ResponseCall(request_id, frame)
    PROVE  /\ CallsTypeInv' /\ UNCHANGED <<trackerVars, dedupVars, mode, arrived>>
           /\ ~ Completes(request_id, frame) =>
                 UNCHANGED <<delivered, highest_delivered_sequence, replayed>>
           /\ Range(delivered') = Range(delivered) \cup Range(Drained(request_id, frame))
<1> DEFINE frames == Drained(request_id, frame)
           S == {f.sequence : f \in Range(frames)}
<1>1. /\ HandleReplayResponse(request_id, frame) /\ HandOut(frames)
      /\ highest_delivered_sequence' = Max({highest_delivered_sequence} \cup S)
      /\ replayed' = (replayed \/ Completes(request_id, frame))
      /\ mixed' = (mixed \/ (request_id \in Outstanding /\ frame.publisher_id # active_publisher_id))
      /\ UNCHANGED <<trackerVars, dedupVars, mode, arrived>>
  BY DEF ResponseCall
<1>2. frames \in Seq(Frame) /\ (~ Completes(request_id, frame) => frames = <<>>)
  BY DrainedIs DEF CallsTypeInv, ReceiverInv
<1> HIDE DEF frames
<1>3. delivered' \in Seq(Frame) /\ Range(delivered') = Range(delivered) \cup Range(frames)
  BY <1>1, <1>2, HandOutIs DEF CallsTypeInv
<1>4. IsFiniteSet(S) /\ S \in SUBSET Nat
  BY <1>2, RangeFinite
<1>5. frames = <<>> => S = {}
  BY DEF Range
<1> HIDE DEF S
<1>6. /\ IsFiniteSet({highest_delivered_sequence} \cup S)
      /\ {highest_delivered_sequence} \cup S \in SUBSET Nat
  <2>1. IsFiniteSet(S \cup {highest_delivered_sequence})
    BY <1>4, FS_AddElement
  <2>2. S \cup {highest_delivered_sequence} = {highest_delivered_sequence} \cup S
    OBVIOUS
  <2> QED
    BY <1>4, <2>1, <2>2 DEF CallsTypeInv, ReceiverInv
<1>7. highest_delivered_sequence' \in {highest_delivered_sequence} \cup S
  BY <1>1, <1>6, MaxOfFinite
<1>8. RequestsOK' /\ BufferOK'
  BY <1>1, ResponseIs DEF CallsTypeInv, ReceiverInv
<1>9. TrackerTypeOK' /\ DedupTypeOK' /\ mode' \in Modes /\ arrived' \subseteq Frame
  BY <1>1 DEF CallsTypeInv, ReceiverInv, trackerVars, dedupVars, TrackerTypeOK, DedupTypeOK
<1>10. highest_delivered_sequence' \in Nat
  BY <1>6, <1>7
<1>11. replayed' \in BOOLEAN /\ mixed' \in BOOLEAN
  BY <1>1 DEF CallsTypeInv, Completes
<1>12. CallsTypeInv'
  BY <1>3, <1>8, <1>9, <1>10, <1>11 DEF CallsTypeInv, ReceiverInv
<1>13. ~ Completes(request_id, frame) =>
          UNCHANGED <<delivered, highest_delivered_sequence, replayed>>
  BY <1>1, <1>2, <1>5, <1>7, NothingHandedOut DEF CallsTypeInv
<1> QED
  BY <1>1, <1>3, <1>12, <1>13 DEF frames

(* The other arms of the worker leave everything but the requests alone.   *)
LEMMA QuietStep ==
    ASSUME CallsTypeInv,
           \/ \E id \in RequestIds : UnavailableCall(id)
           \/ TimeoutsCall \/ TickCall \/ UNCHANGED callsVars
    PROVE  /\ CallsTypeInv' /\ Outstanding' \subseteq Outstanding
           /\ UNCHANGED <<trackerVars, dedupVars, buffered_out_of_order, mode,
                          highest_delivered_sequence, delivered, arrived, replayed, mixed>>
           /\ \/ UNCHANGED state /\ Outstanding' = Outstanding
              \/ state' = "RecoveryFailed"
<1>1. UNCHANGED <<trackerVars, dedupVars, mode, highest_delivered_sequence,
                  delivered, arrived, replayed, mixed>>
  BY DEF UnavailableCall, TimeoutsCall, TickCall, callsVars, receiverVars
<1>2. /\ RequestsOK' /\ UNCHANGED buffered_out_of_order /\ Outstanding' \subseteq Outstanding
      /\ \/ UNCHANGED state /\ Outstanding' = Outstanding
         \/ state' = "RecoveryFailed"
  <2>1. RequestsOK
    BY DEF CallsTypeInv, ReceiverInv
  <2>2. ASSUME NEW id \in RequestIds, UnavailableCall(id) PROVE <1>2!:
    BY <2>1, <2>2, UnavailableIs DEF UnavailableCall
  <2>3. CASE TimeoutsCall
    BY <2>1, <2>3, TimeoutsIs DEF TimeoutsCall
  <2>4. CASE TickCall
    BY <2>1, <2>4, TickIs DEF TickCall
  <2>5. CASE UNCHANGED callsVars
    BY <2>1, <2>5 DEF callsVars, receiverVars, recoveryVars, RequestsOK, Outstanding
  <2> QED
    BY <2>2, <2>3, <2>4, <2>5
<1>3. BufferOK'
  BY <1>2, BufferUnchanged DEF CallsTypeInv, ReceiverInv
<1>4. TrackerTypeOK' /\ DedupTypeOK' /\ mode' \in Modes /\ arrived' \subseteq Frame
      /\ highest_delivered_sequence' \in Nat /\ delivered' \in Seq(Frame)
      /\ replayed' \in BOOLEAN /\ mixed' \in BOOLEAN
  BY <1>1 DEF CallsTypeInv, ReceiverInv, trackerVars, dedupVars, TrackerTypeOK, DedupTypeOK
<1>5. CallsTypeInv'
  BY <1>2, <1>3, <1>4 DEF CallsTypeInv, ReceiverInv
<1> QED
  BY <1>1, <1>2, <1>5

LEMMA DataCallIs ==
    ASSUME CallsTypeInv, NEW frame \in Frame, DataCall(frame)
    PROVE  /\ CallsTypeInv' /\ UNCHANGED <<mode, replayed>>
           /\ ToDeliver(frame) \in Seq(Frame) /\ HandOut(ToDeliver(frame))
           /\ Range(delivered') = Range(delivered) \cup Range(ToDeliver(frame))
           /\ active_publisher_id' = frame.publisher_id
<1>1. /\ ProcessDataFrame(frame) /\ HandOut(ToDeliver(frame)) /\ UNCHANGED replayed
      /\ arrived' = (IF active_publisher_id = frame.publisher_id THEN arrived ELSE {}) \cup {frame}
      /\ mixed' = (mixed \/ UncleanChange(frame))
  BY DEF DataCall
<1>2. ReceiverInv' /\ active_publisher_id' = frame.publisher_id /\ UNCHANGED mode
  BY <1>1, ProcessDataFrameType DEF CallsTypeInv
<1>3. ToDeliver(frame) \in Seq(Frame)
  BY ToDeliverType DEF CallsTypeInv
<1>4. delivered' \in Seq(Frame)
      /\ Range(delivered') = Range(delivered) \cup Range(ToDeliver(frame))
  BY <1>1, <1>3, HandOutIs DEF CallsTypeInv
<1>5. arrived' \subseteq Frame /\ mixed' \in BOOLEAN
  BY <1>1 DEF CallsTypeInv, UncleanChange
<1> QED
  BY <1>1, <1>2, <1>3, <1>4, <1>5 DEF CallsTypeInv

LEMMA CallsTypeNext ==
    CallsTypeInv /\ [ReceiverCallsNext]_callsVars => CallsTypeInv'
BY DataCallIs, ResponseCallIs, QuietStep DEF ReceiverCallsNext

(* The receiver's state keeps its types and its buffer stays finite        *)
(* (modes.rs process_data_frame, engine.rs).                               *)
THEOREM ReceiverInvariant == ReceiverCallsSpec => []CallsTypeInv
<1>1. ReceiverCallsInit => CallsTypeInv
  <2>1. <<>> \in Seq(Frame) /\ {} \subseteq Frame /\ FALSE \in BOOLEAN
    OBVIOUS
  <2> QED
    BY <2>1, ReceiverInvInit DEF ReceiverCallsInit, CallsTypeInv
<1> QED
  BY <1>1, CallsTypeNext, PTL DEF ReceiverCallsSpec

(* The receiver's types, with those of what it has handed out (modes.rs,   *)
(* tracker.rs, dedup.rs, engine.rs): for every configuration the maps keep *)
(* frames under their own sequences and ids below next_request_id.         *)
THEOREM ReceiverTypeCorrect == ReceiverCallsSpec => []ReceiverCallsTypeOK
<1>1. CallsTypeInv => ReceiverCallsTypeOK
  BY ReceiverInvTypes DEF CallsTypeInv, ReceiverCallsTypeOK
<1> QED
  BY <1>1, ReceiverInvariant, PTL

-----------------------------------------------------------------------------
(* LATEST makes no request, so nothing but DATA frames is handed out, and  *)
(* everything handed out is at or below the highest delivered sequence.    *)
(* The code compares without regard to publishers, which is more than      *)
(* LatestOnlyAdvances promises and what latest_starts_anew objects to.     *)
NeverFallsBack ==
    \A i, j \in DOMAIN delivered : i < j => delivered[i].sequence < delivered[j].sequence

LatestInv ==
    mode = "Latest" =>
        /\ Outstanding = {}
        /\ NeverFallsBack
        /\ \A i \in DOMAIN delivered : delivered[i].sequence <= highest_delivered_sequence

LEMMA LatestData ==
    ASSUME CallsTypeInv, LatestInv, NEW frame \in Frame, DataCall(frame) PROVE LatestInv'
<1> SUFFICES ASSUME mode' = "Latest" PROVE LatestInv'
  BY DEF LatestInv
<1>1. mode = "Latest" /\ delivered \in Seq(Frame) /\ highest_delivered_sequence \in Nat
      /\ frame.sequence \in Nat /\ RequestsOK /\ BufferOK
  BY DataCallIs, FrameFields DEF CallsTypeInv, ReceiverInv
<1>2. /\ highest_delivered_sequence' = HigherOf(highest_delivered_sequence, frame.sequence)
      /\ UNCHANGED recoveryVars
  BY <1>1 DEF DataCall, ProcessDataFrame, BestEffortFrame, LatestFrame, AtLeastOnceFrame, ReliableOrderedFrame
<1>3. Outstanding' = {}
  BY <1>1, <1>2, RecoveryUnchanged DEF LatestInv
<1>4. \A i \in DOMAIN delivered : delivered[i].sequence <= highest_delivered_sequence
      /\ delivered[i].sequence \in Nat
  BY <1>1, ElementOfSeq, LenProperties, FrameFields DEF LatestInv
<1>5. highest_delivered_sequence' \in Nat /\ highest_delivered_sequence' >= highest_delivered_sequence
      /\ highest_delivered_sequence' >= frame.sequence
  BY <1>1, <1>2, HigherOfIs
<1>6. CASE frame.sequence > highest_delivered_sequence
  <2>1. HandOut(<<frame>>)
    BY <1>1, <1>6 DEF DataCall, ToDeliver, Accepts
  <2>2. delivered' = Append(delivered, frame)
    BY <1>1, <2>1 DEF HandOut
  <2>3. /\ Len(delivered) \in Nat /\ DOMAIN delivered = 1 .. Len(delivered)
        /\ DOMAIN delivered' = 1 .. (Len(delivered) + 1)
        /\ \A i \in 1 .. Len(delivered) : delivered'[i] = delivered[i]
        /\ delivered'[Len(delivered) + 1] = frame
    BY <1>1, <2>2, AppendProperties, LenProperties
  <2>4. \A i \in DOMAIN delivered : delivered[i].sequence < frame.sequence
    BY <1>1, <1>4, <1>6
  <2>5. \A i \in DOMAIN delivered' : i \in DOMAIN delivered \/ i = Len(delivered) + 1
    BY <2>3
  <2>6. \A i \in DOMAIN delivered' : delivered'[i].sequence <= highest_delivered_sequence'
    BY <1>1, <1>4, <1>5, <2>3, <2>5
  <2>7. ASSUME NEW i \in DOMAIN delivered', NEW j \in DOMAIN delivered', i < j
        PROVE  delivered'[i].sequence < delivered'[j].sequence
    <3>1. i \in DOMAIN delivered /\ (j \in DOMAIN delivered \/ j = Len(delivered) + 1)
      BY <2>3, <2>7
    <3> QED
      BY <1>1, <2>3, <2>4, <2>7, <3>1 DEF LatestInv, NeverFallsBack
  <2> QED
    BY <1>3, <2>6, <2>7 DEF LatestInv, NeverFallsBack
<1>7. CASE ~ (frame.sequence > highest_delivered_sequence)
  <2>1. HandOut(<<>>)
    BY <1>1, <1>7 DEF DataCall, ToDeliver, Accepts
  <2>2. UNCHANGED delivered
    BY <1>1, <2>1, NothingHandedOut
  <2>3. \A i \in DOMAIN delivered : delivered[i].sequence <= highest_delivered_sequence'
    BY <1>1, <1>4, <1>5
  <2> QED
    BY <1>1, <1>3, <2>2, <2>3 DEF LatestInv, NeverFallsBack
<1> QED
  BY <1>6, <1>7

LEMMA LatestNext ==
    CallsTypeInv /\ LatestInv /\ [ReceiverCallsNext]_callsVars => LatestInv'
<1> SUFFICES ASSUME CallsTypeInv, LatestInv, [ReceiverCallsNext]_callsVars PROVE LatestInv'
  OBVIOUS
<1>1. ASSUME UNCHANGED <<mode, delivered, highest_delivered_sequence>>, Outstanding' \subseteq Outstanding
      PROVE  LatestInv'
  BY <1>1 DEF LatestInv, NeverFallsBack
<1>2. ASSUME NEW id, NEW frame \in Frame, ResponseCall(id, frame)
      PROVE  LatestInv'
  <2>1. Outstanding' \subseteq Outstanding
    BY <1>2, ResponseIs DEF CallsTypeInv, ReceiverInv, ResponseCall
  <2>2. UNCHANGED mode
    BY <1>2 DEF ResponseCall
  <2>3. CASE mode = "Latest"
    <3>1. ~ Completes(id, frame)
      BY <2>3 DEF LatestInv, Completes
    <3> QED
      BY <1>1, <1>2, <2>1, <2>2, <3>1, ResponseCallIs
  <2>4. CASE mode # "Latest"
    BY <2>2, <2>4 DEF LatestInv
  <2> QED
    BY <2>3, <2>4
<1> QED
  BY <1>1, <1>2, LatestData, QuietStep DEF ReceiverCallsNext

(* LATEST (modes.rs, the Latest arm): for every configuration the          *)
(* sequences handed out of one publisher are strictly increasing, however  *)
(* publishers alternate.                                                   *)
THEOREM LatestTheorem == ReceiverCallsSpec => []LatestOnlyAdvances
<1>1. ReceiverCallsInit => LatestInv
  BY EmptyMap DEF ReceiverCallsInit, ReceiverInit, RecoveryInit, LatestInv, NeverFallsBack, Outstanding
<1>2. LatestInv => LatestOnlyAdvances
  BY DEF LatestInv, NeverFallsBack, LatestOnlyAdvances
<1> QED
  BY <1>1, <1>2, LatestNext, ReceiverInvariant, PTL DEF ReceiverCallsSpec

-----------------------------------------------------------------------------
(* No silent stall (modes.rs, engine.rs): when every gap fits a request,   *)
(* frames that wait are waited for by a request or the state says that     *)
(* recovery failed, for every configuration.  Without the hypothesis it is *)
(* false: a gap longer than max_replay_range is buffered and never asked   *)
(* for (no_silent_loss).                                                   *)
THEOREM NoSilentStallTheorem ==
    ASSUME GapsCanBeAskedFor PROVE ReceiverCallsSpec => []NoSilentStall
<1>1. ReceiverCallsInit => NoSilentStall
  BY NoSilentStallAtFirst DEF ReceiverCallsInit
<1>2. CallsTypeInv /\ NoSilentStall /\ [ReceiverCallsNext]_callsVars => NoSilentStall'
  <2> SUFFICES ASSUME CallsTypeInv, NoSilentStall, [ReceiverCallsNext]_callsVars
               PROVE  NoSilentStall'
    OBVIOUS
  <2>1. ReceiverInv
    BY DEF CallsTypeInv
  <2>2. StallStep /\ UNCHANGED mode
    <3>1. ASSUME NEW frame \in Frame, DataCall(frame) PROVE <2>2!:
      BY <3>1, DataCallIs DEF DataCall, StallStep
    <3>2. ASSUME NEW id \in RequestIds, NEW frame \in Frame, ResponseCall(id, frame) PROVE <2>2!:
      BY <3>2 DEF ResponseCall, StallStep
    <3>3. ASSUME NEW id \in RequestIds, UnavailableCall(id) PROVE <2>2!:
      BY <3>3 DEF UnavailableCall, StallStep
    <3>4. CASE TimeoutsCall \/ TickCall
      BY <3>4 DEF TimeoutsCall, TickCall, StallStep
    <3>5. CASE UNCHANGED callsVars
      BY <3>5 DEF callsVars, receiverVars, StallStep
    <3> QED
      BY <3>1, <3>2, <3>3, <3>4, <3>5 DEF ReceiverCallsNext
  <2> QED
    BY <2>1, <2>2, NoSilentStallStep
<1> QED
  BY <1>1, <1>2, ReceiverInvariant, PTL DEF ReceiverCallsSpec

-----------------------------------------------------------------------------
(* RELIABLE_ORDERED.  Nothing is remembered before the first frame; until  *)
(* publishers mix, what waits is the active publisher's, and until a       *)
(* request completes, a key the filter holds at or above the expected      *)
(* sequence is that of a waiting frame, never of the expected one: so the  *)
(* filter does not swallow the frame delivery waits for.                   *)
NoKeysYet == active_publisher_id = None => recent_keys = {}

OwnFrames == \A s \in Buffered : buffered_out_of_order[s].publisher_id = active_publisher_id

AheadIsBuffered ==
    \A key \in recent_keys :
        key[1] = active_publisher_id /\ key[2] >= expected_sequence =>
            key[2] \in Buffered /\ key[2] # expected_sequence

OrderInv ==
    /\ NoKeysYet
    /\ mode = "ReliableOrdered" /\ ~ mixed => OwnFrames
    /\ mode = "ReliableOrdered" /\ ~ mixed /\ ~ replayed => AheadIsBuffered
    /\ InOrderUntilReplay

LEMMA CleanChange ==
    ASSUME NEW frame \in Frame, ~ UncleanChange(frame)
    PROVE  \/ active_publisher_id = None
           \/ active_publisher_id = frame.publisher_id
           \/ StatusOf(frame) = "PublisherReset" /\ ~ Remembered(frame.publisher_id)
BY DEF UncleanChange

LEMMA StatusMeans ==
    ASSUME NEW frame \in Frame
    PROVE  /\ StatusOf(frame) = "InOrder" =>
                 \/ active_publisher_id = frame.publisher_id /\ frame.sequence = expected_sequence
                 \/ active_publisher_id = None /\ frame.sequence = 1
           /\ StatusOf(frame) = "DuplicateOrOld" =>
                 active_publisher_id = frame.publisher_id /\ frame.sequence < expected_sequence
           /\ StatusOf(frame) = "PublisherReset" =>
                 /\ active_publisher_id \notin {None, frame.publisher_id}
                 /\ frame.sequence = 1
BY FrameFields DEF StatusOf, Status

(* A duplicate is the active publisher's, after clean changes.             *)
LEMMA DuplicateIsOwn ==
    ASSUME NoKeysYet, NEW frame \in Frame, ~ UncleanChange(frame), IsDuplicate(Key(frame))
    PROVE  active_publisher_id = frame.publisher_id
BY CleanChange, KeyIs DEF IsDuplicate, NoKeysYet, Remembered

LEMMA NoneMeansEmpty ==
    ASSUME BufferOK, OwnFrames, active_publisher_id = None PROVE Buffered = {}
BY FrameFields DEF BufferOK, OwnFrames

LEMMA RecordKeys ==
    ASSUME CallsTypeInv, NEW frame \in Frame, IsDuplicateAndRecord(Key(frame))
    PROVE  \A key \in recent_keys' :
              key \in recent_keys \/ (key[1] = frame.publisher_id /\ key[2] = frame.sequence)
BY KeyIs, RecordIs DEF CallsTypeInv, ReceiverInv

LEMMA KeyNumbers == ASSUME CallsTypeInv PROVE \A key \in recent_keys : key[2] \in Nat
BY DEF CallsTypeInv, ReceiverInv, DedupTypeOK, DuplicateKey

(* In-order delivery extends the run of delivered frames by the frame and  *)
(* the frames that were waiting for it.                                    *)
LEMMA DeliverExtendsRun ==
    ASSUME CallsTypeInv, OrderInv, NEW frame \in Frame, DeliverInOrder(frame),
           HandOut(ToDeliver(frame)), mode = "ReliableOrdered", ~ mixed, ~ replayed
    PROVE  LET start == Len(delivered') - (expected_sequence' - 1)
           IN  /\ start >= 0
               /\ \A i \in 1 .. (expected_sequence' - 1) :
                     /\ delivered'[start + i].sequence = i
                     /\ delivered'[start + i].publisher_id = frame.publisher_id
<1> DEFINE seq == frame.sequence
           e == ContiguousEnd(seq + 1)
           rest == Contiguous(seq + 1)
           len == Len(delivered)
<1>1. ReceiverInv /\ BufferOK /\ TrackerTypeOK /\ OwnFrames /\ seq \in Nat \ {0} /\ seq + 1 \in Nat
  BY FrameFields DEF CallsTypeInv, ReceiverInv, OrderInv
<1>2. ToDeliver(frame) = <<frame>> \o rest
  BY DEF DeliverInOrder, ToDeliver, ToDeliverReliable
<1>3. e \in Nat /\ e >= seq + 1 /\ expected_sequence' = e
  BY <1>1, ContiguousEndIs, DeliverIs
<1>4. /\ rest \in Seq(Frame) /\ Len(rest) = e - (seq + 1)
      /\ \A i \in 1 .. (e - (seq + 1)) :
            (seq + 1) + i - 1 \in Buffered /\ rest[i] = buffered_out_of_order[(seq + 1) + i - 1]
  BY <1>1, ContiguousIs
<1>5. /\ ToDeliver(frame) \in Seq(Frame) /\ Len(ToDeliver(frame)) = e - seq
      /\ ToDeliver(frame)[1] = frame
      /\ \A i \in 1 .. (e - (seq + 1)) : ToDeliver(frame)[1 + i] = rest[i]
  <2>1. <<frame>> \in Seq(Frame) /\ Len(<<frame>>) = 1 /\ <<frame>>[1] = frame
    OBVIOUS
  <2> HIDE DEF rest, e
  <2>2. /\ <<frame>> \o rest \in Seq(Frame) /\ Len(<<frame>> \o rest) = 1 + Len(rest)
        /\ \A i \in 1 .. 1 : (<<frame>> \o rest)[i] = frame
        /\ \A i \in 1 .. Len(rest) : (<<frame>> \o rest)[1 + i] = rest[i]
    BY <1>4, <2>1, ConcatProperties
  <2> QED
    BY <1>1, <1>2, <1>3, <1>4, <2>2
<1>6. /\ len \in Nat /\ Len(delivered') = len + (e - seq)
      /\ \A i \in 1 .. len : delivered'[i] = delivered[i]
      /\ \A i \in 1 .. (e - seq) : delivered'[len + i] = ToDeliver(frame)[i]
  BY <1>5, HandOutIs, LenProperties DEF CallsTypeInv
<1>7. /\ seq - 1 <= len
      /\ \A i \in 1 .. (seq - 1) : /\ delivered[(len - (seq - 1)) + i].sequence = i
                                  /\ delivered[(len - (seq - 1)) + i].publisher_id = frame.publisher_id
  <2>1. StatusOf(frame) = "InOrder"
    BY DEF DeliverInOrder
  <2>2. CASE active_publisher_id = frame.publisher_id /\ seq = expected_sequence
    BY <1>1, <1>6, <2>2 DEF OrderInv, InOrderUntilReplay
  <2>3. CASE seq = 1
    BY <1>6, <2>3
  <2> QED
    BY <2>1, <2>2, <2>3, StatusMeans
<1>8. \A s \in Buffered : /\ buffered_out_of_order[s].sequence = s
                          /\ buffered_out_of_order[s].publisher_id = active_publisher_id
  BY <1>1 DEF BufferOK, OwnFrames
<1>9. Buffered # {} => active_publisher_id = frame.publisher_id
  BY <1>1, NoneMeansEmpty, StatusMeans DEF DeliverInOrder
<1> HIDE DEF e, rest, len, seq
<1>10. Len(delivered') - (expected_sequence' - 1) = len - (seq - 1)
  BY <1>1, <1>3, <1>6
<1>11. ASSUME NEW i \in 1 .. (e - 1)
       PROVE  /\ delivered'[(len - (seq - 1)) + i].sequence = i
              /\ delivered'[(len - (seq - 1)) + i].publisher_id = frame.publisher_id
  <2>1. CASE i < seq
    <3>1. i \in 1 .. (seq - 1) /\ (len - (seq - 1)) + i \in 1 .. len
      BY <1>1, <1>3, <1>6, <1>7, <2>1
    <3> QED
      BY <1>6, <1>7, <3>1
  <2>2. CASE i = seq
    <3>1. (len - (seq - 1)) + i = len + 1 /\ 1 \in 1 .. (e - seq)
      BY <1>1, <1>3, <1>6, <2>2
    <3>2. delivered'[len + 1] = frame
      BY <1>5, <1>6, <3>1
    <3> QED
      BY <2>2, <3>1, <3>2 DEF seq
  <2>3. CASE i > seq
    <3> DEFINE k == i - seq
    <3>1. i \in Nat /\ i <= e - 1 /\ seq \in Nat /\ e \in Nat /\ len \in Nat
      BY <1>1, <1>3, <1>6
    <3>2. /\ (len - (seq - 1)) + i = len + (1 + k) /\ 1 + k \in 1 .. (e - seq)
          /\ k \in 1 .. (e - (seq + 1)) /\ (seq + 1) + k - 1 = i
      BY <2>3, <3>1
    <3> HIDE DEF k
    <3>3. delivered'[len + (1 + k)] = buffered_out_of_order[i] /\ i \in Buffered
      BY <1>4, <1>5, <1>6, <3>2
    <3> QED
      BY <1>8, <1>9, <3>2, <3>3
  <2> QED
    BY <1>1, <1>3, <2>1, <2>2, <2>3
<1>12. len - (seq - 1) >= 0
  <2>1. len \in Nat /\ seq \in Nat /\ seq - 1 <= len
    BY <1>1, <1>6, <1>7
  <2> QED
    BY <2>1
<1> QED
  BY <1>3, <1>10, <1>11, <1>12

(* The five outcomes of RELIABLE_ORDERED, without a change of publisher    *)
(* that mixes.                                                             *)
LEMMA OrderData ==
    ASSUME CallsTypeInv, OrderInv, NEW frame \in Frame, DataCall(frame),
           mode = "ReliableOrdered", ~ mixed'
    PROVE  OwnFrames' /\ (~ replayed' => AheadIsBuffered' /\ InOrderUntilReplay')
<1> DEFINE seq == frame.sequence
           pub == frame.publisher_id
<1>1. /\ ReceiverInv /\ BufferOK /\ TrackerTypeOK /\ RequestsOK /\ seq \in Nat \ {0}
      /\ expected_sequence \in Nat \ {0} /\ pub # None /\ delivered \in Seq(Frame)
  BY FrameFields DEF CallsTypeInv, ReceiverInv, TrackerTypeOK
<1>2. /\ ~ mixed /\ ~ UncleanChange(frame) /\ HandOut(ToDeliver(frame)) /\ UNCHANGED <<mode, replayed>>
  BY DataCallIs DEF DataCall, CallsTypeInv
<1>3. /\ \/ SuppressDuplicate(frame) \/ DeliverInOrder(frame) \/ BufferAndRequest(frame)
         \/ SuppressOld(frame) \/ ResetForPublisher(frame)
      /\ IsDuplicateAndRecord(Key(frame))
  BY DEF DataCall, ProcessDataFrame, BestEffortFrame, LatestFrame, AtLeastOnceFrame, ReliableOrderedFrame
<1>4. NoKeysYet /\ OwnFrames /\ (~ replayed => AheadIsBuffered /\ InOrderUntilReplay)
  BY <1>2 DEF OrderInv
<1>5. \A key \in recent_keys' : key \in recent_keys \/ (key[1] = pub /\ key[2] = seq)
  BY <1>3, RecordKeys
<1>6. \A key \in recent_keys : key[2] \in Nat
  BY KeyNumbers
<1>7. active_publisher_id' = pub
  BY DataCallIs
<1>8. ASSUME UNCHANGED <<active_publisher_id, expected_sequence, delivered>>, ~ replayed
      PROVE  InOrderUntilReplay'
  BY <1>2, <1>4, <1>8 DEF InOrderUntilReplay
<1> HIDE DEF seq, pub
<1>9. CASE SuppressDuplicate(frame)
  <2>1. active_publisher_id = pub
    BY <1>2, <1>4, <1>9, DuplicateIsOwn DEF SuppressDuplicate, pub
  <2>2. UNCHANGED <<recoveryVars, recent_keys>> /\ IsDuplicate(Key(frame)) /\ ObserveFrame(frame)
    BY <1>3, <1>9 DEF SuppressDuplicate, IsDuplicateAndRecord, dedupVars
  <2>3. UNCHANGED delivered
    BY <1>1, <1>2, <2>2, NothingHandedOut DEF ToDeliver, ToDeliverReliable
  <2>4. Buffered' = Buffered /\ UNCHANGED buffered_out_of_order
    BY <2>2 DEF recoveryVars, Buffered
  <2>5. OwnFrames'
    BY <1>4, <1>7, <2>1, <2>4 DEF OwnFrames
  <2>6. ASSUME ~ replayed PROVE UNCHANGED expected_sequence
    <3>1. Key(frame) \in recent_keys /\ Key(frame)[1] = pub /\ Key(frame)[2] = seq
      BY <2>2, KeyIs DEF IsDuplicate, pub, seq
    <3>2. seq # expected_sequence
      BY <1>1, <1>4, <2>1, <2>6, <3>1 DEF AheadIsBuffered
    <3>3. expected_sequence' = ExpectedAfter(pub, seq)
      BY <1>1, <2>2, ObserveIs DEF pub, seq
    <3> QED
      BY <2>1, <3>2, <3>3 DEF ExpectedAfter, Status, GapFrom
  <2>7. ~ replayed => AheadIsBuffered'
    BY <1>4, <1>7, <2>1, <2>2, <2>4, <2>6 DEF AheadIsBuffered
  <2> QED
    BY <1>2, <1>7, <1>8, <2>1, <2>3, <2>5, <2>6, <2>7
<1>10. CASE DeliverInOrder(frame)
  <2>1. /\ expected_sequence' = ContiguousEnd(seq + 1) /\ expected_sequence' >= seq + 1
        /\ Buffered' = Buffered \ ((seq + 1) .. (expected_sequence' - 1))
        /\ \A s \in Buffered' : buffered_out_of_order'[s] = buffered_out_of_order[s]
        /\ TrackerTypeOK'
    BY <1>1, <1>10, DeliverIs DEF seq
  <2>2. \/ active_publisher_id = pub /\ seq = expected_sequence
        \/ active_publisher_id = None
    BY <1>10, StatusMeans DEF DeliverInOrder, seq, pub
  <2>3. OwnFrames'
    BY <1>1, <1>4, <1>7, <2>1, <2>2, NoneMeansEmpty DEF OwnFrames
  <2>4. ASSUME ~ replayed PROVE AheadIsBuffered'
    <3>1. expected_sequence' \notin Buffered /\ expected_sequence' \in Nat
      BY <1>1, <2>1, ContiguousEndIs DEF TrackerTypeOK
    <3> SUFFICES ASSUME NEW key \in recent_keys', key[1] = pub, key[2] >= expected_sequence'
                 PROVE  key[2] \in Buffered' /\ key[2] # expected_sequence'
      BY <1>7 DEF AheadIsBuffered
    <3>2. key \in recent_keys /\ key[2] \in Nat
      BY <1>1, <1>5, <1>6, <2>1, <3>1
    <3>3. active_publisher_id = pub /\ seq = expected_sequence
      BY <1>4, <2>2, <3>2 DEF NoKeysYet
    <3>4. key[2] \in Buffered
      BY <1>1, <1>4, <2>1, <2>4, <3>1, <3>2, <3>3 DEF AheadIsBuffered
    <3> QED
      BY <2>1, <3>1, <3>2, <3>4
  <2>5. ASSUME ~ replayed PROVE InOrderUntilReplay'
    BY <1>2, <1>7, <1>10, <2>5, DeliverExtendsRun DEF InOrderUntilReplay, pub
  <2> QED
    BY <1>2, <2>3, <2>4, <2>5
<1>11. CASE BufferAndRequest(frame)
  <2>1. /\ StatusOf(frame) = "Gap" /\ ObserveFrame(frame) /\ buffered_out_of_order' = WithFrame(frame)
    BY <1>11 DEF BufferAndRequest
  <2>2. active_publisher_id = pub \/ active_publisher_id = None
    BY <1>2, <2>1, CleanChange DEF pub
  <2>3. /\ expected_sequence' = GapFrom(pub) /\ GapFrom(pub) < seq
    BY <1>1, <2>1, ObserveIs, StatusIs DEF pub, seq
  <2>4. Buffered' = Buffered \cup {seq}
    BY <1>1, <2>1, BufferWithFrame DEF seq
  <2>5. OwnFrames'
    <3>1. /\ WithFrame(frame)[seq] = frame
          /\ \A k \in Buffered \ {seq} : WithFrame(frame)[k] = buffered_out_of_order[k]
      BY <1>1, WithFrameMap DEF seq
    <3> QED
      BY <1>1, <1>4, <1>7, <2>1, <2>2, <2>4, <3>1, NoneMeansEmpty DEF OwnFrames, pub
  <2>6. UNCHANGED delivered
    <3>1. HandOut(<<>>)
      BY <1>2, <1>11 DEF BufferAndRequest, ToDeliver, ToDeliverReliable
    <3> QED
      BY <1>1, <3>1, NothingHandedOut
  <2>7. CASE active_publisher_id = pub
    <3>1. UNCHANGED expected_sequence
      BY <2>3, <2>7 DEF GapFrom
    <3>2. ~ replayed => AheadIsBuffered'
      BY <1>1, <1>4, <1>5, <1>7, <2>3, <2>4, <2>7, <3>1 DEF AheadIsBuffered
    <3> QED
      BY <1>2, <1>7, <1>8, <2>5, <2>6, <2>7, <3>1, <3>2
  <2>8. CASE active_publisher_id = None
    <3>1. expected_sequence' = 1
      BY <1>1, <2>3, <2>8 DEF GapFrom
    <3>2. AheadIsBuffered'
      BY <1>1, <1>4, <1>5, <2>3, <2>4, <2>8 DEF AheadIsBuffered, NoKeysYet
    <3>3. InOrderUntilReplay'
      BY <1>1, <2>6, <3>1, LenProperties DEF InOrderUntilReplay
    <3> QED
      BY <2>5, <3>2, <3>3
  <2> QED
    BY <2>2, <2>7, <2>8
<1>12. CASE SuppressOld(frame)
  <2>1. /\ UNCHANGED recoveryVars /\ ObserveFrame(frame) /\ StatusOf(frame) = "DuplicateOrOld"
        /\ HandOut(<<>>)
    BY <1>2, <1>12 DEF SuppressOld, ToDeliver, ToDeliverReliable
  <2>2. active_publisher_id = pub /\ seq < expected_sequence
    BY <2>1, StatusMeans DEF pub, seq
  <2>3. UNCHANGED delivered
    BY <1>1, <2>1, NothingHandedOut
  <2>4. Buffered' = Buffered /\ UNCHANGED buffered_out_of_order
    BY <2>1 DEF recoveryVars, Buffered
  <2>5. UNCHANGED expected_sequence
    <3>1. expected_sequence' = GapFrom(pub)
      BY <1>1, <2>1, ObserveIs, StatusIs DEF pub, seq
    <3> QED
      BY <2>2, <3>1 DEF GapFrom
  <2>6. OwnFrames'
    BY <1>4, <1>7, <2>2, <2>4 DEF OwnFrames
  <2>7. ~ replayed => AheadIsBuffered'
    BY <1>1, <1>4, <1>5, <1>7, <2>2, <2>4, <2>5 DEF AheadIsBuffered
  <2> QED
    BY <1>2, <1>7, <1>8, <2>2, <2>3, <2>5, <2>6, <2>7
<1>13. CASE ResetForPublisher(frame)
  <2>1. /\ Reset /\ ObserveFrame(frame) /\ StatusOf(frame) = "PublisherReset"
        /\ ToDeliver(frame) = <<frame>>
    BY <1>13 DEF ResetForPublisher, ToDeliver, ToDeliverReliable
  <2>2. seq = 1 /\ ~ Remembered(pub)
    BY <1>2, <2>1, StatusMeans, CleanChange DEF pub, seq
  <2>3. Buffered' = {}
    BY <1>1, <2>1, ResetIs
  <2>4. expected_sequence' = 2
    BY <1>1, <2>1, <2>2, ObserveIs, StatusIs DEF pub, seq
  <2>5. AheadIsBuffered'
    BY <1>5, <1>7, <2>2, <2>4 DEF AheadIsBuffered, Remembered
  <2>6. InOrderUntilReplay'
    <3>1. delivered' = Append(delivered, frame)
      BY <1>1, <1>2, <2>1 DEF HandOut
    <3>2. Len(delivered) \in Nat /\ Len(delivered') = Len(delivered) + 1
          /\ delivered'[Len(delivered) + 1] = frame
      BY <1>1, <3>1, AppendProperties, LenProperties
    <3>3. Len(delivered') - (expected_sequence' - 1) = Len(delivered)
          /\ 1 .. (expected_sequence' - 1) = {1}
      BY <2>4, <3>2
    <3> QED
      BY <1>7, <2>2, <3>2, <3>3 DEF InOrderUntilReplay, pub, seq
  <2> QED
    BY <2>3, <2>5, <2>6 DEF OwnFrames
<1> QED
  BY <1>3, <1>9, <1>10, <1>11, <1>12, <1>13

(* A response that does not complete its request only adds to the buffer.  *)
LEMMA OrderResponse ==
    ASSUME CallsTypeInv, OrderInv, NEW id, NEW frame \in Frame, ResponseCall(id, frame)
    PROVE  OrderInv'
<1>1. /\ RequestsOK /\ BufferOK /\ HandleReplayResponse(id, frame)
      /\ replayed' = (replayed \/ Completes(id, frame))
      /\ mixed' = (mixed \/ (id \in Outstanding /\ frame.publisher_id # active_publisher_id))
      /\ UNCHANGED <<active_publisher_id, expected_sequence, recent_keys, mode>>
  BY DEF CallsTypeInv, ReceiverInv, ResponseCall, trackerVars, dedupVars
<1>2. NoKeysYet'
  BY <1>1 DEF OrderInv, NoKeysYet
<1>3. CASE Completes(id, frame)
  <2>1. Buffered' = {} /\ replayed' = TRUE
    BY <1>1, <1>3, ResponseIs DEF CallsTypeInv
  <2> QED
    BY <1>2, <2>1 DEF OrderInv, OwnFrames, InOrderUntilReplay
<1>4. CASE ~ Completes(id, frame)
  <2>1. UNCHANGED <<delivered, replayed>>
    BY <1>4, ResponseCallIs
  <2>2. InOrderUntilReplay'
    BY <1>1, <2>1 DEF OrderInv, InOrderUntilReplay, CallsTypeInv
  <2>3. CASE id \notin Outstanding
    <3>1. UNCHANGED buffered_out_of_order
      BY <1>1, <2>3, ResponseIs DEF recoveryVars
    <3>2. Buffered' = Buffered
      BY <3>1 DEF Buffered
    <3> QED
      BY <1>1, <1>2, <2>1, <2>2, <2>3, <3>1, <3>2 DEF OrderInv, OwnFrames, AheadIsBuffered, CallsTypeInv
  <2>4. CASE id \in Outstanding
    <3>1. buffered_out_of_order' = WithFrame(frame)
      BY <1>1, <1>4, <2>4, ResponseIs
    <3>2. Buffered' = Buffered \cup {frame.sequence}
      BY <1>1, <3>1, BufferWithFrame
    <3>3. /\ WithFrame(frame)[frame.sequence] = frame
          /\ \A k \in Buffered \ {frame.sequence} : WithFrame(frame)[k] = buffered_out_of_order[k]
      BY <1>1, WithFrameMap
    <3>4. mode = "ReliableOrdered" /\ ~ mixed' => OwnFrames'
      BY <1>1, <2>4, <3>1, <3>2, <3>3 DEF OrderInv, OwnFrames, CallsTypeInv
    <3>5. mode = "ReliableOrdered" /\ ~ mixed' /\ ~ replayed => AheadIsBuffered'
      BY <1>1, <3>2 DEF OrderInv, AheadIsBuffered, CallsTypeInv
    <3> QED
      BY <1>1, <1>2, <2>1, <2>2, <3>4, <3>5 DEF OrderInv
  <2> QED
    BY <2>3, <2>4
<1> QED
  BY <1>3, <1>4

LEMMA OrderNext ==
    CallsTypeInv /\ OrderInv /\ [ReceiverCallsNext]_callsVars => OrderInv'
<1> SUFFICES ASSUME CallsTypeInv, OrderInv, [ReceiverCallsNext]_callsVars PROVE OrderInv'
  OBVIOUS
<1>1. ASSUME NEW frame \in Frame, DataCall(frame) PROVE OrderInv'
  <2>1. active_publisher_id' # None /\ UNCHANGED <<mode, replayed>>
    BY <1>1, DataCallIs, FrameFields
  <2>2. mode = "ReliableOrdered" /\ ~ mixed' =>
           OwnFrames' /\ (~ replayed' => AheadIsBuffered' /\ InOrderUntilReplay')
    BY <1>1, OrderData
  <2>3. InOrderUntilReplay'
    BY <2>1, <2>2 DEF InOrderUntilReplay
  <2> QED
    BY <2>1, <2>2, <2>3 DEF OrderInv, NoKeysYet
<1>2. ASSUME UNCHANGED <<trackerVars, dedupVars, buffered_out_of_order, mode, delivered, replayed, mixed>>
      PROVE  OrderInv'
  BY <1>2 DEF trackerVars, dedupVars, Buffered, OrderInv, NoKeysYet, OwnFrames, AheadIsBuffered,
              InOrderUntilReplay
<1> QED
  BY <1>1, <1>2, OrderResponse, QuietStep DEF ReceiverCallsNext

(* The ordering invariant of process_data_frame's ReliableOrdered arm      *)
(* (modes.rs) and of the buffer it drains (engine.rs) holds for every      *)
(* configuration and order of calls.                                       *)
THEOREM OrderInvariant == ReceiverCallsSpec => []OrderInv
<1>1. ReceiverCallsInit => OrderInv
  <2> SUFFICES ASSUME ReceiverCallsInit PROVE OrderInv
    OBVIOUS
  <2>1. Buffered = {} /\ recent_keys = {} /\ delivered = <<>> /\ expected_sequence = 1
    BY EmptyMap DEF ReceiverCallsInit, ReceiverInit, RecoveryInit, DedupInit, TrackerInit, Buffered
  <2>2. InOrderUntilReplay
    BY <2>1 DEF InOrderUntilReplay
  <2> QED
    BY <2>1, <2>2 DEF OrderInv, NoKeysYet, OwnFrames, AheadIsBuffered
<1> QED
  BY <1>1, OrderNext, ReceiverInvariant, PTL DEF ReceiverCallsSpec

(* RELIABLE_ORDERED (modes.rs, the ReliableOrdered arm): for every filter  *)
(* capacity, request limit and number of frames, until a request completes *)
(* or publishers mix, the application has got the active publisher's       *)
(* frames 1, 2, ..., expected_sequence - 1 as the last frames handed out,  *)
(* in order and each once.                                                 *)
THEOREM InOrderTheorem == ReceiverCallsSpec => []InOrderUntilReplay
<1>1. OrderInv => InOrderUntilReplay
  BY DEF OrderInv
<1> QED
  BY <1>1, OrderInvariant, PTL

-----------------------------------------------------------------------------
(* What has arrived is kept: it waits in the buffer or was handed out.     *)
(* The same is true of every key the filter would suppress and of every    *)
(* sequence the tracker calls old.                                         *)
Handed(s) ==
    \E f \in Range(delivered) : f.publisher_id = active_publisher_id /\ f.sequence = s

Kept(s) == s \in Buffered \/ Handed(s)

EverythingKept ==
    /\ \A key \in recent_keys : key[1] = active_publisher_id => Kept(key[2])
    /\ \A s \in 1 .. expected_sequence - 1 : Kept(s)
    /\ \A frame \in arrived : Kept(frame.sequence)

KeptInv ==
    /\ \A frame \in arrived : frame.publisher_id = active_publisher_id
    /\ mode = "ReliableOrdered" /\ ~ mixed => EverythingKept

(* A waiting frame that leaves the buffer is handed out.                   *)
LEMMA KeptStays ==
    ASSUME BufferOK, OwnFrames, UNCHANGED active_publisher_id,
           Range(delivered) \subseteq Range(delivered'),
           \A k \in Buffered : \/ k \in Buffered'
                              \/ buffered_out_of_order[k] \in Range(delivered')
                              \/ \E f \in Range(delivered') :
                                    f.publisher_id = active_publisher_id /\ f.sequence = k,
           NEW s, Kept(s)
    PROVE  Kept(s)'
BY DEF BufferOK, OwnFrames, Kept, Handed

LEMMA SingletonRange ==
    ASSUME NEW frame, NEW frames \in Seq(Frame), frame \in Frame
    PROVE  /\ frame \in Range(<<frame>>)
           /\ frame \in Range(<<frame>> \o frames)
           /\ Range(frames) \subseteq Range(<<frame>> \o frames)
<1>1. <<frame>> \in Seq(Frame) /\ Len(<<frame>>) = 1 /\ <<frame>>[1] = frame /\ DOMAIN <<frame>> = 1 .. 1
  OBVIOUS
<1>2. /\ Len(frames) \in Nat /\ DOMAIN frames = 1 .. Len(frames)
      /\ DOMAIN (<<frame>> \o frames) = 1 .. (1 + Len(frames))
      /\ (<<frame>> \o frames)[1] = frame
      /\ \A i \in 1 .. Len(frames) : (<<frame>> \o frames)[1 + i] = frames[i]
  <2>1. 1 \in 1 .. 1
    OBVIOUS
  <2> QED
    BY <1>1, <2>1, ConcatProperties, LenProperties
<1>3. 1 \in 1 .. (1 + Len(frames)) /\ \A i \in 1 .. Len(frames) : 1 + i \in 1 .. (1 + Len(frames))
  BY <1>2
<1>4. frame \in Range(<<frame>>)
  BY <1>1 DEF Range
<1> QED
  BY <1>2, <1>3, <1>4 DEF Range

LEMMA KeptDataReliable ==
    ASSUME CallsTypeInv, OrderInv, KeptInv, NEW frame \in Frame, DataCall(frame),
           mode = "ReliableOrdered", ~ mixed'
    PROVE  EverythingKept'
<1> DEFINE seq == frame.sequence
           pub == frame.publisher_id
<1>1. /\ ReceiverInv /\ BufferOK /\ TrackerTypeOK /\ RequestsOK /\ seq \in Nat \ {0}
      /\ expected_sequence \in Nat \ {0} /\ pub # None /\ delivered \in Seq(Frame)
  BY FrameFields DEF CallsTypeInv, ReceiverInv, TrackerTypeOK
<1>2. ~ mixed /\ ~ UncleanChange(frame)
  BY DEF DataCall, CallsTypeInv
<1>3. /\ \/ SuppressDuplicate(frame) \/ DeliverInOrder(frame) \/ BufferAndRequest(frame)
         \/ SuppressOld(frame) \/ ResetForPublisher(frame)
      /\ IsDuplicateAndRecord(Key(frame))
  BY DEF DataCall, ProcessDataFrame, BestEffortFrame, LatestFrame, AtLeastOnceFrame, ReliableOrderedFrame
<1>4. NoKeysYet /\ OwnFrames /\ EverythingKept
  BY <1>2 DEF OrderInv, KeptInv
<1>5. \A key \in recent_keys' : key \in recent_keys \/ (key[1] = pub /\ key[2] = seq)
  BY <1>3, RecordKeys
<1>6. active_publisher_id' = pub /\ TrackerTypeOK'
      /\ Range(delivered') = Range(delivered) \cup Range(ToDeliver(frame))
  BY DataCallIs DEF CallsTypeInv, ReceiverInv
<1>7. \A f \in arrived' : f = frame \/ (active_publisher_id = pub /\ f \in arrived)
  BY DEF DataCall, pub
<1>8. frame \in Range(ToDeliver(frame)) => Kept(seq)'
  BY <1>6 DEF Kept, Handed, seq, pub
<1>9. \/ active_publisher_id = pub
      \/ \A key \in recent_keys : key[1] # pub
  BY <1>2, <1>4, CleanChange DEF Remembered, NoKeysYet, pub
(* Within one publisher: what was kept is kept, and the frame is too.      *)
<1>10. ASSUME active_publisher_id = pub, Kept(seq)', expected_sequence' \in Nat,
              \A s : Kept(s) => Kept(s)',
              \A s \in 1 .. expected_sequence' - 1 : s < expected_sequence \/ Kept(s)'
       PROVE  EverythingKept'
  <2>1. \A key \in recent_keys' : key[1] = active_publisher_id' => Kept(key[2])'
    <3> SUFFICES ASSUME NEW key \in recent_keys', key[1] = pub PROVE Kept(key[2])'
      BY <1>6
    <3>1. CASE key \in recent_keys
      BY <1>4, <1>10, <3>1 DEF EverythingKept
    <3>2. CASE key[2] = seq
      BY <1>10, <3>2 DEF Kept, Handed
    <3> QED
      BY <1>5, <3>1, <3>2
  <2>2. \A s \in 1 .. expected_sequence' - 1 : Kept(s)'
    <3> SUFFICES ASSUME NEW s \in 1 .. expected_sequence' - 1, s < expected_sequence PROVE Kept(s)'
      BY <1>10
    <3>1. s \in 1 .. expected_sequence - 1
      BY <1>1, <1>10
    <3> QED
      BY <1>4, <1>10, <3>1 DEF EverythingKept
  <2>3. \A f \in arrived' : Kept(f.sequence)'
    <3> SUFFICES ASSUME NEW f \in arrived' PROVE Kept(f.sequence)'
      OBVIOUS
    <3>1. CASE f \in arrived
      BY <1>4, <1>10, <3>1 DEF EverythingKept
    <3>2. CASE f = frame
      BY <1>10, <3>2 DEF seq
    <3> QED
      BY <1>7, <3>1, <3>2
  <2> QED
    BY <2>1, <2>2, <2>3 DEF EverythingKept
(* After a clean change of publisher only the frame counts.                *)
<1>11. ASSUME active_publisher_id # pub, Kept(seq)', expected_sequence' \in Nat,
              \A s \in 1 .. expected_sequence' - 1 : s = seq \/ Kept(s)'
       PROVE  EverythingKept'
  <2>1. \A key \in recent_keys' : key[1] = active_publisher_id' => Kept(key[2])'
    BY <1>5, <1>6, <1>9, <1>11 DEF Kept, Handed
  <2>2. \A f \in arrived' : Kept(f.sequence)'
    BY <1>7, <1>11 DEF seq
  <2> QED
    BY <1>11, <2>1, <2>2 DEF EverythingKept
<1> HIDE DEF seq, pub
<1>12. CASE SuppressDuplicate(frame)
  <2>1. active_publisher_id = pub
    BY <1>2, <1>4, <1>12, DuplicateIsOwn DEF SuppressDuplicate, pub
  <2>2. UNCHANGED recoveryVars /\ IsDuplicate(Key(frame)) /\ ObserveFrame(frame)
    BY <1>12 DEF SuppressDuplicate
  <2>3. Buffered' = Buffered
    BY <2>2 DEF recoveryVars, Buffered
  <2>4. \A s : Kept(s) => Kept(s)'
    BY <1>1, <1>4, <1>6, <2>1, <2>3, KeptStays
  <2>5. Kept(seq)
    <3>1. Key(frame) \in recent_keys /\ Key(frame)[1] = pub /\ Key(frame)[2] = seq
      BY <2>2, KeyIs DEF IsDuplicate, pub, seq
    <3> QED
      BY <1>4, <2>1, <3>1 DEF EverythingKept
  <2>6. expected_sequence' = expected_sequence \/ (seq = expected_sequence /\ expected_sequence' = seq + 1)
    <3>1. expected_sequence' = ExpectedAfter(pub, seq)
      BY <1>1, <2>2, ObserveIs DEF pub, seq
    <3> QED
      BY <2>1, <3>1 DEF ExpectedAfter, Status, GapFrom
  <2>7. \A s \in 1 .. expected_sequence' - 1 : s < expected_sequence \/ s = seq
    BY <1>1, <2>6
  <2>8. expected_sequence' \in Nat
    BY <1>6 DEF TrackerTypeOK
  <2> QED
    BY <1>10, <2>1, <2>4, <2>5, <2>7, <2>8
<1>13. CASE DeliverInOrder(frame)
  <2> DEFINE rest == Contiguous(seq + 1)
             e == ContiguousEnd(seq + 1)
  <2>1. /\ expected_sequence' = e /\ e \in Nat
        /\ Buffered' = Buffered \ ((seq + 1) .. (e - 1))
    BY <1>1, <1>6, <1>13, DeliverIs DEF seq, TrackerTypeOK
  <2>2. \/ active_publisher_id = pub /\ seq = expected_sequence
        \/ active_publisher_id = None /\ seq = 1
    BY <1>13, StatusMeans DEF DeliverInOrder, seq, pub
  <2>3. ToDeliver(frame) = <<frame>> \o rest /\ rest \in Seq(Frame)
    <3>1. ToDeliver(frame) = <<frame>> \o rest
      BY <1>13 DEF DeliverInOrder, ToDeliver, ToDeliverReliable, seq
    <3>2. rest \in Seq(Frame)
      BY <1>1, ContiguousIs
    <3> QED
      BY <3>1, <3>2
  <2>4. \A s \in (seq + 1) .. (e - 1) : s \in Buffered /\ buffered_out_of_order[s] \in Range(rest)
    BY <1>1, ContiguousCovers
  <2> HIDE DEF rest, e
  <2>5. frame \in Range(ToDeliver(frame)) /\ Range(rest) \subseteq Range(ToDeliver(frame))
    BY <2>3, SingletonRange
  <2>6. \A s \in (seq + 1) .. (e - 1) : s \in Buffered /\ buffered_out_of_order[s] \in Range(delivered')
    BY <1>6, <2>4, <2>5
  <2>7. CASE active_publisher_id = pub /\ seq = expected_sequence
    <3>1. \A s : Kept(s) => Kept(s)'
      BY <1>1, <1>4, <1>6, <2>1, <2>6, <2>7, KeptStays
    <3>2. \A s \in 1 .. e - 1 : s < expected_sequence \/ s = seq \/ s \in (seq + 1) .. (e - 1)
      BY <1>1, <2>1, <2>7
    <3>3. \A s \in (seq + 1) .. (e - 1) : Kept(s)'
      BY <2>6, <3>1 DEF Kept
    <3> QED
      BY <1>8, <1>10, <2>1, <2>5, <2>7, <3>1, <3>2, <3>3
  <2>8. CASE active_publisher_id = None /\ seq = 1
    <3>1. Buffered = {}
      BY <1>1, <1>4, <2>8, NoneMeansEmpty
    <3>2. \A s \in 1 .. e - 1 : s = seq \/ s \in (seq + 1) .. (e - 1)
      BY <2>1, <2>8
    <3>3. \A s \in 1 .. e - 1 : s = seq
      BY <2>6, <3>1, <3>2
    <3> QED
      BY <1>1, <1>8, <1>11, <2>1, <2>5, <2>8, <3>3
  <2> QED
    BY <2>2, <2>7, <2>8
<1>14. CASE BufferAndRequest(frame)
  <2>1. /\ StatusOf(frame) = "Gap" /\ ObserveFrame(frame) /\ buffered_out_of_order' = WithFrame(frame)
    BY <1>14 DEF BufferAndRequest
  <2>2. active_publisher_id = pub \/ active_publisher_id = None
    BY <1>2, <2>1, CleanChange DEF pub
  <2>3. expected_sequence' = GapFrom(pub) /\ expected_sequence' \in Nat
    BY <1>1, <2>1, ObserveIs, StatusIs DEF pub, seq
  <2>4. Buffered' = Buffered \cup {seq}
    BY <1>1, <2>1, BufferWithFrame DEF seq
  <2>5. Kept(seq)'
    BY <2>4 DEF Kept, seq
  <2>6. CASE active_publisher_id = pub
    <3>1. \A s : Kept(s) => Kept(s)'
      BY <1>1, <1>4, <1>6, <2>4, <2>6, KeptStays
    <3>2. \A s \in 1 .. expected_sequence' - 1 : s < expected_sequence
      BY <1>1, <2>3, <2>6 DEF GapFrom
    <3> QED
      BY <1>10, <2>3, <2>5, <2>6, <3>1, <3>2
  <2>7. CASE active_publisher_id = None
    <3>1. expected_sequence' = 1
      BY <1>1, <2>3, <2>7 DEF GapFrom
    <3>2. 1 .. expected_sequence' - 1 = {}
      BY <3>1
    <3> QED
      BY <1>1, <1>11, <2>3, <2>5, <2>7, <3>2
  <2> QED
    BY <2>2, <2>6, <2>7
<1>15. CASE SuppressOld(frame)
  <2>1. UNCHANGED recoveryVars /\ ObserveFrame(frame) /\ StatusOf(frame) = "DuplicateOrOld"
    BY <1>15 DEF SuppressOld
  <2>2. active_publisher_id = pub /\ seq < expected_sequence
    BY <2>1, StatusMeans DEF pub, seq
  <2>3. Buffered' = Buffered
    BY <2>1 DEF recoveryVars, Buffered
  <2>4. \A s : Kept(s) => Kept(s)'
    BY <1>1, <1>4, <1>6, <2>2, <2>3, KeptStays
  <2>5. Kept(seq)
    <3>1. seq \in 1 .. expected_sequence - 1
      BY <1>1, <2>2
    <3> QED
      BY <1>4, <3>1 DEF EverythingKept
  <2>6. expected_sequence' = expected_sequence
    <3>1. expected_sequence' = GapFrom(pub)
      BY <1>1, <2>1, ObserveIs, StatusIs DEF pub, seq
    <3> QED
      BY <2>2, <3>1 DEF GapFrom
  <2>7. \A s \in 1 .. expected_sequence' - 1 : s < expected_sequence
    BY <1>1, <2>6
  <2> QED
    BY <1>1, <1>10, <2>2, <2>4, <2>5, <2>6, <2>7
<1>16. CASE ResetForPublisher(frame)
  <2>1. /\ ObserveFrame(frame) /\ StatusOf(frame) = "PublisherReset"
        /\ ToDeliver(frame) = <<frame>>
    BY <1>16 DEF ResetForPublisher, ToDeliver, ToDeliverReliable
  <2>2. seq = 1 /\ active_publisher_id # pub
    BY <2>1, StatusMeans DEF pub, seq
  <2>3. expected_sequence' = 2
    BY <1>1, <2>1, <2>2, ObserveIs, StatusIs DEF pub, seq
  <2>4. frame \in Range(ToDeliver(frame))
    <3>1. <<>> \in Seq(Frame)
      OBVIOUS
    <3> QED
      BY <2>1, <3>1, SingletonRange
  <2>5. \A s \in 1 .. expected_sequence' - 1 : s = seq
    BY <2>2, <2>3
  <2> QED
    BY <1>8, <1>11, <2>2, <2>3, <2>4, <2>5
<1> QED
  BY <1>3, <1>12, <1>13, <1>14, <1>15, <1>16

LEMMA KeptResponse ==
    ASSUME CallsTypeInv, OrderInv, KeptInv, NEW id, NEW frame \in Frame, ResponseCall(id, frame)
    PROVE  KeptInv'
<1>1. /\ RequestsOK /\ BufferOK /\ HandleReplayResponse(id, frame)
      /\ mixed' = (mixed \/ (id \in Outstanding /\ frame.publisher_id # active_publisher_id))
      /\ UNCHANGED <<active_publisher_id, expected_sequence, recent_keys, mode, arrived>>
  BY DEF CallsTypeInv, ReceiverInv, ResponseCall, trackerVars, dedupVars
<1>2. /\ Range(delivered') = Range(delivered) \cup Range(Drained(id, frame))
      /\ ~ Completes(id, frame) => UNCHANGED delivered
  BY ResponseCallIs
<1>3. ASSUME mode = "ReliableOrdered", ~ mixed' PROVE EverythingKept'
  <2>1. ~ mixed /\ (id \in Outstanding => frame.publisher_id = active_publisher_id)
    BY <1>1, <1>3 DEF CallsTypeInv
  <2>2. OwnFrames /\ EverythingKept
    BY <1>3, <2>1 DEF OrderInv, KeptInv
  <2>3. \A k \in Buffered : \/ k \in Buffered'
                            \/ buffered_out_of_order[k] \in Range(delivered')
                            \/ \E f \in Range(delivered') :
                                  f.publisher_id = active_publisher_id /\ f.sequence = k
    <3>1. CASE id \notin Outstanding
      BY <1>1, <3>1, ResponseIs DEF recoveryVars, Buffered
    <3>2. CASE id \in Outstanding /\ ~ Completes(id, frame)
      BY <1>1, <3>2, ResponseIs, BufferWithFrame
    <3>3. CASE Completes(id, frame)
      <4>1. id \in Outstanding
        BY <3>3 DEF Completes
      <4>2. /\ frame \in Range(delivered')
            /\ \A s \in Buffered \ {frame.sequence} : buffered_out_of_order[s] \in Range(delivered')
        BY <1>1, <1>2, <3>3, DrainedIs
      <4> QED
        BY <2>1, <4>1, <4>2
    <3> QED
      BY <3>1, <3>2, <3>3
  <2>4. \A s : Kept(s) => Kept(s)'
    BY <1>1, <1>2, <2>2, <2>3, KeptStays
  <2> QED
    BY <1>1, <2>2, <2>4 DEF EverythingKept
<1> QED
  BY <1>1, <1>3 DEF KeptInv

LEMMA KeptNext ==
    CallsTypeInv /\ OrderInv /\ KeptInv /\ [ReceiverCallsNext]_callsVars => KeptInv'
<1> SUFFICES ASSUME CallsTypeInv, OrderInv, KeptInv, [ReceiverCallsNext]_callsVars PROVE KeptInv'
  OBVIOUS
<1>1. ASSUME NEW frame \in Frame, DataCall(frame) PROVE KeptInv'
  <2>1. UNCHANGED mode /\ active_publisher_id' = frame.publisher_id
    BY <1>1, DataCallIs
  <2>2. \A f \in arrived' : f.publisher_id = active_publisher_id'
    BY <1>1, <2>1 DEF DataCall, KeptInv
  <2>3. mode = "ReliableOrdered" /\ ~ mixed' => EverythingKept'
    BY <1>1, KeptDataReliable
  <2> QED
    BY <2>1, <2>2, <2>3 DEF KeptInv
<1>2. ASSUME UNCHANGED <<trackerVars, dedupVars, buffered_out_of_order, mode, delivered, arrived, mixed>>
      PROVE  KeptInv'
  BY <1>2 DEF trackerVars, dedupVars, Buffered, KeptInv, EverythingKept, Kept, Handed
<1> QED
  BY <1>1, <1>2, KeptResponse, QuietStep DEF ReceiverCallsNext

(* In RELIABLE_ORDERED no frame that arrived is lost inside the receiver   *)
(* (modes.rs process_data_frame, engine.rs drain_buffered,                 *)
(* drain_contiguous and reset) until publishers mix, for every             *)
(* configuration: eviction from the filter, refused and failed requests,   *)
(* duplicates and late answers included.                                   *)
THEOREM ArrivedTheorem == ReceiverCallsSpec => []ArrivedIsNotLost
<1>1. ReceiverCallsInit => KeptInv
  BY DEF ReceiverCallsInit, ReceiverInit, DedupInit, TrackerInit, KeptInv, EverythingKept
<1>2. ASSUME CallsTypeInv, KeptInv PROVE ArrivedIsNotLost
  <2>1. \A f \in arrived : Handed(f.sequence) => HandedOut(f)
    BY <1>2 DEF KeptInv, Handed, HandedOut, Key
  <2> QED
    BY <1>2, <2>1 DEF KeptInv, EverythingKept, Kept, ArrivedIsNotLost
<1> QED
  BY <1>1, <1>2, KeptNext, ReceiverInvariant, OrderInvariant, PTL DEF ReceiverCallsSpec
=============================================================================
