------------------------- MODULE RtdpSystem_proofs --------------------------
(***************************************************************************)
(* Publisher, network and subscriber together, for every configuration,    *)
(* number of frames and number of faults: the safety part of the stream    *)
(* service, and that recovery does not fail while the publisher still has  *)
(* the frames.                                                             *)
(***************************************************************************)
EXTENDS RtdpSystem, StreamReceiver_proofs, BoundedRingBuffer_proofs

USE PublisherAssumption, ChannelAssumption, FaultsAssumption

-----------------------------------------------------------------------------
(* Sequences of frames.                                                    *)
LEMMA SeqMonotone ==
    ASSUME NEW S, NEW T, S \subseteq T, NEW s \in Seq(S)
    PROVE  s \in Seq(T)
<1>1. /\ Len(s) \in Nat /\ DOMAIN s = 1 .. Len(s) /\ s = [i \in 1 .. Len(s) |-> s[i]]
      /\ \A i \in 1 .. Len(s) : s[i] \in S
  BY LenProperties, ElementOfSeq
<1> DEFINE n == Len(s)
<1> HIDE DEF n
<1>2. [i \in 1 .. n |-> s[i]] \in Seq(T)
  BY <1>1 DEF n
<1> QED
  BY <1>1, <1>2 DEF n

-----------------------------------------------------------------------------
(* What the receiver's operations do with frames: they hand out and buffer *)
(* nothing but the frame they are given and the frames already buffered.   *)
BufferedFrames == {buffered_out_of_order[s] : s \in Buffered}

LEMMA ToDeliverFrames ==
    ASSUME ReceiverInv, NEW frame \in Frame
    PROVE  ToDeliver(frame) \in Seq(BufferedFrames \cup {frame})
<1> DEFINE S == BufferedFrames \cup {frame}
           start == frame.sequence + 1
           n == ContiguousEnd(start) - start
<1>1. <<>> \in Seq(S) /\ <<frame>> \in Seq(S)
  OBVIOUS
<1>2. Contiguous(start) \in Seq(S)
  <2>1. start \in Nat /\ BufferOK
    BY FrameFields DEF ReceiverInv
  <2>2. /\ Len(Contiguous(start)) = n
        /\ \A i \in 1 .. n : Contiguous(start)[i] \in BufferedFrames
    BY <2>1, ContiguousIs DEF BufferedFrames
  <2>3. n \in Nat
    BY <2>1, ContiguousEndIs
  <2>4. Contiguous(start) = [i \in 1 .. n |-> Contiguous(start)[i]]
    BY DEF Contiguous
  <2> HIDE DEF n, start
  <2>5. [i \in 1 .. n |-> Contiguous(start)[i]] \in Seq(S)
    BY <2>2, <2>3
  <2> QED
    BY <2>4, <2>5
<1>3. <<frame>> \o Contiguous(start) \in Seq(S)
  BY <1>1, <1>2, ConcatProperties
<1> QED
  BY <1>1, <1>3 DEF ToDeliver, ToDeliverReliable

LEMMA DrainedFrames ==
    ASSUME BufferOK, NEW request_id, NEW frame \in Frame
    PROVE  Drained(request_id, frame) \in Seq(BufferedFrames \cup {frame})
<1> DEFINE S == BufferedFrames \cup {frame}
<1>1. WithFrame(frame) \in [DOMAIN WithFrame(frame) -> S]
  BY WithFrameMap DEF BufferedFrames
<1>2. InOrderOf(WithFrame(frame)) \in Seq(S)
  BY <1>1, WithFrameMap, InOrderOfIsWhole
<1>3. <<>> \in Seq(S)
  OBVIOUS
<1> QED
  BY <1>2, <1>3 DEF Drained

LEMMA BufferedWith ==
    ASSUME BufferOK, NEW frame \in Frame, buffered_out_of_order' = WithFrame(frame)
    PROVE  BufferedFrames' \subseteq BufferedFrames \cup {frame}
<1>1. Buffered' = Buffered \cup {frame.sequence}
  BY BufferWithFrame
<1> QED
  BY <1>1, WithFrameMap DEF BufferedFrames

LEMMA BufferedWithout ==
    ASSUME BufferOK, Buffered' \subseteq Buffered,
           \A s \in Buffered' : buffered_out_of_order'[s] = buffered_out_of_order[s]
    PROVE  BufferedFrames' \subseteq BufferedFrames
BY DEF BufferedFrames

LEMMA ResponseFrames ==
    ASSUME RequestsOK, BufferOK, NEW request_id, NEW frame \in Frame,
           HandleReplayResponse(request_id, frame)
    PROVE  BufferedFrames' \subseteq BufferedFrames \cup {frame}
<1>1. CASE request_id \notin Outstanding
  BY <1>1, ResponseIs DEF recoveryVars, BufferedFrames, Buffered
<1>2. CASE request_id \in Outstanding /\ ~ Completes(request_id, frame)
  BY <1>2, ResponseIs, BufferedWith
<1>3. CASE Completes(request_id, frame)
  BY <1>3, ResponseIs DEF BufferedFrames
<1> QED
  BY <1>1, <1>2, <1>3

LEMMA DataFrames ==
    ASSUME ReceiverInv, NEW frame \in Frame, ProcessDataFrame(frame)
    PROVE  BufferedFrames' \subseteq BufferedFrames \cup {frame}
<1>1. BufferOK
  BY DEF ReceiverInv
<1>2. CASE UNCHANGED buffered_out_of_order
  BY <1>2 DEF BufferedFrames, Buffered
<1>3. CASE DeliverInOrder(frame)
  BY <1>1, <1>3, DeliverIs, BufferedWithout
<1>4. CASE buffered_out_of_order' = WithFrame(frame)
  BY <1>1, <1>4, BufferedWith
<1>5. CASE Reset
  BY <1>5, BufferEmptied DEF Reset, BufferedFrames
<1> QED
  BY <1>2, <1>3, <1>4, <1>5
     DEF ProcessDataFrame, BestEffortFrame, LatestFrame, AtLeastOnceFrame, AtLeastOnceGap,
         AtLeastOnceNoGap, ReliableOrderedFrame, SuppressDuplicate, BufferAndRequest, SuppressOld,
         ResetForPublisher, recoveryVars

(* What a DATA frame does to the requests: nothing, a reset, or the one    *)
(* request the worker then sends.                                          *)
GapRequest(frame) == NewRequest(GapFrom(frame.publisher_id), GapTo(frame.sequence))

LEMMA DataRequests ==
    ASSUME NEW frame, ProcessDataFrame(frame)
    PROVE  \/ UNCHANGED <<outstanding_requests, state>>
           \/ outstanding_requests' = <<>> /\ state' = "Live"
           \/ /\ AsksForGap(frame)
              /\ outstanding_requests' =
                    MapInsert(outstanding_requests, next_request_id, GapRequest(frame))
              /\ state' = "Recovering"
<1>1. CASE UNCHANGED recoveryVars
  BY <1>1 DEF recoveryVars
<1>2. CASE Reset
  BY <1>2 DEF Reset
<1>3. CASE DeliverInOrder(frame)
  BY <1>3 DEF DeliverInOrder
<1>4. CASE mode = "AtLeastOnce" /\ AtLeastOnceGap(frame)
  BY <1>4 DEF AtLeastOnceGap, CreateForGap, CreateReplayRequest, RequestForGap, AsksForGap, GapRequest
<1>5. CASE mode = "ReliableOrdered" /\ BufferAndRequest(frame)
  BY <1>5 DEF BufferAndRequest, CreateForGap, CreateReplayRequest, RequestForGap, AsksForGap, GapRequest
<1> QED
  BY <1>1, <1>2, <1>3, <1>4, <1>5
     DEF ProcessDataFrame, BestEffortFrame, LatestFrame, AtLeastOnceFrame,
         AtLeastOnceNoGap, ReliableOrderedFrame, SuppressDuplicate, SuppressOld,
         ResetForPublisher

-----------------------------------------------------------------------------
(* The inductive invariant of the system.                                  *)

(* The frames the subscriber can know of.                                  *)
Owed == {f \in published : \E g \in seen : f.sequence <= g.sequence}

(* A range that ends below a frame the subscriber has seen.                *)
Heard(from, to) ==
    /\ from \in Nat \ {0} /\ to \in Nat /\ from <= to
    /\ \E g \in seen : to < g.sequence

(* The buffer holds what was published, under the sequences up to the      *)
(* counter.                                                                *)
PublisherOK ==
    /\ PublisherTypeOK /\ RingInv
    /\ published = pushed
    /\ unsent # None => unsent \in published
    /\ max_sequence # None => sequence_counter = max_sequence + 1
    /\ \A f \in published : f.sequence < sequence_counter
    /\ \A n \in 1 .. sequence_counter - 1 : \E f \in published : f.sequence = n

(* An answer is a refusal, or frames the subscriber can know of.           *)
AnswerOK ==
    answer # None =>
        /\ answer \in [request_id : Nat, reply : ServedReply \cup RefusedReply]
        /\ answer.reply.ok => answer.reply.frames \in Seq(Owed)

NetworkOK ==
    \A d \in network :
        /\ d.type = "DATA" => d.frame \in published
        /\ d.type = "REPLAY_RESPONSE" => d.frame \in Owed
        /\ d.type = "REPLAY_REQUEST" => d.request_id \in Nat /\ Heard(d.from, d.to)

RequestsHeard ==
    \A id \in Outstanding :
        Heard(outstanding_requests[id].from_sequence, outstanding_requests[id].to_sequence)

WorkerOK ==
    /\ publisher_addr \in Addresses
    /\ running \in BOOLEAN
    /\ to_deliver \in Seq(Owed)
    /\ channel \in Seq(Owed)
    /\ Len(channel) <= ChannelCapacity

SubscriberOK == ReceiverInv /\ BufferedFrames \subseteq Owed /\ RequestsHeard /\ WorkerOK

SystemInv ==
    /\ PublisherOK
    /\ AnswerOK
    /\ NetworkOK
    /\ SubscriberOK
    /\ seen \subseteq published
    /\ faults \in 0 .. MaxFaults

LEMMA SystemInvTypes == SystemInv => SystemTypeOK
<1> SUFFICES ASSUME SystemInv PROVE SystemTypeOK
  OBVIOUS
<1>1. Owed \subseteq Frame
  BY DEF SystemInv, PublisherOK, RingInv, RingTypeOK, Owed
<1>2. to_deliver \in Seq(Frame) /\ channel \in Seq(Frame)
  BY <1>1, SeqMonotone DEF SystemInv, SubscriberOK, WorkerOK
<1> QED
  BY <1>2, ReceiverInvTypes
     DEF SystemInv, PublisherOK, SubscriberOK, WorkerOK, SystemTypeOK, SubscriberTypeOK

LEMMA SystemInvInit == SystemInit => SystemInv
<1> SUFFICES ASSUME SystemInit PROVE SystemInv
  OBVIOUS
<1>1. PublisherOK
  <2>1. RingInv
    BY RingInvInit DEF SystemInit, PublisherInit
  <2> QED
    BY <2>1 DEF SystemInit, PublisherInit, RingInit, RingInv, PublisherOK, PublisherTypeOK, OptionFrame
<1>2. AnswerOK /\ NetworkOK /\ seen \subseteq published /\ faults \in 0 .. MaxFaults
  BY DEF SystemInit, PublisherInit, AnswerOK, NetworkOK
<1>3. WorkerOK
  <2>1. <<>> \in Seq(Owed) /\ Len(<<>>) = 0
    OBVIOUS
  <2> QED
    BY <2>1 DEF SystemInit, SubscriberInit, WorkerOK
<1>4. ReceiverInv /\ BufferedFrames = {} /\ RequestsHeard
  <2>1. ReceiverInv
    BY ReceiverInvInit DEF SystemInit, SubscriberInit
  <2>2. Buffered = {} /\ Outstanding = {}
    BY EmptyMap DEF SystemInit, SubscriberInit, ReceiverInit, RecoveryInit, Buffered, Outstanding
  <2> QED
    BY <2>1, <2>2 DEF BufferedFrames, RequestsHeard
<1> QED
  BY <1>1, <1>2, <1>3, <1>4 DEF SystemInv, SubscriberOK

-----------------------------------------------------------------------------
(* What is owed stays owed.                                                *)
OwedGrows == Owed \subseteq Owed' /\ seen \subseteq seen'

LEMMA Growing ==
    ASSUME published \subseteq published', seen \subseteq seen' PROVE OwedGrows
BY DEF OwedGrows, Owed

LEMMA HeardStays ==
    ASSUME OwedGrows, NEW from, NEW to, Heard(from, to) PROVE Heard(from, to)'
BY DEF OwedGrows, Heard

LEMMA PublisherStays ==
    ASSUME PublisherOK, UNCHANGED <<ringVars, appVars, published>> PROVE PublisherOK'
<1>1. RingInv'
  BY RingInvNext DEF PublisherOK
<1> QED
  BY <1>1 DEF PublisherOK, PublisherTypeOK, RingTypeOK, ringVars, appVars

LEMMA AnswerStays ==
    ASSUME AnswerOK, OwedGrows, UNCHANGED answer PROVE AnswerOK'
<1>1. ASSUME NEW s, s \in Seq(Owed) PROVE s \in Seq(Owed')
  BY <1>1, SeqMonotone DEF OwedGrows
<1> QED
  BY <1>1 DEF AnswerOK

LEMMA NetworkStays ==
    ASSUME NetworkOK, OwedGrows, published \subseteq published',
           \A d \in network' \ network :
              /\ d.type = "DATA" => d.frame \in published'
              /\ d.type = "REPLAY_RESPONSE" => d.frame \in Owed'
              /\ d.type = "REPLAY_REQUEST" => d.request_id \in Nat /\ Heard(d.from, d.to)'
    PROVE  NetworkOK'
<1> SUFFICES ASSUME NEW d \in network'
             PROVE  /\ d.type = "DATA" => d.frame \in published'
                    /\ d.type = "REPLAY_RESPONSE" => d.frame \in Owed'
                    /\ d.type = "REPLAY_REQUEST" => d.request_id \in Nat /\ Heard(d.from, d.to)'
  BY DEF NetworkOK
<1>1. CASE d \in network
  BY <1>1, HeardStays DEF NetworkOK, OwedGrows
<1> QED
  BY <1>1

LEMMA WorkerStays ==
    ASSUME WorkerOK, OwedGrows, UNCHANGED workerVars PROVE WorkerOK'
<1>1. to_deliver \in Seq(Owed') /\ channel \in Seq(Owed')
  BY SeqMonotone DEF WorkerOK, OwedGrows
<1> QED
  BY <1>1 DEF WorkerOK, workerVars

(* Requests that are left keep their range.                                *)
LEMMA RequestsStayHeard ==
    ASSUME RequestsHeard, OwedGrows,
           \A id \in Outstanding' :
              /\ id \in Outstanding
              /\ outstanding_requests'[id].from_sequence = outstanding_requests[id].from_sequence
              /\ outstanding_requests'[id].to_sequence = outstanding_requests[id].to_sequence
    PROVE  RequestsHeard'
BY HeardStays DEF RequestsHeard

LEMMA SubscriberStays ==
    ASSUME SubscriberOK, OwedGrows, UNCHANGED subscriberVars PROVE SubscriberOK'
<1>1. ReceiverInv'
  BY RecoveryUnchanged
     DEF SubscriberOK, ReceiverInv, subscriberVars, receiverVars, TrackerTypeOK, DedupTypeOK,
         trackerVars, dedupVars
<1>2. BufferedFrames' = BufferedFrames
  BY DEF subscriberVars, receiverVars, recoveryVars, BufferedFrames, Buffered
<1>3. RequestsHeard'
  BY RequestsStayHeard DEF SubscriberOK, subscriberVars, receiverVars, recoveryVars, Outstanding
<1>4. WorkerOK'
  BY WorkerStays DEF SubscriberOK, subscriberVars
<1> QED
  BY <1>1, <1>2, <1>3, <1>4 DEF SubscriberOK, OwedGrows

-----------------------------------------------------------------------------
(* The publisher's steps.                                                  *)
LEMMA PublishPushes ==
    ASSUME PublisherOK, NEW len, Publish(len)
    PROVE  \E frame \in Frame :
              /\ frame.sequence = sequence_counter
              /\ Push(frame) /\ InOrderPush
              /\ published' = published \cup {frame}
              /\ unsent' = frame /\ sequence_counter' = sequence_counter + 1
              /\ UNCHANGED <<publisher_id, retired, answer>>
<1> DEFINE frame == [publisher_id |-> publisher_id, sequence |-> sequence_counter,
                     payload_length |-> len]
<1>1. /\ frame \in Frame /\ Push(frame) /\ unsent' = frame
      /\ sequence_counter' = sequence_counter + 1
      /\ UNCHANGED <<publisher_id, retired, answer>> /\ published' = published \cup {unsent'}
  BY DEF Publish, PublishStore
<1>2. frame.sequence = sequence_counter
  OBVIOUS
<1> HIDE DEF frame
<1>3. InOrderPush
  BY <1>1, <1>2 DEF PublisherOK, InOrderPush
<1> QED
  BY <1>1, <1>2, <1>3

LEMMA PublisherAfterPublish ==
    ASSUME PublisherOK, NEW len, Publish(len) PROVE PublisherOK'
<1>1. PICK frame \in Frame :
         /\ frame.sequence = sequence_counter
         /\ Push(frame) /\ InOrderPush
         /\ published' = published \cup {frame}
         /\ unsent' = frame /\ sequence_counter' = sequence_counter + 1
         /\ UNCHANGED <<publisher_id, retired, answer>>
  BY PublishPushes
<1>2. RingInv'
  BY <1>1, RingInvNext DEF PublisherOK, RingNext
<1>3. sequence_counter \in Nat \ {0}
  BY DEF PublisherOK, PublisherTypeOK
<1>4. pushed' = pushed \cup {frame} /\ max_sequence' = sequence_counter
  BY <1>1 DEF Push
<1>5. PublisherTypeOK'
  BY <1>1, <1>2, <1>3 DEF PublisherOK, PublisherTypeOK, RingInv, OptionFrame
<1>6. \A f \in published : f.sequence \in Nat /\ f.sequence < sequence_counter
  BY FrameSequence DEF PublisherOK, RingInv, RingTypeOK
<1>7. \A f \in published' : f.sequence < sequence_counter'
  BY <1>1, <1>3, <1>6
<1>8. ASSUME NEW n \in 1 .. sequence_counter' - 1 PROVE \E f \in published' : f.sequence = n
  <2>1. n \in 1 .. sequence_counter - 1 \/ n = sequence_counter
    BY <1>1, <1>3
  <2> QED
    BY <1>1, <2>1 DEF PublisherOK
<1> QED
  BY <1>1, <1>2, <1>4, <1>5, <1>7, <1>8 DEF PublisherOK

LEMMA InvPublish ==
    ASSUME SystemInv, NEW len, Publish(len) PROVE SystemInv'
<1>1. published \subseteq published' /\ UNCHANGED <<answer, subscriberVars, network, faults, seen>>
  BY DEF Publish, PublishStore
<1>2. OwedGrows
  BY <1>1, Growing
<1>3. PublisherOK'
  BY PublisherAfterPublish DEF SystemInv
<1> QED
  BY <1>1, <1>2, <1>3, AnswerStays, NetworkStays, SubscriberStays DEF SystemInv

(* The steps that leave the history of the stream alone.                   *)
LEMMA SameHistory ==
    ASSUME UNCHANGED <<published, seen>> PROVE OwedGrows /\ Owed' = Owed
BY DEF OwedGrows, Owed

LEMMA InvSend == ASSUME SystemInv, Send PROVE SystemInv'
<1>1. /\ UNCHANGED <<ringVars, publisher_id, sequence_counter, retired, answer>>
      /\ UNCHANGED <<subscriberVars, faults, published, seen>>
      /\ unsent # None /\ unsent' = None /\ network' = network \cup {Data(unsent)}
  BY DEF Send, PublishSend, DataSent, historyVars
<1>2. PublisherOK'
  <2>1. RingInv'
    BY <1>1, RingInvNext DEF SystemInv, PublisherOK
  <2> QED
    BY <1>1, <2>1 DEF SystemInv, PublisherOK, PublisherTypeOK, RingTypeOK, ringVars, OptionFrame
<1>3. NetworkOK'
  BY <1>1, SameHistory, NetworkStays DEF SystemInv, PublisherOK, Data
<1> QED
  BY <1>1, <1>2, <1>3, SameHistory, AnswerStays, SubscriberStays DEF SystemInv

LEMMA AnswerAfterResponse ==
    ASSUME AnswerOK, ReplaySendFrame
    PROVE  /\ Head(answer.reply.frames) \in Owed
           /\ answer' = [request_id |-> answer.request_id,
                         reply |-> Available(Tail(answer.reply.frames))]
           /\ Tail(answer.reply.frames) \in Seq(Owed)
           /\ answer.request_id \in Nat
<1>1. /\ answer \in [request_id : Nat, reply : ServedReply]
      /\ answer.reply.frames \in Seq(Owed) /\ answer.reply.frames # <<>>
  BY DEF AnswerOK, ReplaySendFrame, RefusedReply
<1>2. [answer EXCEPT !.reply = Available(Tail(@.frames))] =
         [request_id |-> answer.request_id, reply |-> Available(Tail(answer.reply.frames))]
  BY <1>1 DEF ServedReply
<1> QED
  BY <1>1, <1>2, HeadTailProperties DEF ReplaySendFrame

LEMMA InvSendResponse == ASSUME SystemInv, SendResponse PROVE SystemInv'
<1>1. /\ UNCHANGED <<ringVars, appVars, subscriberVars, faults, published, seen>>
      /\ network' = network \cup ResponseSent /\ ReplaySendFrame
  BY DEF SendResponse, ReplaySendFrame, historyVars
<1>2. Owed' = Owed /\ OwedGrows
  BY <1>1, SameHistory
<1>3. AnswerOK'
  <2>1. /\ Tail(answer.reply.frames) \in Seq(Owed) /\ answer.request_id \in Nat
        /\ answer' = [request_id |-> answer.request_id,
                      reply |-> Available(Tail(answer.reply.frames))]
    BY <1>1, AnswerAfterResponse DEF SystemInv
  <2>2. Owed \subseteq Frame
    BY DEF SystemInv, PublisherOK, RingInv, RingTypeOK, Owed
  <2>3. Tail(answer.reply.frames) \in Seq(Frame)
    BY <2>1, <2>2, SeqMonotone
  <2>4. Available(Tail(answer.reply.frames)) \in ServedReply
    BY <2>3 DEF Available, ServedReply
  <2>5. answer'.reply.frames = Tail(answer.reply.frames)
    BY <2>1 DEF Available
  <2> QED
    BY <1>2, <2>1, <2>4, <2>5 DEF AnswerOK
<1>4. NetworkOK'
  <2>1. \A d \in ResponseSent : d.type = "REPLAY_RESPONSE" /\ d.frame \in Owed
    BY <1>1, AnswerAfterResponse DEF SystemInv, ResponseSent, ReplayResponse
  <2> QED
    BY <1>1, <1>2, <2>1, NetworkStays DEF SystemInv
<1> QED
  BY <1>1, <1>2, <1>3, <1>4, PublisherStays, SubscriberStays DEF SystemInv

LEMMA InvFinishAnswer == ASSUME SystemInv, FinishAnswer PROVE SystemInv'
<1>1. /\ UNCHANGED <<ringVars, appVars, subscriberVars, network, faults, published, seen>>
      /\ answer' = None
  BY DEF FinishAnswer, ReplayDone, historyVars
<1> QED
  BY <1>1, SameHistory, PublisherStays, NetworkStays, SubscriberStays DEF SystemInv, AnswerOK

LEMMA InvSendRefusal == ASSUME SystemInv, SendRefusal PROVE SystemInv'
<1>1. /\ UNCHANGED <<ringVars, appVars, subscriberVars, faults, published, seen>>
      /\ answer' = None /\ network' = network \cup RefusalSent
  BY DEF SendRefusal, ReplayRefuse, historyVars
<1>2. NetworkOK'
  BY <1>1, SameHistory, NetworkStays DEF SystemInv, RefusalSent, ReplayUnavailable
<1> QED
  BY <1>1, <1>2, SameHistory, PublisherStays, SubscriberStays DEF SystemInv, AnswerOK

-----------------------------------------------------------------------------
(* A request reaches the replay thread: its range is below a frame the     *)
(* subscriber has seen, so all it can be answered with is owed.            *)
LEMMA HeardRange ==
    ASSUME SystemInv, NEW from, NEW to, Heard(from, to)
    PROVE  /\ from \in SeqNums /\ to \in SeqNums /\ from <= to
           /\ max_sequence # None /\ to <= max_sequence
<1>1. PICK g \in seen : to < g.sequence
  BY DEF Heard
<1>2. from \in Nat \ {0} /\ to \in Nat /\ from <= to
  BY DEF Heard
<1>3. g \in published /\ g \in pushed /\ g \in Frame /\ g.sequence \in Nat /\ g.sequence < sequence_counter
  BY <1>1, FrameSequence DEF SystemInv, PublisherOK, RingInv, RingTypeOK
<1>4. sequence_counter \in Nat
  BY DEF SystemInv, PublisherOK, PublisherTypeOK
<1>5. from \in 1 .. sequence_counter - 1 /\ to \in 1 .. sequence_counter - 1
  BY <1>1, <1>2, <1>3, <1>4
<1>6. \A n \in 1 .. sequence_counter - 1 : n \in SeqNums
  <2> SUFFICES ASSUME NEW n \in 1 .. sequence_counter - 1 PROVE n \in SeqNums
    OBVIOUS
  <2>1. PICK f \in published : f.sequence = n
    BY DEF SystemInv, PublisherOK
  <2>2. f \in Frame
    BY DEF SystemInv, PublisherOK, RingInv, RingTypeOK
  <2> QED
    BY <2>1, <2>2, FrameSequence DEF Frame
<1>7. max_sequence # None /\ max_sequence \in Nat /\ g.sequence <= max_sequence
  BY <1>3 DEF SystemInv, PublisherOK, RingInv, RingTypeOK, WindowBounds, OptionNat
<1> QED
  BY <1>1, <1>2, <1>3, <1>5, <1>6, <1>7

LEMMA AnswerAfterLookup ==
    ASSUME SystemInv, NEW id \in Nat, NEW from, NEW to, Heard(from, to),
           answer' = [request_id |-> id, reply |-> GetRange(from, to)], UNCHANGED <<published, seen>>
    PROVE  AnswerOK'
<1> DEFINE reply == GetRange(from, to)
           n == to + 1 - from
<1>1. /\ from \in SeqNums /\ to \in SeqNums /\ from <= to
  BY HeardRange
<1>2. \/ reply \in RefusedReply
      \/ /\ reply \in ServedReply
         /\ Len(reply.frames) = n
         /\ \A i \in 1 .. n : reply.frames[i] \in pushed /\ reply.frames[i].sequence = from + i - 1
  BY <1>1, GetRangeReply DEF SystemInv, PublisherOK
<1>3. n \in Nat /\ from \in Nat /\ to \in Nat
  BY <1>1, FramesAssumption
<1>4. PICK g \in seen : to < g.sequence /\ g.sequence \in Nat
  <2>1. PICK g \in seen : to < g.sequence
    BY DEF Heard
  <2>2. g \in Frame
    BY DEF SystemInv, PublisherOK, RingInv, RingTypeOK
  <2> QED
    BY <2>1, <2>2, FrameSequence
<1> HIDE DEF reply
<1>5. ASSUME reply \in ServedReply, Len(reply.frames) = n,
             \A i \in 1 .. n : reply.frames[i] \in pushed /\ reply.frames[i].sequence = from + i - 1
      PROVE  reply.frames \in Seq(Owed)
  <2>1. \A i \in 1 .. n : from + i - 1 <= g.sequence
    BY <1>3, <1>4
  <2>2. \A i \in 1 .. n : reply.frames[i] \in Owed
    BY <1>4, <1>5, <2>1 DEF Owed, SystemInv, PublisherOK
  <2>3. reply.frames \in Seq(Frame)
    BY <1>5 DEF ServedReply
  <2>4. reply.frames = [i \in 1 .. n |-> reply.frames[i]]
    BY <1>5, <2>3, LenProperties
  <2> HIDE DEF n
  <2>5. [i \in 1 .. n |-> reply.frames[i]] \in Seq(Owed)
    BY <1>3, <2>2
  <2> QED
    BY <2>4, <2>5
<1>6. reply \in RefusedReply => ~ reply.ok
  BY DEF RefusedReply
<1>7. answer' = [request_id |-> id, reply |-> reply]
  BY DEF reply
<1>8. answer' \in [request_id : Nat, reply : ServedReply \cup RefusedReply] /\ answer'.reply = reply
  BY <1>2, <1>7
<1>9. Owed' = Owed
  BY SameHistory
<1> QED
  BY <1>2, <1>5, <1>6, <1>8, <1>9 DEF AnswerOK

(* The subscriber's part of the invariant when a datagram or a timeout     *)
(* changes the receiver: what is to be shown of the new receiver.          *)
LEMMA SubscriberAfter ==
    ASSUME SubscriberOK, OwedGrows, ReceiverInv', BufferedFrames' \subseteq Owed',
           RequestsHeard', to_deliver' \in Seq(Owed'), UNCHANGED <<publisher_addr, running, channel>>
    PROVE  SubscriberOK'
<1>1. channel \in Seq(Owed')
  BY SeqMonotone DEF SubscriberOK, WorkerOK, OwedGrows
<1> QED
  BY <1>1 DEF SubscriberOK, WorkerOK

LEMMA SubscriberAfterData ==
    ASSUME SystemInv, NEW frame \in published, ReceiveData(frame), seen' = seen \cup {frame},
           UNCHANGED published
    PROVE  /\ SubscriberOK'
           /\ \A r \in RequestSent(frame) :
                 r.type = "REPLAY_REQUEST" /\ r.request_id \in Nat /\ Heard(r.from, r.to)'
<1>1. frame \in Frame /\ ReceiverInv /\ BufferedFrames \subseteq Owed
  BY DEF SystemInv, SubscriberOK, PublisherOK, RingInv, RingTypeOK
<1>2. OwedGrows
  BY Growing
<1>3. frame \in Owed' /\ frame.sequence \in Nat
  BY <1>1, FrameSequence DEF Owed
<1>4. BufferedFrames \cup {frame} \subseteq Owed'
  BY <1>1, <1>2, <1>3 DEF OwedGrows
<1>5. ReceiverInv'
  BY <1>1, ProcessDataFrameType DEF ReceiveData
<1>6. BufferedFrames' \subseteq Owed'
  BY <1>1, <1>4, DataFrames DEF ReceiveData
<1>7. to_deliver' \in Seq(Owed')
  BY <1>1, <1>4, ToDeliverFrames, SeqMonotone DEF ReceiveData
<1>8. ASSUME AsksForGap(frame), NEW from, NEW to,
             from = GapFrom(frame.publisher_id), to = GapTo(frame.sequence)
      PROVE  Heard(from, to)'
  <2>1. from \in Nat \ {0} /\ to \in Nat /\ from < frame.sequence /\ to = frame.sequence - 1
    BY <1>1, <1>8, StatusIs DEF AsksForGap, ReceiverInv, GapTo
  <2>2. from <= to /\ to < frame.sequence
    BY <1>3, <2>1
  <2>3. \E g \in seen' : to < g.sequence
    BY <2>2
  <2> QED
    BY <2>1, <2>2, <2>3 DEF Heard
<1>9. next_request_id \in Nat /\ RequestsHeard /\ SubscriberOK
  BY <1>1 DEF ReceiverInv, RequestsOK, SystemInv, SubscriberOK
<1>10. RequestsHeard'
  <2>1. CASE UNCHANGED <<outstanding_requests, state>>
    BY <1>2, <1>9, <2>1, RequestsStayHeard DEF Outstanding
  <2>2. CASE outstanding_requests' = <<>>
    BY <2>2, EmptyMap DEF RequestsHeard, Outstanding
  <2>3. CASE /\ AsksForGap(frame)
             /\ outstanding_requests' =
                   MapInsert(outstanding_requests, next_request_id, GapRequest(frame))
    <3>1. /\ Outstanding' = Outstanding \cup {next_request_id}
          /\ outstanding_requests'[next_request_id] = GapRequest(frame)
          /\ \A id \in Outstanding \ {next_request_id} :
                outstanding_requests'[id] = outstanding_requests[id]
      BY <2>3 DEF MapInsert, Outstanding
    <3>2. ASSUME NEW r, r = GapRequest(frame) PROVE Heard(r.from_sequence, r.to_sequence)'
      BY <1>8, <2>3, <3>2 DEF GapRequest, NewRequest
    <3>3. ASSUME NEW id \in Outstanding',
                 NEW r, r = outstanding_requests'[id]
          PROVE  Heard(r.from_sequence, r.to_sequence)'
      BY <1>2, <1>9, <3>1, <3>2, <3>3, HeardStays DEF RequestsHeard
    <3> QED
      BY <3>3 DEF RequestsHeard
  <2> QED
    BY <2>1, <2>2, <2>3, DataRequests DEF ReceiveData
<1>11. \A r \in RequestSent(frame) :
          r.type = "REPLAY_REQUEST" /\ r.request_id \in Nat /\ Heard(r.from, r.to)'
  BY <1>8, <1>9 DEF RequestSent, ReplayRequest
<1> QED
  BY <1>2, <1>5, <1>6, <1>7, <1>9, <1>10, <1>11, SubscriberAfter DEF ReceiveData

-----------------------------------------------------------------------------
(* What the other handlers do to a request: count an answer, drop it,      *)
(* count a retry, age.  Its range never changes.                           *)
LEMMA RequestTypes ==
    ASSUME RequestsOK, NEW id \in Outstanding
    PROVE  outstanding_requests[id] \in ActiveReplayRequest
BY DEF RequestsOK

LEMMA CountedIs ==
    ASSUME NEW r \in ActiveReplayRequest, NEW seq
    PROVE  /\ Counted(r, seq).from_sequence = r.from_sequence
           /\ Counted(r, seq).to_sequence = r.to_sequence
           /\ Counted(r, seq).age = r.age
           /\ Counted(r, seq).retries_attempted = r.retries_attempted
           /\ Counted(r, seq).received_sequences = ReceivedWith(r, seq)
BY DEF Counted, ActiveReplayRequest

LEMMA ResponseRequests ==
    ASSUME RequestsOK, NEW request_id, NEW frame, HandleReplayResponse(request_id, frame)
    PROVE  /\ state' \in {state, "Live"}
           /\ \A id \in Outstanding' :
                 /\ id \in Outstanding
                 /\ id # request_id => outstanding_requests'[id] = outstanding_requests[id]
                 /\ id = request_id =>
                       /\ ~ Completes(id, frame)
                       /\ outstanding_requests'[id] =
                             Counted(outstanding_requests[id], frame.sequence)
<1>1. Completes(request_id, frame) => request_id \in Outstanding
  BY DEF Completes
<1>2. CASE request_id \notin Outstanding
  BY <1>1, <1>2 DEF HandleReplayResponse, recoveryVars, Outstanding
<1>3. CASE request_id \in Outstanding /\ ~ Completes(request_id, frame)
  <2>1. /\ outstanding_requests' =
              [outstanding_requests EXCEPT
                  ![request_id] = Counted(outstanding_requests[request_id], frame.sequence)]
        /\ state' = state
    BY <1>3 DEF HandleReplayResponse
  <2> QED
    BY <1>3, <2>1 DEF Outstanding
<1>4. CASE Completes(request_id, frame)
  <2>1. /\ outstanding_requests' = MapRemove(outstanding_requests, {request_id})
        /\ state' \in {state, "Live"}
    BY <1>1, <1>4 DEF HandleReplayResponse
  <2> QED
    BY <2>1 DEF Outstanding, MapRemove
<1> QED
  BY <1>2, <1>3, <1>4

LEMMA UnavailableRequests ==
    ASSUME NEW request_id, HandleReplayUnavailable(request_id)
    PROVE  \A id \in Outstanding' :
              id \in Outstanding /\ outstanding_requests'[id] = outstanding_requests[id]
BY DEF HandleReplayUnavailable, Outstanding, MapRemove

(* A request of check_timeouts that is neither due nor failed stays as it  *)
(* is; one that is due starts a new round.                                 *)
Retried(r) == [r EXCEPT !.age = 0, !.retries_attempted = @ + 1]

LEMMA RetriedIs ==
    ASSUME NEW r \in ActiveReplayRequest
    PROVE  /\ Retried(r).from_sequence = r.from_sequence
           /\ Retried(r).to_sequence = r.to_sequence
           /\ Retried(r).age = 0
           /\ Retried(r).retries_attempted = r.retries_attempted + 1
           /\ Retried(r).received_sequences = r.received_sequences
<1> DEFINE aged == [r EXCEPT !.age = 0]
<1>1. /\ aged \in ActiveReplayRequest /\ aged.retries_attempted = r.retries_attempted
      /\ aged.age = 0 /\ aged.from_sequence = r.from_sequence /\ aged.to_sequence = r.to_sequence
      /\ aged.received_sequences = r.received_sequences
  BY RecoveryAssumption DEF ActiveReplayRequest
<1>2. Retried(r) = [aged EXCEPT !.retries_attempted = r.retries_attempted + 1]
  BY Zenon DEF Retried
<1> HIDE DEF aged
<1> QED
  BY <1>1, <1>2 DEF ActiveReplayRequest

LEMMA TimeoutRequests ==
    ASSUME CheckTimeouts
    PROVE  /\ \A id \in Outstanding' :
                 /\ id \in Outstanding
                 /\ id \in Due \ Exhausted =>
                       outstanding_requests'[id] = Retried(outstanding_requests[id])
                 /\ id \notin Due \ Exhausted =>
                       outstanding_requests'[id] = outstanding_requests[id]
           /\ Exhausted = {} => UNCHANGED state
<1>1. /\ DOMAIN AfterRetries = Outstanding
      /\ \A id \in Outstanding :
            /\ id \in Due \ Exhausted => AfterRetries[id] = Retried(outstanding_requests[id])
            /\ id \notin Due \ Exhausted => AfterRetries[id] = outstanding_requests[id]
  BY DEF AfterRetries, Retried
<1> HIDE DEF AfterRetries
<1>2. CASE Exhausted = {} /\ outstanding_requests' = AfterRetries /\ UNCHANGED state
  BY <1>1, <1>2 DEF Outstanding
<1>3. ASSUME NEW id \in Exhausted, outstanding_requests' = MapRemove(AfterRetries, {id})
      PROVE  \A i \in Outstanding' : i \in Outstanding /\ outstanding_requests'[i] = AfterRetries[i]
  BY <1>1, <1>3 DEF Outstanding, MapRemove
<1> QED
  BY <1>1, <1>2, <1>3 DEF CheckTimeouts

LEMMA TickRequests ==
    ASSUME RequestsOK, Tick
    PROVE  /\ \A id \in Outstanding' :
                 /\ id \in Outstanding
                 /\ outstanding_requests'[id].from_sequence = outstanding_requests[id].from_sequence
                 /\ outstanding_requests'[id].to_sequence = outstanding_requests[id].to_sequence
                 /\ outstanding_requests'[id].retries_attempted =
                       outstanding_requests[id].retries_attempted
                 /\ outstanding_requests'[id].received_sequences =
                       outstanding_requests[id].received_sequences
           /\ UNCHANGED state
<1>1. /\ outstanding_requests' =
            [id \in Outstanding |->
               [outstanding_requests[id] EXCEPT !.age = IF @ < RetryTimeout THEN @ + 1 ELSE @]]
      /\ UNCHANGED state
  BY DEF Tick
<1>2. Outstanding' = Outstanding
  BY <1>1 DEF Outstanding
<1> QED
  BY <1>1, <1>2, RequestTypes DEF ActiveReplayRequest

-----------------------------------------------------------------------------
(* The subscriber's other steps.                                           *)
LEMMA SubscriberAfterResponse ==
    ASSUME SystemInv, NEW request_id, NEW frame \in Owed, ReceiveResponse(request_id, frame),
           UNCHANGED <<published, seen>>
    PROVE  SubscriberOK'
<1>1. frame \in Frame /\ ReceiverInv /\ BufferedFrames \subseteq Owed /\ SubscriberOK
  BY DEF SystemInv, SubscriberOK, PublisherOK, RingInv, RingTypeOK, Owed
<1>2. RequestsOK /\ BufferOK /\ highest_delivered_sequence \in Nat
  BY <1>1 DEF ReceiverInv
<1>3. OwedGrows /\ Owed' = Owed
  BY SameHistory
<1>4. Drained(request_id, frame) \in Seq(Owed)
  BY <1>1, <1>2, DrainedFrames, SeqMonotone
<1>5. highest_delivered_sequence' \in Nat
  <2> DEFINE drained == Drained(request_id, frame)
  <2>1. drained \in Seq(Frame)
    BY <1>1, <1>2, DrainedIs
  <2>2. {f.sequence : f \in Range(drained)} \in SUBSET Nat
    BY <2>1, RangeFinite
  <2>3. highest_delivered_sequence' \in
           {highest_delivered_sequence} \cup {f.sequence : f \in Range(drained)}
    BY <1>2, <2>1, HighestIs DEF ReceiveResponse
  <2> QED
    BY <1>2, <2>2, <2>3
<1>6. ReceiverInv'
  BY <1>1, <1>2, <1>5, ResponseIs
     DEF ReceiveResponse, ReceiverInv, TrackerTypeOK, DedupTypeOK, trackerVars, dedupVars
<1>7. BufferedFrames' \subseteq Owed'
  BY <1>1, <1>2, <1>3, ResponseFrames DEF ReceiveResponse
<1>8. RequestsHeard'
  BY <1>1, <1>2, <1>3, ResponseRequests, RequestTypes, CountedIs, RequestsStayHeard
     DEF ReceiveResponse, SubscriberOK
<1> QED
  BY <1>1, <1>3, <1>4, <1>6, <1>7, <1>8, SubscriberAfter DEF ReceiveResponse

(* The recovery engine changes and the rest of the receiver does not.      *)
LEMMA SubscriberAfterRecovery ==
    ASSUME SubscriberOK, RequestsOK', RequestsHeard', UNCHANGED <<published, seen>>,
           UNCHANGED buffered_out_of_order,
           UNCHANGED <<trackerVars, dedupVars, mode, highest_delivered_sequence>>,
           UNCHANGED workerVars
    PROVE  SubscriberOK'
<1>1. OwedGrows /\ Owed' = Owed
  BY SameHistory
<1>2. ReceiverInv'
  BY BufferUnchanged
     DEF SubscriberOK, ReceiverInv, TrackerTypeOK, DedupTypeOK, trackerVars, dedupVars
<1>3. BufferedFrames' = BufferedFrames
  BY DEF BufferedFrames, Buffered
<1>4. WorkerOK'
  BY <1>1, WorkerStays DEF SubscriberOK
<1> QED
  BY <1>1, <1>2, <1>3, <1>4 DEF SubscriberOK

LEMMA SubscriberAfterUnavailable ==
    ASSUME SystemInv, NEW request_id, ReceiveUnavailable(request_id), UNCHANGED <<published, seen>>
    PROVE  SubscriberOK'
<1>1. SubscriberOK /\ RequestsOK /\ RequestsHeard
  BY DEF SystemInv, SubscriberOK, ReceiverInv
<1>2. RequestsOK' /\ UNCHANGED buffered_out_of_order
  BY <1>1, UnavailableIs DEF ReceiveUnavailable
<1>3. RequestsHeard'
  BY <1>1, SameHistory, UnavailableRequests, RequestsStayHeard DEF ReceiveUnavailable
<1> QED
  BY <1>1, <1>2, <1>3, SubscriberAfterRecovery DEF ReceiveUnavailable

LEMMA SubscriberAfterTimeouts ==
    ASSUME SystemInv, WorkerTimeouts, UNCHANGED <<published, seen>>
    PROVE  SubscriberOK'
<1>1. SubscriberOK /\ RequestsOK /\ RequestsHeard
  BY DEF SystemInv, SubscriberOK, ReceiverInv
<1>2. RequestsOK' /\ UNCHANGED buffered_out_of_order
  BY <1>1, TimeoutsIs DEF WorkerTimeouts
<1>3. RequestsHeard'
  BY <1>1, SameHistory, TimeoutRequests, RequestTypes, RetriedIs, RequestsStayHeard DEF WorkerTimeouts
<1> QED
  BY <1>1, <1>2, <1>3, SubscriberAfterRecovery DEF WorkerTimeouts

LEMMA SubscriberAfterTick ==
    ASSUME SystemInv, TimePasses PROVE SubscriberOK'
<1>1. SubscriberOK /\ RequestsOK /\ RequestsHeard /\ Tick /\ UNCHANGED <<published, seen>>
  BY DEF SystemInv, SubscriberOK, ReceiverInv, TimePasses, historyVars
<1>2. RequestsOK' /\ UNCHANGED buffered_out_of_order
  BY <1>1, TickIs
<1>3. RequestsHeard'
  BY <1>1, SameHistory, TickRequests, RequestsStayHeard
<1> QED
  BY <1>1, <1>2, <1>3, SubscriberAfterRecovery DEF TimePasses

LEMMA ReceiverSame ==
    ASSUME SubscriberOK, UNCHANGED receiverVars, UNCHANGED <<published, seen>>
    PROVE  ReceiverInv' /\ BufferedFrames' \subseteq Owed' /\ RequestsHeard'
<1>1. OwedGrows /\ Owed' = Owed
  BY SameHistory
<1>2. ReceiverInv'
  BY RecoveryUnchanged
     DEF SubscriberOK, ReceiverInv, receiverVars, TrackerTypeOK, DedupTypeOK, trackerVars, dedupVars
<1>3. BufferedFrames' = BufferedFrames
  BY DEF receiverVars, recoveryVars, BufferedFrames, Buffered
<1>4. RequestsHeard'
  BY <1>1, RequestsStayHeard DEF SubscriberOK, receiverVars, recoveryVars, Outstanding
<1> QED
  BY <1>1, <1>2, <1>3, <1>4 DEF SubscriberOK

LEMMA SubscriberAfterHandOver ==
    ASSUME SystemInv, HandOver PROVE SubscriberOK'
<1>1. /\ SubscriberOK /\ UNCHANGED <<published, seen, receiverVars, publisher_addr, running>>
      /\ to_deliver \in Seq(Owed) /\ channel \in Seq(Owed) /\ Len(channel) <= ChannelCapacity
      /\ to_deliver # <<>> /\ to_deliver' = Tail(to_deliver)
      /\ channel' = IF ChannelFull THEN channel ELSE Append(channel, Head(to_deliver))
  BY DEF SystemInv, SubscriberOK, WorkerOK, HandOver, TrySend
<1>2. Head(to_deliver) \in Owed /\ to_deliver' \in Seq(Owed)
  BY <1>1, HeadTailProperties
<1>3. channel' \in Seq(Owed) /\ Len(channel') <= ChannelCapacity
  <2>1. /\ Append(channel, Head(to_deliver)) \in Seq(Owed)
        /\ Len(Append(channel, Head(to_deliver))) = Len(channel) + 1 /\ Len(channel) \in Nat
    BY <1>1, <1>2, AppendProperties, LenProperties
  <2> QED
    BY <1>1, <2>1 DEF ChannelFull
<1> QED
  BY <1>1, <1>2, <1>3, ReceiverSame, SameHistory DEF SubscriberOK, WorkerOK

LEMMA SubscriberAfterConsume ==
    ASSUME SystemInv, Consume PROVE SubscriberOK' /\ Head(channel) \in Owed
<1>1. /\ SubscriberOK /\ UNCHANGED <<published, seen, receiverVars, publisher_addr, running, to_deliver>>
      /\ to_deliver \in Seq(Owed) /\ channel \in Seq(Owed) /\ Len(channel) <= ChannelCapacity
      /\ channel # <<>> /\ channel' = Tail(channel)
  BY DEF SystemInv, SubscriberOK, WorkerOK, Consume, AppRecv
<1>2. Head(channel) \in Owed /\ channel' \in Seq(Owed) /\ Len(channel') = Len(channel) - 1
      /\ Len(channel) \in Nat
  BY <1>1, HeadTailProperties, LenProperties
<1> QED
  BY <1>1, <1>2, ReceiverSame, SameHistory DEF SubscriberOK, WorkerOK

-----------------------------------------------------------------------------
(* A datagram is taken in, by either end; it may stay in the network as a  *)
(* duplicate.                                                              *)
LEMMA InvTake ==
    ASSUME SystemInv, NEW d \in network, Take(d), network' \subseteq network \cup Reaction(d)
    PROVE  PublisherOK' /\ AnswerOK' /\ NetworkOK' /\ SubscriberOK' /\ seen' \subseteq published'
<1>1. PublisherOK /\ AnswerOK /\ NetworkOK /\ SubscriberOK /\ seen \subseteq published
  BY DEF SystemInv
<1>2. CASE TakeRequest(d)
  <2>1. /\ d.type = "REPLAY_REQUEST" /\ d.request_id \in Nat /\ Heard(d.from, d.to)
        /\ answer' = [request_id |-> d.request_id, reply |-> GetRange(d.from, d.to)]
        /\ UNCHANGED <<ringVars, appVars, subscriberVars, published, seen>>
    BY <1>1, <1>2 DEF TakeRequest, ReplayLookup, historyVars, NetworkOK
  <2>2. network' \subseteq network
    BY <2>1 DEF Reaction
  <2> QED
    BY <1>1, <2>1, <2>2, AnswerAfterLookup, PublisherStays, NetworkStays, SubscriberStays, SameHistory
<1>3. CASE TakeData(d)
  <2>1. /\ d.type = "DATA" /\ d.frame \in published /\ ReceiveData(d.frame)
        /\ seen' = seen \cup {d.frame} /\ UNCHANGED <<ringVars, appVars, answer, published>>
    BY <1>1, <1>3 DEF TakeData, NetworkOK, publisherVars
  <2>2. OwedGrows
    BY <2>1, Growing
  <2>3. SubscriberOK'
        /\ \A r \in RequestSent(d.frame) :
              r.type = "REPLAY_REQUEST" /\ r.request_id \in Nat /\ Heard(r.from, r.to)'
    BY <2>1, SubscriberAfterData
  <2>4. NetworkOK'
    BY <1>1, <2>1, <2>2, <2>3, NetworkStays DEF Reaction, Reaching
  <2> QED
    BY <1>1, <2>1, <2>2, <2>3, <2>4, AnswerStays, PublisherStays
<1>4. CASE TakeResponse(d)
  <2>1. /\ d.type = "REPLAY_RESPONSE" /\ d.frame \in Owed /\ ReceiveResponse(d.request_id, d.frame)
        /\ UNCHANGED <<ringVars, appVars, answer, published, seen>>
    BY <1>1, <1>4 DEF TakeResponse, NetworkOK, publisherVars, historyVars
  <2>2. network' \subseteq network
    BY <2>1 DEF Reaction
  <2> QED
    BY <1>1, <2>1, <2>2, AnswerStays, PublisherStays, NetworkStays, SubscriberAfterResponse, SameHistory
<1>5. CASE TakeUnavailable(d)
  <2>1. /\ d.type = "REPLAY_UNAVAILABLE" /\ ReceiveUnavailable(d.request_id)
        /\ UNCHANGED <<ringVars, appVars, answer, published, seen>>
    BY <1>5 DEF TakeUnavailable, publisherVars, historyVars
  <2>2. network' \subseteq network
    BY <2>1 DEF Reaction
  <2> QED
    BY <1>1, <2>1, <2>2, AnswerStays, PublisherStays, NetworkStays, SubscriberAfterUnavailable, SameHistory
<1> QED
  BY <1>2, <1>3, <1>4, <1>5 DEF Take

LEMMA InvTimeouts == ASSUME SystemInv, Timeouts PROVE SystemInv'
<1>1. /\ UNCHANGED <<ringVars, appVars, answer, faults, published, seen>>
      /\ WorkerTimeouts /\ network' = network \cup Reaching(RetriesSent)
  BY DEF Timeouts, publisherVars, historyVars
<1>2. \A r \in RetriesSent : r.type = "REPLAY_REQUEST" /\ r.request_id \in Nat /\ Heard(r.from, r.to)
  <2>1. \A id \in Due : id \in Outstanding /\ id \in Nat
    BY DEF Due, SystemInv, SubscriberOK, ReceiverInv, RequestsOK
  <2> QED
    BY <2>1 DEF RetriesSent, ReplayRequest, SystemInv, SubscriberOK, RequestsHeard
<1>3. NetworkOK'
  <2>1. \A r \in network' \ network : r \in RetriesSent
    BY <1>1 DEF Reaching
  <2> QED
    BY <1>1, <1>2, <2>1, SameHistory, NetworkStays, HeardStays DEF SystemInv
<1> QED
  BY <1>1, <1>3, SameHistory, AnswerStays, PublisherStays, SubscriberAfterTimeouts DEF SystemInv

(* The steps that leave publisher and network alone.                       *)
LEMMA InvSubscriberOnly ==
    ASSUME SystemInv, SubscriberOK', UNCHANGED <<publisherVars, network, faults, published, seen>>
    PROVE  SystemInv'
BY SameHistory, AnswerStays, PublisherStays, NetworkStays DEF SystemInv, publisherVars

LEMMA SystemInvNext == SystemInv /\ [SystemNext]_systemVars => SystemInv'
<1> SUFFICES ASSUME SystemInv, [SystemNext]_systemVars PROVE SystemInv'
  OBVIOUS
<1>1. faults \in 0 .. MaxFaults
  BY DEF SystemInv
<1>2. CASE \E len \in PayloadLengths : Publish(len)
  BY <1>2, InvPublish
<1>3. CASE Send
  BY <1>3, InvSend
<1>4. CASE ReplayThread
  BY <1>4, InvSendResponse, InvFinishAnswer, InvSendRefusal DEF ReplayThread
<1>5. ASSUME NEW d \in network, Deliver(d) PROVE SystemInv'
  BY <1>1, <1>5, InvTake DEF Deliver, SystemInv
<1>6. ASSUME NEW d \in network, Duplicate(d) PROVE SystemInv'
  <2>1. faults' \in 0 .. MaxFaults
    BY <1>1, <1>6 DEF Duplicate
  <2> QED
    BY <1>6, <2>1, InvTake DEF Duplicate, SystemInv
<1>7. ASSUME NEW d \in network, Lose(d) PROVE SystemInv'
  <2>1. faults' \in 0 .. MaxFaults
    BY <1>1, <1>7 DEF Lose
  <2>2. UNCHANGED <<ringVars, appVars, answer, subscriberVars, published, seen>> /\ network' \subseteq network
    BY <1>7 DEF Lose, publisherVars, historyVars
  <2> QED
    BY <2>1, <2>2, SameHistory, AnswerStays, PublisherStays, NetworkStays, SubscriberStays DEF SystemInv
<1>8. CASE Timeouts
  BY <1>8, InvTimeouts
<1>9. CASE HandOver
  BY <1>9, SubscriberAfterHandOver, InvSubscriberOnly DEF HandOver
<1>10. CASE Consume
  BY <1>10, SubscriberAfterConsume, InvSubscriberOnly DEF Consume
<1>11. CASE Leave
  <2>1. SubscriberOK /\ UNCHANGED <<receiverVars, publisher_addr, to_deliver, channel>>
        /\ running' = FALSE /\ UNCHANGED <<publisherVars, network, faults, published, seen>>
    BY <1>11 DEF Leave, WorkerExit, SystemInv, historyVars
  <2>2. SubscriberOK'
    BY <2>1, ReceiverSame, SameHistory DEF SubscriberOK, WorkerOK
  <2> QED
    BY <2>1, <2>2, InvSubscriberOnly
<1>12. CASE TimePasses
  BY <1>12, SubscriberAfterTick, InvSubscriberOnly DEF TimePasses, historyVars
<1>13. CASE UNCHANGED systemVars
  <2>1. UNCHANGED <<publisherVars, network, faults, published, seen, subscriberVars>>
    BY <1>13 DEF systemVars, historyVars
  <2>2. SubscriberOK'
    BY <2>1, SameHistory, SubscriberStays DEF SystemInv
  <2> QED
    BY <2>1, <2>2, InvSubscriberOnly
<1> QED
  BY <1>2, <1>3, <1>4, <1>5, <1>6, <1>7, <1>8, <1>9, <1>10, <1>11, <1>12, <1>13 DEF SystemNext

(* What is in flight, buffered, queued or being answered is owed to the    *)
(* application, and every range asked for lies below a frame that was seen *)
(* (publisher.rs, subscriber.rs, modes.rs and engine.rs together).         *)
THEOREM SystemInvariant == SystemSpec => []SystemInv
BY SystemInvInit, SystemInvNext, PTL DEF SystemSpec

(* Both ends keep their types, and the channel its bound, in every         *)
(* interleaving of threads, network and clock.                             *)
THEOREM SystemTypeCorrect == SystemSpec => []SystemTypeOK
BY SystemInvariant, SystemInvTypes, PTL

(* No silent stall between publisher and subscriber (modes.rs, engine.rs,  *)
(* subscriber.rs): in RELIABLE_ORDERED, when every gap fits a request, the *)
(* worker holds back frames only while it waits for an answer or its state *)
(* says that recovery failed, whatever the network does.                   *)
THEOREM SystemNoSilentStall ==
    ASSUME GapsCanBeAskedFor PROVE SystemSpec => []NoSilentStall
<1>1. SystemInit => NoSilentStall
  BY NoSilentStallAtFirst DEF SystemInit, SubscriberInit
<1>2. SystemInv /\ NoSilentStall /\ [SystemNext]_systemVars => NoSilentStall'
  <2> SUFFICES ASSUME SystemInv, NoSilentStall, [SystemNext]_systemVars PROVE NoSilentStall'
    OBVIOUS
  <2>1. ReceiverInv /\ NetworkOK /\ published \subseteq Frame
    BY DEF SystemInv, SubscriberOK, PublisherOK, RingInv, RingTypeOK
  <2>2. UNCHANGED receiverVars => StallStep /\ UNCHANGED mode
    BY DEF receiverVars, StallStep
  <2>3. ASSUME NEW d \in network, Take(d) PROVE StallStep /\ UNCHANGED mode
    <3>1. CASE TakeRequest(d)
      BY <2>2, <3>1 DEF TakeRequest, subscriberVars
    <3>2. CASE TakeData(d)
      <4>1. d.frame \in Frame /\ ProcessDataFrame(d.frame)
        BY <2>1, <3>2 DEF TakeData, ReceiveData, NetworkOK
      <4> QED
        BY <2>1, <4>1, ProcessDataFrameType DEF StallStep
    <3>3. CASE TakeResponse(d)
      <4>1. d.frame \in Frame /\ HandleReplayResponse(d.request_id, d.frame) /\ UNCHANGED mode
        BY <2>1, <3>3 DEF TakeResponse, ReceiveResponse, NetworkOK, Owed
      <4> QED
        BY <4>1 DEF StallStep
    <3>4. CASE TakeUnavailable(d)
      <4>1. HandleReplayUnavailable(d.request_id) /\ UNCHANGED mode
        BY <3>4 DEF TakeUnavailable, ReceiveUnavailable
      <4> QED
        BY <4>1 DEF StallStep
    <3> QED
      BY <2>3, <3>1, <3>2, <3>3, <3>4 DEF Take
  <2>4. StallStep /\ UNCHANGED mode
    <3>1. CASE \E d \in network : Deliver(d) \/ Duplicate(d)
      BY <2>3, <3>1 DEF Deliver, Duplicate
    <3>2. CASE Timeouts
      BY <3>2 DEF Timeouts, WorkerTimeouts, StallStep
    <3>3. CASE TimePasses
      BY <3>3 DEF TimePasses, StallStep
    <3>4. CASE \/ \E len \in PayloadLengths : Publish(len)
               \/ Send \/ ReplayThread \/ \E d \in network : Lose(d)
      BY <2>2, <3>4 DEF Publish, Send, ReplayThread, SendResponse, FinishAnswer, SendRefusal,
                        Lose, subscriberVars
    <3>5. CASE HandOver \/ Consume \/ Leave \/ UNCHANGED systemVars
      BY <2>2, <3>5 DEF HandOver, TrySend, Consume, AppRecv, Leave, WorkerExit, systemVars, subscriberVars
    <3> QED
      BY <3>1, <3>2, <3>3, <3>4, <3>5 DEF SystemNext
  <2> QED
    BY <2>1, <2>4, NoSilentStallStep
<1> QED
  BY <1>1, <1>2, SystemInvariant, PTL DEF SystemSpec

-----------------------------------------------------------------------------
(* The safety part of the stream service, step by step.                    *)
LEMMA PublishIsPublish ==
    ASSUME SystemInv, NEW len, Publish(len)
    PROVE  \E frame \in Frame : Service!Publish(frame)
<1>1. PICK frame \in Frame :
         /\ frame.sequence = sequence_counter
         /\ published' = published \cup {frame}
  BY PublishPushes DEF SystemInv
<1>2. UNCHANGED <<seen, received>>
  BY DEF Publish
<1>3. \A f \in published : f.sequence < frame.sequence
  BY <1>1 DEF SystemInv, PublisherOK
<1>4. \A g \in seen : g.sequence \in Nat /\ g.sequence < frame.sequence
  BY <1>3, FrameSequence DEF SystemInv, PublisherOK, RingInv, RingTypeOK
<1>5. frame.sequence \in Nat
  BY FrameSequence
<1>6. \A g \in seen : ~ (frame.sequence <= g.sequence)
  BY <1>4, <1>5
<1>7. Owed' = Owed
  BY <1>1, <1>2, <1>6 DEF Owed
<1> QED
  BY <1>1, <1>2, <1>3, <1>7 DEF Service!Publish, Owed

LEMMA SeeingIsHearing ==
    ASSUME SystemInv, NEW frame \in published, seen' = seen \cup {frame},
           UNCHANGED <<published, received>>
    PROVE  (\E f \in Frame : Service!HearOf(f)) \/ UNCHANGED Service!stream
<1>1. frame \in Frame /\ published \subseteq Frame /\ seen \subseteq published
  BY DEF SystemInv, PublisherOK, RingInv, RingTypeOK
<1>2. \A f \in published : f.sequence \in Nat
  BY <1>1, FrameSequence
<1>3. CASE \E g \in seen : frame.sequence <= g.sequence
  <2>1. PICK g \in seen : frame.sequence <= g.sequence
    BY <1>3
  <2>2. \A f \in published : f.sequence <= frame.sequence => f.sequence <= g.sequence
    BY <1>1, <1>2, <2>1
  <2>3. Owed' = Owed
    BY <2>1, <2>2 DEF Owed
  <2> QED
    BY <2>3 DEF Service!stream, Owed
<1>4. CASE ~ \E g \in seen : frame.sequence <= g.sequence
  <2>1. \A g \in seen, f \in published : f.sequence <= g.sequence => f.sequence <= frame.sequence
    BY <1>1, <1>2, <1>4
  <2>2. Owed' = {f \in published : f.sequence <= frame.sequence}
    BY <2>1 DEF Owed
  <2>3. Owed \subseteq Owed'
    BY DEF Owed
  <2>4. Service!HearOf(frame)
    BY <2>2, <2>3 DEF Service!HearOf, Owed
  <2> QED
    BY <1>1, <2>4
<1> QED
  BY <1>3, <1>4

LEMMA TakingIsHearing ==
    ASSUME SystemInv, NEW d \in network, Take(d)
    PROVE  (\E f \in Frame : Service!HearOf(f)) \/ UNCHANGED Service!stream
<1>1. CASE TakeData(d)
  <2>1. d.frame \in published /\ seen' = seen \cup {d.frame} /\ UNCHANGED <<published, received>>
    BY <1>1 DEF TakeData, SystemInv, NetworkOK
  <2> QED
    BY <2>1, SeeingIsHearing
<1>2. CASE TakeRequest(d) \/ TakeResponse(d) \/ TakeUnavailable(d)
  <2>1. UNCHANGED <<published, seen, received>>
    BY <1>2 DEF TakeRequest, TakeResponse, TakeUnavailable, historyVars
  <2> QED
    BY <2>1 DEF Service!stream
<1> QED
  BY <1>1, <1>2 DEF Take

LEMMA StepIsServiceStep ==
    ASSUME SystemInv, [SystemNext]_systemVars
    PROVE  Service!Next
<1>1. CASE \E len \in PayloadLengths : Publish(len)
  BY <1>1, PublishIsPublish DEF Service!Next
<1>2. CASE \E d \in network : Deliver(d) \/ Duplicate(d)
  BY <1>2, TakingIsHearing DEF Deliver, Duplicate, Service!Next
<1>3. CASE Consume
  <2>1. Head(channel) \in Owed /\ received' = received \cup {Head(channel)} /\ UNCHANGED <<published, seen>>
    BY <1>3, SubscriberAfterConsume DEF Consume
  <2>2. Head(channel) \in Frame
    BY <2>1 DEF SystemInv, PublisherOK, RingInv, RingTypeOK, Owed
  <2>3. Service!Receive(Head(channel))
    BY <2>1 DEF Service!Receive, Owed
  <2> QED
    BY <2>2, <2>3 DEF Service!Next
<1>4. CASE UNCHANGED <<published, seen, received>>
  BY <1>4 DEF Service!Next, Service!stream
<1> QED
  BY <1>1, <1>2, <1>3, <1>4
     DEF SystemNext, Send, ReplayThread, SendResponse, FinishAnswer, SendRefusal, Lose, Timeouts,
         HandOver, Leave, TimePasses, systemVars, historyVars

(* The application is handed only frames that were published and that the  *)
(* subscriber can know of, in the order of the abstract service's steps:   *)
(* for every number of frames, faults, retries and every capacity, the     *)
(* system implements the safety part of StreamService (publisher.rs        *)
(* publish and handle_replay_request, subscriber.rs worker and channel).   *)
THEOREM SystemHandsOverOnlyOwed == SystemSpec => HandsOverOnlyOwed
<1>1. SystemInit => Service!Init
  BY DEF SystemInit, SubscriberInit, ReceiverInit, RecoveryInit, Service!Init
<1>2. SystemInv /\ [SystemNext]_systemVars =>
         [Service!Next]_<<Service!stream, ~ running \/ overflow \/ state = "RecoveryFailed">>
  BY StepIsServiceStep
<1> QED
  BY <1>1, <1>2, SystemInvariant, PTL DEF SystemSpec, HandsOverOnlyOwed, Service!Safety

-----------------------------------------------------------------------------
(* Recovery does not fail while the publisher has the frames.  This takes  *)
(* payloads short enough to be sent again behind a request_id.             *)
ReplaysFit == \A len \in PayloadLengths : Encodable(len + RequestIdSize, ReplayBufferSize)

(* What a request still waits for, and whether that is on its way.         *)
Missing(r) == (r.from_sequence .. r.to_sequence) \ r.received_sequences

AskedFor(id, s) ==
    \E d \in network : d.type = "REPLAY_REQUEST" /\ d.request_id = id /\ s \in d.from .. d.to

Answered(id, s) ==
    \E d \in network :
        d.type = "REPLAY_RESPONSE" /\ d.request_id = id /\ d.frame.sequence = s

BeingAnswered(id, s) ==
    /\ answer # None /\ answer.request_id = id
    /\ \E i \in 1 .. Len(answer.reply.frames) : answer.reply.frames[i].sequence = s

Pending(id, s) == AskedFor(id, s) \/ Answered(id, s) \/ BeingAnswered(id, s)

(* A request has used no more retries than there were faults, fewer once   *)
(* it ages; with as many, all it waits for is on its way.                  *)
Alive(id, r) ==
    /\ Missing(r) # {}
    /\ r.retries_attempted <= faults
    /\ r.age > 0 => r.retries_attempted < faults
    /\ r.retries_attempted = faults => \A s \in Missing(r) : Pending(id, s)

Favourable ==
    timely /\ publisher_addr = PublisherAddr /\ MaxFaults <= MaxRetries /\ AllRetained

NoRefusal ==
    /\ \A d \in network : d.type # "REPLAY_UNAVAILABLE"
    /\ answer # None => answer.reply.ok

AllAlive == \A id \in Outstanding : Alive(id, outstanding_requests[id])

Recovers == state # "RecoveryFailed" /\ NoRefusal /\ AllAlive

RecoveryInv == Favourable => Recovers

LEMMA RecoveryInvInit == SystemInit => RecoveryInv
<1> SUFFICES ASSUME SystemInit PROVE Recovers
  BY DEF RecoveryInv
<1>1. Outstanding = {} /\ state # "RecoveryFailed"
  BY EmptyMap DEF SystemInit, SubscriberInit, ReceiverInit, RecoveryInit, Outstanding
<1> QED
  BY <1>1 DEF SystemInit, PublisherInit, Recovers, NoRefusal, AllAlive

(* A frame that has left the buffer does not come back.                    *)
LEMMA RetainedIs == SystemInv => (AllRetained <=> \A f \in published : ~ Expired(f))
<1> SUFFICES ASSUME SystemInv PROVE AllRetained <=> \A f \in published : ~ Expired(f)
  OBVIOUS
<1>1. published = pushed /\ RingInv /\ pushed \subseteq Frame
  BY DEF SystemInv, PublisherOK, RingInv, RingTypeOK
<1>2. \A f \in published : Get(f.sequence) = f <=> ~ Expired(f)
  BY <1>1, RingInvRetainsNewest, FrameSequence DEF RetainsNewest
<1> QED
  BY <1>2 DEF AllRetained

LEMMA RetainedIsNext == SystemInv' => (AllRetained <=> \A f \in published : ~ Expired(f))'
BY RetainedIs, PTL

LEMMA RetainedBefore ==
    ASSUME SystemInv, SystemInv', AllRetained', NEW len, Publish(len)
    PROVE  AllRetained
<1>1. PICK frame \in Frame :
         /\ frame.sequence = sequence_counter
         /\ Push(frame) /\ published' = published \cup {frame}
  BY PublishPushes DEF SystemInv
<1>2. max_sequence' = sequence_counter /\ sequence_counter \in Nat
  BY <1>1 DEF Push, SystemInv, PublisherOK, PublisherTypeOK
<1>3. \A f \in published' : ~ (f.sequence + Capacity <= max_sequence')
  BY RetainedIsNext DEF Expired
<1>4. ASSUME NEW f \in published PROVE ~ Expired(f)
  <2>1. max_sequence \in Nat /\ f.sequence \in Nat /\ max_sequence # None
    BY WindowIsUnexpired DEF SystemInv, PublisherOK
  <2>2. max_sequence + 1 = sequence_counter
    BY <2>1 DEF SystemInv, PublisherOK
  <2>3. ~ (f.sequence + Capacity <= max_sequence')
    BY <1>1, <1>3
  <2> QED
    BY <1>2, <2>1, <2>2, <2>3, CapacityAssumption DEF Expired
<1> QED
  BY <1>4, RetainedIs

LEMMA FavourableBefore ==
    ASSUME SystemInv, SystemInv', [SystemNext]_systemVars, Favourable'
    PROVE  Favourable
<1>1. UNCHANGED <<timely, publisher_addr>>
  <2>1. ASSUME NEW d, Take(d) PROVE UNCHANGED publisher_addr
    BY <2>1 DEF Take, TakeRequest, TakeData, TakeResponse, TakeUnavailable, subscriberVars, workerVars,
       ReceiveData, ReceiveResponse, ReceiveUnavailable
  <2> QED
    BY <2>1
       DEF SystemNext, Publish, Send, ReplayThread, SendResponse, FinishAnswer, SendRefusal, Deliver,
           Duplicate, Lose, Timeouts, WorkerTimeouts, HandOver, TrySend, Consume, AppRecv, Leave,
           WorkerExit, TimePasses, systemVars, subscriberVars, workerVars
<1>2. CASE \E len \in PayloadLengths : Publish(len)
  BY <1>1, <1>2, RetainedBefore DEF Favourable
<1>3. CASE UNCHANGED <<ringVars, published>>
  BY <1>1, <1>3 DEF Favourable, AllRetained, Get, Slot, ringVars
<1>4. ASSUME NEW d, Take(d) PROVE UNCHANGED <<ringVars, published>>
  BY <1>4 DEF Take, TakeRequest, TakeData, TakeResponse, TakeUnavailable, publisherVars, historyVars,
     ReplayLookup
<1> QED
  BY <1>2, <1>3, <1>4
     DEF SystemNext, Send, PublishSend, ReplayThread, SendResponse, ReplaySendFrame, FinishAnswer,
         ReplayDone, SendRefusal, ReplayRefuse, Deliver, Duplicate, Lose, Timeouts, HandOver, Consume,
         Leave, TimePasses, systemVars, publisherVars, historyVars

-----------------------------------------------------------------------------
(* What is retained is served: every sequence the subscriber asks for is   *)
(* in the answer.                                                          *)
LEMMA LookupServed ==
    ASSUME SystemInv, AllRetained, NEW from, NEW to, Heard(from, to)
    PROVE  /\ GetRange(from, to).ok
           /\ \A s \in from .. to :
                 \E i \in 1 .. Len(GetRange(from, to).frames) :
                    GetRange(from, to).frames[i].sequence = s
<1>1. from \in SeqNums /\ to \in SeqNums /\ from <= to /\ max_sequence # None /\ to <= max_sequence
  BY HeardRange
<1>2. RingInv /\ published = pushed /\ from \in Nat /\ to \in Nat
  BY <1>1, FramesAssumption DEF SystemInv, PublisherOK
<1>3. min_sequence \in Nat /\ from >= min_sequence
  <2>1. max_sequence \in Nat /\ sequence_counter = max_sequence + 1 /\ from > 0
    BY <1>1 DEF SystemInv, PublisherOK, RingInv, RingTypeOK, OptionNat, Heard
  <2>2. PICK f \in published : f.sequence = from
    BY <1>1, <1>2, <2>1 DEF SystemInv, PublisherOK
  <2>3. ~ Expired(f)
    BY RetainedIs
  <2> QED
    BY <1>2, <2>2, <2>3, WindowIsUnexpired
<1> DEFINE frames == [i \in 1 .. (to + 1 - from) |-> Get(from + i - 1)]
<1>4. GetRange(from, to) = Available(frames)
  BY <1>1, <1>2, <1>3, GetRangeWithin
<1>5. Len(frames) = to + 1 - from
  BY <1>1, <1>2
<1>6. ASSUME NEW s \in from .. to PROVE \E i \in 1 .. Len(frames) : frames[i].sequence = s
  <2> DEFINE i == s - from + 1
  <2>1. i \in 1 .. (to + 1 - from) /\ from + i - 1 = s
    BY <1>2
  <2>2. s \in min_sequence .. max_sequence
    BY <1>1, <1>2, <1>3 DEF RingInv, RingTypeOK, OptionNat
  <2>3. Get(s).sequence = s
    BY <1>1, <1>2, <2>2, GetInside
  <2>4. frames[i].sequence = s
    BY <2>1, <2>3
  <2> HIDE DEF frames, i
  <2> QED
    BY <1>5, <2>1, <2>4
<1> HIDE DEF frames
<1> QED
  BY <1>4, <1>6 DEF Available

(* A step that answers nothing and takes no request or response out of the *)
(* network keeps what is on its way.                                       *)
PendingKept == \A id, s : Pending(id, s) => Pending(id, s)'

LEMMA NetworkGrows ==
    ASSUME UNCHANGED answer,
           \A d \in network : d.type \in {"REPLAY_REQUEST", "REPLAY_RESPONSE"} => d \in network'
    PROVE  PendingKept
<1> SUFFICES ASSUME NEW id, NEW s, Pending(id, s) PROVE Pending(id, s)'
  BY DEF PendingKept
<1>1. AskedFor(id, s) => AskedFor(id, s)'
  BY DEF AskedFor
<1>2. Answered(id, s) => Answered(id, s)'
  BY DEF Answered
<1>3. BeingAnswered(id, s) => BeingAnswered(id, s)'
  BY DEF BeingAnswered
<1> QED
  BY <1>1, <1>2, <1>3 DEF Pending

(* A fault is worth a retry to every request.                              *)
LEMMA AliveAfterFault ==
    ASSUME NEW id, NEW r, Missing(r) # {}, r.retries_attempted \in Nat, r.retries_attempted <= faults,
           faults \in Nat, faults' = faults + 1
    PROVE  Alive(id, r)'
<1>1. r.retries_attempted < faults' /\ r.retries_attempted <= faults' /\ ~ (r.retries_attempted = faults')
  OBVIOUS
<1> QED
  BY <1>1 DEF Alive, Missing

-----------------------------------------------------------------------------
(* The publisher's steps: a frame of an answer that is sent moves from the *)
(* hand to the network.                                                    *)
LEMMA SendResponsePending ==
    ASSUME ReplaysFit, SystemInv, SendResponse
    PROVE  PendingKept
<1> DEFINE frames == answer.reply.frames
<1>1. /\ ReplaySendFrame /\ network' = network \cup ResponseSent
      /\ frames # <<>> /\ answer # None
  BY DEF SendResponse, ReplaySendFrame
<1>2. /\ Head(frames) \in Owed
      /\ answer' = [request_id |-> answer.request_id, reply |-> Available(Tail(frames))]
      /\ answer.request_id \in Nat
  BY <1>1, AnswerAfterResponse DEF SystemInv
<1>3. frames \in Seq(Owed)
  BY <1>1 DEF SystemInv, AnswerOK, ReplaySendFrame
<1>4. ResponseSent = {ReplayResponse(answer.request_id, Head(frames))}
  <2>1. Head(frames) \in Frame
    BY <1>2 DEF SystemInv, PublisherOK, RingInv, RingTypeOK, Owed
  <2>2. Head(frames).payload_length \in PayloadLengths
    BY <2>1 DEF Frame
  <2> QED
    BY <2>2 DEF ResponseSent, ReplaysFit
<1>5. answer' # None
  <2>1. Owed \subseteq Frame
    BY DEF SystemInv, PublisherOK, RingInv, RingTypeOK, Owed
  <2>2. Tail(frames) \in Seq(Frame)
    BY <1>1, <1>3, <2>1, HeadTailProperties, SeqMonotone
  <2> HIDE DEF frames
  <2>3. Available(Tail(frames)) \in [ok : {TRUE}, frames : Seq(Frame)]
    BY <2>2 DEF Available
  <2>4. answer' \in [request_id : Nat, reply : [ok : {TRUE}, frames : Seq(Frame)]]
    BY <1>2, <2>3
  <2> QED
    BY <2>4, NoneIsNoAnswer
<1> SUFFICES ASSUME NEW id, NEW s, Pending(id, s) PROVE Pending(id, s)'
  BY DEF PendingKept
<1>6. CASE AskedFor(id, s)
  BY <1>1, <1>6 DEF Pending, AskedFor
<1>7. CASE Answered(id, s)
  BY <1>1, <1>7 DEF Pending, Answered
<1>8. CASE BeingAnswered(id, s)
  <2>1. PICK i \in 1 .. Len(frames) : frames[i].sequence = s
    BY <1>8 DEF BeingAnswered
  <2>2. answer.request_id = id
    BY <1>8 DEF BeingAnswered
  <2>3. Len(frames) \in Nat /\ Len(Tail(frames)) = Len(frames) - 1
        /\ Head(frames) = frames[1] /\ \A j \in 1 .. Len(Tail(frames)) : Tail(frames)[j] = frames[j + 1]
    BY <1>1, <1>3, HeadTailProperties, LenProperties
  <2>4. CASE i = 1
    <3> DEFINE d == ReplayResponse(id, Head(frames))
    <3>1. d.type = "REPLAY_RESPONSE" /\ d.request_id = id /\ d.frame = Head(frames)
      BY DEF ReplayResponse
    <3>2. d \in network' /\ Head(frames).sequence = s
      BY <1>1, <1>4, <2>1, <2>2, <2>3, <2>4
    <3> HIDE DEF d
    <3>3. Answered(id, s)'
      BY <3>1, <3>2 DEF Answered
    <3> QED
      BY <3>3 DEF Pending
  <2>5. CASE i > 1
    <3>1. i - 1 \in 1 .. Len(Tail(frames)) /\ (i - 1) + 1 = i
      BY <2>3, <2>5
    <3>2. Tail(frames)[i - 1].sequence = s
      BY <2>1, <2>3, <3>1
    <3>3. answer'.request_id = id /\ answer'.reply.frames = Tail(frames)
      BY <1>2, <2>2 DEF Available
    <3> HIDE DEF frames
    <3>4. BeingAnswered(id, s)'
      BY <1>5, <3>1, <3>2, <3>3 DEF BeingAnswered
    <3> QED
      BY <3>4 DEF Pending
  <2> QED
    BY <2>4, <2>5
<1> QED
  BY <1>6, <1>7, <1>8 DEF Pending

(* A request that is answered moves from the network to the hand.          *)
LEMMA LookupPending ==
    ASSUME SystemInv, AllRetained, NEW d \in network, TakeRequest(d), network \ {d} \subseteq network'
    PROVE  PendingKept /\ answer'.reply.ok
<1> DEFINE reply == GetRange(d.from, d.to)
<1>1. /\ d.type = "REPLAY_REQUEST" /\ d.request_id \in Nat /\ Heard(d.from, d.to) /\ answer = None
      /\ answer' = [request_id |-> d.request_id, reply |-> reply]
  BY DEF TakeRequest, ReplayLookup, SystemInv, NetworkOK
<1>2. /\ reply.ok
      /\ \A s \in d.from .. d.to : \E i \in 1 .. Len(reply.frames) : reply.frames[i].sequence = s
  BY <1>1, LookupServed
<1>3. reply \in [ok : {TRUE}, frames : Seq(Frame)]
  <2>1. d.from \in SeqNums /\ d.to \in SeqNums /\ d.from <= d.to
    BY <1>1, HeardRange
  <2>2. reply \in RefusedReply \cup ServedReply
    BY <2>1, GetRangeReply DEF SystemInv, PublisherOK
  <2> HIDE DEF reply
  <2> QED
    BY <1>2, <2>2 DEF RefusedReply, ServedReply
<1> HIDE DEF reply
<1>4. answer' # None
  <2>1. answer' \in [request_id : Nat, reply : [ok : {TRUE}, frames : Seq(Frame)]]
    BY <1>1, <1>3
  <2> QED
    BY <2>1, NoneIsNoAnswer
<1> SUFFICES ASSUME NEW id, NEW s, Pending(id, s) PROVE Pending(id, s)'
  BY <1>1, <1>2 DEF PendingKept
<1>5. CASE Answered(id, s)
  BY <1>1, <1>5 DEF Pending, Answered
<1>6. CASE \E e \in network \ {d} :
              e.type = "REPLAY_REQUEST" /\ e.request_id = id /\ s \in e.from .. e.to
  BY <1>6 DEF Pending, AskedFor
<1>7. CASE d.request_id = id /\ s \in d.from .. d.to
  <2>1. BeingAnswered(id, s)'
    BY <1>1, <1>2, <1>4, <1>7 DEF BeingAnswered
  <2> QED
    BY <2>1 DEF Pending
<1>8. ~ BeingAnswered(id, s)
  BY <1>1 DEF BeingAnswered
<1> QED
  BY <1>5, <1>6, <1>7, <1>8 DEF Pending, AskedFor

-----------------------------------------------------------------------------
(* The subscriber's steps.                                                 *)
LEMMA AliveAfter ==
    ASSUME NEW id, NEW r \in ActiveReplayRequest, faults \in Nat, faults' \in {faults, faults + 1},
           Missing(r) # {}, r.retries_attempted <= faults,
           r.age > 0 => r.retries_attempted < faults,
           r.retries_attempted = faults => \A s \in Missing(r) : Pending(id, s)'
    PROVE  Alive(id, r)'
<1>1. r.retries_attempted \in Nat
  BY DEF ActiveReplayRequest
<1>2. CASE faults' = faults + 1
  BY <1>1, <1>2, AliveAfterFault
<1>3. CASE faults' = faults
  BY <1>3 DEF Alive, Missing
<1> QED
  BY <1>2, <1>3

LEMMA KeptAlive ==
    ASSUME SystemInv, AllAlive, PendingKept, faults' \in {faults, faults + 1},
           NEW id \in Outstanding, NEW r, r = outstanding_requests[id]
    PROVE  Alive(id, r)'
<1>1. r \in ActiveReplayRequest /\ faults \in Nat
  BY RequestTypes DEF SystemInv, SubscriberOK, ReceiverInv
<1>2. Alive(id, r)
  BY DEF AllAlive
<1> QED
  BY <1>1, <1>2, AliveAfter DEF Alive, PendingKept

LEMMA SameRequestsAlive ==
    ASSUME SystemInv, AllAlive, PendingKept, faults' \in {faults, faults + 1},
           UNCHANGED outstanding_requests
    PROVE  AllAlive'
<1> SUFFICES ASSUME NEW id \in Outstanding' PROVE Alive(id, outstanding_requests[id])'
  BY DEF AllAlive
<1>1. ASSUME NEW r, r = outstanding_requests[id] PROVE Alive(id, r)'
  BY <1>1, KeptAlive DEF Outstanding
<1> QED
  BY <1>1 DEF Alive

(* A DATA frame opens a request that is asked for at once.                 *)
LEMMA DataAlive ==
    ASSUME SystemInv, Recovers, NEW d \in network, TakeData(d), faults' \in {faults, faults + 1},
           (network \ {d}) \cup Reaction(d) \subseteq network'
    PROVE  AllAlive' /\ state' # "RecoveryFailed"
<1> DEFINE frame == d.frame
<1>1. /\ d.type = "DATA" /\ frame \in published /\ ReceiveData(frame)
      /\ seen' = seen \cup {frame} /\ UNCHANGED <<answer, published>>
      /\ state # "RecoveryFailed" /\ AllAlive
  BY DEF TakeData, SystemInv, NetworkOK, publisherVars, Recovers
<1> HIDE DEF frame
<1>2. PendingKept
  BY <1>1, NetworkGrows
<1>3. CASE UNCHANGED <<outstanding_requests, state>>
  BY <1>1, <1>2, <1>3, SameRequestsAlive
<1>4. CASE outstanding_requests' = <<>> /\ state' = "Live"
  BY <1>4, EmptyMap DEF AllAlive, Outstanding
<1>5. CASE /\ AsksForGap(frame)
           /\ outstanding_requests' =
                 MapInsert(outstanding_requests, next_request_id, GapRequest(frame))
           /\ state' = "Recovering"
  <2>1. PICK new, from, to, sent :
           /\ new = next_request_id /\ from = GapFrom(frame.publisher_id) /\ to = GapTo(frame.sequence)
           /\ sent = ReplayRequest(new, from, to, PublisherAddr)
    OBVIOUS
  <2>2. /\ Outstanding' = Outstanding \cup {new}
        /\ outstanding_requests'[new] = NewRequest(from, to)
        /\ \A id \in Outstanding \ {new} : outstanding_requests'[id] = outstanding_requests[id]
    BY <1>5, <2>1 DEF MapInsert, Outstanding, GapRequest
  <2>3. /\ sent.type = "REPLAY_REQUEST" /\ sent.target = PublisherAddr
        /\ sent.request_id = new /\ sent.from = from /\ sent.to = to
    BY <2>1 DEF ReplayRequest
  <2>4. sent \in RequestSent(frame) /\ sent \in network'
    BY <1>1, <1>5, <2>1, <2>3 DEF Reaction, Reaching, RequestSent, frame
  <2>5. from \in Nat /\ to \in Nat /\ from <= to
    <3>1. Heard(sent.from, sent.to)'
      BY <1>1, <2>4, SubscriberAfterData
    <3> QED
      BY <2>3, <3>1 DEF Heard
  <2>6. ASSUME NEW r, r = NewRequest(from, to) PROVE Alive(new, r)'
    <3>1. /\ r.from_sequence = from /\ r.to_sequence = to /\ r.age = 0 /\ r.retries_attempted = 0
          /\ r.received_sequences = {}
      BY <2>6 DEF NewRequest
    <3>2. r \in ActiveReplayRequest
      BY <2>5, <2>6, RecoveryAssumption DEF NewRequest, ActiveReplayRequest
    <3>3. Missing(r) = from .. to /\ Missing(r) # {}
      BY <2>5, <3>1 DEF Missing
    <3>4. ASSUME NEW s \in Missing(r) PROVE Pending(new, s)'
      <4>1. AskedFor(new, s)'
        BY <2>3, <2>4, <3>3 DEF AskedFor
      <4> QED
        BY <4>1 DEF Pending
    <3>5. faults \in Nat
      BY DEF SystemInv
    <3>6. r.retries_attempted <= faults
      BY <3>1, <3>5
    <3>7. ~ (r.age > 0)
      BY <3>1
    <3> QED
      BY <3>2, <3>3, <3>4, <3>5, <3>6, <3>7, AliveAfter
  <2>7. ASSUME NEW id \in Outstanding', NEW r, r = outstanding_requests'[id] PROVE Alive(id, r)'
    <3>1. CASE id = new
      BY <2>2, <2>6, <2>7, <3>1
    <3>2. CASE id # new
      <4>1. id \in Outstanding /\ r = outstanding_requests[id]
        BY <2>2, <2>7, <3>2
      <4> QED
        BY <1>1, <1>2, <4>1, KeptAlive
    <3> QED
      BY <3>1, <3>2
  <2>8. ASSUME NEW id \in Outstanding' PROVE Alive(id, outstanding_requests[id])'
    <3>1. ASSUME NEW r, r = outstanding_requests'[id] PROVE Alive(id, r)'
      BY <2>7, <3>1
    <3> QED
      BY <3>1 DEF Alive
  <2> QED
    BY <1>5, <2>8 DEF AllAlive
<1> QED
  BY <1>1, <1>3, <1>4, <1>5, DataRequests DEF ReceiveData

(* A response is counted by the request it answers and pending no more; a  *)
(* request that then waits for nothing is closed.                          *)
LEMMA ResponseAlive ==
    ASSUME SystemInv, Recovers, NEW d \in network, TakeResponse(d), faults' \in {faults, faults + 1},
           network \ {d} \subseteq network'
    PROVE  AllAlive' /\ state' # "RecoveryFailed"
<1>1. /\ d.type = "REPLAY_RESPONSE" /\ HandleReplayResponse(d.request_id, d.frame) /\ UNCHANGED answer
      /\ state # "RecoveryFailed" /\ AllAlive /\ RequestsOK /\ faults \in Nat
  BY DEF TakeResponse, ReceiveResponse, publisherVars, Recovers, SystemInv, SubscriberOK, ReceiverInv
<1>2. /\ state' \in {state, "Live"}
      /\ \A id \in Outstanding' :
            /\ id \in Outstanding
            /\ id # d.request_id => outstanding_requests'[id] = outstanding_requests[id]
            /\ id = d.request_id =>
                  /\ ~ Completes(id, d.frame)
                  /\ outstanding_requests'[id] = Counted(outstanding_requests[id], d.frame.sequence)
  BY <1>1, ResponseRequests
<1>3. ASSUME NEW id, NEW s, Pending(id, s), ~ (d.request_id = id /\ d.frame.sequence = s)
      PROVE  Pending(id, s)'
  <2>1. AskedFor(id, s) => AskedFor(id, s)'
    BY <1>1 DEF AskedFor
  <2>2. Answered(id, s) => Answered(id, s)'
    BY <1>3 DEF Answered
  <2>3. BeingAnswered(id, s) => BeingAnswered(id, s)'
    BY <1>1 DEF BeingAnswered
  <2> QED
    BY <1>3, <2>1, <2>2, <2>3 DEF Pending
<1>4. ASSUME NEW id \in Outstanding', NEW r, r = outstanding_requests'[id] PROVE Alive(id, r)'
  <2>1. PICK old : old = outstanding_requests[id]
    OBVIOUS
  <2>2. id \in Outstanding /\ old \in ActiveReplayRequest /\ Alive(id, old)
    BY <1>1, <1>2, <2>1, RequestTypes DEF AllAlive
  <2>3. CASE id # d.request_id
    <3>1. r = old /\ \A s \in Missing(r) : Pending(id, s) => Pending(id, s)'
      BY <1>2, <1>3, <1>4, <2>1, <2>3
    <3> QED
      BY <1>1, <2>2, <3>1, AliveAfter DEF Alive
  <2>4. CASE id = d.request_id
    <3>1. r = Counted(old, d.frame.sequence) /\ ~ Completes(id, d.frame)
      BY <1>2, <1>4, <2>1, <2>4
    <3>2. /\ r.from_sequence = old.from_sequence /\ r.to_sequence = old.to_sequence /\ r.age = old.age
          /\ r.retries_attempted = old.retries_attempted
          /\ r.received_sequences = ReceivedWith(old, d.frame.sequence)
      BY <2>2, <3>1, CountedIs
    <3>3. Missing(r) # {}
      <4>1. ~ (old.from_sequence .. old.to_sequence \subseteq ReceivedWith(old, d.frame.sequence))
        BY <2>1, <2>2, <3>1 DEF Completes
      <4> QED
        BY <3>2, <4>1 DEF Missing
    <3>4. \A s \in Missing(r) : s \in Missing(old) /\ s # d.frame.sequence
      BY <3>2 DEF Missing, ReceivedWith
    <3>5. r \in ActiveReplayRequest
      <4>1. ReceivedWith(old, d.frame.sequence) \in SUBSET Nat
        BY <2>2 DEF ReceivedWith, ActiveReplayRequest
      <4> QED
        BY <2>2, <3>1, <4>1 DEF Counted, ActiveReplayRequest
    <3>6. r.retries_attempted = faults => \A s \in Missing(r) : Pending(id, s)'
      BY <1>3, <2>2, <3>2, <3>4 DEF Alive
    <3> QED
      BY <1>1, <2>2, <3>2, <3>3, <3>5, <3>6, AliveAfter DEF Alive
  <2> QED
    BY <2>3, <2>4
<1>5. ASSUME NEW id \in Outstanding' PROVE Alive(id, outstanding_requests[id])'
  <2>1. ASSUME NEW r, r = outstanding_requests'[id] PROVE Alive(id, r)'
    BY <1>4, <2>1
  <2> QED
    BY <2>1 DEF Alive
<1> QED
  BY <1>1, <1>2, <1>5 DEF AllAlive

(* A request runs out of time only after a fault that it has not answered  *)
(* with a retry, so no request is exhausted; the retry asks for all that   *)
(* is missing.                                                             *)
LEMMA TimeoutsAlive ==
    ASSUME RetryTimeout > 0, SystemInv, Favourable, Recovers, Timeouts
    PROVE  AllAlive' /\ state' # "RecoveryFailed"
<1>1. /\ CheckTimeouts /\ network' = network \cup Reaching(RetriesSent) /\ UNCHANGED <<answer, faults>>
      /\ state # "RecoveryFailed" /\ AllAlive /\ RequestsOK /\ faults \in Nat /\ faults <= MaxFaults
      /\ publisher_addr = PublisherAddr /\ MaxFaults <= MaxRetries
  BY DEF Timeouts, WorkerTimeouts, publisherVars, Recovers, SystemInv, SubscriberOK, ReceiverInv, Favourable
<1>2. ASSUME NEW id \in Due
      PROVE  /\ id \in Outstanding /\ outstanding_requests[id].retries_attempted \in Nat
             /\ outstanding_requests[id].retries_attempted < faults
  <2>1. id \in Outstanding /\ outstanding_requests[id].age >= RetryTimeout
    BY DEF Due
  <2>2. outstanding_requests[id] \in ActiveReplayRequest
    BY <1>1, <2>1, RequestTypes
  <2>3. outstanding_requests[id].age > 0
    BY <2>1, <2>2, RecoveryAssumption DEF ActiveReplayRequest
  <2> QED
    BY <1>1, <2>1, <2>2, <2>3 DEF AllAlive, Alive, ActiveReplayRequest
<1>3. Exhausted = {}
  BY <1>1, <1>2, RecoveryAssumption DEF Exhausted
<1>4. /\ state' = state
      /\ \A id \in Outstanding' :
            /\ id \in Outstanding
            /\ id \in Due => outstanding_requests'[id] = Retried(outstanding_requests[id])
            /\ id \notin Due => outstanding_requests'[id] = outstanding_requests[id]
  BY <1>1, <1>3, TimeoutRequests
<1>5. PendingKept
  BY <1>1, NetworkGrows
<1>6. ASSUME NEW id \in Outstanding', NEW r, r = outstanding_requests'[id] PROVE Alive(id, r)'
  <2>1. PICK old : old = outstanding_requests[id]
    OBVIOUS
  <2>2. id \in Outstanding /\ old \in ActiveReplayRequest /\ Alive(id, old)
    BY <1>1, <1>4, <2>1, RequestTypes DEF AllAlive
  <2>3. CASE id \notin Due
    BY <1>1, <1>4, <1>5, <1>6, <2>2, <2>3, KeptAlive
  <2>4. CASE id \in Due
    <3>1. /\ r.from_sequence = old.from_sequence /\ r.to_sequence = old.to_sequence /\ r.age = 0
          /\ r.retries_attempted = old.retries_attempted + 1
          /\ r.received_sequences = old.received_sequences
      BY <1>4, <1>6, <2>1, <2>2, <2>4, RetriedIs
    <3>2. Missing(r) # {} /\ Missing(r) \subseteq old.from_sequence .. old.to_sequence
      BY <2>2, <3>1 DEF Alive, Missing
    <3>3. r.retries_attempted <= faults'
      BY <1>1, <1>2, <2>1, <2>4, <3>1
    <3>4. PICK sent : sent = ReplayRequest(id, old.from_sequence, old.to_sequence, PublisherAddr)
      OBVIOUS
    <3>5. /\ sent.type = "REPLAY_REQUEST" /\ sent.target = PublisherAddr /\ sent.request_id = id
          /\ sent.from = old.from_sequence /\ sent.to = old.to_sequence
      BY <3>4 DEF ReplayRequest
    <3>6. sent \in network'
      BY <1>1, <1>3, <2>1, <2>4, <3>4, <3>5 DEF RetriesSent, Reaching
    <3>7. \A s \in Missing(r) : AskedFor(id, s)'
      BY <3>2, <3>5, <3>6 DEF AskedFor
    <3>8. ~ (r.age > 0)
      BY <3>1
    <3> QED
      BY <3>2, <3>3, <3>7, <3>8 DEF Alive, Missing, Pending
  <2> QED
    BY <2>3, <2>4
<1>7. ASSUME NEW id \in Outstanding' PROVE Alive(id, outstanding_requests[id])'
  <2>1. ASSUME NEW r, r = outstanding_requests'[id] PROVE Alive(id, r)'
    BY <1>6, <2>1
  <2> QED
    BY <2>1 DEF Alive
<1> QED
  BY <1>1, <1>4, <1>7 DEF AllAlive

(* Time passes only when nothing is on its way: a request that waits then  *)
(* has met a fault.                                                        *)
LEMMA TickAlive ==
    ASSUME SystemInv, Favourable, Recovers, TimePasses
    PROVE  AllAlive' /\ state' # "RecoveryFailed"
<1>1. /\ network = {} /\ answer = None /\ Tick /\ UNCHANGED faults /\ faults \in Nat
      /\ state # "RecoveryFailed" /\ AllAlive /\ RequestsOK
  BY DEF TimePasses, Quiet, Favourable, Recovers, SystemInv, SubscriberOK, ReceiverInv
<1>2. \A id, s : ~ Pending(id, s)
  BY <1>1 DEF Pending, AskedFor, Answered, BeingAnswered
<1>3. ASSUME NEW id \in Outstanding', NEW r, r = outstanding_requests'[id] PROVE Alive(id, r)'
  <2>1. PICK old : old = outstanding_requests[id]
    OBVIOUS
  <2>2. id \in Outstanding /\ old \in ActiveReplayRequest /\ Alive(id, old)
    BY <1>1, <2>1, TickRequests, RequestTypes DEF AllAlive
  <2>3. /\ r.from_sequence = old.from_sequence /\ r.to_sequence = old.to_sequence
        /\ r.retries_attempted = old.retries_attempted
        /\ r.received_sequences = old.received_sequences
    BY <1>1, <1>3, <2>1, TickRequests
  <2>4. old.retries_attempted # faults /\ old.retries_attempted <= faults /\ Missing(old) # {}
    BY <1>2, <2>2 DEF Alive
  <2>5. Missing(r) # {} /\ r.retries_attempted \in Nat
    BY <2>2, <2>3, <2>4 DEF Missing, ActiveReplayRequest
  <2>6. r.retries_attempted < faults' /\ r.retries_attempted <= faults' /\ r.retries_attempted # faults'
    BY <1>1, <2>3, <2>4, <2>5
  <2> QED
    BY <2>5, <2>6 DEF Alive, Missing
<1>4. ASSUME NEW id \in Outstanding' PROVE Alive(id, outstanding_requests[id])'
  <2>1. ASSUME NEW r, r = outstanding_requests'[id] PROVE Alive(id, r)'
    BY <1>3, <2>1
  <2> QED
    BY <2>1 DEF Alive
<1> QED
  BY <1>1, <1>4, TickRequests DEF AllAlive

-----------------------------------------------------------------------------
(* Steps that touch no request.                                            *)
LEMMA RecoversStays ==
    ASSUME SystemInv, Recovers, PendingKept, NoRefusal', UNCHANGED <<outstanding_requests, state, faults>>
    PROVE  Recovers'
BY SameRequestsAlive DEF Recovers

LEMMA TakeRecovers ==
    ASSUME SystemInv, Favourable, Recovers, NEW d \in network, Take(d),
           faults' \in {faults, faults + 1},
           (network \ {d}) \cup Reaction(d) \subseteq network',
           network' \subseteq network \cup Reaction(d)
    PROVE  Recovers'
<1>1. \A e \in network' : e.type # "REPLAY_UNAVAILABLE"
  BY DEF Reaction, Reaching, RequestSent, ReplayRequest, Recovers, NoRefusal
<1>2. AllRetained /\ AllAlive /\ state # "RecoveryFailed" /\ (answer # None => answer.reply.ok)
  BY DEF Favourable, Recovers, NoRefusal
<1>3. CASE TakeRequest(d)
  <2>1. PendingKept /\ answer'.reply.ok /\ UNCHANGED <<outstanding_requests, state>>
    BY <1>2, <1>3, LookupPending DEF TakeRequest, subscriberVars, receiverVars, recoveryVars
  <2> QED
    BY <1>1, <1>2, <2>1, SameRequestsAlive DEF Recovers, NoRefusal
<1>4. CASE TakeData(d)
  BY <1>1, <1>2, <1>4, DataAlive DEF TakeData, publisherVars, Recovers, NoRefusal
<1>5. CASE TakeResponse(d)
  BY <1>1, <1>2, <1>5, ResponseAlive DEF TakeResponse, publisherVars, Recovers, NoRefusal
<1>6. CASE TakeUnavailable(d)
  BY <1>6 DEF TakeUnavailable, Recovers, NoRefusal
<1> QED
  BY <1>3, <1>4, <1>5, <1>6 DEF Take

LEMMA LoseRecovers ==
    ASSUME SystemInv, Recovers, NEW d \in network, Lose(d)
    PROVE  Recovers'
<1>1. /\ network' \subseteq network /\ faults' = faults + 1 /\ faults \in Nat /\ RequestsOK
      /\ UNCHANGED <<answer, outstanding_requests, state>> /\ AllAlive
  BY DEF Lose, publisherVars, subscriberVars, receiverVars, recoveryVars, SystemInv, SubscriberOK,
     ReceiverInv, Recovers
<1>2. ASSUME NEW id \in Outstanding' PROVE Alive(id, outstanding_requests[id])'
  <2>1. ASSUME NEW r, r = outstanding_requests[id] PROVE Alive(id, r)'
    <3>1. r \in ActiveReplayRequest /\ Alive(id, r)
      BY <1>1, <2>1, RequestTypes DEF AllAlive, Outstanding
    <3> QED
      BY <1>1, <3>1, AliveAfterFault DEF Alive, ActiveReplayRequest
  <2> QED
    BY <1>1, <2>1 DEF Alive
<1> QED
  BY <1>1, <1>2 DEF Recovers, NoRefusal, AllAlive

LEMMA RecoversNext ==
    ASSUME RetryTimeout > 0, ReplaysFit, SystemInv, Favourable, Recovers, [SystemNext]_systemVars
    PROVE  Recovers'
<1>1. NoRefusal
  BY DEF Recovers
<1>2. ASSUME UNCHANGED <<answer, faults, subscriberVars>>, network \subseteq network',
             \A d \in network' \ network : d.type # "REPLAY_UNAVAILABLE"
      PROVE  Recovers'
  <2>1. PendingKept /\ UNCHANGED <<outstanding_requests, state>>
    BY <1>2, NetworkGrows DEF subscriberVars, receiverVars, recoveryVars
  <2> QED
    BY <1>1, <1>2, <2>1, RecoversStays DEF NoRefusal
<1>3. ASSUME UNCHANGED <<answer, faults, receiverVars, network>> PROVE Recovers'
  <2>1. PendingKept /\ UNCHANGED <<outstanding_requests, state>>
    BY <1>3, NetworkGrows DEF receiverVars, recoveryVars
  <2> QED
    BY <1>1, <1>3, <2>1, RecoversStays DEF NoRefusal
<1>4. CASE \E len \in PayloadLengths : Publish(len)
  BY <1>2, <1>4 DEF Publish, PublishStore
<1>5. CASE Send
  BY <1>2, <1>5 DEF Send, PublishSend, DataSent, Data
<1>6. CASE SendResponse
  <2>1. /\ PendingKept /\ UNCHANGED <<outstanding_requests, state, faults>>
        /\ network' = network \cup ResponseSent /\ ReplaySendFrame
    BY <1>6, SendResponsePending DEF SendResponse, subscriberVars, receiverVars, recoveryVars
  <2>2. answer'.reply.ok
    <3>1. answer' = [request_id |-> answer.request_id,
                     reply |-> Available(Tail(answer.reply.frames))]
      BY <2>1, AnswerAfterResponse DEF SystemInv
    <3> QED
      BY <3>1 DEF Available
  <2>3. NoRefusal'
    BY <1>1, <2>1, <2>2 DEF NoRefusal, ResponseSent, ReplayResponse
  <2> QED
    BY <2>1, <2>3, RecoversStays
<1>7. CASE FinishAnswer
  <2>1. /\ UNCHANGED <<network, outstanding_requests, state, faults>> /\ answer' = None
        /\ answer.reply.frames = <<>>
    BY <1>7 DEF FinishAnswer, ReplayDone, subscriberVars, receiverVars, recoveryVars
  <2>2. \A id, s : ~ BeingAnswered(id, s)
    BY <2>1 DEF BeingAnswered
  <2>3. PendingKept
    BY <2>1, <2>2 DEF PendingKept, Pending, AskedFor, Answered
  <2> QED
    BY <1>1, <2>1, <2>3, RecoversStays DEF NoRefusal
<1>8. CASE SendRefusal
  BY <1>1, <1>8 DEF SendRefusal, ReplayRefuse, NoRefusal
<1>9. ASSUME NEW d \in network, Deliver(d) PROVE Recovers'
  BY <1>9, TakeRecovers DEF Deliver
<1>10. ASSUME NEW d \in network, Duplicate(d) PROVE Recovers'
  BY <1>10, TakeRecovers DEF Duplicate
<1>11. CASE Timeouts
  <2>1. NoRefusal'
    BY <1>1, <1>11 DEF NoRefusal, Timeouts, publisherVars, Reaching, RetriesSent, ReplayRequest
  <2> QED
    BY <1>11, <2>1, TimeoutsAlive DEF Recovers
<1>12. CASE HandOver \/ Consume \/ Leave
  BY <1>3, <1>12 DEF HandOver, TrySend, Consume, AppRecv, Leave, WorkerExit, publisherVars
<1>13. CASE TimePasses
  <2>1. NoRefusal'
    BY <1>1, <1>13 DEF NoRefusal, TimePasses, publisherVars
  <2> QED
    BY <1>13, <2>1, TickAlive DEF Recovers
<1>14. CASE UNCHANGED systemVars
  BY <1>2, <1>14 DEF systemVars, publisherVars
<1>15. ASSUME NEW d \in network, Lose(d) PROVE Recovers'
  BY <1>15, LoseRecovers
<1> QED
  BY <1>4, <1>5, <1>6, <1>7, <1>8, <1>9, <1>10, <1>11, <1>12, <1>13, <1>14, <1>15
     DEF SystemNext, ReplayThread

(* Recovery succeeds when it can (engine.rs check_timeouts, subscriber.rs  *)
(* worker, publisher.rs handle_replay_request, ring.rs get_range): while   *)
(* the frames are in the buffer and the network makes no more faults than  *)
(* there are retries, the subscriber never reports RecoveryFailed, for any *)
(* stream, capacity and number of requests.  It takes a retry timeout that *)
(* is not zero, and replays that fit their buffer.                         *)
THEOREM SystemRecoversWhatIsRetained ==
    ASSUME RetryTimeout > 0, ReplaysFit
    PROVE  SystemSpec => []RecoversWhatIsRetained
<1>1. SystemInit => RecoveryInv
  BY RecoveryInvInit
<1>2. SystemInv /\ SystemInv' /\ RecoveryInv /\ [SystemNext]_systemVars => RecoveryInv'
  BY RecoversNext, FavourableBefore DEF RecoveryInv
<1>3. RecoveryInv => RecoversWhatIsRetained
  BY DEF RecoveryInv, Favourable, Recovers, RecoversWhatIsRetained
<1> QED
  BY <1>1, <1>2, <1>3, SystemInvariant, PTL DEF SystemSpec
=============================================================================
