------------------------ MODULE PublisherCalls_proofs -----------------------
(***************************************************************************)
(* The publisher keeps the buffer's contract (consecutive pushes, a clear  *)
(* at every restart), so the buffer's theorems hold of the publisher; and  *)
(* what it has sent it can replay.                                         *)
(***************************************************************************)
EXTENDS PublisherCalls, BoundedRingBuffer_proofs, SequenceTheorems

USE PublisherAssumption, MaxAskedAssumption

(* The next sequence follows the last one pushed.                          *)
CounterFollowsRing ==
    /\ sequence_counter \in Nat \ {0}
    /\ max_sequence # None => sequence_counter = max_sequence + 1

(* Where a sent frame comes from: the frame in hand is stored under the    *)
(* current identity, and so is every DATA frame sent under it; what was    *)
(* sent under another identity was sent under a retired one.               *)
SentFrames ==
    /\ unsent # None => unsent \in pushed /\ unsent.publisher_id = publisher_id
    /\ publisher_id \notin retired
    /\ \A d \in wire :
          d.type = "DATA" =>
              /\ d.frame.publisher_id \in retired \cup {publisher_id}
              /\ d.frame.publisher_id = publisher_id => d.frame \in pushed

PublisherInv == PublisherTypeOK /\ RingInv /\ CounterFollowsRing /\ SentFrames

-----------------------------------------------------------------------------
(* Every step of the publisher is a step of the buffer's contract.         *)
LEMMA StoreIsInOrderPush ==
    ASSUME CounterFollowsRing, NEW len \in PayloadLengths, StoreCall(len)
    PROVE  InOrderPush
BY DEF CounterFollowsRing, StoreCall, PublishStore, InOrderPush

LEMMA PublisherStepIsRingStep ==
    ASSUME CounterFollowsRing, [PublisherNext]_publisherCallsVars
    PROVE  [RingNext]_ringVars
<1>1. CASE \E len \in PayloadLengths : StoreCall(len)
  BY <1>1, StoreIsInOrderPush DEF RingNext
<1>2. CASE \E id \in PublisherIds : RestartCall(id)
  BY <1>2 DEF RestartCall, Restart, RingNext
<1>3. CASE SendCall \/ FailCall
  BY <1>3 DEF SendCall, PublishSend, FailCall, PublishFails, ringVars
<1>4. CASE \E from, to \in SeqNums : from <= to /\ LookupStep(from, to)
  BY <1>4 DEF LookupStep, ReplayLookup, ringVars
<1>5. CASE SendFrameStep \/ DoneStep \/ RefuseStep
  BY <1>5 DEF SendFrameStep, ReplaySendFrame, DoneStep, ReplayDone, RefuseStep,
              ReplayRefuse, ringVars
<1>6. CASE UNCHANGED publisherCallsVars
  BY <1>6 DEF publisherCallsVars, publisherVars, ringVars
<1> QED
  BY <1>1, <1>2, <1>3, <1>4, <1>5, <1>6 DEF PublisherNext

-----------------------------------------------------------------------------
LEMMA PublisherInvInit == PublisherCallsInit => PublisherInv
<1> SUFFICES ASSUME PublisherCallsInit PROVE PublisherInv
  OBVIOUS
<1>1. RingInv
  BY RingInvInit DEF PublisherCallsInit, PublisherInit
<1>2. PublisherTypeOK /\ CounterFollowsRing /\ SentFrames
  BY <1>1 DEF PublisherCallsInit, PublisherInit, RingInit, RingInv, PublisherTypeOK, CounterFollowsRing,
              SentFrames, OptionFrame
<1> QED
  BY <1>1, <1>2 DEF PublisherInv

LEMMA PublisherInvStore ==
    ASSUME PublisherInv, NEW len \in PayloadLengths, StoreCall(len)
    PROVE  PublisherTypeOK' /\ CounterFollowsRing' /\ SentFrames'
<1> DEFINE frame == [publisher_id |-> publisher_id, sequence |-> sequence_counter,
                     payload_length |-> len]
<1>1. RingInv'
  BY StoreIsInOrderPush, RingInvNext DEF PublisherInv, RingNext
<1>2. /\ frame \in Frame /\ frame.sequence = sequence_counter
      /\ frame.publisher_id = publisher_id /\ frame # None
      /\ Push(frame) /\ unsent' = frame /\ sequence_counter' = sequence_counter + 1
      /\ UNCHANGED <<publisher_id, retired, wire>>
  <2>1. /\ frame \in Frame
        /\ Push(frame) /\ unsent' = frame /\ sequence_counter' = sequence_counter + 1
        /\ UNCHANGED <<publisher_id, retired, wire>>
    BY DEF StoreCall, PublishStore
  <2>2. frame.sequence = sequence_counter /\ frame.publisher_id = publisher_id
    OBVIOUS
  <2>3. frame # None
    BY <2>1, NoneIsNoFrame
  <2> QED
    BY <2>1, <2>2, <2>3
<1>3. pushed' = pushed \cup {frame} /\ max_sequence' = sequence_counter
  BY <1>2 DEF Push
<1>4. PublisherTypeOK'
  BY <1>1, <1>2 DEF PublisherInv, PublisherTypeOK, RingInv, OptionFrame
<1>5. CounterFollowsRing'
  BY <1>2, <1>3 DEF PublisherInv, CounterFollowsRing
<1>6. SentFrames'
  BY <1>2, <1>3 DEF PublisherInv, SentFrames
<1> QED
  BY <1>4, <1>5, <1>6

LEMMA PublisherInvSend ==
    ASSUME PublisherInv, SendCall
    PROVE  PublisherTypeOK' /\ CounterFollowsRing' /\ SentFrames'
<1>1. PublisherTypeOK' /\ CounterFollowsRing'
  BY DEF PublisherInv, PublisherTypeOK, CounterFollowsRing, SendCall, PublishSend, ringVars,
         RingTypeOK, OptionFrame
<1>2. SentFrames'
  BY DEF PublisherInv, SentFrames, SendCall, DataSent, PublishSend, ringVars, Data
<1> QED
  BY <1>1, <1>2

LEMMA PublisherInvRestart ==
    ASSUME PublisherInv, NEW id \in PublisherIds, RestartCall(id)
    PROVE  PublisherTypeOK' /\ CounterFollowsRing' /\ SentFrames'
<1>1. RingInv'
  BY RingInvClear DEF PublisherInv, RestartCall, Restart
<1>2. PublisherTypeOK' /\ CounterFollowsRing'
  BY <1>1 DEF PublisherInv, PublisherTypeOK, CounterFollowsRing, RestartCall, Restart, Clear, RingInv
<1>3. SentFrames'
  BY DEF PublisherInv, SentFrames, RestartCall, Restart
<1> QED
  BY <1>2, <1>3

(* Steps that add no DATA datagram and leave buffer and counter alone.     *)
LEMMA PublisherInvFrame ==
    ASSUME PublisherInv, UNCHANGED <<ringVars, publisher_id, sequence_counter, retired>>,
           unsent' \in {unsent, None},
           \A d \in wire' \ wire : d.type # "DATA"
    PROVE  PublisherTypeOK' /\ CounterFollowsRing' /\ SentFrames'
<1>1. PublisherTypeOK' /\ CounterFollowsRing'
  BY DEF PublisherInv, PublisherTypeOK, CounterFollowsRing, ringVars, RingTypeOK, OptionFrame
<1>2. SentFrames'
  BY DEF PublisherInv, SentFrames, ringVars
<1> QED
  BY <1>1, <1>2

LEMMA PublisherInvNext == PublisherInv /\ [PublisherNext]_publisherCallsVars => PublisherInv'
<1> SUFFICES ASSUME PublisherInv, [PublisherNext]_publisherCallsVars PROVE PublisherInv'
  OBVIOUS
<1>1. RingInv'
  BY PublisherStepIsRingStep, RingInvNext DEF PublisherInv
<1>2. PublisherTypeOK' /\ CounterFollowsRing' /\ SentFrames'
  <2>1. CASE \E len \in PayloadLengths : StoreCall(len)
    BY <2>1, PublisherInvStore
  <2>2. CASE SendCall
    BY <2>2, PublisherInvSend
  <2>3. CASE FailCall
    BY <2>3, PublisherInvFrame DEF FailCall, PublishFails
  <2>4. CASE \E id \in PublisherIds : RestartCall(id)
    BY <2>4, PublisherInvRestart
  <2>5. CASE \E from, to \in SeqNums : from <= to /\ LookupStep(from, to)
    BY <2>5, PublisherInvFrame DEF LookupStep, ReplayLookup, appVars
  <2>6. CASE SendFrameStep
    <3>1. \A d \in wire' \ wire : d.type # "DATA"
      BY <2>6 DEF SendFrameStep, ResponseSent, ReplayResponse
    <3> QED
      BY <2>6, <3>1, PublisherInvFrame DEF SendFrameStep, ReplaySendFrame, appVars
  <2>7. CASE DoneStep
    BY <2>7, PublisherInvFrame DEF DoneStep, ReplayDone, appVars
  <2>8. CASE RefuseStep
    <3>1. \A d \in wire' \ wire : d.type # "DATA"
      BY <2>8 DEF RefuseStep, RefusalSent, ReplayUnavailable
    <3> QED
      BY <2>8, <3>1, PublisherInvFrame DEF RefuseStep, ReplayRefuse, appVars
  <2>9. CASE UNCHANGED publisherCallsVars
    BY <2>9, PublisherInvFrame DEF publisherCallsVars, publisherVars, appVars
  <2> QED
    BY <2>1, <2>2, <2>3, <2>4, <2>5, <2>6, <2>7, <2>8, <2>9 DEF PublisherNext
<1> QED
  BY <1>1, <1>2 DEF PublisherInv

-----------------------------------------------------------------------------
(* The publisher's invariant, with the buffer's window invariant in it.    *)
THEOREM PublisherInvariant == PublisherSpec => []PublisherInv
BY PublisherInvInit, PublisherInvNext, PTL DEF PublisherSpec

(* The publisher implements the buffer's contract (publisher.rs publish,   *)
(* restart_with_new_publisher_id against ring.rs): pushes are consecutive  *)
(* and numbering restarts only with a clear, so every theorem about        *)
(* RingSpec holds of the running publisher.                                *)
THEOREM PublisherImplementsRing == PublisherSpec => KeepsRingContract
<1>1. PublisherCallsInit => RingInit
  BY DEF PublisherCallsInit, PublisherInit
<1>2. PublisherInv /\ [PublisherNext]_publisherCallsVars => [RingNext]_ringVars
  BY PublisherStepIsRingStep DEF PublisherInv
<1> QED
  BY <1>1, <1>2, PublisherInvariant, PTL DEF PublisherSpec, KeepsRingContract, RingSpec

(* Hence the running publisher, its two threads and its restarts included, *)
(* retains exactly the newest Capacity frames of its current identity      *)
(* (publisher.rs, ring.rs).                                                *)
THEOREM PublisherImplementsWindow == PublisherSpec => ImplementsWindow
BY PublisherImplementsRing, RingImplementsWindow DEF KeepsRingContract

(* The publisher's state keeps its types (publisher.rs).                   *)
THEOREM PublisherTypeCorrect == PublisherSpec => []PublisherTypeOK
<1>1. PublisherInv => PublisherTypeOK
  BY DEF PublisherInv
<1> QED
  BY <1>1, PublisherInvariant, PTL

(* Store before send (publisher.rs publish): for every capacity, every     *)
(* DATA frame of the current identity on the wire can be fetched until     *)
(* Capacity newer frames have been stored.                                 *)
THEOREM SentIsStoredTheorem == PublisherSpec => []SentIsStored
<1>1. ASSUME PublisherInv PROVE SentIsStored
  <2>1. RetainsNewest
    BY <1>1, RingInvRetainsNewest DEF PublisherInv
  <2> QED
    BY <1>1, <2>1 DEF PublisherInv, SentFrames, SentIsStored, RetainsNewest
<1> QED
  BY <1>1, PublisherInvariant, PTL

-----------------------------------------------------------------------------
(* What the replay thread has in hand: a whole range of stored frames, or  *)
(* a refusal.                                                              *)
AnswerTypeOK ==
    answer # None => answer \in [request_id : Nat, reply : ServedReply \cup RefusedReply]

LEMMA RestOfAnswer ==
    ASSUME NEW a \in [request_id : Nat, reply : ServedReply]
    PROVE  [a EXCEPT !.reply = Available(Tail(@.frames))] =
              [request_id |-> a.request_id, reply |-> Available(Tail(a.reply.frames))]
BY DEF ServedReply

(* The frames the replay thread has yet to send.                           *)
AnswerFrames ==
    IF answer # None /\ answer.reply.ok
    THEN {answer.reply.frames[i] : i \in 1 .. Len(answer.reply.frames)}
    ELSE {}

(* Every frame that is or may still get onto the wire.                     *)
CarriesFrame(d) == d.type \in {"DATA", "REPLAY_RESPONSE"}

Circulating == {d.frame : d \in {e \in wire : CarriesFrame(e)}} \cup AnswerFrames

SameKey(f, g) == f.publisher_id = g.publisher_id /\ f.sequence = g.sequence

(* The buffer holds one frame per sequence, all of the current identity    *)
(* and below the counter; what circulates is stored or belongs to an       *)
(* identity that is over, and no key circulates twice.                     *)
OneFramePerKey ==
    /\ \A f \in pushed : f.publisher_id = publisher_id /\ f.sequence < sequence_counter
    /\ \A f, g \in pushed : f.sequence = g.sequence => f = g
    /\ \A f \in Circulating : f.publisher_id \in retired \/ f \in pushed
    /\ \A f, g \in Circulating : SameKey(f, g) => f = g

KeyInv == AnswerTypeOK /\ OneFramePerKey

LEMMA KeyInvInit == PublisherCallsInit => KeyInv
BY DEF PublisherCallsInit, PublisherInit, RingInit, KeyInv, AnswerTypeOK, OneFramePerKey,
       Circulating, AnswerFrames

(* Nothing new circulates but stored frames.                               *)
LEMMA KeyInvCirculating ==
    ASSUME PublisherInv, OneFramePerKey,
           UNCHANGED <<ringVars, publisher_id, sequence_counter, retired>>,
           Circulating' \subseteq Circulating \cup pushed
    PROVE  OneFramePerKey'
<1>1. pushed' = pushed /\ publisher_id' = publisher_id /\ retired' = retired
      /\ sequence_counter' = sequence_counter
  BY DEF ringVars
<1>2. publisher_id \notin retired
  BY DEF PublisherInv, SentFrames
<1>3. \A f \in Circulating' : f.publisher_id \in retired \/ f \in pushed
  BY DEF OneFramePerKey
<1>4. ASSUME NEW f \in Circulating', NEW g \in Circulating', SameKey(f, g)
      PROVE  f = g
  <2>1. CASE f \in pushed \/ g \in pushed
    <3>1. f \in pushed /\ g \in pushed
      BY <1>2, <1>3, <1>4, <2>1 DEF OneFramePerKey, SameKey
    <3> QED
      BY <1>4, <3>1 DEF OneFramePerKey, SameKey
  <2>2. CASE f \notin pushed /\ g \notin pushed
    BY <1>4, <2>2 DEF OneFramePerKey
  <2> QED
    BY <2>1, <2>2
<1> QED
  BY <1>1, <1>3, <1>4 DEF OneFramePerKey, SameKey

LEMMA KeyInvStore ==
    ASSUME PublisherInv, KeyInv, NEW len \in PayloadLengths, StoreCall(len)
    PROVE  KeyInv'
<1> DEFINE frame == [publisher_id |-> publisher_id, sequence |-> sequence_counter,
                     payload_length |-> len]
<1>1. /\ pushed' = pushed \cup {frame} /\ sequence_counter' = sequence_counter + 1
      /\ UNCHANGED <<publisher_id, retired, answer, wire>>
  BY DEF StoreCall, PublishStore, Push
<1>2. sequence_counter \in Nat /\ \A f \in pushed : f.sequence \in Nat
  BY FrameSequence DEF PublisherInv, PublisherTypeOK, RingTypeOK
<1>3. frame.publisher_id = publisher_id /\ frame.sequence = sequence_counter
  OBVIOUS
<1> HIDE DEF frame
<1>4. Circulating' = Circulating
  BY <1>1 DEF Circulating, AnswerFrames, CarriesFrame
<1>5. \A f \in pushed' : f.publisher_id = publisher_id /\ f.sequence < sequence_counter'
  BY <1>1, <1>2, <1>3 DEF KeyInv, OneFramePerKey
<1>6. \A f, g \in pushed' : f.sequence = g.sequence => f = g
  BY <1>1, <1>2, <1>3 DEF KeyInv, OneFramePerKey
<1>7. \A f \in Circulating' : f.publisher_id \in retired \/ f \in pushed'
  BY <1>1, <1>4 DEF KeyInv, OneFramePerKey
<1>8. \A f, g \in Circulating' : SameKey(f, g) => f = g
  BY <1>4 DEF KeyInv, OneFramePerKey
<1> QED
  BY <1>1, <1>5, <1>6, <1>7, <1>8 DEF KeyInv, AnswerTypeOK, OneFramePerKey, SameKey

LEMMA KeyInvRestart ==
    ASSUME PublisherInv, KeyInv, NEW id \in PublisherIds, RestartCall(id)
    PROVE  KeyInv'
<1>1. pushed' = {} /\ retired' = retired \cup {publisher_id} /\ UNCHANGED <<answer, wire>>
  BY DEF RestartCall, Restart, Clear
<1>2. Circulating' = Circulating
  BY <1>1 DEF Circulating, AnswerFrames, CarriesFrame
<1> QED
  BY <1>1, <1>2 DEF KeyInv, AnswerTypeOK, OneFramePerKey, SameKey

LEMMA KeyInvSend == ASSUME PublisherInv, KeyInv, SendCall PROVE KeyInv'
<1>1. /\ unsent \in pushed /\ wire' = wire \cup {Data(unsent)}
      /\ UNCHANGED <<ringVars, publisher_id, sequence_counter, retired, answer>>
  BY DEF SendCall, PublishSend, DataSent, PublisherInv, SentFrames
<1>2. Circulating' \subseteq Circulating \cup pushed
  <2>1. AnswerFrames' = AnswerFrames
    BY <1>1 DEF AnswerFrames
  <2>2. Data(unsent).frame = unsent
    BY DEF Data
  <2> QED
    BY <1>1, <2>1, <2>2 DEF Circulating, CarriesFrame
<1> QED
  BY <1>1, <1>2, KeyInvCirculating DEF KeyInv, AnswerTypeOK

(* The answer a lookup leaves behind.                                      *)
LEMMA LookupAnswer ==
    ASSUME PublisherInv, NEW from \in SeqNums, NEW to \in SeqNums, from <= to,
           LookupStep(from, to)
    PROVE  /\ answer' = [request_id |-> Len(asked) + 1, reply |-> GetRange(from, to)]
           /\ answer'.request_id = Len(asked) + 1 /\ answer'.reply = GetRange(from, to)
           /\ AnswerTypeOK' \/ Len(asked) + 1 \notin Nat
           /\ AnswerFrames' \subseteq pushed
           /\ answer'.reply.ok \in BOOLEAN
           /\ answer' # None /\ answer'.reply.ok =>
                 \A s \in from .. to : \E f \in AnswerFrames' : f.sequence = s
<1>1. answer' = [request_id |-> Len(asked) + 1, reply |-> GetRange(from, to)]
  BY DEF LookupStep, ReplayLookup
<1>2. answer'.request_id = Len(asked) + 1 /\ answer'.reply = GetRange(from, to)
  BY <1>1
<1>3. from \in Nat /\ to \in Nat /\ RingInv
  BY FramesAssumption DEF PublisherInv
<1>4. CASE GetRange(from, to) \in RefusedReply
  <2>1. answer'.reply.ok = FALSE
    BY <1>2, <1>4 DEF RefusedReply
  <2> QED
    BY <1>1, <1>2, <1>4, <2>1 DEF AnswerTypeOK, AnswerFrames
<1>5. CASE /\ GetRange(from, to) \in ServedReply
           /\ Len(GetRange(from, to).frames) = to + 1 - from
           /\ \A i \in 1 .. (to + 1 - from) :
                 /\ GetRange(from, to).frames[i] \in pushed
                 /\ GetRange(from, to).frames[i].sequence = from + i - 1
  <2> DEFINE frames == GetRange(from, to).frames
  <2>1. answer'.reply.ok = TRUE /\ answer'.reply.frames = frames
    BY <1>2, <1>5 DEF ServedReply
  <2>2. AnswerFrames' \subseteq {frames[i] : i \in 1 .. (to + 1 - from)}
    BY <1>5, <2>1 DEF AnswerFrames
  <2>3. answer' # None => AnswerFrames' = {frames[i] : i \in 1 .. (to + 1 - from)}
    BY <1>5, <2>1 DEF AnswerFrames
  <2>4. \A s \in from .. to : \E i \in 1 .. (to + 1 - from) : from + i - 1 = s
    <3>1. ASSUME NEW s \in from .. to
          PROVE  s + 1 - from \in 1 .. (to + 1 - from) /\ from + (s + 1 - from) - 1 = s
      BY <1>3
    <3> QED
      BY <3>1
  <2> HIDE DEF frames
  <2>5. AnswerFrames' \subseteq pushed
    BY <1>5, <2>2 DEF frames
  <2>6. \A s \in from .. to : \E i \in 1 .. (to + 1 - from) : frames[i].sequence = s
    BY <1>5, <2>4 DEF frames
  <2>7. answer' # None => \A s \in from .. to : \E f \in AnswerFrames' : f.sequence = s
    BY <2>3, <2>6
  <2> QED
    BY <1>1, <1>2, <1>5, <2>1, <2>5, <2>7 DEF AnswerTypeOK
<1> QED
  BY <1>3, <1>4, <1>5, GetRangeReply

LEMMA KeyInvLookup ==
    ASSUME PublisherInv, KeyInv, asked \in Seq([from : SeqNums, to : SeqNums]),
           NEW from \in SeqNums, NEW to \in SeqNums, from <= to, LookupStep(from, to)
    PROVE  KeyInv'
<1>1. UNCHANGED <<ringVars, publisher_id, sequence_counter, retired, wire>>
  BY DEF LookupStep, ReplayLookup, appVars
<1>2. Len(asked) + 1 \in Nat
  BY LenProperties
<1>3. AnswerTypeOK' /\ AnswerFrames' \subseteq pushed
  BY <1>2, LookupAnswer
<1>4. Circulating' \subseteq Circulating \cup pushed
  BY <1>1, <1>3 DEF Circulating, CarriesFrame
<1> QED
  BY <1>1, <1>3, <1>4, KeyInvCirculating DEF KeyInv

(* The first of the frames in hand goes out, the others stay.              *)
LEMMA SendFrameAnswer ==
    ASSUME AnswerTypeOK, SendFrameStep
    PROVE  /\ answer \in [request_id : Nat, reply : ServedReply]
           /\ AnswerTypeOK'
           /\ answer'.request_id = answer.request_id /\ answer'.reply.ok
           /\ Head(answer.reply.frames) \in AnswerFrames
           /\ AnswerFrames' \subseteq AnswerFrames
           /\ answer' # None => AnswerFrames \subseteq AnswerFrames' \cup {Head(answer.reply.frames)}
           /\ Head(answer.reply.frames) \in Frame
<1> DEFINE frames == answer.reply.frames
<1>1. answer # None /\ answer.reply.ok /\ frames # <<>>
      /\ answer' = [answer EXCEPT !.reply = Available(Tail(@.frames))]
  BY DEF SendFrameStep, ReplaySendFrame
<1>2. answer \in [request_id : Nat, reply : ServedReply]
  BY <1>1 DEF AnswerTypeOK, ServedReply, RefusedReply
<1>3. frames \in Seq(Frame) /\ answer.request_id \in Nat
  BY <1>2 DEF ServedReply
<1>4. answer' = [request_id |-> answer.request_id, reply |-> Available(Tail(frames))]
  BY <1>1, <1>2, RestOfAnswer
<1>5. answer'.request_id = answer.request_id /\ answer'.reply = Available(Tail(frames))
  BY <1>4
<1>6. /\ Head(frames) \in Frame /\ Tail(frames) \in Seq(Frame)
      /\ Head(frames) = frames[1] /\ Len(frames) \in Nat \ {0}
      /\ Len(Tail(frames)) = Len(frames) - 1
      /\ \A i \in 1 .. Len(frames) - 1 : Tail(frames)[i] = frames[i + 1]
  BY <1>1, <1>3, HeadTailProperties, EmptySeq
<1>7. Available(Tail(frames)) \in ServedReply /\ Available(Tail(frames)).ok
      /\ Available(Tail(frames)).frames = Tail(frames)
  BY <1>6 DEF Available, ServedReply
<1>8. AnswerTypeOK'
  BY <1>3, <1>4, <1>7 DEF AnswerTypeOK
<1>9. AnswerFrames = {frames[i] : i \in 1 .. Len(frames)}
  BY <1>1 DEF AnswerFrames
<1>10. AnswerFrames' = IF answer' # None THEN {Tail(frames)[i] : i \in 1 .. Len(frames) - 1} ELSE {}
  <2>1. answer'.reply.ok = TRUE /\ answer'.reply.frames = Tail(frames)
    BY <1>5, <1>7 DEF Available
  <2>2. AnswerFrames' = IF answer' # None
                        THEN {answer'.reply.frames[i] : i \in 1 .. Len(answer'.reply.frames)} ELSE {}
    BY <2>1 DEF AnswerFrames
  <2> HIDE DEF frames
  <2> QED
    BY <1>6, <2>1, <2>2
<1> HIDE DEF frames
<1>11. \A i \in 1 .. Len(frames) - 1 : i + 1 \in 1 .. Len(frames)
  BY <1>6
<1>12. \A i \in 1 .. Len(frames) : i = 1 \/ (i - 1 \in 1 .. Len(frames) - 1 /\ (i - 1) + 1 = i)
  BY <1>6
<1>13. Head(frames) \in AnswerFrames
  BY <1>6, <1>9
<1>14. AnswerFrames' \subseteq AnswerFrames
  BY <1>6, <1>9, <1>10, <1>11
<1>15. answer' # None => AnswerFrames \subseteq AnswerFrames' \cup {Head(frames)}
  <2> SUFFICES ASSUME answer' # None, NEW i \in 1 .. Len(frames)
               PROVE  frames[i] \in AnswerFrames' \cup {Head(frames)}
    BY <1>9
  <2>1. CASE i = 1
    BY <1>6, <2>1
  <2>2. CASE i # 1
    <3>1. i - 1 \in 1 .. Len(frames) - 1 /\ (i - 1) + 1 = i
      BY <1>12, <2>2
    <3>2. Tail(frames)[i - 1] = frames[i]
      BY <1>6, <3>1
    <3> QED
      BY <1>10, <3>1, <3>2
  <2> QED
    BY <2>1, <2>2
<1> QED
  BY <1>2, <1>5, <1>6, <1>7, <1>8, <1>13, <1>14, <1>15 DEF frames

LEMMA KeyInvSendFrame == ASSUME PublisherInv, KeyInv, SendFrameStep PROVE KeyInv'
<1>1. UNCHANGED <<ringVars, publisher_id, sequence_counter, retired>>
  BY DEF SendFrameStep, ReplaySendFrame, appVars
<1>2. /\ AnswerTypeOK' /\ AnswerFrames' \subseteq AnswerFrames
      /\ Head(answer.reply.frames) \in AnswerFrames
  BY SendFrameAnswer DEF KeyInv
<1>3. \A d \in wire' \ wire : d.frame = Head(answer.reply.frames)
  BY DEF SendFrameStep, ResponseSent, ReplayResponse
<1>4. Circulating' \subseteq Circulating
  BY <1>2, <1>3 DEF Circulating, CarriesFrame
<1> QED
  BY <1>1, <1>2, <1>4, KeyInvCirculating DEF KeyInv

(* The requests: what was asked, which of it is answered, and the one in   *)
(* hand.                                                                   *)
RequestTypeOK ==
    /\ asked \in Seq([from : SeqNums, to : SeqNums])
    /\ \A id \in DOMAIN asked : asked[id].from <= asked[id].to
    /\ answered \subseteq DOMAIN asked
    /\ answer # None => answer.request_id \in DOMAIN asked

LEMMA RequestTypeInit == PublisherCallsInit => RequestTypeOK
BY DEF PublisherCallsInit, PublisherInit, RequestTypeOK

LEMMA RequestTypeNext ==
    ASSUME PublisherInv, AnswerTypeOK, RequestTypeOK, [PublisherNext]_publisherCallsVars
    PROVE  RequestTypeOK'
<1>1. ASSUME NEW from \in SeqNums, NEW to \in SeqNums, from <= to, LookupStep(from, to)
      PROVE  RequestTypeOK'
  <2> DEFINE request == [from |-> from, to |-> to]
  <2>1. asked' = Append(asked, request) /\ UNCHANGED <<wire, answered>>
    BY <1>1 DEF LookupStep
  <2>2. request \in [from : SeqNums, to : SeqNums] /\ request.from <= request.to
    BY <1>1
  <2> HIDE DEF request
  <2>3. /\ asked' \in Seq([from : SeqNums, to : SeqNums]) /\ Len(asked) \in Nat
        /\ DOMAIN asked = 1 .. Len(asked) /\ DOMAIN asked' = 1 .. (Len(asked) + 1)
        /\ \A i \in 1 .. Len(asked) : asked'[i] = asked[i]
        /\ asked'[Len(asked) + 1] = request
    BY <2>1, <2>2, AppendProperties, LenProperties DEF RequestTypeOK
  <2>4. answer'.request_id = Len(asked) + 1
    BY <1>1, LookupAnswer
  <2>5. Len(asked) + 1 \in DOMAIN asked' /\ DOMAIN asked \subseteq DOMAIN asked'
        /\ \A i \in DOMAIN asked' : i \in DOMAIN asked \/ i = Len(asked) + 1
    BY <2>3
  <2>6. \A id \in DOMAIN asked' : asked'[id].from <= asked'[id].to
    BY <2>2, <2>3, <2>5 DEF RequestTypeOK
  <2> QED
    BY <2>1, <2>3, <2>4, <2>5, <2>6 DEF RequestTypeOK
<1>2. ASSUME UNCHANGED asked, answer' = None \/ (answer # None /\ answer'.request_id = answer.request_id),
             answered' \subseteq answered \cup (IF answer = None THEN {} ELSE {answer.request_id})
      PROVE  RequestTypeOK'
  BY <1>2 DEF RequestTypeOK
<1>3. SendFrameStep => RequestTypeOK'
  BY <1>2, SendFrameAnswer DEF SendFrameStep, ReplaySendFrame
<1>4. DoneStep \/ RefuseStep => RequestTypeOK'
  BY <1>2 DEF DoneStep, ReplayDone, RefuseStep, ReplayRefuse
<1>5. UNCHANGED <<answer, asked, answered>> => RequestTypeOK'
  BY DEF RequestTypeOK
<1>6. /\ \A len \in PayloadLengths : StoreCall(len) => UNCHANGED <<answer, asked, answered>>
      /\ SendCall => UNCHANGED <<answer, asked, answered>>
      /\ FailCall => UNCHANGED <<answer, asked, answered>>
      /\ \A id \in PublisherIds : RestartCall(id) => UNCHANGED <<answer, asked, answered>>
      /\ UNCHANGED publisherCallsVars => UNCHANGED <<answer, asked, answered>>
  BY DEF StoreCall, PublishStore, SendCall, PublishSend, FailCall, PublishFails, RestartCall, Restart,
         publisherCallsVars, publisherVars
<1> QED
  BY <1>1, <1>3, <1>4, <1>5, <1>6 DEF PublisherNext

LEMMA KeyInvNext ==
    ASSUME PublisherInv, KeyInv, RequestTypeOK, [PublisherNext]_publisherCallsVars
    PROVE  KeyInv'
<1>1. ASSUME UNCHANGED <<ringVars, publisher_id, sequence_counter, retired>>,
             \A d \in wire' \ wire : ~ CarriesFrame(d),
             answer' = None \/ answer' = answer
      PROVE  KeyInv'
  <2>1. AnswerTypeOK' /\ AnswerFrames' \subseteq AnswerFrames
    BY <1>1 DEF KeyInv, AnswerTypeOK, AnswerFrames
  <2>2. Circulating' \subseteq Circulating
    BY <1>1, <2>1 DEF Circulating, CarriesFrame
  <2> QED
    BY <1>1, <2>1, <2>2, KeyInvCirculating DEF KeyInv
<1>2. FailCall => KeyInv'
  BY <1>1 DEF FailCall, PublishFails
<1>3. DoneStep => KeyInv'
  BY <1>1 DEF DoneStep, ReplayDone, appVars
<1>4. RefuseStep => KeyInv'
  <2> SUFFICES ASSUME RefuseStep PROVE KeyInv'
    OBVIOUS
  <2>1. \A d \in wire' \ wire : d.type = "REPLAY_UNAVAILABLE"
    BY DEF RefuseStep, RefusalSent, ReplayUnavailable
  <2> QED
    BY <1>1, <2>1 DEF RefuseStep, ReplayRefuse, appVars, CarriesFrame
<1>5. UNCHANGED publisherCallsVars => KeyInv'
  BY <1>1 DEF publisherCallsVars, publisherVars, appVars
<1>6. \A from, to \in SeqNums : from <= to /\ LookupStep(from, to) => KeyInv'
  BY KeyInvLookup DEF RequestTypeOK
<1> QED
  BY <1>2, <1>3, <1>4, <1>5, <1>6, KeyInvStore, KeyInvSend, KeyInvRestart, KeyInvSendFrame
     DEF PublisherNext

-----------------------------------------------------------------------------
(* An answer in progress: what is not on the wire yet is in hand.          *)
SentFor(id) == {d \in wire : d.type # "DATA" /\ d.request_id = id}

RepliedWith(id, s) == \E d \in SentFor(id) : d.type = "REPLAY_RESPONSE" /\ d.frame.sequence = s

AnswerInHand ==
    answer # None /\ answer.reply.ok =>
        \A s \in asked[answer.request_id].from .. asked[answer.request_id].to :
            RepliedWith(answer.request_id, s) \/ \E f \in AnswerFrames : f.sequence = s

AnswerInv == AnswerInHand /\ AnswerIsWholeOrRefused

(* Every payload fits the replay thread's buffer with a request id in      *)
(* front of it, and so does the refusal.                                   *)
AllFit ==
    /\ \A len \in PayloadLengths : Encodable(len + RequestIdSize, ReplayBufferSize)
    /\ Encodable(24, ReplayBufferSize)

(* What is on the wire stays there.                                        *)
LEMMA RepliedStays ==
    ASSUME wire \subseteq wire', NEW id, NEW s, RepliedWith(id, s)
    PROVE  RepliedWith(id, s)'
BY DEF RepliedWith, SentFor

LEMMA ResponseReplies ==
    ASSUME NEW id, NEW frame, ReplayResponse(id, frame) \in wire'
    PROVE  RepliedWith(id, frame.sequence)'
<1>1. /\ ReplayResponse(id, frame).type = "REPLAY_RESPONSE"
      /\ ReplayResponse(id, frame).request_id = id
      /\ ReplayResponse(id, frame).frame = frame
  BY DEF ReplayResponse
<1> QED
  BY <1>1 DEF RepliedWith, SentFor

LEMMA WholeStays ==
    ASSUME AnswerIsWholeOrRefused, RequestTypeOK, wire \subseteq wire',
           \A id \in DOMAIN asked : asked'[id] = asked[id],
           \A id \in answered' \ answered :
              \/ \E d \in SentFor(id)' : d.type = "REPLAY_UNAVAILABLE"
              \/ \A s \in (asked[id].from .. asked[id].to)' : RepliedWith(id, s)'
    PROVE  AnswerIsWholeOrRefused'
<1> SUFFICES ASSUME NEW id \in answered'
             PROVE  \/ \E d \in SentFor(id)' : d.type = "REPLAY_UNAVAILABLE"
                    \/ \A s \in (asked[id].from .. asked[id].to)' : RepliedWith(id, s)'
  BY DEF AnswerIsWholeOrRefused, SentFor, RepliedWith
<1>1. CASE id \in answered
  <2>1. asked'[id] = asked[id]
    BY <1>1 DEF RequestTypeOK
  <2>2. \/ \E d \in SentFor(id) : d.type = "REPLAY_UNAVAILABLE"
        \/ \A s \in asked[id].from .. asked[id].to : RepliedWith(id, s)
    BY <1>1 DEF AnswerIsWholeOrRefused, SentFor, RepliedWith
  <2>3. SentFor(id) \subseteq SentFor(id)'
    BY DEF SentFor
  <2> QED
    BY <2>1, <2>2, <2>3, RepliedStays
<1>2. CASE id \notin answered
  BY <1>2
<1> QED
  BY <1>1, <1>2

LEMMA AnswerInvNext ==
    ASSUME AllFit, PublisherInv, KeyInv, RequestTypeOK, AnswerInv,
           [PublisherNext]_publisherCallsVars
    PROVE  AnswerInv'
<1>1. ASSUME UNCHANGED <<answer, asked, answered>>, wire \subseteq wire'
      PROVE  AnswerInv'
  <2>1. AnswerIsWholeOrRefused'
    BY <1>1, WholeStays DEF AnswerInv
  <2>2. AnswerInHand'
    <3>1. AnswerFrames' = AnswerFrames
      BY <1>1 DEF AnswerFrames
    <3> QED
      BY <1>1, <3>1, RepliedStays DEF AnswerInv, AnswerInHand
  <2> QED
    BY <2>1, <2>2 DEF AnswerInv
<1>2. /\ \A len \in PayloadLengths : StoreCall(len) => AnswerInv'
      /\ SendCall => AnswerInv'
      /\ FailCall => AnswerInv'
      /\ \A id \in PublisherIds : RestartCall(id) => AnswerInv'
      /\ UNCHANGED publisherCallsVars => AnswerInv'
  BY <1>1 DEF StoreCall, PublishStore, SendCall, PublishSend, FailCall, PublishFails, RestartCall, Restart,
         publisherCallsVars, publisherVars
<1>3. ASSUME NEW from \in SeqNums, NEW to \in SeqNums, from <= to, LookupStep(from, to)
      PROVE  AnswerInv'
  <2>1. asked' = Append(asked, [from |-> from, to |-> to]) /\ UNCHANGED <<wire, answered>>
    BY <1>3 DEF LookupStep
  <2>2. /\ \A i \in DOMAIN asked : asked'[i] = asked[i]
        /\ asked'[Len(asked) + 1] = [from |-> from, to |-> to]
    BY <2>1, AppendProperties, LenProperties DEF RequestTypeOK
  <2>3. AnswerIsWholeOrRefused'
    BY <2>1, <2>2, WholeStays DEF AnswerInv
  <2>4. /\ answer'.request_id = Len(asked) + 1
        /\ answer' # None /\ answer'.reply.ok =>
              \A s \in from .. to : \E f \in AnswerFrames' : f.sequence = s
    BY <1>3, LookupAnswer
  <2>5. asked'[answer'.request_id].from = from /\ asked'[answer'.request_id].to = to
    BY <2>2, <2>4
  <2>6. AnswerInHand'
    BY <2>4, <2>5 DEF AnswerInHand
  <2> QED
    BY <2>3, <2>6 DEF AnswerInv
<1>4. ASSUME SendFrameStep PROVE AnswerInv'
  <2> DEFINE frame == Head(answer.reply.frames)
  <2>1. /\ answer' # None => AnswerFrames \subseteq AnswerFrames' \cup {frame}
        /\ answer'.request_id = answer.request_id /\ answer.reply.ok /\ answer # None
        /\ frame \in Frame
    BY <1>4, SendFrameAnswer DEF KeyInv, SendFrameStep, ReplaySendFrame
  <2>2. UNCHANGED <<asked, answered>> /\ wire' = wire \cup ResponseSent
    BY <1>4 DEF SendFrameStep
  <2>3. ResponseSent = {ReplayResponse(answer.request_id, frame)}
    BY <2>1 DEF ResponseSent, AllFit, Frame
  <2>4. /\ ReplayResponse(answer.request_id, frame).type = "REPLAY_RESPONSE"
        /\ ReplayResponse(answer.request_id, frame).request_id = answer.request_id
        /\ ReplayResponse(answer.request_id, frame).frame = frame
    BY DEF ReplayResponse
  <2> HIDE DEF frame
  <2>5. ASSUME NEW s, s = frame.sequence PROVE RepliedWith(answer.request_id, s)'
    BY <2>1, <2>2, <2>3, <2>4, <2>5, ResponseReplies
  <2>6. AnswerInHand'
    <3> SUFFICES ASSUME answer' # None,
                        NEW s \in asked[answer.request_id].from .. asked[answer.request_id].to
                 PROVE  RepliedWith(answer.request_id, s)' \/ \E f \in AnswerFrames' : f.sequence = s
      BY <2>1, <2>2 DEF AnswerInHand
    <3>1. RepliedWith(answer.request_id, s) \/ \E f \in AnswerFrames : f.sequence = s
      BY <2>1 DEF AnswerInv, AnswerInHand
    <3>2. CASE RepliedWith(answer.request_id, s)
      BY <2>1, <2>2, <3>2, RepliedStays
    <3>3. CASE \E f \in AnswerFrames : f.sequence = s
      BY <2>1, <2>5, <3>3
    <3> QED
      BY <3>1, <3>2, <3>3
  <2>7. AnswerIsWholeOrRefused'
    BY <2>2, WholeStays DEF AnswerInv
  <2> QED
    BY <2>6, <2>7 DEF AnswerInv
<1>5. ASSUME DoneStep PROVE AnswerInv'
  <2>1. /\ answer # None /\ answer.reply.ok /\ answer.reply.frames = <<>> /\ answer' = None
        /\ answered' = answered \cup {answer.request_id} /\ UNCHANGED <<wire, asked>>
    BY <1>5 DEF DoneStep, ReplayDone
  <2>2. AnswerFrames = {}
    BY <2>1 DEF AnswerFrames
  <2>3. \A s \in asked[answer.request_id].from .. asked[answer.request_id].to :
           RepliedWith(answer.request_id, s)
    BY <2>1, <2>2 DEF AnswerInv, AnswerInHand
  <2>4. \A id \in answered' \ answered :
           \A s \in (asked[id].from .. asked[id].to)' : RepliedWith(id, s)'
    BY <2>1, <2>3, RepliedStays
  <2> QED
    BY <2>1, <2>4, WholeStays DEF AnswerInv, AnswerInHand
<1>6. ASSUME RefuseStep PROVE AnswerInv'
  <2> DEFINE refusal == ReplayUnavailable(answer.request_id, answer.reply.first, answer.reply.last)
  <2>1. /\ answer # None /\ answer' = None /\ wire' = wire \cup {refusal}
        /\ answered' = answered \cup {answer.request_id} /\ UNCHANGED asked
    BY <1>6 DEF RefuseStep, ReplayRefuse, RefusalSent, AllFit
  <2>2. refusal.type = "REPLAY_UNAVAILABLE" /\ refusal.request_id = answer.request_id
    BY DEF ReplayUnavailable
  <2> HIDE DEF refusal
  <2>3. \A id \in answered' \ answered : \E d \in SentFor(id)' : d.type = "REPLAY_UNAVAILABLE"
    BY <2>1, <2>2 DEF SentFor
  <2> QED
    BY <2>1, <2>3, WholeStays DEF AnswerInv, AnswerInHand
<1> QED
  BY <1>2, <1>3, <1>4, <1>5, <1>6 DEF PublisherNext

-----------------------------------------------------------------------------
(* Both invariants, with the requests' types.                              *)
ReplayInv == KeyInv /\ RequestTypeOK

(* The frames that circulate, in the buffer, in the replay thread's clone  *)
(* and on the wire (publisher.rs publish, handle_replay_request), agree on *)
(* their keys, and requests keep their types.                              *)
THEOREM ReplayInvariant == PublisherSpec => []ReplayInv
<1>1. PublisherCallsInit => ReplayInv
  BY KeyInvInit, RequestTypeInit DEF ReplayInv
<1>2. PublisherInv /\ ReplayInv /\ [PublisherNext]_publisherCallsVars => ReplayInv'
  BY KeyInvNext, RequestTypeNext DEF ReplayInv, KeyInv
<1> QED
  BY <1>1, <1>2, PublisherInvariant, PTL DEF PublisherSpec

(* One frame per key (publisher.rs publish, restart_with_new_publisher_id, *)
(* handle_replay_request; RTDP-1.md:35): for every capacity, payload size  *)
(* and number of restarts, no two datagrams carry different frames under   *)
(* one publisher_id and sequence, also when an answer outlives a restart.  *)
THEOREM KeyIdentifiesTheorem == PublisherSpec => []KeyIdentifiesFrame
<1>1. ReplayInv => KeyIdentifiesFrame
  BY DEF ReplayInv, KeyInv, OneFramePerKey, KeyIdentifiesFrame, Circulating, CarriesFrame, SameKey
<1> QED
  BY <1>1, ReplayInvariant, PTL

(* Whole or refused (handle_replay_request): when every payload fits       *)
(* the replay thread's buffer, an answered request was refused or every    *)
(* frame of its range was sent, whatever the application's thread does     *)
(* between the lookup and the last frame.  Without the hypothesis it is    *)
(* false: a frame too large for the buffer is skipped (answer_whole).      *)
THEOREM WholeOrRefusedTheorem ==
    ASSUME AllFit PROVE PublisherSpec => []AnswerIsWholeOrRefused
<1>1. PublisherCallsInit => AnswerInv
  BY DEF PublisherCallsInit, PublisherInit, AnswerInv, AnswerInHand, AnswerIsWholeOrRefused
<1>2. PublisherInv /\ ReplayInv /\ AnswerInv /\ [PublisherNext]_publisherCallsVars => AnswerInv'
  BY AnswerInvNext DEF ReplayInv
<1>3. AnswerInv => AnswerIsWholeOrRefused
  BY DEF AnswerInv
<1> QED
  BY <1>1, <1>2, <1>3, PublisherInvariant, ReplayInvariant, PTL DEF PublisherSpec
=============================================================================
