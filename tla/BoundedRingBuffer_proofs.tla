---------------------- MODULE BoundedRingBuffer_proofs ----------------------
(***************************************************************************)
(* Retention for every capacity and every set of frames: as long as the    *)
(* publisher pushes consecutive sequences, the buffer serves exactly the   *)
(* last Capacity of them.                                                  *)
(***************************************************************************)
EXTENDS BoundedRingBuffer, Sequences, TLAPS

(* The inductive strengthening.  Every pushed frame at or above            *)
(* min_sequence still owns its slot, the window has no holes and is no     *)
(* wider than the buffer, and what lies below it has expired.              *)
WindowBounds ==
    /\ min_sequence = None <=> max_sequence = None
    /\ max_sequence = None => pushed = {}
    /\ max_sequence # None =>
          /\ min_sequence <= max_sequence
          /\ max_sequence < min_sequence + Capacity
          /\ \A frame \in pushed :
                /\ frame.sequence <= max_sequence
                /\ frame.sequence < min_sequence => Expired(frame)

WindowContents ==
    max_sequence # None =>
        /\ \A frame \in pushed :
              frame.sequence >= min_sequence => buffer[Slot(frame.sequence)] = frame
        /\ \A s \in min_sequence .. max_sequence : \E frame \in pushed : frame.sequence = s

RingInv == RingTypeOK /\ WindowBounds /\ WindowContents

USE CapacityAssumption, FramesAssumption, NoneIsNoFrame

-----------------------------------------------------------------------------
(* Two sequences less than Capacity apart never share a slot.              *)
LEMMA SlotsDistinct ==
    ASSUME NEW a \in Nat, NEW b \in Nat, a < b, b < a + Capacity
    PROVE  Slot(a) # Slot(b)
<1>1. /\ a = Capacity * (a \div Capacity) + (a % Capacity) /\ a \div Capacity \in Nat
      /\ b = Capacity * (b \div Capacity) + (b % Capacity) /\ b \div Capacity \in Nat
      /\ a % Capacity \in Nat /\ b % Capacity \in Nat
  OBVIOUS
<1> DEFINE d == (b \div Capacity) - (a \div Capacity)
<1>2. SUFFICES ASSUME a % Capacity = b % Capacity PROVE FALSE
  BY DEF Slot
<1>3. d \in Int /\ b - a = Capacity * d
  BY <1>1, <1>2
<1>4. CASE d <= 0
  BY <1>3, <1>4
<1>5. CASE d >= 1
  <2> HIDE DEF d
  <2>1. Capacity * d >= Capacity
    BY <1>3, <1>5
  <2> QED
    BY <1>3, <2>1
<1> QED
  BY <1>3, <1>4, <1>5

LEMMA SlotInRange ==
    ASSUME NEW s \in Nat
    PROVE  Slot(s) \in Slots
BY DEF Slot, Slots

LEMMA FrameSequence ==
    ASSUME NEW frame \in Frame
    PROVE  frame.sequence \in SeqNums /\ frame.sequence \in Nat /\ frame # None
BY DEF Frame

-----------------------------------------------------------------------------
LEMMA RingInvInit == RingInit => RingInv
BY DEF RingInit, RingInv, RingTypeOK, WindowBounds, WindowContents, OptionFrame, OptionNat

LEMMA RingInvPush ==
    ASSUME RingInv, NEW frame \in Frame,
           max_sequence # None => frame.sequence = max_sequence + 1,
           Push(frame)
    PROVE  RingInv'
<1> DEFINE seq == frame.sequence
<1>1. seq \in Nat /\ frame # None
  BY FrameSequence
<1>2. Slot(seq) \in Slots
  BY <1>1, SlotInRange
<1>t. /\ buffer \in [Slots -> OptionFrame]
      /\ min_sequence \in OptionNat
      /\ max_sequence \in OptionNat
      /\ pushed \subseteq Frame
  BY DEF RingInv, RingTypeOK
<1>f. \A f \in pushed : f \in Frame /\ f.sequence \in Nat
  BY <1>t, FrameSequence
<1>n. min_sequence = None <=> max_sequence = None
  BY DEF RingInv, WindowBounds
<1>3. MinAfter(seq) \in Nat
  BY <1>1, <1>t, <1>n DEF MinAfter, OptionNat
<1>4. RingTypeOK'
  BY <1>1, <1>2, <1>3, <1>t DEF RingTypeOK, Push, OptionFrame, OptionNat
<1>5. CASE max_sequence = None
  <2>1. min_sequence' = seq /\ max_sequence' = seq /\ pushed' = {frame}
    BY <1>5, <1>n DEF RingInv, WindowBounds, Push, MinAfter
  <2>2. buffer'[Slot(seq)] = frame
    BY <1>2, <1>t DEF Push
  <2>3. WindowBounds'
    BY <1>1, <2>1 DEF WindowBounds, Expired
  <2>4. WindowContents'
    BY <1>1, <2>1, <2>2 DEF WindowContents, Slot
  <2> QED
    BY <1>4, <2>3, <2>4 DEF RingInv
<1>6. CASE max_sequence # None
  <2>1. /\ min_sequence \in Nat /\ max_sequence \in Nat
        /\ seq = max_sequence + 1 /\ max_sequence' = seq
        /\ min_sequence <= max_sequence /\ max_sequence < min_sequence + Capacity
    BY <1>6, <1>n, <1>t DEF RingInv, WindowBounds, OptionNat, Push
  <2>2. min_sequence' = IF seq - min_sequence >= Capacity THEN seq - Capacity + 1
                                                        ELSE min_sequence
    BY <2>1, <1>1 DEF Push, MinAfter
  <2>3. /\ min_sequence' \in Nat
        /\ min_sequence <= min_sequence' /\ min_sequence' <= max_sequence'
        /\ max_sequence' < min_sequence' + Capacity
        /\ min_sequence' # min_sequence => min_sequence' = seq - Capacity + 1
    BY <2>1, <2>2, <1>1
  <2>4. ASSUME NEW f \in pushed
        PROVE  /\ f.sequence <= max_sequence'
               /\ f.sequence < min_sequence' => Expired(f)'
    <3>1. f.sequence \in Nat /\ f.sequence <= max_sequence
      BY <1>6, <1>f DEF RingInv, WindowBounds
    <3>2. f.sequence < min_sequence => f.sequence + Capacity <= max_sequence
      BY <1>6 DEF RingInv, WindowBounds, Expired
    <3> QED
      BY <2>1, <2>3, <3>1, <3>2 DEF Expired
  <2>5. pushed' = pushed \cup {frame}
    BY DEF Push
  <2>6. WindowBounds'
    <3>1. min_sequence' # None /\ max_sequence' # None
      BY <2>1, <2>3, <1>1
    <3>2. frame.sequence <= max_sequence' /\ ~ (frame.sequence < min_sequence')
      BY <2>1, <2>3, <1>1
    <3>3. \A f \in pushed' : /\ f.sequence <= max_sequence'
                             /\ f.sequence < min_sequence' => Expired(f)'
      BY <2>4, <2>5, <3>2
    <3> QED
      BY <2>3, <3>1, <3>3 DEF WindowBounds
  <2>7. ASSUME NEW f \in pushed', f.sequence >= min_sequence'
        PROVE  buffer'[Slot(f.sequence)] = f
    <3>1. CASE f = frame
      BY <3>1, <1>2, <1>t DEF Push
    <3>2. CASE f \in pushed
      <4>1. f.sequence \in Nat /\ f.sequence < seq /\ seq < f.sequence + Capacity
        <5>1. f.sequence \in Nat /\ f.sequence <= max_sequence
          BY <3>2, <1>f, <1>6 DEF RingInv, WindowBounds
        <5>2. max_sequence' = seq /\ max_sequence' < min_sequence' + Capacity
          BY <2>1, <2>3
        <5>3. f.sequence < seq
          BY <5>1, <2>1
        <5>4. min_sequence' \in Nat /\ f.sequence >= min_sequence'
          BY <2>3, <2>7
        <5> QED
          BY <5>1, <5>2, <5>3, <5>4, <1>1
      <4>2. Slot(f.sequence) # Slot(seq) /\ Slot(f.sequence) \in Slots
        BY <4>1, <1>1, SlotsDistinct, SlotInRange
      <4>3. buffer[Slot(f.sequence)] = f
        BY <3>2, <4>1, <1>6, <2>1, <2>3, <2>7 DEF RingInv, WindowContents
      <4> QED
        BY <4>2, <4>3, <1>2, <1>t DEF Push
    <3> QED
      BY <3>1, <3>2, <2>5, <2>7
  <2>8. ASSUME NEW s \in min_sequence' .. max_sequence'
        PROVE  \E f \in pushed' : f.sequence = s
    <3>1. CASE s = seq
      BY <3>1, <2>5
    <3>2. CASE s # seq
      <4>1. s \in min_sequence .. max_sequence
        BY <3>2, <2>1, <2>3, <1>1
      <4> QED
        BY <4>1, <1>6, <2>5 DEF RingInv, WindowContents
    <3> QED
      BY <3>1, <3>2
  <2>9. WindowContents'
    BY <2>7, <2>8 DEF WindowContents, Slot
  <2> QED
    BY <1>4, <2>6, <2>9 DEF RingInv
<1> QED
  BY <1>5, <1>6

LEMMA RingInvClear ==
    ASSUME RingInv, Clear
    PROVE  RingInv'
BY DEF Clear, RingInv, RingTypeOK, WindowBounds, WindowContents, OptionFrame, OptionNat

LEMMA RingInvNext == RingInv /\ [RingNext]_ringVars => RingInv'
<1> SUFFICES ASSUME RingInv, [RingNext]_ringVars PROVE RingInv'
  OBVIOUS
<1>1. CASE InOrderPush
  BY <1>1, RingInvPush DEF InOrderPush
<1>2. CASE Clear
  BY <1>2, RingInvClear
<1>3. CASE UNCHANGED ringVars
  BY <1>3 DEF ringVars, RingInv, RingTypeOK, WindowBounds, WindowContents, Expired, Slot
<1> QED
  BY <1>1, <1>2, <1>3 DEF RingNext

(* The strengthening holds of every behaviour that pushes in order.        *)
THEOREM RingInvariant == RingSpec => []RingInv
BY RingInvInit, RingInvNext, PTL DEF RingSpec

(* The buffer's state keeps its types (ring.rs): in particular the slot    *)
(* index stays in range and min_sequence never underflows.                 *)
THEOREM RingTypeCorrect == RingSpec => []RingTypeOK
<1>1. RingInv => RingTypeOK
  BY DEF RingInv
<1> QED
  BY <1>1, RingInvariant, PTL

-----------------------------------------------------------------------------
(* What get returns in a state of the invariant: the one pushed frame of   *)
(* that sequence inside the window, None outside it.                       *)
LEMMA GetInside ==
    ASSUME RingInv, max_sequence # None, NEW s \in min_sequence .. max_sequence
    PROVE  Get(s) \in pushed /\ Get(s).sequence = s /\ Get(s) # None
<1>1. min_sequence \in Nat /\ max_sequence \in Nat /\ min_sequence # None
  BY DEF RingInv, RingTypeOK, WindowBounds, OptionNat
<1>2. PICK frame \in pushed : frame.sequence = s
  BY DEF RingInv, WindowContents
<1>3. s \in Nat /\ s >= min_sequence /\ s <= max_sequence
  BY <1>1
<1>4. buffer[Slot(s)] = frame
  BY <1>2, <1>3 DEF RingInv, WindowContents
<1>5. frame # None
  BY FrameSequence DEF RingInv, RingTypeOK
<1> QED
  BY <1>1, <1>2, <1>3, <1>4, <1>5 DEF Get

LEMMA GetOutside ==
    ASSUME RingInv, NEW s \in Nat,
           max_sequence # None => s < min_sequence \/ s > max_sequence
    PROVE  Get(s) = None
BY DEF Get, RingInv, RingTypeOK, WindowBounds, OptionNat

(* A pushed frame is unexpired exactly when it lies in the window.         *)
LEMMA WindowIsUnexpired ==
    ASSUME RingInv, NEW frame \in pushed
    PROVE  /\ max_sequence \in Nat /\ min_sequence \in Nat /\ frame.sequence \in Nat
           /\ max_sequence # None
           /\ ~ Expired(frame) <=> frame.sequence \in min_sequence .. max_sequence
<1>1. frame \in Frame /\ frame.sequence \in Nat
  BY FrameSequence DEF RingInv, RingTypeOK
<1>2. max_sequence # None
  BY DEF RingInv, WindowBounds
<1>3. max_sequence \in Nat /\ min_sequence \in Nat
  BY <1>2 DEF RingInv, RingTypeOK, WindowBounds, OptionNat
<1>4. /\ frame.sequence <= max_sequence
      /\ frame.sequence < min_sequence => Expired(frame)
      /\ max_sequence < min_sequence + Capacity
  BY <1>2 DEF RingInv, WindowBounds
<1>5. Expired(frame) => frame.sequence < min_sequence
  BY <1>1, <1>3, <1>4 DEF Expired
<1> QED
  BY <1>1, <1>2, <1>3, <1>4, <1>5

LEMMA RingInvRetainsNewest == RingInv => RetainsNewest
<1> SUFFICES ASSUME RingInv, NEW frame \in pushed
             PROVE  Get(frame.sequence) = IF Expired(frame) THEN None ELSE frame
  BY DEF RetainsNewest
<1>1. CASE Expired(frame)
  BY <1>1, WindowIsUnexpired, GetOutside
<1>2. CASE ~ Expired(frame)
  <2>1. frame.sequence \in min_sequence .. max_sequence
    BY <1>2, WindowIsUnexpired
  <2>2. buffer[Slot(frame.sequence)] = frame
    BY <2>1, WindowIsUnexpired DEF RingInv, WindowContents
  <2>3. frame # None
    BY FrameSequence DEF RingInv, RingTypeOK
  <2>4. min_sequence # None
    BY WindowIsUnexpired
  <2> QED
    BY <1>2, <2>1, <2>2, <2>3, <2>4, WindowIsUnexpired DEF Get
<1> QED
  BY <1>1, <1>2

(* Retention (ring.rs push, get): whatever the capacity, get returns every *)
(* pushed frame until Capacity newer ones have been pushed, and None from  *)
(* then on.                                                                *)
THEOREM RetentionTheorem == RingSpec => []RetainsNewest
BY RingInvariant, RingInvRetainsNewest, PTL

-----------------------------------------------------------------------------
(* The four outcomes of get_range; the per-sequence error return of the    *)
(* code's loop is unreachable in a state of the invariant.                 *)
LEMMA GetRangeEmpty ==
    ASSUME RingInv, max_sequence = None, NEW from \in SeqNums, NEW to \in SeqNums
    PROVE  GetRange(from, to) = Unavailable(1, to)
<1>1. from \in Nat /\ to \in Nat /\ to > 0 /\ from > 0
  OBVIOUS
<1>2. min_sequence = None
  BY DEF RingInv, WindowBounds
<1> QED
  BY <1>1, <1>2 DEF GetRange, UnwrapOr0

LEMMA GetRangeBelow ==
    ASSUME RingInv, max_sequence # None, NEW from \in SeqNums, NEW to \in SeqNums,
           from < min_sequence
    PROVE  GetRange(from, to) = Unavailable(from, min_sequence - 1)
<1>1. from \in Nat /\ min_sequence \in Nat
  BY DEF RingInv, RingTypeOK, WindowBounds, OptionNat
<1> QED
  BY <1>1 DEF GetRange, UnwrapOr0, SaturatingPred

LEMMA GetRangeAbove ==
    ASSUME RingInv, max_sequence # None, NEW from \in SeqNums, NEW to \in SeqNums,
           from >= min_sequence, to > max_sequence
    PROVE  GetRange(from, to) = Unavailable(max_sequence + 1, to)
<1>1. from \in Nat /\ to \in Nat /\ min_sequence \in Nat /\ max_sequence \in Nat
  BY DEF RingInv, RingTypeOK, WindowBounds, OptionNat
<1> QED
  BY <1>1 DEF GetRange, UnwrapOr0

LEMMA GetRangeWithin ==
    ASSUME RingInv, max_sequence # None, NEW from \in SeqNums, NEW to \in SeqNums,
           from >= min_sequence, to <= max_sequence
    PROVE  GetRange(from, to) =
              Available([i \in 1 .. (to + 1 - from) |-> Get(from + i - 1)])
<1>1. from \in Nat /\ to \in Nat /\ min_sequence \in Nat /\ max_sequence \in Nat
  BY DEF RingInv, RingTypeOK, WindowBounds, OptionNat
<1>2. {s \in from .. to : Get(s) = None} = {}
  BY <1>1, GetInside
<1> QED
  BY <1>1, <1>2 DEF GetRange, UnwrapOr0

LEMMA RingInvRangeIsWhole == RingInv => RangeIsWholeOrRefused
<1> SUFFICES ASSUME RingInv, NEW from \in SeqNums, NEW to \in SeqNums, from <= to
             PROVE  LET reply == GetRange(from, to)
                        live  == {f \in pushed : ~ Expired(f)}
                    IN  /\ reply.ok <=> \A s \in from .. to : \E f \in live : f.sequence = s
                        /\ reply.ok => \A i \in 1 .. (to + 1 - from) :
                                          /\ reply.frames[i] \in live
                                          /\ reply.frames[i].sequence = from + i - 1
  BY DEF RangeIsWholeOrRefused
<1> DEFINE live == {f \in pushed : ~ Expired(f)}
<1>1. from \in Nat /\ to \in Nat /\ from \in from .. to /\ to \in from .. to
  OBVIOUS
<1>2. \A f \in live : /\ max_sequence # None
                      /\ f.sequence \in min_sequence .. max_sequence
  BY WindowIsUnexpired
<1>3. CASE max_sequence = None
  <2>1. ~ GetRange(from, to).ok
    BY <1>3, GetRangeEmpty DEF Unavailable
  <2>2. live = {}
    BY <1>2, <1>3
  <2> QED
    BY <1>1, <2>1, <2>2
<1>4. CASE max_sequence # None
  <2>1. min_sequence \in Nat /\ max_sequence \in Nat
    BY <1>4 DEF RingInv, RingTypeOK, WindowBounds, OptionNat
  <2>2. CASE from < min_sequence \/ to > max_sequence
    <3>1. ~ GetRange(from, to).ok
      BY <1>1, <1>4, <2>1, <2>2, GetRangeBelow, GetRangeAbove DEF Unavailable
    <3>2. \E s \in from .. to : s \notin min_sequence .. max_sequence
      BY <1>1, <2>1, <2>2
    <3>3. ~ \A s \in from .. to : \E f \in live : f.sequence = s
      BY <1>2, <3>2
    <3> QED
      BY <3>1, <3>3
  <2>3. CASE from >= min_sequence /\ to <= max_sequence
    <3>1. GetRange(from, to) =
             [ok |-> TRUE,
              frames |-> [i \in 1 .. (to + 1 - from) |-> Get(from + i - 1)]]
      BY <1>4, <2>3, GetRangeWithin DEF Available
    <3>2. ASSUME NEW s \in from .. to
          PROVE  Get(s) \in live /\ Get(s).sequence = s
      <4>1. s \in min_sequence .. max_sequence
        BY <1>1, <2>1, <2>3
      <4>2. Get(s) \in pushed /\ Get(s).sequence = s
        BY <1>4, <4>1, GetInside
      <4> QED
        BY <4>1, <4>2, WindowIsUnexpired
    <3>3. ASSUME NEW i \in 1 .. (to + 1 - from)
          PROVE  /\ GetRange(from, to).frames[i] \in live
                 /\ GetRange(from, to).frames[i].sequence = from + i - 1
      <4>1. from + i - 1 \in from .. to
        BY <1>1
      <4>2. GetRange(from, to).frames[i] = Get(from + i - 1)
        BY <3>1
      <4> QED
        BY <3>2, <4>1, <4>2
    <3> QED
      BY <3>1, <3>2, <3>3
  <2> QED
    BY <1>1, <2>1, <2>2, <2>3
<1> QED
  BY <1>3, <1>4

LEMMA RingInvRefusal == RingInv => RefusalIsAccurate
<1> SUFFICES ASSUME RingInv, NEW from \in SeqNums, NEW to \in SeqNums, from <= to,
                    ~ GetRange(from, to).ok
             PROVE  LET reply == GetRange(from, to)
                    IN  /\ reply.first <= reply.last
                        /\ reply.first <= to
                        /\ reply.last >= from
                        /\ \A s \in reply.first .. reply.last : Get(s) = None
  BY DEF RefusalIsAccurate
<1>1. from \in Nat /\ to \in Nat /\ from > 0
  OBVIOUS
<1>2. CASE max_sequence = None
  <2>1. GetRange(from, to) = Unavailable(1, to)
    BY <1>2, GetRangeEmpty
  <2>2. \A s \in 1 .. to : Get(s) = None
    BY <1>1, <1>2, GetOutside
  <2> QED
    BY <1>1, <2>1, <2>2 DEF Unavailable
<1>3. CASE max_sequence # None
  <2>1. min_sequence \in Nat /\ max_sequence \in Nat
    BY <1>3 DEF RingInv, RingTypeOK, WindowBounds, OptionNat
  <2>2. CASE from < min_sequence
    <3>1. GetRange(from, to) = Unavailable(from, min_sequence - 1)
      BY <1>3, <2>2, GetRangeBelow
    <3>2. \A s \in from .. (min_sequence - 1) : Get(s) = None
      BY <1>1, <2>1, GetOutside
    <3> QED
      BY <1>1, <2>1, <2>2, <3>1, <3>2 DEF Unavailable
  <2>3. CASE from >= min_sequence /\ to > max_sequence
    <3>1. GetRange(from, to) = Unavailable(max_sequence + 1, to)
      BY <1>3, <2>3, GetRangeAbove
    <3>2. \A s \in (max_sequence + 1) .. to : Get(s) = None
      BY <1>1, <2>1, GetOutside
    <3> QED
      BY <1>1, <2>1, <2>3, <3>1, <3>2 DEF Unavailable
  <2>4. CASE from >= min_sequence /\ to <= max_sequence
    BY <1>3, <2>4, GetRangeWithin DEF Available
  <2> QED
    BY <1>1, <2>1, <2>2, <2>3, <2>4
<1> QED
  BY <1>2, <1>3

(* Replay ranges (ring.rs get_range): a range is served iff every sequence *)
(* of it is still retained, and then complete and in ascending order.      *)
THEOREM RangeTheorem == RingSpec => []RangeIsWholeOrRefused
BY RingInvariant, RingInvRangeIsWhole, PTL

(* Refusals (ring.rs get_range): the range reported as unavailable meets   *)
(* the request and holds no sequence the buffer could have served.         *)
THEOREM RefusalTheorem == RingSpec => []RefusalIsAccurate
BY RingInvariant, RingInvRefusal, PTL

-----------------------------------------------------------------------------
(* What the replay thread gets: the frames of the whole range, or a        *)
(* refusal.                                                                *)
ServedReply == [ok : {TRUE}, frames : Seq(Frame)]

RefusedReply == [ok : {FALSE}, first : Nat, last : Nat]

LEMMA RefusalType ==
    ASSUME NEW first \in Nat, NEW last \in Nat
    PROVE  Unavailable(first, last) \in RefusedReply
BY DEF Unavailable, RefusedReply

LEMMA GetRangeReply ==
    ASSUME RingInv, NEW from \in SeqNums, NEW to \in SeqNums, from <= to
    PROVE  \/ GetRange(from, to) \in RefusedReply
           \/ /\ GetRange(from, to) \in ServedReply
              /\ Len(GetRange(from, to).frames) = to + 1 - from
              /\ \A i \in 1 .. (to + 1 - from) :
                    /\ GetRange(from, to).frames[i] \in pushed
                    /\ GetRange(from, to).frames[i].sequence = from + i - 1
<1>1. from \in Nat /\ to \in Nat /\ to + 1 - from \in Nat
  BY FramesAssumption
<1>2. CASE max_sequence = None
  BY <1>1, <1>2, GetRangeEmpty, RefusalType
<1>3. CASE max_sequence # None
  <2>1. min_sequence \in Nat /\ max_sequence \in Nat
    BY <1>3 DEF RingInv, RingTypeOK, WindowBounds, OptionNat
  <2>2. CASE from < min_sequence
    BY <1>1, <1>3, <2>1, <2>2, GetRangeBelow, RefusalType, min_sequence - 1 \in Nat
  <2>3. CASE from >= min_sequence /\ to > max_sequence
    BY <1>1, <1>3, <2>1, <2>3, GetRangeAbove, RefusalType, max_sequence + 1 \in Nat
  <2>4. CASE from >= min_sequence /\ to <= max_sequence
    <3> DEFINE frames == [i \in 1 .. (to + 1 - from) |-> Get(from + i - 1)]
    <3>1. GetRange(from, to) = [ok |-> TRUE, frames |-> frames]
      BY <1>3, <2>4, GetRangeWithin DEF Available
    <3>2. \A i \in 1 .. (to + 1 - from) :
             frames[i] \in pushed /\ frames[i].sequence = from + i - 1
      <4>1. GetRange(from, to).ok /\ GetRange(from, to).frames = frames
        BY <3>1
      <4> HIDE DEF frames
      <4> QED
        BY <4>1, RingInvRangeIsWhole DEF RangeIsWholeOrRefused
    <3>3. pushed \subseteq Frame
      BY DEF RingInv, RingTypeOK
    <3>4. frames \in Seq(Frame) /\ Len(frames) = to + 1 - from
      BY <1>1, <3>2, <3>3
    <3> HIDE DEF frames
    <3> QED
      BY <3>1, <3>2, <3>4 DEF ServedReply
  <2> QED
    BY <1>1, <2>1, <2>2, <2>3, <2>4
<1> QED
  BY <1>2, <1>3

-----------------------------------------------------------------------------
(* The buffer implements the window.                                       *)
Served == {frame \in Frame : Get(frame.sequence) = frame}

ServesUnexpired == Served = {f \in pushed : ~ Expired(f)}

LEMMA RingInvServesUnexpired == RingInv => ServesUnexpired
<1> SUFFICES ASSUME RingInv PROVE ServesUnexpired
  OBVIOUS
<1>1. ASSUME NEW f \in pushed
      PROVE  f \in Frame /\ (Get(f.sequence) = f <=> ~ Expired(f))
  <2>1. f \in Frame /\ f # None
    BY FrameSequence DEF RingInv, RingTypeOK
  <2>2. Get(f.sequence) = IF Expired(f) THEN None ELSE f
    BY RingInvRetainsNewest DEF RetainsNewest
  <2> QED
    BY <2>1, <2>2
<1>2. ASSUME NEW f \in Frame, Get(f.sequence) = f
      PROVE  f \in pushed
  <2>1. f.sequence \in Nat /\ f # None
    BY FrameSequence
  <2>2. /\ max_sequence # None /\ min_sequence # None
        /\ f.sequence >= min_sequence /\ f.sequence <= max_sequence
    BY <1>2, <2>1 DEF Get
  <2>3. min_sequence \in Nat /\ max_sequence \in Nat
    BY <2>2 DEF RingInv, RingTypeOK, OptionNat
  <2>4. f.sequence \in min_sequence .. max_sequence
    BY <2>1, <2>2, <2>3
  <2> QED
    BY <1>2, <2>2, <2>4, GetInside
<1> QED
  BY <1>1, <1>2 DEF Served, ServesUnexpired

LEMMA RingInvServesUnexpiredNext == RingInv' => ServesUnexpired'
BY RingInvServesUnexpired, PTL

LEMMA PushIsStore ==
    ASSUME RingInv, RingInv', NEW frame \in Frame,
           max_sequence # None => frame.sequence = max_sequence + 1,
           Push(frame)
    PROVE  Window!Store(frame)
<1>1. frame.sequence \in Nat
  BY FrameSequence
<1>2. /\ Served = {f \in pushed : ~ Expired(f)}
      /\ Served' = {f \in pushed' : ~ Expired(f)'}
  BY RingInvServesUnexpired, RingInvServesUnexpiredNext DEF ServesUnexpired
<1>3. pushed' = pushed \cup {frame} /\ max_sequence' = frame.sequence
  BY DEF Push
<1>4. ASSUME NEW f \in pushed
      PROVE  /\ f.sequence \in Nat /\ max_sequence \in Nat
             /\ f.sequence <= max_sequence /\ frame.sequence = max_sequence + 1
  BY WindowIsUnexpired DEF RingInv, WindowBounds
<1>5. \A older \in Served : older.sequence < frame.sequence
  BY <1>1, <1>2, <1>4
<1>6. Served' = {f \in Served \cup {frame} : f.sequence + Capacity > frame.sequence}
  <2>1. ASSUME NEW f \in pushed
        PROVE  /\ f.sequence + Capacity > frame.sequence <=> ~ Expired(f)'
               /\ f.sequence + Capacity > frame.sequence => ~ Expired(f)
    BY <1>1, <1>3, <1>4 DEF Expired
  <2>2. ~ Expired(frame)' /\ frame.sequence + Capacity > frame.sequence
    BY <1>1, <1>3 DEF Expired
  <2> QED
    BY <1>2, <1>3, <2>1, <2>2
<1>7. Served # {} => \E newest \in Served : frame.sequence = newest.sequence + 1
  <2> SUFFICES ASSUME Served # {}
               PROVE  \E newest \in Served : frame.sequence = newest.sequence + 1
    OBVIOUS
  <2>1. PICK f \in pushed : TRUE
    BY <1>2
  <2>2. /\ max_sequence \in Nat /\ max_sequence # None
        /\ max_sequence \in min_sequence .. max_sequence
    BY <2>1, WindowIsUnexpired DEF RingInv, WindowBounds
  <2>3. PICK newest \in pushed : newest.sequence = max_sequence
    BY <2>2 DEF RingInv, WindowContents
  <2>4. ~ Expired(newest)
    BY <2>2, <2>3 DEF Expired
  <2> QED
    BY <1>2, <2>2, <2>3, <2>4
<1> QED
  BY <1>5, <1>6, <1>7 DEF Window!Store, Served

(* The refinement (ring.rs against the window of the newest frames): for   *)
(* every capacity, seen through get, a push is the storing of one frame    *)
(* and the loss of at most the one Capacity older, and a clear forgets     *)
(* everything.                                                             *)
THEOREM RingImplementsWindow == RingSpec => ImplementsWindow
<1>1. RingInit => Window!Init
  BY DEF RingInit, Window!Init, Get
<1>2. RingInv /\ RingInv' /\ [RingNext]_ringVars => [Window!Next]_Served
  <2> SUFFICES ASSUME RingInv, RingInv', [RingNext]_ringVars
               PROVE  [Window!Next]_Served
    OBVIOUS
  <2>1. CASE InOrderPush
    BY <2>1, PushIsStore DEF InOrderPush, Window!Next
  <2>2. CASE Clear
    BY <2>2 DEF Clear, Get, Window!Next, Window!Forget
  <2>3. CASE UNCHANGED ringVars
    BY <2>3 DEF ringVars, Served, Get, Slot
  <2> QED
    BY <2>1, <2>2, <2>3 DEF RingNext
<1> QED
  BY <1>1, <1>2, RingInvariant, PTL DEF RingSpec, ImplementsWindow, Window!Spec, Served
=============================================================================
