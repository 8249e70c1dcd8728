----------------------- MODULE StreamReceiver_proofs ------------------------
(***************************************************************************)
(* What the receiver's operations do to its state, for every configuration *)
(* and every frame: the facts the proofs about its callers rest on.        *)
(***************************************************************************)
EXTENDS StreamReceiver, FiniteSetTheorems, SequenceTheorems, WellFoundedInduction, TLAPS

USE FramesAssumption, RecoveryAssumption, DedupCapacityAssumption, ModesAssumption

-----------------------------------------------------------------------------
(* Numbers and finite sets.                                                *)
LEMMA LeastNatural ==
    ASSUME NEW T \in SUBSET Nat, T # {}
    PROVE  \E x \in T : \A y \in T : x <= y
<1> DEFINE R == OpToRel(<, Nat)
<1>1. IsWellFoundedOn(R, Nat)
  BY NatLessThanWellFounded
<1>2. PICK x \in T : \A y \in T : ~ (<<y, x>> \in R)
  <2> HIDE DEF R
  <2> QED
    BY <1>1, WFMin
<1>3. \A y \in T : ~ (y < x)
  BY <1>2 DEF OpToRel
<1> QED
  BY <1>3

(* Counting up from any number, one meets a number a finite set lacks.     *)
LEMMA LeastMissing ==
    ASSUME NEW B, IsFiniteSet(B), NEW start \in Nat
    PROVE  \E e \in Nat : e >= start /\ e \notin B /\ \A s \in start .. e - 1 : s \in B
<1> DEFINE T == {e \in Nat : e >= start /\ e \notin B}
<1>1. T # {}
  <2> SUFFICES ASSUME T = {} PROVE FALSE
    OBVIOUS
  <2>1. PICK n \in Nat : n = Cardinality(B)
    BY FS_CardinalityType
  <2>2. start .. start + n \subseteq B
    OBVIOUS
  <2>3. Cardinality(start .. start + n) = n + 1
    BY FS_Interval
  <2>4. Cardinality(start .. start + n) <= n
    BY <2>1, <2>2, FS_Subset
  <2> QED
    BY <2>3, <2>4
<1>2. PICK e \in T : \A y \in T : e <= y
  <2>1. T \in SUBSET Nat
    OBVIOUS
  <2> HIDE DEF T
  <2> QED
    BY <1>1, <2>1, LeastNatural
<1> QED
  BY <1>2

(* A finite set of numbers has a largest element: a smallest set without   *)
(* one would still lack one after losing an element.                       *)
HasLargest(S) == \E x \in S : \A y \in S : x >= y

LEMMA LargestOfFinite ==
    ASSUME NEW S \in SUBSET Nat, IsFiniteSet(S), S # {}
    PROVE  HasLargest(S)
<1> DEFINE Bad(n) == \E T \in SUBSET Nat :
                        IsFiniteSet(T) /\ T # {} /\ Cardinality(T) = n /\ ~ HasLargest(T)
<1> SUFFICES ASSUME ~ HasLargest(S) PROVE FALSE
  OBVIOUS
<1>1. {n \in Nat : Bad(n)} # {}
  BY FS_CardinalityType
<1>2. PICK n \in Nat : Bad(n) /\ \A m \in Nat : Bad(m) => n <= m
  <2> DEFINE B == {m \in Nat : Bad(m)}
  <2>1. PICK n \in B : \A m \in B : n <= m
    <3>1. B \in SUBSET Nat
      OBVIOUS
    <3> HIDE DEF B
    <3> QED
      BY <1>1, <3>1, LeastNatural DEF B
  <2> QED
    BY <2>1
<1>3. PICK T \in SUBSET Nat :
         IsFiniteSet(T) /\ T # {} /\ Cardinality(T) = n /\ ~ HasLargest(T)
  BY <1>2
<1>4. PICK x \in T : TRUE
  BY <1>3
<1>5. /\ T \ {x} \in SUBSET Nat /\ IsFiniteSet(T \ {x}) /\ Cardinality(T \ {x}) = n - 1
      /\ n - 1 \in Nat
  <2>1. IsFiniteSet(T \ {x}) /\ Cardinality(T \ {x}) = n - 1
    BY <1>3, <1>4, FS_RemoveElement
  <2>2. Cardinality(T \ {x}) \in Nat
    BY <2>1, FS_CardinalityType
  <2> QED
    BY <1>3, <2>1, <2>2
<1>6. CASE T \ {x} = {}
  <2>1. \A y \in T : x >= y
    BY <1>3, <1>6
  <2> QED
    BY <1>3, <1>4, <2>1 DEF HasLargest
<1>7. CASE HasLargest(T \ {x})
  <2>1. PICK y \in T \ {x} : \A z \in T \ {x} : y >= z
    BY <1>7 DEF HasLargest
  <2>2. x \in Nat /\ y \in Nat /\ y \in T /\ T \subseteq Nat
    BY <1>3, <1>4, <2>1
  <2>3. CASE x >= y
    BY <1>3, <1>4, <2>1, <2>2, <2>3 DEF HasLargest
  <2>4. CASE y >= x
    BY <1>3, <1>4, <2>1, <2>2, <2>4 DEF HasLargest
  <2> QED
    BY <2>2, <2>3, <2>4
<1>8. CASE T \ {x} # {} /\ ~ HasLargest(T \ {x})
  <2>1. Bad(n - 1)
    BY <1>5, <1>8
  <2> HIDE DEF Bad
  <2>2. n <= n - 1
    BY <1>2, <1>5, <2>1
  <2> QED
    BY <2>2
<1> QED
  BY <1>6, <1>7, <1>8

LEMMA MaxOfFinite ==
    ASSUME NEW S \in SUBSET Nat, IsFiniteSet(S), S # {}
    PROVE  Max(S) \in S /\ \A y \in S : Max(S) >= y
BY LargestOfFinite DEF HasLargest, Max

-----------------------------------------------------------------------------
(* BTreeMap order: the i-th value is the one of the key with i - 1 keys    *)
(* below it, and every key has such a place.                               *)
Rank(D, k) == Cardinality({j \in D : j < k})

LEMMA RankOrder ==
    ASSUME NEW D \in SUBSET Nat, IsFiniteSet(D), NEW k \in D
    PROVE  /\ Rank(D, k) \in 0 .. Cardinality(D) - 1
           /\ \A l \in D : k < l => Rank(D, k) < Rank(D, l)
<1>1. \A l \in D : IsFiniteSet({j \in D : j < l}) /\ Rank(D, l) \in Nat
  <2> SUFFICES ASSUME NEW l \in D
               PROVE  IsFiniteSet({j \in D : j < l}) /\ Rank(D, l) \in Nat
    OBVIOUS
  <2>1. {j \in D : j < l} \in SUBSET D
    OBVIOUS
  <2> QED
    BY <2>1, FS_Subset, FS_CardinalityType DEF Rank
<1>2. ASSUME NEW S \in SUBSET D, NEW l \in D, {j \in D : j < l} \subseteq S, l \in S
      PROVE  Rank(D, l) < Cardinality(S)
  <2> DEFINE B == {j \in D : j < l}
  <2>1. IsFiniteSet(S) /\ Cardinality(S) \in Nat
    BY FS_Subset, FS_CardinalityType
  <2>2. B \in SUBSET S /\ B # S
    BY <1>2
  <2>3. Cardinality(B) \in Nat /\ Rank(D, l) = Cardinality(B)
    BY <1>1 DEF Rank
  <2> HIDE DEF B
  <2>4. Cardinality(B) <= Cardinality(S) /\ Cardinality(S) # Cardinality(B)
    BY <2>1, <2>2, FS_Subset
  <2> QED
    BY <2>1, <2>3, <2>4
<1>3. Rank(D, k) < Cardinality(D)
  BY <1>2
<1>4. ASSUME NEW l \in D, k < l PROVE Rank(D, k) < Rank(D, l)
  <2>1. \A j \in D : j < k => j < l
    <3>1. \A j \in Nat : j < k => j < l
      BY <1>4, k \in Nat, l \in Nat
    <3> QED
      BY <3>1
  <2>2. {j \in D : j < l} \in SUBSET D /\ {j \in D : j < k} \subseteq {j \in D : j < l}
        /\ k \in {j \in D : j < l}
    BY <1>4, <2>1
  <2>3. Rank(D, l) = Cardinality({j \in D : j < l})
    BY DEF Rank
  <2> QED
    BY <1>2, <2>2, <2>3
<1>5. Cardinality(D) \in Nat
  BY FS_CardinalityType
<1>6. Rank(D, k) \in 0 .. Cardinality(D) - 1
  <2>1. Rank(D, k) \in Nat
    BY <1>1
  <2> QED
    BY <2>1, <1>3, <1>5
<1> QED
  BY <1>4, <1>6

LEMMA RankUnique ==
    ASSUME NEW D \in SUBSET Nat, IsFiniteSet(D), NEW k \in D, NEW l \in D,
           Rank(D, k) = Rank(D, l)
    PROVE  k = l
<1>1. Rank(D, k) \in Nat /\ Rank(D, l) \in Nat /\ k \in Nat /\ l \in Nat
  <2>1. Rank(D, k) \in 0 .. Cardinality(D) - 1 /\ Rank(D, l) \in 0 .. Cardinality(D) - 1
    BY RankOrder
  <2> QED
    BY <2>1, FS_CardinalityType
<1>2. ~ (k < l) /\ ~ (l < k)
  BY <1>1, RankOrder
<1> QED
  BY <1>1, <1>2

LEMMA RankOnto ==
    ASSUME NEW D \in SUBSET Nat, IsFiniteSet(D), NEW i \in 0 .. Cardinality(D) - 1
    PROVE  \E k \in D : Rank(D, k) = i
<1> DEFINE n == Cardinality(D)
           f == [k \in D |-> Rank(D, k)]
<1>1. n \in Nat /\ IsFiniteSet(0 .. n - 1) /\ Cardinality(0 .. n - 1) = n
  BY FS_CardinalityType, FS_Interval
<1>2. f \in [D -> 0 .. n - 1]
  BY RankOrder
<1>3. \A k, l \in D : f[k] = f[l] => k = l
  BY RankUnique
<1>4. f \in Injection(D, 0 .. n - 1)
  BY <1>2, <1>3 DEF Injection, IsInjective
<1> HIDE DEF f
<1>5. f \in Surjection(D, 0 .. n - 1)
  BY <1>1, <1>4, FS_Injection
<1>6. PICK k \in D : f[k] = i
  BY <1>5 DEF Surjection
<1> QED
  BY <1>6 DEF f

LEMMA InOrderOfIsWhole ==
    ASSUME NEW S, NEW map, map \in [DOMAIN map -> S], DOMAIN map \in SUBSET Nat,
           IsFiniteSet(DOMAIN map)
    PROVE  /\ InOrderOf(map) \in Seq(S)
           /\ Len(InOrderOf(map)) = Cardinality(DOMAIN map)
           /\ \A i \in 1 .. Cardinality(DOMAIN map) : \E k \in DOMAIN map : InOrderOf(map)[i] = map[k]
           /\ \A k \in DOMAIN map : \E i \in 1 .. Cardinality(DOMAIN map) : InOrderOf(map)[i] = map[k]
<1> DEFINE D == DOMAIN map
           n == Cardinality(D)
           at(i) == CHOOSE k \in D : Rank(D, k) = i - 1
<1>1. n \in Nat
  BY FS_CardinalityType
<1>2. InOrderOf(map) = [i \in 1 .. n |-> map[at(i)]]
  BY DEF InOrderOf, Rank
<1>3. ASSUME NEW i \in 1 .. n PROVE at(i) \in D /\ Rank(D, at(i)) = i - 1
  <2>1. i - 1 \in 0 .. n - 1
    BY <1>1
  <2>2. \E k \in D : Rank(D, k) = i - 1
    BY <2>1, RankOnto
  <2> QED
    BY <2>2
<1>4. ASSUME NEW k \in D PROVE \E i \in 1 .. n : at(i) = k
  <2>1. Rank(D, k) \in 0 .. n - 1
    BY RankOrder
  <2>2. Rank(D, k) + 1 \in 1 .. n /\ (Rank(D, k) + 1) - 1 = Rank(D, k)
    BY <1>1, <2>1
  <2>3. at(Rank(D, k) + 1) \in D /\ Rank(D, at(Rank(D, k) + 1)) = Rank(D, k)
    BY <1>3, <2>2
  <2>4. at(Rank(D, k) + 1) = k
    <3> HIDE DEF at
    <3> QED
      BY <2>3, RankUnique
  <2> QED
    BY <2>2, <2>4
<1>5. InOrderOf(map) \in Seq(S) /\ Len(InOrderOf(map)) = n
  <2>1. \A i \in 1 .. n : map[at(i)] \in S
    BY <1>3
  <2> HIDE DEF at
  <2> QED
    BY <1>1, <1>2, <2>1
<1> HIDE DEF at
<1> QED
  BY <1>2, <1>3, <1>4, <1>5

-----------------------------------------------------------------------------
(* The maps.                                                               *)
LEMMA EmptyMap == ASSUME NEW S PROVE DOMAIN <<>> = {} /\ <<>> \in [{} -> S]
OBVIOUS

LEMMA Inserted ==
    ASSUME NEW S, NEW map, map \in [DOMAIN map -> S], NEW key, NEW value \in S
    PROVE  /\ MapInsert(map, key, value) \in [DOMAIN map \cup {key} -> S]
           /\ DOMAIN MapInsert(map, key, value) = DOMAIN map \cup {key}
           /\ MapInsert(map, key, value)[key] = value
           /\ \A k \in DOMAIN map \ {key} : MapInsert(map, key, value)[k] = map[k]
BY DEF MapInsert

LEMMA Removed ==
    ASSUME NEW S, NEW map, map \in [DOMAIN map -> S], NEW keys
    PROVE  /\ MapRemove(map, keys) \in [DOMAIN map \ keys -> S]
           /\ DOMAIN MapRemove(map, keys) = DOMAIN map \ keys
           /\ \A k \in DOMAIN map \ keys : MapRemove(map, keys)[k] = map[k]
BY DEF MapRemove

LEMMA FrameFields ==
    ASSUME NEW frame \in Frame
    PROVE  /\ frame.publisher_id \in PublisherIds /\ frame.publisher_id # None
           /\ frame.sequence \in SeqNums /\ frame.sequence \in Nat \ {0}
BY DEF Frame

-----------------------------------------------------------------------------
(* The buffer: finite, each frame under its own sequence.                  *)
BufferOK ==
    /\ buffered_out_of_order \in [Buffered -> Frame]
    /\ \A s \in Buffered : buffered_out_of_order[s].sequence = s
    /\ IsFiniteSet(Buffered)

LEMMA BufferedNumbers ==
    ASSUME BufferOK PROVE Buffered \subseteq SeqNums /\ Buffered \in SUBSET Nat
BY FrameFields DEF BufferOK

LEMMA WithFrameMap ==
    ASSUME BufferOK, NEW frame \in Frame
    PROVE  /\ WithFrame(frame) \in [DOMAIN WithFrame(frame) -> Frame]
           /\ DOMAIN WithFrame(frame) = Buffered \cup {frame.sequence}
           /\ DOMAIN WithFrame(frame) \in SUBSET Nat
           /\ IsFiniteSet(DOMAIN WithFrame(frame))
           /\ WithFrame(frame)[frame.sequence] = frame
           /\ \A k \in Buffered \ {frame.sequence} :
                 WithFrame(frame)[k] = buffered_out_of_order[k]
<1>1. /\ WithFrame(frame) \in [Buffered \cup {frame.sequence} -> Frame]
      /\ DOMAIN WithFrame(frame) = Buffered \cup {frame.sequence}
      /\ WithFrame(frame)[frame.sequence] = frame
      /\ \A k \in Buffered \ {frame.sequence} :
            WithFrame(frame)[k] = buffered_out_of_order[k]
  <2>1. buffered_out_of_order \in [DOMAIN buffered_out_of_order -> Frame]
    BY DEF BufferOK, Buffered
  <2> DEFINE map == MapInsert(buffered_out_of_order, frame.sequence, frame)
  <2>2. /\ map \in [DOMAIN buffered_out_of_order \cup {frame.sequence} -> Frame]
        /\ DOMAIN map = DOMAIN buffered_out_of_order \cup {frame.sequence}
        /\ map[frame.sequence] = frame
        /\ \A k \in DOMAIN buffered_out_of_order \ {frame.sequence} :
              map[k] = buffered_out_of_order[k]
    BY <2>1 DEF MapInsert
  <2> QED
    BY <2>2 DEF WithFrame, Buffered
<1>2. IsFiniteSet(Buffered \cup {frame.sequence})
  BY FS_AddElement DEF BufferOK
<1> QED
  BY <1>1, <1>2, BufferedNumbers, FrameFields

LEMMA BufferWithFrame ==
    ASSUME BufferOK, NEW frame \in Frame, buffered_out_of_order' = WithFrame(frame)
    PROVE  BufferOK' /\ Buffered' = Buffered \cup {frame.sequence}
<1>1. Buffered' = DOMAIN WithFrame(frame) /\ Buffered' = Buffered \cup {frame.sequence}
  BY WithFrameMap DEF Buffered
<1>2. \A s \in Buffered' : WithFrame(frame)[s].sequence = s
  BY <1>1, WithFrameMap DEF BufferOK
<1>3. /\ buffered_out_of_order' \in [Buffered' -> Frame]
      /\ IsFiniteSet(Buffered')
  BY <1>1, WithFrameMap
<1> QED
  BY <1>1, <1>2, <1>3 DEF BufferOK

LEMMA BufferRemoved ==
    ASSUME BufferOK, NEW keys, buffered_out_of_order' = MapRemove(buffered_out_of_order, keys)
    PROVE  /\ BufferOK' /\ Buffered' = Buffered \ keys
           /\ \A s \in Buffered' : buffered_out_of_order'[s] = buffered_out_of_order[s]
<1>1. /\ MapRemove(buffered_out_of_order, keys) \in [Buffered \ keys -> Frame]
      /\ DOMAIN MapRemove(buffered_out_of_order, keys) = Buffered \ keys
      /\ \A k \in Buffered \ keys :
            MapRemove(buffered_out_of_order, keys)[k] = buffered_out_of_order[k]
  <2>1. buffered_out_of_order \in [DOMAIN buffered_out_of_order -> Frame]
    BY DEF BufferOK, Buffered
  <2> QED
    BY <2>1, Removed DEF Buffered
<1>2. IsFiniteSet(Buffered \ keys)
  BY FS_Subset DEF BufferOK
<1> QED
  BY <1>1, <1>2 DEF BufferOK, Buffered

LEMMA BufferEmptied ==
    ASSUME buffered_out_of_order' = <<>> PROVE BufferOK' /\ Buffered' = {}
BY EmptyMap, FS_EmptySet DEF BufferOK, Buffered

LEMMA BufferUnchanged ==
    ASSUME BufferOK, UNCHANGED buffered_out_of_order PROVE BufferOK' /\ Buffered' = Buffered
BY DEF BufferOK, Buffered

(* drain_contiguous stops, at the first sequence that is not buffered.     *)
LEMMA ContiguousEndIs ==
    ASSUME BufferOK, NEW start \in Nat
    PROVE  /\ ContiguousEnd(start) \in Nat /\ ContiguousEnd(start) >= start
           /\ ContiguousEnd(start) \notin Buffered
           /\ \A s \in start .. ContiguousEnd(start) - 1 : s \in Buffered
<1> DEFINE E == {start} \cup {s + 1 : s \in Buffered}
           Ends(e) == e >= start /\ e \notin Buffered /\ \A s \in start .. e - 1 : s \in Buffered
<1>1. E \subseteq Nat
  BY BufferedNumbers
<1>2. PICK e \in Nat : Ends(e)
  BY LeastMissing DEF BufferOK
<1>3. e \in E
  <2>1. CASE e = start
    BY <2>1
  <2>2. CASE e # start
    <3>1. e - 1 \in start .. e - 1 /\ e = (e - 1) + 1
      BY <1>2, <2>2
    <3>2. e - 1 \in Buffered
      BY <1>2, <3>1
    <3> QED
      BY <3>1, <3>2
  <2> QED
    BY <2>1, <2>2
<1>4. ContiguousEnd(start) = CHOOSE x \in E : Ends(x)
  BY DEF ContiguousEnd
<1> HIDE DEF E, Ends
<1>5. ContiguousEnd(start) \in E /\ Ends(ContiguousEnd(start))
  BY <1>2, <1>3, <1>4
<1> QED
  BY <1>1, <1>5 DEF Ends

LEMMA ContiguousIs ==
    ASSUME BufferOK, NEW start \in Nat
    PROVE  /\ Contiguous(start) \in Seq(Frame)
           /\ Len(Contiguous(start)) = ContiguousEnd(start) - start
           /\ \A i \in 1 .. (ContiguousEnd(start) - start) :
                 /\ start + i - 1 \in Buffered
                 /\ start + i - 1 \in start .. (ContiguousEnd(start) - 1)
                 /\ Contiguous(start)[i] = buffered_out_of_order[start + i - 1]
<1> DEFINE n == ContiguousEnd(start) - start
<1>1. n \in Nat
  BY ContiguousEndIs
<1>2. \A i \in 1 .. n : start + i - 1 \in start .. (ContiguousEnd(start) - 1)
  BY ContiguousEndIs
<1>3. \A i \in 1 .. n : start + i - 1 \in Buffered
  BY <1>2, ContiguousEndIs
<1>4. Contiguous(start) = [i \in 1 .. n |-> buffered_out_of_order[start + i - 1]]
  BY DEF Contiguous
<1>5. \A i \in 1 .. n : buffered_out_of_order[start + i - 1] \in Frame
  BY <1>3 DEF BufferOK
<1> HIDE DEF n
<1>6. Contiguous(start) \in Seq(Frame) /\ Len(Contiguous(start)) = n
  BY <1>1, <1>4, <1>5
<1> QED
  BY <1>2, <1>3, <1>4, <1>6 DEF n

(* Every frame of the contiguous run is handed out.                        *)
LEMMA ContiguousCovers ==
    ASSUME BufferOK, NEW start \in Nat, NEW s \in start .. ContiguousEnd(start) - 1
    PROVE  s \in Buffered /\ buffered_out_of_order[s] \in Range(Contiguous(start))
<1>1. s + 1 - start \in 1 .. (ContiguousEnd(start) - start) /\ start + (s + 1 - start) - 1 = s
  BY ContiguousEndIs
<1>2. Contiguous(start)[s + 1 - start] = buffered_out_of_order[s]
      /\ s \in Buffered
  BY <1>1, ContiguousIs
<1>3. DOMAIN Contiguous(start) = 1 .. (ContiguousEnd(start) - start)
  BY DEF Contiguous
<1> QED
  BY <1>1, <1>2, <1>3 DEF Range

-----------------------------------------------------------------------------
(* The tracker and the filter.                                             *)
LEMMA StatusIs ==
    ASSUME TrackerTypeOK, NEW frame \in Frame
    PROVE  /\ StatusOf(frame) \in SequenceStatus
           /\ GapFrom(frame.publisher_id) \in Nat \ {0}
           /\ ExpectedAfter(frame.publisher_id, frame.sequence) \in Nat \ {0}
           /\ GapTo(frame.sequence) \in Nat
           /\ StatusOf(frame) = "Gap" => GapFrom(frame.publisher_id) < frame.sequence
           /\ StatusOf(frame) \in {"InOrder", "PublisherReset"} =>
                 ExpectedAfter(frame.publisher_id, frame.sequence) = frame.sequence + 1
           /\ StatusOf(frame) \in {"Gap", "DuplicateOrOld"} =>
                 ExpectedAfter(frame.publisher_id, frame.sequence) = GapFrom(frame.publisher_id)
BY FrameFields DEF TrackerTypeOK, StatusOf, Status, SequenceStatus, GapFrom, GapTo, ExpectedAfter

LEMMA AdvanceIs ==
    ASSUME TrackerTypeOK, NEW frame \in Frame, NEW next \in Nat,
           ObserveThenAdvance(frame.publisher_id, frame.sequence, next)
    PROVE  /\ TrackerTypeOK' /\ active_publisher_id' = frame.publisher_id
           /\ expected_sequence' = HigherOf(ExpectedAfter(frame.publisher_id, frame.sequence), next)
BY StatusIs, FrameFields DEF ObserveThenAdvance, TrackerTypeOK, HigherOf

LEMMA ObserveIs ==
    ASSUME TrackerTypeOK, NEW frame \in Frame, ObserveFrame(frame)
    PROVE  /\ TrackerTypeOK' /\ active_publisher_id' = frame.publisher_id
           /\ expected_sequence' = ExpectedAfter(frame.publisher_id, frame.sequence)
BY StatusIs, AdvanceIs, FrameFields DEF ObserveFrame, Observe, HigherOf

LEMMA KeyIs ==
    ASSUME NEW frame \in Frame
    PROVE  /\ Key(frame) \in DuplicateKey
           /\ Key(frame)[1] = frame.publisher_id /\ Key(frame)[2] = frame.sequence
BY FrameFields DEF Key, DuplicateKey

LEMMA RecordIs ==
    ASSUME DedupTypeOK, NEW key \in DuplicateKey, IsDuplicateAndRecord(key)
    PROVE  DedupTypeOK' /\ recent_keys' \subseteq recent_keys \cup {key}
<1>1. CASE UNCHANGED dedupVars
  BY <1>1 DEF dedupVars, DedupTypeOK
<1>2. CASE InsertKey(key)
  BY <1>2, AppendProperties DEF InsertKey, DedupTypeOK
<1>3. CASE EvictAndInsertKey(key)
  <2>1. head + 1 \in 1 .. Len(ring_history) /\ (head + 1) % DedupCapacity \in 0 .. DedupCapacity - 1
    BY <1>3, LenProperties DEF EvictAndInsertKey, DedupTypeOK
  <2>2. [ring_history EXCEPT ![head + 1] = key] \in Seq(DuplicateKey)
    BY <2>1, ExceptSeq DEF DedupTypeOK
  <2> QED
    BY <1>3, <2>1, <2>2 DEF EvictAndInsertKey, DedupTypeOK
<1> QED
  BY <1>1, <1>2, <1>3 DEF IsDuplicateAndRecord

-----------------------------------------------------------------------------
(* The requests.                                                           *)
RequestsOK ==
    /\ state \in {"Live", "Recovering", "RecoveryFailed"}
    /\ next_request_id \in Nat \ {0}
    /\ outstanding_requests \in [Outstanding -> ActiveReplayRequest]
    /\ Outstanding \subseteq 1 .. next_request_id - 1

LEMMA OutstandingFinite == ASSUME RequestsOK PROVE IsFiniteSet(Outstanding)
<1>1. IsFiniteSet(1 .. next_request_id - 1)
  BY FS_Interval DEF RequestsOK
<1> QED
  BY <1>1, FS_Subset DEF RequestsOK

LEMMA CreateIs ==
    ASSUME RequestsOK, NEW from \in Nat, NEW to \in Nat, CreateReplayRequest(from, to)
    PROVE  /\ RequestsOK'
           /\ Outstanding \subseteq Outstanding'
           /\ RequestAccepted(from, to) => Outstanding' # {}
           /\ ~ RequestAccepted(from, to) => UNCHANGED state
<1>1. CASE RequestAccepted(from, to)
  <2>1. NewRequest(from, to) \in ActiveReplayRequest
    BY DEF NewRequest, ActiveReplayRequest
  <2>2. /\ outstanding_requests' =
              MapInsert(outstanding_requests, next_request_id, NewRequest(from, to))
        /\ next_request_id' = next_request_id + 1 /\ state' = "Recovering"
    BY <1>1 DEF CreateReplayRequest
  <2>3. outstanding_requests \in [DOMAIN outstanding_requests -> ActiveReplayRequest]
    BY DEF RequestsOK, Outstanding
  <2>4. /\ outstanding_requests' \in
              [DOMAIN outstanding_requests \cup {next_request_id} -> ActiveReplayRequest]
        /\ DOMAIN outstanding_requests' = DOMAIN outstanding_requests \cup {next_request_id}
    BY <2>1, <2>2, <2>3 DEF MapInsert
  <2> QED
    BY <1>1, <2>2, <2>4 DEF RequestsOK, Outstanding
<1>2. CASE ~ RequestAccepted(from, to)
  BY <1>2 DEF CreateReplayRequest, RequestsOK, Outstanding
<1> QED
  BY <1>1, <1>2

(* Requests that only age, count or go away stay well formed.              *)
LEMMA RequestsShrink ==
    ASSUME RequestsOK, UNCHANGED next_request_id,
           state' \in {"Live", "Recovering", "RecoveryFailed"}, Outstanding' \subseteq Outstanding,
           outstanding_requests' \in [Outstanding' -> ActiveReplayRequest]
    PROVE  RequestsOK'
BY DEF RequestsOK

LEMMA RequestRemoved ==
    ASSUME NEW map, map \in [DOMAIN map -> ActiveReplayRequest], NEW keys,
           outstanding_requests' = MapRemove(map, keys)
    PROVE  /\ outstanding_requests' \in [Outstanding' -> ActiveReplayRequest]
           /\ Outstanding' = DOMAIN map \ keys
BY Removed DEF Outstanding

LEMMA UnavailableIs ==
    ASSUME RequestsOK, NEW request_id, HandleReplayUnavailable(request_id)
    PROVE  RequestsOK' /\ state' = "RecoveryFailed" /\ UNCHANGED buffered_out_of_order
           /\ Outstanding' \subseteq Outstanding
<1>1. outstanding_requests \in [DOMAIN outstanding_requests -> ActiveReplayRequest]
  BY DEF RequestsOK, Outstanding
<1>2. outstanding_requests' \in [Outstanding' -> ActiveReplayRequest]
      /\ Outstanding' = DOMAIN outstanding_requests \ {request_id}
  BY <1>1, RequestRemoved DEF HandleReplayUnavailable
<1> QED
  BY <1>2, RequestsShrink DEF HandleReplayUnavailable, Outstanding

LEMMA AgedRequest ==
    ASSUME NEW r \in ActiveReplayRequest
    PROVE  /\ [r EXCEPT !.age = IF @ < RetryTimeout THEN @ + 1 ELSE @] \in ActiveReplayRequest
           /\ [r EXCEPT !.age = 0, !.retries_attempted = @ + 1] \in ActiveReplayRequest
<1>1. [r EXCEPT !.age = IF @ < RetryTimeout THEN @ + 1 ELSE @] \in ActiveReplayRequest
  BY DEF ActiveReplayRequest
<1> DEFINE aged == [r EXCEPT !.age = 0]
           retried == [r EXCEPT !.age = 0, !.retries_attempted = @ + 1]
<1>2. aged \in ActiveReplayRequest /\ aged.retries_attempted = r.retries_attempted
  BY DEF ActiveReplayRequest
<1>3. retried = [aged EXCEPT !.retries_attempted = r.retries_attempted + 1]
  BY Zenon
<1> HIDE DEF aged
<1>4. retried \in ActiveReplayRequest
  BY <1>2, <1>3 DEF ActiveReplayRequest
<1> QED
  BY <1>1, <1>4

LEMMA TickIs ==
    ASSUME RequestsOK, Tick
    PROVE  RequestsOK' /\ UNCHANGED <<state, buffered_out_of_order>> /\ Outstanding' = Outstanding
<1>1. \A id \in Outstanding : outstanding_requests[id] \in ActiveReplayRequest
  BY DEF RequestsOK
<1>2. /\ outstanding_requests' =
            [id \in Outstanding |->
               [outstanding_requests[id] EXCEPT !.age = IF @ < RetryTimeout THEN @ + 1 ELSE @]]
      /\ UNCHANGED <<state, next_request_id, buffered_out_of_order>>
  BY DEF Tick
<1>3. outstanding_requests' \in [Outstanding -> ActiveReplayRequest] /\ Outstanding' = Outstanding
  BY <1>1, <1>2, AgedRequest DEF Outstanding
<1> QED
  BY <1>2, <1>3, RequestsShrink DEF RequestsOK

LEMMA TimeoutsIs ==
    ASSUME RequestsOK, CheckTimeouts
    PROVE  /\ RequestsOK' /\ UNCHANGED buffered_out_of_order /\ Outstanding' \subseteq Outstanding
           /\ \/ UNCHANGED state /\ Outstanding' = Outstanding
              \/ state' = "RecoveryFailed"
<1>1. \A id \in Outstanding : outstanding_requests[id] \in ActiveReplayRequest
  BY DEF RequestsOK
<1>2. AfterRetries \in [Outstanding -> ActiveReplayRequest] /\ DOMAIN AfterRetries = Outstanding
  <2>1. ASSUME NEW id \in Outstanding PROVE AfterRetries[id] \in ActiveReplayRequest
    <3>1. CASE id \in Due \ Exhausted
      BY <1>1, <3>1, AgedRequest DEF AfterRetries
    <3>2. CASE id \notin Due \ Exhausted
      BY <1>1, <3>2 DEF AfterRetries
    <3> QED
      BY <3>1, <3>2
  <2> QED
    BY <2>1 DEF AfterRetries
<1>3. CASE outstanding_requests' = AfterRetries /\ UNCHANGED <<state, next_request_id, buffered_out_of_order>>
  <2>1. Outstanding' = Outstanding
    BY <1>2, <1>3 DEF Outstanding
  <2> QED
    BY <1>2, <1>3, <2>1, RequestsShrink DEF RequestsOK
<1>4. ASSUME NEW id \in Exhausted, outstanding_requests' = MapRemove(AfterRetries, {id}),
             state' = "RecoveryFailed", UNCHANGED <<next_request_id, buffered_out_of_order>>
      PROVE  RequestsOK' /\ UNCHANGED buffered_out_of_order /\ Outstanding' \subseteq Outstanding
             /\ state' = "RecoveryFailed"
  <2>1. outstanding_requests' \in [Outstanding' -> ActiveReplayRequest]
        /\ Outstanding' = Outstanding \ {id}
    BY <1>2, <1>4, RequestRemoved
  <2> QED
    BY <1>4, <2>1, RequestsShrink
<1> QED
  BY <1>3, <1>4 DEF CheckTimeouts

LEMMA ResetIs ==
    ASSUME RequestsOK, Reset
    PROVE  RequestsOK' /\ BufferOK' /\ Buffered' = {} /\ Outstanding' = {}
<1>1. outstanding_requests' \in [Outstanding' -> ActiveReplayRequest] /\ Outstanding' = {}
  BY EmptyMap DEF Reset, Outstanding
<1> QED
  BY <1>1, BufferEmptied, RequestsShrink DEF Reset

(* handle_replay_response, in its three outcomes.                          *)
LEMMA CountedType ==
    ASSUME NEW r \in ActiveReplayRequest, NEW seq \in Nat
    PROVE  Counted(r, seq) \in ActiveReplayRequest
<1>1. ReceivedWith(r, seq) \in SUBSET Nat
  BY DEF ReceivedWith, ActiveReplayRequest
<1> QED
  BY <1>1 DEF Counted, ActiveReplayRequest

LEMMA ResponseIs ==
    ASSUME RequestsOK, BufferOK, NEW request_id, NEW frame \in Frame,
           HandleReplayResponse(request_id, frame)
    PROVE  /\ RequestsOK' /\ BufferOK' /\ Outstanding' \subseteq Outstanding
           /\ UNCHANGED next_request_id
           /\ request_id \notin Outstanding => UNCHANGED recoveryVars
           /\ request_id \in Outstanding /\ ~ Completes(request_id, frame) =>
                 /\ buffered_out_of_order' = WithFrame(frame)
                 /\ Outstanding' = Outstanding /\ UNCHANGED state
           /\ Completes(request_id, frame) => request_id \in Outstanding /\ Buffered' = {}
<1>1. Completes(request_id, frame) => request_id \in Outstanding
  BY DEF Completes
<1>2. outstanding_requests \in [DOMAIN outstanding_requests -> ActiveReplayRequest]
  BY DEF RequestsOK, Outstanding
<1>3. CASE request_id \notin Outstanding
  <2>1. UNCHANGED recoveryVars
    BY <1>1, <1>3 DEF HandleReplayResponse
  <2>2. RequestsOK' /\ Outstanding' = Outstanding /\ BufferOK'
    BY <2>1, BufferUnchanged DEF recoveryVars, RequestsOK, Outstanding
  <2> QED
    BY <1>1, <1>3, <2>1, <2>2 DEF recoveryVars
<1>4. CASE request_id \in Outstanding /\ ~ Completes(request_id, frame)
  <2> DEFINE counted == Counted(outstanding_requests[request_id], frame.sequence)
  <2>1. /\ outstanding_requests' = [outstanding_requests EXCEPT ![request_id] = counted]
        /\ buffered_out_of_order' = WithFrame(frame) /\ UNCHANGED <<state, next_request_id>>
    BY <1>4 DEF HandleReplayResponse
  <2>2. counted \in ActiveReplayRequest
    BY <1>4, CountedType, FrameFields DEF RequestsOK
  <2> HIDE DEF counted
  <2>3. outstanding_requests' \in [Outstanding -> ActiveReplayRequest] /\ Outstanding' = Outstanding
    BY <1>2, <1>4, <2>1, <2>2 DEF Outstanding
  <2>4. RequestsOK' /\ BufferOK'
    BY <2>1, <2>3, RequestsShrink, BufferWithFrame DEF RequestsOK
  <2> QED
    BY <1>4, <2>1, <2>3, <2>4
<1>5. CASE Completes(request_id, frame)
  <2>1. /\ outstanding_requests' = MapRemove(outstanding_requests, {request_id})
        /\ state' = (IF Outstanding = {request_id} THEN "Live" ELSE state)
        /\ buffered_out_of_order' = <<>> /\ UNCHANGED next_request_id
    BY <1>1, <1>5 DEF HandleReplayResponse
  <2>2. outstanding_requests' \in [Outstanding' -> ActiveReplayRequest]
        /\ Outstanding' = DOMAIN outstanding_requests \ {request_id}
    BY <1>2, <2>1, RequestRemoved
  <2>3. RequestsOK' /\ Outstanding' \subseteq Outstanding
    BY <2>1, <2>2, RequestsShrink DEF RequestsOK, Outstanding
  <2> QED
    BY <1>1, <1>5, <2>1, <2>3, BufferEmptied
<1> QED
  BY <1>3, <1>4, <1>5

(* What a completed request hands back: every buffered frame, and the one  *)
(* that completed it.                                                      *)
LEMMA DrainedIs ==
    ASSUME BufferOK, NEW request_id, NEW frame \in Frame
    PROVE  /\ Drained(request_id, frame) \in Seq(Frame)
           /\ ~ Completes(request_id, frame) => Drained(request_id, frame) = <<>>
           /\ Completes(request_id, frame) =>
                 /\ frame \in Range(Drained(request_id, frame))
                 /\ \A s \in Buffered \ {frame.sequence} :
                       buffered_out_of_order[s] \in Range(Drained(request_id, frame))
<1> DEFINE map == WithFrame(frame)
           n == Cardinality(DOMAIN map)
           frames == InOrderOf(map)
<1>1. /\ map \in [DOMAIN map -> Frame] /\ DOMAIN map \in SUBSET Nat /\ IsFiniteSet(DOMAIN map)
      /\ DOMAIN map = Buffered \cup {frame.sequence} /\ map[frame.sequence] = frame
      /\ \A k \in Buffered \ {frame.sequence} : map[k] = buffered_out_of_order[k]
  BY WithFrameMap
<1> HIDE DEF map
<1>2. /\ frames \in Seq(Frame) /\ Len(frames) = n
      /\ \A k \in DOMAIN map : \E i \in 1 .. n : frames[i] = map[k]
  BY <1>1, InOrderOfIsWhole
<1>3. DOMAIN frames = 1 .. n
  BY <1>2, LenProperties
<1>4. \A k \in DOMAIN map : map[k] \in Range(frames)
  BY <1>2, <1>3 DEF Range
<1>5. Completes(request_id, frame) => Drained(request_id, frame) = frames
  BY DEF Drained, map
<1>6. ~ Completes(request_id, frame) => Drained(request_id, frame) = <<>>
  BY DEF Drained
<1> HIDE DEF frames, n
<1>7. <<>> \in Seq(Frame)
  OBVIOUS
<1> QED
  BY <1>1, <1>2, <1>4, <1>5, <1>6, <1>7

(* The highest sequence after frames were handed out.                      *)
LEMMA RangeFinite ==
    ASSUME NEW frames \in Seq(Frame)
    PROVE  /\ IsFiniteSet({f.sequence : f \in Range(frames)})
           /\ {f.sequence : f \in Range(frames)} \in SUBSET Nat
<1>1. Len(frames) \in Nat /\ DOMAIN frames = 1 .. Len(frames)
      /\ \A i \in 1 .. Len(frames) : frames[i] \in Frame
  BY LenProperties, ElementOfSeq
<1> DEFINE S == {f.sequence : f \in Range(frames)}
           g == [i \in 1 .. Len(frames) |-> frames[i].sequence]
<1>2. S = {frames[i].sequence : i \in 1 .. Len(frames)}
  BY <1>1 DEF Range
<1>3. S \in SUBSET Nat
  BY <1>1, <1>2, FrameFields
<1>4. g \in Surjection(1 .. Len(frames), S)
  BY <1>2 DEF Surjection
<1>5. IsFiniteSet(1 .. Len(frames))
  BY <1>1, FS_Interval
<1> HIDE DEF S, g
<1>6. IsFiniteSet(S)
  BY <1>4, <1>5, FS_Surjection
<1> QED
  BY <1>3, <1>6 DEF S

LEMMA HighestIs ==
    ASSUME NEW frames \in Seq(Frame), NEW n \in Nat
    PROVE  Max({n} \cup {f.sequence : f \in Range(frames)}) \in
              {n} \cup {f.sequence : f \in Range(frames)}
<1> DEFINE S == {f.sequence : f \in Range(frames)}
<1>1. IsFiniteSet(S) /\ S \in SUBSET Nat
  BY RangeFinite
<1> HIDE DEF S
<1>2. IsFiniteSet(S \cup {n}) /\ S \cup {n} = {n} \cup S
  BY <1>1, FS_AddElement
<1>3. Max({n} \cup S) \in {n} \cup S
  BY <1>1, <1>2, MaxOfFinite
<1> QED
  BY <1>3 DEF S

-----------------------------------------------------------------------------
(* process_data_frame.                                                     *)
ReceiverInv ==
    /\ TrackerTypeOK
    /\ DedupTypeOK
    /\ RequestsOK
    /\ BufferOK
    /\ mode \in Modes
    /\ highest_delivered_sequence \in Nat

LEMMA ReceiverInvTypes == ReceiverInv => ReceiverTypeOK
BY DEF ReceiverInv, ReceiverTypeOK, RecoveryTypeOK, RequestsOK, BufferOK

LEMMA ReceiverInvInit == ReceiverInit => ReceiverInv
<1> SUFFICES ASSUME ReceiverInit PROVE ReceiverInv
  OBVIOUS
<1>1. DOMAIN outstanding_requests = {} /\ DOMAIN buffered_out_of_order = {}
      /\ outstanding_requests \in [{} -> ActiveReplayRequest] /\ buffered_out_of_order \in [{} -> Frame]
  BY EmptyMap DEF ReceiverInit, RecoveryInit
<1>2. RequestsOK /\ BufferOK
  BY <1>1, FS_EmptySet DEF ReceiverInit, RecoveryInit, RequestsOK, BufferOK, Outstanding, Buffered
<1>3. TrackerTypeOK /\ DedupTypeOK
  BY DEF ReceiverInit, TrackerInit, DedupInit, TrackerTypeOK, DedupTypeOK
<1> QED
  BY <1>2, <1>3 DEF ReceiverInv, ReceiverInit

LEMMA RecoveryUnchanged ==
    ASSUME RequestsOK, BufferOK, UNCHANGED recoveryVars
    PROVE  RequestsOK' /\ BufferOK' /\ Outstanding' = Outstanding /\ Buffered' = Buffered
BY BufferUnchanged DEF recoveryVars, RequestsOK, Outstanding

LEMMA HigherOfIs ==
    ASSUME NEW a \in Nat, NEW b \in Nat
    PROVE  HigherOf(a, b) \in Nat /\ HigherOf(a, b) >= a /\ HigherOf(a, b) >= b
BY DEF HigherOf

(* The in-order outcome of RELIABLE_ORDERED.                               *)
LEMMA DeliverIs ==
    ASSUME ReceiverInv, NEW frame \in Frame, DeliverInOrder(frame)
    PROVE  /\ BufferOK' /\ RequestsOK' /\ TrackerTypeOK' /\ Outstanding' = Outstanding
           /\ UNCHANGED state
           /\ active_publisher_id' = frame.publisher_id
           /\ expected_sequence' = ContiguousEnd(frame.sequence + 1)
           /\ expected_sequence' >= frame.sequence + 1
           /\ Buffered' = Buffered \ ((frame.sequence + 1) .. (expected_sequence' - 1))
           /\ \A s \in Buffered' : buffered_out_of_order'[s] = buffered_out_of_order[s]
           /\ highest_delivered_sequence' \in Nat
<1> DEFINE start == frame.sequence + 1
           e == ContiguousEnd(start)
<1>1. start \in Nat /\ frame.sequence \in Nat
  BY FrameFields
<1>2. e \in Nat /\ e >= start
  BY <1>1, ContiguousEndIs DEF ReceiverInv
<1>3. /\ ObserveThenAdvance(frame.publisher_id, frame.sequence, e)
      /\ buffered_out_of_order' = WithoutContiguous(start)
      /\ highest_delivered_sequence' = e - 1 /\ StatusOf(frame) = "InOrder"
      /\ UNCHANGED <<state, next_request_id, outstanding_requests>>
  BY DEF DeliverInOrder
<1>4. ExpectedAfter(frame.publisher_id, frame.sequence) = start
  BY <1>3, StatusIs DEF ReceiverInv
<1> HIDE DEF start, e
<1>5. TrackerTypeOK' /\ active_publisher_id' = frame.publisher_id /\ expected_sequence' = HigherOf(start, e)
  BY <1>2, <1>3, <1>4, AdvanceIs DEF ReceiverInv
<1>6. expected_sequence' = e
  BY <1>1, <1>2, <1>5 DEF HigherOf
<1>7. buffered_out_of_order' = MapRemove(buffered_out_of_order, start .. e - 1)
  BY <1>3 DEF WithoutContiguous, e
<1>8. /\ BufferOK' /\ Buffered' = Buffered \ (start .. e - 1)
      /\ \A s \in Buffered' : buffered_out_of_order'[s] = buffered_out_of_order[s]
  BY <1>7, BufferRemoved DEF ReceiverInv
<1>9. RequestsOK' /\ Outstanding' = Outstanding
  BY <1>3 DEF ReceiverInv, RequestsOK, Outstanding
<1>10. highest_delivered_sequence' \in Nat
  BY <1>1, <1>2, <1>3 DEF start
<1> QED
  BY <1>2, <1>3, <1>5, <1>6, <1>8, <1>9, <1>10 DEF start, e

LEMMA CreateForGapIs ==
    ASSUME TrackerTypeOK, RequestsOK, NEW frame \in Frame, CreateForGap(frame)
    PROVE  /\ RequestsOK' /\ Outstanding \subseteq Outstanding'
           /\ RequestForGap(frame) => Outstanding' # {}
           /\ ~ RequestForGap(frame) => UNCHANGED state
BY StatusIs, CreateIs DEF CreateForGap, RequestForGap

LEMMA ProcessDataFrameType ==
    ASSUME ReceiverInv, NEW frame \in Frame, ProcessDataFrame(frame)
    PROVE  ReceiverInv' /\ active_publisher_id' = frame.publisher_id /\ UNCHANGED mode
<1>1. frame.sequence \in Nat /\ TrackerTypeOK /\ RequestsOK /\ BufferOK
      /\ highest_delivered_sequence \in Nat /\ DedupTypeOK
  BY FrameFields DEF ReceiverInv
<1>2. ObserveFrame(frame) => TrackerTypeOK' /\ active_publisher_id' = frame.publisher_id
  BY <1>1, ObserveIs
<1>3. UNCHANGED dedupVars => DedupTypeOK'
  BY <1>1 DEF dedupVars, DedupTypeOK
<1>4. HigherOf(highest_delivered_sequence, frame.sequence) \in Nat
  BY <1>1, HigherOfIs
<1>5. CASE BestEffortFrame(frame) \/ LatestFrame(frame)
  BY <1>1, <1>2, <1>3, <1>4, <1>5, RecoveryUnchanged DEF BestEffortFrame, LatestFrame, ReceiverInv
<1>6. CASE AtLeastOnceFrame(frame)
  <2>1. highest_delivered_sequence' \in Nat
    BY <1>1, <1>4, <1>6 DEF AtLeastOnceFrame, AtLeastOnceGap, AtLeastOnceNoGap
  <2>2. RequestsOK' /\ BufferOK'
    BY <1>1, <1>6, RecoveryUnchanged, CreateForGapIs, BufferUnchanged
       DEF AtLeastOnceFrame, AtLeastOnceGap, AtLeastOnceNoGap
  <2> QED
    BY <1>2, <1>3, <1>6, <2>1, <2>2 DEF AtLeastOnceFrame, ReceiverInv
<1>7. CASE ReliableOrderedFrame(frame)
  <2>1. DedupTypeOK'
    BY <1>1, <1>7, KeyIs, RecordIs DEF ReliableOrderedFrame
  <2>2. CASE SuppressDuplicate(frame) \/ SuppressOld(frame)
    BY <1>1, <1>2, <1>7, <2>1, <2>2, RecoveryUnchanged
       DEF SuppressDuplicate, SuppressOld, ReliableOrderedFrame, ReceiverInv
  <2>3. CASE DeliverInOrder(frame)
    BY <1>7, <2>1, <2>3, DeliverIs DEF ReliableOrderedFrame, ReceiverInv
  <2>4. CASE BufferAndRequest(frame)
    BY <1>1, <1>2, <1>7, <2>1, <2>4, CreateForGapIs, BufferWithFrame
       DEF BufferAndRequest, ReliableOrderedFrame, ReceiverInv
  <2>5. CASE ResetForPublisher(frame)
    BY <1>1, <1>2, <1>7, <2>1, <2>5, ResetIs DEF ResetForPublisher, ReliableOrderedFrame, ReceiverInv
  <2> QED
    BY <1>7, <2>2, <2>3, <2>4, <2>5 DEF ReliableOrderedFrame
<1> QED
  BY <1>5, <1>6, <1>7 DEF ProcessDataFrame

LEMMA ToDeliverType ==
    ASSUME ReceiverInv, NEW frame \in Frame PROVE ToDeliver(frame) \in Seq(Frame)
<1>1. <<>> \in Seq(Frame) /\ <<frame>> \in Seq(Frame)
  OBVIOUS
<1>2. Contiguous(frame.sequence + 1) \in Seq(Frame)
  BY ContiguousIs, FrameFields DEF ReceiverInv
<1>3. <<frame>> \o Contiguous(frame.sequence + 1) \in Seq(Frame)
  BY <1>1, <1>2, ConcatProperties
<1> QED
  BY <1>1, <1>3 DEF ToDeliver, ToDeliverReliable

-----------------------------------------------------------------------------
(* Every gap is short enough to be asked for in one request, and requests  *)
(* are made at all.                                                        *)
GapsCanBeAskedFor ==
    /\ SeqNums \subseteq 1 .. MaxReplayRange + 1
    /\ MaxOutstandingRequests > 0

(* A gap is asked for, or another request already holds the place.         *)
LEMMA GapIsAskedFor ==
    ASSUME GapsCanBeAskedFor, TrackerTypeOK, RequestsOK, NEW frame \in Frame,
           StatusOf(frame) = "Gap", CreateForGap(frame)
    PROVE  Outstanding' # {}
<1> DEFINE from == GapFrom(frame.publisher_id)
           to == GapTo(frame.sequence)
<1>1. from \in Nat \ {0} /\ from < frame.sequence /\ to = frame.sequence - 1
      /\ frame.sequence \in Nat /\ frame.sequence <= MaxReplayRange + 1
  BY StatusIs, FrameFields DEF GapTo, GapsCanBeAskedFor
<1> HIDE DEF from, to
<1>2. (IF to >= from THEN to - from ELSE 0) + 1 <= MaxReplayRange
  BY <1>1
<1>3. CASE RequestForGap(frame)
  BY <1>3, CreateForGapIs
<1>4. CASE ~ RequestForGap(frame)
  <2>1. ~ (Cardinality(Outstanding) < MaxOutstandingRequests)
    BY <1>2, <1>4 DEF RequestForGap, RequestAccepted, from, to
  <2>2. Outstanding # {}
    BY <2>1, FS_EmptySet DEF GapsCanBeAskedFor
  <2> QED
    BY <2>2, CreateForGapIs
<1> QED
  BY <1>3, <1>4

(* No operation leaves frames waiting for nothing.                         *)
StallStep ==
    \/ \E frame \in Frame : ProcessDataFrame(frame)
    \/ \E id : \E frame \in Frame : HandleReplayResponse(id, frame)
    \/ \E id : HandleReplayUnavailable(id)
    \/ CheckTimeouts
    \/ Tick
    \/ UNCHANGED recoveryVars

LEMMA NoSilentStallStep ==
    ASSUME GapsCanBeAskedFor, ReceiverInv, NoSilentStall, UNCHANGED mode, StallStep
    PROVE  NoSilentStall'
<1>1. TrackerTypeOK /\ RequestsOK /\ BufferOK
  BY DEF ReceiverInv
<1>2. ASSUME Buffered' \subseteq Buffered,
             state' = "RecoveryFailed" \/ (UNCHANGED state /\ Outstanding' = Outstanding)
      PROVE  NoSilentStall'
  BY <1>2 DEF NoSilentStall
<1>3. ASSUME UNCHANGED recoveryVars PROVE NoSilentStall'
  BY <1>1, <1>2, <1>3, RecoveryUnchanged DEF recoveryVars
<1>4. ASSUME NEW frame \in Frame, ProcessDataFrame(frame) PROVE NoSilentStall'
  <2> SUFFICES ASSUME mode' = "ReliableOrdered" PROVE NoSilentStall'
    BY DEF NoSilentStall
  <2>1. ReliableOrderedFrame(frame)
    BY <1>4 DEF ProcessDataFrame, BestEffortFrame, LatestFrame, AtLeastOnceFrame
  <2>2. CASE SuppressDuplicate(frame) \/ SuppressOld(frame)
    BY <1>3, <2>2 DEF SuppressDuplicate, SuppressOld
  <2>3. CASE DeliverInOrder(frame)
    BY <1>2, <2>3, DeliverIs
  <2>4. CASE BufferAndRequest(frame)
    BY <1>1, <2>4, GapIsAskedFor DEF BufferAndRequest, NoSilentStall
  <2>5. CASE ResetForPublisher(frame)
    BY <1>1, <2>5, ResetIs DEF ResetForPublisher, NoSilentStall
  <2> QED
    BY <2>1, <2>2, <2>3, <2>4, <2>5 DEF ReliableOrderedFrame
<1>5. ASSUME NEW id, NEW frame \in Frame, HandleReplayResponse(id, frame)
      PROVE  NoSilentStall'
  <2>1. CASE id \notin Outstanding
    BY <1>1, <1>3, <1>5, <2>1, ResponseIs
  <2>2. CASE id \in Outstanding /\ ~ Completes(id, frame)
    BY <1>1, <1>5, <2>2, ResponseIs DEF NoSilentStall
  <2>3. CASE Completes(id, frame)
    BY <1>1, <1>5, <2>3, ResponseIs DEF NoSilentStall
  <2> QED
    BY <2>1, <2>2, <2>3
<1>6. ASSUME NEW id, HandleReplayUnavailable(id) PROVE NoSilentStall'
  BY <1>1, <1>6, UnavailableIs DEF NoSilentStall
<1>7. ASSUME CheckTimeouts \/ Tick PROVE NoSilentStall'
  <2>1. Buffered' = Buffered
    BY <1>1, <1>7, TimeoutsIs, TickIs DEF Buffered
  <2> QED
    BY <1>1, <1>2, <1>7, <2>1, TimeoutsIs, TickIs
<1> QED
  BY <1>3, <1>4, <1>5, <1>6, <1>7 DEF StallStep

LEMMA NoSilentStallAtFirst == ReceiverInit => NoSilentStall
BY EmptyMap DEF ReceiverInit, RecoveryInit, NoSilentStall, Buffered
=============================================================================
