----------------------- MODULE DuplicateWindow_proofs -----------------------
(***************************************************************************)
(* The circular history of the duplicate filter is a sliding window, for   *)
(* every capacity, every set of keys and every history of calls.           *)
(***************************************************************************)
EXTENDS DuplicateWindow, FiniteSetTheorems, SequenceTheorems, TLAPS

USE DedupCapacityAssumption

-----------------------------------------------------------------------------
(* Division with remainder by DedupCapacity.                               *)
LEMMA ModUnique ==
    ASSUME NEW n \in Nat, NEW q \in Int, NEW r \in Nat, r < DedupCapacity,
           n = DedupCapacity * q + r
    PROVE  n % DedupCapacity = r
<1> DEFINE c == DedupCapacity
           d == q - (n \div c)
<1>1. /\ n = c * (n \div c) + (n % c) /\ n \div c \in Int
      /\ n % c \in Nat /\ n % c < c
  OBVIOUS
<1>2. d \in Int /\ c * d = (n % c) - r
  BY <1>1
<1>3. d = 0
  <2> HIDE DEF d
  <2>1. CASE d >= 1
    <3>1. c * d >= c
      BY <1>2, <2>1
    <3> QED
      BY <1>1, <1>2, <3>1
  <2>2. CASE d <= -1
    <3>1. c * d <= -c
      BY <1>2, <2>2
    <3> QED
      BY <1>1, <1>2, <3>1
  <2> QED
    BY <1>2, <2>1, <2>2
<1> QED
  BY <1>2, <1>3

(* The slot of the i-th recorded key.                                      *)
SlotOf(i) == ((i - 1) % DedupCapacity) + 1

LEMMA SlotType == ASSUME NEW i \in Nat \ {0} PROVE SlotOf(i) \in 1 .. DedupCapacity
BY DEF SlotOf

LEMMA SlotBelow == ASSUME NEW i \in 1 .. DedupCapacity PROVE SlotOf(i) = i
<1>1. (i - 1) % DedupCapacity = i - 1
  BY ModUnique, i - 1 = DedupCapacity * 0 + (i - 1)
<1> QED
  BY <1>1 DEF SlotOf

(* Keys recorded DedupCapacity apart share a slot, closer ones do not.     *)
LEMMA SlotRepeats ==
    ASSUME NEW i \in Nat \ {0}
    PROVE  SlotOf(i + DedupCapacity) = SlotOf(i)
<1> DEFINE c == DedupCapacity
           q == (i - 1) \div c
           r == (i - 1) % c
<1>1. i - 1 = c * q + r /\ q \in Int /\ r \in Nat /\ r < c
  OBVIOUS
<1>2. (i + c) - 1 = c * (q + 1) + r
  BY <1>1
<1>3. ((i + c) - 1) % c = r
  <2> HIDE DEF q, r
  <2> QED
    BY <1>1, <1>2, ModUnique
<1> QED
  BY <1>3 DEF SlotOf

LEMMA SlotsDiffer ==
    ASSUME NEW i \in Nat \ {0}, NEW j \in Nat \ {0}, i < j, j < i + DedupCapacity
    PROVE  SlotOf(i) # SlotOf(j)
<1> DEFINE c == DedupCapacity
           q == (i - 1) \div c
           r == (i - 1) % c
           p == (j - 1) \div c
<1>1. /\ i - 1 = c * q + r /\ q \in Int /\ r \in Nat /\ r < c
      /\ j - 1 = c * p + ((j - 1) % c) /\ p \in Int
  OBVIOUS
<1>2. SUFFICES ASSUME (j - 1) % c = r PROVE FALSE
  BY DEF SlotOf
<1>3. p - q \in Int /\ c * (p - q) = j - i
  BY <1>1, <1>2
<1> DEFINE d == p - q
<1>4. d \in Int /\ c * d = j - i
  BY <1>3
<1> HIDE DEF d
<1>5. CASE d <= 0
  BY <1>4, <1>5
<1>6. CASE d >= 1
  <2>1. c * d >= c
    BY <1>4, <1>6
  <2> QED
    BY <1>4, <2>1
<1> QED
  BY <1>4, <1>5, <1>6

(* The head's step is the step of the slot.                                *)
LEMMA HeadStep ==
    ASSUME NEW n \in Nat
    PROVE  ((n % DedupCapacity) + 1) % DedupCapacity = (n + 1) % DedupCapacity
<1> DEFINE c == DedupCapacity
           q == n \div c
           r == n % c
<1>1. n = c * q + r /\ q \in Int /\ r \in Nat /\ r < c
  OBVIOUS
<1> HIDE DEF q, r
<1>2. CASE r + 1 < c
  <2>1. (n + 1) % c = r + 1
    BY <1>1, <1>2, ModUnique, n + 1 = c * q + (r + 1)
  <2>2. (r + 1) % c = r + 1
    BY <1>1, <1>2, ModUnique, r + 1 = c * 0 + (r + 1)
  <2> QED
    BY <2>1, <2>2 DEF r
<1>3. CASE r + 1 = c
  <2>1. (n + 1) % c = 0
    BY <1>1, <1>3, ModUnique, n + 1 = c * (q + 1) + 0
  <2>2. (r + 1) % c = 0
    BY <1>1, <1>3, ModUnique, r + 1 = c * 1 + 0
  <2> QED
    BY <2>1, <2>2 DEF r
<1> QED
  BY <1>1, <1>2, <1>3

(* Any DedupCapacity consecutive keys cover the slots.                     *)
LEMMA SlotsCovered ==
    ASSUME NEW n \in Nat, NEW k \in 1 .. DedupCapacity
    PROVE  \E i \in n + 1 .. n + DedupCapacity : SlotOf(i) = k
<1> DEFINE c == DedupCapacity
           q == n \div c
           r == n % c
<1>1. n = c * q + r /\ q \in Int /\ r \in Nat /\ r < c
  OBVIOUS
<1> HIDE DEF q, r
<1>2. CASE k - 1 >= r
  <2> DEFINE i == n - r + k
  <2>1. i \in n + 1 .. n + c /\ i - 1 = c * q + (k - 1)
    BY <1>1, <1>2
  <2>2. (i - 1) % c = k - 1
    <3> HIDE DEF i
    <3> QED
      BY <1>1, <2>1, ModUnique
  <2> QED
    BY <2>1, <2>2 DEF SlotOf
<1>3. CASE k - 1 < r
  <2> DEFINE i == n - r + c + k
  <2>1. i \in n + 1 .. n + c /\ i - 1 = c * (q + 1) + (k - 1)
    BY <1>1, <1>3
  <2>2. (i - 1) % c = k - 1
    <3> HIDE DEF i
    <3> QED
      BY <1>1, <2>1, ModUnique
  <2> QED
    BY <2>1, <2>2 DEF SlotOf
<1> QED
  BY <1>1, <1>2, <1>3

-----------------------------------------------------------------------------
(* The inductive invariant: the keys of the window sit in their slots, the *)
(* head is at the slot of the next key, and the window has no key twice.   *)
Oldest == IF Len(recorded) > DedupCapacity THEN Len(recorded) - DedupCapacity ELSE 0

InWindow == Oldest + 1 .. Len(recorded)

HistoryFollowsRecorded ==
    /\ Len(ring_history) = IF Len(recorded) < DedupCapacity THEN Len(recorded)
                                                            ELSE DedupCapacity
    /\ head = IF Len(recorded) < DedupCapacity THEN 0 ELSE Len(recorded) % DedupCapacity
    /\ \A i \in InWindow : ring_history[SlotOf(i)] = recorded[i]
    /\ \A i, j \in InWindow : recorded[i] = recorded[j] => i = j

WindowInv == WindowTypeOK /\ SlidingWindow /\ HistoryFollowsRecorded

LEMMA WindowFacts ==
    ASSUME WindowTypeOK
    PROVE  /\ Len(recorded) \in Nat /\ Oldest \in Nat
           /\ Oldest <= Len(recorded) /\ Len(recorded) - Oldest <= DedupCapacity
           /\ InWindow \subseteq 1 .. Len(recorded)
           /\ SlidingWindow <=> recent_keys = {recorded[i] : i \in InWindow}
BY DEF WindowTypeOK, Oldest, InWindow, SlidingWindow

LEMMA WindowInvInit == WindowInit => WindowInv
<1> SUFFICES ASSUME WindowInit PROVE WindowInv
  OBVIOUS
<1>1. WindowTypeOK /\ Len(recorded) = 0 /\ Len(ring_history) = 0
  BY DEF WindowInit, DedupInit, WindowTypeOK, DedupTypeOK
<1>2. InWindow = {}
  BY <1>1 DEF InWindow, Oldest
<1> QED
  BY <1>1, <1>2, WindowFacts DEF WindowInv, HistoryFollowsRecorded, WindowInit, DedupInit

(* A key that is let through is appended to the history of the model.      *)
LEMMA RecordedAppended ==
    ASSUME WindowInv, NEW key \in DuplicateKey, recorded' = Append(recorded, key)
    PROVE  /\ recorded' \in Seq(DuplicateKey)
           /\ Len(recorded') = Len(recorded) + 1
           /\ recorded'[Len(recorded) + 1] = key
           /\ \A i \in 1 .. Len(recorded) : recorded'[i] = recorded[i]
BY AppendProperties DEF WindowInv, WindowTypeOK

(* The filter is not yet full.                                             *)
LEMMA WindowInvInsert ==
    ASSUME WindowInv, NEW key \in DuplicateKey, ~ IsDuplicate(key), InsertKey(key),
           recorded' = Append(recorded, key)
    PROVE  WindowInv'
<1> DEFINE n == Len(recorded)
<1>1. n \in Nat /\ n < DedupCapacity /\ Len(ring_history) = n /\ head = 0
  BY WindowFacts DEF WindowInv, HistoryFollowsRecorded, InsertKey
<1>2. Oldest = 0 /\ InWindow = 1 .. n
  BY <1>1 DEF Oldest, InWindow
<1>3. /\ Len(recorded') = n + 1 /\ recorded'[n + 1] = key
      /\ \A i \in 1 .. n : recorded'[i] = recorded[i]
  BY RecordedAppended
<1>4. Oldest' = 0 /\ InWindow' = 1 .. n + 1
  BY <1>1, <1>3 DEF Oldest, InWindow
<1>5. /\ ring_history' \in Seq(DuplicateKey) /\ Len(ring_history') = n + 1
      /\ ring_history'[n + 1] = key
      /\ \A i \in 1 .. n : ring_history'[i] = ring_history[i]
  BY <1>1, AppendProperties DEF WindowInv, WindowTypeOK, DedupTypeOK, InsertKey
<1>6. recent_keys' = recent_keys \cup {key} /\ head' = 0
  BY <1>1 DEF InsertKey
<1>7. WindowTypeOK'
  BY <1>1, <1>5, <1>6, RecordedAppended DEF WindowInv, WindowTypeOK, DedupTypeOK
<1>8. recent_keys = {recorded[i] : i \in 1 .. n}
  BY <1>2, WindowFacts DEF WindowInv
<1>9. recent_keys' = {recorded'[i] : i \in 1 .. n + 1}
  BY <1>1, <1>3, <1>6, <1>8
<1>10. SlidingWindow'
  BY <1>1, <1>3, <1>4, <1>9 DEF SlidingWindow, Oldest
<1>11. \A i \in 1 .. n : ring_history[i] = recorded[i]
  BY <1>1, <1>2, SlotBelow DEF WindowInv, HistoryFollowsRecorded
<1>12. \A i \in 1 .. n + 1 : ring_history'[SlotOf(i)] = recorded'[i]
  BY <1>1, <1>3, <1>5, <1>11, SlotBelow
<1>13. \A i \in 1 .. n : recorded[i] # key
  BY <1>8 DEF IsDuplicate
<1>14. \A i, j \in 1 .. n + 1 : recorded'[i] = recorded'[j] => i = j
  <2>1. \A i, j \in 1 .. n : recorded[i] = recorded[j] => i = j
    BY <1>2 DEF WindowInv, HistoryFollowsRecorded
  <2> QED
    BY <1>1, <1>3, <1>13, <2>1
<1>15. head' = IF n + 1 < DedupCapacity THEN 0 ELSE (n + 1) % DedupCapacity
  BY <1>1, <1>6, ModUnique, DedupCapacity = DedupCapacity * 1 + 0
<1> QED
  BY <1>1, <1>3, <1>4, <1>5, <1>7, <1>10, <1>12, <1>14, <1>15
  DEF WindowInv, HistoryFollowsRecorded

(* The filter is full: the head is at the slot of the oldest key, which is *)
(* the slot of the next one.                                               *)
LEMMA WindowInvEvict ==
    ASSUME WindowInv, NEW key \in DuplicateKey, ~ IsDuplicate(key), EvictAndInsertKey(key),
           recorded' = Append(recorded, key)
    PROVE  WindowInv'
<1> DEFINE n == Len(recorded)
           c == DedupCapacity
           oldest == n - c
<1>1. n \in Nat /\ n >= c /\ Len(ring_history) = c /\ head = n % c
  BY WindowFacts DEF WindowInv, HistoryFollowsRecorded, EvictAndInsertKey
<1>2. oldest \in Nat /\ Oldest = oldest /\ InWindow = oldest + 1 .. n
  BY <1>1 DEF Oldest, InWindow
<1>3. /\ Len(recorded') = n + 1 /\ recorded'[n + 1] = key
      /\ \A i \in 1 .. n : recorded'[i] = recorded[i]
  BY RecordedAppended
<1>4. Oldest' = oldest + 1 /\ InWindow' = oldest + 2 .. n + 1
  BY <1>1, <1>3 DEF Oldest, InWindow
<1>5. head + 1 = SlotOf(n + 1) /\ head + 1 = SlotOf(oldest + 1) /\ head + 1 \in 1 .. c
  <2>1. SlotOf(n + 1) = head + 1
    BY <1>1 DEF SlotOf
  <2>2. SlotOf((oldest + 1) + c) = SlotOf(oldest + 1) /\ (oldest + 1) + c = n + 1
    BY <1>1, <1>2, SlotRepeats
  <2> QED
    BY <1>1, <2>1, <2>2, SlotType
<1>6. /\ recent_keys' = (recent_keys \ {ring_history[head + 1]}) \cup {key}
      /\ ring_history' = [ring_history EXCEPT ![head + 1] = key]
      /\ head' = (head + 1) % c
  BY DEF EvictAndInsertKey
<1>7. /\ ring_history' \in Seq(DuplicateKey) /\ Len(ring_history') = c
      /\ ring_history'[head + 1] = key
      /\ \A i \in 1 .. c : i # head + 1 => ring_history'[i] = ring_history[i]
  BY <1>1, <1>5, <1>6, ExceptSeq DEF WindowInv, WindowTypeOK, DedupTypeOK
<1>8. head' = (n + 1) % c /\ head' \in 0 .. c - 1
  <2>1. ((n % c) + 1) % c = (n + 1) % c
    BY <1>1, HeadStep
  <2>2. (n + 1) % c \in 0 .. c - 1
    BY <1>1
  <2> QED
    BY <1>1, <1>6, <2>1, <2>2
<1>i. /\ oldest + 1 .. n = {oldest + 1} \cup (oldest + 2 .. n)
      /\ oldest + 1 \notin oldest + 2 .. n
      /\ oldest + 2 .. n + 1 = (oldest + 2 .. n) \cup {n + 1}
      /\ oldest + 2 .. n \subseteq 1 .. n
      /\ n + 1 \notin 1 .. n
  BY <1>1, <1>2
<1>9. /\ \A i \in oldest + 1 .. n : ring_history[SlotOf(i)] = recorded[i]
      /\ \A i, j \in oldest + 1 .. n : recorded[i] = recorded[j] => i = j
      /\ recent_keys = {recorded[i] : i \in oldest + 1 .. n}
  BY <1>2, WindowFacts DEF WindowInv, HistoryFollowsRecorded
<1>10. ring_history[head + 1] = recorded[oldest + 1]
  BY <1>1, <1>2, <1>5, <1>9
<1> HIDE DEF n, c, oldest
<1>11. recent_keys \ {recorded[oldest + 1]} = {recorded[i] : i \in oldest + 2 .. n}
  BY <1>i, <1>9
<1>12. recent_keys' = {recorded'[i] : i \in oldest + 2 .. n + 1}
  <2>1. {recorded'[i] : i \in oldest + 2 .. n} = {recorded[i] : i \in oldest + 2 .. n}
    BY <1>i, <1>3
  <2>2. {recorded'[i] : i \in oldest + 2 .. n + 1} =
            {recorded'[i] : i \in oldest + 2 .. n} \cup {recorded'[n + 1]}
    BY <1>i
  <2> QED
    BY <1>3, <1>6, <1>10, <1>11, <2>1, <2>2
<1> USE DEF n, c, oldest
<1>13. WindowTypeOK'
  <2>1. recent_keys' \subseteq DuplicateKey
    BY <1>6 DEF WindowInv, WindowTypeOK, DedupTypeOK
  <2> QED
    BY <1>7, <1>8, <2>1, RecordedAppended DEF WindowTypeOK, DedupTypeOK
<1>14. SlidingWindow'
  BY <1>4, <1>12, <1>13, WindowFacts DEF SlidingWindow, Oldest, InWindow
<1>15. ASSUME NEW i \in oldest + 2 .. n + 1
       PROVE  ring_history'[SlotOf(i)] = recorded'[i]
  <2>1. CASE i = n + 1
    BY <1>3, <1>5, <1>7, <2>1
  <2>2. CASE i \in oldest + 2 .. n
    <3>1. SlotOf(i) # SlotOf(n + 1)
      BY <1>1, <1>2, <2>2, SlotsDiffer
    <3>2. SlotOf(i) \in 1 .. c
      BY <1>1, <1>2, SlotType
    <3> QED
      BY <1>1, <1>2, <1>3, <1>5, <1>7, <1>9, <2>2, <3>1, <3>2
  <2> QED
    BY <1>1, <1>2, <2>1, <2>2
<1>16. \A i, j \in oldest + 2 .. n + 1 : recorded'[i] = recorded'[j] => i = j
  <2>1. \A i \in oldest + 1 .. n : recorded[i] # key
    BY <1>9 DEF IsDuplicate
  <2> HIDE DEF n, c, oldest
  <2> QED
    BY <1>i, <1>3, <1>9, <2>1
<1>17. HistoryFollowsRecorded'
  <2>1. ~ (Len(recorded') < c)
    BY <1>1, <1>3
  <2>2. Len(ring_history') = c /\ head' = Len(recorded') % c
    BY <1>3, <1>7, <1>8
  <2>3. \A i \in InWindow' : ring_history'[SlotOf(i)] = recorded'[i]
    BY <1>4, <1>15
  <2>4. \A i, j \in InWindow' : recorded'[i] = recorded'[j] => i = j
    BY <1>4, <1>16
  <2> QED
    BY <2>1, <2>2, <2>3, <2>4 DEF HistoryFollowsRecorded
<1> QED
  BY <1>13, <1>14, <1>17 DEF WindowInv

LEMMA WindowInvForget == ASSUME WindowInv, Forget PROVE WindowInv'
<1>1. WindowTypeOK' /\ Len(recorded') = 0 /\ Len(ring_history') = 0
  BY DEF Forget, ClearFilter, WindowTypeOK, DedupTypeOK
<1>2. InWindow' = {}
  BY <1>1 DEF InWindow, Oldest
<1>3. SlidingWindow'
  BY <1>1, <1>2 DEF SlidingWindow, InWindow, Oldest, Forget, ClearFilter
<1> QED
  BY <1>1, <1>2, <1>3 DEF WindowInv, HistoryFollowsRecorded, Forget, ClearFilter

LEMMA WindowInvUnchanged == ASSUME WindowInv, UNCHANGED windowVars PROVE WindowInv'
BY DEF WindowInv, WindowTypeOK, DedupTypeOK, SlidingWindow, HistoryFollowsRecorded, InWindow,
       Oldest, windowVars, dedupVars

LEMMA WindowInvNext == WindowInv /\ [WindowNext]_windowVars => WindowInv'
<1> SUFFICES ASSUME WindowInv, [WindowNext]_windowVars PROVE WindowInv'
  OBVIOUS
<1>1. ASSUME NEW key \in DuplicateKey, Check(key) PROVE WindowInv'
  <2>1. CASE IsDuplicate(key)
    BY <1>1, <2>1, WindowInvUnchanged
    DEF Check, IsDuplicateAndRecord, windowVars, dedupVars
  <2>2. CASE ~ IsDuplicate(key)
    <3>1. recorded' = Append(recorded, key) /\ (InsertKey(key) \/ EvictAndInsertKey(key))
      BY <1>1, <2>2 DEF Check, IsDuplicateAndRecord
    <3> QED
      BY <2>2, <3>1, WindowInvInsert, WindowInvEvict
  <2> QED
    BY <2>1, <2>2
<1>2. CASE Forget
  BY <1>2, WindowInvForget
<1>3. CASE UNCHANGED windowVars
  BY <1>3, WindowInvUnchanged
<1> QED
  BY <1>1, <1>2, <1>3 DEF WindowNext

-----------------------------------------------------------------------------
(* The window invariant holds for every capacity and history of calls.     *)
THEOREM WindowInvariant == WindowSpec => []WindowInv
BY WindowInvInit, WindowInvNext, PTL DEF WindowSpec

(* The filter's state keeps its types; the head stays an index of the      *)
(* history (dedup.rs).                                                     *)
THEOREM WindowTypeCorrect == WindowSpec => []WindowTypeOK
<1>1. WindowInv => WindowTypeOK
  BY DEF WindowInv
<1> QED
  BY <1>1, WindowInvariant, PTL

(* is_duplicate_and_record suppresses exactly the last DedupCapacity keys  *)
(* it let through (dedup.rs): eviction hits the oldest key and no other.   *)
THEOREM SlidingWindowTheorem == WindowSpec => []SlidingWindow
<1>1. WindowInv => SlidingWindow
  BY DEF WindowInv
<1> QED
  BY <1>1, WindowInvariant, PTL

(* The set and the circular history that bounds it hold the same keys,     *)
(* each once, and never more than DedupCapacity (dedup.rs).                *)
THEOREM HistoryTheorem == WindowSpec => []HistoryMatchesSet
<1>1. ASSUME WindowInv PROVE HistoryMatchesSet
  <2> DEFINE n == Len(recorded)
             h == Len(ring_history)
  <2>1. /\ n \in Nat /\ h \in Nat /\ h <= DedupCapacity
        /\ ring_history \in Seq(DuplicateKey) /\ DOMAIN ring_history = 1 .. h
    BY <1>1, LenProperties, WindowFacts
    DEF WindowInv, WindowTypeOK, DedupTypeOK, HistoryFollowsRecorded
  <2>2. \A i \in InWindow : SlotOf(i) \in 1 .. h /\ ring_history[SlotOf(i)] = recorded[i]
    <3>1. ASSUME NEW i \in InWindow PROVE SlotOf(i) \in 1 .. h
      <4>1. CASE n < DedupCapacity
        BY <1>1, <2>1, <4>1, SlotBelow DEF WindowInv, HistoryFollowsRecorded, InWindow, Oldest
      <4>2. CASE n >= DedupCapacity
        BY <1>1, <2>1, <4>2, SlotType DEF WindowInv, HistoryFollowsRecorded, InWindow, Oldest
      <4> QED
        BY <2>1, <4>1, <4>2
    <3> QED
      BY <1>1, <3>1 DEF WindowInv, HistoryFollowsRecorded
  <2>3. \A k \in 1 .. h : \E i \in InWindow : SlotOf(i) = k
    <3>1. CASE n < DedupCapacity
      BY <1>1, <2>1, <3>1, SlotBelow DEF WindowInv, HistoryFollowsRecorded, InWindow, Oldest
    <3>2. CASE n >= DedupCapacity
      <4> DEFINE m == n - DedupCapacity
      <4>1. h = DedupCapacity /\ m \in Nat /\ InWindow = m + 1 .. m + DedupCapacity
        BY <1>1, <2>1, <3>2 DEF WindowInv, HistoryFollowsRecorded, InWindow, Oldest
      <4> HIDE DEF m, h
      <4> QED
        BY <4>1, SlotsCovered
    <3> QED
      BY <2>1, <3>1, <3>2
  <2>4. recent_keys = {recorded[i] : i \in InWindow}
    BY <1>1, WindowFacts DEF WindowInv
  <2>5. recent_keys = Range(ring_history)
    BY <2>1, <2>2, <2>3, <2>4 DEF Range
  <2>6. IsInjective(ring_history)
    <3>1. \A i, j \in InWindow : recorded[i] = recorded[j] => i = j
      BY <1>1 DEF WindowInv, HistoryFollowsRecorded
    <3> QED
      BY <2>1, <2>2, <2>3, <3>1 DEF IsInjective
  <2> QED
    BY <2>1, <2>5, <2>6 DEF HistoryMatchesSet
<1> QED
  BY <1>1, WindowInvariant, PTL
=============================================================================
