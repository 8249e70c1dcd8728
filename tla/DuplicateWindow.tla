-------------------------- MODULE DuplicateWindow ---------------------------
(***************************************************************************)
(* The filter under arbitrary calls, next to what it stands for: `recorded'*)
(* is the history of every key it has taken in since the last clear, in    *)
(* order.                                                                  *)
(***************************************************************************)
EXTENDS DuplicateFilter

CONSTANT MaxRecorded  \* bound on the history TLC explores

VARIABLE recorded

windowVars == <<dedupVars, recorded>>

WindowInit == DedupInit /\ recorded = <<>>

Check(key) ==
    /\ Len(recorded) < MaxRecorded
    /\ IsDuplicateAndRecord(key)
    /\ recorded' = IF IsDuplicate(key) THEN recorded ELSE Append(recorded, key)

Forget == ClearFilter /\ recorded' = <<>>

WindowNext == (\E key \in DuplicateKey : Check(key)) \/ Forget

WindowSpec == WindowInit /\ [][WindowNext]_windowVars

WindowTypeOK ==
    /\ DedupTypeOK
    /\ Len(ring_history) <= DedupCapacity
    /\ recorded \in Seq(DuplicateKey)

-----------------------------------------------------------------------------
(* The filter is a sliding window: it suppresses exactly the last          *)
(* DedupCapacity distinct keys it let through.  The circular history       *)
(* evicts the oldest key and never a newer one, and no evicted key stays   *)
(* in the set.                                                             *)
SlidingWindow ==
    LET oldest == IF Len(recorded) > DedupCapacity THEN Len(recorded) - DedupCapacity ELSE 0
    IN  recent_keys = {recorded[i] : i \in oldest + 1 .. Len(recorded)}

(* The set and the history that bounds it agree: one slot per suppressed   *)
(* key, so memory stays within DedupCapacity for ever.                     *)
HistoryMatchesSet ==
    /\ recent_keys = Range(ring_history)
    /\ IsInjective(ring_history)
    /\ Len(ring_history) <= DedupCapacity
=============================================================================
