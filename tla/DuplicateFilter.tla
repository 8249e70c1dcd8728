-------------------------- MODULE DuplicateFilter ---------------------------
(***************************************************************************)
(* DuplicateFilter (src/core/src/sequence/dedup.rs): a set of recent       *)
(* duplicate keys, bounded by a circular history that names the key to     *)
(* evict.  A key is (stream_id, publisher_id, sequence); one stream is     *)
(* modelled, so a key is a <<publisher_id, sequence>> pair.                *)
(***************************************************************************)
EXTENDS Frames, SequencesExt

CONSTANT DedupCapacity

ASSUME DedupCapacityAssumption == DedupCapacity \in Nat \ {0}

VARIABLES
    recent_keys,   \* HashSet<DuplicateKey>
    ring_history,  \* Vec<DuplicateKey>, circular once full
    head           \* index of the oldest key once full (from 0)

dedupVars == <<recent_keys, ring_history, head>>

DuplicateKey == PublisherIds \X SeqNums

DedupTypeOK ==
    /\ recent_keys \subseteq DuplicateKey
    /\ ring_history \in Seq(DuplicateKey)
    /\ head \in 0 .. DedupCapacity - 1

DedupInit ==
    /\ recent_keys = {}
    /\ ring_history = <<>>
    /\ head = 0

-----------------------------------------------------------------------------
IsDuplicate(key) == key \in recent_keys

InsertKey(key) ==
    /\ Len(ring_history) < DedupCapacity
    /\ ring_history' = Append(ring_history, key)
    /\ recent_keys' = recent_keys \cup {key}
    /\ UNCHANGED head

(* Mutants: the evicted key stays in the set; the head does not move; the  *)
(* head does not wrap.                                                     *)
EvictWithoutRemoving(key) ==
    /\ Len(ring_history) >= DedupCapacity
    /\ recent_keys' = recent_keys \cup {key}
    /\ ring_history' = [ring_history EXCEPT ![head + 1] = key]
    /\ head' = (head + 1) % DedupCapacity

EvictSameSlot(key) ==
    /\ Len(ring_history) >= DedupCapacity
    /\ recent_keys' = (recent_keys \ {ring_history[head + 1]}) \cup {key}
    /\ ring_history' = [ring_history EXCEPT ![head + 1] = key]
    /\ UNCHANGED head

EvictWithoutWrap(key) ==
    /\ Len(ring_history) >= DedupCapacity
    /\ recent_keys' = (recent_keys \ {ring_history[head + 1]}) \cup {key}
    /\ ring_history' = [ring_history EXCEPT ![head + 1] = key]
    /\ head' = head + 1

EvictAndInsertKey(key) ==
    /\ Len(ring_history) >= DedupCapacity
    /\ recent_keys' = (recent_keys \ {ring_history[head + 1]}) \cup {key}
    /\ ring_history' = [ring_history EXCEPT ![head + 1] = key]
    /\ head' = (head + 1) % DedupCapacity

(* is_duplicate_and_record: a duplicate leaves the filter alone.           *)
IsDuplicateAndRecord(key) ==
    \/ IsDuplicate(key) /\ UNCHANGED dedupVars
    \/ ~ IsDuplicate(key) /\ InsertKey(key)
    \/ ~ IsDuplicate(key) /\ EvictAndInsertKey(key)

ClearFilter ==
    /\ recent_keys' = {}
    /\ ring_history' = <<>>
    /\ head' = 0
=============================================================================
