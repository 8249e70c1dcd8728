-------------------------- MODULE SequenceTracker ---------------------------
(***************************************************************************)
(* StreamSequenceTracker (src/core/src/sequence/tracker.rs): the sequence  *)
(* the receiver expects next and the publisher it expects it from.         *)
(* observe classifies a frame and moves both at once; the statistics       *)
(* counters (total_gaps_detected and the like) steer nothing and are left  *)
(* out.                                                                    *)
(***************************************************************************)
EXTENDS Frames

VARIABLES
    active_publisher_id,  \* Option<u64>
    expected_sequence

trackerVars == <<active_publisher_id, expected_sequence>>

TrackerTypeOK ==
    /\ active_publisher_id \in PublisherIds \cup {None}
    /\ expected_sequence \in Nat \ {0}

TrackerInit ==
    /\ active_publisher_id = None
    /\ expected_sequence = 1

-----------------------------------------------------------------------------
SequenceStatus == {"InOrder", "Gap", "DuplicateOrOld", "PublisherReset"}

(* The status observe returns, read in the state before the call.  A new   *)
(* publisher's first frame is in order only if there was no publisher yet. *)
Status(publisher_id, sequence) ==
    IF active_publisher_id # publisher_id
    THEN IF sequence # 1 THEN "Gap"
         ELSE IF active_publisher_id = None THEN "InOrder" ELSE "PublisherReset"
    ELSE IF sequence = expected_sequence THEN "InOrder"
         ELSE IF sequence < expected_sequence THEN "DuplicateOrOld" ELSE "Gap"

(* The missing range [GapFrom, GapTo] of a Gap.                            *)
GapFrom(publisher_id) ==
    IF active_publisher_id # publisher_id THEN 1 ELSE expected_sequence

GapTo(sequence) == sequence - 1

(* expected_sequence after observe: a gap does not move it within one      *)
(* publisher and rewinds it to 1 on a change of publisher.                 *)
ExpectedAfter(publisher_id, sequence) ==
    IF Status(publisher_id, sequence) \in {"InOrder", "PublisherReset"}
    THEN sequence + 1
    ELSE GapFrom(publisher_id)

(* observe, followed by advance_expected(next): the expected sequence only *)
(* ever moves forward in advance_expected.                                 *)
ObserveThenAdvance(publisher_id, sequence, next) ==
    /\ active_publisher_id' = publisher_id
    /\ expected_sequence' = IF next > ExpectedAfter(publisher_id, sequence)
                            THEN next
                            ELSE ExpectedAfter(publisher_id, sequence)

Observe(publisher_id, sequence) == ObserveThenAdvance(publisher_id, sequence, 0)
=============================================================================
