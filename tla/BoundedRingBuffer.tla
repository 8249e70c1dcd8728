------------------------- MODULE BoundedRingBuffer --------------------------
(***************************************************************************)
(* The publisher's retention buffer (src/core/src/buffers/ring.rs).  A     *)
(* frame lives in slot sequence % Capacity; min_sequence and max_sequence  *)
(* delimit the window the buffer claims to retain, and get / get_range     *)
(* answer replay requests from that window only.                           *)
(*                                                                         *)
(* `pushed' is a history variable: the frames stored since the last clear. *)
(***************************************************************************)
EXTENDS Frames, FiniteSetsExt

CONSTANT Capacity

ASSUME CapacityAssumption == Capacity \in Nat \ {0}

ASSUME NoneIsNoFrame == None \notin Frame

VARIABLES
    buffer,         \* slot -> Option<OwnedFrame>
    min_sequence,   \* oldest retained sequence, or None
    max_sequence,   \* sequence of the last push, or None
    pushed          \* history: frames pushed since the last clear

ringVars == <<buffer, min_sequence, max_sequence, pushed>>

Slots == 0 .. Capacity - 1

Slot(seq) == seq % Capacity

RingTypeOK ==
    /\ buffer \in [Slots -> OptionFrame]
    /\ min_sequence \in OptionNat
    /\ max_sequence \in OptionNat
    /\ pushed \subseteq Frame

RingInit ==
    /\ buffer = [i \in Slots |-> None]
    /\ min_sequence = None
    /\ max_sequence = None
    /\ pushed = {}

-----------------------------------------------------------------------------
(* Mutant: min advances by one too many.                                   *)
MinAfterTooFar(seq) ==
    IF min_sequence = None THEN seq
    ELSE IF seq - min_sequence >= Capacity THEN seq - Capacity + 2 ELSE min_sequence

(* push: the slot is overwritten whatever it held, max follows the pushed  *)
(* sequence, and min advances once the window is wider than the buffer.    *)
MinAfter(seq) ==
    IF min_sequence = None
    THEN seq
    ELSE IF seq > min_sequence /\ seq - min_sequence >= Capacity
         THEN seq - Capacity + 1
         ELSE min_sequence

Push(frame) ==
    /\ buffer' = [buffer EXCEPT ![Slot(frame.sequence)] = frame]
    /\ min_sequence' = MinAfter(frame.sequence)
    /\ max_sequence' = frame.sequence
    /\ pushed' = pushed \cup {frame}

Clear ==
    /\ buffer' = [i \in Slots |-> None]
    /\ min_sequence' = None
    /\ max_sequence' = None
    /\ pushed' = {}

-----------------------------------------------------------------------------
(* Mutant: the newest sequence is outside the window.                      *)
GetBelowMax(seq) ==
    IF /\ min_sequence # None
       /\ seq >= min_sequence
       /\ seq < max_sequence
    THEN buffer[Slot(seq)]
    ELSE None

(* get: None outside [min, max] and when the slot holds another sequence.  *)
Get(seq) ==
    IF /\ min_sequence # None
       /\ max_sequence # None
       /\ seq >= min_sequence
       /\ seq <= max_sequence
       /\ buffer[Slot(seq)] # None
       /\ buffer[Slot(seq)].sequence = seq
    THEN buffer[Slot(seq)]
    ELSE None

UnwrapOr0(option) == IF option = None THEN 0 ELSE option

(* Mutant: a refusal includes the oldest retained sequence.                *)
NotPred(n) == n

SaturatingPred(n) == IF n = 0 THEN 0 ELSE n - 1

Unavailable(first, last) == [ok |-> FALSE, first |-> first, last |-> last]

Available(frames) == [ok |-> TRUE, frames |-> frames]

(* get_range: the three error returns in the order the code tests them,    *)
(* then the frames of the range in ascending order.                        *)
GetRange(from, to) ==
    LET min_s   == UnwrapOr0(min_sequence)
        max_s   == UnwrapOr0(max_sequence)
        missing == {s \in from .. to : Get(s) = None}
    IN  IF from < min_s THEN Unavailable(from, SaturatingPred(min_s))
        ELSE IF to > max_s THEN Unavailable(max_s + 1, to)
        ELSE IF missing # {} THEN Unavailable(Min(missing), Min(missing))
        ELSE Available([i \in 1 .. (to + 1 - from) |-> Get(from + i - 1)])

-----------------------------------------------------------------------------
(* The publisher's use of the buffer: consecutive sequences, restarted     *)
(* only together with a clear.                                             *)
InOrderPush ==
    \E frame \in Frame :
        /\ max_sequence # None => frame.sequence = max_sequence + 1
        /\ Push(frame)

RingNext == InOrderPush \/ Clear

RingSpec == RingInit /\ [][RingNext]_ringVars

-----------------------------------------------------------------------------
(* A frame is expired once Capacity newer sequences have been pushed.      *)
Expired(frame) == frame.sequence + Capacity <= max_sequence

(* Retention: the buffer answers get with exactly the frame that was       *)
(* pushed under that sequence, for every frame that has not expired, and   *)
(* with None for every expired one: no slot collision loses or resurrects  *)
(* a frame when the window wraps.                                          *)
RetainsNewest ==
    \A frame \in pushed :
        Get(frame.sequence) = IF Expired(frame) THEN None ELSE frame

(* A replay range is served whole or not at all: it is served iff every    *)
(* sequence of it is a pushed, unexpired frame, and what is served are     *)
(* those frames in ascending order.                                        *)
RangeIsWholeOrRefused ==
    \A from, to \in SeqNums :
        from <= to =>
            LET reply == GetRange(from, to)
                live  == {f \in pushed : ~ Expired(f)}
            IN  /\ reply.ok <=> \A s \in from .. to : \E f \in live : f.sequence = s
                /\ reply.ok => \A i \in 1 .. (to + 1 - from) :
                                  /\ reply.frames[i] \in live
                                  /\ reply.frames[i].sequence = from + i - 1

(* The range a refusal reports is not empty, meets the range asked for,    *)
(* and nothing in it can be fetched.                                       *)
RefusalIsAccurate ==
    \A from, to \in SeqNums :
        from <= to /\ ~ GetRange(from, to).ok =>
            LET reply == GetRange(from, to)
            IN  /\ reply.first <= reply.last
                /\ reply.first <= to
                /\ reply.last >= from
                /\ \A s \in reply.first .. reply.last : Get(s) = None

(* The buffer is a window of the newest Capacity frames: seen through get, *)
(* slots, wrap-around and the two indices show nothing but a set of frames *)
(* that loses its oldest when a new one comes.                             *)
Window == INSTANCE RetentionWindow WITH
    retained <- {frame \in Frame : Get(frame.sequence) = frame}

ImplementsWindow == Window!Spec
=============================================================================
