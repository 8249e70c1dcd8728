--------------------------- MODULE RecoveryEngine ---------------------------
(***************************************************************************)
(* RecoveryEngine (src/core/src/recovery/engine.rs): the receiver's        *)
(* outstanding replay requests, their timeouts and retries, and the frames *)
(* that wait for a gap to close.  The two maps are functions on the keys   *)
(* they hold.  A request's age stands for now - last_sent_at in ticks,     *)
(* saturated at RetryTimeout, the only threshold the code compares it to.  *)
(* created_at is never read and is left out.                               *)
(***************************************************************************)
EXTENDS Frames, SequencesExt

CONSTANTS
    RetryTimeout,            \* RecoveryConfig.retry_timeout, in ticks
    MaxRetries,              \* RecoveryConfig.max_retries
    MaxReplayRange,          \* RecoveryConfig.max_replay_range
    MaxOutstandingRequests   \* RecoveryConfig.max_outstanding_requests

ASSUME RecoveryAssumption ==
    /\ RetryTimeout \in Nat
    /\ MaxRetries \in Nat
    /\ MaxReplayRange \in Nat
    /\ MaxOutstandingRequests \in Nat

VARIABLES
    state,                  \* RecoveryState
    next_request_id,
    outstanding_requests,   \* request_id -> ActiveReplayRequest
    buffered_out_of_order   \* sequence -> OwnedFrame

recoveryVars == <<state, next_request_id, outstanding_requests, buffered_out_of_order>>

ActiveReplayRequest ==
    [from_sequence : Nat, to_sequence : Nat, age : 0 .. RetryTimeout,
     retries_attempted : Nat, received_sequences : SUBSET Nat]

Outstanding == DOMAIN outstanding_requests

Buffered == DOMAIN buffered_out_of_order

RecoveryTypeOK ==
    /\ state \in {"Live", "Recovering", "RecoveryFailed"}
    /\ next_request_id \in Nat \ {0}
    /\ outstanding_requests \in [Outstanding -> ActiveReplayRequest]
    /\ Outstanding \subseteq 1 .. next_request_id - 1
    /\ buffered_out_of_order \in [Buffered -> Frame]
    /\ \A s \in Buffered : buffered_out_of_order[s].sequence = s

RecoveryInit ==
    /\ state = "Live"
    /\ next_request_id = 1
    /\ outstanding_requests = <<>>
    /\ buffered_out_of_order = <<>>

-----------------------------------------------------------------------------
(* HashMap and BTreeMap insert and remove.                                 *)
MapInsert(map, key, value) ==
    [k \in DOMAIN map \cup {key} |-> IF k = key THEN value ELSE map[k]]

MapRemove(map, keys) == [k \in DOMAIN map \ keys |-> map[k]]

(* buffer_frame *)
WithFrame(frame) == MapInsert(buffered_out_of_order, frame.sequence, frame)

(* Mutant: one request more than the limit.                                *)
RequestAcceptedAtLimit(from, to) ==
    /\ (IF to >= from THEN to - from ELSE 0) + 1 <= MaxReplayRange
    /\ Cardinality(Outstanding) <= MaxOutstandingRequests

(* create_replay_request refuses a range that is too long, then a request  *)
(* too many; both errors leave the engine as it was.                       *)
RequestAccepted(from, to) ==
    /\ (IF to >= from THEN to - from ELSE 0) + 1 <= MaxReplayRange
    /\ Cardinality(Outstanding) < MaxOutstandingRequests

NewRequest(from, to) ==
    [from_sequence |-> from, to_sequence |-> to, age |-> 0,
     retries_attempted |-> 0, received_sequences |-> {}]

(* Mutant: the id is given out again.                                      *)
CreateWithSameId(from, to) ==
    /\ outstanding_requests' =
          MapInsert(outstanding_requests, next_request_id, NewRequest(from, to))
    /\ state' = "Recovering"
    /\ UNCHANGED next_request_id

CreateReplayRequest(from, to) ==
    IF RequestAccepted(from, to)
    THEN /\ outstanding_requests' =
                MapInsert(outstanding_requests, next_request_id, NewRequest(from, to))
         /\ next_request_id' = next_request_id + 1
         /\ state' = "Recovering"
    ELSE UNCHANGED <<outstanding_requests, next_request_id, state>>

-----------------------------------------------------------------------------
(* drain_buffered: every buffered frame in ascending order (BTreeMap       *)
(* values), whether or not the sequences are contiguous.                   *)
InOrderOf(map) ==
    LET rank(k) == Cardinality({j \in DOMAIN map : j < k})
    IN  [i \in 1 .. Cardinality(DOMAIN map) |->
            map[CHOOSE k \in DOMAIN map : rank(k) = i - 1]]

(* drain_contiguous(start): the frames start, start + 1, ... up to the     *)
(* first sequence that is not buffered.                                    *)
ContiguousEnd(start) ==
    CHOOSE e \in {start} \cup {s + 1 : s \in Buffered} :
        /\ e >= start
        /\ e \notin Buffered
        /\ \A s \in start .. e - 1 : s \in Buffered

(* Mutants: drain_buffered where drain_contiguous is meant.                *)
EveryBuffered(start) == InOrderOf(buffered_out_of_order)

NothingBuffered(start) == <<>>

Contiguous(start) ==
    [i \in 1 .. ContiguousEnd(start) - start |-> buffered_out_of_order[start + i - 1]]

WithoutContiguous(start) ==
    MapRemove(buffered_out_of_order, start .. ContiguousEnd(start) - 1)

-----------------------------------------------------------------------------
(* handle_replay_response: an answer to a request that is not outstanding  *)
(* is ignored.  Otherwise the frame is buffered, also when it is outside   *)
(* the requested range, and the request is closed once its whole range has *)
(* been received.                                                          *)
ReceivedWith(request, seq) ==
    request.received_sequences \cup
        (IF seq \in request.from_sequence .. request.to_sequence THEN {seq} ELSE {})

Counted(request, seq) ==
    [request EXCEPT !.received_sequences = ReceivedWith(request, seq)]

(* Mutant: completeness is tested before the frame is counted.             *)
CompletesWithoutFrame(request_id, frame) ==
    /\ request_id \in Outstanding
    /\ LET request == outstanding_requests[request_id]
       IN  request.from_sequence .. request.to_sequence
              \subseteq request.received_sequences

Completes(request_id, frame) ==
    /\ request_id \in Outstanding
    /\ LET request == outstanding_requests[request_id]
       IN  request.from_sequence .. request.to_sequence
              \subseteq ReceivedWith(request, frame.sequence)

(* The frames handle_replay_response hands back, read before the call.     *)
Drained(request_id, frame) ==
    IF Completes(request_id, frame) THEN InOrderOf(WithFrame(frame)) ELSE <<>>

HandleReplayResponse(request_id, frame) ==
    \/ /\ request_id \notin Outstanding
       /\ UNCHANGED recoveryVars
    \/ /\ request_id \in Outstanding
       /\ ~ Completes(request_id, frame)
       /\ outstanding_requests' =
             [outstanding_requests EXCEPT ![request_id] = Counted(@, frame.sequence)]
       /\ buffered_out_of_order' = WithFrame(frame)
       /\ UNCHANGED <<state, next_request_id>>
    \/ /\ Completes(request_id, frame)
       /\ outstanding_requests' = MapRemove(outstanding_requests, {request_id})
       /\ state' = IF Outstanding = {request_id} THEN "Live" ELSE state
       /\ buffered_out_of_order' = <<>>
       /\ UNCHANGED next_request_id

(* Mutant: a refused request ends like a completed one.                    *)
UnavailableGoesLive(request_id) ==
    /\ outstanding_requests' = MapRemove(outstanding_requests, {request_id})
    /\ state' = IF Outstanding \subseteq {request_id} THEN "Live" ELSE state
    /\ UNCHANGED <<next_request_id, buffered_out_of_order>>

(* handle_replay_unavailable: the state changes whether or not the request *)
(* is outstanding.                                                         *)
HandleReplayUnavailable(request_id) ==
    /\ outstanding_requests' = MapRemove(outstanding_requests, {request_id})
    /\ state' = "RecoveryFailed"
    /\ UNCHANGED <<next_request_id, buffered_out_of_order>>

-----------------------------------------------------------------------------
Due == {id \in Outstanding : outstanding_requests[id].age >= RetryTimeout}

Exhausted == {id \in Due : outstanding_requests[id].retries_attempted >= MaxRetries}

(* Mutant: retries are not counted.                                        *)
AfterUncountedRetries ==
    [id \in Outstanding |->
        IF id \in Due \ Exhausted
        THEN [outstanding_requests[id] EXCEPT !.age = 0]
        ELSE outstanding_requests[id]]

(* check_timeouts counts a retry for every request that is due and not     *)
(* exhausted, then fails at most one exhausted request; which one depends  *)
(* on HashMap iteration order.  The retries it returns become datagrams,   *)
(* which the subscriber's worker sends.                                    *)
AfterRetries ==
    [id \in Outstanding |->
        IF id \in Due \ Exhausted
        THEN [outstanding_requests[id] EXCEPT !.age = 0, !.retries_attempted = @ + 1]
        ELSE outstanding_requests[id]]

CheckTimeouts ==
    \/ /\ Exhausted = {}
       /\ outstanding_requests' = AfterRetries
       /\ UNCHANGED <<state, next_request_id, buffered_out_of_order>>
    \/ \E id \in Exhausted :
          /\ outstanding_requests' = MapRemove(AfterRetries, {id})
          /\ state' = "RecoveryFailed"
          /\ UNCHANGED <<next_request_id, buffered_out_of_order>>

(* Mutants: reset restarts the ids; reset keeps the requests.              *)
ResetWithIds ==
    /\ state' = "Live"
    /\ outstanding_requests' = <<>>
    /\ buffered_out_of_order' = <<>>
    /\ next_request_id' = 1

ResetKeepsRequests ==
    /\ state' = "Live"
    /\ buffered_out_of_order' = <<>>
    /\ UNCHANGED <<next_request_id, outstanding_requests>>

(* reset keeps next_request_id.                                            *)
Reset ==
    /\ state' = "Live"
    /\ outstanding_requests' = <<>>
    /\ buffered_out_of_order' = <<>>
    /\ UNCHANGED next_request_id

(* Time passing (Instant::now).                                            *)
Tick ==
    /\ \E id \in Outstanding : outstanding_requests[id].age < RetryTimeout
    /\ outstanding_requests' =
          [id \in Outstanding |->
              [outstanding_requests[id] EXCEPT
                  !.age = IF @ < RetryTimeout THEN @ + 1 ELSE @]]
    /\ UNCHANGED <<state, next_request_id, buffered_out_of_order>>
=============================================================================
