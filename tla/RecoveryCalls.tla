--------------------------- MODULE RecoveryCalls ----------------------------
(***************************************************************************)
(* The recovery engine under every order of calls its owner can make, with *)
(* time passing in between.  Two history variables record what the         *)
(* properties speak of: the request ids that are over, and the sequences   *)
(* the engine has handed back.                                             *)
(***************************************************************************)
EXTENDS RecoveryEngine

CONSTANT MaxRequests  \* bound on the requests TLC creates

VARIABLES
    closed,       \* history: ids of requests that are no longer outstanding
    handed_back   \* history: sequences drained since the last reset

callsVars == <<recoveryVars, closed, handed_back>>

CallsInit ==
    /\ RecoveryInit
    /\ closed = {}
    /\ handed_back = {}

CloseRemoved == closed' = closed \cup (Outstanding \ Outstanding')

BufferCall(frame) ==
    /\ buffered_out_of_order' = WithFrame(frame)
    /\ UNCHANGED <<state, next_request_id, outstanding_requests, closed, handed_back>>

CreateCall(from, to) ==
    /\ next_request_id <= MaxRequests
    /\ CreateReplayRequest(from, to)
    /\ UNCHANGED <<buffered_out_of_order, closed, handed_back>>

ResponseCall(request_id, frame) ==
    /\ HandleReplayResponse(request_id, frame)
    /\ handed_back' = handed_back \cup
          (IF Completes(request_id, frame) THEN DOMAIN WithFrame(frame) ELSE {})
    /\ CloseRemoved

UnavailableCall(request_id) ==
    /\ HandleReplayUnavailable(request_id)
    /\ CloseRemoved
    /\ UNCHANGED handed_back

DrainContiguousCall(start) ==
    /\ buffered_out_of_order' = WithoutContiguous(start)
    /\ handed_back' = handed_back \cup (start .. ContiguousEnd(start) - 1)
    /\ UNCHANGED <<state, next_request_id, outstanding_requests, closed>>

TimeoutsCall ==
    /\ CheckTimeouts
    /\ CloseRemoved
    /\ UNCHANGED handed_back

ResetCall ==
    /\ Reset
    /\ CloseRemoved
    /\ handed_back' = {}

TickCall == Tick /\ UNCHANGED <<closed, handed_back>>

(* An answer names a request that was made at some time.                   *)
RequestIds == 1 .. next_request_id - 1

CallsNext ==
    \/ \E frame \in Frame : BufferCall(frame)
    \/ \E from, to \in SeqNums : from <= to /\ CreateCall(from, to)
    \/ \E id \in RequestIds, frame \in Frame : ResponseCall(id, frame)
    \/ \E id \in RequestIds : UnavailableCall(id)
    \/ \E start \in SeqNums : DrainContiguousCall(start)
    \/ TimeoutsCall
    \/ ResetCall
    \/ TickCall

CallsSpec == CallsInit /\ [][CallsNext]_callsVars

(* The subscriber's worker calls check_timeouts on every turn of its loop, *)
(* and its socket read times out, so the loop turns for ever; time passes. *)
CallsFairSpec == CallsSpec /\ WF_callsVars(TimeoutsCall) /\ WF_callsVars(TickCall)

CallsTypeOK ==
    /\ RecoveryTypeOK
    /\ closed \subseteq Nat
    /\ handed_back \subseteq Nat

-----------------------------------------------------------------------------
(* The state the application would read tells the truth about the requests:*)
(* Live with nothing outstanding, Recovering with something outstanding.   *)
(* Requests are opened and closed by five operations in any order.         *)
StateMatchesRequests ==
    /\ state = "Live" => Outstanding = {}
    /\ state = "Recovering" => Outstanding # {}

(* A request that is over never comes back: its id is not given to another *)
(* request, not even across reset, so a late answer to it is ignored.      *)
ClosedStaysClosed == closed \cap Outstanding = {}

(* A sequence that counts as received for an outstanding request is still  *)
(* buffered or has been handed back: draining for one request never makes  *)
(* another one complete without its frames.                                *)
ReceivedIsNotForgotten ==
    \A id \in Outstanding :
        outstanding_requests[id].received_sequences \subseteq Buffered \cup handed_back

(* An outstanding request always lacks some sequence of its range: one     *)
(* that has received everything is closed in the same step.                *)
OutstandingIsIncomplete ==
    \A id \in Outstanding :
        LET request == outstanding_requests[id]
        IN  \E s \in request.from_sequence .. request.to_sequence :
               s \notin request.received_sequences

(* The configured limits hold under every order of calls.                  *)
WithinLimits ==
    /\ Cardinality(Outstanding) <= MaxOutstandingRequests
    /\ \A id \in Outstanding : outstanding_requests[id].retries_attempted <= MaxRetries

(* "It must never loop indefinitely": every request ends, by completion,   *)
(* refusal, reset or exhausted retries, even if no answer ever comes.      *)
EveryRequestEnds ==
    \A id \in 1 .. MaxRequests : id \in Outstanding ~> id \notin Outstanding
=============================================================================
