------------------------ MODULE RecoveryCalls_proofs ------------------------
(***************************************************************************)
(* The recovery engine keeps its requests, its buffer and its state        *)
(* consistent under every order of calls, for every configuration.         *)
(***************************************************************************)
EXTENDS RecoveryCalls, FiniteSetTheorems, TLAPS

USE FramesAssumption, RecoveryAssumption

(* Ids of closed requests were given out, so a new id is none of them.     *)
ClosedWereMade == closed \subseteq 1 .. next_request_id - 1

RequestsInv ==
    /\ RecoveryTypeOK
    /\ StateMatchesRequests
    /\ ClosedWereMade
    /\ ClosedStaysClosed
    /\ OutstandingIsIncomplete
    /\ WithinLimits

CallsInv == RequestsInv /\ ReceivedIsNotForgotten

-----------------------------------------------------------------------------
(* The maps.                                                               *)
LEMMA EmptyMap == ASSUME NEW S PROVE DOMAIN <<>> = {} /\ <<>> \in [{} -> S]
OBVIOUS

LEMMA InsertedType ==
    ASSUME NEW S, NEW map, map \in [DOMAIN map -> S], NEW key, NEW value \in S
    PROVE  MapInsert(map, key, value) \in [DOMAIN map \cup {key} -> S]
BY DEF MapInsert

LEMMA RemovedMap ==
    ASSUME NEW map, NEW keys
    PROVE  /\ DOMAIN MapRemove(map, keys) = DOMAIN map \ keys
           /\ \A k \in DOMAIN map \ keys : MapRemove(map, keys)[k] = map[k]
BY DEF MapRemove

LEMMA RemovedType ==
    ASSUME NEW S, NEW map, map \in [DOMAIN map -> S], NEW keys
    PROVE  MapRemove(map, keys) \in [DOMAIN map \ keys -> S]
BY DEF MapRemove

(* buffer_frame keeps the buffer well formed.                              *)
BufferTypeOK ==
    /\ buffered_out_of_order \in [Buffered -> Frame]
    /\ \A s \in Buffered : buffered_out_of_order[s].sequence = s

LEMMA BufferWithFrame ==
    ASSUME BufferTypeOK, NEW frame \in Frame, buffered_out_of_order' = WithFrame(frame)
    PROVE  BufferTypeOK' /\ Buffered' = Buffered \cup {frame.sequence}
<1>1. /\ DOMAIN WithFrame(frame) = Buffered \cup {frame.sequence}
      /\ WithFrame(frame)[frame.sequence] = frame
      /\ \A k \in Buffered \ {frame.sequence} :
            WithFrame(frame)[k] = buffered_out_of_order[k]
  BY DEF WithFrame, MapInsert, Buffered
<1>2. WithFrame(frame) \in [Buffered \cup {frame.sequence} -> Frame]
  BY InsertedType DEF WithFrame, Buffered, BufferTypeOK
<1> QED
  BY <1>1, <1>2 DEF BufferTypeOK, Buffered

LEMMA BufferRemoved ==
    ASSUME BufferTypeOK, NEW keys,
           buffered_out_of_order' = MapRemove(buffered_out_of_order, keys)
    PROVE  BufferTypeOK' /\ Buffered' = Buffered \ keys
<1>1. /\ DOMAIN MapRemove(buffered_out_of_order, keys) = Buffered \ keys
      /\ \A k \in Buffered \ keys :
            MapRemove(buffered_out_of_order, keys)[k] = buffered_out_of_order[k]
  BY RemovedMap DEF Buffered
<1>2. MapRemove(buffered_out_of_order, keys) \in [Buffered \ keys -> Frame]
  BY RemovedType DEF Buffered, BufferTypeOK
<1> QED
  BY <1>1, <1>2 DEF BufferTypeOK, Buffered

LEMMA BufferEmptied ==
    ASSUME buffered_out_of_order' = <<>>
    PROVE  BufferTypeOK' /\ Buffered' = {}
BY EmptyMap DEF BufferTypeOK, Buffered

-----------------------------------------------------------------------------
(* The requests.  RequestOK is what the invariant says of one request.     *)
RequestOK(request) ==
    /\ request \in ActiveReplayRequest
    /\ \E s \in request.from_sequence .. request.to_sequence :
          s \notin request.received_sequences
    /\ request.retries_attempted <= MaxRetries

LEMMA RequestsInvParts ==
    RequestsInv <=>
        /\ state \in {"Live", "Recovering", "RecoveryFailed"}
        /\ next_request_id \in Nat \ {0}
        /\ outstanding_requests \in [Outstanding -> ActiveReplayRequest]
        /\ Outstanding \subseteq 1 .. next_request_id - 1
        /\ BufferTypeOK
        /\ StateMatchesRequests
        /\ ClosedWereMade
        /\ ClosedStaysClosed
        /\ \A id \in Outstanding : RequestOK(outstanding_requests[id])
        /\ Cardinality(Outstanding) <= MaxOutstandingRequests
BY DEF RequestsInv, RecoveryTypeOK, OutstandingIsIncomplete, WithinLimits, BufferTypeOK,
       RequestOK

(* The outstanding ids are finitely many; fewer of them are no more.       *)
LEMMA OutstandingFinite ==
    ASSUME next_request_id \in Nat \ {0}, Outstanding \subseteq 1 .. next_request_id - 1
    PROVE  IsFiniteSet(Outstanding) /\ Cardinality(Outstanding) \in Nat
<1>1. IsFiniteSet(1 .. next_request_id - 1)
  BY FS_Interval
<1>2. IsFiniteSet(Outstanding)
  BY <1>1, FS_Subset
<1> QED
  BY <1>2, FS_CardinalityType

LEMMA FewerRequests ==
    ASSUME RequestsInv, Outstanding' \subseteq Outstanding
    PROVE  Cardinality(Outstanding') <= MaxOutstandingRequests
<1>1. IsFiniteSet(Outstanding) /\ Cardinality(Outstanding) \in Nat
  BY RequestsInvParts, OutstandingFinite
<1>2. Cardinality(Outstanding') <= Cardinality(Outstanding) /\ Cardinality(Outstanding') \in Nat
  BY <1>1, FS_Subset, FS_CardinalityType
<1> QED
  BY <1>1, <1>2, RequestsInvParts

(* Requests are only closed, or changed within RequestOK.                  *)
LEMMA RequestsOnlyClose ==
    ASSUME RequestsInv,
           outstanding_requests' \in [Outstanding' -> ActiveReplayRequest],
           Outstanding' \subseteq Outstanding,
           \A id \in Outstanding' : RequestOK(outstanding_requests'[id]),
           closed' = closed \cup (Outstanding \ Outstanding'),
           next_request_id' = next_request_id,
           state' \in {"Live", "Recovering", "RecoveryFailed"},
           StateMatchesRequests',
           BufferTypeOK'
    PROVE  RequestsInv'
<1>1. Cardinality(Outstanding)' <= MaxOutstandingRequests
  BY FewerRequests
<1>2. ClosedWereMade' /\ ClosedStaysClosed'
  BY RequestsInvParts DEF ClosedWereMade, ClosedStaysClosed
<1>3. (\A id \in Outstanding : RequestOK(outstanding_requests[id]))'
  BY DEF RequestOK
<1>4. (Outstanding \subseteq 1 .. next_request_id - 1)' /\ (next_request_id \in Nat \ {0})'
  BY RequestsInvParts
<1> QED
  BY <1>1, <1>2, <1>3, <1>4
  DEF RequestsInv, RecoveryTypeOK, OutstandingIsIncomplete, WithinLimits, BufferTypeOK,
      RequestOK
-----------------------------------------------------------------------------
(* One lemma per call.                                                     *)
LEMMA InvInit == CallsInit => CallsInv
<1> SUFFICES ASSUME CallsInit PROVE CallsInv
  OBVIOUS
<1>1. /\ Outstanding = {} /\ Buffered = {} /\ closed = {}
      /\ state = "Live" /\ next_request_id = 1
      /\ outstanding_requests \in [Outstanding -> ActiveReplayRequest]
      /\ buffered_out_of_order \in [Buffered -> Frame]
  BY EmptyMap DEF CallsInit, RecoveryInit, Outstanding, Buffered
<1>2. Cardinality(Outstanding) = 0
  BY <1>1, FS_EmptySet
<1>3. RequestsInv
  BY <1>1, <1>2, RequestsInvParts
  DEF BufferTypeOK, StateMatchesRequests, ClosedWereMade, ClosedStaysClosed
<1> QED
  BY <1>1, <1>3 DEF CallsInv, ReceivedIsNotForgotten

LEMMA InvBuffer ==
    ASSUME CallsInv, NEW frame \in Frame, BufferCall(frame)
    PROVE  CallsInv'
<1>1. BufferTypeOK' /\ Buffered' = Buffered \cup {frame.sequence}
  BY BufferWithFrame, RequestsInvParts DEF CallsInv, BufferCall
<1>2. UNCHANGED <<state, next_request_id, outstanding_requests, closed, handed_back>>
  BY DEF BufferCall
<1>3. RequestsInv'
  BY <1>1, <1>2 DEF CallsInv, RequestsInv, RecoveryTypeOK, BufferTypeOK, StateMatchesRequests,
     ClosedWereMade, ClosedStaysClosed, OutstandingIsIncomplete, WithinLimits, Outstanding
<1>4. ReceivedIsNotForgotten'
  BY <1>1, <1>2 DEF CallsInv, ReceivedIsNotForgotten, Outstanding
<1> QED
  BY <1>3, <1>4 DEF CallsInv

LEMMA InvDrainContiguous ==
    ASSUME CallsInv, NEW start \in SeqNums, DrainContiguousCall(start)
    PROVE  CallsInv'
<1> DEFINE drained == start .. ContiguousEnd(start) - 1
<1>1. BufferTypeOK' /\ Buffered' = Buffered \ drained
  BY BufferRemoved, RequestsInvParts DEF CallsInv, DrainContiguousCall, WithoutContiguous
<1>2. /\ UNCHANGED <<state, next_request_id, outstanding_requests, closed>>
      /\ handed_back' = handed_back \cup drained
  BY DEF DrainContiguousCall
<1> HIDE DEF drained
<1>3. RequestsInv'
  BY <1>1, <1>2 DEF CallsInv, RequestsInv, RecoveryTypeOK, BufferTypeOK, StateMatchesRequests,
     ClosedWereMade, ClosedStaysClosed, OutstandingIsIncomplete, WithinLimits, Outstanding
<1>4. ReceivedIsNotForgotten'
  BY <1>1, <1>2 DEF CallsInv, ReceivedIsNotForgotten, Outstanding
<1> QED
  BY <1>3, <1>4 DEF CallsInv

LEMMA InvCreate ==
    ASSUME CallsInv, NEW from \in SeqNums, NEW to \in SeqNums, from <= to,
           CreateCall(from, to)
    PROVE  CallsInv'
<1>1. UNCHANGED <<buffered_out_of_order, closed, handed_back>>
  BY DEF CreateCall
<1>2. CASE ~ RequestAccepted(from, to)
  <2>1. UNCHANGED <<outstanding_requests, next_request_id, state>>
    BY <1>2 DEF CreateCall, CreateReplayRequest
  <2> QED
    BY <1>1, <2>1 DEF CallsInv, RequestsInv, RecoveryTypeOK, StateMatchesRequests,
       ClosedWereMade, ClosedStaysClosed, OutstandingIsIncomplete, WithinLimits,
       ReceivedIsNotForgotten, Outstanding, Buffered
<1>3. CASE RequestAccepted(from, to)
  <2> DEFINE id == next_request_id
             request == NewRequest(from, to)
  <2>1. /\ outstanding_requests' = MapInsert(outstanding_requests, id, request)
        /\ next_request_id' = id + 1 /\ state' = "Recovering"
    BY <1>3 DEF CreateCall, CreateReplayRequest
  <2>2. request \in ActiveReplayRequest /\ request.received_sequences = {} /\ RequestOK(request)
    BY DEF NewRequest, ActiveReplayRequest, RequestOK
  <2>3. id \in Nat \ {0} /\ id \notin Outstanding /\ id \notin closed
    BY RequestsInvParts DEF CallsInv, ClosedWereMade
  <2> HIDE DEF request
  <2>4. /\ Outstanding' = Outstanding \cup {id}
        /\ outstanding_requests'[id] = request
        /\ \A k \in Outstanding : outstanding_requests'[k] = outstanding_requests[k]
    BY <2>1, <2>3 DEF MapInsert, Outstanding
  <2>5. outstanding_requests' \in [Outstanding' -> ActiveReplayRequest]
    BY <2>1, <2>2, <2>4, InsertedType, RequestsInvParts DEF CallsInv, Outstanding
  <2>6. (Cardinality(Outstanding) <= MaxOutstandingRequests)'
    <3>1. IsFiniteSet(Outstanding) /\ Cardinality(Outstanding) \in Nat
      BY RequestsInvParts, OutstandingFinite DEF CallsInv
    <3>2. Cardinality(Outstanding \cup {id}) = Cardinality(Outstanding) + 1
      BY <2>3, <3>1, FS_AddElement
    <3>3. Cardinality(Outstanding) < MaxOutstandingRequests
      BY <1>3 DEF RequestAccepted
    <3> QED
      BY <2>4, <3>1, <3>2, <3>3
  <2>7. (\A k \in Outstanding : RequestOK(outstanding_requests[k]))'
    BY <2>2, <2>4, RequestsInvParts DEF CallsInv, RequestOK
  <2>8. (Outstanding \subseteq 1 .. next_request_id - 1)' /\ (next_request_id \in Nat \ {0})'
    BY <2>1, <2>3, <2>4, RequestsInvParts DEF CallsInv
  <2>9. ClosedWereMade' /\ ClosedStaysClosed' /\ StateMatchesRequests'
    BY <1>1, <2>1, <2>3, <2>4
    DEF CallsInv, RequestsInv, ClosedWereMade, ClosedStaysClosed, StateMatchesRequests
  <2>10. RequestsInv'
    BY <1>1, <2>1, <2>5, <2>6, <2>7, <2>8, <2>9
    DEF CallsInv, RequestsInv, RecoveryTypeOK, OutstandingIsIncomplete, WithinLimits,
        RequestOK, Buffered
  <2>11. ReceivedIsNotForgotten'
    BY <1>1, <2>2, <2>4 DEF CallsInv, ReceivedIsNotForgotten, Buffered
  <2> QED
    BY <2>10, <2>11 DEF CallsInv
<1> QED
  BY <1>2, <1>3
(* Calls that leave the buffer and the received sequences alone.           *)
LEMMA InvClosing ==
    ASSUME CallsInv,
           UNCHANGED <<next_request_id, buffered_out_of_order, handed_back>>,
           closed' = closed \cup (Outstanding \ Outstanding'),
           outstanding_requests' \in [Outstanding' -> ActiveReplayRequest],
           Outstanding' \subseteq Outstanding,
           \A id \in Outstanding' :
              /\ RequestOK(outstanding_requests'[id])
              /\ outstanding_requests'[id].received_sequences =
                    outstanding_requests[id].received_sequences,
           state' \in {"Live", "Recovering", "RecoveryFailed"},
           StateMatchesRequests'
    PROVE  CallsInv'
<1>1. BufferTypeOK' /\ Buffered' = Buffered
  BY RequestsInvParts DEF CallsInv, BufferTypeOK, Buffered
<1>2. RequestsInv'
  BY <1>1, RequestsOnlyClose DEF CallsInv
<1>3. ReceivedIsNotForgotten'
  BY <1>1 DEF CallsInv, ReceivedIsNotForgotten
<1> QED
  BY <1>2, <1>3 DEF CallsInv

LEMMA InvUnavailable ==
    ASSUME CallsInv, NEW request_id, UnavailableCall(request_id)
    PROVE  CallsInv'
<1>1. /\ outstanding_requests' = MapRemove(outstanding_requests, {request_id})
      /\ state' = "RecoveryFailed"
      /\ UNCHANGED <<next_request_id, buffered_out_of_order, handed_back>>
      /\ closed' = closed \cup (Outstanding \ Outstanding')
  BY DEF UnavailableCall, HandleReplayUnavailable, CloseRemoved
<1>2. /\ Outstanding' = Outstanding \ {request_id}
      /\ \A id \in Outstanding' : outstanding_requests'[id] = outstanding_requests[id]
  BY <1>1 DEF MapRemove, Outstanding
<1>3. outstanding_requests' \in [Outstanding' -> ActiveReplayRequest]
  BY <1>1, <1>2, RemovedType, RequestsInvParts DEF CallsInv, Outstanding
<1>4. StateMatchesRequests'
  BY <1>1 DEF StateMatchesRequests
<1>5. \A id \in Outstanding' : RequestOK(outstanding_requests'[id])
  BY <1>2, RequestsInvParts DEF CallsInv
<1> QED
  BY <1>1, <1>2, <1>3, <1>4, <1>5, InvClosing

LEMMA InvReset ==
    ASSUME CallsInv, ResetCall
    PROVE  CallsInv'
<1>1. /\ outstanding_requests' = <<>> /\ buffered_out_of_order' = <<>>
      /\ state' = "Live" /\ next_request_id' = next_request_id
      /\ closed' = closed \cup (Outstanding \ Outstanding')
  BY DEF ResetCall, Reset, CloseRemoved
<1>2. Outstanding' = {} /\ outstanding_requests' \in [Outstanding' -> ActiveReplayRequest]
  BY <1>1, EmptyMap DEF Outstanding
<1>3. BufferTypeOK'
  BY <1>1, BufferEmptied
<1>4. StateMatchesRequests'
  BY <1>1, <1>2 DEF StateMatchesRequests
<1>5. RequestsInv'
  BY <1>1, <1>2, <1>3, <1>4, RequestsOnlyClose DEF CallsInv
<1>6. ReceivedIsNotForgotten'
  BY <1>2 DEF ReceivedIsNotForgotten
<1> QED
  BY <1>5, <1>6 DEF CallsInv

LEMMA InvTick ==
    ASSUME CallsInv, TickCall
    PROVE  CallsInv'
<1>1. /\ outstanding_requests' =
           [id \in Outstanding |->
              [outstanding_requests[id] EXCEPT
                  !.age = IF @ < RetryTimeout THEN @ + 1 ELSE @]]
      /\ UNCHANGED <<state, next_request_id, buffered_out_of_order, handed_back, closed>>
  BY DEF TickCall, Tick
<1>2. Outstanding' = Outstanding
  BY <1>1 DEF Outstanding
<1>3. ASSUME NEW id \in Outstanding
      PROVE  /\ RequestOK(outstanding_requests'[id])
             /\ outstanding_requests'[id].received_sequences =
                   outstanding_requests[id].received_sequences
  <2>1. RequestOK(outstanding_requests[id])
    BY RequestsInvParts DEF CallsInv
  <2> QED
    BY <1>1, <2>1 DEF RequestOK, ActiveReplayRequest
<1>4. outstanding_requests' \in [Outstanding' -> ActiveReplayRequest]
  BY <1>1, <1>2, <1>3 DEF RequestOK
<1>5. state \in {"Live", "Recovering", "RecoveryFailed"} /\ StateMatchesRequests'
  BY <1>1, <1>2 DEF CallsInv, RequestsInv, RecoveryTypeOK, StateMatchesRequests
<1> QED
  BY <1>1, <1>2, <1>3, <1>4, <1>5, InvClosing

(* A retry changes a request's age and its count, and nothing else.        *)
LEMMA Retried ==
    ASSUME NEW r \in ActiveReplayRequest, NEW q,
           q = [r EXCEPT !.age = 0, !.retries_attempted = @ + 1]
    PROVE  /\ q \in ActiveReplayRequest
           /\ q.from_sequence = r.from_sequence /\ q.to_sequence = r.to_sequence
           /\ q.received_sequences = r.received_sequences
           /\ q.retries_attempted = r.retries_attempted + 1
<1> DEFINE aged == [r EXCEPT !.age = 0]
<1>1. /\ aged \in ActiveReplayRequest
      /\ aged.from_sequence = r.from_sequence /\ aged.to_sequence = r.to_sequence
      /\ aged.received_sequences = r.received_sequences
      /\ aged.retries_attempted = r.retries_attempted
  BY DEF ActiveReplayRequest
<1>2. q = [aged EXCEPT !.retries_attempted = r.retries_attempted + 1]
  BY Zenon
<1> HIDE DEF aged
<1> QED
  BY <1>1, <1>2 DEF ActiveReplayRequest

(* check_timeouts: a retried request has not exhausted its retries.        *)
LEMMA AfterRetriesOK ==
    ASSUME CallsInv, NEW id \in Outstanding
    PROVE  /\ RequestOK(AfterRetries[id])
           /\ AfterRetries[id].received_sequences = outstanding_requests[id].received_sequences
<1>1. RequestOK(outstanding_requests[id])
  BY RequestsInvParts DEF CallsInv
<1>2. CASE id \in Due \ Exhausted
  <2>1. outstanding_requests[id].retries_attempted < MaxRetries
    BY <1>1, <1>2 DEF Exhausted, RequestOK, ActiveReplayRequest
  <2>2. AfterRetries[id] =
           [outstanding_requests[id] EXCEPT !.age = 0, !.retries_attempted = @ + 1]
    BY <1>2 DEF AfterRetries
  <2>3. /\ AfterRetries[id] \in ActiveReplayRequest
        /\ AfterRetries[id].from_sequence = outstanding_requests[id].from_sequence
        /\ AfterRetries[id].to_sequence = outstanding_requests[id].to_sequence
        /\ AfterRetries[id].received_sequences = outstanding_requests[id].received_sequences
        /\ AfterRetries[id].retries_attempted = outstanding_requests[id].retries_attempted + 1
    BY <1>1, <2>2, Retried DEF RequestOK
  <2>4. AfterRetries[id].retries_attempted <= MaxRetries
    BY <1>1, <2>1, <2>3 DEF RequestOK, ActiveReplayRequest
  <2> QED
    BY <1>1, <2>3, <2>4 DEF RequestOK
<1>3. CASE id \notin Due \ Exhausted
  BY <1>1, <1>3 DEF AfterRetries
<1> QED
  BY <1>2, <1>3

LEMMA InvTimeouts ==
    ASSUME CallsInv, TimeoutsCall
    PROVE  CallsInv'
<1>1. /\ UNCHANGED <<next_request_id, buffered_out_of_order, handed_back>>
      /\ closed' = closed \cup (Outstanding \ Outstanding')
  BY DEF TimeoutsCall, CheckTimeouts, CloseRemoved
<1>2. DOMAIN AfterRetries = Outstanding
  BY DEF AfterRetries
<1>3. AfterRetries \in [Outstanding -> ActiveReplayRequest]
  BY AfterRetriesOK DEF AfterRetries, RequestOK
<1>4. CASE outstanding_requests' = AfterRetries /\ UNCHANGED state
  <2>1. Outstanding' = Outstanding
    BY <1>2, <1>4 DEF Outstanding
  <2>2. state \in {"Live", "Recovering", "RecoveryFailed"} /\ StateMatchesRequests'
    BY <1>4, <2>1 DEF CallsInv, RequestsInv, RecoveryTypeOK, StateMatchesRequests
  <2> QED
    BY <1>1, <1>3, <1>4, <2>1, <2>2, AfterRetriesOK, InvClosing
<1>5. CASE \E id \in Exhausted : /\ outstanding_requests' = MapRemove(AfterRetries, {id})
                                 /\ state' = "RecoveryFailed"
  <2>1. PICK id \in Exhausted : outstanding_requests' = MapRemove(AfterRetries, {id})
    BY <1>5
  <2>2. /\ Outstanding' = Outstanding \ {id}
        /\ \A k \in Outstanding' : outstanding_requests'[k] = AfterRetries[k]
    BY <1>2, <2>1 DEF MapRemove, Outstanding
  <2>3. outstanding_requests' \in [Outstanding' -> ActiveReplayRequest]
    BY <1>2, <1>3, <2>1, <2>2, RemovedType
  <2>4. StateMatchesRequests'
    BY <1>5 DEF StateMatchesRequests
  <2> QED
    BY <1>1, <1>5, <2>2, <2>3, <2>4, AfterRetriesOK, InvClosing
<1> QED
  BY <1>4, <1>5 DEF TimeoutsCall, CheckTimeouts
(* handle_replay_response, in its three outcomes.                          *)
LEMMA InvIgnoredResponse ==
    ASSUME CallsInv, NEW request_id, NEW frame \in Frame, ResponseCall(request_id, frame),
           request_id \notin Outstanding
    PROVE  CallsInv'
<1>1. ~ Completes(request_id, frame)
  BY DEF Completes
<1>2. UNCHANGED recoveryVars
  BY <1>1 DEF ResponseCall, HandleReplayResponse
<1>3. UNCHANGED <<state, next_request_id, outstanding_requests, buffered_out_of_order>>
  BY <1>2 DEF recoveryVars
<1>4. Outstanding' = Outstanding /\ closed' = closed /\ handed_back' = handed_back
  BY <1>1, <1>3 DEF ResponseCall, CloseRemoved, Outstanding
<1> QED
  BY <1>3, <1>4 DEF CallsInv, RequestsInv, RecoveryTypeOK, StateMatchesRequests,
     ClosedWereMade, ClosedStaysClosed, OutstandingIsIncomplete, WithinLimits,
     ReceivedIsNotForgotten, Outstanding, Buffered

LEMMA CountedRequest ==
    ASSUME NEW r \in ActiveReplayRequest, NEW seq \in Nat
    PROVE  /\ Counted(r, seq) \in ActiveReplayRequest
           /\ Counted(r, seq).from_sequence = r.from_sequence
           /\ Counted(r, seq).to_sequence = r.to_sequence
           /\ Counted(r, seq).retries_attempted = r.retries_attempted
           /\ Counted(r, seq).received_sequences = ReceivedWith(r, seq)
<1>1. ReceivedWith(r, seq) \in SUBSET Nat
  BY DEF ReceivedWith, ActiveReplayRequest
<1> QED
  BY <1>1 DEF Counted, ActiveReplayRequest

LEMMA InvPartialResponse ==
    ASSUME CallsInv, NEW request_id, NEW frame \in Frame, ResponseCall(request_id, frame),
           request_id \in Outstanding, ~ Completes(request_id, frame)
    PROVE  CallsInv'
<1> DEFINE request == outstanding_requests[request_id]
           seq == frame.sequence
<1>1. /\ outstanding_requests' =
            [outstanding_requests EXCEPT ![request_id] = Counted(request, seq)]
      /\ buffered_out_of_order' = WithFrame(frame)
      /\ UNCHANGED <<state, next_request_id, handed_back>>
      /\ closed' = closed \cup (Outstanding \ Outstanding')
  BY DEF ResponseCall, HandleReplayResponse, CloseRemoved
<1>2. seq \in Nat
  BY DEF Frame
<1>3. request \in ActiveReplayRequest /\ RequestOK(request)
  BY RequestsInvParts DEF CallsInv
<1>4. \E s \in request.from_sequence .. request.to_sequence : s \notin ReceivedWith(request, seq)
  BY DEF Completes
<1>5. outstanding_requests \in [Outstanding -> ActiveReplayRequest]
  BY RequestsInvParts DEF CallsInv
<1> HIDE DEF request, seq
<1>6. Counted(request, seq) \in ActiveReplayRequest /\ RequestOK(Counted(request, seq))
  BY <1>2, <1>3, <1>4, CountedRequest DEF RequestOK
<1>7. /\ Outstanding' = Outstanding
      /\ outstanding_requests' \in [Outstanding' -> ActiveReplayRequest]
      /\ outstanding_requests'[request_id] = Counted(request, seq)
      /\ \A id \in Outstanding \ {request_id} :
            outstanding_requests'[id] = outstanding_requests[id]
  BY <1>1, <1>5, <1>6 DEF Outstanding
<1>8. BufferTypeOK' /\ Buffered' = Buffered \cup {seq}
  BY <1>1, BufferWithFrame, RequestsInvParts DEF CallsInv, seq
<1>9. \A id \in Outstanding' : RequestOK(outstanding_requests'[id])
  BY <1>6, <1>7, RequestsInvParts DEF CallsInv
<1>10. state' \in {"Live", "Recovering", "RecoveryFailed"} /\ StateMatchesRequests'
  BY <1>1, <1>7 DEF CallsInv, RequestsInv, RecoveryTypeOK, StateMatchesRequests
<1>11. RequestsInv'
  BY <1>1, <1>7, <1>8, <1>9, <1>10, RequestsOnlyClose DEF CallsInv
<1>12. ReceivedIsNotForgotten'
  <2>1. Counted(request, seq).received_sequences \subseteq request.received_sequences \cup {seq}
    BY <1>2, <1>3, CountedRequest DEF ReceivedWith
  <2>2. request.received_sequences \subseteq Buffered \cup handed_back
    BY DEF CallsInv, ReceivedIsNotForgotten, request
  <2> QED
    BY <1>1, <1>7, <1>8, <2>1, <2>2 DEF CallsInv, ReceivedIsNotForgotten
<1> QED
  BY <1>11, <1>12 DEF CallsInv

LEMMA InvCompletingResponse ==
    ASSUME CallsInv, NEW request_id, NEW frame \in Frame, ResponseCall(request_id, frame),
           Completes(request_id, frame)
    PROVE  CallsInv'
<1>1. request_id \in Outstanding
  BY DEF Completes
<1>2. /\ outstanding_requests' = MapRemove(outstanding_requests, {request_id})
      /\ state' = (IF Outstanding = {request_id} THEN "Live" ELSE state)
      /\ buffered_out_of_order' = <<>>
      /\ next_request_id' = next_request_id
      /\ handed_back' = handed_back \cup DOMAIN WithFrame(frame)
      /\ closed' = closed \cup (Outstanding \ Outstanding')
  BY <1>1 DEF ResponseCall, HandleReplayResponse, CloseRemoved
<1>3. /\ Outstanding' = Outstanding \ {request_id}
      /\ \A id \in Outstanding' : outstanding_requests'[id] = outstanding_requests[id]
  BY <1>2 DEF MapRemove, Outstanding
<1>4. outstanding_requests' \in [Outstanding' -> ActiveReplayRequest]
  BY <1>2, <1>3, RemovedType, RequestsInvParts DEF CallsInv, Outstanding
<1>5. BufferTypeOK' /\ Buffered' = {}
  BY <1>2, BufferEmptied
<1>6. \A id \in Outstanding' : RequestOK(outstanding_requests'[id])
  BY <1>3, RequestsInvParts DEF CallsInv
<1>7. state' \in {"Live", "Recovering", "RecoveryFailed"}
  BY <1>2 DEF CallsInv, RequestsInv, RecoveryTypeOK
<1>8. StateMatchesRequests'
  BY <1>1, <1>2, <1>3 DEF CallsInv, RequestsInv, StateMatchesRequests
<1>9. RequestsInv'
  BY <1>2, <1>3, <1>4, <1>5, <1>6, <1>7, <1>8, RequestsOnlyClose DEF CallsInv
<1>10. Buffered \subseteq DOMAIN WithFrame(frame)
  BY DEF WithFrame, MapInsert, Buffered
<1>11. ReceivedIsNotForgotten'
  BY <1>2, <1>3, <1>5, <1>10 DEF CallsInv, ReceivedIsNotForgotten
<1> QED
  BY <1>9, <1>11 DEF CallsInv

-----------------------------------------------------------------------------
LEMMA InvNext == CallsInv /\ [CallsNext]_callsVars => CallsInv'
<1> SUFFICES ASSUME CallsInv, [CallsNext]_callsVars PROVE CallsInv'
  OBVIOUS
<1>1. CASE \E frame \in Frame : BufferCall(frame)
  BY <1>1, InvBuffer
<1>2. CASE \E from, to \in SeqNums : from <= to /\ CreateCall(from, to)
  BY <1>2, InvCreate
<1>3. CASE \E id \in RequestIds, frame \in Frame : ResponseCall(id, frame)
  BY <1>3, InvIgnoredResponse, InvPartialResponse, InvCompletingResponse
<1>4. CASE \E id \in RequestIds : UnavailableCall(id)
  BY <1>4, InvUnavailable
<1>5. CASE \E start \in SeqNums : DrainContiguousCall(start)
  BY <1>5, InvDrainContiguous
<1>6. CASE TimeoutsCall
  BY <1>6, InvTimeouts
<1>7. CASE ResetCall
  BY <1>7, InvReset
<1>8. CASE TickCall
  BY <1>8, InvTick
<1>9. CASE UNCHANGED callsVars
  BY <1>9 DEF callsVars, recoveryVars, CallsInv, RequestsInv, RecoveryTypeOK,
     StateMatchesRequests, ClosedWereMade, ClosedStaysClosed, OutstandingIsIncomplete,
     WithinLimits, ReceivedIsNotForgotten, Outstanding, Buffered
<1> QED
  BY <1>1, <1>2, <1>3, <1>4, <1>5, <1>6, <1>7, <1>8, <1>9 DEF CallsNext

(* The inductive invariant of the engine (engine.rs, all operations).      *)
THEOREM CallsInvariant == CallsSpec => []CallsInv
BY InvInit, InvNext, PTL DEF CallsSpec

(* RecoveryState tells the truth about the requests (engine.rs: the state  *)
(* assignments of create_replay_request, handle_replay_response,           *)
(* handle_replay_unavailable, check_timeouts and reset), for every         *)
(* configuration and every order of calls.                                 *)
THEOREM StateTheorem == CallsSpec => []StateMatchesRequests
<1>1. CallsInv => StateMatchesRequests
  BY DEF CallsInv, RequestsInv
<1> QED
  BY <1>1, CallsInvariant, PTL

(* A closed request id is never outstanding again (engine.rs:              *)
(* next_request_id survives reset), so a late answer to it is ignored.     *)
THEOREM ClosedTheorem == CallsSpec => []ClosedStaysClosed
<1>1. CallsInv => ClosedStaysClosed
  BY DEF CallsInv, RequestsInv
<1> QED
  BY <1>1, CallsInvariant, PTL

(* A sequence counted as received is buffered or has been handed back      *)
(* (engine.rs: handle_replay_response against drain_buffered and           *)
(* drain_contiguous).                                                      *)
THEOREM ReceivedTheorem == CallsSpec => []ReceivedIsNotForgotten
<1>1. CallsInv => ReceivedIsNotForgotten
  BY DEF CallsInv
<1> QED
  BY <1>1, CallsInvariant, PTL

(* An outstanding request lacks a sequence of its range (engine.rs:        *)
(* handle_replay_response closes a request in the step that completes it). *)
THEOREM IncompleteTheorem == CallsSpec => []OutstandingIsIncomplete
<1>1. CallsInv => OutstandingIsIncomplete
  BY DEF CallsInv, RequestsInv
<1> QED
  BY <1>1, CallsInvariant, PTL

(* max_outstanding_requests and max_retries hold (engine.rs:162, 256), for *)
(* every value of the two.                                                 *)
THEOREM LimitsTheorem == CallsSpec => []WithinLimits
<1>1. CallsInv => WithinLimits
  BY DEF CallsInv, RequestsInv
<1> QED
  BY <1>1, CallsInvariant, PTL
-----------------------------------------------------------------------------
(* What is handed back was buffered or just came in, so it is numbered.    *)
LEMMA IntervalOfNaturals ==
    ASSUME NEW a \in Nat, NEW b PROVE a .. b \subseteq Nat
<1> SUFFICES ASSUME NEW s \in a .. b PROVE s \in Nat
  OBVIOUS
<1>1. s \in Int /\ a <= s
  OBVIOUS
<1> QED
  BY <1>1

LEMMA BufferedNumbers ==
    ASSUME RecoveryTypeOK, NEW frame \in Frame
    PROVE  DOMAIN WithFrame(frame) \subseteq Nat
<1>1. \A f \in Frame : f.sequence \in Nat
  BY DEF Frame
<1>2. DOMAIN WithFrame(frame) = Buffered \cup {frame.sequence}
  BY DEF WithFrame, MapInsert, Buffered
<1> QED
  BY <1>1, <1>2 DEF RecoveryTypeOK

(* Only a completed request, drain_contiguous and reset change what was    *)
(* handed back.                                                            *)
HandedBackTypeOK == handed_back \subseteq Nat

LEMMA HandedBackType ==
    CallsInv /\ HandedBackTypeOK /\ [CallsNext]_callsVars => HandedBackTypeOK'
<1> SUFFICES ASSUME CallsInv, handed_back \subseteq Nat, [CallsNext]_callsVars
             PROVE  handed_back' \subseteq Nat
  BY DEF HandedBackTypeOK
<1>1. ASSUME NEW id \in RequestIds, NEW frame \in Frame, ResponseCall(id, frame)
      PROVE  handed_back' \subseteq Nat
  BY <1>1, BufferedNumbers DEF ResponseCall, CallsInv, RequestsInv
<1>2. ASSUME NEW start \in SeqNums, DrainContiguousCall(start)
      PROVE  handed_back' \subseteq Nat
  <2>1. start .. ContiguousEnd(start) - 1 \subseteq Nat
    BY IntervalOfNaturals
  <2> QED
    BY <1>2, <2>1 DEF DrainContiguousCall
<1>3. CASE UNCHANGED handed_back \/ handed_back' = {}
  BY <1>3
<1> QED
  BY <1>1, <1>2, <1>3 DEF CallsNext, callsVars, BufferCall, CreateCall, UnavailableCall,
     TimeoutsCall, ResetCall, TickCall

(* The engine's maps, counters and state keep their types under every      *)
(* order of calls (engine.rs): ids of requests are below next_request_id,  *)
(* and a buffered frame stays under its own sequence.                      *)
THEOREM CallsTypeCorrect == CallsSpec => []CallsTypeOK
<1>1. CallsInit => HandedBackTypeOK
  BY DEF CallsInit, HandedBackTypeOK
<1>2. ASSUME CallsInv, HandedBackTypeOK PROVE CallsTypeOK
  <2>1. closed \subseteq Nat
    BY <1>2, IntervalOfNaturals DEF CallsInv, RequestsInv, ClosedWereMade
  <2> QED
    BY <1>2, <2>1 DEF CallsInv, RequestsInv, HandedBackTypeOK, CallsTypeOK
<1> QED
  BY <1>1, <1>2, HandedBackType, CallsInvariant, PTL DEF CallsSpec
=============================================================================
