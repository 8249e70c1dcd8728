----------------------------- MODULE RtdpSystem -----------------------------
(***************************************************************************)
(* A publisher and a subscriber of one stream over UDP.  `network' holds   *)
(* the datagrams in flight in both directions; it may reorder freely, and  *)
(* lose or duplicate up to MaxFaults of them.  One copy is kept of equal   *)
(* datagrams in flight.                                                    *)
(*                                                                         *)
(* `timely' fixes, per behaviour, whether the retry timeout is longer than *)
(* a round trip, so that it runs out only when nothing is in flight.       *)
(***************************************************************************)
EXTENDS UdpSubscriber, UdpPublisher

CONSTANTS
    MaxFaults,  \* datagrams the network loses or duplicates
    Timings     \* the values of `timely' to consider

ASSUME FaultsAssumption == MaxFaults \in Nat /\ Timings \subseteq BOOLEAN

VARIABLES
    network,    \* datagrams in flight
    faults,     \* losses and duplications so far
    timely,     \* the retry timeout exceeds the round trip
    published,  \* history: frames publish has stored
    seen,       \* history: DATA frames that reached the subscriber
    received,   \* history: frames the application has taken
    overflow    \* history: a frame met a full channel

historyVars == <<published, seen, received, overflow>>

systemVars ==
    <<publisherVars, subscriberVars, network, faults, timely, historyVars>>

SystemInit ==
    /\ PublisherInit
    /\ SubscriberInit
    /\ network = {}
    /\ faults = 0
    /\ timely \in Timings
    /\ published = {}
    /\ seen = {}
    /\ received = {}
    /\ overflow = FALSE

-----------------------------------------------------------------------------
(* The publisher's threads.                                                *)
Publish(payload_length) ==
    /\ PublishStore(payload_length)
    /\ published' = published \cup {unsent'}
    /\ UNCHANGED <<subscriberVars, network, faults, timely, seen, received, overflow>>

Send ==
    /\ PublishSend
    /\ network' = network \cup DataSent
    /\ UNCHANGED <<subscriberVars, faults, timely, historyVars>>

TakeRequest(datagram) ==
    /\ datagram.type = "REPLAY_REQUEST"
    /\ ReplayLookup(datagram.request_id, datagram.from, datagram.to)
    /\ UNCHANGED <<subscriberVars, historyVars>>

SendResponse ==
    /\ ReplaySendFrame
    /\ network' = network \cup ResponseSent
    /\ UNCHANGED <<subscriberVars, faults, timely, historyVars>>

FinishAnswer ==
    /\ ReplayDone
    /\ UNCHANGED <<subscriberVars, network, faults, timely, historyVars>>

SendRefusal ==
    /\ ReplayRefuse
    /\ network' = network \cup RefusalSent
    /\ UNCHANGED <<subscriberVars, faults, timely, historyVars>>

-----------------------------------------------------------------------------
(* The subscriber's worker and its application.                            *)
TakeData(datagram) ==
    /\ datagram.type = "DATA"
    /\ ReceiveData(datagram.frame)
    /\ seen' = seen \cup {datagram.frame}
    /\ UNCHANGED <<publisherVars, published, received, overflow>>

TakeResponse(datagram) ==
    /\ datagram.type = "REPLAY_RESPONSE"
    /\ ReceiveResponse(datagram.request_id, datagram.frame)
    /\ UNCHANGED <<publisherVars, historyVars>>

TakeUnavailable(datagram) ==
    /\ datagram.type = "REPLAY_UNAVAILABLE"
    /\ ReceiveUnavailable(datagram.request_id)
    /\ UNCHANGED <<publisherVars, historyVars>>

Take(datagram) ==
    \/ TakeRequest(datagram)
    \/ TakeData(datagram)
    \/ TakeResponse(datagram)
    \/ TakeUnavailable(datagram)

(* Requests sent elsewhere than to the publisher vanish.                   *)
Reaching(requests) == {r \in requests : r.target = PublisherAddr}

(* The request a DATA frame gives rise to, if any.                         *)
Reaction(datagram) ==
    IF datagram.type = "DATA" THEN Reaching(RequestSent(datagram.frame)) ELSE {}

Deliver(datagram) ==
    /\ Take(datagram)
    /\ network' = (network \ {datagram}) \cup Reaction(datagram)
    /\ UNCHANGED <<faults, timely>>

Timeouts ==
    /\ WorkerTimeouts
    /\ network' = network \cup Reaching(RetriesSent)
    /\ UNCHANGED <<publisherVars, faults, timely, historyVars>>

HandOver ==
    /\ TrySend
    /\ overflow' = (overflow \/ ChannelFull)
    /\ UNCHANGED <<publisherVars, network, faults, timely, published, seen, received>>

Consume ==
    /\ AppRecv
    /\ received' = received \cup {Head(channel)}
    /\ UNCHANGED <<publisherVars, network, faults, timely, published, seen, overflow>>

Leave ==
    /\ WorkerExit
    /\ UNCHANGED <<publisherVars, network, faults, timely, historyVars>>

-----------------------------------------------------------------------------
(* The network and the clock.                                              *)
Duplicate(datagram) ==
    /\ faults < MaxFaults
    /\ Take(datagram)
    /\ network' = network \cup Reaction(datagram)
    /\ faults' = faults + 1
    /\ UNCHANGED timely

Lose(datagram) ==
    /\ faults < MaxFaults
    /\ network' = network \ {datagram}
    /\ faults' = faults + 1
    /\ UNCHANGED <<publisherVars, subscriberVars, timely, historyVars>>

Quiet == network = {} /\ answer = None /\ to_deliver = <<>>

TimePasses ==
    /\ timely => Quiet
    /\ Tick
    /\ UNCHANGED <<trackerVars, dedupVars, mode, highest_delivered_sequence>>
    /\ UNCHANGED workerVars
    /\ UNCHANGED <<publisherVars, network, faults, timely, historyVars>>

ReplayThread == SendResponse \/ FinishAnswer \/ SendRefusal

SystemNext ==
    \/ \E len \in PayloadLengths : Publish(len)
    \/ Send
    \/ ReplayThread
    \/ \E d \in network : Deliver(d)
    \/ \E d \in network : Duplicate(d)
    \/ \E d \in network : Lose(d)
    \/ Timeouts
    \/ HandOver
    \/ Consume
    \/ Leave
    \/ TimePasses

(* Both threads run, the application keeps receiving, time passes, and the *)
(* network delivers what it does not lose.  Nobody has to publish.         *)
Fairness ==
    /\ WF_systemVars(ReplayThread)
    /\ WF_systemVars(\E d \in network : Deliver(d))
    /\ WF_systemVars(Timeouts)
    /\ WF_systemVars(HandOver)
    /\ WF_systemVars(Consume)
    /\ WF_systemVars(TimePasses)

SystemSpec == SystemInit /\ [][SystemNext]_systemVars

SystemFairSpec == SystemSpec /\ Fairness

SystemTypeOK ==
    /\ PublisherTypeOK
    /\ SubscriberTypeOK
    /\ faults \in 0 .. MaxFaults

-----------------------------------------------------------------------------
(* The publisher and the subscriber together provide the stream service:   *)
(* the application receives nothing but published frames that are no newer *)
(* than what has reached the subscriber, and every frame that did, or that *)
(* precedes one that did, is received in the end, whatever the network     *)
(* loses, duplicates or reorders, unless the worker has left its loop, the *)
(* channel was full, or recovery has come to RecoveryFailed.  That state   *)
(* is private to the worker (subscriber.rs:143 drops the error) and may be *)
(* overwritten by a later request: the promise is no more than this, and   *)
(* RecoversWhatIsRetained says when the state is not reached.  A loss at   *)
(* the very end of the stream stays unnoticed.                             *)
Service == INSTANCE StreamService WITH
    owed    <- {f \in published : \E g \in seen : f.sequence <= g.sequence},
    excused <- ~ running \/ overflow \/ state = "RecoveryFailed"

ProvidesService == Service!Spec

(* The part of it that needs no fairness: the application is never handed  *)
(* a frame that was not published or that the subscriber cannot know of,   *)
(* through DATA, buffers, late answers and retries.                        *)
HandsOverOnlyOwed == Service!Safety

(* Nothing published so far has left the publisher's buffer.               *)
AllRetained == \A f \in published : Get(f.sequence) = f

(* Recovery succeeds when it can: with retries that reach the publisher, a *)
(* retry timeout longer than a round trip, no more faults than retries and *)
(* all frames still in the buffer, the subscriber never gives up.          *)
RecoversWhatIsRetained ==
    /\ timely
    /\ publisher_addr = PublisherAddr
    /\ MaxFaults <= MaxRetries
    /\ AllRetained
    => state # "RecoveryFailed"

(* RTDP-1.md:143, RELIABLE_ORDERED: a frame behind a gap is "Buffered      *)
(* until gap resolved": once the application has all the frames before it, *)
(* a frame that has reached the subscriber is received too.                *)
GapResolved(frame) ==
    /\ frame \in seen
    /\ \A f \in published : f.sequence < frame.sequence => f \in received

BufferedUntilGapResolved ==
    \A frame \in Frame :
        GapResolved(frame) ~> (frame \in received \/ overflow \/ ~ running)
=============================================================================
