--------------------------- MODULE PublisherCalls ---------------------------
(***************************************************************************)
(* A UdpPublisher whose application publishes and restarts at will while   *)
(* subscribers ask for any range.                                          *)
(*                                                                         *)
(* History variables: `wire' holds every datagram ever sent (UDP may       *)
(* deliver each of them any number of times, in any order, or never), and  *)
(* `asked' and `answered' the requests; a request's id is its place in     *)
(* `asked'.                                                                *)
(***************************************************************************)
EXTENDS UdpPublisher

CONSTANT MaxAsked  \* bound on the replay requests subscribers send

ASSUME MaxAskedAssumption == MaxAsked \in Nat

VARIABLES
    wire,      \* datagrams sent
    asked,     \* replay requests received
    answered   \* request ids whose answer is complete

publisherCallsVars == <<publisherVars, wire, asked, answered>>

PublisherCallsInit ==
    /\ PublisherInit
    /\ wire = {}
    /\ asked = <<>>
    /\ answered = {}

StoreCall(payload_length) ==
    /\ PublishStore(payload_length)
    /\ UNCHANGED <<wire, asked, answered>>

SendCall ==
    /\ PublishSend
    /\ wire' = wire \cup DataSent
    /\ UNCHANGED <<asked, answered>>

FailCall ==
    /\ PublishFails
    /\ UNCHANGED <<wire, asked, answered>>

RestartCall(new_publisher_id) ==
    /\ Restart(new_publisher_id)
    /\ UNCHANGED <<wire, asked, answered>>

LookupStep(from, to) ==
    /\ Len(asked) < MaxAsked
    /\ ReplayLookup(Len(asked) + 1, from, to)
    /\ asked' = Append(asked, [from |-> from, to |-> to])
    /\ UNCHANGED <<wire, answered>>

SendFrameStep ==
    /\ ReplaySendFrame
    /\ wire' = wire \cup ResponseSent
    /\ UNCHANGED <<asked, answered>>

DoneStep ==
    /\ ReplayDone
    /\ answered' = answered \cup {answer.request_id}
    /\ UNCHANGED <<wire, asked>>

RefuseStep ==
    /\ ReplayRefuse
    /\ wire' = wire \cup RefusalSent
    /\ answered' = answered \cup {answer.request_id}
    /\ UNCHANGED asked

PublisherNext ==
    \/ \E len \in PayloadLengths : StoreCall(len)
    \/ SendCall
    \/ FailCall
    \/ \E id \in PublisherIds : RestartCall(id)
    \/ \E from, to \in SeqNums : from <= to /\ LookupStep(from, to)
    \/ SendFrameStep
    \/ DoneStep
    \/ RefuseStep

PublisherSpec == PublisherCallsInit /\ [][PublisherNext]_publisherCallsVars

-----------------------------------------------------------------------------
(* The publisher keeps the contract the ring buffer's guarantees rest on:  *)
(* it pushes consecutive sequences, starts over only together with a       *)
(* clear, and the replay thread never touches the buffer.                  *)
KeepsRingContract == RingSpec

(* What a subscriber can have seen, it can ask for: every DATA frame of    *)
(* the current identity on the wire is in the buffer until Capacity newer  *)
(* frames have been stored.  publish stores before it sends, whatever the  *)
(* replay thread does and wherever publish fails.                          *)
SentIsStored ==
    \A datagram \in wire :
        datagram.type = "DATA" /\ datagram.frame.publisher_id = publisher_id =>
            Get(datagram.frame.sequence) =
                IF Expired(datagram.frame) THEN None ELSE datagram.frame

(* RTDP-1.md:35: the key "uniquely identifies a single DATA publication":  *)
(* no two datagrams, original or replayed, carry different frames under    *)
(* one publisher_id and sequence, not across failed publishes, restarts    *)
(* and answers that were looked up before a restart and sent after it.     *)
KeyIdentifiesFrame ==
    \A a, b \in {d \in wire : d.type \in {"DATA", "REPLAY_RESPONSE"}} :
        (/\ a.frame.publisher_id = b.frame.publisher_id
         /\ a.frame.sequence = b.frame.sequence)
            => a.frame = b.frame

(* RTDP-1.md:142, AT_LEAST_ONCE: "Recoverable within ring buffer": an      *)
(* answered request has been refused, or every frame of its range has been *)
(* handed to the socket, also when the buffer moved on, was cleared or     *)
(* changed identity while the answer was being sent.                       *)
AnswerIsWholeOrRefused ==
    \A id \in answered :
        LET sent == {d \in wire : d.type # "DATA" /\ d.request_id = id}
        IN  \/ \E d \in sent : d.type = "REPLAY_UNAVAILABLE"
            \/ \A s \in asked[id].from .. asked[id].to :
                  \E d \in sent : d.type = "REPLAY_RESPONSE" /\ d.frame.sequence = s
=============================================================================
