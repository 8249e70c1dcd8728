# RTDP: a TLA+ model of the real-time data platform

RTDP moves a stream of numbered frames from a publisher to subscribers over UDP.
The publisher keeps the newest frames in a ring buffer; a subscriber that notices
a gap asks for the missing range, and the publisher's replay thread answers from
the buffer or refuses. What an application sees depends on the delivery mode the
subscriber was configured with. This directory models that core: sequence
tracking, duplicate suppression, retention, replay and recovery, the way the
publisher's and the subscriber's threads use them, the two ends together over a
faulty network, and the frame codec with its C interface.

## 1. The system

| Component | State | Operations | Interacts with |
| --- | --- | --- | --- |
| `BoundedRingBuffer` (`core/src/buffers/ring.rs`) | slots, `min_sequence`, `max_sequence` | `push`, `get`, `get_range`, `clear` | shared by the publisher's two threads behind a mutex |
| `StreamSequenceTracker` (`core/src/sequence/tracker.rs`) | `active_publisher_id`, `expected_sequence` | `observe`, `advance_expected` | called by the receiver for every DATA frame |
| `DuplicateFilter` (`core/src/sequence/dedup.rs`) | `recent_keys`, `ring_history`, `head` | `is_duplicate_and_record`, `clear` | called by the receiver in RELIABLE_ORDERED |
| `RecoveryEngine` (`core/src/recovery/engine.rs`) | `state`, `next_request_id`, outstanding requests, out-of-order buffer | create request, response, unavailable, timeouts, drain, reset | called by the receiver and by the subscriber's worker |
| `StreamReceiver` (`core/src/delivery/modes.rs`) | the three above, `mode`, `highest_delivered_sequence` | `process_data_frame` | owned by the worker |
| `UdpPublisher` (`transports/udp/src/publisher.rs`) | identity, `sequence_counter`, ring buffer | `publish`, `restart_with_new_publisher_id`, replay thread, fault-injection entry points | UDP |
| `UdpSubscriber` (`transports/udp/src/subscriber.rs`) | receiver, `publisher_addr`, running flag, bounded channel | worker loop (DATA, REPLAY_RESPONSE, REPLAY_UNAVAILABLE, `check_timeouts`, `try_send`), `recv_timeout`, `try_recv`, `Drop` | UDP, the application |
| `FrameCodec`, header, extensions (`core/src/serialization`, `core/src/protocol`) | a configuration | `encode`, `decode` with the walk over TLV extensions | both ends |
| C ABI (`c-abi/src/lib.rs`) | codec handles | `rtdp_codec_create`, `rtdp_codec_destroy`, `rtdp_encode`, `rtdp_decode` | C callers |
| CLI, conformance runner, benchmarks | none of the protocol | | |

What makes it hard: UDP loses, duplicates and reorders; four pieces of state
(tracker, filter, engine, buffer) record overlapping facts about one sequence and
are updated by different handlers; answers arrive after the request they belong to
was closed by a completion, a refusal, a timeout or a reset; the publisher restarts
under another identity while an answer is half sent; capacities (ring, filter,
outstanding requests, range, retries) are met in the middle of all that.

What makes each part correct:

* ring buffer: exactly the newest `Capacity` frames can be fetched; a range is
  served whole or refused, and a refusal is accurate;
* filter: a sliding window over the last `DedupCapacity` keys;
* engine: state, requests and buffer agree under every order of calls; ids are not
  reused; limits hold; every request ends;
* receiver: RELIABLE_ORDERED delivers 1, 2, 3, ... of one publisher and loses nothing
  that arrived; what it holds back is waited for or recovery has failed; LATEST never
  goes back within a publisher;
* publisher: what was sent can be replayed, a key names one frame for ever, an
  answer is whole or a refusal;
* codec: `decode` accepts the well-formed packets and no others (the SNAPSHOT types
  apart, section 3), a frame survives encoding and decoding, damage is noticed;
* the whole: every frame the subscriber can know of reaches the application, unless
  recovery fails, the channel is full or the worker ends. Of a failure the application
  is told nothing: the worker drops the error (subscriber.rs:77 and 143).

## 2. Modules

| Module | Models | Notes |
| --- | --- | --- |
| `Frames` | `OwnedFrame` | publisher, sequence and payload length are all the code reads; one stream |
| `RetentionWindow` | abstract: what the retention buffer promises | one variable, the set of frames that can be had back; `Store` drops the frame that is `Capacity` older, `Forget` drops all |
| `BoundedRingBuffer` | ring.rs, driven as the publisher drives it (consecutive pushes, clears) | `ImplementsWindow` maps `retained` to the frames `get` returns |
| `SequenceTracker` | tracker.rs | `Status` is what `observe` returns, `ObserveThenAdvance` what it and `advance_expected` leave behind |
| `DuplicateFilter` | dedup.rs | operations only |
| `DuplicateWindow` | the filter under arbitrary calls | history `recorded` |
| `RecoveryEngine` | engine.rs | operations only; time is an age in ticks, saturated at `RetryTimeout`, the only threshold it is compared with |
| `RecoveryCalls` | the engine under arbitrary calls | histories `closed`, `handed_back`; fairness for the liveness property |
| `StreamReceiver` | modes.rs | composes tracker, filter and engine; one action per arm of `process_data_frame` |
| `ReceiverCalls` | the handlers of the subscriber's worker, in an open network | histories `delivered`, `arrived`, `replayed`, `mixed` |
| `MCReceiver` | symmetry for TLC | |
| `UdpPublisher` | publisher.rs, on top of `BoundedRingBuffer` | operations only; two threads, one step is one critical section or one datagram |
| `PublisherCalls` | the publisher under arbitrary publishes, restarts and requests | histories `wire` (everything ever sent), `asked`, `answered` |
| `UdpSubscriber` | subscriber.rs, on top of `StreamReceiver` | the worker's arms, the channel, the requests and retries sent and their target address |
| `StreamService` | abstract: what a recovering stream promises its application | `published`, `owed`, `received`, `excused`; the liveness part is `Promise` |
| `RtdpSystem` | publisher, network and subscriber | `ProvidesService` maps them to `StreamService` |
| `FrameCodec` | codec.rs, header.rs, extensions.rs | pure operators; `Decode` is an ordered list of checks |
| `CodecCalls` | c-abi/src/lib.rs: a caller creates, encodes, decodes, destroys, and the packet may be damaged between | history `sent`, `damage` |
| `MCCodec` | frames and configurations for TLC | chosen around the limits: 72-byte decoder, TLVs that end at, before and behind the header's end, critical and ignorable types, every payload rule |
| `BoundedRingBuffer_proofs`, `PublisherCalls_proofs`, `DuplicateWindow_proofs`, `RecoveryCalls_proofs`, `ReceiverCalls_proofs`, `CodecCalls_proofs`, `RtdpSystem_proofs` | theorems about the module of that name | see section 5 |
| `StreamReceiver_proofs` | lemmas on the receiver's operations | used by `ReceiverCalls_proofs` and `RtdpSystem_proofs` |

A handler is one action. `observe` runs before the filter is asked, and both are in
the same action, because nothing else touches the receiver: the worker thread owns
it. In the publisher the two threads share only the ring buffer, so `publish` is two
steps (store; send or fail), and an answer is a lookup under the lock followed by
one step per datagram without it. `Option<T>` is the type plus `None`. Maps are
functions on the keys they hold. `check_timeouts` fails at most one exhausted
request and which one depends on hash order, so the model chooses.

`ReceiverCalls` lets the environment present any DATA frame at any time and answer
any request made so far, late ones included, with a frame of the requested range.
That is loss, duplication, reordering and delay in one; it is also more than one
publisher would send (two publishers may interleave freely), which the code has to
survive since it accepts every sender.

`RtdpSystem` closes the loop: only the publisher answers, from its buffer, and only
the requests the worker sends. `network` is the set of datagrams in flight; delivery
picks any of them (reordering), `Lose` and `Duplicate` together happen `MaxFaults`
times, and equal datagrams in flight are one (a second copy is what `Duplicate`
stands for). A request sent to another address than the publisher's vanishes: first
requests go to the sender of the DATA frame, retries to the configured address, so
one run considers a right and a wrong `publisher_addr`. `timely` states the operator's
choice of the retry timeout: when it exceeds a round trip it runs out only when
nothing is in flight. A send that fails is, to the subscriber, a lost datagram, so
`PublishFails` is left to `PublisherCalls`; `Restart` is too, and the receiver's side
of a restart to `ReceiverCalls`, which has two publishers. `Restart` takes an identity
that was not used before. `restart_with_new_publisher_id` does not check that; it is the
caller's duty (RTDP-1.md:33), and `KeyIdentifiesFrame` rests on it.

The mapping to `StreamService`: `owed` are the published frames no newer than one that
reached the subscriber, since nothing tells it of a newer one (a loss at the end of
the stream stays unnoticed, tracker.rs:107); `excused` is true when the worker has
left its loop, a frame met a full channel, or the state is RecoveryFailed. The last is
generous: the application cannot read that state, a later request may overwrite it, and
a failure that was passed through excuses a frame for good. What bounds it is
`RecoversWhatIsRetained`, which says when the state is not reached at all, and
`NoSilentStall`: frames held back without an open request are held back in that state.

The codec's packets are bytes by what the checks read in them. CRC-32C is ideal, an
injective function of the rest of the packet (external: its collisions are outside
the model), so `DamageIsRejected` is about what the code puts under the checksum and
when, not about the polynomial. Byte offsets and byte order are left to the golden
vectors.

Definitions introduced by a comment that begins with "Mutant" are deliberately wrong variants
of the definition that follows. They are used only for mutation testing of the
properties (the `mutants` of `PROJECT.json`) and by no specification.

## 3. Runs

Passing:

| Run | Shows | Bounds |
| --- | --- | --- |
| `dedup_window` | the filter is a sliding window; set and history agree | capacity 3, six keys, histories of up to six records (every slot evicted once, the head wraps) |
| `recovery_calls` | consistency of the engine and `EveryRequestEnds` | three requests in all, two at a time, one retry |
| `receiver_modes` | RELIABLE_ORDERED in order and without loss, LATEST never back within a publisher, types in all modes; filter eviction, refusals by range and by backpressure | two publishers, three sequences, filter of three keys, one outstanding request, three deliveries |
| `publisher` | the two threads, failing publishes, restart; retention and ranges of the buffer; refinement of `RingSpec` and of `RetentionWindow` | two identities, buffer of two that wraps and is cleared, three sequences, two payload lengths (one the largest a response can carry), one replay request |
| `codec` | the parser against a declarative `WellFormed` and the SNAPSHOT types as the one exception, round trips between codecs of different settings, damage | packets of 40 to 92 bytes, around the limit of a 72-byte decoder, and a 1472-byte one; up to two damaged fields, so that damaged lengths may cancel out |
| `system` | `ProvidesService`, liveness included, its safety part `HandsOverOnlyOwed`, `RecoversWhatIsRetained` and `NoSilentStall` in AT_LEAST_ONCE and RELIABLE_ORDERED | three frames over a buffer of two (a frame expires while it is asked for), one fault, one retry, channel of two, three outstanding requests |

Bounds that are guards: `MaxRequests`, `MaxDelivered`, `MaxRecorded`, `MaxAsked`,
`MaxDamage`, `MaxFaults`, and `SeqNums` for the sequences published. The code compares
sequences only with each other, with each other plus one and with the capacities, so
a window that wraps, a gap of one and a gap of several are the cases there are. All
invariants are proved for every value of the constants besides (section 5). `system` allows as many
outstanding requests as there can be gaps: with fewer, AT_LEAST_ONCE drops the DATA
frame whose request is refused (modes.rs:72) and the service does not hold. It has
`Timings = {TRUE}`; timeouts that fire while answers are under way are covered by
`recovery_calls` and `receiver_modes`, where any answer may come at any time.

A receiver with several open requests at once is reached in `system`; with four sequences
and five deliveries as well it is beyond a short run, and `InOrderTheorem`,
`ArrivedTheorem` and `NoSilentStallTheorem` cover it for every number of them.
`RangeIsWholeOrRefused` is about ranges with `from` <= `to`: `decode` refuses any other
before the publisher looks one up (codec.rs:156-166).

The runs of the publisher and of the system may stop (sequences and requests are used
up), so they do not check deadlock; every other run does.

Fairness. `EveryRequestEnds` assumes weak fairness of `check_timeouts` and of time.
The worker calls `check_timeouts` on every turn of its loop and its socket read
times out after 10 ms, so the loop turns whatever the network does. No answer is
assumed to arrive. `ProvidesService` assumes of the code the same, that the worker
empties what it is handing over and that the replay thread goes on with an answer
(both are loops without a wait); of the surroundings, that the application keeps
receiving and that the network delivers something as long as anything deliverable is
in flight. Nothing is assumed of `publish`: the publisher may fall silent at any
point, also between storing a frame and sending it.

Disagreements. Each of these runs checks one statement of the repository and finds
it violated by what the code does; `PROJECT.json` quotes the lines.

| Run | Statement | What happens |
| --- | --- | --- |
| `strictly_ascending` | RTDP-1.md:143, "Strictly ascending sequence", "Duplicates strictly suppressed" | 2, 1 arrive reordered and are delivered as 1, 2; the answer to the request for 1 delivers 1 again |
| `one_publisher` | tracker.rs:72, no continuity across `publisher_id` changes | for instance p1:2, p2:3, p2:1 arrive; p2:1, p1:2, p2:3 are delivered |
| `latest_starts_anew` | tracker.rs:72 again, and RTDP-1.md:141, "Replaces state with newest accepted sequence" | p1:1 is delivered; p2 starts cleanly with 1 and is dropped as stale, as is all of it up to the old highest sequence |
| `no_silent_loss` | RTDP-1.md:142, "Recoverable within ring buffer", "Automatic `REPLAY_REQUEST` on gap"; RTDP-1.md:143, "transitions to error if unrecoverable" | a gap longer than `max_replay_range`: the error is dropped and the state stays Live with no request; the frame is dropped (AT_LEAST_ONCE) or waits for ever (RELIABLE_ORDERED), and later gaps, from the same sequence, are longer still |
| `buffered_until_gap_resolved` | RTDP-1.md:143, "Buffered until gap resolved" | 1 is lost and replayed, 1 and 2 are received; the tracker was not advanced, so DATA 3 asks for 1..2 again, is refused because 1 has left the buffer, and 3 waits for ever with nothing missing before it |
| `answer_whole` | RTDP-1.md:142, "Recoverable within ring buffer" | a payload within eight bytes of the maximum is skipped in a replay, with neither frame nor refusal |

Met while modelling, and without a run of their own: `get` after pushes out of order
(ring.rs:62 says None means expired or unpublished; pushes 2, 1 hide both), which only
the fault-injection entry points can cause; a new gap after RECOVERY_FAILED opens
another request, where wire-format/replay.md:101 says the failure "halts replay attempts".

`decode` accepts the SNAPSHOT types 6 and 7, which RTDP-1.md:109-110 has "Rejected in
v0.1 with `UNSUPPORTED_MESSAGE_TYPE`" (error-codes.md:36 gives "snapshot messages in
v0.1" as its example). `WellFormed` follows the document; `AcceptsTheWellFormed` names
what `decode` takes beyond it, `TakenSnapshot`, and nothing else. The run `codec` has
frames of both types and reaches their acceptance.

`InOrderUntilReplay` is what RELIABLE_ORDERED does keep: until a replay completes or
publishers mix, the frames handed out since the publisher's first are exactly
1, 2, ..., `expected_sequence` - 1. Publishers mix (`mixed`) when the active publisher
changes otherwise than by a clean reset: a new publisher that does not start at 1, or
one whose keys the filter still holds. The second is a reset in the code, and yet it
loses a frame: of p1:2, p2:1, p1:1, p1:2 the first waits, p2:1 drops it with the
buffer and leaves its key in the filter, and after p1's return p1:2 is suppressed as a
duplicate while the tracker moves past it.

## 4. Hazards

`PROJECT.json` lists, at their lines, the situations a test would hardly reach, and
the properties that cover them. Seven have a note instead of a property: a refusal of
another stream (subscriber.rs:88, there is one stream here); a first sequence of 0
(tracker.rs:59, `publish` counts from 1); the unlimited out-of-order buffer
(engine.rs:141, there is no limit to check); a failure overwritten by the next request
and a late refusal that fails a healthy stream (engine.rs:184 and 240, which the
documents leave open); retries that are counted and not sent when another request
fails in the same call (engine.rs:270, modelled, and no property depends on it); and the
return of an old identity (modes.rs:122, which RTDP-1.md:33 rules out).

## 5. Proofs

Every invariant the passing runs check is proved for every set of publishers,
sequences and payloads, every capacity, frame size, request limit, retry count and
number of faults. Four theorems have a hypothesis on the configuration, named below,
without which the code does not keep the property.

**Ring buffer** (`BoundedRingBuffer_proofs`): `RingTypeCorrect`, `RetentionTheorem`,
`RangeTheorem`, `RefusalTheorem`. `RetainsNewest` is not inductive: it says
nothing about slots outside what `get` returns. The invariant `RingInv` adds
`WindowBounds` (min and max are both there or both not, and the window is no wider
than the buffer) and `WindowContents` (every slot of the window holds the pushed
frame of its sequence, one frame per sequence). The arithmetic core is
`SlotsDistinct`: two sequences less than `Capacity` apart have different slots.
`RingImplementsWindow` is the refinement of `RetentionWindow`: from `RingInv` the
frames `get` serves are the pushed ones that have not expired, so a push is a
`Store` (the frame it overwrites is the one that expires, no other) and a clear a
`Forget`.

**Publisher** (`PublisherCalls_proofs`): `PublisherTypeCorrect`;
`PublisherImplementsRing` shows, from `CounterFollowsRing` (the next sequence follows
the last one pushed), that every step of the publisher is a step of `RingSpec` or
leaves the buffer alone, so the theorems above hold of the publisher,
`PublisherImplementsWindow` included; `SentIsStoredTheorem` adds `SentFrames` (every
DATA frame of the current identity was pushed since the last clear; other identities
are retired). `KeyIdentifiesTheorem` rests on `OneFramePerKey`: what is on the wire or
in the replay thread's hand is stored now or belongs to a retired identity, which
does not come back, and the buffer has one frame per sequence. `WholeOrRefusedTheorem`
rests on `AnswerInHand` (what an answer has not sent yet is still in the clone) and
assumes `AllFit`: every payload leaves room for the request_id. The run `answer_whole`
shows what happens otherwise.

**Duplicate filter** (`DuplicateWindow_proofs`): `WindowTypeCorrect`,
`SlidingWindowTheorem`, `HistoryTheorem`. The types bound the head and the length of the
history; that the set has the same keys as the history, and so the same bound, is
`HistoryTheorem`. `WindowInv` says where the keys are: the
i-th recorded key, as long as it is among the last `DedupCapacity`, sits in slot
(i - 1) % `DedupCapacity`, the head is the slot of the next one, and no key of the window is there
twice. Eviction then hits exactly the key that leaves the window; the lemmas are about
division with remainder.

**Recovery engine** (`RecoveryCalls_proofs`): `StateTheorem`, `ClosedTheorem`,
`ReceivedTheorem`, `IncompleteTheorem`, `LimitsTheorem`, `CallsTypeCorrect`, for every
order of calls. The five properties and the types are inductive together once
`ClosedWereMade` (closed ids were given out, so the next id is none of them) is
added. One lemma per call; `RequestOK` collects what is said of one request, and
`RequestsOnlyClose` and `InvClosing` serve the calls that open nothing.

**Receiver** (`StreamReceiver_proofs`, `ReceiverCalls_proofs`). The first module says
what each operation does: that `drain_contiguous` stops and returns exactly the run
that is buffered, that `drain_buffered` returns each buffered frame once and in order
(both by finiteness of the buffer, part of `ReceiverInv`), and one lemma per arm of
`process_data_frame`. The second proves

* `ReceiverTypeCorrect`, in all modes;
* `LatestTheorem`, from `LatestInv`: in LATEST no request is ever open and everything
  handed out is at most `highest_delivered_sequence`, so each publisher's sequences
  increase;
* `InOrderTheorem`, from `OrderInv`: what waits is the active publisher's, and, until a
  replay completes, a key in the filter at or above `expected_sequence` is that of a
  waiting frame and never of the expected one (`AheadIsBuffered`). This is why the
  filter does not swallow the frame delivery waits for, although the tracker moves
  before the filter is asked;
* `ArrivedTheorem`, from `KeptInv`: besides what arrived, every key of the filter and
  every sequence below the expected one is waiting or was handed out, so whatever
  suppresses a frame has a reason. It is about RELIABLE_ORDERED; AT_LEAST_ONCE drops a
  frame whose request is refused (the run `no_silent_loss`);
* `NoSilentStallTheorem`, with the hypothesis `GapsCanBeAskedFor` (no gap exceeds
  `max_replay_range`, and requests are allowed at all). The run `no_silent_loss` shows
  what happens otherwise.

**Codec** (`CodecCalls_proofs`). `ParserTheorem`: `decode` succeeds on exactly the
`WellFormed` packets and the `TakenSnapshot` ones, whatever lengths the fields and TLVs claim. The walk over the
extensions is a recursive function; that it is defined is shown by extending a
solution downwards from the end of the area, and what it returns by taking the last
offset at which a claim could fail: a TLV ends after it starts, so the claim holds
there. `FirstTile` and `PrependTile` relate a step of the walk to the declarative
tiling. `AcceptanceTheorem`, `RoundTripTheorem` and `DamageTheorem` follow from
`CodecInv`: the packet in the buffer is the encoding of what was sent or differs from
it and carries its checksum, damaged or not. `DamageTheorem` holds of any number of
damaged fields, and is about an ideal checksum.

**System** (`RtdpSystem_proofs`). `SystemInv` ties the two ends together. The publisher
has published 1, 2, ..., `sequence_counter` - 1 and its buffer holds `RingInv`; all that
is in flight as an answer, in the replay thread's hand, in the out-of-order buffer,
on its way to the channel or in it is `Owed`, and every range asked for, in a request
or in a datagram, ends below a frame that was seen (`Heard`). From it

* `SystemTypeCorrect`;
* `SystemHandsOverOnlyOwed`: the system implements the safety part of `StreamService`,
  step by step: `Publish` is a `Publish`, taking in a DATA frame a `HearOf` or, for an
  older frame, nothing, `Consume` a `Receive`, and every other step leaves the stream
  alone;
* `SystemNoSilentStall`, under `GapsCanBeAskedFor`, from the receiver's lemma for each
  arm of the worker: what opens no request has delivered everything or failed;
* `SystemRecoversWhatIsRetained`. The invariant is `RecoveryInv`: while the conditions of
  the property hold, nothing has been refused, and each open request has used at most
  as many retries as there were faults, fewer once it ages; if it has used as many,
  all it still misses is on its way (asked for, in hand or in an answer in flight).
  Then a lookup is served, because a range the subscriber asks for lies between 1 and
  `max_sequence` and all of that is retained; a response that is delivered is counted; a
  fault gives every request a retry; time passes only when nothing is on its way, so a
  request that waits then has a fault it has not answered; and a request that runs out
  of time has a retry left. The conditions cannot become true again once they are
  false, because an expired frame stays expired. The theorem assumes a retry timeout
  that is not zero (otherwise a request is due as soon as it is made) and `ReplaysFit`
  (as `AllFit` above).

Assumptions on the constants, which TLC evaluates in the runs: `FramesAssumption`
(sequences are positive), `CapacityAssumption` (the constructor asserts it),
`DedupCapacityAssumption` (the filter is made with 10 000 places, modes.rs:29),
`RecoveryAssumption` (the four limits are natural numbers), `ModesAssumption` (modes are the code's four), `ChannelAssumption`,
`PublisherAssumption`, `MaxAskedAssumption`, `FaultsAssumption` (types of the bounds),
`CodecAssumption` (types of frames and configurations), `NoneIsNoFrame` and
`NoneIsNoAnswer` (`None` is a value apart).

Only model-checked: `EveryRequestEnds` and the liveness part of `ProvidesService`
(fairness is out of the prover's reach).

## 6. Left out, and the plan

Not modelled: byte layout and the CRC-32C polynomial (nothing a model checker adds to
the golden vectors), `HeaderExtension::encode`, socket set-up, the publisher's
fault-injection entry points and the end of its replay thread, statistics counters,
timestamps, null out parameters and memory safety of the C ABI, the CLI, the
conformance runner, the benchmarks. `buffered_out_of_order` is unbounded in the code
(engine.rs:141); the instances bound it by the number of sequences.

Plan, in order:

1. Proofs of what each step may not do: a request's range and id never change while it
   is open, `next_request_id` and `sequence_counter` only move as the code moves them,
   and the worker's use of the engine keeps the contract of `RecoveryCalls`, so that its
   theorems hold of the receiver and of the system.
2. `RtdpSystem` with a restart of the publisher, and with untimely timeouts.
