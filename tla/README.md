# Verification of the QPSK/B200 modem and its LTP convergence layer

Two programs live in this repository. `qpsk_b200` (src/main.cpp) is a modem: TCP
or UDP bytes are framed, FEC-encoded and sent through a USRP B200, and what is
received comes out of a TCP or UDP output. `ltp_cla` (src/ltp_cla/) runs the
Licklider Transmission Protocol (LTP) on top of it: blocks from TCP clients become LTP
sessions, segments go to the modem over TCP, and blocks received intact are
given to TCP clients. What is here are TLA+ models of the parts with state,
concurrency and failure, TLC runs that check them on small instances, and TLAPS
proofs that hold for every instance.

Paths below are relative to the repository root.

## Inventory

| Component | State | Operations | Talks to | What is hard |
|---|---|---|---|---|
| `SpscQueue` (include/qpsk_b200/spsc_queue.h) | ring of slots, two atomic indices, mutex, condition variable | `try_push`, `try_pop`, `pop_wait` | input thread -> TX thread; RX thread -> output thread | lock-free accesses to slots, wake-up of a sleeping consumer, wrap-around |
| `ReceptionTracker` (src/ltp_cla/reception_tracker.cpp) | sorted list of byte ranges | `add_range`, `is_complete`, `get_gaps`, `total_received`, `clear` | owned by a receiving session | merging of ranges that overlap, touch, repeat |
| `TimerManager` (src/ltp_cla/timer_manager.cpp) | heap of timers, set of cancelled ids, thread, condition variable | `run`, `stop`, `start_timer`, `cancel_timer`, `thread_func` | engine starts and cancels, thread calls `handle_timer_expiry` | lost wake-ups, cancel racing expiry, restart, join |
| `LtpEngine` (src/ltp_cla/ltp_engine.cpp) | session map, session counter, timer ids by session and serial | `start_session`, `receive_segment`, `handle_timer_expiry`, `cancel_session` | ingress, CLA, timers, egress, through callbacks | loss, late and repeated answers, retries, session pool, crossing cancels; three threads enter it without a lock |
| ltp `main.cpp` | the wiring of the above | start, signal, stop | all LTP parts | order of shutdown |
| `LtpSegment`, `Sdnv` | none | encode, decode | engine, CLA | limits of lengths and of 64-bit numbers |
| `ConvergenceLayerAdapter` | TX queue, two connections, receive buffer | `send_segment`, `run_tx`, `run_rx`, `reconnect_loop`, framing | engine, modem | connection lost inside a frame, back-off, shutdown |
| `TcpIngress` | clients with buffers | `run`, `stop` | engine | partial messages, clients that vanish |
| `TcpEgress` | clients, buffer with a byte limit | `deliver`, `run`, flush | engine, clients | delivery without clients, failed writes |
| Modem threads (src/main.cpp) | two queues, receive buffer, counters | input, TX, RX, output threads, shutdown | servers, encoder, decoder, radio | full queues, several bursts in one buffer, joins |
| `TcpInputServer`, `TcpOutputServer` | client sockets | `poll_once`, `write_to_all` | modem threads | events of a socket that has been replaced |
| Frame, FEC, symbol mapper | none | build/parse, encode/decode | encoder, decoder | round trip, error correction |
| Synchronisers, pulse shaping | filters, loops | float DSP | decoder | not within reach of TLC |
| `B200Interface`, configuration, logging | device handle | I/O | | |

What makes each correct: the queue is a linearizable bounded FIFO and never
loses a wake-up; the tracker is the set of received bytes; a timer fires once,
in order, unless cancelled in time, and the thread never oversleeps; a session
delivers exactly the block or fails, its originator is told the truth, retries
are bounded, and every session ends; the convergence layer delivers whole
segments in order or drops them; egress delivers each block to each client that
is connected, without a gap; ingress gives each whole message of a client to the
engine once; the modem cuts its input into bursts without loss or reordering other
than drops at a full queue, bounds its receive buffer, and ends on a signal; what
encoder and mapper make of a payload or a segment, decoder and parser give back or
refuse.

`PROJECT.json` lists all components with their status, and under `hazards` the
places in the code that are hard to test, each with the properties that watch it.

## Modules

| Module | Models | Extends |
|---|---|---|
| `BoundedFifo` | what a bounded SPSC queue promises (abstract) | |
| `SpscQueue` | the ring buffer, one step per access to shared memory | |
| `Lists` | sum of a list, list without some members, as recursive functions | |
| `ListFacts` | lemmas that several proofs share: induction, iteration, sums, filters, members and concatenations of lists | `Lists` |
| `Intervals` | byte ranges and the canonical list for a set of offsets | |
| `ByteSet` | what a reception tracker promises (abstract) | |
| `ReceptionTracker` | the list of ranges, and `LtpEngine::compute_gaps` | `Intervals`, `Lists` |
| `TimerManager` | heap, timer thread, clock | |
| `BuildingBlockProofs` | theorems about the queue, the tracker and the timers | `SpscQueue`, `ReceptionTracker`, `TimerManager`, `ListFacts` |
| `LtpEngine` | the handlers of the engine | `Intervals`, `Lists` |
| `LtpLink` | two engines, their timers and a lossy link | `LtpEngine` |
| `LtpLinkProofs` | the inductive invariant of the link, what the engine's operators compute, why every handler keeps it; theorems about the link | `LtpLink`, `ListFacts` |
| `Framing` | length-prefixed messages in a byte stream | |
| `FramingProofs` | what framing and extraction compute | `Framing`, `ListFacts` |
| `ConvergenceLayerAdapter` | the two threads between engine and modem | `Framing` |
| `ConvergenceLayerAdapterProofs` | theorems about it | `ConvergenceLayerAdapter`, `FramingProofs` |
| `TcpEgress` | delivery of blocks to TCP clients, with a bounded buffer | `Lists` |
| `TcpEgressProofs` | theorems about it | `TcpEgress`, `ListFacts` |
| `TcpIngress` | the thread that takes blocks from TCP clients | `Framing`, `Lists` |
| `TcpIngressProofs` | theorems about it | `TcpIngress`, `FramingProofs` |
| `ModemShared` | mode, I/O layer, radio and flag of the modem | |
| `ModemInput` | input thread with its server, queue, transmitting thread | `ModemShared`, `Lists` |
| `ModemOutput` | receiving thread, queue, output thread with its server | `ModemShared` |
| `Modem` | `main()` and the composition of both halves | `ModemInput`, `ModemOutput` |
| `ModemProofs` | theorems about both halves | `Modem`, `ListFacts` |
| `Fec` | convolutional code and Viterbi decoder | |
| `BurstCodec` | frame, CRC and symbols of a burst | `Fec` |
| `SegmentCodec` | SDNVs and LTP segments as bytes | |
| `Codecs` | both conversions over a line that cuts and disturbs | `BurstCodec`, `SegmentCodec` |
| `MC...` | instances for TLC | |

A few definitions stand beside the one they are a variant of (`PushRoom` and
`PushRoomUnchecked`, `Covers` and `CoversByEnd`): the variant has a plausible
bug, and putting it in the place of the original must violate a property.
`PROJECT.json` pairs them under `mutants`.

### SpscQueue

`head_`, `tail_`, `buffer_` and `mtx_` are the members; `ppc` and `cpc` are the
places where the producer's and the consumer's calls stand. The release store of
an index and the acquire load of it by the other thread order the slot accesses
in between, so an interleaving of the steps as written is what C++ guarantees.
A slot access is a step of its own: if both threads stand before an access to the
same slot, that is a data race, and `SlotExclusion` excludes it. `pop_wait` is
the fast path, the mutex, the predicate, the block on `cv_` (which releases the
mutex in the same step), wake-up by notification, timeout or for no reason, and
the last `try_pop`. `size`, `empty`, `full` only read, and no thread of the
modem uses them. The constructor's comment calls `capacity` the maximum number
of elements; one slot always stays free, so it is `Capacity - 1`.

`LinearizableFifo` maps the ring to `BoundedFifo`: the push takes effect when
`head_` is stored, the pop when `tail_` is.

### ReceptionTracker

`ranges_` is the list. `Skipped` and `MergeLoop` are the two loops of `add_range`, `MergeRound` the body of the
second; `compute_gaps` and `get_gaps` share their loop (`GapScan`, with `GapRound` as its body). The properties
compare them with sets: the list is `MaximalRanges` of its bytes. `is_complete`
is only sound and not complete in general (with [0,1) and [2,3) it is false for a
total of 1, where its comment says "check if [0, total_length) is fully covered"):
the engine never asks with a total below a received byte, so it does not matter there.

### TimerManager

All steps under one hold of `mtx_` are one action, except that the thread keeps
the mutex from one round of the loop to the next when it discards a cancelled
timer (`pc = "loop"`); the clock moves at any time. `wait` and `wait_until` block
in `"wait"` and `"timed"`; a spurious wake-up leads to the head of the loop, whose
test is the wait's predicate. `stop()` is three steps because it notifies and
joins without the mutex. `fired` and `revoked` are history variables.

`cancel_timer` inserts the id whatever became of the timer. For a timer that has
fired the id stays in `cancelled_` for ever and `pending_count` is too small from
then on, against "No-op if already fired or not found" (timer_manager.h:69). No
run is about it, since nothing but tests calls `pending_count`. Nor is one about
"Cancels all pending timers" (timer_manager.h:61), although `stop()` leaves the
heap as it is and a second `run()` fires what is in it: `timer_manager` includes
restarts, and its properties hold for the timers that are carried over.

### LtpEngine and LtpLink

A session is identified by `<<engine, number>>`. `sessions_[e]` is the map of
engine `e`; a session is in it exactly while its state is ACTIVE, because each
handler that completes or cancels a session erases it before it returns. Blocks
are sequences of abstract bytes; `Zero` is what `resize` fills in. The tracker of
a session is the set of offsets, which `ReceptionTracker` justifies. Timers are a
sequence per engine: all have the same timeout, so the one started first expires
first; `mapped` tells whether `checkpoint_timers_`/`report_timers_` still hold
its id, since only then can it be cancelled. `firing` holds an event that the
timer thread has popped and whose callback has not run yet. A cancel that comes
in between has no effect, as `TimerManager` shows.

Each handler is one atomic action. That is an assumption: main.cpp lets the timer
thread, the CLA's receiving thread and the ingress thread call the engine, which
has no mutex. What a handler does when it is interrupted by another is not modelled
yet (see the plan).

`LtpLink` adds what is outside the engine: the applications that start and cancel
blocks, the loss of segments, and the expiry of timers. The link keeps the order
of segments and does not duplicate. A timer may expire when nothing is under
way, or, `MaxEarly` times, while an answer to it may still be (the timeout is
shorter than the round trip). `given` and `delivered` record the calls to and
from the clients.

Not modelled in the engine: diagnostics counters, logging, segment encoding, the
segment type RED_DATA_CP_EORP, which this engine never sends, and `get_session`
and `get_diagnostics`, which only read.

Five things that reading and checking the engine bring out, and that the properties are
stated around:

- A retransmitted report names its own serial as the checkpoint's (ltp_engine.cpp:616),
  against the comment at line 613. Such a report, or one for part of the block, stops
  the checkpoint timer and leaves no gap in its scope; the originator then waits for
  reports (line 377) with no timer at either end, and keeps its place in the pool.
  `OriginatorCovered` and `BlockSettled` say that this happens only once the block has
  been delivered.
- A gap retransmission that arrives after its session was delivered opens a session
  whose length stays 0 and which counts as complete (`ltp_delivered_whole`).
- The report timer of an empty block sends nothing (line 615): when the first
  acknowledgement is lost, the block is not delivered although its originator completed.
  `ltp_liveness` has no empty blocks.
- A cancel segment is sent once and without a timer. When it is lost, the receiver's partial
  session keeps its place in the pool, as does a green session whose last segment is
  lost; the code has no timeout for receiving sessions.
- `retransmission_count` and `max_retransmissions` are `uint8_t`: with 255, which
  `validate()` accepts, the counter wraps before it can exceed the limit.
  `RetriesBounded` is checked for a limit below that.

### ConvergenceLayerAdapter and Framing

`Framing` keeps the big-endian prefix and its width: `Base` to the power of
`PrefixLen` stands for 2^32, which bounds the sums of lengths as `uint32_t` does.
The adapter's state is doubled by `Side`, as `reconnect_loop` is shared by both
threads. `fd` is -1 ("closed"), "open", "broken" (the peer has gone and no call
has returned it yet) or, for TX, "stalled" (the peer does not read and its window is
full). A write on a broken connection may still be accepted by the
kernel, may fail, or may raise SIGPIPE: main.cpp handles SIGINT and SIGTERM only and
the call is `::write`, so the process ends (`TxWriteKilled`). The socket is a blocking one,
so a thread that is inside `write()` (`"writing"`) stays there while the connection is
stalled, whatever `running_` says. `poll` and `read`
deliver any part of what has arrived. A test of `running_` that is followed
by a call which blocks is a step of its own; the others are joined with the step
that follows them. A thread that has evaluated the predicate of its wait and has
not blocked yet is at `"decided"`, and holds the mutex. `stream`, `whole`,
`accepted`, `finished`, `peerSent`, `received` and `missed` are history variables.

External and assumed: the modem sends whole frames from the start of each
connection. With the real modem in between, a lost burst breaks this (see the
hazards), which is left to a composition. The modem may stop to read, and need not
read on or go away ever again. The receive callback is assumed to return: what
it calls in the engine and the egress can block as `TcpEgress` shows, and then the
receiving thread cannot be joined either.

Unless that callback blocks, `stop()` hangs in two ways. It clears `running_` and notifies without `tx_queue_mtx_`; when the TX
thread has evaluated its predicate and not blocked yet, the notification is lost and `join` never
returns. And when the TX thread is inside a `write()` that blocks for ever, nothing ends
that call. `StopReturnsUnlessParked` says that there is no third: if no `write()` blocks for ever
(`[]<>~InStalledWrite`), `stop()` returns, or it notified exactly while the thread was at
`"decided"` (`missed`) and the thread is now blocked on the condition variable. `StopHeard` is the
invariant behind the second half. Neither property finds the two hangs: they characterise them.

### TcpEgress

`client_fds_`, `buffer_` and `buffer_bytes_` are the members. Because `write()` may block,
`write_to_clients` is a step per client, during which the caller, `deliver()` or the
flush, keeps `mtx_` (`writing`, `frame`, `todo`, `dead`); everything else that is done
under one hold of the mutex is one action. A client that does not read is `"stalled"`
and blocks its writer; a write to one that has gone may be taken by the kernel, fail, or raise
SIGPIPE as in the adapter. `stop()` closes the listening socket, joins the thread and
then needs the mutex. `count`, `got` and `joined` are history variables. The size of
a block stands for that of its frame; its content does not matter here.

### TcpIngress

Clients are known by descriptors, and `accept()` returns the lowest free one, so that a
descriptor comes back while the thread still has the events of the last `poll()`
(`polled`) at hand. `read()` returns any part of what has arrived, and the messages
that it completes are extracted in the same step (`Extracted` of `Framing`). A client may
close in the middle of a frame, with data still to be read, or be reset, with the
data lost. `client_fds_` and `buffers` are the member and the local variable of the code.

### The modem: ModemShared, ModemInput, ModemOutput, Modem

`Modem` is `main()` with up to four threads in the modes tx, rx and txrx, with TCP or UDP,
and with a radio that works, has no streamers, or cannot be opened. The two queues
are sequences with atomic operations, which `LinearizableFifo` of `SpscQueue` justifies.

`ModemInput` has a place for each call that can block: `"top"` (before `poll_once`),
`"recv"`, `"frames"`. A byte is a connection and a position in it, so that order, loss and
mixing can be seen. `poll_once` decides on the events of the former client whether to
call `recv()` for the one it has just accepted, and the socket is a blocking one: the thread
may be parked there (`InputParked`). The comment at tcp_input_server.cpp:106, "only if no client is
currently connected", is not what the code below it does: a second client replaces the first, and
what is buffered of the first is joined with the second's bytes. The 100 ms of idle
time are the choice between `InFlushIdle` and `InWait`.

`ModemOutput` counts samples in batches. A batch is silence or a part of a burst, which is
clean or disturbed. What `Decoder::decode` makes of a buffer is the choice of a burst
that is there as a whole, with none before it that is sure to be found, since frame
synchronisation takes the first preamble; disturbed and incomplete bursts may or may not be
found. A datagram of up to 65535 bytes is one burst, which may be longer than the buffer
ever is: `LostOnlyBehindAnother` is about bursts of up to half of MAX_BUFFER_SIZE. A decoded
burst clears the buffer, a failure trims it. The output thread writes to
its clients one by one, from the last to the first, and removes those that have gone.
External: clients, the air (one batch of silence at least between two bursts), and whether
the radio answers.

### Codecs: Fec, BurstCodec, SegmentCodec

Operators, and `Codecs` as the state machine that applies them: encode, then the line loses
its end, has more bytes or symbols behind it or is disturbed, then decode. What is behind a
burst, whole or cut, is the rest of the receive buffer (`Follow`): a disturbed frame length that is
too great finds symbols there, and the burst reaches the CRC check. The code with constraint length 7, its
puncturing, the 35-bit header and CRC-32 are those of the source (`MCCodecs` asserts the standard
check value of the CRC). Received components of symbols are a sign or 0, which is what the decision
tells apart. In `SegmentCodec` a byte has `DigitBits + 1` bits and a number `ValueBits`, so
that all numbers can be tried.

`LtpSegment::decode` has three outcomes. A report names the number of its claims, and `reserve` is
called for that number before any claim is read (ltp_segment.cpp:200). Beyond what the allocator
gives (`MaxReserve`) it throws `length_error` or `bad_alloc`; the catch at line 234 takes
`runtime_error`, which neither is, and nothing on the receiving thread of the convergence layer catches
them, so the process ends, whereas ltp_segment.h:155 says "Returns nullopt on malformed input". `Miscount` makes such
reports, as a stream that lost a part does (hazards), and `SegmentRoundTrip` says that decoding throws
for those counts and for nothing else. Other disturbed numbers are not modelled.

Abstracted: sums of an offset and a length are exact (the code's wrap near 2^64); an SDNV of the
greatest length silently loses upper bits, in the model as in the code; numbers of
extensions and lengths of data are those of the lists; a last partial byte that the Viterbi decoder
would give is not told apart from its bits; corrected errors are counted per call, whereas
`corrected_errors_` is never reset although fec.h:61 says "per frame".

The rate in the header is used for the length of the coded payload only; the decoder is
the one for the configured rate. A receiver set to another rate therefore refuses
the burst, which `NoWrongPayload` includes and `BurstRoundTrip` excepts.

## Runs

| Run | Instance | Shows |
|---|---|---|
| `spsc_queue` | 3 slots, 2 elements | no slot race, no lost wake-up, the FIFO refinement, and that every element is popped |
| `reception_tracker` | offsets below 8 | canonical list, exact gaps, sound completeness and exact count, refinement of `ByteSet` |
| `timer_manager` | 3 timers, timeouts 1 and 2, clock to 3 | fires once, never after a cancel that was in time, in order; never oversleeps; `stop` returns and leaves nothing running |
| `cla` | 2 messages in either direction, 1 connection that is lost or stalls, or a restart, two-digit prefixes in base three | streams stay framed, segments keep their order, no spliced and no withheld message, no call on a closed descriptor; everything is written unless a `write()` blocks for ever; `stop` hangs only then or when its notification was missed |
| `ltp_red` | one red block of 0 or 2 segments, 3 losses, 3 early timers, 3 retries | deliveries are the block, "complete" is true, claims are true, the originator keeps a timer, retries are bounded |
| `ltp_liveness` | two crossing red blocks, pools of one session, 1 loss, 1 early timer | blocks are settled, completed blocks delivered, full receivers end |
| `ltp_mixed` | two crossing blocks, red or green, pools of one session, 2 losses, 1 early timer, 1 cancel by an application | pool bound, placement of green bytes, finality of outcomes |
| `tcp_egress` | 2 clients, 3 blocks of three sizes, 3 connections, 2 that go or stall | the byte count is exact and bounded, nothing waits beside clients, every client reads consecutive blocks, the flush loses only what all its readers left, `stop` hangs only on a stalled client |
| `tcp_ingress` | 2 descriptors, 3 connections, 3 frames or ends, empty blocks and blocks of a byte | streams are conserved per client, nothing is withheld, events and descriptors stay paired, an orderly close loses nothing, `stop` returns |
| `modem` | all modes, I/O layers and radios; frames of 2 bytes, queues of 1, up to 3 inputs, up to 7 batches and 2 clients | input is conserved, bursts fit and mix only by replacement, transmit order, bounded receive buffer, order and loss of bursts, complete output streams, last drain, idle flush, shutdown |
| `codecs` | all segment types, all numbers of 5 bits, every cut, every number of claims; bursts of 0, 1 and 3 bytes with every disturbance of one component, or of two, and silence or other symbols behind them | round trips, refusal of what is cut or corrupted, where decoding throws, error correction |

An invariant that a run lists is mostly a conjunction of named parts, each stated and
explained in its module, the types among them:

| Invariant | Parts |
|---|---|
| `QueriesExact` | `GapsExact`, `CompleteSound`, `TotalCountsBytes` |
| `FiresRightly` | `TypeOK`, `FiredOnce`, `CancelledNeverFires`, `FiresInExpiryOrder`, `StoppedIsQuiet` |
| `ClaimsTrue` | `ClaimsHoldBlockBytes`, `CompletionMeansReceived` |
| `OriginatorTries` | `OriginatorCovered`, `RetriesBounded` |
| `ReceiverSettled` (temporal) | `CompleteIsDelivered`, `WholeReceiverEnds` |
| `SendsInOrder` | `TypeOK`, `StreamParses`, `InQueueOrder` |
| `ReceivesWhole` | `NoSplicedMessage`, `NothingLeftInBuffer` |
| `BufferSound` | `TypeOK`, `BufferAccounted`, `NoBacklogBesideClients` |
| `ClientsServed` | `ClientStream`, `WritesToOpenClients` |
| `StreamsApart` | `TypeOK`, `PolledAreClients`, `StreamConserved`, `NoMessageWithheld` |
| `InputSent` | `SharedTypeOK`, `InputTypeOK`, `InputConserved`, `PayloadsFit`, `MixedOnlyByReplacement`, `TransmitOrder` |
| `ReceivedInOrder` | `OutputTypeOK`, `RxBufferBounded`, `DecodedInOrder` |
| `OutputDelivered` | `OutStreams`, `DrainedAtExit` |

`QTypeOK`, `OccupiedFilled` and `WaitedPopSucceeds` of the queue and `StopHeard` of the adapter are in
no run, since they are proved.

Some hazards are excepted by the properties that name them, and so not caught: the code has them,
and what the properties show is that nothing else goes wrong in the same place. These are the two hangs of the
adapter's `stop()`, a stalled client of the egress, SIGPIPE in both, a thread of the modem parked in `recv()`, in
`send()` or at a radio that does not answer, and the mixing of a replaced client's bytes. Assumptions on constants exclude the
wrap of the retry counter at 255 and that of the back-off at 2^31. The hazard's note in `PROJECT.json` says so each time.

One run is expected to violate a statement of the repository: `ltp_delivered_whole`, for
"all data received and report acknowledged" (ltp_engine.cpp:536). Late retransmissions open the
session again; with no end of block it counts as complete and delivers nothing, as one
more block.

`RedDeliveryIntact` and `BlockSettled` are stated around this and the
stranded originator: a red delivery is the block, or it is empty and follows one that was whole;
an originator ends, or its block has been delivered. Delivery is thus at least
once: a block sent again as a whole after its delivery is delivered again.

Bounds. A ring of three slots has full, empty and wrapped-around states with one
and two elements, and two elements tell order and duplication apart. Eight
offsets give up to four separate ranges and all ways in which a new one can touch
them. Three timers give one that is firing, one on top and one below. Two segments
per block give every pattern of received and missing bytes that the protocol tells
apart: prefix, suffix, all, nothing; three losses and early timers let a
report, its acknowledgement and the retransmission that answers them be lost or
late together. Pools of one session make every crossing block meet a full pool.
Frames of two and three bytes can be cut in every part of the prefix and the data,
and one lost or stalled connection in each state of both threads is enough to reach every way
back into their loops, and every place in which a thread can be when `stop()` comes. In the egress a limit of 5 with frames of 2, 3 and 6 bytes has
blocks that fit together, that push one out, and that never fit; three connections on two
clients let one come back. On two descriptors a third connection must use one
again. In the modem frames of two bytes have a full, a partial and a cut case, queues of one
element overflow, and MIN_DECODE_SAMPLES and MAX_BUFFER_SIZE of 2 and 4 batches let a burst of
three lie across a trim; what happens in modes with one half only is bounded more generously
than in txrx, where both run but share nothing besides the flag. A payload of one byte is 28 coded bits, so
two disturbances at rate 1/2 are every pair of positions, the tail included.
`MaxLoss`, `MaxEarly`, `MaxCancels`, `MaxStarts`, `MaxTimers`, `MaxTime`,
`MaxMessages`, `MaxUpsets`, `MaxBlocks`, `MaxConnects`, `MaxInputs`, `MaxBatches`,
`MaxClients`, `MaxExtra` and the field `noise` of a burst are the names of all bounds.
`MaxReserve` is a limit of the program's memory and not of the run: 4 claims are more than any
segment of the run has and less than 31, the greatest number, so that counts on both sides of it occur.
40 symbols behind a burst are more than a frame length needs that is greater by four bytes, with and without FEC.
`CHECK_DEADLOCK FALSE` in the
LTP runs: two idle engines with nothing left to send have really come to rest, and so
has an adapter or an egress that is stopped or killed, a modem that has returned from
`main()`, and a codec that has decoded.

Fairness. Queue: a call that runs goes on, and the consumer's thread calls
`pop_wait` in a loop, as the TX and output threads do; no fairness for timeouts, spurious
wake-ups or the producer's calls. Timers: thread, `stop()`, callbacks and clock
go on. Link: receiving thread and timer thread go on; of the link only that it
loses at most `MaxLoss` segments. Nothing is assumed of the applications.
Adapter: both threads and a call of `stop()` go on, and connection attempts of the
TX thread are not refused for ever; nothing is assumed of attempts of the RX thread,
so `stop()` must return while they fail. Nothing makes the modem read: that no
`write()` blocks for ever is a condition of the two properties and not of the specification.
Egress and ingress: the server thread, a writer that is not blocked and a call of `stop()` go
on; nothing is assumed of clients. Modem: every thread goes on unless its call
blocks, and nothing is assumed of the radio, of clients or of the signal. The one strong
fairness is for the idle flush: 100 ms without new bytes pass some time if the buffer
stays as it is, though each single round may come too early.

## Proofs

Every theorem holds for all values of the constants that satisfy the named
assumptions of the module that declares them (`ConfigAssumption`,
`BoundAssumption`, ...); these are what constructors and `validate()` guarantee. Bounds such as `MaxLoss` are
constants too: a theorem holds for any number of losses, clients or timers. Each proof has
the same shape: an inductive invariant that holds initially and that each action keeps,
one step per action, and from which the properties follow.

| Theorem | Says |
|---|---|
| `BuildingBlockProofs`: `QueueTypeCorrect`, `NoSlotRace`, `PublishedFilled`, `WakeupNotLost`, `WaitedPopNeverFails` | `QTypeOK`, `SlotExclusion`, `OccupiedFilled`, `NoLostWakeup`, `WaitedPopSucceeds` are invariant |
| `BuildingBlockProofs`: `ImplementsFifo` | the ring implements `BoundedFifo` (`LinearizableFifo`) |
| `BuildingBlockProofs`: `ListIsCanonical`, `QueriesAreExact` | `CanonicalRanges`, `QueriesExact` |
| `BuildingBlockProofs`: `ImplementsByteSet` | the tracker implements `ByteSet` (`TracksByteSet`) |
| `BuildingBlockProofs`: `CallbacksRight`, `ThreadNeverOversleeps` | `FiresRightly`, `NoOversleep` |
| `TcpEgressProofs`: `BufferIsSound`, `ClientsAreServed`, `FlushLoses` | `BufferSound`, `ClientsServed`, and the action property about the flush |
| `LtpLinkProofs`: `TypeCorrect` | `TypeOK`, the bound of the session pool included |
| `LtpLinkProofs`: `ClaimsAreBlockBytes`, `GreenIsPlaced`, `RedIsWholeOrEmpty` | claims are true of the bytes, a green delivery has its bytes in place, a red one is the block or empty: in every case |
| `LtpLinkProofs`: `RedIsIntact`, `ClaimsAreTrue` | `RedDeliveryIntact`, `ClaimsTrue`, as long as no application cancels |
| `LtpLinkProofs`: `RetriesAreBounded` | `RetriesBounded`, for a limit below the greatest value of the counter |
| `LtpLinkProofs`: `OriginatorIsCovered`, `OriginatorKeepsTrying` | `OriginatorCovered`, as long as no application cancels; with `RetriesAreBounded`, `OriginatorTries` |
| `LtpLinkProofs`: `OutcomesAreFinal` | `OutcomeFinal` (action property) |
| `ConvergenceLayerAdapterProofs`: `AdapterSendsInOrder`, `AdapterReceivesWhole`, `AdapterDescriptorsLive` | `SendsInOrder`, `ReceivesWhole`, `DescriptorsLive` |
| `ConvergenceLayerAdapterProofs`: `AdapterHearsStop` | `StopHeard`: after `stop()` has notified, the thread is asleep or about to be only if the notification was missed |
| `TcpIngressProofs`: `IngressStreamsApart`, `IngressOrderlyClose` | `StreamsApart`, and the action property `OrderlyCloseLosesNothing` |
| `ModemProofs`: `ModemSendsInput` | `InputSent` |
| `ModemProofs`: `ModemReceivesInOrder`, `ModemDeliversOutput` | `ReceivedInOrder`, `OutputDelivered` |
| `ModemProofs`: `ModemLosesBehindAnother` | `LostOnlyBehindAnother` (action property) |

**Queue.** The properties are not inductive as a list: `RingInv` adds what each thread has learnt and the
other cannot undo. While the producer stands between its check and its store,
`cur_head` is `head_` and the slot after it is not `tail_`, since only the consumer
moves `tail_`, and away from it; the consumer's view is symmetric. For the wake-up
it adds who owns the mutex at which place: a consumer that has found the queue
empty holds it until it blocks, so a producer that has stored `head_` cannot be
past its critical section before the consumer sleeps. The refinement maps the slots from
`tail_` to `head_` to the abstract list; the index arithmetic is modulo the capacity, and the
store of `head_` appends to the list, that of `tail_` takes its head. Assumed: a positive
capacity, and `NoItem` is no element.

**Tracker.** The invariant is `Sorted`: no range is empty, and each ends before the next begins, with a byte between them.
A sorted list is `MaximalRanges` of its bytes (`SortedIsMaximal`), which is where cardinalities come in: the i-th range is the one with i - 1
starts below it. The loops have invariants of their own: the range being merged has the new bytes and those of the ranges it swallowed, and is clear
of those before it (`MergeLoopIs`); the gaps found so far are the missing bytes before the cursor, and every range passed ends there
(`GapScanIs`). That the link may keep a set in place of the list rests on these theorems.

**Timers.** `HeapInv`: an id belongs to one entry, and a cancelled one is in `cancelled_` as long
as its entry is in the heap (`cancel_timer` only inserts there, and the thread removes the id only together with
the entry). `FiredInv`: all that has fired was due before all that is left, which needs
that a new timer expires no earlier than now. `OwnerInv`: whoever stops has cleared `running_`.

**Egress.** `CallInv` says which calls can overlap: only the server thread flushes, and `stop()` closes
sockets when that thread has gone. `WriterInv` ties the frame that is being written to the buffer:
a `deliver()` that writes has an empty buffer, the flush writes its head. `SocketInv`: each descriptor is held
once, and what is held is not closed. `BufferInv`: the buffer is the last blocks, in order, with their
bytes counted. `StreamInv`: each client has read all blocks from the one at which it joined to the one
that the writer has come to; this is the part that `ClientStream` does not say and a step of the
writer needs.

**Link.** `LinkInv` is the conjunction of
  - `BaseInv`: lists and tables have their form, and the session counter counts the blocks;
  - `NetInv`: a segment under way carries bytes of its block, in place, red or green as the block is, and an end of block
    is the end (`Placed`); reports and acknowledgements are for blocks of the right side;
  - `SessionInv`: an originator has its block and an open outcome; a receiver has bytes of the block
    where the tracker says so and zeros elsewhere, and its length is 0 or the block's;
  - `PoolInv`, `TimerInv`: at most `max_concurrent_sessions` entries; timers belong to the side that started them;
  - `CancelInv`: a sender's cancel is the last that is under way for its block, which has failed. Without it a
    segment behind the cancel could open the session again, and a later report would be of another session;
  - `HistoryInv`, while no application has cancelled: for whatever has been reported, the block was delivered
    (`Intact`), or its sender has failed and nothing of it is under way (`Cut`), or the receiver still holds
    what was claimed (`Holds`). It is what makes "complete" true at the originator and excludes an empty first delivery
    at the receiver: both act on a segment that is older than the state it speaks of. It also says where
    retransmissions and reports end: the bytes behind a retransmission's checkpoint were claimed (`Behind`), so
    the bytes behind a report's upper bound are claimed in it, or the block is delivered (`Told`);
  - `DeliveryInv`: what has been delivered.

A step is a `Move`: one engine changes one session, consumes at most one segment or timer, appends segments and perhaps
delivers. `MoveKeeps` shows once which conditions on session, output and delivery keep `LinkInv`; each handler
is then shown to satisfy them (`ReceiverStep` for the peer's sessions, `SenderStep` for own ones), so
that the global argument is not repeated for twenty handlers.

`OriginatorIsCovered` is an invariant on top of `LinkInv`. The one handler that stops a checkpoint timer is
`receive_report_segment`, and afterwards the session has ended, or a retransmission has started a new timer, or the
report had no gap below its upper bound and did not cover the block. In this last case the code waits without a timer; `Told` and
`BehindGaps` show that it can occur only when the block has been delivered. `CoveredStep` and `ProceedCovers` say once
what a handler has to leave of timers and sessions; each handler is shown to do so, the taken timer whose callback is due (`firing`)
included.

`RedIsIntact`, `ClaimsAreTrue` and `OriginatorIsCovered` have the hypothesis `cancels = 0`, no call of `cancel_session` by an application so far. It is
needed: after a receiver has cancelled, retransmissions of the originator open the session again, and a
report under way claims bytes that have been dropped. The session that a retransmission's checkpoint opens then reports only up to
the end of that segment, without a gap, and its originator waits with its timer stopped and the block undelivered. The runs check the three properties with `MaxCancels = 0`
likewise; what remains true otherwise is `RedIsWholeOrEmpty`. `RetriesAreBounded` assumes
`max_retransmissions < CountModulus - 1`: with 255 the `uint8_t` wraps and there is no bound.

**Framing.** The bytes of a prefix are the digits of the length in base `Base`, so reading them back
gives the length while it is below `Base` to the power of `PrefixLen` (`PrefixValueIs`). `Parsed` says of a stream of whole frames, followed by a part of one
that holds no message (`Tails`), that its first messages have been taken and the rest of its bytes is left. It is the form in which both receiving threads keep
their stream: extraction takes the next messages until the buffer has none, whatever is still to come (`ExtractedIs`); reads move bytes
(`BytesMove`), and the sender adds a frame or a part of one (`ParsedMore`, `ParsedCut`). With the whole stream in the
buffer all messages come out (`MessagesAre`).

**Adapter.** The invariant is `AdapterInv`. `StreamParses` is not inductive, because it says nothing of the bytes behind the last whole
frame: `TxStream` adds that these are the written part of the segment in hand, and that there are none when the thread takes the next segment;
`InHand` says where it has one, and that bytes of it are left to write whenever `write()` is called. `RxStream` ties what the callback got, the buffer and the bytes on the wire to what the modem sent, with an unfinished frame at the
end only where the connection is lost. `Lifecycle` orders the joins and closes of `stop()`; `StopHeard` is a part of it,
kept because the notification wakes a thread that is asleep, and one that evaluates its predicate later finds `running_` cleared. Assumed of a segment: its frame's length
fits the prefix (`SegmentAssumption`), which in the code is 4 GiB.

**Ingress.** `IngressInv` has the parts of `StreamsApart` that are inductive and replaces `StreamConserved`, which says what extraction would still find, by
`ClientStreams`: the stream of each client is `Parsed`, with an unfinished frame at its end only if the client has left. `ClientsOnce` says that the list has each
descriptor once, so that `close` and the erase remove a client altogether, and that a reported hang-up was a reset: a client that closed in good order is
closed only when `read()` returns 0, with nothing on its wire, and `IngressOrderlyClose` follows since its buffer holds no whole message. `Lifecycle`
keeps the events of one `poll()` from outliving their round, and says that `start()` clears no buffer that is in use. A descriptor that the kernel gives
out again is free, hence not on the list and in no event at hand; `RunAcceptKeeps` uses that
the thread then sets `buffers[client_fd] = {}`. Assumed: a block's frame fits the prefix, and descriptors are numbers (`IngressAssumption`).

**Modem.** The halves share only the options, the flag and `main()`, so each has an invariant. Receiving (`OutputInv`): `Newer` is the
argument for order and for "once each": every burst that begins in the buffer is newer than all that were decoded and at most as new as the air, which
holds because a successful attempt clears the buffer, whatever else has begun in it. `RxBufferKept` is the bound that the trim restores after each attempt, plus what has come since.
`ClientsApart` is what `OutStreams` needs while `write_to_all` walks its list downwards and removes clients from it: a client is listed once, and one that is still to be
written to had joined before the payload was popped. `OutputPlaces` says which counters run where. Transmitting (`InputInv`): `InputConserved` and `TransmitOrder` are equations
between histories and go through by themselves, once `InputPlaces` says that bytes of a client that has gone stay in `buffer_` only until the end of the round in which it went
(the flush empties it); `BufferJoined` extends `MixedOnlyByReplacement` from the frames offered to the buffer and to the
byte that the current client writes next, which is the case in which a replaced client's bytes and its successor's meet.

**Induction.** The library's induction theorems have an operator parameter, which the provers cannot instantiate.
`SetInduction` of `ListFacts` states induction for a set of numbers instead (0 is in S, with n
also n + 1, hence all); loops are recursive functions over the indices, and `IterationExists`
gives such a function, so that the CHOOSE behind its definition satisfies its equation.

Only model-checked: everything about liveness and fairness; the codecs, whose round trips are statements
about what recursive definitions (the trellis, the SDNV loop) compute for every input, hence inductions over data.

## Plan

1. Models: restart of an LTP engine while its peer keeps sessions under the same numbers;
   the engine's handlers split at their accesses to `sessions_`, where the timer, receiving
   and ingress threads can meet; start and stop of the LTP program.
2. Composition: two adapters with the modem and its lost bursts between them; `LtpLink`
   with the framed stream in place of the abstract link; the abstract specification "whole
   messages, in order, possibly dropped" for both receiving sides.
3. Theorems: the refinements that the compositions need, from the lemmas about framing.

## Not modelled

- The synchronisers, filters and pulse shaping: floating-point signal processing, out of
  TLC's reach. Of frame synchronisation only the choice of the first preamble is modelled.
- The UHD driver and the device settings of `B200Interface`; its `send`, `recv` and
  `start_rx_stream` are modelled by their loops and exceptions.
- Reading and validation of options and JSON (both configurations) and logging, which keep
  no state; what `validate()` guarantees appears as assumptions on constants.
- Diagnostics counters.
