# Verification of turbulence

turbulence multiplexes several independent channels, reliable or not, over one
unreliable, unordered packet transport. This directory holds TLA+ models of its
core, the TLC configurations that check them and proofs checked by TLAPS.
`PROJECT.json` maps every definition to the lines it models and lists runs,
mutants, findings, hazards and theorems. The sources are under `src/src/`.

## 1. Inventory

| component | state | operations | interacts through |
|---|---|---|---|
| ring buffer (`ring_buffer.rs`) | raw allocation, atomics `head` and `tail` in `0..2*capacity-1` | `Writer::write/advance`, `Reader::read/advance` | shared memory between the application's thread and a channel's task |
| windows (`windows.rs`) | `SendWindow`: ring reader, `send_pos`, `sent`, sorted `unacked_ranges`; `RecvWindow`: ring writer, `recv_pos`, sorted `unready` | `write`, `send`, `get_unacked`, `ack_range`; `recv`, `read`, `window_end` | each is split between the application (one end of a ring) and the task |
| reliable channel (`reliable_channel.rs`) | both windows, `remote_recv_available`, map of unacked ranges, resend timer, RTT estimate, bandwidth, three wakers | application: `write`, `flush`, `read`; task: `ResendTimer`, `IncomingPacket`, `SendAvailable` | data and ack packets; rings; wakers |
| spsc channel (`spsc.rs`) | crossbeam queue, the sink's `slot`, two `AtomicWaker`s | `poll_ready`, `start_send`, `poll_flush`, `try_send`, `poll_next`, `try_recv`, drop of either end | two threads |
| event watch (`event_watch.rs`) | `signaled` flag, waker | `signal`, `wait` | two threads |
| unreliable channel (`unreliable_channel.rs`) | packet being filled, packet being read, spsc ends, limiter and its delay | `poll_send`, `poll_flush`, `poll_recv` | packets |
| message channels (`message_channels.rs`) | per message type two spsc channels and an event watch; `disconnected` | `register`, `send`, `async_send`, `flush`, `recv`, `recv_err`; `channel_task` | application thread and one task per type |
| packet multiplexer (`packet_multiplexer.rs`) | spsc channels by channel number, the packet being routed, the set of channels to flush | `open_channel`, incoming `Sink`, outgoing `Stream` | every channel and the transport |
| reliable and compressed bincode channels (`reliable_bincode_channel.rs`, `compressed_bincode_channel.rs`) | read and write buffers with positions; the chunks being filled and emptied | `send`, `flush`, `recv` and their polls | partial writes to and reads from the reliable channel below |
| unreliable bincode channel (`unreliable_bincode_channel.rs`) | `pending_write` | `poll_send_ready`, `start_send`, `poll_flush` | the unreliable channel below |
| bandwidth limiter (`bandwidth_limiter.rs`) | credit in bytes, time of the last update | `update_available`, `delay_until_available`, `take_bytes` | the clock |
| packets, buffers, runtime traits | none of the protocol's | | |

What is hard here, and what makes each part correct:

- **Threads on raw memory** (ring buffer): the slices made by `unsafe` code must
  never overlap, and the ring must behave as a queue.
- **Wrapping arithmetic** (windows): the order on positions is not transitive;
  both windows keep sorted lists and search them by bisection.
- **Loss, duplication, reordering** (reliable channel): the task keeps its own map
  of ranges beside the window's list, and asserts that the two agree whenever an
  ack arrives. What the application reads is what was written, flow control is
  respected, and the connection never stalls.
- **Wakeups** (spsc, event watch, message channels, reliable channel): check,
  register, check again. No wakeup may be lost, or a task sleeps for ever.
- **Backpressure and cancellation** (unreliable channel, multiplexer, bincode
  channels, message channels): a poll that returned `Pending` half-way must be
  continued correctly, or leave the channel intact if its future is dropped.
- **One failure among several** (multiplexer, message channels): a dropped receiver
  or an unknown channel must cost the other channels nothing.
- **Rate** (limiter): credit may go into debt and is only added up when somebody
  asks, so what is sent in a stretch of time is not obvious.

`PROJECT.json` lists the hazards with their lines, and for each the properties
that would catch it or a note on why there is none yet.

## 2. Modules

| module | models |
|---|---|
| `RingBuffer` | the ring, threads interleaved by atomic access and by byte |
| `ByteQueueSpec` | abstract: an atomic queue of bytes with random access writes behind its end |
| `ByteQueue` | that queue as operators, used in place of the ring by the modules above it |
| `StreamPos` | `u32` positions modulo `2 * HalfRange`, `stream_cmp` and its relatives |
| `Windows` | every operation of both windows, as operators on records |
| `SendWindow`, `SendBufferSpec` | one send window under any calls; abstract: a set of unacknowledged ranges, and the documented answer to every pair |
| `RecvWindow`, `ReassemblySpec` | one receive window under any calls; abstract: a set of received offsets, ready up to the first gap |
| `MCBuffers` | the ring and the two windows for one run of TLC |
| `WindowParameters` | the constants of the two, capacity and stream, and what is assumed of them |
| `ReliableChannel`, `ReliableStreamSpec` | both tasks, both applications, the network; abstract: a bounded FIFO stream |
| `ReliableWakers` | the application's calls on a reliable channel and the wakers, on two threads |
| `Spsc` | both ends of the channel on two threads, and their drops |
| `MCWakers` | `Spsc` and `ReliableWakers` for one run of TLC |
| `Frames` | the bytes of frames, chunks and packets; byteorder, bincode and snap by what they do |
| `BincodeChannel`, `MessageQueueSpec` | the reliable and the compressed bincode channel; abstract: a FIFO queue of messages |
| `UnreliableChannel` | coalescing, flushing and splitting of messages, the bandwidth limiter, and the unreliable bincode channel on top |
| `PacketMultiplexer` | merging and routing of packets, the incoming sink and its driver |
| `MessageChannels` | one message type: application, `channel_task`, event watch, shutdown |
| `WindowsProofs` | theorems and lemmas about the operators of `StreamPos` and `Windows`, for the three modules that use them |
| `BufferTheorems` | theorems about `RingBuffer`, `SendWindow` and `RecvWindow`; the windows on top of `WindowsProofs` |
| `ReliableChannelProofs` | theorems about the protocol, on top of `WindowsProofs` |
| `WakersProofs` | theorems about `Spsc` and `ReliableWakers` |
| `UnreliableChannelProofs`, `PacketMultiplexerProofs`, `MessageChannelsProofs`, `BincodeChannelProofs` | theorems about one module each |

The layers meet through their abstractions. The windows use `ByteQueue`, which the
ring is proved to implement. `BincodeChannel` uses the stream `ReliableStreamSpec`
promises, which `ReliableChannel` is proved to implement, and is itself proved to
implement `MessageQueueSpec`, a queue of frames and messages. `UnreliableChannel`,
`PacketMultiplexer` and `MessageChannels` use spsc channels. Where somebody waits on one
and is expected to go on, the model has the waker: the driver of the multiplexer's sink
and the send of `channel_task` sleep until the receiver wakes them, and a receiver's drop
wakes before it disconnects, as in `Spsc`.

Correspondence, where it is not one operation to one action:

- **RingBuffer.** A call is cut at the load of the other side's atomic, at each
  byte copied and at the store of its own atomic. Release stores and acquire loads
  order the bytes with the positions that cover them, so the steps interleave on
  one memory. `writer` and `reader` are the calls in progress. A call that returns 0 early
  changes nothing and is not a step. The proof that the ring implements
  `ByteQueueSpec` is what allows the other modules to use the queue.
- **SendWindow** takes *every* pair of positions as an acknowledgement, not only
  those a correct peer sends, and compares what `ack_range` returns for it with the
  answer of `SendBufferSpec` to the same pair (`AcksRight`).
- **RecvWindow** takes every block of the stream, except one so old that it starts
  more than `MaxWindow` before the end of the window: its position would be taken for
  one ahead (`Blocks`). In the run these are the first one or two bytes when nearly
  everything was read.
- **ReliableChannel.** A handler of a task is one action, as only the application
  can be seen while it runs and that only through the rings. Adding bytes to the
  send ring commutes with the handler; taking bytes from the receive ring between
  `recv` and `window_end` does not, so the handler of a data packet is cut there
  (`RecvData`, `SendAck`). Time and bandwidth appear as the choice of the ranges a
  `resend` reaches and of whether `send` finds bandwidth. `last_sent = None` (the
  rest of a partly acknowledged range) forces a resend, as in the code. The network
  is a set each way: a packet sent again while it is in flight is a duplicate,
  which the network may produce anyway. Reads and writes are of one byte in the
  runs: a call with n bytes has the effect of n calls.
- **Spsc.** A step is one use of the crossbeam queue or of an `AtomicWaker`. A drop
  is two steps, because the wake in `Drop::drop` precedes the drop of the fields.
- **ReliableWakers** is the other cut through the reliable channel: a step is one use
  of a ring's count or of a waker, and bytes are only counted. `main_loop` may be at
  any of its `select!`s; it may poll without the `send_available` branch, as it does
  without bandwidth or remote window, and it may end with an error at any point. From
  then until the error was taken (`terminated`) `try_write` and `try_read` still work. A
  call polled with the noop waker is one that is cancelled with its wakers.
- **BincodeChannel.** The stream takes and returns any number of bytes it has room or
  data for. Any poll may be the last of its future. snap may be any lossless code that
  is sometimes shorter; as TLC has to compute one, it is run-length coding. A message of n bytes is n equal numbers that tell n,
  and bincode refuses what exceeds the limit. These numbers stand for content and have
  no width; the two bytes of a length do. `framed` is what was put into frames and
  chunks, the empty frame of a refused message included; `accepted` is what `send`
  returned `Ok` for. The two differ, which is a finding.
- **UnreliableChannel.** A poll is one action. The bytes of a packet are the code's,
  with byte values modulo `ByteBase`. The limiter counts whole bytes, and a unit of
  time is the time that earns one (an `f64` and a `Duration` in the code). `wrapped`
  puts `pending_write` in front of the channel. `accepted` counts a message from the
  moment `send` or `start_send` returns `Ok`, and `vanished` those of no bytes, which
  `start_send` takes and nobody sends.
- **PacketMultiplexer.** The driver calls `poll_ready`, `start_send`, `poll_flush` and
  `try_send` in any order a `Sink` allows; `poll_flush` is one step per channel,
  because receivers act in between. A poll that returns `Pending` leaves the driver's
  waker with the full channel (`waits`), and the driver asleep until that channel's
  receiver takes a packet or is dropped (`DropWake`, then `Disconnect`). It may also be
  polled for other reasons, which no property relies on. The transport loses and reorders.
- **MessageChannels.** The task polls the branches of `select!` one after the other in
  any order; a step is one use of a queue, the flag or a waker. The typed channel below
  is external: a call on it succeeds or ends the task, and `Fail` is also the end of
  any other type's task, which ends all. The send of a message to the application tries,
  registers its waker, tries again and waits, as in `Spsc`. `slot` is the spsc slot, where a cancelled
  `async_send` leaves its message. `recv_err` drops the application's ends in the
  order of the fields, each with its wake first.

External, modelled from their use: crossbeam's bounded queue, futures'
`AtomicWaker`, the executor, `HashMap`, `Vec`, bisection, byteorder, the transport.

## 3. Runs

`tlc -config <cfg> <module>`.

| run | cfg | shows |
|---|---|---|
| buffers | `MCBuffers.cfg` | ring: slices disjoint, reads consistent, an atomic queue; send window: ranges sorted, what is unacknowledged is readable, the documented answer and effect for every pair; receive window: bytes held are intact, list invariants, the window end never retreats, reassembly up to the first gap |
| reliable_channel | `MCReliableChannel.cfg` | no assertion fails, nothing is forgotten, flow control, the FIFO stream, everything written is read |
| wakers | `MCWakers.cfg` | spsc: FIFO exactly once, no lost wakeup, items arrive; reliable channel: no lost wakeup, a flush is prompt, calls return |
| bincode_channel | `MCBincodeChannel.cfg` | both channels implement the message queue, what was flushed arrives |
| unreliable_channel | `MCUnreliableChannel.cfg` | nothing dropped before the transport, framing intact, the rate bound |
| multiplexer | `MCPacketMultiplexer.cfg` | exact routing, completeness of flush, one channel's failure costs others nothing |
| message_channels | `MCMessageChannels.cfg` | order, completeness of flush, no lost signal, every flush happens |
| spsc_disconnect | `MCSpscDisconnect.cfg` | *violated*: `DisconnectSeen` |
| exact_fit | `MCUnreliablePanic.cfg` | *violated*: `NoPanic` |
| early_flush | `MCUnreliableFlush.cfg` | *violated*: `FlushSends` |
| burst | `MCUnreliableBurst.cfg` | *violated*: `BurstBounded` |
| unsent_message | `MCBincodeAccepted.cfg` | *violated*: `DeliversAccepted` |

Run with `MCBuffers` and `MCWakers`, components that share no state take turns from
their initial states: what is checked of each is what its own specification allows. The
violated properties are what the documentation says; section 4 has them one by one.

For each property of a passing run there is a mutant in the module it is about, a
changed form of one definition (marked `Mutant:`), under which TLC finds the
property violated.

**Bounds.** The ring has 3 cells: positions wrap twice, a call covers both slices,
full and empty meet at every position; the theorems cover every capacity. The windows
have 5 bytes and positions modulo 16. The send window runs over all of them, so the wrap
falls in every place and no bound on the length of the stream is needed. The receive
window takes blocks of a 7-byte stream across the wrap: two separate unready regions,
blocks that join, cover or pass any of them, and reads that move the window. The
reliable channel sends 4 bytes across the wrap with windows of 2, packets of 2, an
allowance of 2, one fault, and two packets in flight each way. The allowance is given
also when the receiver has one byte of room, so a packet may straddle the end of the
window: partial acks, splits of ranges, overruns and stale acks all happen, and the
window closes with nothing in flight. Two unready regions at once do not fit; the
theorems cover them. Reordering and late duplicates by resending need no fault. The spsc
channel has 2 places and 4 items, so it is full with an item in the
slot and one in hand. The wakers run with windows of 2: both can be full, empty and
between. The bincode channels send messages of 0, 1, 2 and 3 bytes and one too long, with
a limit of 4 and a stream of 4 bytes, so a long frame never fits the stream at once, and
messages share a chunk or do not. The unreliable channel has packets of 8 bytes and
messages of no, one, several and exactly enough bytes and one too many, a burst of 3 and
time in steps of 3, so debts are paid off partly, exactly and in excess; the transport
holds one packet. The multiplexer has 2 channels of one place and 3 packets, on one
channel or both: with all three on one, its queue is full with a packet in its slot and
one in `to_send`, and `poll_ready` returns `Pending`; with fewer, both channels are in
use. Message channels have one place each way, 3 messages and 2 flushes out and 2
messages in, so `channel_task` waits for room while flushes are signalled and a message
is in the slot. The violated runs have the least that shows the violation.

**Fairness.** *Reliable channel*: the loops run when they can, the reader reads,
each packet leaves the network sooner or later (it is delivered or lost) and
finitely many are lost. Every range is resent as long as it is unacknowledged:
this assumes bandwidth for all ranges that become due, for `resend` goes through a
hash map and stops when bandwidth runs out; the code does not enforce it. The task
notices new data even without `flush`, as its resend timer returns periodically and
`send_available` is checked anew. The writer promises nothing. *Wakers*: both threads
run, bandwidth and remote window come back, and the remote acknowledges, as the
reliable channel shows. *Bincode channels*: only the receiver keeps polling; a sender
that flushed need not be polled again. *Multiplexer*: a driver that is awake begins a
flush some time and polls it to its end or to `Pending`; asleep, it is polled only when
woken. A receiver that lives receives, and a drop that began ends. *Spsc and message channels*: an executor
polls a task that was woken, a call that began returns, and the application keeps
receiving. Nothing else: in particular no task is polled without having been woken. An
`async_send` that waits for room is given up some time: without this the application
and `channel_task` can each wait for the other to receive (section 4). Deadlock is not
checked in runs where the traffic is bounded and may be over.

## 4. Findings and observations

Where the code does not do what a document says, a run shows it with the documented
statement as its property:

- **A dropped spsc sender may not be noticed** (`spsc.rs:67`, `DisconnectSeen`). `drop`
  wakes the receiver before the crossbeam half is gone. A receiver that polls in between
  registers again and sleeps for ever; `MessageChannels::recv_err` relies on it
  (`message_channels.rs:227-229`).
- **A message that fills a packet exactly panics** (`unreliable_channel.rs:304`,
  `NoPanic`): the assertion in `finish` is strict. Lines 107-109 and `max_message_len`
  allow the length, and lines 301-302 say that only a longer one panics. That nothing
  else does is proved (`ExactFitOnly`).
- **A flush of an unreliable channel may return early** (`unreliable_channel.rs:219`,
  `FlushSends`). Polled again after `Pending` it finds `out_packet` empty and returns
  `Ready` with the packet still in the spsc slot, where it stays until another packet is
  flushed. Lines 125-130 say that flush guarantees that messages are sent. The
  same property fails for a **message without bytes in an unreliable bincode channel**
  (`unreliable_bincode_channel.rs:144`): an empty `pending_write` means none, so it
  vanishes (`MessageLens = {0}` in the cfg shows it by itself).
- **A burst may be longer than `burst_bandwidth`** (`bandwidth_limiter.rs:57`,
  `BurstBounded`), which `unreliable_channel.rs:47-48` calls the maximum sent in one
  burst. The limiter's own comment allows debt. The bound that holds is the burst and two
  packets (`RateBounded`); two and not one, as a delay that has passed is credited only
  at the next flush.
- **A refused message is not unsent** (`reliable_bincode_channel.rs:159`,
  `DeliversAccepted`), as line 23 says it is: its zero length stays in the write buffer,
  and the peer receives an empty frame, a decoding error unless its type may be empty.
  The same property fails for a **message without bytes in a compressed chunk**
  (`compressed_bincode_channel.rs:159`, against lines 17-19): with nothing after it, it
  is never received (`MessageLens = {0}` shows it by itself).

What else the models say of the code:

- The drop of an spsc receiver has the same shape as that of the sender. A driver of the
  multiplexer's sink that polls between the wake and the disconnection waits on a channel
  that nobody empties, and the packets of the other channels with it; a `channel_task`
  that does so in its send to the application neither flushes nor ends, so `recv_err`
  does not return. `OthersArrive` and `FlushHappens` name the case (`Stranded`); without
  the exception TLC finds both violated.
- The receive window's list may keep regions that were read over (`windows.rs:389`).
  Bytes and results stay right (`ImplementsReassembly`) as long as the stream is shorter
  than half the position space. Beyond, such a region could make the list span more than
  the order of positions covers, which invariant 3 at `windows.rs:255` excludes; a real
  sender does not lead there (`UnreadyBeyondReady`, proved for every setting).
- `try_send` of the multiplexer may overtake the packet in `to_send`.
- The message of a cancelled `async_send` stays in the slot. It goes out before the
  next message, but a flush does not cover it, although `message_channels.rs:313` says
  "any buffered messages": `asked` in `FlushIsComplete` counts the messages on the
  channel.
- When one task ends, the tasks of all types do, and messages already flushed may be lost
  with them. `FlushHappens` and `FlushIsComplete` except a task that has ended.
- An `async_send` that waits for room, and a task that waits for the application to
  receive, wait for each other; giving up either ends it.

## 5. Proofs

`tlapm <module>` for each of the eight modules of theorems. `PROJECT.json` lists the
theorems and the properties they state.

**Ring buffer.** From `RingAssumption` only (a positive capacity, some byte values,
any length of data): `TypeOK`, `SlicesDisjoint`, `ReadIsConsistent` and the
refinement of `ByteQueueSpec`. None of these is inductive: a call in progress holds
a position that the other thread may have left behind. The inductive invariant
`RingInv` adds that the distance from tail to head is within `0..RingCapacity`, and for
each side what it knows from the position it saw: the room the writer saw is at
most the room there is now, as the reader only makes more (`WriterInv`), and the
bytes the reader saw are still there and equal to what it copied, as the writer only
adds behind them (`ReaderInv`). The lemmas on position arithmetic (`IncrementHead`,
`SliceLengths`, `CellInjective`, ...) reduce the two-turn positions to distances;
after them no step mentions the wrap. One lemma per action shows that it preserves
`RingInv`; for the refinement, copying maps to `Put`, the store of the head to
`Publish`, that of the tail to `Consume`, and all else to stuttering.

**Stream positions.** For every width: `stream_cmp` is undecided only for opposite
positions, and within half the space after a base the comparisons are the order of
the offsets (`StreamOrderIsOffsetOrder`). This is why the windows' assertion on their
capacity is sufficient, and how all proofs below get from positions to numbers: they
speak of offsets from a base, where the order is total.

**Windows, operator by operator** (`WindowsProofs`). `SendWindowInv` says that the
list is sorted, starts at `unacked_start` and lies within what was sent, and that the
ring holds the stream from there on; each of `write`, `send`, `ack_range` and
`get_unacked` has a lemma that says what it returns and that it keeps the invariant.
The bisection is a unique choice once the list is sorted (`RangeSearch`).
`RecvWindowInv` says that regions are separate and in the window, that each is ahead
of the ready bytes or was passed by them, and that every byte held is in its cell; the
lemmas `JoinReadyKeeps` and `InsertUnreadyKeeps` follow the two branches of `recv`, and
`RecvKeeps` puts them together.

**Send window.** For every capacity, width, length of stream and sequence of calls:
`RangesSorted`, `UnackedReadable` and the refinement of `SendBufferSpec`, all from the
lemmas of `WindowsProofs`; `AckAnswer` says which of the documented answers `ack_range`
gives, and what is left is to read a change of the list as one of the set of ranges. The
refinement says that some acknowledgement explains each step; `AcksRight` ties the answer, the ranges left and the bytes freed to the pair
that was passed, for every pair and in every state. No bound on the stream is needed,
because the invariant is relative to `unacked_start`, which moves.

**Receive window.** For every capacity and stream of up to `MaxWindow` bytes, any order,
length and overlap of blocks: `HeldBytesIntact`, `UnreadySeparate`, `WindowEndAdvances`
and the refinement of `ReassemblySpec`, `AnswersRight` included: what `recv` would answer
to *any* next block, not only to the ones that arrive. `recv_pos` is mapped to `ready`,
which the abstract window sets to the first offset not received, so a region that touches
the ready bytes and is not joined refutes it. The bound on the stream is one
the code has too, in another form: a region that was passed and not removed
(`windows.rs:389`) stays in the list, and when the stream has gone on for half the
position space it is misread. In a reliable channel no such region arises.

**Reliable channel.** For every window size, packet size, allowance, stream and number
of faults that `ChannelAssumption` permits (all positions in use lie within half the
position space): `TypeOK`, `NoPanic`, `NothingForgotten`, `FlowControl`,
`UnreadyBeyondReady` and the refinement of `ReliableStreamSpec`. The parts of the
inductive invariant `IInv` are

- the invariants of the two windows, and that the task's map has exactly the ranges of
  the window's list (`Agrees`), which is what the assertions of `recv_packet` need;
- that data packets carry their part of the stream and only bytes that were sent, and
  that acknowledgements in flight speak of bytes the receiver has, and of a window it
  has reached (`DataOK`, `AckOK`): both stay true as the receiver goes on (`AckStays`),
  so delay, repetition and reordering are harmless;
- that every byte sent is in the map or at the receiver (`Covered`), and the bound of
  flow control (`Linked`);
- `Aligned`, which is the part that is not seen in the code. A partial acknowledgement
  cuts a range, so ranges and old packets overlap in many ways. But one begins inside
  another only where the byte before it was received, and what was received never
  begins inside one. Hence a block that joins the ready bytes ends at the latest
  where the first region begins, and `recv` never takes the branch that leaves a region
  behind (`Beyond`). Without `Aligned`, `UnreadyBeyondReady` is not
  inductive.

A write maps to `Write` of the stream, a read to `Read`, every other step to stuttering.

**Spsc channel.** For every capacity and number of items: `FifoExactlyOnce` and
`NoLostWakeup`. Order is proved by counting: what was received and what is in the
channel is numbered without a gap (`Numbered`), and at each point of the sender's calls
the next number is in the slot, in `poll_ready`'s hand or with the caller
(`SenderNext`). The second is not inductive: that a sleeper will be woken depends on
its waker still being there. `WakerLeft` says that an end at its last try, or asleep,
has its waker registered or was woken since; the other end's wake after every item then
does the rest.

**Wakers of the reliable channel.** For windows of every size: `CallsAreWoken` and
`FlushIsPrompt`, and `TypeOK`, which bounds what the windows hold. The inductive
invariant `WInv` adds three facts of the same kind: which waker the application left with the task's handle (`HandleHeld`), which for room
or data (`ReadyHeld`), and that the task left its own before it slept (`SendHeld`). A
cancelled call takes only wakers of the application with it, so it costs the task
nothing.

**Unreliable channel and bandwidth limiter.** For every capacity that a two-byte length
can express, every burst and buffer size, any messages and any timing: `TypeOK`,
`NothingDropped`, `FramingIntact`, `ExactFitOnly` and `RateBounded`. The inductive
invariant `UInv` has one part for each question. `AcceptedInv` says that what `send`
returned `Ok` for is in packets or in `pending_write`. `Layout` says where in a packet's bytes
each message starts, and that its length and body are there; the reader's position is
one of these places, so `recv_next` never reads a length from the middle of a message.
`Chained` says that the packets in the queue, in the slot and being filled continue one
another's numbers. `Paced` adds up credit, what time has earned since the limiter
looked, and the backlog: while a delay runs all of it counts, afterwards no more than
the burst, which is where the second packet of the bound comes from.

**Packet multiplexer.** For any set of channels, every buffer size and number of packets:
`RoutedInOrder` and `FlushIsComplete`, whatever channels are full, dropped or fail in
between. A channel's line is what its receiver got, its queue, its slot and the packet
in `to_send` if it is for this channel. `AllRouted` says of every open channel that the
packets of its line are those pushed, the sink's in order and `try_send`'s in order.
Almost every step moves a packet along one line and leaves the line as it is; a push
adds one, at the end or before the packet in `to_send`, which is the overtaking of
section 4 and the reason that the order is stated for each way in separately.
`FlushIsComplete` is inductive only with `SlotsNoted`: a packet in a slot is always put
down in `to_flush`, also after a flush that failed half-way.

**Message channels.** For every capacity of the queues and any number of messages,
flushes and arrivals: `MessagesInOrder`, `FlushIsComplete` and `NoLostSignal`. Order is
again proved by counting (`Numbered`, `SlotNext`), with the ends the application still
holds as a function of how far `recv_err` has got (`EndsHeld`). A flush is complete
because what it asks for was in the channel when the flag was stored, and the loop of
`Next::Flush` stops only at an empty channel (`FlushInv`). `NoLostSignal` needs
`WakerLeft`, that a branch of the `select!`, or the send to the application, has left its
waker before it looks for the last time, and `WakeDue`, that what came after that look is
about to wake the task.

**Bincode channels.** For every set of message lengths, every limit that a two-byte
length can express, every size of the stream and both channels: `TypeOK` (the lengths
converted to `u16` fit, and the receiver waits for at most one frame) and the refinement
of `MessageQueueSpec`. A write may be cut after any byte and a future dropped after any
poll, so no condition on one buffer is inductive. `PipeInv` looks at all of them at once: the
bytes in the read buffer, the stream and the write buffer, put together, are whole frames
(`Pipe`), each frame carries a group of messages (`Carries`), the two chunks hold whole
messages (`Packed`), and what was framed is what was delivered, followed by those of
the receiver's chunk, of the frames and of the sender's chunk (`Lines`). Partial writes
and reads move bytes within that row and need no case of their own. That a read stops at
the end of a frame follows from the header: once it is read, it tells the length of the
frame at the front of the row (`Measured`); before that only the rest of it is asked for.
Being a row of whole frames is expressed by the places of its cuts (`MadeOf`), as a
recursive definition could not be reasoned about.

The inductive invariants were checked by TLC on the bounds of section 3 before they were
proved, but for `PipeInv`, whose quantifiers over rows TLC cannot enumerate; what follows
from it, `TypeOK` and the refinement, was.

**Only model-checked.** Every safety property of a passing run is stated by a theorem.
What is left is liveness: `EverythingArrives`, `CallsReturn`, `FlushedArrive`,
`ItemsArrive`, `OthersArrive` and `FlushHappens`, with their fairness, which is beyond
this prover, as are `ENABLED` and induction over data. The theorems come close to some of
them: `NoLostWakeup`, `CallsAreWoken` and `NoLostSignal` are the safety part of
`ItemsArrive`, `CallsReturn` and `FlushHappens`, that nobody sleeps who has something to
do. `DisconnectSeen`, `NoPanic` of the unreliable channel, `FlushSends`, `BurstBounded` and
`DeliversAccepted` are false (section 4).

**Assumed**: no packet survives in the network while the stream advances by half the
position space (in the code 2^31 bytes), or its position would be misread.

## 6. Not modelled, and the plan

Not modelled: the RTT estimate (a floating-point average that decides when a range is
due, which is nondeterministic here); malformed packets of a peer that is not this
code, and the errors of snap and bincode that only they cause; registration by `MessageChannelsBuilder`, straight-line code before anything
runs; the drop of a `MessageChannels` without `recv_err`, which drops the task with it;
typed wrappers, byte statistics, the packet and buffer traits and the runtime traits,
which keep no protocol state.

The order of the work:

1. *Done*: every component that keeps protocol state is modelled.
2. *Done*: every invariant, action property and refinement that a run checks is also
   a theorem, for every value of the constants.
3. Worth doing with a prover that has them: `EverythingArrives` under its fairness, by
   induction on the first byte not received; and the waits of `CallsReturn`.
4. Worth modelling: `resend` with a bandwidth that is too small for all ranges that are
   due, in which a fixed order of the hash map can starve a range.
