# A verification project for the Minnow TCP stack

The repository is a TCP implementation for user space: a byte stream, a reassembler, wrapping
sequence numbers, a receiver, a sender, a peer that joins the two, and a socket that runs a
peer on a thread of its own under an event loop. This directory holds TLA+ modules translated
from that code, TLC configurations that check them on small instances, and TLAPS proofs.

Run `tlc -config X.cfg M` for the pairs in the table of runs, `tlapm M.tla` for the modules of
theorems (section 4). `PROJECT.json` maps each definition to its source lines and lists hazards, findings,
runs, faulty variants (one definition replaced by a plausible mistake, which must make the
property named with it fail) and theorems.

## 1. The system

| Component | State | Operations | Talks to |
|---|---|---|---|
| ByteStream `src/src/byte_stream.*` | deque of chunks, three counters, closed, error | push, close, set_error, peek, pop, read() helper | owned by Reassembler and TCPSender |
| Wrap32 `src/src/wrapping_integers.*` | a raw 32-bit number | wrap, unwrap, + | receiver, sender, peer |
| Reassembler `src/src/reassembler.*` | storage, bitmap, cur_index, total_len, seen_last | insert, bytes_pending | writes its ByteStream |
| TCPReceiver `src/src/tcp_receiver.*` | isn, cur_seq, four flags | receive, send | inserts into the Reassembler |
| TCPSender `src/src/tcp_sender.*` | input stream, window, queue of unacknowledged messages, timer, FIN flags | push, receive, tick, make_empty_message | reads its ByteStream, transmits |
| TCPPeer `src/util/tcp_peer.hh` | sender, receiver, lingering, two times | push, tick, receive, active | one call per event |
| TCPMinnowSocket `src/util/tcp_minnow_socket*.hh` | peer, event loop with three rules, socket pair, abort flag, a thread | connect, listen_and_accept, wait_until_closed, destructor | the owner by the socket pair, the adapter by segments |
| EventLoop `src/util/eventloop.*` | rules, cancelled flags | add_rule, wait_next_event, cancel | poll(2) |
| Adapters `tcp_over_ip`, `lossy_fd_adapter`, `tuntap_adapter` | both addresses, listening, loss rates | read with its filter, write | headers, the TUN device |
| Stream copy `src/apps/bidirectional_stream_copy.cc` | two ByteStreams, four rules | one loop | EventLoop, socket, terminal |
| Parser, headers, checksum `src/util/parser.hh`, `tcp_segment.cc`, `ipv4_*` | a cursor over buffers, an error flag | parse, serialize | adapters |
| NetworkInterface | none: the methods are stubs | | |

What is hard here: the order, loss and repetition of segments against state kept twice
(`cur_seq` beside the pushed counter, `bytes_in_queue_` beside the queue, bitmap beside
storage); arithmetic that wraps at 2^16, 2^32 and 2^64; loops with several exits; the end of a
connection, where two peers must agree that both are done although nobody calls them; and
undefined behaviour (an empty optional that is read). All objects of one peer belong to one
thread, so there is no interleaving inside a method; it lies between the events of two peers,
the application and the clock, and in a socket between the owner's calls and the thread's
`poll(2)` and callbacks. Datagrams come from any host, damaged or cut anywhere. `PROJECT.json` lists each hazard at its line.

## 2. The modules

| Module | What it is |
|---|---|
| `CppString`, `Words` | `substr`, `replace`, `min`; unsigned 64-bit wrap-around |
| `ByteStream` | the object, one operator per method, chunks as sequences of byte numbers |
| `ByteStreamMachine` | every sequence of calls; the loops of `pop()` and `read()` are steps |
| `BytePipe`, `BoundedPipe` | what a ByteStream is to its owners; the abstract specification it implements |
| `Wrap32`, `SeqnoTracking` | the arithmetic, and its use: a sender numbers, a receiver recovers |
| `Reassembler`, `ReassemblerMachine` | `insert()` branch by branch; substrings of a stream in any order |
| `IdealReassembler` | the comment of `reassembler.hh` as a specification: one set of pending bytes |
| `TCPReceiver`, `TCPReceiverMachine` | `receive()` and `send()`; a network that loses, repeats and reorders |
| `TCPSender`, `TCPSenderMachine` | `push()`, `receive()`, `tick()`; the loops' turns are steps |
| `TCPPeer` | one peer: whole methods as operators over the two records above |
| `TCPConnection` | two peers, their sockets' rules, a network in order with losses, the clocks |
| `EventLoop` | `wait_next_event()` before and after its `poll(2)`; the owner of the loop says what its rules do |
| `MinnowSocket` | a connecting socket: owner, pair, three rules on an `EventLoop`, abort and join, a remote `TCPPeer` |
| `Parser`, `Datagram` | buffer lists and integers; the TCP and IPv4 headers and their checksums, byte by byte |
| `TCPOverIPv4`, `SegmentWire` | the adapter's filter and losses; the traffic of `SeqnoTracking` as datagrams among other hosts' |
| `StreamCopy` | the four rules of `bidirectional_stream_copy()` on an `EventLoop`, the kernel, the other ends |
| `StreamLemmas`, `TCPLemmas` | what the methods of a ByteStream, `wrap()`, `unwrap()` and the methods of a Reassembler do, for the proofs about their users |
| `ByteStreamProofs`, `SeqnoTrackingProofs`, `ReassemblerProofs`, `TCPReceiverProofs`, `TCPSenderProofs`, `StreamCopyProofs` | theorems about the modules they are named after |

Objects are records whose fields are the members of the classes, under the same names; a
method is an operator from record to record. The machine modules turn the operators into
actions, so the peer can reuse the operators of its parts. Bytes are their own indices: byte k
of a stream is the number k, which makes a lost, repeated or misplaced byte visible.

Each machine module ends with its properties. Definitions marked *Faulty* in a comment are
variants no specification uses; `PROJECT.json` names the property that each one breaks.

Details that are modelled as the code has them and not as one would expect:

- `insert()` returns before it looks at `is_last_substring` when the index is refused.
- `storage.replace()` throws when the slot is past the end: `fault = "out_of_range"`;
  `storage_bitmap[]` past the end is undefined: `fault = "undefined"`.
- `cur_seq` is a raw number, unwrapped near the bytes pushed each time.
- The sender's member `fin` stays set, and decides which empty messages go out.
- The ackno of `TCPSender::receive()` is an optional that is read without a test. A
  `TCPConnection` picks any sequence number for it when it is empty and would be read.
- `active()` is asked with the state before the message, and `EndsLast` as well.
- The loop serves the first rule that is ready and looks at no entry behind it, so errors and
  hangups of later rules wait for the next call; the ones of earlier rules are handled first.
- A rule without interest has an entry in `pollfds` with no events: errors still reach it, and a
  hangup wakes `poll()` without removing a reading rule.
- `read()` with no room reads 16384 bytes instead, and `EAGAIN` leaves the read counter alone.
  `TunRead` has no `EAGAIN`, which would empty the buffers and make the parser throw: the device is
  read only when `poll()` reports a datagram, and by one thread.
- `tick()` adds to the time without end; `PeerTick` stops at the linger, all that `active()` asks for.
- Rule 3 of a socket writes the front chunk of the inbound stream; `WritePair` keeps that stream
  without chunks and offers all of it, which is the same for a pair with room for one byte.
- The checkpoint of `SeqnoTracking` is the highest number recovered, for any that follows the
  numbers sent; `TCPReceiver` keeps the code's own, `bytes_pushed()`.
- A TCP header with an offset below five words makes the length to skip wrap, so everything
  left is skipped; the parser fails as well. An offset past the end is accepted with no payload.
- The checksum of an IPv4 header covers 20 bytes, so a header with options that was summed over
  all of it is refused. The length it claims is not compared with what came; fragments pass.
- One `RST` bit resets both directions of a message.
- A listening adapter takes the address of the first SYN without RST for its own, even when the
  `LossyFdAdapter` around it then drops that message.
- When rule 3 is entered after a reset it shuts the pair and keeps its interest while bytes are
  left: the next write is to a direction that is shut.

`EventLoop` takes the callbacks of the rules as constant operators from worlds to worlds, so
that the loop of another component can be put together in the same way. `StreamCopy` gives it
one world: the two ByteStreams, the descriptors and what the kernel holds. Its program moves in
three steps, `SetUp`, `Poll` and `Serve`; the user, the peer and the reader of the output move
between any two of them, so a callback acts on an answer of `poll()` that may be out of date.
The kernel (`Revents`, `Room`) is external and follows Linux: a pipe without writers shows a
hangup, a terminal or file at its end is readable, a socket hangs up when both its halves are
shut, and a reset shows as an error and a hangup.

`MinnowSocket` gives it another: the peer, the flags, the pair and the network. The thread's turn
is `Wait` up to the return of `poll()` and then `Serve`, `Timeout` or `Exit` with the tick and the
test of the loop; the owner moves between them. The remote end does not move between a `poll()` and
the rest of that turn: the callbacks look at the front of its queue only, so moving after the
turn comes to the same. The Unix sockets of the pair are external: both directions shut is a
hangup, and a write to a shut direction raises SIGPIPE, which nobody here ignores.

In `SegmentWire` the actions of `SeqnoTracking` go through the adapters: each segment is the bytes
of a datagram, which may be lost, repeated or have one byte changed, among datagrams from hosts
that differ from the client in one field. `Tracks` says that this implements `SeqnoTracking`.

Left out of the records: `bytes_not_in_seq`, `prev_bytes_pending` (never read), debug output,
`RST` messages built by nobody. `need_send_` is local to a call; the two times of the peer are
kept as their difference, which is all that is compared.

## 3. The runs

| Run | Module / cfg | Bounds | Properties |
|---|---|---|---|
| byte_stream | `ByteStreamMachine` | capacity 4, 6 bytes | deque tiles the stream, read() safe and exact, loops end, implements `BoundedPipe` |
| seqno_tracking | `SegmentWire` | 2^32 is 6, 2^64 is 32, numbers to 13, four other hosts | `unwrap` inverts `wrap` near the checkpoint and yields a closest candidate; a message arrives as sent or not at all; one peer is heard; both sides understand each other; implements `SeqnoTracking` |
| reassembler | `ReassemblerMachine` / `Reassembler` | capacity 5, 4, 5 or 13 bytes, substrings to 6 | no exception, pending bytes exact, implements `IdealReassembler`, ends if bytes are resent |
| receiver | `TCPReceiverMachine` / `Receiver` | 2^32 is 16, 2^16 - 1 is 3, capacity 4, 4 or 11 bytes, three isns | exact ackno, window moves with the reader only, progress, implements `IdealReassembler` |
| sender | `TCPSenderMachine` / `Sender` | 4 bytes, window to 3, payload 2, one timeout | queue is what is unacknowledged, window respected, FIN last, calls return |
| connection | `TCPConnection` / `Connection` | 2 and 1 bytes, buffers 4 and 2, one loss | streams intact, nobody left behind, the connection ends |
| stream_copy | `StreamCopy` | 3 bytes typed, 2 sent, buffers 2, kernel 2 and 1, one failure | no byte lost or doubled, ends passed on last, exit means done, dies only of others, always ends |
| minnow_socket | `MinnowSocket` | 1 byte out, 2 in, pair of 1 each way, window 2, one reset | end means all, dies only of unread bytes, joins return |
| reassembler_second_lap | `ReassemblerMachine` | | finding, see section 5 |
| connection_data_lost, connection_full_window, connection_no_ackno | `TCPConnection` | | findings |

Why these bounds reach the interesting cases. The byte stream has room for chunks of one, two
and three bytes side by side, so a pop crosses one, two or three of them. Sequence numbers wrap
more than once in `SegmentWire` and once in the middle of the receiver's stream (isn 9 and 15
of 16) and of both connections' streams (isn 14). The reassembler's stream goes round its storage twice and is cut into
substrings longer than the storage. The receiver announces at most 3 of its capacity of 4, so the byte
that probes a window of zero is buffered past 2^16 - 1 and the window wraps. The window of the sender goes up and down through zero, the
payload limit is below the window and the stream is longer than both. Two of the reassembler's streams end
within the first lap, so their last substring also comes before the ones ahead of it. In `TCPConnection` every
order of connecting, writing, closing, reading, ticking and losing occurs; the linger is 4
timeouts instead of 10, which is longer than the one retransmission a single loss can cause.
In `SegmentWire` messages have no payload, an odd and an even number of bytes, FIN and RST, and
every byte of each is changed once (at one isn and checkpoint, as damage is refused before
either is looked at). In `MinnowSocket` two bytes for a pair of one make a write of rule 3 partial,
the same two fill the window so that the FIN comes as a probe, and the owner writes, reads,
shuts down, waits or destructs in any order against a remote end that closes or resets at any
moment; every end of the thread (loop left, `Exit`, abort, killed) is reached.
In `StreamCopy` the kernel takes one byte of a chunk of two (a short write), stdin has a byte more
than its stream has room for, the socket hangs up while the inbound stream is full, stdin is a
pipe or a terminal, and any one of the three descriptors fails at any moment.

**Preconditions of the passing runs.** They say under which circumstances the code keeps its
promises. Each is a constant (the last one a guard; `FitsWindow` is a condition in
`EdgeFollowsReader`), and relaxing it makes a property fail for a reason in the code:

| Constant | Relaxed | What fails |
|---|---|---|
| `LastGap` (Reassembler) | gaps beyond the first lap of the storage | `OutputIntact` (run reassembler_second_lap), `PendingExact`, `NoFault` |
| `LastGap` (Receiver) | same | `ImplementsIdeal`, `Advances` |
| `SynRepeats` (Receiver) | a repeated SYN sets `cur_seq` back | `AcknoExact` |
| `FinOvertakes` (Receiver) | a FIN before the data ahead of it is counted, or closes the stream | `AcknoExact`, `ImplementsIdeal` |
| `FitsWindow` (Receiver) | more than 65535 bytes buffered: the 16-bit window wraps | `EdgeFollowsReader` |
| `StreamLens` (Receiver) over `RelSeqMax` | `cur_seq == isn_` holds a second time | `AcknoExact` |
| `ClosesFirst` (Sender) | closing before the first `push()` while the window is zero | `CallsReturn`: the inner loop never ends |
| `AcksLost` (Sender) | an acknowledgment in the middle of the flight | `QueueIsUnacked`: bytes that are acknowledged stay in flight |
| `AcksStale` (Sender) | an old window replaces a newer one | `InWindow` |
| `DataLosses` (Connection) | data or a FIN is lost | `StreamsIntact` (run connection_data_lost) |
| `RecvCapacity` (Connection) too small for stream and FIN | the FIN is never sent | `NobodyLeftBehind` (run connection_full_window) |
| `RemoteWrite` (MinnowSocket) without a window | a byte past the capacity is dropped and acknowledged no more | `EndMeansAll` |

Other bounds: `EmptyBound` stops `push()` while more messages without a sequence number are
queued (the code queues one on each `push()` after the FIN), `TickBound` stops the clock after
so many retransmissions, `MaxBeyond` limits substrings past the available capacity, `PushSteps`
is the number of loop turns an operator may unfold, more than any `push()` needs here.

**Deadlock** is checked for the byte stream and the segments on the wire. The other systems stop
by design: a stream is read to its end, a connection or a copy is over.

**Fairness.** ByteStream and sender: a method that was called runs to its end, since nothing
else runs on its thread; nobody is forced to call. Reassembler: the oldest byte without
acknowledgment arrives again and again (the sender's timer does that) and the application
reads. Connection: both event loops and clocks run, segments are delivered, each application
writes all it has, closes and reads. There the fairness formulas read `[]<>~guard \/
[]<><<A>>_vars` with the guard written out: this is weak fairness, with the condition for A
to be enabled (and to change something) stated instead of derived, as deriving it makes TLC
unfold the nested operators of a whole `push()` for each state. The guards are exact:
`Waits` says that the resent byte changes the Reassembler; `MayTick`, `MayWrite` and the others
are the only preconditions of their actions, and each action moves a clock, a segment or bytes.

Stream copy: the program runs whenever `poll()` lets it; both inputs come to an end and what was
written is taken, as a user, a peer or a reader that never does rightly keeps the program waiting.
Nothing forces bytes to be typed or a descriptor to fail.

MinnowSocket: the thread runs, the remote end answers and in the end closes or resets, and a
`join()` whose thread has ended returns. The owner owes nothing: `JoinReturns` begins when it waits
or destructs. Conditions are written out as above. Time passes only on a time-out of `poll()` with
no segment on its way. The remote end pushes whenever it can (unlike `TCPPeer`'s owner, see
finding 3), and sends no byte into a zero window, only its FIN.

**Network and time of TCPConnection.** Segments keep their order; up to `Losses` of them vanish
once both SYNs are acknowledged. The two clocks advance together, by one retransmission
timeout, when no segment is on its way: a segment takes less time than a timeout.

## 4. What is proved

The theorems hold for every value of the constants that satisfies the `ASSUME`s of the modules and
the hypotheses named here. Each state theorem has an invariant `IInv` that implies it, holds
initially and is kept by every action. Induction over numbers (the chunks of a deque, the
slots of a bitmap, the messages of a queue) goes through `LeastElement` and `IntervalInduction` of
`StreamLemmas`, which rest on the well-foundedness of finite sets under inclusion.

**ByteStream** (every capacity, every bound on the bytes; no hypothesis)

- `ByteStreamTyped`: `TypeOK`.
- `ByteStreamTiling`: `Spec => [](Tiling /\ PopHasBytes)`; the last is only proved, no run
  lists it. The invariant says which bytes each chunk holds: a non-empty run of consecutive
  numbers that begins where the chunk before it ends. That is what makes it inductive: a pop that cuts
  a chunk leaves a shorter run with the right first byte, and non-empty chunks make every turn of the
  loop remove something. `PopHasBytes` is needed with it, as a turn of `pop()` on an empty
  deque has no front.
- `ByteStreamReadNeverThrows`: if bytes are buffered, the front chunk is not empty, because the
  tiles of a non-empty range cannot be zero in number.
- `ByteStreamReadExact`: what `read()` returns is the oldest `min(len, buffered)` bytes. The
  strengthening, `Progress`, follows a call through its turns: the output is the run of bytes from
  where the call began, and the bytes the `pop()` in progress still owes lie behind it.
- `ByteStreamIsPipe`: the deque of chunks implements `BoundedPipe`. The pipe is the deque
  flattened; by the tiling this is one run of bytes, so a turn of `pop()`, which frees a chunk or cuts
  it, is a `Take` of a front of the pipe, and beginning a `pop()` or a `read()` is a stutter.

**Wrap32** (in `TCPLemmas` and `SeqnoTrackingProofs`; every word size with 2^64 more than four times 2^32)

- `UnwrapWrapped`: `unwrap(wrap(n, isn), isn, c) = n` whenever `2 * |n - c| < 2^32`, including
  the first block, where the candidate below zero wraps to a number near 2^64. The proof
  places the first candidate within a block of `n` and compares the three distances.
- `UnwrapNearest`: any raw number unwraps to an absolute number it stands for, none nearer to `c`.
- `SeqnoRoundTrip` and `SeqnoNearest`: the run's `RoundTrip` and `Nearest`, from these and the fact that the
  segment on its way stays near the checkpoint. They are about `SeqnoTracking`; by `Tracks`,
  which is checked, they carry over to `SegmentWire`.

**Reassembler** (every capacity, stream and word size; hypothesis `LastGap <= Capacity`)

- `ReassemblerTyped`: `TypeOK`; `ReassemblerNeverFails`: `NoFault`; `ReassemblerSafe`: `OutputIntact`
  and `PendingExact`. The three share one invariant. `Consistent` is its inductive part: slot k holds byte k of the stream wherever bit k is set, the two strings are as
  long as the output's capacity, `cur_index` counts the bytes written, and a closed output has them
  all. `AllAhead` says that no bit is set for a byte that has been written, so after a write the
  run of set bits at `cur_index` is what may be delivered; `Ending` that `total_len` is the
  length of the stream once the last substring was seen, and that the output is closed in time. The
  hypothesis is needed: in the second lap `insert()` cuts one byte too many and looks at the
  wrong slots (section 5, finding 1).
- `ReassemblerIsIdeal`: `insert()` implements `IdealReassembler`, where a substring adds
  its acceptable bytes to a set and the run of bytes from the first missing one leaves it. The
  order of the code (write, close, then drain the bitmap; or store; or both) disappears.

**TCPReceiver** (every capacity, isn, stream and word size; hypothesis `Limits`)

- `ReceiverTyped`: `TypeOK`; `ReceiverSafe`: `AcknoExact`; `ReceiverAdvances`: `Advances`. `IInv` says that `cur_seq`, which is a raw
  number set from a SYN or from an unwrap near the bytes pushed, stands for the first missing number;
  that SYN and FIN are counted exactly once; and what `Consistent` says of the Reassembler.
- `ReceiverEdgeFollowsReader`: `EdgeFollowsReader`, for capacities above the 16 bits as well. `EdgeIs`:
  while no more than `MaxWindow` bytes are buffered, bytes written and bytes buffered cancel out of ackno +
  window, and what was read, the FIN and a constant remain. That these never go back follows from the
  refinement of `IdealReassembler` (`NextIsIdealNext`).
- `ReceiverIsIdeal`: behind the sequence numbers, the output is fed as by `IdealReassembler`.

`Limits` are the preconditions of section 3: gaps in the first lap, no repeated SYN, no FIN ahead of
data, and a stream whose numbers, SYN and FIN included, do not come round to the isn.

**TCPSender** (every capacity, stream, isn, window, payload limit, timeout and word size)

- `SenderTyped`: `TypeOK`, and `SenderFinLast`: `FinLast`, without any hypothesis: also if acknowledgments are
  lost or overtake each other and the application closes before the first `push()`.
- `SenderInWindow`: `InWindow`, if no old acknowledgment overtakes a newer one (`~AcksStale`). It
  does not matter that some are lost.
- `SenderQueueIsUnacked`: `QueueIsUnacked`, if no acknowledgment is lost (`~AcksLost`). It
  does not matter that old ones come late, nor what windows they bring.

The four share `IInv`, a disjunction over the call in progress. `Chain` says that the first k
messages of the queue carry the numbers `from .. end - 1`, each once and in order, and that the rest
carry none; `Settled` relates the flags, the input stream and `bytes_in_queue_` to them. `Begins` says
where the queue begins: at the acknowledged number, or before it where acknowledgments were
lost; `Announced`, that the window in force, counted from there, was announced. `Building` describes
a message inside a turn of `push()`, `Acking` the queue between two turns of the loop in
`receive()`; they are needed because each method takes several turns. With the window at zero
`Building` says that a byte is taken as a probe only if the queue is empty, without which a second one
would lie outside the window, and that the message has length one by the time the stream is
empty, except the one of a stream closed before the SYN (`Stuck`), where the inner loop never ends. `Acking`
says that what is acknowledged ends with the oldest message, with the whole flight or
with nothing new, the only cases the loop of `receive()` recognises.

**Stream copy** (every size of the ByteStreams, of the reads and of the kernel's buffers, every
number of bytes from either side and of failing descriptors; no hypothesis)

- `StreamCopyTyped`: `TypeOK`.
- `StreamCopyKeepsBytes`: `BytesKept`. What the other side has taken, what the kernel holds, what is
  in the stream and what waits at the source are the bytes given, each once and in order.
- `StreamCopyExitIsComplete`: `ExitIsComplete`. The loop does not exit with bytes on the way.
- `StreamCopyDiesOfOthers`: `DiesOfOthers`. Neither the busy-wait check nor "write returned 0" ends
  the program unless a descriptor has failed.
- `StreamCopyEndIsLast`: the action property `EndIsLast`. The FIN and the close of stdout come
  behind the last byte.

The five share `IInv`, which has three parts. `Sane` is what the callbacks keep true of the world
they work on: `Carried` says, per direction, that the stream is tiled, that what is available at the
source begins where the bytes pushed end, and that what is held or taken is `Bytes(0, popped)`;
`Ending` ties the end of the source, the closing of the stream, the flag and the end of the sink
together. `RulesOK` says that a rule that is gone has done its work: without its filling
rule a stream is closed, without its emptying rule the sink knows the end or there is an error. That
makes `ExitIsComplete` inductive: at an exit no rule that is left has an interest, and a direction with
nothing to write and no room to fill is one that has ended. `Polled` and `Reported` say that what
`poll()` was asked and answered still holds when the callbacks act on it, whatever the other ends
did meanwhile: errors and ends are for good, bytes stay until they are read, and room stays
until it is filled; a hangup without an error comes from an ended source, so the rule it removes is one
whose stream has no more to come. The argument holds because one call serves one rule: a second
callback would find the room used up. `RulesOK` and `Reported` speak of states before the callbacks of
`wait_next_event()` run; inside, the world goes through the rules one after the other
(`Scanned`, `ServePolled`). `SetUpPollIs` and `ServePolledIs` show that these functions exist
and that what each step keeps, all keep; `SetUpKeeps`, `PollKeeps`, `ServeKeeps` and `OthersKeep` are the
cases of `Next`. TLC checked `IInv` on the instance of `stream_copy` before it was proved.

**Model-checked only.**

- Liveness, in every module (`CopyEnds`, `JoinReturns` and the others): it rests on fairness and
  ENABLED.
- `SegmentWire` and the headers below it: `Parser` and `Datagram` are recursive, and what a recursive
  definition computes is an induction over data.
- `TCPConnection` and `MinnowSocket`: not proved. A method of `TCPPeer` runs `push()` to its end, as a
  fold over the turns of the loop, so that one step of theirs is any number of steps of
  `TCPSenderMachine`, and the provers cannot unfold it. The turns one by one are what
  `TCPSenderProofs` covers. Section 6 says what a proof would need.

The hypotheses cannot be dropped: for each, section 3 names a property that fails without it.

## 5. What the checks found

1. `reassembler.cc:43`, `:52-74`: past the first lap of the storage a substring that leaves a
   gap brings bytes of an earlier lap into the output (`reassembler_second_lap`). Even in the
   first lap, a substring in order that reaches past it while bytes are pending leaves bits
   behind.
2. `tcp_receiver.cc:63-71`: a FIN without payload that comes before lost data closes the stream
   short (`connection_data_lost`).
3. `tcp_peer.hh:42`, `:76-81`: a FIN that finds the window full is never sent, since nothing
   pushes after an acknowledgment, and `active()` does not miss it (`connection_full_window`).
4. `tcp_sender.cc:164`: an empty ackno is dereferenced in an ordinary opening of a connection,
   without any loss (`connection_no_ackno`).

Also seen and kept out of the runs: the rows of the table of preconditions, among them
`tcp_sender.cc:166`, where an acknowledgment that ends neither the oldest message nor the whole
flight frees nothing, so the sender goes on counting acknowledged bytes; messages
longer than `MAX_PAYLOAD_SIZE` (`tcp_sender.cc:77` forgets what the message already holds, against
`writeups/check3.md:14`, "messages of size no greater than TCPConfig::MAX_PAYLOAD_SIZE"); a FIN sent
into a zero window while other messages are queued (`:39-40`); a message without sequence
numbers on every `push()` after the FIN (`:112`); `MAX_RETX_ATTEMPTS`, which nothing reads. In
the stream copy, an error of stdin ends in an ordinary FIN to the peer, because the rule's cancel
callback closes the stream that its error callback has just spoiled, and a hung up descriptor
whose reading rule has no room makes the loop spin until there is some.

In the socket: after a reset, or when the owner waits with bytes unread, rule 3
(`tcp_minnow_socket_impl.hh:149-157`) writes to a direction that is shut and SIGPIPE ends the
program; `DiesOfUnread` says that nothing else does. The destructor sends no RST, against
`tcp_minnow_socket.hh:36` and `:119-120`. A call of `wait_next_event()` serves the first ready rule
only (`eventloop.cc:217`), against `eventloop.hh:100`. `tcp_minnow_socket_impl.hh:284` shuts the pair down from the
thread on a descriptor whose counters the owner changes too. A small `RecvCapacity` meets finding 3 as
well; the remote end of the model probes instead.

## 6. Not modelled, and the plan

Done, in this order: ByteStream, Wrap32, Reassembler, TCPReceiver, TCPSender, TCPPeer with
TCPConnection, EventLoop with StreamCopy, the headers and the adapter with SegmentWire,
MinnowSocket; then the proofs of section 4.

What could be proved beyond section 4: `DiesOfUnread` of `MinnowSocket`, as a
direction of the pair that was shut by rule 3 belongs to an inbound stream that is drained or has an
error, and stays so (it needs the shapes of the records only, and the lemmas about the loop in
`StreamCopyProofs` for other rules); then `StreamsIntact` of `TCPConnection`, from the invariants of the
sender and the receiver of both ends with the segments on their way as a third part, if the folds in
`TCPSender` are made recursive functions with an existence lemma, as the loops of `EventLoop` are.

What could be modelled beyond section 2:

1. The starvation of a rule behind one that is always ready (`eventloop.cc:217`), which needs inputs
   without end, and the refinement of two bounded pipes by `StreamCopy`.
2. A socket that listens, over an adapter that loses segments. `TCPConnection` has both, with peers
   that are called directly; `MinnowSocket` has the loop, with a connection that is in order.

Out of scope: NetworkInterface (the methods are stubs), applications and address lookup
(I/O and argument parsing), the set-up of the TUN device, sockets that the socket pair does not use,
`Parser::string()` and the `to_string()` of the headers.
