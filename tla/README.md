# Localized Causal Broadcast: a TLA+ model

This directory specifies, model-checks and proves properties of the broadcast
stack of this repository. Most modules follow `template_cpp/` (the C++ program):
the protocol, the link layer with its queue and its datagrams, and the life of a
process from its command line to its end. The protocol of `rust_src/`, another
implementation of the same broadcast, has a module of its own. What is left is
in the plan at the end.

Paths such as `delivered_set.hpp:98` are relative to
`template_cpp/src/include/` for headers and `template_cpp/src/src/` for sources.

## 1. The system

N processes broadcast numbered messages. A process is one program with five
threads that share a `DeliveredSet` and four `SafeQueue`s:

```
 enqueuer  broadcast_messages --+                        +-- writer  keep_dumping_to_output
                                v                        v
                        uniform_reliable_broadcast   deliverable, broadcasted_queue
                          |  was_seen / mark_as_seen     ^
                          v                              |
                      DeliveredSet (mtx) --- insert -----+
                          ^
 receiver  keep_receiving_messages       sending_queue -> sender -> UDP
                                              ^             |
                                        retransmitter <- retrans_queue
```

A packet travels in copies. Its `owner_id` and `packet_uid` identify it; its
`sender_id` is whoever sent this copy. A process that receives a copy sends it
back with `is_ack` set, records "`sender_id` has this packet" in its
`DeliveredSet`, and, the first time it sees the packet, sends copies of its own
to everybody. A packet known to be at a majority is delivered once the earlier
packets of its owner are, and once the packets its owner depended on
(`vector_clock`, restricted to the owner's line of the configuration file) are.

| component | state | operations | what makes it correct |
|---|---|---|---|
| `DeliveredSet` (`delivered_set.hpp`) | `acked`, `acked_counter`, `undelivered`, `received_up_to`, `vector_clock`, `deliverable`, `mtx` | `insert` (= `mark_as_seen`), `contains` (= `was_seen`) | a sender counts once; delivery at a majority, in FIFO and causal order, once |
| broadcast (`broadcast.cpp`) | `enqueued_messages` | `broadcast_messages`, `uniform_reliable_broadcast`, `best_effort_broadcast` | what anyone delivers everyone delivers |
| receiver (`tcp.cpp:20-60`) | the payload in hand | `keep_receiving_messages` | acknowledging before recording is harmless |
| link layer (`tcp.cpp:62-118`) | `sending_queue`, `retrans_queue` | sender and retransmitter threads | a packet is sent again until its recipient has acknowledged it |
| `SafeQueue` (`ts_queue.hpp`) | queue, mutex, condition variable, `q_size` | `enqueue`, `dequeue`, `size` | linearizable; nobody waits while it is not empty |
| life cycle (`main.cpp`) | `finito`, threads, output file | `main`, `stop`, `dump_to_output`, `keep_dumping_to_output` | the log has every event once and in order, also after a signal; the process ends |
| codec (`messages.cpp`) | none | `encode_udp_payload`, `decode_udp_payload`, `copy_payload` | decoding inverts encoding |
| command line and files (`parser.hpp`, `main.cpp:140-218`) | `nodes`, `causality`, `myself_node` | `parse()`, `hosts()`, the reading loop, `get_node_idx_by_id` | ids are indices of the arrays; line i belongs to process i; nobody runs as somebody else unless the id asked for has more than 32 bits |
| UDP (`udp.cpp`) | a socket | bind, send, receive, select | none promised: packets may be lost, repeated, reordered |
| Rust `delivered.rs`, `broadcast.rs`, `tcp.rs`, `enqueue.rs` | the same sets, a work list | `insert`, `try_delivering`, `fifob_deliver`, `lcb_deliver` | as for the C++ program |
| Rust `config_parser.rs`, `hosts.rs`, `udp.rs`, `main.rs` | | reading files, serialisation, threads | as for the C++ program |
| `tools/stress.py`, `validate_fifo.py` | process states, logs | pause, resume, terminate; checking of logs | a majority stays alive; the checker accepts correct logs only |

What is hard to test here: two threads share the `DeliveredSet` and release its
mutex between `was_seen` and `mark_as_seen`; an acknowledgement leaves before
the packet is recorded; the clock is copied without the mutex; one `insert` may
deliver several packets of several owners; retransmission stops on an
acknowledgement, so a packet that waits for another one must be woken up; a
process may crash between any two steps; packets to a crashed peer occupy the
queues for ever; a signal may come while the process is still starting; the
shutdown path shares queues with running threads. `PROJECT.json` lists each
hazard at its line.

## 2. The modules

| module | content |
|---|---|
| `LCBroadcast` | the C++ stack: both threads of N processes, their `DeliveredSet`, the network |
| `FifoUrb` | abstract specification: FIFO uniform reliable broadcast, without threads, counters, acknowledgements or network |
| `LCBLive` | `LCBroadcast` with the fairness of processes that do not crash, and the liveness properties |
| `LCBInvariant` | its inductive invariants `Inv`, `ClockInv` and `CausalInv`, as conjunctions of named parts |
| `LCBroadcastProofs` | the invariants are preserved, and what follows from them |
| `LCBRefinementProofs` | `LCBroadcast` implements `FifoUrb` |
| `MCLCBroadcast`, `MCLCBLive` | configurations and reductions for TLC |
| `TcpLink` | the link layer of one C++ process: the enqueuer and the receiver between two locked calls, the sender and the retransmitter, their two queues, lossy UDP |
| `LinkInvariant`, `TcpLinkProofs` | its inductive invariant `LinkInv`, and the invariants of its run |
| `Codec` | payloads to bytes and back |
| `CodecProofs` | decoding inverts encoding |
| `MCLink` | `TcpLink` for TLC, and `Codec` evaluated for small payloads |
| `SafeQueue` | the queue between all threads, statement by statement |
| `SafeQueueProofs` | its inductive invariant, and the invariants of its run |
| `Startup` | one C++ process from its command line to its threads |
| `Shutdown` | extends `Startup`: the threads that feed the output file, the writer thread, the signal handler |
| `ShutdownInvariant`, `ShutdownProofs` | the inductive invariants of both, `ShutdownInv` and `CausalityInv`, and the invariants of their run |
| `MCShutdown` | command lines and files for TLC |
| `RustBroadcast` | the Rust stack: both threads of N processes, their `DeliveredSet`, the network |
| `RustLive` | `RustBroadcast` with fairness, and the liveness properties |
| `RustInvariant`, `RustProofs` | its inductive invariant `Inv`, the invariants of its runs, and that it implements `FifoUrb` |
| `MCRust` | configurations and reductions for TLC |
| `SequenceParts`, `SequencePartsProofs` | the part of a sequence that is in a set, its images under a function, and how many elements it has, with the lemmas the proofs about queues and logs cite |

`LCBroadcast` and `RustBroadcast` are two implementations of `FifoUrb`.
`LCBroadcast` takes from `TcpLink` that a message may be received at any time
and is repeated until acknowledged (its set `net` and `Retransmitted`), and
`TcpLink` and `Shutdown` take from `SafeQueue` that `enqueue` and `dequeue` are
atomic.

### LCBroadcast and the code

Every variable is an array over processes. Names are those of the code; a
missing map entry of `acked_counter` is 0 (the code's `operator[]` makes it so),
`undelivered` keeps the keys of the map (the payload stored under a key is
determined by it: see `ClocksGrow`), and `deliverable` is everything ever
put on that queue, in order. A payload keeps the fields the protocol reads; the
text of the message is left out (it is the decimal form of `packet_uid`).

| action | code |
|---|---|
| `Receive` | `tcp.cpp:26-54`: a datagram is read and its acknowledgement enqueued |
| `Insert` | `delivered_set.hpp:75-97`: lock, `acked`, `acked_counter`, `undelivered`, decision to loop |
| `Deliver` | one iteration of `delivered_set.hpp:99-110`; the affected nodes passed over on the way have nothing to deliver |
| `InsertReturn` | end of the loops, unlock |
| `ConstructBegin`, `ConstructEnd` | `broadcast.cpp:49-61`, `tcp.cpp:127-147`: the next packet; the unlocked `memcpy` of `vector_clock` is a data race, so each entry may be any value it had while the copy ran |
| `SkipSeen`, `RelayUnseen` | `broadcast.cpp:27`: `was_seen` (locks and unlocks `mtx`) and its two outcomes |
| `Insert` ... `InsertReturn` from label `mark` | `broadcast.cpp:35`: `mark_as_seen` |
| `BestEffortBroadcast` | `broadcast.cpp:36` and 8-23: one copy for each other host |

`enqueue` on `sending_queue` is an element added to the set `net`. Nothing
leaves `net`: a message in it may be received at any time, again and again, or
never. This covers loss, duplication and reordering by UDP, and retransmission
by the two link threads (`keep_sending_messages_from_queue` writes its own id
into `sender_id`, which is why an acknowledgement bears the id of the process
that sends it). A crashed process is one that takes no more steps. All
processes read the same configuration file, so `causality` is one constant; a
line may be any sequence of ids, in the order written, which is the order of the
loop. As in the example of the repository's README each line begins with the
process itself.

### FifoUrb and the refinement

`FifoUrb` has three variables: how many messages each owner has sent, who holds
which message, and what each process has delivered. Its steps are a broadcast,
the spread of one message to one process, and a delivery, allowed when a
majority holds the message, the earlier ones of the owner are delivered, and it
is not. `ImplementsFifoUrb` maps `LCBroadcast` to it: a process holds a packet
when it is marked as seen or in the hands of one of its threads. That this is
the right notion is the point of the refinement: a process is counted by others
from the moment its acknowledgement is enqueued, which is before it has recorded
anything.

### TcpLink

A message is in `sending_queue`, in the sender's hands (`sending`), in
`retrans_queue` or in the retransmitter's hands (`retransmitting`); the last two
transitions are `tcp.cpp:67-88` and `tcp.cpp:94-116`. The enqueuer and the
receiver fill `sending_queue`. Both run `uniform_reliable_broadcast`, and `pc`,
`payload` and `todo` say where each of them is in it:

| action | code |
|---|---|
| `BeginBatch`, `EnqueuePacket` | `broadcast.cpp:50-53`, the gate, and 55-61, the next packet |
| `CopyReceived`, `AckReceived` (`Receive`) | `tcp.cpp:27-54`: a packet arrives and its acknowledgement is enqueued, or an acknowledgement arrives |
| `Insert` | `tcp.cpp:56` |
| `SkipSeen`, `FoundUnseen` | `broadcast.cpp:27`: `was_seen` and its two outcomes; line 28 |
| `MarkAsSeen` | `broadcast.cpp:35` |
| `SendCopy` | one turn of the loop of `best_effort_broadcast`, `broadcast.cpp:9-22` |
| `SenderDequeue`, `SendLost`, `PeerReceives` | `tcp.cpp:67-68` and 72-88, the datagram lost or received |
| `RetransmitterDequeue`, `RetransmitterEnqueue` | `tcp.cpp:94-105` and 112-116 |

Between any two of these the other threads may take theirs; so the sender may send an
acknowledgement while the receiver has not recorded the packet, and the first copies
of a packet while the others are not made. A payload keeps its `sender_id` from
wherever it came until the sender thread overwrites it (`Stamped`, `tcp.cpp:68`).

The peers run the same program. Of them the model keeps which packets they have
(`spread`) and their acknowledgements on the way (`wire`). A packet that a peer has
may arrive from any peer at any time and any number of times (`CopyReceived`),
packets of this process among them, since peers relay to every other node. What a
peer does with an acknowledgement is not followed. A send to an unreachable
peer is one that is lost (`udp.cpp:40`; nobody looks at the result); any other
error ends the process (`udp.cpp:44`), which is a process that takes no more
steps. The spinning wait for `RETRANSMISSION_OFFSET_MS` is the time the message is
in `retransmitting`. The queues have no bound; `MaxCopies` bounds how many packets
arrive from peers.

### Codec

`encode_udp_payload` and `decode_udp_payload` on sequences of bytes, with the
offsets of `messages.cpp`. Numbers are `uint32_t` on a little-endian machine,
the clock has `vc_size` entries (`tcp.hpp:52`: one more than there are nodes),
and the length of the text is what the datagram leaves for it. This is what lets
the other modules take a datagram for the payload it carries.

### SafeQueue

One action for each statement under the mutex, because `size()` reads `q_size`
without it. `notify_one` wakes any one waiting thread; `wait` may also return by
itself. `put` and `got` record the items pushed and popped, in order.

### Startup

`stage` is where `main` is; each action is one part of `main`, in the order of
the code, and ends the process where the code throws or exits (`Ends`). The
input is chosen in the initial state, as what the conversions of the code tell
apart: an argument is a word or a number, a line of the hosts file is blank,
unreadable or a host whose name resolves or not, a line of the configuration is
its numbers. What the code does with them is kept: blank lines are skipped,
only the extreme ids and the number of lines are compared, `std::sort` may
exchange equal ids (`Sortings`), a port goes through `htons` in the constructor
of `Host` and again when the socket is bound (and once more when it is sent to, by
the same call on the same number, so that processes of this program find each
other), the id of the command line is cut to
`WordBits` bits, `getline` past the end of the file gives an empty line or the
last one again (`LineRead`), and `get_node_idx_by_id` gives -1 for an unknown
id, which `main.cpp:203` uses as an index: undefined, modelled as a crash. The
start of the threads is one step each. A signal before `tcp_handler` is filled
follows a null pointer (`SignalTooEarly`).

### Shutdown

The same process after its start, with the packets it sends to itself through
the protocol, so that each packet has a `b` and a `d` event. Enqueuer and
receiver are reduced to their tests of `finito` and the events they produce, in
the order of the code (`broadcast.cpp:64` logs after broadcasting; a packet is
delivered by `insert` in the receiver, or by `mark_as_seen` in either of them); sender and
retransmitter to whether they may have ended (`HasEnded`). `dump_to_output` is
run by the writer thread and by `stop`; testing the size and dequeueing are
separate steps. A line is in the stream's buffer until `close`. (A long dump
also flushes when the buffer is full; the order and the losses shown do not need
it.) The signal is handled by the main thread, which is still starting threads
or inside `join_threads`; joining a thread that was not started throws, and the
second `join` of the same thread is undefined behaviour, so it may end the
program (`HandlerAborts`) or wait for the threads (`HandlerExits`). A thread that
the signal finds holding a mutex goes on and releases it, so that the handler
gets it: the main thread itself holds none. `until_size` is computed modulo
2^`WordBits`.

### RustBroadcast

Like `LCBroadcast`, with the differences of the Rust code: `insert` has a work
list (`deliverable`), its end taken first; the payload is looked up in
`undelivered` and judged by its own clock; `mark_as_seen` comes after the copies
have been sent; the broadcast event goes to the writer before the broadcast; the
clock is copied under the lock. `log` is what goes through the writer's channel.
`kind` is the `PayloadKind`: `enqueue_messages` uses `Fifob`, the code also has
`Lcb`. `Dependencies` and `AffectedNodes` are the two maps of
`ConfigLcb::read`, whose lines are numbered from 0. A sender thread that has
panicked (`tcp.rs:66`) leaves a process that receives and delivers but is silent:
in `RustLive` a process outside `correct`, which takes its steps while nothing it
sends arrives.

## 3. What TLC checks

Deadlock is checked in the runs of the protocols (a received message may always
be received again, so a state without successor would mean a thread stuck on a
mutex). It is not in the runs of `SafeQueue` (consumers wait when all is taken),
`TcpLink` (its threads wait when all is acknowledged and nothing more arrives) and
`Shutdown` (the process ends).

| run | module | instance | properties | result |
|---|---|---|---|---|
| `urb_relay` | `MCLCBLive` | N = 3, one packet, any one process may crash, reduced; 16,872 states | `Inv`, `UniformDelivery`, `AckAfterSeen`, `Validity`, `UniformAgreement` | hold |
| `lcb_two` | `MCLCBLive` | N = 2, two packets and one packet, the sender of one affected by the other, reduced; 45,521 states | `CausalInv`, `CounterMatchesAcks`, `FifoDelivery`, `NothingLeftWaiting`, `ClocksGrow`, `CausalDelivery`, `ImplementsFifoUrb` | hold |
| `causal_order` | `MCLCBroadcast` | N = 2, the affected process sends two packets | `CausalDelivery` | violated |
| `missed_wakeup` | `MCLCBLive` | N = 2, one packet each, process 2 affected by process 1 | `Validity` | violated |
| `link` | `MCLink` | a live and a crashed peer, one packet, one packet to relay, two arrivals of packets, reduced; 261,324 states | `LinkInv`, `OneCopy`, `HonestDatagrams`, `AllAcked`, `AllBroadcast` | hold |
| `safe_queue` | `SafeQueue` | two producers of two items each, three consumers; 2,760 states | `TypeOK`, `FirstInFirstOut`, `SizeMatches`, `NoLostWakeup`, `AllTaken` | hold |
| `shutdown` | `MCShutdown` | 24 inputs, up to three packets, batches and chunks of two, 3-bit words, reduced; 305,073 states | `ShutdownInv`, `EventsConserved`, `WriterAlone`, `AtMostABatch`, `StopKeepsEvents`, `CausalityAsWritten`, `RunsAsNode`, `DeliveriesWritten`, `WorkEnds` | hold |
| `log_order` | `MCShutdown` | one input | `ValidLog` | violated |
| `ports` | `MCShutdown` | one input | `PortAsConfigured` | violated |
| `rust_fifo` | `MCRust` | N = 2, two packets and one packet, `Fifob` and `Lcb`, reduced; 437,599 states | `FifoDelivery`, `DispatchLogged`, `NothingLeftWaiting`, `ClockRespected`, `ImplementsFifoUrb` | hold |
| `rust_relay` | `MCRust` | N = 3, one packet, its sender or the last process may crash, reduced; 36,366 states | `Inv`, `UniformDelivery`, `Validity`, `UniformAgreement` | hold |
| `rust_uniform` | `MCRust` | N = 5, one packet, two processes may crash, reduced | `UniformAgreement` | violated |

`Inv`, `CausalInv` (which contains `ClockInv`), `LinkInv` and `ShutdownInv` are the inductive invariants of the
proofs below, the types of the variables among them; TLC evaluates them in every
reachable state of an instance.

What the properties of one process say, beyond those of the protocol:

* `ClocksGrow`: the clock of a packet is copied without the mutex while `insert`
  counts it up, so it may be a mixture of two. Such a mixture lies between the clock
  when the copying began and the clock when it ended, entry by entry: it is not
  behind the clock of an earlier packet of the owner and does not count what the
  owner has not delivered. That is compared with other packets and with the owner's
  own clock, not with itself; it fails if an entry may be an older value
  (`CopiedFromBefore`). `CausalInv` and `CausalDelivery` take the clocks as they are.
* `OneCopy`: from `mark_as_seen` until its acknowledgement is recorded, each packet
  is once for each peer in the two queues, in the hands of their threads or among the
  copies still to be made, also when it comes back from a peer, or is acknowledged,
  while the copies are being made.
* `HonestDatagrams`: however a payload came to be sent, the datagram names this
  process; a packet is one it has marked; an acknowledgement is for a packet it has
  marked or has in the receiver's hands, and goes to a peer that has it. It may
  be sent before the receiver has recorded anything (`tcp.cpp:53` comes before 56), so
  "marked" alone would be false. The counting of `LCBroadcast` rests on it: there, too,
  a packet in a thread's hands counts as held.
* `AllBroadcast`: packets relayed, acknowledgements and copies for crashed peers
  share `sending_queue` with the gate of the enqueuer. Copies for crashed peers are
  never freed, so there may come to be more of them than `SENDING_CHUNK_SIZE`, and
  then the code does not promise that the enqueuer goes on: this is the second
  disjunct. Otherwise it broadcasts everything, however long the queue is at times. In
  the instance, with a chunk size of one, there is one such copy when the gate is
  tested for the last time, and the queue grows to several times the chunk size by
  acknowledgements and copies for the live peer: so the instance shows the first
  disjunct at the limit of the second.
* `AtMostABatch`, `WorkEnds`: what a process still does after the signal is
  bounded, and the enqueuer and the receiver end, whatever the link threads do.
* `StopKeepsEvents`: when `stop` has dumped, every event that was on a queue when the
  signal came is in the file or in the stream of the writer thread, and when `exit`
  is reached all are in the file. The writer thread and the handler may both see the
  last element and both dequeue: then one waits with its lines in its stream, but
  never both, so the dump is not stuck between the two.
* `CausalityAsWritten`, `RunsAsNode`: with files as the README of the repository
  asks for, line i belongs to process i; with any other input, threads run only
  if this process is one of the nodes and all ids are indices of the arrays of
  `DeliveredSet`. It is the node asked for, unless the id of the command line does
  not fit into a word: 2^32 + 1 passes every check, is cut to 1 at `main.cpp:202`
  and runs as host 1 (`AsAsked` leaves this case out, because the code does it; the
  inputs have one).

### What the violations show

**`causal_order`.** The clock compared in `can_lcb_deliver` is the one of the
payload being inserted. When the first packet of process 2 releases the second
one, already acknowledged by a majority, the second is judged by the clock of
the first, and delivered before the packet it depends on. `lcb_two` shows
the other side: where no loop delivers a later packet of an affected process
than the one inserted, causal order holds, the unlocked copy of the clock
included.

**`missed_wakeup`.** `insert` goes through the nodes that affect the owner of
the packet inserted, and only if that packet is the next one of its owner. The
nodes the owner affects, whose packets may have been waiting for this one, are
not tried. When the waiting packet has been acknowledged, nothing inserts it
again. `reverse_causality`, which `main.cpp:192` fills, would name those nodes;
nothing reads it.

**`log_order`.** The writer thread has taken event 1 and not closed its stream;
the handler takes event 2 and closes first. The file has 2 before 1, which
`validate_fifo.py` rejects.

**`rust_uniform`.** Copies are sent before the packet is marked, so an
acknowledgement that arrives in between is relayed, as an acknowledgement, and
nobody repeats it. With two crashes out of five this is enough for a delivery
that the correct processes cannot follow. `rust_relay` shows that one crash out
of three is not enough.

**`ports`.** `Host` converts the port with `htons` and the socket calls convert it
again, so with 11001 in the hosts file the kernel binds 63786. All processes do
the same, which is why they find each other, but the range
11000 to 11999 that README.md:109 asks for is not used.

Five more differences between the code and the repository's README can be read
off the modules and need no search. `EnqueuerBroadcast` does not read `finito`:
after a signal the rest of a batch is still broadcast (README.md:128 asks for an
immediate stop). `HandlerAborts` may come while the writer thread has lines in
its stream, which are then lost (README.md:130 asks for all events;
`StopKeepsEvents` says that nothing else is), and
`EnqueuerLog` may come after the handler's dump, so that a packet that was
broadcast is not in the log. A hosts file with the ids 1, 1 and 3 is accepted
(`Compact`; in the inputs as `Repeated`). And
`enqueue.rs:95` broadcasts with kind `Fifob`, so the Rust program ignores the
causal dependencies it has read (README.md:214); `ClockRespected` shows that
with kind `Lcb` clocks would be respected, for the lines that the maps give,
which are shifted by one (`config_parser.rs:63`).

### Bounds, reductions, fairness

**Bounds.** Two packets of one owner are the least for which order, a later
packet overtaking and one `insert` delivering two packets happen; three
processes the least in which a packet is relayed by somebody who neither owns
nor receives it last, and in which one half and a majority differ from all. With
N = 2 a majority is both processes, with N = 3 it is two of them, so the even and
the odd case of `keys / 2` are both met. `PacketID` has one number more than
there are packets because `received_up_to` may point past the last one.

A batch of `TcpLink` may be longer than what is left to send. One packet of its
own and one of a peer are enough for the gate, which the copies and the
acknowledgement of the second shut before the first is begun. Two arrivals of packets are
the least in which a packet of this process comes back beside that of the peer, or the
same packet comes twice, while its copies are being made. In `Shutdown` three packets,
chunks of two and words of three bits make `until_size` wrap, be repaired and be
positive. Its inputs are a correct command line with six combinations of files
(hosts in and out of order, blank lines, a repeated id; a configuration that is
complete, too short with and without a newline at the end, or missing), and one
input for each way to be refused or to run into an unknown id; ids out of range
of `uint32_t` are met with three and four bits. In `SafeQueue`
more consumers than items wait at a time.

**Reductions.** Runs marked *reduced* explore fewer interleavings. None of the
proofs depends on a reduction.

* `NoRepetition` (broadcast) leaves out receptions that cannot matter: of a
  message that is recorded already, whose acknowledgement is in `net` already,
  whose packet is marked, and that would deliver nothing. Such a reception
  changes no variable but the place of the receiver.
* `OwnWorkFirst` (Rust) and `CorrectWorkFirst` (C++) let only the two threads of
  a process go on while its receiver, having received something, is at or inside
  `insert` or about to call `was_seen`, or while its enqueuer is inside `insert`.
  Such steps touch only what no other process reads, the `DeliveredSet` and the
  log. No step of another process can meanwhile change what the two threads may
  do: the receiver, the only thread that reads the network, is busy, or its next
  reception commutes with the loop of `insert`. So each behaviour left out differs
  from one that is explored by the order of independent steps of different
  processes. A busy process comes to an end of its work, so fairness is not
  affected. The two threads of a process still meet in every order, also with what
  other processes do after the enqueuer has sent copies and before it has marked
  the packet. In C++ the recording of
  `mark_as_seen` does not count as such work, because `AckAfterSeen` asks when
  another process has recorded it. A process that may crash still stops anywhere:
  the rule is for those in `correct`.
* `EndFirst` (`shutdown`): a thread whose next step is to find `finito` set and
  to end does so before anything else happens, which only moves that thread.
* `CrashedAtOnce`, `NothingRepeated`, `LocalFirst` (`link`): the crashed peer has
  crashed before it receives anything; an acknowledgement that is recorded does not
  arrive again, which would change nothing; and a thread that constructs a packet,
  asks `was_seen`, records an acknowledgement, sends a packet it has in hand or frees
  one that is acknowledged does so before anything else happens. Each of these
  commutes with the steps of the others or is, seen from them, only a slower sender
  or datagram. Between the acknowledgement enqueued, the recording of a packet,
  `mark_as_seen` and each copy nothing is left out.
* `FirstThreeReceive` (`rust_uniform`): only the first three processes receive. A
  violation found among fewer behaviours is one of the specification.

**Fairness.** `LCBLive` assumes, for the processes in `correct` (a majority,
chosen at the start): the receiver goes on with what it has begun; the enqueuer
goes on even if the receiver takes `mtx` before it again and again (threads of an
operating system do not starve for ever); and what a correct process sends again
and again arrives. The last one is only assumed while the link layer really
repeats the message (`Retransmitted`): a packet until its sender has recorded the
recipient's acknowledgement (`tcp.cpp:97`), an acknowledgement as long as copies
of its packet keep coming. The other processes have no fairness at all.
`RustLive` assumes the same, with the rule of `tcp.rs`: relayed acknowledgements
are not repeated. `TcpLink` assumes that the threads go on and that a datagram to
a live peer that is sent again and again arrives, and so does its answer (strong
fairness for each); the enqueuer, which tests the size of `sending_queue` in a
busy loop, finds it short if it is short again and again (strong fairness):
between two rounds of a packet 300 ms pass. `SafeQueue`: no thread is kept from
the mutex for ever. `Shutdown`: `main`, the enqueuer, the receiver (which waits
100 ms for a packet at most), the writer thread and a dump in progress go on while
the process runs; deliveries, signals, the link threads and the end of the
handler's join have no fairness.

## 4. What is proved

Every invariant the passing runs check is a theorem, for every value of the
constants; `CausalDelivery` is one under a condition on the configuration. None
of them is inductive; each module has one inductive invariant from which they
follow (`LCBroadcast` three, one on top of the other, and `Shutdown` two).

| theorems | about | from |
|---|---|---|
| `InvHolds`, `TypeCorrect`, `FifoHolds`, `UniformHolds`, `AckAfterSeenHolds`, `CounterMatchesAcksHolds`, `ClockInvHolds`, `ClocksGrowHolds`, `NothingLeftWaitingHolds`, `CausalInvHolds`, `CausalDeliveryHolds` (`LCBroadcastProofs`), `Refinement` (`LCBRefinementProofs`) | any number of C++ processes and packets, any configuration | `NAssumption`, `CountAssumption`, `CausalityAssumption` |
| `InvHolds`, `TypesHold`, `UniformDeliveryHolds`, `FifoDeliveryHolds`, `DispatchLoggedHolds`, `NothingLeftWaitingHolds`, `ClockRespectedHolds`, `Refinement` (`RustProofs`) | any number of Rust processes and packets, any configuration, all kinds of broadcast | `NAssumption`, `CountAssumption`, `KindsAssumption`, `LinesAssumption` |
| `LinkInvHolds`, `LinkTypesCorrect`, `OneCopyHolds`, `HonestDatagramsHolds` (`TcpLinkProofs`) | any number of peers and packets, any sizes of chunks and batches | `PeerAssumption`, `BoundsAssumption` |
| `QueueTypeCorrect`, `QueueIsFifo`, `QueueSizeMatches`, `QueueNoLostWakeup` (`SafeQueueProofs`) | any number of producers, consumers and items | `ThreadsAssumption`, `ItemsAssumption` |
| `ShutdownInvHolds`, `ShutdownTypesCorrect`, `EventsConservedHolds`, `WriterAloneHolds`, `AtMostABatchHolds`, `StopKeepsEventsHolds`, `RunsAsNodeHolds`, `CausalityAsWrittenHolds` (`ShutdownProofs`) | any command lines and files, any number of packets, any sizes of chunks, batches and words | `InputsAssumption`, `BoundsAssumption` |
| `DecodeEncode` (`CodecProofs`) | any number of processes, any text | numbers below 2^32 |

### The C++ protocol

The argument of `UniformDelivery` is: a delivered
packet was counted above N div 2; the count is the number of senders recorded in
`acked` (`CounterMatchesAcks`); whoever is named as a sender, in `acked`, in the
hands of a thread or on a message, holds the packet (`SenderHolds`), because a
copy bears the name of the process that made it and is made when the packet is
in hand; and nobody ever lets go of a packet, because a thread only drops a
packet that its process has marked (`ThreadWork`), so majorities stay
majorities. `AckAfterSeen` needs `SentAfterSeen`: an acknowledgement answers a
packet, and a packet is sent after `mark_as_seen`; the order of the two calls in
`uniform_reliable_broadcast` is what it rests on. That `acked_counter` fits in
0..N needs `CounterMatchesAcks`, and that `received_up_to` stays in range needs
`NoExtraCount`. `LogMatches` ties the log to `received_up_to` and yields FIFO
order.

`ClockInv` is about clocks and the loop of `insert`, on top of `Inv`. All copies
of a packet, in the hands of threads or on the network, have one clock
(`OneClock`), because nobody has the packet while `construct_payload` still
copies the clock (`Copying`), and therefore nobody delivers it meanwhile; its
owner's entry of the clock is below the number of the packet (`OwnClock`), so the
clock never keeps a packet of an owner nobody else affects from being delivered.
`GrowingClocks` is `ClocksGrow` for copies anywhere, with what makes it inductive: a
clock being copied began after the clocks of the owner's earlier packets were taken,
and entries of `vector_clock` only grow.
`LoopUnfinished` says that the next packet of such an owner is at a majority only
while a loop started by a packet of that owner has still to look at it: the loop
looks at the next packet after each delivery, and an insertion that completes a
majority starts a loop. `NothingLeftWaiting` is what it says when `mtx` is free.

`CausalDeliveryHolds` is `Spec => [](JudgedByOwnClock => CausalDelivery)`.
`can_lcb_deliver` compares the clock of the payload being inserted, whichever packet
it lets through, so causal order holds only where that clock speaks for the packet
delivered. `JudgedByOwnClock` says of the configuration when this is so: each owner
is affected by nobody else, or it broadcasts one packet and affects nobody
else. In the first case no clock matters: a packet comes after fewer packets of
its owner than its number says (`OwnClock`), and those are delivered
first (`LogMatches`). In the second case the loop delivers that packet only when it
is itself the payload, and all its copies have one clock (`OneClock`). Neither half
of the second case can be dropped. With two packets the clock of the first does not
speak for the second (`causal_order`). With one packet each and three hosts, host 2
affected by 1 and host 3 by both, host 3 delivers the packet of 2 in the loop that
its own, earlier packet starts, whose clock is zero, before the packet of 1 that 2
had delivered. `LogCausal` is the inductive form, about a copy on the
network; that there is one needs `OthersOnNet` and two hosts: of a majority one is
another process, which is known to have the packet because it sent a copy. On a
single host nothing is ever sent, and `PacketClock` would ask for the clock of
nothing: hence `N > 1`.

The proofs have one lemma per action. Actions outside `insert` move one thread
and leave the `DeliveredSet` alone (`Moves`): lemma `MovesInv` does the work
for all six once. For `insert`, `InsertEffect` and `DeliverEffect` say entry by
entry what changes.

The refinement uses `Inv` again. `ConstructBegin` is an abstract broadcast.
`Receive` spreads the packet: the sender named on it holds it (`SenderHolds`).
`Deliver` is an abstract delivery: the counter is at most the number of holders
(`CounterMatchesAcks`, `SenderHolds`), and the earlier packets of the owner are
in the log while this one is not (`LogMatches`). All other actions leave the
abstract variables alone; that they do not make a process let go of a packet is
`ThreadWork`.

### The Rust protocol

Copies are sent before `mark_as_seen`, so `AckAfterSeen` is false here and
uniformity has another reason: a process holds a packet from the moment one of
its threads has it in hand, and what it sends names it as the sender
(`SenderHolds`). `OneTried` is why the early return of `try_delivering` is
harmless with kind `Fifob`: the work list has at most one entry, and that is
whichever packet can be delivered now. `LogMatches` ties the log to `set` and
`received_up_to`, also for the kinds that deliver in any order.
`CarriedDispatched` says that whatever is anywhere has been logged by its owner,
the order of `enqueue.rs:62` and 67. For kind `Lcb`, `OneClock` and
`ClockDelivered` say that every packet in the log comes after what its clock
counts, whichever copy of the packet is looked at; it relies on the clock being
copied under the lock.

The theorems hold for all kinds of broadcast where the code claims the property
for all of them. `UniformDeliveryHolds` is for the kinds that count before they
deliver (`Urb`, `Fifob`, `Lcb`); `FifoDeliveryHolds` and `Refinement` for the
kinds that deliver in order (`InOrder`: `Fifob`, `Lcb`).

### The link layer

`LinkInv` says that whatever is in a queue or in the hands of sender and
retransmitter is true (`TrueInHand`): its packet is marked as seen, or it is an
acknowledgement that is `Vouched` for: its packet is marked or in the receiver's
hands, and its peer is recorded as having it or about to be. The receiver enqueues an
acknowledgement before anything is recorded, and keeps the packet until `insert` has
recorded the peer and `was_seen` has found the packet marked or `mark_as_seen` has
marked it; nothing recorded is withdrawn. So the message stays true through each of
these steps and however long it waits, whenever the sender takes it. `ThreadWork` says
what the two broadcasting threads have in hand: an acknowledgement, or a packet of
this process that comes back, is for a packet already marked, so the receiver relays
packets of peers only and the enqueuer its own, and the two never mark the
same one. This is why a packet found unseen is still unseen when it is marked, although
`was_seen` and `mark_as_seen` lock separately. `OneCopy` is a conjunct of its own:
marking makes one copy for each peer still to be made, each turn of the loop puts one
into the queue, each change of hands takes a message from one place and puts it in
another, and only the retransmitter drops packets, when the recipient has acknowledged
them (`tcp.cpp:97`). The counting is that of `Occurrences` in
`SequencePartsProofs`.

### The queue

The invariant `QueueInv` adds to the three properties who
holds the mutex at which statement (`MutexHeld`), by how much `q_size` differs
from the length there (`SizeExact`), that `front()` is only reached with an item
in the queue (`NotEmpty`), and that the waiting consumers are those in `wait`
(`Asleep`). `notify_one` is enough because an item that no producer is still to
announce leaves a consumer awake: the one that was woken, or the one that has
just taken an item and returns to the queue.

### The life of a process

`ShutdownInv` covers `Startup` and `Shutdown` together. Before the threads run
nothing has been produced, and the file is empty from the moment `main` opens it
(`MainInv`). A queue has the last events produced of its kind, in order
(`QueueInv`). Until the signal the file and the stream of the writer thread have
all the earlier ones, in order, and the writer only takes what it has seen in the
queue (`WriterInv`): it is the only consumer, so `WriterAlone` follows. After the
signal there are two consumers and order is lost (`log_order`), but not
conservation: a dequeue moves an event from the queue to one of the streams and a
close moves a stream into the file. `StopKeepsEvents` then needs that the handler
goes on until each queue is empty, after which the queue only has events from
after the signal (`HandlerInv`, `Drained`), that its stream is closed when it joins,
and that it exits with the writer's closed (`DumperInv`). `NodesInv` is about input: the hosts file is
accepted when its ids are between 1 and the number of its lines, so they are
indices, whatever else is wrong with them; `myself_node` is found among them, by
the id of the command line cut to a word, or the process crashes. What is
assumed of inputs is only what the conversions give: the ids and ports of
`parser.hpp`, and the numbers of a line of the configuration, which `main` reads
into a `uint32_t` (`main.cpp:177`), are not negative (`InputsAssumption`).

`CausalityAsWritten` takes the files to be as the README of the repository asks
for, the hosts in any order. `main` goes by the position of a node in `nodes`, not
by its id, so what has to be shown is that the two agree (`CausalityInv`, on top
of `ShutdownInv`). No line is skipped when all are hosts (`WellFormedLines`); n
lines with the ids 1..n name each once, so the sorted ids are 1..n without a gap
or a repetition, and the i-th is i, whatever order `std::sort` leaves equal
elements in (`InOrderIsIdentity`, `SortedInPlace`: of the positions where they
differ take the least). The lines read for a host are then one line, its own:
joined with the empty ones of the other nodes it is left (`FlattenOne`, by the
same argument from the least counterexample, since `FlattenSeq` is recursive).

### The codec

For every payload whose numbers are below 2^32, decoding what was encoded gives the
payload back. A number is recovered from its four bytes (`ValueOfBytes`); the
datagram is a concatenation whose parts are where `decode_udp_payload` looks
(`Layout`, with `Concat` for one boundary at a time), the place of the clock
included, which depends on the length of the text.

### Only model-checked

* The liveness properties `Validity`, `UniformAgreement`, `AllAcked`,
  `AllBroadcast`, `AllTaken`, `DeliveriesWritten`, `WorkEnds`: temporal reasoning
  under fairness is beyond the prover.
* Whether `CausalDelivery` holds in a configuration outside `JudgedByOwnClock`: it is
  false in general (`causal_order`). `lcb_two` checks an instance inside.
* What the fairness of `LCBLive`, `RustLive`, `TcpLink` and `Shutdown` says of a
  thread: `ENABLED` is beyond the prover too.

## 5. Not modelled

The calls of the operating system behind sockets, files and name lookup (what
they may answer is modelled), serialisation by bincode, formatting and debug
output, memory management (`free_payload`, the shadowed `should_alloc` of
`tcp.cpp:35`, which only leaks), a second signal during `stop`, `all_delivered`
(`KEEP_ALIVE` compiles its loop away), `enqueue_tcp_messages` (never called), the
command line and hosts file of the Rust program (which are split into words and
not checked), and `stress.py`, `perf.py` and `tc.py`: they run
the program with pauses, delays and signals, which the models allow anyway.

## 6. Plan

Order of work: the C++ protocol with its abstract specification and proofs
first, then the link layer, the queue and the shutdown that surround it, then
the Rust protocol against the same abstract specification, then what comes
before and below all this: command line, files, ports and datagrams. These are
done. Left: the work list of the Rust program with kind `Lcb`, which nothing
broadcasts (`try_delivering` returns at the first entry it cannot deliver; whether
packets are left waiting).
