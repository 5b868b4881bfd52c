------------------------------ MODULE Shutdown ------------------------------
(***************************************************************************)
(* The life of one C++ process (main.cpp) after its start: the enqueuer    *)
(* and receiver threads produce events, the writer thread moves them to    *)
(* the output file, and a signal runs stop() on the main thread, which     *)
(* moves them too and then joins the threads.                              *)
(*                                                                         *)
(* The packets delivered are those of the process itself, so that the same *)
(* packet has a "b" and a "d" event. An event waits in broadcasted_queue   *)
(* ("b") or deliverable ("d"), then in the stream buffer of whoever took   *)
(* it, and is in the file when that stream is closed.                      *)
(***************************************************************************)
EXTENDS Startup

CONSTANTS
  MaxMsgs,             \* bound on the packets to broadcast
  Batch,               \* SENDING_CHUNK_SIZE / 10
  DUMPING_CHUNK

ASSUME BoundsAssumption ==
  /\ Batch \in Nat \ {0}
  /\ DUMPING_CHUNK \in Nat \ {0}
  /\ MaxMsgs \in Nat \ {0}
  /\ 2 ^ WordBits \in Nat
  /\ 2 ^ WordBits > DUMPING_CHUNK + MaxMsgs
  /\ \A in \in Inputs : in.config.count \in 0..MaxMsgs

Uid    == 1..MaxMsgs
Kind   == {"b", "d"}
Event  == [kind : Kind, uid : Uid]
Dumper == {"writer", "handler"}   \* who runs dump_to_output

\* The two loops of dump_to_output: testing the size, and dequeueing.
Test == [b |-> "test_b", d |-> "test_d"]
Take == [b |-> "take_b", d |-> "take_d"]

VARIABLES
  enqueuer,           \* where broadcast_messages is
  enqueued_messages,  \* packets started
  enqueue_until,      \* end of the current batch
  receiver,           \* where keep_receiving_messages is
  delivered,          \* packets delivered
  queue,              \* queue["b"] is broadcasted_queue, queue["d"] deliverable
  pc,                 \* pc[d]: where the writer thread and stop are
  until_size,         \* until_size[d]: argument of dump_to_output
  buffer,             \* buffer[d]: lines written to the stream, not yet flushed
  output_file,        \* lines of the file
  at_signal           \* history: events and packets when the signal came

producers  == <<enqueuer, enqueued_messages, enqueue_until, receiver, delivered>>
dumpers    == <<pc, until_size, buffer, output_file>>
threadVars == <<producers, queue, dumpers>>
vars == <<startupVars, threadVars, at_signal>>

TypeOK ==
  /\ enqueuer \in {"test", "batch", "log", "ended"}
  /\ enqueued_messages \in 0..msgs_to_send_count
  /\ enqueue_until \in 0..msgs_to_send_count
  /\ receiver \in {"poll", "handle", "ended"}
  /\ delivered \in 0..msgs_to_send_count
  /\ queue \in [Kind -> Seq(Event)]
  /\ pc \in [Dumper -> {"poll", "none", "test_b", "take_b", "test_d",
                        "take_d", "close", "join", "ended"}]
  /\ until_size \in [Dumper -> 0..msgs_to_send_count]
  /\ buffer \in [Dumper -> Seq(Event)]
  /\ output_file \in Seq(Event)
  /\ at_signal \in [b : 0..MaxMsgs, d : 0..MaxMsgs, started : 0..MaxMsgs]
  /\ process \in {"running", "refused", "unbound", "crashed", "aborted", "exited"}

\* The output file has a line of an earlier execution.
Init ==
  /\ StartupInit
  /\ enqueuer = "test"
  /\ enqueued_messages = 0
  /\ enqueue_until = 0
  /\ receiver = "poll"
  /\ delivered = 0
  /\ queue = [k \in Kind |-> <<>>]
  /\ pc = [d \in Dumper |-> IF d = "writer" THEN "poll" ELSE "none"]
  /\ until_size = [d \in Dumper |-> 0]
  /\ buffer = [d \in Dumper |-> <<>>]
  /\ output_file = <<[kind |-> "b", uid |-> 1]>>
  /\ at_signal = [b |-> 0, d |-> 0, started |-> 0]

\* main empties the output file.
OpenOutput ==
  /\ At("output")
  /\ output_file' = <<>>
  /\ Enter("config")
  /\ UNCHANGED <<settings, producers, queue, pc, until_size, buffer, at_signal>>

\* One delivery, of a packet that has been broadcast: by insert, in the receiver,
\* or by mark_as_seen, in whoever broadcasts.
Deliver ==
  /\ delivered < enqueued_messages
  /\ delivered' = delivered + 1
  /\ queue' = [queue EXCEPT !["d"] = Append(@, [kind |-> "d", uid |-> delivered + 1])]
  /\ UNCHANGED <<enqueuer, enqueued_messages, enqueue_until, receiver, dumpers>>

----------------------------------------------------------------------------
(* broadcast_messages. *)

\* Fault: finito not tested.
EnqueuerTestForever ==
  /\ Started("enqueuer")
  /\ enqueuer = "test"
  /\ enqueuer' = IF enqueued_messages < msgs_to_send_count THEN "batch" ELSE "ended"
  /\ enqueue_until' = Min({enqueued_messages + Batch, msgs_to_send_count})
  /\ UNCHANGED <<enqueued_messages, receiver, delivered, queue, dumpers>>

\* The outer loop: finito is tested once for a whole batch.
EnqueuerTest ==
  /\ Started("enqueuer")
  /\ enqueuer = "test"
  /\ IF enqueued_messages < msgs_to_send_count /\ ~finito
       THEN /\ enqueuer' = "batch"
            /\ enqueue_until' = Min({enqueued_messages + Batch, msgs_to_send_count})
       ELSE /\ enqueuer' = "ended"
            /\ UNCHANGED enqueue_until
  /\ UNCHANGED <<enqueued_messages, receiver, delivered, queue, dumpers>>

\* The next packet is constructed and broadcast.
EnqueuerBroadcast ==
  /\ enqueuer = "batch"
  /\ enqueued_messages' = enqueued_messages + 1
  /\ enqueuer' = "log"
  /\ UNCHANGED <<enqueue_until, receiver, delivered, queue, dumpers>>

EnqueuerDeliver == enqueuer = "log" /\ Deliver

\* Afterwards it is put on broadcasted_queue; the inner loop goes on, or ends.
EnqueuerLog ==
  /\ enqueuer = "log"
  /\ queue' = [queue EXCEPT !["b"] =
                 Append(@, [kind |-> "b", uid |-> enqueued_messages])]
  /\ enqueuer' = IF enqueued_messages < enqueue_until THEN "batch" ELSE "test"
  /\ UNCHANGED <<enqueued_messages, enqueue_until, receiver, delivered, dumpers>>

EnqueuerStep == EnqueuerTest \/ EnqueuerBroadcast \/ EnqueuerDeliver \/ EnqueuerLog

----------------------------------------------------------------------------
(* keep_receiving_messages. *)

\* Fault: finito not tested.
ReceiverPollForever ==
  /\ Started("receiver")
  /\ receiver = "poll"
  /\ receiver' = "handle"
  /\ UNCHANGED <<enqueuer, enqueued_messages, enqueue_until, delivered, queue, dumpers>>

\* finito is tested; then select finds a packet, or its time is over.
ReceiverPoll ==
  /\ Started("receiver")
  /\ receiver = "poll"
  /\ receiver' = IF finito THEN "ended" ELSE "handle"
  /\ UNCHANGED <<enqueuer, enqueued_messages, enqueue_until, delivered, queue, dumpers>>

ReceiverDeliver == receiver = "handle" /\ Deliver

ReceiverDone ==
  /\ receiver = "handle"
  /\ receiver' = "poll"
  /\ UNCHANGED <<enqueuer, enqueued_messages, enqueue_until, delivered, queue, dumpers>>

ReceiverStep == ReceiverPoll \/ ReceiverDeliver \/ ReceiverDone

----------------------------------------------------------------------------
(* keep_dumping_to_output and dump_to_output. *)

\* Fault: the repair of the wrapped difference forgotten.
UntilSizeWrapped(current_size) == (current_size - DUMPING_CHUNK) % 2 ^ WordBits

\* The unsigned difference wraps below zero, which is noticed by comparison.
UntilSize(current_size) ==
  LET until == (current_size - DUMPING_CHUNK) % 2 ^ WordBits
  IN  IF until > current_size THEN 0 ELSE until

\* DUMP_WHEN_ABOVE is 0.
WriterPoll ==
  /\ Started("writer")
  /\ pc["writer"] = "poll"
  /\ IF finito
       THEN /\ pc' = [pc EXCEPT !["writer"] = "ended"]
            /\ UNCHANGED until_size
       ELSE /\ Len(queue["d"]) > 0
            /\ until_size' = [until_size EXCEPT !["writer"] = UntilSize(Len(queue["d"]))]
            /\ pc' = [pc EXCEPT !["writer"] = Test["b"]]
  /\ UNCHANGED <<producers, queue, buffer, output_file>>

\* Fault: off by one, in either direction.
HasMoreThanOne(d, k) == Len(queue[k]) > until_size[d] + 1
HasAsMany(d, k) == Len(queue[k]) >= until_size[d]

HasMore(d, k) == Len(queue[k]) > until_size[d]

\* The loop conditions of dump_to_output: first broadcasted_queue, then
\* deliverable, then close.
DumpTest(d) ==
  /\ \E k \in Kind :
       /\ pc[d] = Test[k]
       /\ pc' = [pc EXCEPT ![d] =
            IF HasMore(d, k) THEN Take[k]
            ELSE IF k = "b" THEN Test["d"] ELSE "close"]
  /\ UNCHANGED <<producers, queue, until_size, buffer, output_file>>

\* dequeue, which waits while the queue is empty, and the line written.
DumpTake(d) ==
  /\ \E k \in Kind :
       /\ pc[d] = Take[k]
       /\ queue[k] # <<>>
       /\ queue' = [queue EXCEPT ![k] = Tail(@)]
       /\ buffer' = [buffer EXCEPT ![d] = Append(@, Head(queue[k]))]
       /\ pc' = [pc EXCEPT ![d] = Test[k]]
  /\ UNCHANGED <<producers, until_size, output_file>>

\* Fault: the lines not appended but written over what others appended.
DumpCloseOverwrites(d) ==
  /\ pc[d] = "close"
  /\ output_file' = buffer[d]
  /\ buffer' = [buffer EXCEPT ![d] = <<>>]
  /\ pc' = [pc EXCEPT ![d] = IF d = "writer" THEN "poll" ELSE "join"]
  /\ UNCHANGED <<producers, queue, until_size>>

\* The stream is flushed and closed: its lines are appended to the file.
DumpClose(d) ==
  /\ pc[d] = "close"
  /\ output_file' = output_file \o buffer[d]
  /\ buffer' = [buffer EXCEPT ![d] = <<>>]
  /\ pc' = [pc EXCEPT ![d] = IF d = "writer" THEN "poll" ELSE "join"]
  /\ UNCHANGED <<producers, queue, until_size>>

DumperStep(d) == DumpTest(d) \/ DumpTake(d) \/ DumpClose(d)

----------------------------------------------------------------------------
(* stop. *)

\* The events of a kind put on its queue so far.
Produced(k) ==
  IF k = "d" THEN delivered
  ELSE IF enqueuer = "log" THEN enqueued_messages - 1 ELSE enqueued_messages

\* A signal arrives when tcp_handler is ready: finito is set, main goes no
\* further, and dump_to_output(0) begins.
Signal ==
  /\ At("spawn")
  /\ finito' = TRUE
  /\ pc' = [pc EXCEPT !["handler"] = Test["b"]]
  /\ at_signal' = [b |-> Produced("b"), d |-> Produced("d"),
                   started |-> enqueued_messages]
  /\ UNCHANGED <<input, stage, settings, spawned, process, producers, queue,
                 until_size, buffer, output_file>>

\* The thread may have ended. The sender and the retransmitter have no state
\* here: they test finito only between two dequeues that may wait for ever, so
\* after the signal they may end at any time or never.
HasEnded(t) ==
  CASE t = "receiver" -> receiver = "ended"
    [] t = "enqueuer" -> enqueuer = "ended"
    [] t = "writer"   -> pc["writer"] = "ended"
    [] OTHER          -> finito

\* join throws, which ends the program, for a thread that main had not started
\* yet. When all were started main may be inside join_threads itself: joining a
\* thread twice is undefined, and the second join throws or waits.
JoinMayThrow ==
  \/ spawned = Len(SpawnOrder)
  \/ \E i \in DOMAIN JoinOrder :
       /\ ~Started(JoinOrder[i])
       /\ \A j \in 1..(i - 1) : HasEnded(JoinOrder[j])

HandlerEnds(how) ==
  /\ pc["handler"] = "join"
  /\ process' = how
  /\ UNCHANGED <<input, stage, settings, spawned, finito, threadVars, at_signal>>

HandlerAborts == JoinMayThrow /\ HandlerEnds("aborted")

\* Fault: exit without joining the writer thread.
HandlerExitsEarly ==
  /\ \A t \in Range(JoinOrder) \ {"writer"} : HasEnded(t)
  /\ HandlerEnds("exited")

\* exit is reached when all threads have ended.
HandlerExits ==
  /\ \A t \in Range(JoinOrder) : HasEnded(t)
  /\ HandlerEnds("exited")

----------------------------------------------------------------------------
ThreadStep ==
  /\ process = "running"
  /\ \/ EnqueuerStep
     \/ ReceiverStep
     \/ WriterPoll
     \/ \E d \in Dumper : DumperStep(d)
  /\ UNCHANGED <<startupVars, at_signal>>

Main ==
  \/ MainStep /\ UNCHANGED <<threadVars, at_signal>>
  \/ OpenOutput

Next ==
  \/ Main
  \/ SignalTooEarly /\ UNCHANGED <<threadVars, at_signal>>
  \/ Signal
  \/ ThreadStep
  \/ process = "running" /\ (HandlerAborts \/ HandlerExits)

Spec == Init /\ [][Next]_vars

Runs(A) == process = "running" /\ A /\ UNCHANGED <<startupVars, at_signal>>

\* main and the threads go on while the process runs: the receiver waits at
\* most MAX_PACKET_WAIT_MS for a packet. Deliveries and signals need not happen,
\* the threads of the link layer may wait for ever, and so may the handler.
Fairness ==
  /\ WF_vars(Main)
  /\ WF_vars(Runs(EnqueuerStep))
  /\ WF_vars(Runs(ReceiverStep))
  /\ WF_vars(Runs(WriterPoll))
  /\ \A d \in Dumper : WF_vars(Runs(DumperStep(d)))

LiveSpec == Spec /\ Fairness

----------------------------------------------------------------------------
(* Properties. *)

InFile(e) == Occurrences(output_file, {e}) > 0

\* In how many places an event is.
Places(e) ==
  Occurrences(queue[e.kind], {e}) + Occurrences(buffer["writer"], {e})
    + Occurrences(buffer["handler"], {e}) + Occurrences(output_file, {e})

\* Every event put on a queue is in exactly one place, the queue, the stream of
\* one of the two dumpers or the file, however their dequeues interleave, and
\* there are no others: nothing of an earlier execution stays in the file.
EventsConserved ==
  stage = "spawn" => \A e \in Event :
    Places(e) = IF e.uid <= Produced(e.kind) THEN 1 ELSE 0

\* checkProcess of tools/validate_fifo.py: the broadcasts of a log are numbered
\* 1, 2, ... in this order, and so are the deliveries from one process.
CheckProcess(file) ==
  \A k \in Kind :
    LET s == Kept(file, {e \in Event : e.kind = k})
    IN  \A i \in DOMAIN s : s[i].uid = i

\* Until a signal arrives the writer thread is alone: the log is valid, and the
\* writer, which tests the size before each dequeue, never waits in one.
WriterAlone ==
  stage = "spawn" /\ ~finito =>
    /\ CheckProcess(output_file)
    /\ \A k \in Kind : pc["writer"] = Take[k] => queue[k] # <<>>

\* Every delivery is written to the file, unless a signal comes first: the
\* bounds that keep_dumping_to_output computes leave nothing behind. (A line
\* stays in the file, so it is enough that again and again none is missing.)
DeliveriesWritten ==
  []<>(finito \/ \A u \in 1..delivered : InFile([kind |-> "d", uid |-> u]))

\* README.md:128 asks for an immediate stop. The code comes this close to it:
\* after the signal the enqueuer starts no more packets than one batch has.
AtMostABatch == finito => enqueued_messages <= at_signal.started + Batch

\* After the signal the enqueuer and the receiver end, or the process does; the
\* sender and the retransmitter need not.
WorkEnds ==
  finito ~> \/ process # "running"
            \/ \A t \in {"enqueuer", "receiver"} : Started(t) => HasEnded(t)

\* In dequeue, on an empty queue: d waits, perhaps for ever.
Waits(d) == \E k \in Kind : pc[d] = Take[k] /\ queue[k] = <<>>

\* README.md:130: when stop has dumped, every event from before the signal is in
\* the file, but for lines the writer thread still has in its stream; these are
\* lost if the process ends there, and exit is not reached before they are
\* written. Both dumpers may test the size before either dequeues, but only one
\* of them can find the queue empty: the other goes on.
StopKeepsEvents ==
  /\ pc["handler"] = "join" =>
       \A k \in Kind : \A u \in 1..at_signal[k] :
         LET e == [kind |-> k, uid |-> u]
         IN  \/ InFile(e)
             \/ process # "exited" /\ Occurrences(buffer["writer"], {e}) > 0
  /\ \E d \in Dumper : ~Waits(d)

\* tools/validate_fifo.py accepts the log, also when stop and the writer thread
\* dump at the same time.
ValidLog == stage = "spawn" => CheckProcess(output_file)
=============================================================================
