-------------------------- MODULE ShutdownInvariant --------------------------
(* The inductive invariant of Shutdown.                                    *)
EXTENDS Shutdown

\* The state of the threads before any of them is started.
NothingStarted ==
  /\ enqueuer = "test"
  /\ enqueued_messages = 0
  /\ enqueue_until = 0
  /\ receiver = "poll"
  /\ delivered = 0
  /\ queue = [k \in Kind |-> <<>>]
  /\ pc = [d \in Dumper |-> IF d = "writer" THEN "poll" ELSE "none"]
  /\ until_size = [d \in Dumper |-> 0]
  /\ buffer = [d \in Dumper |-> <<>>]

\* main opens the file before it starts the threads, and reads how many packets
\* there are before that.
MainInv ==
  /\ input \in Inputs
  /\ stage \in {"parse", "hosts", "output", "config", "myself", "bind", "spawn"}
  /\ spawned \in 0..Len(SpawnOrder)
  /\ spawned > 0 => stage = "spawn"
  /\ finito \in BOOLEAN
  /\ msgs_to_send_count \in 0..MaxMsgs
  /\ stage \in {"config", "myself", "bind"} => output_file = <<>>
  /\ stage # "spawn" => NothingStarted

\* A batch ends a batch after the packets started, or started when the signal
\* came.
EnqueuerInv ==
  /\ delivered <= enqueued_messages
  /\ enqueuer = "batch" => enqueued_messages < enqueue_until
  /\ enqueuer = "log" => enqueued_messages \in 1..enqueue_until
  /\ enqueuer \in {"batch", "log"} =>
       enqueue_until <= (IF finito THEN at_signal.started ELSE enqueued_messages) + Batch
  /\ AtMostABatch

\* A queue has the last events produced, in their order.
QueueInv ==
  \A k \in Kind :
    /\ Len(queue[k]) <= Produced(k)
    /\ \A i \in DOMAIN queue[k] :
         queue[k][i] = [kind |-> k, uid |-> (Produced(k) - Len(queue[k])) + i]

\* Where a dumper has nothing in its hands; stop dumps all there is.
DumperInv ==
  /\ pc["writer"] \notin {"none", "join"}
  /\ pc["handler"] \notin {"poll", "ended"}
  /\ pc["writer"] \in {"poll", "ended"} => buffer["writer"] = <<>>
  /\ pc["handler"] \in {"none", "join"} => buffer["handler"] = <<>>
  /\ until_size["handler"] = 0
  /\ ~finito => pc["handler"] = "none"

\* While the writer is alone, the file, its stream and the queue of a kind have
\* the events of that kind from the first to the last one.
WriterInv ==
  stage = "spawn" /\ ~finito =>
    \A k \in Kind :
      /\ LET s == Kept(output_file \o buffer["writer"], {e \in Event : e.kind = k})
         IN  /\ Len(s) + Len(queue[k]) = Produced(k)
             /\ \A i \in DOMAIN s : s[i].uid = i
      /\ pc["writer"] = Take[k] => queue[k] # <<>>

\* Where stop has found the queue of a kind empty.
Drained(k) ==
  pc["handler"] \in {"close", "join"} \cup (IF k = "b" THEN {"test_d", "take_d"} ELSE {})

\* What is on the queue of a kind once stop has found it empty was put there
\* after the signal; stop joins the threads last.
HandlerInv ==
  /\ pc["handler"] # "none" =>
       \A k \in Kind :
         /\ at_signal[k] <= Produced(k)
         /\ Drained(k) => \A i \in DOMAIN queue[k] : queue[k][i].uid > at_signal[k]
  /\ process = "exited" => pc["handler"] = "join" /\ pc["writer"] = "ended"

\* Each host is a node of one of the arrays of DeliveredSet; main has an id and
\* finds its own node among them.
NodesInv ==
  /\ stage # "parse" => argc >= 3
  /\ stage \notin {"parse", "hosts"} =>
       /\ nodes \in Seq([id : Nat, port : Nat])
       /\ \A i \in DOMAIN nodes : nodes[i].id \in 1..Len(nodes)
  /\ stage \in {"bind", "spawn"} => myself_node \in Range(nodes) /\ AsAsked

ShutdownInv ==
  /\ TypeOK
  /\ MainInv
  /\ NodesInv
  /\ EnqueuerInv
  /\ QueueInv
  /\ DumperInv
  /\ WriterInv
  /\ HandlerInv
  /\ EventsConserved

----------------------------------------------------------------------------
(* The inductive invariant for the configuration, on top of ShutdownInv. *)

\* With files as README.md asks for, the i-th node is host i, whatever the order
\* of the hosts file, so that the i-th line of the configuration is for it.
CausalityInv ==
  /\ WellFormed(input) /\ stage \in {"output", "config"} =>
       /\ DOMAIN nodes = 1..Len(input.hosts.lines)
       /\ \A i \in DOMAIN nodes : nodes[i].id = i
  /\ CausalityAsWritten
=============================================================================
