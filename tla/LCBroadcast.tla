---------------------------- MODULE LCBroadcast ----------------------------
(***************************************************************************)
(* The C++ broadcast stack of template_cpp/: N processes, each running a   *)
(* receiver thread (keep_receiving_messages) and an enqueuer thread        *)
(* (broadcast_messages) that share one DeliveredSet under its mutex mtx.   *)
(* The link layer below them (sending_queue, retrans_queue and UDP) is the *)
(* set net of messages handed to sending_queue: a message in it may be     *)
(* received at any time, in any order, more than once or never, which is   *)
(* what a lossy network with retransmission offers.                        *)
(*                                                                         *)
(* A process that has crashed is a process that takes no more steps.       *)
(***************************************************************************)
EXTENDS Integers, Sequences, FiniteSets

CONSTANTS
  N,                   \* number of hosts; their ids are 1..N
  MaxMsgs,             \* bound on the packets of one process
  msgs_to_send_count,  \* first line of the config file of each process
  causality            \* line i of the config file, in the order written

ASSUME NAssumption == N \in Nat /\ N >= 1
ASSUME CountAssumption == /\ MaxMsgs \in Nat
                          /\ msgs_to_send_count \in [1..N -> 0..MaxMsgs]
ASSUME CausalityAssumption == causality \in [1..N -> Seq(1..N)]

Proc     == 1..N
Uid      == 1..MaxMsgs
PacketID == 1..(MaxMsgs + 1)   \* received_up_to may point one past the last
Clock    == [Proc -> 0..MaxMsgs]
Thread   == {"receiver", "enqueuer"}

VARIABLES
  acked,              \* acked[p][s][o]: packets of o that p knows s to have
  acked_counter,      \* acked_counter[p][o][u]; 0 also stands for no entry
  undelivered,        \* undelivered[p][o]: keys of the map of stored payloads
  received_up_to,     \* received_up_to[p][o]: first packet of o not delivered
  vector_clock,       \* vector_clock[p][o]: packets of o delivered by p
  deliverable,        \* deliverable[p]: everything ever put on that queue
  mtx,                \* mtx[p]: the thread of p inside insert, or "free"
  cursor,             \* cursor[p]: position in the loop over affected nodes
  pc,                 \* pc[p][t]: where thread t of p is
  payload,            \* payload[p][t]: the payload that thread is handling
  enqueued_messages,  \* enqueued_messages[p]: packets p has started to send
  net                 \* every message handed to some sending_queue

setVars == <<acked, acked_counter, undelivered, received_up_to,
             vector_clock, deliverable>>
vars == <<setVars, mtx, cursor, pc, payload, enqueued_messages, net>>

----------------------------------------------------------------------------
(* Data. *)

Payload == [sender_id : Proc, owner_id : Proc, packet_uid : Uid,
            vector_clock : Clock, is_ack : BOOLEAN]

NoPayload == [sender_id |-> 0, owner_id |-> 0, packet_uid |-> 0,
              vector_clock |-> [q \in Proc |-> 0], is_ack |-> FALSE]

Message == [recipient : Proc, payload : Payload]

Delivery == [owner_id : Proc, packet_uid : Uid]

\* Where a thread is: waiting for work ("idle"); inside the memcpy of
\* construct_payload ("copy"); about to lock mtx for insert ("insert") or for
\* mark_as_seen ("mark"), and holding it ("inserting", "marking"); about to
\* call was_seen ("check"); about to call best_effort_broadcast ("send").
Label == {"idle", "copy", "insert", "inserting", "check", "mark", "marking", "send"}

TypeOK ==
  /\ acked \in [Proc -> [Proc -> [Proc -> SUBSET Uid]]]
  /\ acked_counter \in [Proc -> [Proc -> [PacketID -> 0..N]]]
  /\ undelivered \in [Proc -> [Proc -> SUBSET Uid]]
  /\ received_up_to \in [Proc -> [Proc -> PacketID]]
  /\ vector_clock \in [Proc -> Clock]
  /\ deliverable \in [Proc -> Seq(Delivery)]
  /\ mtx \in [Proc -> Thread \cup {"free"}]
  /\ cursor \in [Proc -> Nat \ {0}]
  /\ pc \in [Proc -> [Thread -> Label]]
  /\ \A p \in Proc : pc[p]["receiver"] # "copy"
  /\ payload \in [Proc -> [Thread -> Payload \cup {NoPayload}]]
  /\ \A p \in Proc, t \in Thread :
       pc[p][t] # "idle" => payload[p][t] \in Payload
  /\ enqueued_messages \in [Proc -> 0..MaxMsgs]
  /\ net \in SUBSET Message

Init ==
  /\ acked = [p \in Proc |-> [s \in Proc |-> [o \in Proc |-> {}]]]
  /\ acked_counter =
       [p \in Proc |-> [o \in Proc |-> [u \in PacketID |-> 0]]]
  /\ undelivered = [p \in Proc |-> [o \in Proc |-> {}]]
  /\ received_up_to = [p \in Proc |-> [o \in Proc |-> 1]]
  /\ vector_clock = [p \in Proc |-> [o \in Proc |-> 0]]
  /\ deliverable = [p \in Proc |-> <<>>]
  /\ mtx = [p \in Proc |-> "free"]
  /\ cursor = [p \in Proc |-> 1]
  /\ pc = [p \in Proc |-> [t \in Thread |-> "idle"]]
  /\ payload = [p \in Proc |-> [t \in Thread |-> NoPayload]]
  /\ enqueued_messages = [p \in Proc |-> 0]
  /\ net = {}

----------------------------------------------------------------------------
(* DeliveredSet. *)

\* Fault: half of the processes taken for a majority.
CanUrbDeliverHalf(p, o, u) ==
  \/ u < received_up_to[p][o]
  \/ acked_counter[p][o][u] >= N \div 2

CanUrbDeliver(p, o, u) ==
  \/ u < received_up_to[p][o]
  \/ acked_counter[p][o][u] > N \div 2

Dependencies(o) == {causality[o][i] : i \in DOMAIN causality[o]}

\* Fault: the vector clock ignored.
CanLcbDeliverAnyClock(p, recv_vector_clock, a) ==
  CanUrbDeliver(p, a, received_up_to[p][a])

\* can_lcb_deliver: the clock compared is the one of the payload being
\* inserted, whichever packet of a is about to be delivered.
CanLcbDeliver(p, recv_vector_clock, a) ==
  /\ \A d \in Dependencies(a) : vector_clock[p][d] >= recv_vector_clock[d]
  /\ CanUrbDeliver(p, a, received_up_to[p][a])

\* Fault: duplicates of a packet counted again.
CountsDuplicates(p, m) == m.packet_uid >= received_up_to[p][m.owner_id]

\* Fault: the next packet taken for one already delivered.
CountsAfterNext(p, m) ==
  /\ m.packet_uid \notin acked[p][m.sender_id][m.owner_id]
  /\ m.packet_uid > received_up_to[p][m.owner_id]

\* The packet is not in acked[sender_id][owner_id] yet and not delivered yet.
CountsAsNew(p, m) ==
  /\ m.packet_uid \notin acked[p][m.sender_id][m.owner_id]
  /\ m.packet_uid >= received_up_to[p][m.owner_id]

\* Fault: the copy kept one acknowledgement late.
KeepsPayloadLate(p, m) ==
  CountsAsNew(p, m) /\ acked_counter[p][m.owner_id][m.packet_uid] = 1

\* insert keeps a copy of the first payload it counts for a packet.
KeepsPayload(p, m) ==
  CountsAsNew(p, m) /\ acked_counter[p][m.owner_id][m.packet_uid] = 0

\* DeliveredSet::insert up to its delivery loop. The loop is skipped (cursor
\* past its end) unless the payload is the next packet of its owner.
Insert(p, t) ==
  LET m == payload[p][t]
      s == m.sender_id
      o == m.owner_id
      u == m.packet_uid
  IN  /\ pc[p][t] \in {"insert", "mark"}
      /\ mtx[p] = "free"
      /\ mtx' = [mtx EXCEPT ![p] = t]
      /\ acked' = [acked EXCEPT ![p][s][o] = @ \cup {u}]
      /\ acked_counter' = [acked_counter EXCEPT ![p][o][u] =
           IF CountsAsNew(p, m) THEN @ + 1 ELSE @]
      /\ undelivered' = [undelivered EXCEPT ![p][o] =
           IF KeepsPayload(p, m) THEN @ \cup {u} ELSE @]
      /\ cursor' = [cursor EXCEPT ![p] =
           IF u = received_up_to[p][o] THEN 1 ELSE Len(causality[o]) + 1]
      /\ pc' = [pc EXCEPT ![p][t] = IF @ = "insert" THEN "inserting" ELSE "marking"]
      /\ UNCHANGED <<received_up_to, vector_clock, deliverable, payload,
                     enqueued_messages, net>>

\* The positions of the affected nodes the loop has still to look at.
Remaining(p, t) == cursor[p]..Len(causality[payload[p][t].owner_id])

Affected(p, t, i) == causality[payload[p][t].owner_id][i]

CanDeliverAt(p, t, i) ==
  CanLcbDeliver(p, payload[p][t].vector_clock, Affected(p, t, i))

\* Fault: the loop delivers the payload being inserted each time.
DeliveredInserted(p, t, a) ==
  [owner_id |-> a, packet_uid |-> payload[p][t].packet_uid]

\* What the loop puts on deliverable for affected node a.
Delivered(p, t, a) == [owner_id |-> a, packet_uid |-> received_up_to[p][a]]

\* One iteration of the while loop of insert that delivers: the affected nodes
\* before position i, from where the loop stands, have nothing to deliver.
Deliver(p, t) ==
  /\ pc[p][t] \in {"inserting", "marking"}
  /\ \E i \in Remaining(p, t) :
       LET a == Affected(p, t, i)
           u == received_up_to[p][a]
       IN  /\ CanDeliverAt(p, t, i)
           /\ \A j \in Remaining(p, t) : j < i => ~CanDeliverAt(p, t, j)
           /\ deliverable' =
                [deliverable EXCEPT ![p] = Append(@, Delivered(p, t, a))]
           /\ undelivered' = [undelivered EXCEPT ![p][a] = @ \ {u}]
           /\ acked_counter' = [acked_counter EXCEPT ![p][a][u] = 0]
           /\ received_up_to' = [received_up_to EXCEPT ![p][a] = @ + 1]
           /\ vector_clock' = [vector_clock EXCEPT ![p][a] = @ + 1]
           /\ cursor' = [cursor EXCEPT ![p] = i]
  /\ UNCHANGED <<acked, mtx, pc, payload, enqueued_messages, net>>

\* insert returns and mtx is unlocked.
InsertReturn(p, t) ==
  /\ pc[p][t] \in {"inserting", "marking"}
  /\ \A i \in Remaining(p, t) : ~CanDeliverAt(p, t, i)
  /\ mtx' = [mtx EXCEPT ![p] = "free"]
  /\ pc' = [pc EXCEPT ![p][t] = IF @ = "inserting" THEN "check" ELSE "send"]
  /\ UNCHANGED <<setVars, cursor, payload, enqueued_messages, net>>

----------------------------------------------------------------------------
(* keep_receiving_messages. *)

\* The acknowledgement enqueued for m: a copy of m, sent back as p's.
Ack(p, m) ==
  [recipient |-> m.sender_id,
   payload   |-> [m EXCEPT !.sender_id = p, !.is_ack = TRUE]]

\* A message of the network is received and, unless it is an acknowledgement
\* itself, acknowledged before it is recorded anywhere.
Receive(p, m) ==
  /\ pc[p]["receiver"] = "idle"
  /\ [recipient |-> p, payload |-> m] \in net
  /\ net' = net \cup (IF m.is_ack THEN {} ELSE {Ack(p, m)})
  /\ payload' = [payload EXCEPT ![p]["receiver"] = m]
  /\ pc' = [pc EXCEPT ![p]["receiver"] = "insert"]
  /\ UNCHANGED <<setVars, mtx, cursor, enqueued_messages>>

----------------------------------------------------------------------------
(* broadcast_messages. *)

\* The next packet is started. construct_payload copies vector_clock without
\* locking mtx: the copy begins here and ends in ConstructEnd.
ConstructBegin(p) ==
  /\ pc[p]["enqueuer"] = "idle"
  /\ enqueued_messages[p] < msgs_to_send_count[p]
  /\ enqueued_messages' = [enqueued_messages EXCEPT ![p] = @ + 1]
  /\ payload' = [payload EXCEPT ![p]["enqueuer"] =
       [sender_id |-> p, owner_id |-> p,
        packet_uid |-> enqueued_messages[p] + 1,
        vector_clock |-> vector_clock[p], is_ack |-> FALSE]]
  /\ pc' = [pc EXCEPT ![p]["enqueuer"] = "copy"]
  /\ UNCHANGED <<setVars, mtx, cursor, net>>

\* Clock c counts at most what d counts.
NotAfter(c, d) == \A q \in Proc : c[q] <= d[q]

\* Fault: entries left over from before the copy.
CopiedFromBefore(p, c) == NotAfter(c, vector_clock[p])

\* Each entry copied is some value that entry had while the copy ran.
Copied(p, c) ==
  NotAfter(payload[p]["enqueuer"].vector_clock, c) /\ NotAfter(c, vector_clock[p])

ConstructEnd(p) ==
  /\ pc[p]["enqueuer"] = "copy"
  /\ \E c \in Clock :
       /\ Copied(p, c)
       /\ payload' = [payload EXCEPT ![p]["enqueuer"].vector_clock = c]
  /\ pc' = [pc EXCEPT ![p]["enqueuer"] = "check"]
  /\ UNCHANGED <<setVars, mtx, cursor, enqueued_messages, net>>

----------------------------------------------------------------------------
(* uniform_reliable_broadcast, called by both threads. *)

\* Fault: was_seen asks about the sender instead of this process.
WasSeenBySender(p, m) == m.packet_uid \in acked[p][m.sender_id][m.owner_id]

WasSeen(p, m) == m.packet_uid \in acked[p][p][m.owner_id]

Finish(p, t) ==
  /\ pc' = [pc EXCEPT ![p][t] = "idle"]
  /\ payload' = [payload EXCEPT ![p][t] = NoPayload]

\* was_seen answers true: nothing to relay.
SkipSeen(p, t) ==
  /\ pc[p][t] = "check"
  /\ mtx[p] = "free"
  /\ WasSeen(p, payload[p][t])
  /\ Finish(p, t)
  /\ UNCHANGED <<setVars, mtx, cursor, enqueued_messages, net>>

\* Fault: a relayed packet stamped with the clock of the relaying process.
CopiesRestamped(p, m) ==
  {[recipient |-> q, payload |-> [m EXCEPT !.vector_clock = vector_clock[p]]] :
     q \in Proc \ {p}}

\* Fault: packets of other owners not relayed.
CopiesOwnOnly(p, m) ==
  {[recipient |-> q, payload |-> m] : q \in {r \in Proc \ {p} : m.owner_id = p}}

\* A copy of m, its is_ack flag and its clock included, for each other host.
Copies(p, m) == {[recipient |-> q, payload |-> m] : q \in Proc \ {p}}

\* Fault: the packet relayed before it is marked as seen.
RelayBeforeMark(p, t) ==
  /\ pc[p][t] = "check"
  /\ mtx[p] = "free"
  /\ ~WasSeen(p, payload[p][t])
  /\ payload' = [payload EXCEPT ![p][t].sender_id = p]
  /\ net' = net \cup Copies(p, payload'[p][t])
  /\ pc' = [pc EXCEPT ![p][t] = "mark"]
  /\ UNCHANGED <<setVars, mtx, cursor, enqueued_messages>>

\* was_seen answers false; mtx is free again until mark_as_seen locks it.
RelayUnseen(p, t) ==
  /\ pc[p][t] = "check"
  /\ mtx[p] = "free"
  /\ ~WasSeen(p, payload[p][t])
  /\ payload' = [payload EXCEPT ![p][t].sender_id = p]
  /\ pc' = [pc EXCEPT ![p][t] = "mark"]
  /\ UNCHANGED <<setVars, mtx, cursor, enqueued_messages, net>>

BestEffortBroadcast(p, t) ==
  /\ pc[p][t] = "send"
  /\ net' = net \cup Copies(p, payload[p][t])
  /\ Finish(p, t)
  /\ UNCHANGED <<setVars, mtx, cursor, enqueued_messages>>

----------------------------------------------------------------------------
ThreadStep(p, t) ==
  \/ Insert(p, t)
  \/ Deliver(p, t)
  \/ InsertReturn(p, t)
  \/ SkipSeen(p, t)
  \/ RelayUnseen(p, t)
  \/ BestEffortBroadcast(p, t)

Next ==
  \E p \in Proc :
    \/ \E k \in net : Receive(p, k.payload)
    \/ ConstructBegin(p)
    \/ ConstructEnd(p)
    \/ \E t \in Thread : ThreadStep(p, t)

Spec == Init /\ [][Next]_vars

----------------------------------------------------------------------------
(* Properties. *)

\* Process s has packet u of o: marked as seen, or in the hands of a thread.
Holds(s, o, u) ==
  \/ u \in acked[s][s][o]
  \/ \E t \in Thread : /\ pc[s][t] # "idle"
                       /\ payload[s][t].owner_id = o
                       /\ payload[s][t].packet_uid = u

Holders(o, u) == {s \in Proc : Holds(s, o, u)}

\* The deliveries of each process (insert's loop, whichever thread runs it and
\* whichever packet triggered it) follow the order in which each owner
\* broadcast, with no packet skipped and none delivered twice.
FifoDelivery ==
  \A p \in Proc :
    \A i \in DOMAIN deliverable[p] :
      /\ \A v \in 1..(deliverable[p][i].packet_uid - 1) :
           \E j \in 1..(i - 1) :
             deliverable[p][j] = [owner_id |-> deliverable[p][i].owner_id,
                                  packet_uid |-> v]
      /\ \A j \in 1..(i - 1) : deliverable[p][j] # deliverable[p][i]

\* Whatever a process delivers (acked_counter above N div 2) is held by a
\* majority of all processes, so that it survives the crash of any minority,
\* the delivering process included.
UniformDelivery ==
  \A p \in Proc :
    \A i \in DOMAIN deliverable[p] :
      Cardinality(Holders(deliverable[p][i].owner_id,
                          deliverable[p][i].packet_uid)) > N \div 2

\* Every acknowledgement on its way (enqueued by keep_receiving_messages before
\* insert) is addressed to a process that has marked the packet as seen.
\* Otherwise that process would relay the acknowledgement itself, which nobody
\* retransmits, as if it were the packet.
AckAfterSeen ==
  \A k \in net :
    k.payload.is_ack =>
      k.payload.packet_uid \in acked[k.recipient][k.recipient][k.payload.owner_id]

\* For a packet not yet delivered, acked_counter is the number of processes
\* known to have it, and undelivered has its payload exactly when that number
\* is not zero: a packet that reaches the majority is never a null pointer.
CounterMatchesAcks ==
  \A p, o \in Proc, u \in Uid :
    u >= received_up_to[p][o] =>
      /\ acked_counter[p][o][u] =
           Cardinality({s \in Proc : u \in acked[p][s][o]})
      /\ u \in undelivered[p][o] <=> acked_counter[p][o][u] > 0

\* insert never returns too early: when mtx is free, the next packet of an owner
\* that nobody else affects is not known to be at a majority, for otherwise it
\* would have been delivered, in whatever order packets and acknowledgements
\* came and whichever of them started the loop.
NothingLeftWaiting ==
  \A p, o \in Proc :
    mtx[p] = "free" /\ Dependencies(o) = {o} =>
      Cardinality({s \in Proc : received_up_to[p][o] \in acked[p][s][o]})
        <= N \div 2

\* construct_payload copies the clock while the receiver increments it, so that
\* it may be a mixture of two. Still no packet counts a delivery its owner has not
\* made, a later packet of an owner counts all that an earlier one does, and the
\* copies of one packet, whoever relayed or acknowledged them, agree.
ClocksGrow ==
  \A k \in net :
    LET m == k.payload
    IN  /\ NotAfter(m.vector_clock, vector_clock[m.owner_id])
        /\ \A l \in net :
             l.payload.owner_id = m.owner_id /\ l.payload.packet_uid >= m.packet_uid
               => NotAfter(m.vector_clock, l.payload.vector_clock)

\* The clock its owner gave to packet u of o, on any copy of it.
PacketClock(o, u) ==
  (CHOOSE k \in net : k.payload.owner_id = o /\ k.payload.packet_uid = u)
    .payload.vector_clock

\* README.md, Localized Causal Broadcast: what the owner had delivered from the
\* processes that affect it when it made its packet (the clock the packet
\* carries) comes before the packet at every process.
CausalDelivery ==
  \A p \in Proc :
    \A i \in DOMAIN deliverable[p] :
      LET o == deliverable[p][i].owner_id
          c == PacketClock(o, deliverable[p][i].packet_uid)
      IN  \A d \in Dependencies(o) :
            \A v \in 1..c[d] :
              \E j \in 1..(i - 1) :
                deliverable[p][j] = [owner_id |-> d, packet_uid |-> v]

FU == INSTANCE FifoUrb WITH
        sent    <- enqueued_messages,
        holders <- [o \in Proc |-> [u \in Uid |-> Holders(o, u)]],
        log     <- deliverable

\* The threads, the counters and the network implement FIFO uniform reliable
\* broadcast: a thread's step is a broadcast, the spread of one packet to one
\* process, one delivery, or nothing.
ImplementsFifoUrb == FU!Spec
=============================================================================
