------------------------------ MODULE TcpLink ------------------------------
(***************************************************************************)
(* The link layer of one C++ process (tcp.cpp, broadcast.cpp): a sender    *)
(* thread and a retransmitter thread that pass messages to each other      *)
(* through sending_queue and retrans_queue, over UDP that loses, repeats   *)
(* and reorders datagrams. The enqueuer broadcasts packets 1, 2, ... to    *)
(* all peers; the receiver acknowledges and relays the packets of peers    *)
(* and records acknowledgements. Both run uniform_reliable_broadcast, one  *)
(* locked call at a time: the sender may send what they have enqueued      *)
(* before they go on. A datagram is the payload decoded from it, which is  *)
(* the one encoded (CodecProofs), without its text and its clock. The      *)
(* queues are atomic here (SafeQueue).                                     *)
(***************************************************************************)
EXTENDS Integers, FiniteSets, SequencesExt, SequenceParts

CONSTANTS
  Self, Peer,          \* ids of this process and of the others
  Live,                \* peers that do not crash
  msgs_to_send_count,  \* packets to broadcast
  Foreign,             \* owner and uid of packets of peers
  SENDING_CHUNK_SIZE,  \* no new packets while sending_queue is that long
  Batch,               \* packets enqueued at a time, SENDING_CHUNK_SIZE / 10
  MaxCopies            \* bound: packets that arrive from peers, repetitions included

ASSUME PeerAssumption ==
  /\ IsFiniteSet(Peer) /\ Peer # {} /\ Peer \subseteq Nat
  /\ Live \subseteq Peer /\ Self \notin Peer
ASSUME BoundsAssumption ==
  /\ msgs_to_send_count \in Nat
  /\ SENDING_CHUNK_SIZE \in Nat \ {0}
  /\ Batch \in Nat \ {0}
  /\ MaxCopies \in Nat
  /\ Foreign \subseteq Peer \X Nat

\* The threads that broadcast.
Thread == {"enqueuer", "receiver"}

\* Packets are known by owner and uid.
Packets == ({Self} \X (1..msgs_to_send_count)) \cup Foreign

\* The payload of a packet as it leaves process s.
Payload(packet, s, is_ack) ==
  [packet_uid |-> packet[2], sender_id |-> s, owner_id |-> packet[1], is_ack |-> is_ack]

NoPayload == Payload(<<0, 0>>, 0, FALSE)

PacketOf(p) == <<p.owner_id, p.packet_uid>>

Payloads == {Payload(k, s, a) : k \in Packets, s \in Peer \cup {Self}, a \in BOOLEAN}

Message == [recipient : Peer, payload : Payloads]

VARIABLES
  enqueued_messages,  \* packets the enqueuer has constructed
  enqueue_until,      \* end of the current batch
  pc,                 \* where a thread is
  payload,            \* the payload in a thread's hands
  todo,               \* peers best_effort_broadcast still has to give a copy
  sending_queue,
  retrans_queue,
  sending,            \* the message in the sender's hands, in a sequence
  retransmitting,     \* the message the retransmitter waits with, likewise
  wire,               \* acknowledgements on their way to this process
  spread,             \* packets the peers have
  copies_received,    \* packets that have arrived from peers
  seen,               \* packets marked as seen: broadcast or relayed
  acked               \* acked[q]: packets known to be at q

batch == <<enqueued_messages, enqueue_until>>
threads == <<pc, payload, todo>>
queues == <<sending_queue, retrans_queue, sending, retransmitting>>
network == <<wire, spread, copies_received>>
delivered == <<seen, acked>>
vars == <<batch, threads, queues, network, delivered>>

TypeOK ==
  /\ enqueued_messages \in 0..msgs_to_send_count
  /\ enqueue_until \in 0..msgs_to_send_count
  /\ pc \in [Thread -> {"idle", "insert", "check", "mark", "send"}]
  /\ payload \in [Thread -> Payloads \cup {NoPayload}]
  /\ todo \in [Thread -> SUBSET Peer]
  /\ sending_queue \in Seq(Message)
  /\ retrans_queue \in Seq(Message)
  /\ sending \in {<<>>} \cup {<<m>> : m \in Message}
  /\ retransmitting \in {<<>>} \cup {<<m>> : m \in Message}
  /\ wire \in SUBSET Payloads
  /\ spread \in SUBSET Packets
  /\ copies_received \in 0..MaxCopies
  /\ seen \in SUBSET Packets
  /\ acked \in [Peer -> SUBSET Packets]

Init ==
  /\ enqueued_messages = 0
  /\ enqueue_until = 0
  /\ pc = [t \in Thread |-> "idle"]
  /\ payload = [t \in Thread |-> NoPayload]
  /\ todo = [t \in Thread |-> {}]
  /\ sending_queue = <<>>
  /\ retrans_queue = <<>>
  /\ sending = <<>>
  /\ retransmitting = <<>>
  /\ wire = {}
  /\ spread = Foreign
  /\ copies_received = 0
  /\ seen = {}
  /\ acked = [q \in Peer |-> {}]

----------------------------------------------------------------------------
(* broadcast_messages: the enqueuer. *)

\* Fault: the last batch not cut short.
BatchEndUncapped == enqueued_messages + Batch

BatchEnd == Min({enqueued_messages + Batch, msgs_to_send_count})

\* Fault: new packets only when all earlier ones are acknowledged.
GateWhenAllDone == sending_queue \o retrans_queue \o sending \o retransmitting = <<>>

Gate == Len(sending_queue) < SENDING_CHUNK_SIZE

\* A batch begins only while sending_queue is short.
BeginBatch ==
  /\ pc["enqueuer"] = "idle"
  /\ enqueued_messages = enqueue_until
  /\ enqueued_messages < msgs_to_send_count
  /\ Gate
  /\ enqueue_until' = BatchEnd
  /\ UNCHANGED <<enqueued_messages, threads, queues, network, delivered>>

\* The next packet of the batch is constructed.
EnqueuePacket ==
  /\ pc["enqueuer"] = "idle"
  /\ enqueued_messages < enqueue_until
  /\ enqueued_messages' = enqueued_messages + 1
  /\ pc' = [pc EXCEPT !["enqueuer"] = "check"]
  /\ payload' = [payload EXCEPT
       !["enqueuer"] = Payload(<<Self, enqueued_messages'>>, Self, FALSE)]
  /\ UNCHANGED <<enqueue_until, todo, queues, network, delivered>>

----------------------------------------------------------------------------
(* keep_receiving_messages: the receiver. *)

Ack(p) == [recipient |-> p.sender_id, payload |-> [p EXCEPT !.is_ack = TRUE]]

\* A datagram is received. A packet is acknowledged at once (the copy keeps the
\* sender until the sender thread changes it): the acknowledgement may leave
\* before the packet is recorded.
Receive(p) ==
  /\ pc["receiver"] = "idle"
  /\ pc' = [pc EXCEPT !["receiver"] = "insert"]
  /\ payload' = [payload EXCEPT !["receiver"] = p]
  /\ sending_queue' = IF p.is_ack THEN sending_queue ELSE Append(sending_queue, Ack(p))
  /\ UNCHANGED <<batch, todo, retrans_queue, sending, retransmitting, delivered>>

\* A packet arrives that the peers have: one of theirs, or one of this process
\* that they relay, from any of them and any number of times.
CopyReceived(q, k) ==
  /\ k \in spread
  /\ copies_received < MaxCopies
  /\ copies_received' = copies_received + 1
  /\ Receive(Payload(k, q, FALSE))
  /\ UNCHANGED <<wire, spread>>

\* An acknowledgement arrives; the datagram may come again.
AckReceived(q, k) ==
  /\ Payload(k, q, TRUE) \in wire
  /\ Receive(Payload(k, q, TRUE))
  /\ UNCHANGED network

\* insert records that the sender has the packet.
Insert ==
  LET p == payload["receiver"]
  IN  /\ pc["receiver"] = "insert"
      /\ acked' = [acked EXCEPT ![p.sender_id] = @ \cup {PacketOf(p)}]
      /\ pc' = [pc EXCEPT !["receiver"] = "check"]
      /\ UNCHANGED <<batch, payload, todo, queues, network, seen>>

----------------------------------------------------------------------------
(* uniform_reliable_broadcast, in either thread. *)

\* Fault: was_seen asked about the sender instead of this process.
WasSeenBySender(p) == p.sender_id \in Peer /\ PacketOf(p) \in acked[p.sender_id]

WasSeen(p) == PacketOf(p) \in seen

\* Nothing to do: the thread goes on.
SkipSeen(t) ==
  /\ pc[t] = "check" /\ WasSeen(payload[t])
  /\ pc' = [pc EXCEPT ![t] = "idle"]
  /\ payload' = [payload EXCEPT ![t] = NoPayload]
  /\ UNCHANGED <<batch, todo, queues, network, delivered>>

\* The packet is new; it will leave with this process as its sender.
FoundUnseen(t) ==
  /\ pc[t] = "check" /\ ~WasSeen(payload[t])
  /\ pc' = [pc EXCEPT ![t] = "mark"]
  /\ payload' = [payload EXCEPT ![t].sender_id = Self]
  /\ UNCHANGED <<batch, todo, queues, network, delivered>>

MarkAsSeen(t) ==
  /\ pc[t] = "mark"
  /\ seen' = seen \cup {PacketOf(payload[t])}
  /\ pc' = [pc EXCEPT ![t] = "send"]
  /\ todo' = [todo EXCEPT ![t] = Peer]
  /\ UNCHANGED <<batch, payload, queues, network, acked>>

\* One turn of the loop of best_effort_broadcast, which goes through the nodes
\* in the order of their ids.
SendCopy(t) ==
  LET q == Min(todo[t])
  IN  /\ pc[t] = "send"
      /\ sending_queue' = Append(sending_queue, [recipient |-> q, payload |-> payload[t]])
      /\ todo' = [todo EXCEPT ![t] = @ \ {q}]
      /\ pc' = [pc EXCEPT ![t] = IF todo[t] = {q} THEN "idle" ELSE "send"]
      /\ payload' = [payload EXCEPT ![t] = IF todo[t] = {q} THEN NoPayload ELSE @]
      /\ UNCHANGED <<batch, retrans_queue, sending, retransmitting, network, delivered>>

UniformReliableBroadcast(t) ==
  SkipSeen(t) \/ FoundUnseen(t) \/ MarkAsSeen(t) \/ SendCopy(t)

Enqueuer == BeginBatch \/ EnqueuePacket \/ UniformReliableBroadcast("enqueuer")

\* What the receiver does with the payload it has.
Receiver == Insert \/ UniformReliableBroadcast("receiver")

----------------------------------------------------------------------------
(* keep_sending_messages_from_queue. *)

\* The message with this process as its sender.
Stamped(m) == [m EXCEPT !.payload.sender_id = Self]

SenderDequeue ==
  /\ sending = <<>>
  /\ sending_queue # <<>>
  /\ sending' = <<Stamped(Head(sending_queue))>>
  /\ sending_queue' = Tail(sending_queue)
  /\ UNCHANGED <<batch, threads, retrans_queue, retransmitting, network, delivered>>

\* Fault: the two kinds of messages mixed up.
NeedsRetransmissionSwapped(m) == m.payload.is_ack

NeedsRetransmission(m) == ~m.payload.is_ack

\* An acknowledgement is freed when it is sent, a packet is kept. (If the peer is
\* unreachable nobody notices. Any other error ends the process, which then takes
\* no more steps.)
SenderSend(m) ==
  /\ sending = <<m>>
  /\ sending' = <<>>
  /\ retrans_queue' = IF NeedsRetransmission(m) THEN Append(retrans_queue, m)
                                                ELSE retrans_queue
  /\ UNCHANGED <<batch, threads, sending_queue, retransmitting, copies_received, delivered>>

\* The datagram is lost, or it is an acknowledgement: what peers do with those is
\* not followed.
SendLost(m) == SenderSend(m) /\ UNCHANGED <<wire, spread>>

\* A peer, which runs the same program, receives the packet and relays it; its
\* acknowledgement is lost, or on its way. (That may take any time, so the
\* datagram to the peer need take none.)
PeerReceives(m) ==
  LET k == PacketOf(m.payload)
  IN  /\ SenderSend(m)
      /\ ~m.payload.is_ack
      /\ spread' = spread \cup {k}
      /\ \/ UNCHANGED wire
         \/ wire' = wire \cup {Payload(k, m.recipient, TRUE)}

Sender ==
  \/ SenderDequeue
  \/ \E i \in DOMAIN sending : SendLost(sending[i]) \/ PeerReceives(sending[i])

----------------------------------------------------------------------------
(* keep_retransmitting_messages. *)

\* Fault: any acknowledgement taken for the one of the recipient.
AlreadyDeliveredAnywhere(m) == \E q \in Peer : PacketOf(m.payload) \in acked[q]

AlreadyDelivered(m) == PacketOf(m.payload) \in acked[m.recipient]

\* The next message is freed if its recipient has acknowledged it; otherwise
\* the thread waits with it until it is time to retransmit.
RetransmitterDequeue ==
  /\ retransmitting = <<>>
  /\ retrans_queue # <<>>
  /\ retrans_queue' = Tail(retrans_queue)
  /\ retransmitting' = IF AlreadyDelivered(Head(retrans_queue)) THEN <<>>
                       ELSE <<Head(retrans_queue)>>
  /\ UNCHANGED <<batch, threads, sending_queue, sending, network, delivered>>

\* RETRANSMISSION_OFFSET_MS has passed.
RetransmitterEnqueue ==
  /\ retransmitting # <<>>
  /\ sending_queue' = sending_queue \o retransmitting
  /\ retransmitting' = <<>>
  /\ UNCHANGED <<batch, threads, retrans_queue, sending, network, delivered>>

Retransmitter == RetransmitterDequeue \/ RetransmitterEnqueue

----------------------------------------------------------------------------
Next ==
  \/ Enqueuer
  \/ Receiver
  \/ Sender
  \/ Retransmitter
  \/ \E q \in Peer, k \in Packets :
       CopyReceived(q, k) \/ AckReceived(q, k)

Spec == Init /\ [][Next]_vars

\* Packet k is sent to peer q, and its acknowledgement is on its way.
Answered(q, k) ==
  /\ PeerReceives([recipient |-> q, payload |-> Payload(k, Self, FALSE)])
  /\ Payload(k, q, TRUE) \in wire'

\* The threads go on; a datagram sent again and again arrives, and so does its
\* answer. The enqueuer finds sending_queue short if it is short again and
\* again: it looks all the time, and between two retransmissions of a message
\* RETRANSMISSION_OFFSET_MS pass.
Fairness ==
  /\ SF_vars(Enqueuer)
  /\ WF_vars(Receiver)
  /\ WF_vars(Sender)
  /\ WF_vars(Retransmitter)
  /\ \A q \in Live :
       /\ SF_vars(\E k \in Packets \ acked[q] : Answered(q, k))
       /\ SF_vars(\E k \in Packets \ acked[q] : AckReceived(q, k))

LiveSpec == Spec /\ Fairness

----------------------------------------------------------------------------
(* Properties. *)

\* The messages that are packet k for peer q, whoever is named as their sender.
CopyOf(q, k) ==
  [recipient : {q}, payload : {Payload(k, s, FALSE) : s \in Peer \cup {Self}}]

\* 1 if thread t has still to make the copy of packet k for peer q.
StillToSend(t, q, k) == IF q \in todo[t] /\ PacketOf(payload[t]) = k THEN 1 ELSE 0

\* How often packet k for peer q is in one of the two queues, in the hands of
\* sender and retransmitter, or about to be made.
InCirculation(q, k) ==
  Occurrences(sending_queue, CopyOf(q, k)) + Occurrences(retrans_queue, CopyOf(q, k))
    + Occurrences(sending, CopyOf(q, k)) + Occurrences(retransmitting, CopyOf(q, k))
    + StillToSend("enqueuer", q, k) + StillToSend("receiver", q, k)

\* However the threads pass it on, from the moment a packet is marked as seen
\* one of them or of their queues has it for each peer, or is about to, until
\* the peer is known to have it, and no two ever do; also when the packet comes
\* back from a peer, or is known to be there, while its copies are being made.
OneCopy ==
  \A q \in Peer, k \in Packets :
    /\ InCirculation(q, k) <= 1
    /\ k \in seen \ acked[q] => InCirculation(q, k) = 1
    /\ k \notin seen => InCirculation(q, k) = 0

\* The receiver has packet k in its hands, and goes on to mark it if need be.
InHand(k) == pc["receiver"] # "idle" /\ PacketOf(payload["receiver"]) = k

\* The receiver is about to record that peer q has packet k.
Inserting(q, k) ==
  pc["receiver"] = "insert" /\ payload["receiver"].sender_id = q /\ InHand(k)

\* What the sender sends is true, whoever sent a payload first and whichever
\* queue it went through: it names this process as the sender, so that it is
\* counted as its own; a packet is one marked as seen; and an acknowledgement,
\* which may overtake what the receiver does with the packet, is for a packet
\* marked as seen or still in the receiver's hands, and goes to a peer that is
\* recorded to have the packet or is about to be.
HonestDatagrams ==
  \A i \in DOMAIN sending :
    LET q == sending[i].recipient
        k == PacketOf(sending[i].payload)
    IN  /\ sending[i].payload.sender_id = Self
        /\ sending[i].payload.is_ack => /\ k \in seen \/ InHand(k)
                                        /\ k \in acked[q] \/ Inserting(q, k)
        /\ ~sending[i].payload.is_ack => k \in seen

\* Every packet broadcast or relayed reaches every live peer and is known to
\* have, whatever is lost on the way, also when packets to a crashed peer go
\* round for ever. (Both sets only grow.)
AllAcked == []<>(\A q \in Live : seen \subseteq acked[q])

\* Copies that nobody will acknowledge and that go round for ever.
Unanswered == {k \in (Peer \ Live) \X seen : k[2] \notin acked[k[1]]}

\* The enqueuer broadcasts all packets unless more copies for crashed peers go
\* round for ever than a short sending_queue may hold: acknowledgements, copies
\* for live peers, and as many copies for crashed ones as the queue may hold
\* never keep it from going on, however long the queue becomes at times.
AllBroadcast ==
  \/ <>(enqueued_messages = msgs_to_send_count)
  \/ <>[](Cardinality(Unanswered) > SENDING_CHUNK_SIZE)
=============================================================================
