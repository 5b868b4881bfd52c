---------------------------- MODULE LinkInvariant ----------------------------
(* The inductive invariant of TcpLink.                                     *)
EXTENDS TcpLink

\* An acknowledgement of packet k for peer q is true: the packet is marked as
\* seen or in the receiver's hands, and q is known to have it or about to be.
Vouched(q, k) == (k \in seen \/ InHand(k)) /\ (k \in acked[q] \/ Inserting(q, k))

\* A message that is true: of a packet marked as seen, or a true acknowledgement.
IsTrue(m) ==
  LET k == PacketOf(m.payload)
  IN  IF m.payload.is_ack THEN Vouched(m.recipient, k) ELSE k \in seen

\* What sender and retransmitter have and pass on is true; what the sender has
\* taken names this process; the retransmitter only gets packets.
TrueInHand ==
  /\ sending_queue \in Seq(Message) /\ retrans_queue \in Seq(Message)
  /\ sending \in {<<>>} \cup {<<m>> : m \in Message}
  /\ retransmitting \in {<<>>} \cup {<<m>> : m \in Message}
  /\ \A i \in DOMAIN sending_queue : IsTrue(sending_queue[i])
  /\ \A i \in DOMAIN sending : IsTrue(sending[i]) /\ sending[i].payload.sender_id = Self
  /\ \A i \in DOMAIN retrans_queue :
       IsTrue(retrans_queue[i]) /\ ~retrans_queue[i].payload.is_ack
  /\ \A i \in DOMAIN retransmitting :
       IsTrue(retransmitting[i]) /\ ~retransmitting[i].payload.is_ack

\* What is on its way are acknowledgements of peers for packets sent to them; the
\* peers have packets of this process from it.
TrueOnWire ==
  /\ wire \in SUBSET Payloads
  /\ \A p \in wire : p.sender_id \in Peer /\ p.is_ack /\ PacketOf(p) \in seen
  /\ spread \in SUBSET Packets
  /\ \A k \in spread : k[1] = Self => k \in seen
  /\ copies_received \in 0..MaxCopies

\* The packets of this process that are marked as seen have been constructed.
OwnPackets ==
  /\ enqueued_messages \in 0..enqueue_until
  /\ enqueue_until \in 0..msgs_to_send_count
  /\ seen \in SUBSET Packets
  /\ acked \in [Peer -> SUBSET Packets]
  /\ \A k \in seen : k[1] = Self => k[2] \in 1..enqueued_messages

\* What a thread has in its hands while it runs uniform_reliable_broadcast.
BroadcastWork(t) ==
  /\ IF pc[t] = "idle" THEN payload[t] = NoPayload ELSE payload[t] \in Payloads
  /\ pc[t] # "send" => todo[t] = {}
  /\ pc[t] \in {"mark", "send"} => payload[t].sender_id = Self /\ ~payload[t].is_ack
  /\ pc[t] = "mark" => PacketOf(payload[t]) \notin seen
  /\ pc[t] = "send" => PacketOf(payload[t]) \in seen /\ todo[t] # {}

\* The enqueuer has the packet it has last constructed, unseen until it marks it.
EnqueuerWork ==
  /\ pc["enqueuer"] # "insert"
  /\ pc["enqueuer"] # "idle" =>
       payload["enqueuer"] = Payload(<<Self, enqueued_messages>>, Self, FALSE)
  /\ pc["enqueuer"] = "check" => PacketOf(payload["enqueuer"]) \notin seen

\* The receiver has what a peer has sent: a packet of this process, or an
\* acknowledgement, only for one marked as seen; so it relays packets of peers
\* only, and never what the enqueuer broadcasts.
ReceiverWork ==
  LET p == payload["receiver"]
  IN  /\ pc["receiver"] \in {"insert", "check"} =>
           /\ p.sender_id \in Peer
           /\ p.is_ack \/ p.owner_id = Self => PacketOf(p) \in seen
      /\ pc["receiver"] \in {"mark", "send"} => p.owner_id # Self

ThreadWork ==
  /\ pc \in [Thread -> {"idle", "insert", "check", "mark", "send"}]
  /\ payload \in [Thread -> Payloads \cup {NoPayload}]
  /\ todo \in [Thread -> SUBSET Peer]
  /\ \A t \in Thread : BroadcastWork(t)
  /\ EnqueuerWork
  /\ ReceiverWork

LinkInv ==
  /\ ThreadWork
  /\ TrueInHand
  /\ TrueOnWire
  /\ OwnPackets
  /\ OneCopy
=============================================================================
