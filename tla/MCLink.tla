------------------------------- MODULE MCLink -------------------------------
(* TcpLink for TLC: packets of a peer; and Codec for small payloads. *)
EXTENDS LinkInvariant, Codec

\* One packet of process 3.
Tenth == {<<3, 10>>}

----------------------------------------------------------------------------
(* What is not looked at, so that the rest is small enough. *)

\* A crashed peer has crashed before it receives anything.
CrashedAtOnce ==
  (\E m \in Range(sending) : sending' = <<>> /\ m.recipient \notin Live)
    => UNCHANGED <<wire, spread>>

\* An acknowledgement that is recorded does not arrive again: nothing comes of it.
NothingRepeated ==
  LET p == payload'["receiver"]
  IN  payload["receiver"] = NoPayload /\ p.is_ack => PacketOf(p) \notin acked[p.sender_id]

\* Threads that construct a packet, look whether one is new, which only they can
\* mark as seen, or record an acknowledgement, which might as well arrive later.
Ready ==
  {t \in Thread :
     \/ pc[t] = "check"
     \/ t = "enqueuer" /\ pc[t] = "idle" /\ enqueued_messages < enqueue_until
     \/ t = "receiver" /\ pc[t] = "insert" /\ payload[t].is_ack}

\* Packets in the sender's hands are sent, and those that are acknowledged are
\* freed when their turn comes.
Passing ==
  \/ \E m \in Range(sending) : ~m.payload.is_ack
  \/ retransmitting = <<>> /\ retrans_queue # <<>> /\ AlreadyDelivered(Head(retrans_queue))

\* These steps come before all others: no step of another thread depends on when
\* they are taken, or only as it would if the sender were slower, or the datagram.
LocalFirst ==
  IF Ready # {} THEN \E t \in Ready : pc'[t] # pc[t]
  ELSE Passing => sending' # sending \/ retrans_queue' # retrans_queue

----------------------------------------------------------------------------
\* Numbers of one, two and three bytes, and texts of any length up to two.
SmallPayloads(vc_size) ==
  [packet_uid : {0, 1, 255, 256, 70000}, sender_id : {1, 300}, owner_id : {2},
   is_ack : BOOLEAN, buffer : {<<>>, <<49>>, <<49, 48>>},
   vector_clock : [0..(vc_size - 1) -> {0, 256}]]

\* What CodecProofs proves for all payloads.
ASSUME CodecAssumption ==
  \A vc_size \in 0..3 : \A p \in SmallPayloads(vc_size) :
    decode_udp_payload(encode_udp_payload(p, vc_size), vc_size) = p
=============================================================================
