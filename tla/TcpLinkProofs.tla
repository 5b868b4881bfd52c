--------------------------- MODULE TcpLinkProofs ---------------------------
(* LinkInv is an invariant of TcpLink, for any peers, whichever of them    *)
(* live, any packets and any bounds.                                       *)
EXTENDS LinkInvariant, SequencePartsProofs

----------------------------------------------------------------------------
(* Payloads and messages. *)

\* A payload is known by its packet, its sender and its kind.
LEMMA PayloadIs ==
  \A m : m \in Payloads <=>
    /\ PacketOf(m) \in Packets
    /\ m.sender_id \in Peer \cup {Self}
    /\ m.is_ack \in BOOLEAN
    /\ m = Payload(PacketOf(m), m.sender_id, m.is_ack)
<1>1. \A k \in Packets : k = <<k[1], k[2]>>
  BY BoundsAssumption DEF Packets
<1> SUFFICES ASSUME NEW m
             PROVE  m \in Payloads <=>
                      /\ PacketOf(m) \in Packets
                      /\ m.sender_id \in Peer \cup {Self}
                      /\ m.is_ack \in BOOLEAN
                      /\ m = Payload(PacketOf(m), m.sender_id, m.is_ack)
  OBVIOUS
<1>2. ASSUME m \in Payloads
      PROVE  /\ PacketOf(m) \in Packets
             /\ m.sender_id \in Peer \cup {Self}
             /\ m.is_ack \in BOOLEAN
             /\ m = Payload(PacketOf(m), m.sender_id, m.is_ack)
  <2>1. PICK k \in Packets, s \in Peer \cup {Self}, a \in BOOLEAN : m = Payload(k, s, a)
    BY <1>2 DEF Payloads
  <2>2. PacketOf(m) = k /\ m.sender_id = s /\ m.is_ack = a
    BY <1>1, <2>1 DEF Payload, PacketOf
  <2> QED
    BY <2>1, <2>2
<1> QED
  BY <1>2 DEF Payloads

\* A message is known by its recipient and its payload.
LEMMA MessageIs ==
  \A m : m \in Message <=>
    /\ m = [recipient |-> m.recipient, payload |-> m.payload]
    /\ m.recipient \in Peer
    /\ m.payload \in Payloads
BY DEF Message, Payloads

\* The messages that are a given packet for a given peer.
LEMMA CopyIs ==
  ASSUME NEW q \in Peer, NEW k \in Packets, NEW m \in Message
  PROVE  m \in CopyOf(q, k) <=>
           m.recipient = q /\ PacketOf(m.payload) = k /\ ~m.payload.is_ack
<1>1. /\ m = [recipient |-> m.recipient, payload |-> m.payload]
      /\ m.payload \in Payloads
  BY MessageIs
<1>2. /\ m.payload = Payload(PacketOf(m.payload), m.payload.sender_id, m.payload.is_ack)
      /\ m.payload.sender_id \in Peer \cup {Self}
      /\ m.payload.is_ack \in BOOLEAN
  BY <1>1, PayloadIs
<1>3. k = <<k[1], k[2]>>
  BY BoundsAssumption DEF Packets
<1>4. ASSUME m \in CopyOf(q, k)
      PROVE  m.recipient = q /\ PacketOf(m.payload) = k /\ ~m.payload.is_ack
  <2>1. PICK s \in Peer \cup {Self} : m.payload = Payload(k, s, FALSE)
    BY <1>4 DEF CopyOf
  <2> QED
    BY <1>3, <1>4, <2>1 DEF CopyOf, Payload, PacketOf
<1>5. ASSUME m.recipient = q, PacketOf(m.payload) = k, ~m.payload.is_ack
      PROVE  m \in CopyOf(q, k)
  <2>1. m.payload = Payload(k, m.payload.sender_id, FALSE)
    BY <1>2, <1>5
  <2> QED
    BY <1>1, <1>2, <1>5, <2>1 DEF CopyOf
<1> QED
  BY <1>4, <1>5

\* The parts of a payload and of a message that is made of a peer and a payload.
LEMMA PayloadParts ==
  ASSUME NEW k \in Packets, NEW s, NEW a
  PROVE  /\ PacketOf(Payload(k, s, a)) = k
         /\ Payload(k, s, a).sender_id = s
         /\ Payload(k, s, a).is_ack = a
<1>1. k = <<k[1], k[2]>>
  BY BoundsAssumption DEF Packets
<1> QED
  BY <1>1 DEF Payload, PacketOf

\* A payload with another sender is the one of the same packet.
LEMMA Restamped ==
  ASSUME NEW p \in Payloads, NEW s \in Peer \cup {Self}
  PROVE  /\ [p EXCEPT !.sender_id = s] = Payload(PacketOf(p), s, p.is_ack)
         /\ [p EXCEPT !.sender_id = s] \in Payloads
         /\ PacketOf([p EXCEPT !.sender_id = s]) = PacketOf(p)
         /\ [p EXCEPT !.sender_id = s].is_ack = p.is_ack
         /\ [p EXCEPT !.sender_id = s].sender_id = s
<1>1. /\ PacketOf(p) \in Packets
      /\ p.is_ack \in BOOLEAN
      /\ p = Payload(PacketOf(p), p.sender_id, p.is_ack)
  BY PayloadIs
<1>2. [p EXCEPT !.sender_id = s] = Payload(PacketOf(p), s, p.is_ack)
  BY <1>1 DEF Payload
<1>3. Payload(PacketOf(p), s, p.is_ack) \in Payloads
  BY <1>1 DEF Payloads
<1> QED
  BY <1>1, <1>2, <1>3, PayloadParts

\* A payload turned into an acknowledgement is the one of the same packet.
LEMMA Acknowledged ==
  ASSUME NEW p \in Payloads
  PROVE  /\ [p EXCEPT !.is_ack = TRUE] \in Payloads
         /\ PacketOf([p EXCEPT !.is_ack = TRUE]) = PacketOf(p)
         /\ [p EXCEPT !.is_ack = TRUE].is_ack
         /\ [p EXCEPT !.is_ack = TRUE].sender_id = p.sender_id
<1> DEFINE r(b) == [p EXCEPT !.is_ack = b]
<1>1. ASSUME NEW b \in BOOLEAN
      PROVE  /\ r(b) \in Payloads
             /\ PacketOf(r(b)) = PacketOf(p)
             /\ r(b).is_ack = b
             /\ r(b).sender_id = p.sender_id
  <2>1. PICK k \in Packets, s \in Peer \cup {Self}, a \in BOOLEAN : p = Payload(k, s, a)
    BY DEF Payloads
  <2>2. r(b) = Payload(k, s, b)
    BY <2>1 DEF Payload
  <2>3. Payload(k, s, b) \in Payloads
    BY DEF Payloads
  <2> HIDE DEF r
  <2> QED
    BY <2>1, <2>2, <2>3, PayloadParts
<1>2. TRUE \in BOOLEAN
  OBVIOUS
<1> HIDE DEF r
<1>3. /\ r(TRUE) \in Payloads
      /\ PacketOf(r(TRUE)) = PacketOf(p)
      /\ r(TRUE).is_ack = TRUE
      /\ r(TRUE).sender_id = p.sender_id
  BY <1>1, <1>2, Zenon
<1> QED
  BY <1>3 DEF r

\* A message sent is the one in hand but for its sender.
LEMMA StampedIs ==
  ASSUME NEW m \in Message
  PROVE  /\ Stamped(m) \in Message
         /\ Stamped(m).recipient = m.recipient
         /\ Stamped(m).payload.sender_id = Self
         /\ Stamped(m).payload.is_ack = m.payload.is_ack
         /\ PacketOf(Stamped(m).payload) = PacketOf(m.payload)
<1>1. /\ m = [recipient |-> m.recipient, payload |-> m.payload]
      /\ m.recipient \in Peer
      /\ m.payload \in Payloads
  BY MessageIs
<1> DEFINE p == [m.payload EXCEPT !.sender_id = Self]
<1>2. Stamped(m) = [recipient |-> m.recipient, payload |-> p]
  BY <1>1 DEF Stamped
<1>3. /\ p \in Payloads
      /\ PacketOf(p) = PacketOf(m.payload)
      /\ p.is_ack = m.payload.is_ack
      /\ p.sender_id = Self
  BY <1>1, Restamped
<1> HIDE DEF p
<1>4. Stamped(m).recipient = m.recipient /\ Stamped(m).payload = p
  BY <1>2
<1>5. Stamped(m) \in Message
  BY <1>1, <1>2, <1>3, <1>4, MessageIs
<1> QED
  BY <1>3, <1>4, <1>5

----------------------------------------------------------------------------
(* What is true stays true. *)

\* The messages that are true, and those of them the retransmitter and the
\* sender have.
True        == {m \in Message : IsTrue(m)}
TruePackets == {m \in True : ~m.payload.is_ack}
TrueOwn     == {m \in True : m.payload.sender_id = Self}

\* TrueInHand, with sets of messages.
HandSets ==
  /\ sending_queue \in Seq(True)
  /\ retrans_queue \in Seq(TruePackets)
  /\ sending \in {<<>>} \cup {<<m>> : m \in TrueOwn}
  /\ retransmitting \in {<<>>} \cup {<<m>> : m \in TruePackets}

\* A sequence of elements of a set.
LEMMA SequenceOf ==
  ASSUME NEW A, NEW B, NEW s \in Seq(A)
  PROVE  (\A i \in DOMAIN s : s[i] \in B) <=> s \in Seq(B)
OBVIOUS

LEMMA HandSetsHold == TrueInHand => HandSets
<1> SUFFICES ASSUME TrueInHand
             PROVE  HandSets
  OBVIOUS
<1> USE DEF TrueInHand
<1>1. \A i \in DOMAIN sending_queue : sending_queue[i] \in True
  BY DEF True
<1>2. \A i \in DOMAIN retrans_queue : retrans_queue[i] \in TruePackets
  BY DEF True, TruePackets
<1>3. sending_queue \in Seq(True) /\ retrans_queue \in Seq(TruePackets)
  BY <1>1, <1>2, SequenceOf
<1>4. sending \in {<<>>} \cup {<<m>> : m \in TrueOwn}
  BY DEF True, TrueOwn
<1>5. retransmitting \in {<<>>} \cup {<<m>> : m \in TruePackets}
  BY DEF True, TruePackets
<1> QED
  BY <1>3, <1>4, <1>5 DEF HandSets

LEMMA HandsFromSets == HandSets => TrueInHand
<1> SUFFICES ASSUME HandSets
             PROVE  TrueInHand
  OBVIOUS
<1> USE DEF HandSets
<1>1. True \subseteq Message /\ \A m \in True : IsTrue(m)
  BY DEF True
<1>2. /\ TruePackets \subseteq True
      /\ \A m \in TruePackets : ~m.payload.is_ack
      /\ TrueOwn \subseteq True
      /\ \A m \in TrueOwn : m.payload.sender_id = Self
  BY DEF TruePackets, TrueOwn
<1>3. /\ sending_queue \in Seq(Message)
      /\ \A i \in DOMAIN sending_queue : IsTrue(sending_queue[i])
  <2>1. \A i \in DOMAIN sending_queue : sending_queue[i] \in True
    BY SequenceOf
  <2> QED
    BY <1>1, <2>1, SequenceOf
<1>4. /\ retrans_queue \in Seq(Message)
      /\ \A i \in DOMAIN retrans_queue :
           IsTrue(retrans_queue[i]) /\ ~retrans_queue[i].payload.is_ack
  <2>1. \A i \in DOMAIN retrans_queue : retrans_queue[i] \in TruePackets
    BY SequenceOf
  <2> QED
    BY <1>1, <1>2, <2>1, SequenceOf
<1>5. /\ sending \in {<<>>} \cup {<<m>> : m \in Message}
      /\ \A i \in DOMAIN sending :
           IsTrue(sending[i]) /\ sending[i].payload.sender_id = Self
  BY <1>1, <1>2
<1>6. /\ retransmitting \in {<<>>} \cup {<<m>> : m \in Message}
      /\ \A i \in DOMAIN retransmitting :
           IsTrue(retransmitting[i]) /\ ~retransmitting[i].payload.is_ack
  BY <1>1, <1>2
<1> QED
  BY <1>3, <1>4, <1>5, <1>6 DEF TrueInHand

\* The same in the next state.
LEMMA HandsFromSetsNext == HandSets' => TrueInHand'
BY HandsFromSets, PTL

\* True messages stay true when what is known grows, and what the receiver has in
\* its hands is not put down before it is known.
LEMMA TrueGrows ==
  ASSUME seen \subseteq seen',
         \A q \in Peer : acked[q] \subseteq acked'[q],
         \A k : InHand(k) => InHand(k)' \/ k \in seen',
         \A q \in Peer : \A k : Inserting(q, k) => Inserting(q, k)' \/ k \in acked'[q]
  PROVE  True \subseteq True' /\ TruePackets \subseteq TruePackets' /\ TrueOwn \subseteq TrueOwn'
<1>1. ASSUME NEW q \in Peer, NEW k, Vouched(q, k)
      PROVE  Vouched(q, k)'
  BY <1>1 DEF Vouched
<1>2. \A m \in Message : m.recipient \in Peer
  BY MessageIs
<1>3. ASSUME NEW m \in Message, IsTrue(m)
      PROVE  IsTrue(m)'
  BY <1>1, <1>2, <1>3 DEF IsTrue
<1>4. True \subseteq True'
  BY <1>3 DEF True
<1> QED
  BY <1>4 DEF TruePackets, TrueOwn

\* The same, when nothing is passed on.
LEMMA HandsKept ==
  ASSUME TrueInHand, UNCHANGED queues,
         seen \subseteq seen',
         \A q \in Peer : acked[q] \subseteq acked'[q],
         \A k : InHand(k) => InHand(k)' \/ k \in seen',
         \A q \in Peer : \A k : Inserting(q, k) => Inserting(q, k)' \/ k \in acked'[q]
  PROVE  TrueInHand'
<1>1. True \subseteq True' /\ TruePackets \subseteq TruePackets' /\ TrueOwn \subseteq TrueOwn'
  BY TrueGrows
<1>2. HandSets
  BY HandSetsHold
<1>3. UNCHANGED <<sending_queue, retrans_queue, sending, retransmitting>>
  BY DEF queues
<1>4. sending_queue \in Seq(True') /\ retrans_queue \in Seq(TruePackets')
  BY <1>1, <1>2 DEF HandSets
<1>5. HandSets'
  BY <1>1, <1>2, <1>3, <1>4 DEF HandSets
<1> QED
  BY <1>5, HandsFromSetsNext

\* What is true does not depend on the queues.
LEMMA NothingKnown ==
  ASSUME UNCHANGED <<pc, payload, seen, acked>>
  PROVE  /\ True' = True /\ TruePackets' = TruePackets /\ TrueOwn' = TrueOwn
<1>1. True' = True
  BY DEF True, IsTrue, Vouched, InHand, Inserting
<1> QED
  BY <1>1 DEF TruePackets, TrueOwn

----------------------------------------------------------------------------
(* Copies counted. *)

\* How often packet k for peer q is in the queues and in the hands of sender and
\* retransmitter.
InQueues(q, k) ==
  Occurrences(sending_queue, CopyOf(q, k)) + Occurrences(retrans_queue, CopyOf(q, k))
    + Occurrences(sending, CopyOf(q, k)) + Occurrences(retransmitting, CopyOf(q, k))

LEMMA CirculationIs ==
  \A q, k : InCirculation(q, k) =
    InQueues(q, k) + StillToSend("enqueuer", q, k) + StillToSend("receiver", q, k)
BY DEF InCirculation, InQueues

LEMMA CirculationIsNext ==
  \A q, k : InCirculation(q, k)' =
    InQueues(q, k)' + StillToSend("enqueuer", q, k)' + StillToSend("receiver", q, k)'
BY DEF InCirculation, InQueues

\* The numbers of copies are numbers.
LEMMA CountsAreNumbers ==
  ASSUME TrueInHand, NEW q \in Peer, NEW k \in Packets
  PROVE  /\ Occurrences(sending_queue, CopyOf(q, k)) \in Nat
         /\ Occurrences(retrans_queue, CopyOf(q, k)) \in Nat
         /\ Occurrences(sending, CopyOf(q, k)) \in Nat
         /\ Occurrences(retransmitting, CopyOf(q, k)) \in Nat
         /\ InQueues(q, k) \in Nat
         /\ \A t : StillToSend(t, q, k) \in {0, 1}
<1>1. /\ sending_queue \in Seq(Message)
      /\ retrans_queue \in Seq(Message)
      /\ sending \in Seq(Message)
      /\ retransmitting \in Seq(Message)
  <2>1. \A A : <<>> \in Seq(A) /\ \A x \in A : <<x>> \in Seq(A)
    OBVIOUS
  <2> QED
    BY <2>1 DEF TrueInHand
<1>2. \A s \in Seq(Message) : Occurrences(s, CopyOf(q, k)) \in Nat
  <2> SUFFICES ASSUME NEW s \in Seq(Message)
               PROVE  Occurrences(s, CopyOf(q, k)) \in Nat
    OBVIOUS
  <2>1. Occurrences(s, CopyOf(q, k)) \in 0..Len(s)
    BY PositionsFinite
  <2>2. Len(s) \in Nat
    OBVIOUS
  <2> QED
    BY <2>1, <2>2
<1>3. /\ Occurrences(sending_queue, CopyOf(q, k)) \in Nat
      /\ Occurrences(retrans_queue, CopyOf(q, k)) \in Nat
      /\ Occurrences(sending, CopyOf(q, k)) \in Nat
      /\ Occurrences(retransmitting, CopyOf(q, k)) \in Nat
  BY <1>1, <1>2
<1>4. \A t : StillToSend(t, q, k) \in {0, 1}
  BY DEF StillToSend
<1> QED
  BY <1>3, <1>4 DEF InQueues

\* Nothing is passed on.
LEMMA QueuesSame ==
  ASSUME UNCHANGED queues
  PROVE  \A q, k : InQueues(q, k)' = InQueues(q, k)
BY DEF InQueues, CopyOf, queues

\* A thread has as many copies to make as before.
LEMMA ToSendSame ==
  ASSUME NEW t, todo'[t] = todo[t], todo[t] = {} \/ payload'[t] = payload[t]
  PROVE  \A q, k : StillToSend(t, q, k)' = StillToSend(t, q, k)
BY DEF StillToSend, PacketOf

\* One copy, when nothing is marked.
LEMMA OneCopyPassedOn ==
  ASSUME OneCopy, seen' = seen, \A q \in Peer : acked[q] \subseteq acked'[q],
         \A q \in Peer : \A k \in Packets : InCirculation(q, k)' = InCirculation(q, k)
  PROVE  OneCopy'
BY DEF OneCopy

\* One copy, when packet p is marked as seen and one is to be made for every peer.
LEMMA OneCopyMade ==
  ASSUME OneCopy, NEW p \in Packets, p \notin seen, seen' = seen \cup {p}, acked' = acked,
         \A q \in Peer : \A k \in Packets :
           InCirculation(q, k)' = IF k = p THEN InCirculation(q, k) + 1
                                  ELSE InCirculation(q, k)
  PROVE  OneCopy'
<1> SUFFICES ASSUME NEW q \in Peer, NEW k \in Packets
             PROVE  /\ InCirculation(q, k)' <= 1
                    /\ k \in seen' \ acked'[q] => InCirculation(q, k)' = 1
                    /\ k \notin seen' => InCirculation(q, k)' = 0
  BY DEF OneCopy
<1>1. /\ InCirculation(q, k) <= 1
      /\ k \in seen \ acked[q] => InCirculation(q, k) = 1
      /\ k \notin seen => InCirculation(q, k) = 0
  BY DEF OneCopy
<1>2. CASE k = p
  <2>1. InCirculation(q, k)' = InCirculation(q, k) + 1
    BY <1>2
  <2>2. InCirculation(q, k) = 0
    BY <1>1, <1>2
  <2>3. k \in seen'
    BY <1>2
  <2> HIDE DEF InCirculation
  <2> QED
    BY <2>1, <2>2, <2>3
<1>3. CASE k # p
  <2>1. InCirculation(q, k)' = InCirculation(q, k)
    BY <1>3
  <2> QED
    BY <1>1, <1>3, <2>1
<1> QED
  BY <1>2, <1>3

----------------------------------------------------------------------------
(* LinkInv holds initially. *)

LEMMA InitLink == Init => LinkInv
<1> SUFFICES ASSUME Init
             PROVE  LinkInv
  OBVIOUS
<1> USE DEF Init
<1>1. TrueInHand
  BY DEF TrueInHand
<1>2. TrueOnWire
  BY BoundsAssumption, PeerAssumption DEF TrueOnWire, Packets
<1>3. OwnPackets
  BY BoundsAssumption DEF OwnPackets
<1>4. ASSUME NEW q \in Peer, NEW k \in Packets
      PROVE  InCirculation(q, k) = 0
  BY OccurrencesEmpty DEF InCirculation, StillToSend, Thread
<1>5. OneCopy
  BY <1>4 DEF OneCopy
<1>6. ThreadWork
  <2>1. /\ pc \in [Thread -> {"idle", "insert", "check", "mark", "send"}]
        /\ payload \in [Thread -> Payloads \cup {NoPayload}]
        /\ todo \in [Thread -> SUBSET Peer]
    OBVIOUS
  <2>2. \A t \in Thread : BroadcastWork(t)
    BY DEF BroadcastWork
  <2>3. EnqueuerWork /\ ReceiverWork
    BY DEF EnqueuerWork, ReceiverWork, Thread
  <2> QED
    BY <2>1, <2>2, <2>3 DEF ThreadWork
<1> QED
  BY <1>1, <1>2, <1>3, <1>5, <1>6 DEF LinkInv

----------------------------------------------------------------------------
(* Steps of sender and retransmitter. *)

\* What is true, in the threads' hands and on the wire stays so when nothing
\* changes of it.
LEMMA NothingMarked ==
  ASSUME LinkInv, UNCHANGED <<batch, threads, delivered>>
  PROVE  /\ True' = True /\ TruePackets' = TruePackets /\ TrueOwn' = TrueOwn
         /\ ThreadWork' /\ OwnPackets'
         /\ UNCHANGED network => TrueOnWire'
         /\ \A t, q, k : StillToSend(t, q, k)' = StillToSend(t, q, k)
<1> USE DEF batch, threads, delivered
<1>1. True' = True /\ TruePackets' = TruePackets /\ TrueOwn' = TrueOwn
  BY NothingKnown
<1>2. ThreadWork'
  BY DEF LinkInv, ThreadWork, BroadcastWork, EnqueuerWork, ReceiverWork, PacketOf
<1>3. OwnPackets'
  BY DEF LinkInv, OwnPackets
<1>4. UNCHANGED network => TrueOnWire'
  BY DEF LinkInv, TrueOnWire, network, PacketOf
<1>5. \A t, q, k : StillToSend(t, q, k)' = StillToSend(t, q, k)
  BY DEF StillToSend, PacketOf
<1> QED
  BY <1>1, <1>2, <1>3, <1>4, <1>5

\* One copy, when one of them passes on what it has.
LEMMA QueuesPassOn ==
  ASSUME LinkInv, UNCHANGED <<batch, threads, delivered>>,
         \A q \in Peer : \A k \in Packets : InQueues(q, k)' = InQueues(q, k)
  PROVE  OneCopy'
<1>1. \A t, q, k : StillToSend(t, q, k)' = StillToSend(t, q, k)
  BY NothingMarked
<1>2. \A q \in Peer : \A k \in Packets : InCirculation(q, k)' = InCirculation(q, k)
  BY <1>1, CirculationIs, CirculationIsNext
<1> QED
  BY <1>2, OneCopyPassedOn DEF LinkInv, delivered

LEMMA SenderDequeueLink ==
  ASSUME LinkInv, SenderDequeue
  PROVE  LinkInv'
<1> USE DEF SenderDequeue
<1> DEFINE m == Head(sending_queue)
           n == Stamped(m)
<1>1. /\ True' = True /\ TruePackets' = TruePackets /\ TrueOwn' = TrueOwn
      /\ ThreadWork' /\ OwnPackets' /\ TrueOnWire'
  BY NothingMarked
<1>2. HandSets
  BY HandSetsHold DEF LinkInv
<1>3. /\ sending_queue \in Seq(True) /\ sending_queue # <<>>
      /\ sending = <<>>
      /\ sending' = <<n>>
      /\ sending_queue' = Tail(sending_queue)
      /\ UNCHANGED <<retrans_queue, retransmitting>>
  BY <1>2 DEF HandSets
<1>4. m \in True /\ sending_queue' \in Seq(True)
  BY <1>3
<1>5. m \in Message /\ IsTrue(m)
  BY <1>4 DEF True
<1> HIDE DEF m
<1>6. /\ n \in Message
      /\ n.recipient = m.recipient
      /\ n.payload.sender_id = Self
      /\ n.payload.is_ack = m.payload.is_ack
      /\ PacketOf(n.payload) = PacketOf(m.payload)
  BY <1>5, StampedIs
<1> HIDE DEF n
<1>7. n \in TrueOwn
  BY <1>5, <1>6 DEF TrueOwn, True, IsTrue
<1>8. HandSets'
  BY <1>1, <1>2, <1>3, <1>4, <1>7 DEF HandSets
<1>9. ASSUME NEW q \in Peer, NEW k \in Packets
      PROVE  InQueues(q, k)' = InQueues(q, k)
  <2> DEFINE S == CopyOf(q, k)
             one == IF m \in S THEN 1 ELSE 0
  <2>1. Occurrences(sending_queue, S) = Occurrences(Tail(sending_queue), S) + one
    BY <1>3, OccurrencesTail DEF m
  <2>2. Occurrences(sending', S) = one
    <3>1. n \in S <=> m \in S
      BY <1>5, <1>6, CopyIs
    <3> QED
      BY <1>3, <3>1, OccurrencesSingle
  <2>3. Occurrences(sending, S) = 0
    BY <1>3, OccurrencesEmpty
  <2>4. Occurrences(Tail(sending_queue), S) \in Nat
    <3>1. Tail(sending_queue) \in Seq(True) /\ Len(Tail(sending_queue)) \in Nat
      BY <1>3
    <3>2. Occurrences(Tail(sending_queue), S) \in 0..Len(Tail(sending_queue))
      BY <3>1, PositionsFinite
    <3> QED
      BY <3>1, <3>2
  <2>5. Occurrences(retrans_queue, S) \in Nat /\ Occurrences(retransmitting, S) \in Nat
    BY CountsAreNumbers DEF LinkInv
  <2>6. one \in Nat
    OBVIOUS
  <2>7. InQueues(q, k)' = Occurrences(sending_queue', S) + Occurrences(retrans_queue', S)
                            + Occurrences(sending', S) + Occurrences(retransmitting', S)
    BY DEF InQueues, CopyOf
  <2>8. InQueues(q, k) = Occurrences(sending_queue, S) + Occurrences(retrans_queue, S)
                           + Occurrences(sending, S) + Occurrences(retransmitting, S)
    BY DEF InQueues
  <2> HIDE DEF S, one
  <2> QED
    BY <1>3, <2>1, <2>2, <2>3, <2>4, <2>5, <2>6, <2>7, <2>8
<1>10. OneCopy'
  BY <1>9, QueuesPassOn
<1> QED
  BY <1>1, <1>8, <1>10, HandsFromSetsNext DEF LinkInv

LEMMA RetransmitterEnqueueLink ==
  ASSUME LinkInv, RetransmitterEnqueue
  PROVE  LinkInv'
<1> USE DEF RetransmitterEnqueue
<1>1. /\ True' = True /\ TruePackets' = TruePackets /\ TrueOwn' = TrueOwn
      /\ ThreadWork' /\ OwnPackets' /\ TrueOnWire'
  BY NothingMarked
<1>2. HandSets
  BY HandSetsHold DEF LinkInv
<1>3. /\ sending_queue' = sending_queue \o retransmitting
      /\ retransmitting' = <<>>
      /\ UNCHANGED <<sending, retrans_queue>>
  OBVIOUS
<1>4. PICK m \in TruePackets : retransmitting = <<m>>
  BY <1>2 DEF HandSets
<1>5. m \in True /\ sending_queue \in Seq(True)
  BY <1>2 DEF TruePackets, HandSets
<1>6. retransmitting \in Seq(True)
  BY <1>4, <1>5
<1>7. sending_queue' \in Seq(True)
  BY <1>3, <1>5, <1>6
<1>8. HandSets'
  BY <1>1, <1>2, <1>3, <1>7 DEF HandSets
<1>9. ASSUME NEW q \in Peer, NEW k \in Packets
      PROVE  InQueues(q, k)' = InQueues(q, k)
  <2> DEFINE S == CopyOf(q, k)
  <2>1. Occurrences(sending_queue', S)
          = Occurrences(sending_queue, S) + Occurrences(retransmitting, S)
    BY <1>3, <1>5, <1>6, OccurrencesConcat
  <2>2. Occurrences(retransmitting', S) = 0
    BY <1>3, OccurrencesEmpty
  <2>3. /\ Occurrences(sending_queue, S) \in Nat
        /\ Occurrences(retrans_queue, S) \in Nat
        /\ Occurrences(sending, S) \in Nat
        /\ Occurrences(retransmitting, S) \in Nat
    BY CountsAreNumbers DEF LinkInv
  <2>4. InQueues(q, k)' = Occurrences(sending_queue', S) + Occurrences(retrans_queue', S)
                            + Occurrences(sending', S) + Occurrences(retransmitting', S)
    BY DEF InQueues, CopyOf
  <2>5. InQueues(q, k) = Occurrences(sending_queue, S) + Occurrences(retrans_queue, S)
                           + Occurrences(sending, S) + Occurrences(retransmitting, S)
    BY DEF InQueues
  <2> HIDE DEF S
  <2> QED
    BY <1>3, <2>1, <2>2, <2>3, <2>4, <2>5
<1>10. OneCopy'
  BY <1>9, QueuesPassOn
<1> QED
  BY <1>1, <1>8, <1>10, HandsFromSetsNext DEF LinkInv

\* Whatever the network does with the datagram.
LEMMA SenderSendLink ==
  ASSUME LinkInv, NEW m, SenderSend(m)
  PROVE  ThreadWork' /\ TrueInHand' /\ OwnPackets' /\ OneCopy'
<1>1. /\ sending = <<m>>
      /\ retrans_queue' = IF NeedsRetransmission(m) THEN Append(retrans_queue, m)
                                                    ELSE retrans_queue
      /\ sending' = <<>>
      /\ UNCHANGED <<batch, threads, sending_queue, retransmitting, delivered>>
  BY DEF SenderSend
<1>2. /\ True' = True /\ TruePackets' = TruePackets /\ TrueOwn' = TrueOwn
      /\ ThreadWork' /\ OwnPackets'
  BY <1>1, NothingMarked
<1>3. HandSets
  BY HandSetsHold DEF LinkInv
<1>4. m \in True
  <2>1. PICK n \in TrueOwn : sending = <<n>>
    BY <1>1, <1>3 DEF HandSets
  <2>2. m = n
    BY <1>1, <2>1
  <2> QED
    BY <2>2 DEF TrueOwn
<1>5. m \in Message
  BY <1>4 DEF True
<1>6. NeedsRetransmission(m) => m \in TruePackets
  BY <1>4 DEF NeedsRetransmission, TruePackets
<1>7. retrans_queue \in Seq(TruePackets) /\ retrans_queue' \in Seq(TruePackets)
  BY <1>1, <1>3, <1>6 DEF HandSets
<1>8. HandSets'
  BY <1>1, <1>2, <1>3, <1>7 DEF HandSets
<1>9. ASSUME NEW q \in Peer, NEW k \in Packets
      PROVE  InQueues(q, k)' = InQueues(q, k)
  <2> DEFINE S == CopyOf(q, k)
             one == IF m \in S THEN 1 ELSE 0
  <2>1. Occurrences(sending, S) = one
    BY <1>1, OccurrencesSingle
  <2>2. Occurrences(sending', S) = 0
    BY <1>1, OccurrencesEmpty
  <2>3. Occurrences(retrans_queue, S) \in Nat
    BY CountsAreNumbers DEF LinkInv
  <2>4. Occurrences(retrans_queue', S) = Occurrences(retrans_queue, S) + one
    <3>1. CASE NeedsRetransmission(m)
      <4>1. Occurrences(Append(retrans_queue, m), S)
              = Occurrences(retrans_queue, S) + (IF m \in S THEN 1 ELSE 0)
        BY <1>6, <1>7, <3>1, OccurrencesAppend
      <4>2. retrans_queue' = Append(retrans_queue, m)
        BY <1>1, <3>1
      <4> QED
        BY <4>1, <4>2
    <3>2. CASE ~NeedsRetransmission(m)
      <4>1. m \notin S
        BY <1>5, <3>2, CopyIs DEF NeedsRetransmission
      <4>2. one = 0
        BY <4>1
      <4>3. retrans_queue' = retrans_queue
        BY <1>1, <3>2
      <4> HIDE DEF S, one
      <4> QED
        BY <2>3, <4>2, <4>3
    <3> QED
      BY <3>1, <3>2
  <2>5. Occurrences(sending_queue, S) \in Nat /\ Occurrences(retransmitting, S) \in Nat
    BY CountsAreNumbers DEF LinkInv
  <2>6. one \in Nat
    OBVIOUS
  <2>7. InQueues(q, k)' = Occurrences(sending_queue', S) + Occurrences(retrans_queue', S)
                            + Occurrences(sending', S) + Occurrences(retransmitting', S)
    BY DEF InQueues, CopyOf
  <2>8. InQueues(q, k) = Occurrences(sending_queue, S) + Occurrences(retrans_queue, S)
                           + Occurrences(sending, S) + Occurrences(retransmitting, S)
    BY DEF InQueues
  <2> HIDE DEF S, one
  <2> QED
    BY <1>1, <2>1, <2>2, <2>3, <2>4, <2>5, <2>6, <2>7, <2>8
<1>10. OneCopy'
  BY <1>1, <1>9, QueuesPassOn
<1> QED
  BY <1>2, <1>8, <1>10, HandsFromSetsNext

LEMMA SendLostLink ==
  ASSUME LinkInv, NEW m, SendLost(m)
  PROVE  LinkInv'
<1>1. ThreadWork' /\ TrueInHand' /\ OwnPackets' /\ OneCopy'
  BY SenderSendLink DEF SendLost
<1>2. TrueOnWire'
  BY NothingMarked DEF SendLost, SenderSend, network
<1> QED
  BY <1>1, <1>2 DEF LinkInv

\* A peer gets a packet marked as seen, and answers for that one.
LEMMA PeerReceivesLink ==
  ASSUME LinkInv, NEW m, PeerReceives(m)
  PROVE  LinkInv'
<1> DEFINE k == PacketOf(m.payload)
           answer == Payload(k, m.recipient, TRUE)
<1>1. /\ SenderSend(m)
      /\ ~m.payload.is_ack
      /\ spread' = spread \cup {k}
      /\ wire' = wire \/ wire' = wire \cup {answer}
  BY DEF PeerReceives
<1>2. ThreadWork' /\ TrueInHand' /\ OwnPackets' /\ OneCopy'
  BY <1>1, SenderSendLink
<1>3. sending = <<m>> /\ UNCHANGED <<copies_received, delivered>>
  BY <1>1 DEF SenderSend
<1>4. m \in Message /\ IsTrue(m)
  BY <1>3 DEF LinkInv, TrueInHand
<1>5. k \in seen /\ m.recipient \in Peer
  BY <1>1, <1>4, MessageIs DEF IsTrue
<1>6. seen \subseteq Packets
  BY DEF LinkInv, OwnPackets
<1> HIDE DEF k
<1>7. /\ answer \in Payloads
      /\ answer.sender_id \in Peer /\ answer.is_ack /\ PacketOf(answer) \in seen
  <2>1. \A a \in BOOLEAN : /\ Payload(k, m.recipient, a) \in Payloads
                           /\ PacketOf(Payload(k, m.recipient, a)) = k
                           /\ Payload(k, m.recipient, a).sender_id = m.recipient
                           /\ Payload(k, m.recipient, a).is_ack = a
    BY <1>5, <1>6, PayloadParts DEF Payloads
  <2>2. /\ Payload(k, m.recipient, TRUE) \in Payloads
        /\ PacketOf(Payload(k, m.recipient, TRUE)) = k
        /\ Payload(k, m.recipient, TRUE).sender_id = m.recipient
        /\ Payload(k, m.recipient, TRUE).is_ack = TRUE
    BY <2>1, Zenon
  <2>3. answer.is_ack = TRUE
    BY <2>2
  <2> HIDE DEF answer
  <2>4. answer.is_ack
    BY <2>3
  <2> QED
    BY <1>5, <2>2, <2>4 DEF answer
<1> HIDE DEF answer
<1>8. TrueOnWire'
  <2>1. TrueOnWire
    BY DEF LinkInv
  <2>2. wire' \in SUBSET Payloads
    BY <1>1, <1>7, <2>1 DEF TrueOnWire
  <2>3. \A p \in wire' : p.sender_id \in Peer /\ p.is_ack /\ PacketOf(p) \in seen'
    BY <1>1, <1>3, <1>7, <2>1 DEF TrueOnWire, delivered
  <2>4. spread' \in SUBSET Packets /\ \A x \in spread' : x[1] = Self => x \in seen'
    BY <1>1, <1>3, <1>5, <1>6, <2>1 DEF TrueOnWire, delivered
  <2> QED
    BY <1>3, <2>1, <2>2, <2>3, <2>4 DEF TrueOnWire
<1> QED
  BY <1>2, <1>8 DEF LinkInv

\* The one step that gives up a copy: of a packet that has been acknowledged.
LEMMA RetransmitterDequeueLink ==
  ASSUME LinkInv, RetransmitterDequeue
  PROVE  LinkInv'
<1> USE DEF RetransmitterDequeue
<1> DEFINE m == Head(retrans_queue)
<1>1. /\ True' = True /\ TruePackets' = TruePackets /\ TrueOwn' = TrueOwn
      /\ ThreadWork' /\ OwnPackets' /\ TrueOnWire'
      /\ \A t, q, k : StillToSend(t, q, k)' = StillToSend(t, q, k)
  BY NothingMarked
<1>2. HandSets
  BY HandSetsHold DEF LinkInv
<1>3. /\ retrans_queue \in Seq(TruePackets) /\ retrans_queue # <<>>
      /\ retransmitting = <<>>
      /\ retransmitting' = IF AlreadyDelivered(m) THEN <<>> ELSE <<m>>
      /\ retrans_queue' = Tail(retrans_queue)
      /\ UNCHANGED <<sending_queue, sending, delivered>>
  BY <1>2 DEF HandSets
<1>4. m \in TruePackets /\ retrans_queue' \in Seq(TruePackets)
  BY <1>3
<1>5. m \in Message /\ IsTrue(m) /\ ~m.payload.is_ack
  BY <1>4 DEF TruePackets, True
<1> HIDE DEF m
<1>6. HandSets'
  BY <1>1, <1>2, <1>3, <1>4 DEF HandSets
<1>7. ASSUME NEW q \in Peer, NEW k \in Packets
      PROVE  \/ InQueues(q, k)' = InQueues(q, k)
             \/ k \in acked[q] /\ k \in seen /\ InQueues(q, k)' = InQueues(q, k) - 1
  <2> DEFINE S == CopyOf(q, k)
             one == IF m \in S THEN 1 ELSE 0
  <2>1. Occurrences(retrans_queue, S) = Occurrences(Tail(retrans_queue), S) + one
    BY <1>3, OccurrencesTail DEF m
  <2>2. Occurrences(retransmitting, S) = 0
    BY <1>3, OccurrencesEmpty
  <2>3. Occurrences(Tail(retrans_queue), S) \in Nat
    <3>1. Tail(retrans_queue) \in Seq(TruePackets) /\ Len(Tail(retrans_queue)) \in Nat
      BY <1>3
    <3>2. Occurrences(Tail(retrans_queue), S) \in 0..Len(Tail(retrans_queue))
      BY <3>1, PositionsFinite
    <3> QED
      BY <3>1, <3>2
  <2>4. Occurrences(sending_queue, S) \in Nat /\ Occurrences(sending, S) \in Nat
    BY CountsAreNumbers DEF LinkInv
  <2>5. one \in Nat
    OBVIOUS
  <2>6. InQueues(q, k)' = Occurrences(sending_queue', S) + Occurrences(retrans_queue', S)
                            + Occurrences(sending', S) + Occurrences(retransmitting', S)
    BY DEF InQueues, CopyOf
  <2>7. InQueues(q, k) = Occurrences(sending_queue, S) + Occurrences(retrans_queue, S)
                           + Occurrences(sending, S) + Occurrences(retransmitting, S)
    BY DEF InQueues
  <2>8. CASE AlreadyDelivered(m)
    <3>1. Occurrences(retransmitting', S) = 0
      BY <1>3, <2>8, OccurrencesEmpty
    <3>2. CASE m \in S
      <4>1. m.recipient = q /\ PacketOf(m.payload) = k
        BY <1>5, <3>2, CopyIs
      <4>2. k \in acked[q] /\ k \in seen
        BY <1>5, <2>8, <4>1 DEF AlreadyDelivered, IsTrue
      <4>3. one = 1
        BY <3>2
      <4> HIDE DEF S, one
      <4>4. InQueues(q, k)' = InQueues(q, k) - 1
        <5> DEFINE a == Occurrences(sending_queue, S)
                   b == Occurrences(Tail(retrans_queue), S)
                   c == Occurrences(sending, S)
        <5>1. InQueues(q, k)' = a + b + c + 0
          BY <1>3, <2>6, <3>1
        <5>2. InQueues(q, k) = a + (b + 1) + c + 0
          BY <2>1, <2>2, <2>7, <4>3
        <5>3. a \in Nat /\ b \in Nat /\ c \in Nat
          BY <2>3, <2>4
        <5> HIDE DEF a, b, c
        <5> QED
          BY <5>1, <5>2, <5>3
      <4> QED
        BY <4>2, <4>4
    <3>3. CASE m \notin S
      <4>1. one = 0
        BY <3>3
      <4> HIDE DEF S, one
      <4> QED
        BY <1>3, <2>1, <2>2, <2>3, <2>4, <2>6, <2>7, <3>1, <4>1
    <3> QED
      BY <3>2, <3>3
  <2>9. CASE ~AlreadyDelivered(m)
    <3>1. retransmitting' = <<m>>
      BY <1>3, <2>9
    <3>2. Occurrences(retransmitting', S) = one
      BY <3>1, OccurrencesSingle
    <3> HIDE DEF S, one
    <3> QED
      BY <1>3, <2>1, <2>2, <2>3, <2>4, <2>5, <2>6, <2>7, <3>2
  <2> QED
    BY <2>8, <2>9
<1>8. OneCopy'
  <2> SUFFICES ASSUME NEW q \in Peer, NEW k \in Packets
               PROVE  /\ InCirculation(q, k)' <= 1
                      /\ k \in seen \ acked[q] => InCirculation(q, k)' = 1
                      /\ k \notin seen => InCirculation(q, k)' = 0
    BY <1>3 DEF OneCopy, delivered
  <2> DEFINE a == StillToSend("enqueuer", q, k)
             b == StillToSend("receiver", q, k)
             c == InQueues(q, k)
             d == InQueues(q, k)'
  <2>1. InCirculation(q, k) = c + a + b /\ InCirculation(q, k)' = d + a + b
    BY <1>1, CirculationIs, CirculationIsNext
  <2>2. a \in {0, 1} /\ b \in {0, 1} /\ c \in Nat
    BY CountsAreNumbers DEF LinkInv
  <2>3. /\ InCirculation(q, k) <= 1
        /\ k \in seen \ acked[q] => InCirculation(q, k) = 1
        /\ k \notin seen => InCirculation(q, k) = 0
    BY DEF OneCopy, LinkInv
  <2>4. d = c \/ (k \in acked[q] /\ k \in seen /\ d = c - 1)
    BY <1>7
  <2> HIDE DEF a, b, c, d
  <2> QED
    BY <2>1, <2>2, <2>3, <2>4
<1> QED
  BY <1>1, <1>6, <1>8, HandsFromSetsNext DEF LinkInv

----------------------------------------------------------------------------
(* Steps of enqueuer and receiver. *)

\* What is at hand about a thread.
LEMMA ThreadFacts ==
  ASSUME LinkInv
  PROVE  /\ pc \in [Thread -> {"idle", "insert", "check", "mark", "send"}]
         /\ payload \in [Thread -> Payloads \cup {NoPayload}]
         /\ todo \in [Thread -> SUBSET Peer]
         /\ \A t \in Thread : /\ BroadcastWork(t)
                              /\ pc[t] # "idle" => payload[t] \in Payloads
                              /\ pc[t] # "idle" => PacketOf(payload[t]) \in Packets
<1>1. \A t \in Thread : BroadcastWork(t)
  BY DEF LinkInv, ThreadWork
<1>2. \A t \in Thread : pc[t] # "idle" => payload[t] \in Payloads
  BY <1>1 DEF BroadcastWork
<1> QED
  BY <1>1, <1>2, PayloadIs DEF LinkInv, ThreadWork

\* A thread that does nothing, while the other marks another packet at most.
LEMMA ThreadRests ==
  ASSUME NEW t, BroadcastWork(t),
         pc'[t] = pc[t], payload'[t] = payload[t], todo'[t] = todo[t],
         seen \subseteq seen',
         pc[t] = "mark" => PacketOf(payload[t]) \notin seen'
  PROVE  BroadcastWork(t)'
BY DEF BroadcastWork, PacketOf

\* The enqueuer does nothing, and what it has constructed is not marked.
LEMMA EnqueuerRests ==
  ASSUME LinkInv, UNCHANGED batch,
         pc'["enqueuer"] = pc["enqueuer"], payload'["enqueuer"] = payload["enqueuer"],
         \A k \in seen' \ seen : k[1] # Self
  PROVE  EnqueuerWork'
<1>1. ASSUME pc["enqueuer"] = "check"
      PROVE  PacketOf(payload["enqueuer"]) \notin seen'
  <2>1. /\ payload["enqueuer"] = Payload(<<Self, enqueued_messages>>, Self, FALSE)
        /\ PacketOf(payload["enqueuer"]) \notin seen
    BY <1>1 DEF LinkInv, ThreadWork, EnqueuerWork
  <2>2. PacketOf(payload["enqueuer"])[1] = Self
    BY <2>1 DEF Payload, PacketOf
  <2> QED
    BY <2>1, <2>2
<1> QED
  BY <1>1 DEF LinkInv, ThreadWork, EnqueuerWork, batch, PacketOf

\* The receiver does nothing.
LEMMA ReceiverRests ==
  ASSUME LinkInv, pc'["receiver"] = pc["receiver"], payload'["receiver"] = payload["receiver"],
         seen \subseteq seen'
  PROVE  ReceiverWork'
BY DEF LinkInv, ThreadWork, ReceiverWork, PacketOf

\* Then what it has in its hands stays the same.
LEMMA HandRests ==
  ASSUME pc'["receiver"] = pc["receiver"], payload'["receiver"] = payload["receiver"]
  PROVE  /\ \A k : InHand(k)' = InHand(k)
         /\ \A q, k : Inserting(q, k)' = Inserting(q, k)
BY DEF InHand, Inserting, PacketOf

\* One copy, when a thread goes on without marking or making any.
LEMMA NothingMade ==
  ASSUME LinkInv, UNCHANGED <<queues, todo, seen>>,
         \A q \in Peer : acked[q] \subseteq acked'[q],
         \A t \in Thread : todo[t] = {} \/ payload'[t] = payload[t]
  PROVE  OneCopy'
<1>1. \A q, k : InQueues(q, k)' = InQueues(q, k)
  BY QueuesSame
<1>2. \A t \in Thread : \A q, k : StillToSend(t, q, k)' = StillToSend(t, q, k)
  BY ToSendSame
<1>3. "enqueuer" \in Thread /\ "receiver" \in Thread
  BY DEF Thread
<1>4. \A q, k : InCirculation(q, k)' = InCirculation(q, k)
  BY <1>1, <1>2, <1>3, CirculationIs, CirculationIsNext
<1> QED
  BY <1>4, OneCopyPassedOn DEF LinkInv

\* The end of the batch is not beyond the last packet.
LEMMA BatchEndIs ==
  ASSUME enqueued_messages \in 0..msgs_to_send_count
  PROVE  BatchEnd \in enqueued_messages..msgs_to_send_count
<1> DEFINE S == {enqueued_messages + Batch, msgs_to_send_count}
<1>1. /\ enqueued_messages + Batch \in Nat
      /\ enqueued_messages + Batch >= enqueued_messages
      /\ msgs_to_send_count \in Nat
      /\ msgs_to_send_count >= enqueued_messages
      /\ enqueued_messages \in Nat
  BY BoundsAssumption
<1>2. \E x \in S : \A y \in S : x <= y
  BY <1>1
<1>3. BatchEnd \in S /\ \A y \in S : BatchEnd <= y
  BY <1>2 DEF BatchEnd, Min
<1> QED
  BY <1>1, <1>3

LEMMA BeginBatchLink ==
  ASSUME LinkInv, BeginBatch
  PROVE  LinkInv'
<1> USE DEF BeginBatch
<1>1. UNCHANGED <<enqueued_messages, pc, payload, todo, queues, network, seen, acked>>
  BY DEF threads, delivered
<1>2. OwnPackets'
  <2>1. enqueued_messages \in 0..msgs_to_send_count
    BY BoundsAssumption DEF LinkInv, OwnPackets
  <2>2. BatchEnd \in enqueued_messages..msgs_to_send_count
    BY <2>1, BatchEndIs
  <2> QED
    BY <1>1, <2>1, <2>2, BoundsAssumption DEF LinkInv, OwnPackets
<1>3. ThreadWork'
  BY <1>1 DEF LinkInv, ThreadWork, BroadcastWork, EnqueuerWork, ReceiverWork, PacketOf
<1>4. TrueInHand'
  BY <1>1, HandsKept, HandRests DEF LinkInv
<1>5. TrueOnWire'
  BY <1>1 DEF LinkInv, TrueOnWire, network, PacketOf
<1>6. OneCopy'
  BY <1>1, NothingMade
<1> QED
  BY <1>2, <1>3, <1>4, <1>5, <1>6 DEF LinkInv

LEMMA EnqueuePacketLink ==
  ASSUME LinkInv, EnqueuePacket
  PROVE  LinkInv'
<1> USE DEF EnqueuePacket
<1> DEFINE packet == <<Self, enqueued_messages + 1>>
           p      == Payload(packet, Self, FALSE)
<1>1. /\ pc["enqueuer"] = "idle"
      /\ enqueued_messages < enqueue_until
      /\ enqueued_messages' = enqueued_messages + 1
      /\ pc' = [pc EXCEPT !["enqueuer"] = "check"]
      /\ payload' = [payload EXCEPT !["enqueuer"] = p]
      /\ UNCHANGED <<enqueue_until, todo, queues, network, seen, acked>>
  BY DEF delivered
<1>2. enqueued_messages + 1 \in 1..msgs_to_send_count /\ enqueued_messages + 1 \in 1..enqueue_until
  BY <1>1, BoundsAssumption DEF LinkInv, OwnPackets
<1>3. packet \in Packets /\ packet[1] = Self /\ packet[2] = enqueued_messages + 1
  BY <1>2 DEF Packets
<1>4. packet \notin seen
  BY <1>1, <1>3, BoundsAssumption DEF LinkInv, OwnPackets
<1>5. OwnPackets'
  <2>1. enqueued_messages' \in 0..enqueue_until' /\ enqueue_until' \in 0..msgs_to_send_count
    BY <1>1, <1>2, BoundsAssumption DEF LinkInv, OwnPackets
  <2>2. seen' \in SUBSET Packets /\ acked' \in [Peer -> SUBSET Packets]
    BY <1>1, <1>3 DEF LinkInv, OwnPackets
  <2>3. ASSUME NEW k \in seen', k[1] = Self
        PROVE  k[2] \in 1..enqueued_messages'
    BY <1>1, <1>2, <1>3, <2>3, BoundsAssumption DEF LinkInv, OwnPackets
  <2> QED
    BY <2>1, <2>2, <2>3 DEF OwnPackets
<1>6. p = Payload(<<Self, enqueued_messages'>>, Self, FALSE)
  BY <1>1
<1> HIDE DEF packet
<1>7. p \in Payloads /\ PacketOf(p) = packet
  <2>1. \A a \in BOOLEAN : Payload(packet, Self, a) \in Payloads
    BY <1>3 DEF Payloads
  <2>2. FALSE \in BOOLEAN
    OBVIOUS
  <2>3. Payload(packet, Self, FALSE) \in Payloads
    BY <2>1, <2>2, Zenon
  <2> QED
    BY <1>3, <2>3, PayloadParts
<1> HIDE DEF p
<1>8. "enqueuer" \in Thread /\ "receiver" \in Thread /\ \A t \in Thread : t = "enqueuer" \/ t = "receiver"
  BY DEF Thread
<1>9. /\ pc'["enqueuer"] = "check" /\ payload'["enqueuer"] = p
      /\ pc'["receiver"] = pc["receiver"] /\ payload'["receiver"] = payload["receiver"]
      /\ todo["enqueuer"] = {}
  BY <1>1, <1>8, ThreadFacts DEF BroadcastWork
<1>10. ThreadWork'
  <2>1. /\ pc' \in [Thread -> {"idle", "insert", "check", "mark", "send"}]
        /\ payload' \in [Thread -> Payloads \cup {NoPayload}]
        /\ todo' \in [Thread -> SUBSET Peer]
    BY <1>1, <1>7, <1>8, ThreadFacts
  <2>2. BroadcastWork("receiver")'
    BY <1>1, <1>8, <1>9, ThreadFacts, ThreadRests DEF BroadcastWork
  <2>3. BroadcastWork("enqueuer")'
    BY <1>1, <1>7, <1>9 DEF BroadcastWork
  <2>4. EnqueuerWork'
    BY <1>1, <1>4, <1>6, <1>7, <1>9 DEF EnqueuerWork, PacketOf
  <2>5. ReceiverWork'
    BY <1>1, <1>9, ReceiverRests
  <2> QED
    BY <1>8, <2>1, <2>2, <2>3, <2>4, <2>5 DEF ThreadWork
<1>11. TrueInHand'
  BY <1>1, <1>9, HandsKept, HandRests DEF LinkInv
<1>12. TrueOnWire'
  BY <1>1 DEF LinkInv, TrueOnWire, network, PacketOf
<1>13. OneCopy'
  BY <1>1, <1>8, <1>9, NothingMade
<1> QED
  BY <1>5, <1>10, <1>11, <1>12, <1>13 DEF LinkInv

\* The parts of a packet in the hands of a thread that broadcasts it.
LEMMA WorkIs ==
  ASSUME LinkInv, NEW t \in Thread, pc[t] \in {"check", "mark", "send"}
  PROVE  /\ payload[t] \in Payloads
         /\ PacketOf(payload[t]) \in Packets
         /\ t = "enqueuer" => /\ payload[t].sender_id = Self /\ ~payload[t].is_ack
                              /\ PacketOf(payload[t]) = <<Self, enqueued_messages>>
         /\ t = "receiver" /\ (payload[t].is_ack \/ payload[t].owner_id = Self) =>
              pc[t] = "check" /\ PacketOf(payload[t]) \in seen
<1>1. /\ payload[t] \in Payloads
      /\ PacketOf(payload[t]) \in Packets
      /\ BroadcastWork(t)
  BY ThreadFacts
<1>2. CASE t = "enqueuer"
  <2>1. payload[t] = Payload(<<Self, enqueued_messages>>, Self, FALSE)
    BY <1>2 DEF LinkInv, ThreadWork, EnqueuerWork
  <2>2. /\ payload[t].sender_id = Self /\ ~payload[t].is_ack
        /\ PacketOf(payload[t]) = <<Self, enqueued_messages>>
    BY <2>1 DEF Payload, PacketOf
  <2> QED
    BY <1>1, <1>2, <2>2
<1>3. CASE t = "receiver"
  BY <1>1, <1>3 DEF LinkInv, ThreadWork, ReceiverWork, BroadcastWork
<1> QED
  BY <1>1, <1>2, <1>3 DEF Thread

\* The first part of a packet is its owner.
LEMMA OwnerIs ==
  ASSUME NEW p
  PROVE  PacketOf(p)[1] = p.owner_id /\ PacketOf(p)[2] = p.packet_uid
BY DEF PacketOf

\* A thread that goes on, and puts nothing down that is not known, leaves the
\* queues and the wire true.
LEMMA ThreadGoesOn ==
  ASSUME LinkInv, NEW t \in Thread,
         UNCHANGED <<batch, queues, network>>,
         \A u \in Thread \ {t} : pc'[u] = pc[u] /\ payload'[u] = payload[u],
         seen \subseteq seen', seen' \subseteq Packets,
         acked' \in [Peer -> SUBSET Packets],
         \A q \in Peer : acked[q] \subseteq acked'[q],
         pc[t] # "idle",
         \/ /\ pc'[t] # "idle" /\ PacketOf(payload'[t]) = PacketOf(payload[t])
            /\ pc[t] # "insert"
         \/ PacketOf(payload[t]) \in seen' /\ pc[t] # "insert"
         \/ /\ pc'[t] = "check" /\ payload'[t] = payload[t]
            /\ PacketOf(payload[t]) \in acked'[payload[t].sender_id]
  PROVE  TrueInHand' /\ TrueOnWire'
<1>1. TrueOnWire'
  BY DEF LinkInv, TrueOnWire, network, PacketOf
<1>2. CASE t = "enqueuer"
  <2>1. pc'["receiver"] = pc["receiver"] /\ payload'["receiver"] = payload["receiver"]
    BY <1>2 DEF Thread
  <2> QED
    BY <1>1, <2>1, HandRests, HandsKept DEF LinkInv
<1>3. CASE t = "receiver"
  <2>1. \A k : InHand(k) => InHand(k)' \/ k \in seen'
    BY <1>3 DEF InHand, PacketOf
  <2>2. \A q \in Peer : \A k : Inserting(q, k) => Inserting(q, k)' \/ k \in acked'[q]
    BY <1>3 DEF Inserting, InHand
  <2> QED
    BY <1>1, <2>1, <2>2, HandsKept DEF LinkInv
<1> QED
  BY <1>2, <1>3 DEF Thread

LEMMA InsertLink ==
  ASSUME LinkInv, Insert
  PROVE  LinkInv'
<1> USE DEF Insert
<1> DEFINE p == payload["receiver"]
<1>0. "enqueuer" \in Thread /\ "receiver" \in Thread /\ \A t \in Thread : t = "enqueuer" \/ t = "receiver"
  BY DEF Thread
<1>1. /\ pc["receiver"] = "insert"
      /\ acked' = [acked EXCEPT ![p.sender_id] = @ \cup {PacketOf(p)}]
      /\ pc' = [pc EXCEPT !["receiver"] = "check"]
      /\ UNCHANGED <<batch, payload, todo, queues, network, seen>>
  OBVIOUS
<1>2. /\ p \in Payloads /\ PacketOf(p) \in Packets /\ p.sender_id \in Peer
      /\ p.is_ack \/ p.owner_id = Self => PacketOf(p) \in seen
  BY <1>0, <1>1, ThreadFacts DEF LinkInv, ThreadWork, ReceiverWork
<1> HIDE DEF p
<1>3. /\ acked \in [Peer -> SUBSET Packets]
      /\ acked' \in [Peer -> SUBSET Packets]
      /\ \A q \in Peer : acked[q] \subseteq acked'[q]
      /\ PacketOf(p) \in acked'[p.sender_id]
  <2> DEFINE k == PacketOf(p)
             x == p.sender_id
  <2>1. acked \in [Peer -> SUBSET Packets]
    BY DEF LinkInv, OwnPackets
  <2>2. acked' = [acked EXCEPT ![x] = acked[x] \cup {k}]
    BY <1>1
  <2>3. k \in Packets /\ x \in Peer
    BY <1>2
  <2> HIDE DEF k, x
  <2>4. \A q \in Peer : acked'[q] = IF q = x THEN acked[x] \cup {k} ELSE acked[q]
    BY <2>1, <2>2
  <2>5. acked[x] \cup {k} \in SUBSET Packets
    BY <2>1, <2>3
  <2>6. acked' \in [Peer -> SUBSET Packets]
    BY <2>1, <2>2, <2>5
  <2>7. \A q \in Peer : acked[q] \subseteq acked'[q]
    BY <2>4
  <2>8. k \in acked'[x]
    BY <2>3, <2>4
  <2> QED
    BY <2>1, <2>6, <2>7, <2>8 DEF k, x
<1>4. pc'["receiver"] = "check" /\ pc'["enqueuer"] = pc["enqueuer"]
  BY <1>0, <1>1, ThreadFacts
<1>5. OwnPackets'
  BY <1>1, <1>3 DEF LinkInv, OwnPackets, batch
<1>6. TrueInHand' /\ TrueOnWire'
  BY <1>0, <1>1, <1>3, <1>4, ThreadGoesOn DEF p, LinkInv, OwnPackets
<1>7. ThreadWork'
  <2>1. /\ pc' \in [Thread -> {"idle", "insert", "check", "mark", "send"}]
        /\ payload' \in [Thread -> Payloads \cup {NoPayload}]
        /\ todo' \in [Thread -> SUBSET Peer]
    BY <1>0, <1>1, ThreadFacts
  <2>2. BroadcastWork("enqueuer")'
    BY <1>0, <1>1, <1>4, ThreadFacts, ThreadRests DEF BroadcastWork
  <2>3. BroadcastWork("receiver")'
    BY <1>0, <1>1, <1>2, <1>4, ThreadFacts DEF BroadcastWork, p
  <2>4. EnqueuerWork'
    BY <1>1, <1>4, EnqueuerRests
  <2>5. ReceiverWork'
    BY <1>1, <1>2, <1>4 DEF ReceiverWork, PacketOf, p
  <2> QED
    BY <1>0, <2>1, <2>2, <2>3, <2>4, <2>5 DEF ThreadWork
<1>8. OneCopy'
  BY <1>1, <1>3, NothingMade
<1> QED
  BY <1>5, <1>6, <1>7, <1>8 DEF LinkInv

\* Then the packet is marked as seen already.
LEMMA SkipSeenLink ==
  ASSUME LinkInv, NEW t \in Thread, SkipSeen(t)
  PROVE  LinkInv'
<1> USE DEF SkipSeen
<1>1. /\ pc[t] = "check" /\ PacketOf(payload[t]) \in seen
      /\ pc' = [pc EXCEPT ![t] = "idle"]
      /\ payload' = [payload EXCEPT ![t] = NoPayload]
      /\ UNCHANGED <<batch, todo, queues, network, seen, acked>>
  BY DEF WasSeen, delivered
<1>2. /\ pc'[t] = "idle" /\ payload'[t] = NoPayload /\ todo[t] = {}
      /\ \A u \in Thread \ {t} : pc'[u] = pc[u] /\ payload'[u] = payload[u]
  BY <1>1, ThreadFacts DEF BroadcastWork
<1>3. OwnPackets'
  BY <1>1 DEF LinkInv, OwnPackets, batch
<1>4. TrueInHand' /\ TrueOnWire'
  BY <1>1, <1>2, ThreadGoesOn DEF LinkInv, OwnPackets
<1>5. ThreadWork'
  <2>1. /\ pc' \in [Thread -> {"idle", "insert", "check", "mark", "send"}]
        /\ payload' \in [Thread -> Payloads \cup {NoPayload}]
        /\ todo' \in [Thread -> SUBSET Peer]
    BY <1>1, ThreadFacts
  <2>2. \A u \in Thread \ {t} : BroadcastWork(u)'
    BY <1>1, <1>2, ThreadFacts, ThreadRests DEF BroadcastWork
  <2>3. BroadcastWork(t)'
    BY <1>1, <1>2 DEF BroadcastWork
  <2>4. EnqueuerWork'
    <3>1. CASE t = "enqueuer"
      BY <1>2, <3>1 DEF EnqueuerWork
    <3>2. CASE t # "enqueuer"
      BY <1>1, <1>2, <3>2, EnqueuerRests DEF Thread
    <3> QED
      BY <3>1, <3>2
  <2>5. ReceiverWork'
    <3>1. CASE t = "receiver"
      BY <1>2, <3>1 DEF ReceiverWork
    <3>2. CASE t # "receiver"
      BY <1>1, <1>2, <3>2, ReceiverRests DEF Thread
    <3> QED
      BY <3>1, <3>2
  <2> QED
    BY <2>1, <2>2, <2>3, <2>4, <2>5 DEF ThreadWork
<1>6. OneCopy'
  BY <1>1, <1>2, NothingMade
<1> QED
  BY <1>3, <1>4, <1>5, <1>6 DEF LinkInv

\* Then it is a packet, and one of a peer unless the enqueuer has it.
LEMMA FoundUnseenLink ==
  ASSUME LinkInv, NEW t \in Thread, FoundUnseen(t)
  PROVE  LinkInv'
<1> USE DEF FoundUnseen
<1> DEFINE p == [payload[t] EXCEPT !.sender_id = Self]
<1>1. /\ pc[t] = "check" /\ PacketOf(payload[t]) \notin seen
      /\ pc' = [pc EXCEPT ![t] = "mark"]
      /\ payload' = [payload EXCEPT ![t] = p]
      /\ UNCHANGED <<batch, todo, queues, network, seen, acked>>
  BY DEF WasSeen, delivered
<1>2. /\ payload[t] \in Payloads
      /\ ~payload[t].is_ack
      /\ t = "enqueuer" => /\ payload[t].sender_id = Self
                           /\ PacketOf(payload[t]) = <<Self, enqueued_messages>>
      /\ t = "receiver" => payload[t].owner_id # Self
  BY <1>1, WorkIs DEF Thread
<1>3. /\ p \in Payloads /\ PacketOf(p) = PacketOf(payload[t])
      /\ p.sender_id = Self /\ p.is_ack = payload[t].is_ack
  BY <1>2, Restamped
<1>4. p.owner_id = payload[t].owner_id
  BY <1>3, OwnerIs
<1>5. t = "enqueuer" => p = payload[t]
  <2>1. ASSUME t = "enqueuer"
        PROVE  p = payload[t]
    <3>1. p = Payload(PacketOf(payload[t]), Self, payload[t].is_ack)
      BY <1>2, Restamped
    <3>2. payload[t] = Payload(PacketOf(payload[t]), Self, payload[t].is_ack)
      BY <1>2, <2>1, PayloadIs
    <3> QED
      BY <3>1, <3>2
  <2> QED
    BY <2>1
<1> HIDE DEF p
<1>6. /\ pc'[t] = "mark" /\ payload'[t] = p /\ todo[t] = {}
      /\ \A u \in Thread \ {t} : pc'[u] = pc[u] /\ payload'[u] = payload[u]
  BY <1>1, ThreadFacts DEF BroadcastWork
<1>7. OwnPackets'
  BY <1>1 DEF LinkInv, OwnPackets, batch
<1>8. TrueInHand' /\ TrueOnWire'
  BY <1>1, <1>3, <1>6, ThreadGoesOn DEF LinkInv, OwnPackets
<1>9. ThreadWork'
  <2>1. /\ pc' \in [Thread -> {"idle", "insert", "check", "mark", "send"}]
        /\ payload' \in [Thread -> Payloads \cup {NoPayload}]
        /\ todo' \in [Thread -> SUBSET Peer]
    BY <1>1, <1>3, ThreadFacts
  <2>2. \A u \in Thread \ {t} : BroadcastWork(u)'
    BY <1>1, <1>6, ThreadFacts, ThreadRests DEF BroadcastWork
  <2>3. BroadcastWork(t)'
    BY <1>1, <1>2, <1>3, <1>6 DEF BroadcastWork, PacketOf
  <2>4. EnqueuerWork'
    <3>1. CASE t = "enqueuer"
      BY <1>1, <1>5, <1>6, <3>1 DEF EnqueuerWork, LinkInv, ThreadWork, batch
    <3>2. CASE t # "enqueuer"
      BY <1>1, <1>6, <3>2, EnqueuerRests DEF Thread
    <3> QED
      BY <3>1, <3>2
  <2>5. ReceiverWork'
    <3>1. CASE t = "receiver"
      BY <1>2, <1>4, <1>6, <3>1 DEF ReceiverWork
    <3>2. CASE t # "receiver"
      BY <1>1, <1>6, <3>2, ReceiverRests DEF Thread
    <3> QED
      BY <3>1, <3>2
  <2> QED
    BY <2>1, <2>2, <2>3, <2>4, <2>5 DEF ThreadWork
<1>10. OneCopy'
  BY <1>1, <1>6, NothingMade
<1> QED
  BY <1>7, <1>8, <1>9, <1>10 DEF LinkInv

\* The two threads never mark the same packet: one is of this process, the other
\* of a peer.
LEMMA MarkAsSeenLink ==
  ASSUME LinkInv, NEW t \in Thread, MarkAsSeen(t)
  PROVE  LinkInv'
<1> USE DEF MarkAsSeen
<1> DEFINE k == PacketOf(payload[t])
<1>1. /\ pc[t] = "mark"
      /\ seen' = seen \cup {k}
      /\ pc' = [pc EXCEPT ![t] = "send"]
      /\ todo' = [todo EXCEPT ![t] = Peer]
      /\ UNCHANGED <<batch, payload, queues, network, acked>>
  OBVIOUS
<1>2. /\ payload[t] \in Payloads /\ k \in Packets
      /\ payload[t].sender_id = Self /\ ~payload[t].is_ack
      /\ k \notin seen /\ todo[t] = {}
      /\ t = "enqueuer" => k = <<Self, enqueued_messages>>
      /\ t = "receiver" => payload[t].owner_id # Self /\ k[1] # Self
  BY <1>1, WorkIs, ThreadFacts, OwnerIs DEF BroadcastWork
<1>3. /\ pc'[t] = "send" /\ todo'[t] = Peer
      /\ \A u \in Thread \ {t} : pc'[u] = pc[u] /\ todo'[u] = todo[u]
      /\ \A u \in Thread : payload'[u] = payload[u]
  BY <1>1, ThreadFacts
<1>4. \A u \in Thread \ {t} : pc[u] = "mark" => PacketOf(payload[u]) # k
  <2> SUFFICES ASSUME NEW u \in Thread \ {t}, pc[u] = "mark"
               PROVE  PacketOf(payload[u]) # k
    OBVIOUS
  <2>1. /\ u = "enqueuer" => PacketOf(payload[u])[1] = Self
        /\ u = "receiver" => PacketOf(payload[u])[1] # Self
    BY WorkIs, OwnerIs
  <2>2. /\ t = "enqueuer" => k[1] = Self
        /\ t = "receiver" => k[1] # Self
    BY <1>2
  <2> QED
    BY <2>1, <2>2 DEF Thread
<1> HIDE DEF k
<1>5. OwnPackets'
  <2>1. k[1] = Self => k[2] \in 1..enqueued_messages
    <3>1. ASSUME k[1] = Self
          PROVE  k[2] \in 1..enqueued_messages
      <4>1. t = "enqueuer"
        BY <1>2, <3>1 DEF Thread
      <4>2. k = <<Self, enqueued_messages>> /\ k \in Packets
        BY <1>2, <4>1
      <4>3. enqueued_messages \in 1..msgs_to_send_count
        BY <4>2, PeerAssumption, BoundsAssumption DEF Packets
      <4> QED
        BY <4>2, <4>3, BoundsAssumption
    <3> QED
      BY <3>1
  <2> QED
    BY <1>1, <1>2, <2>1 DEF LinkInv, OwnPackets, batch
<1>6. seen \subseteq seen' /\ seen' \subseteq Packets
  BY <1>1, <1>2 DEF LinkInv, OwnPackets
<1>7. TrueInHand' /\ TrueOnWire'
  BY <1>1, <1>3, <1>6, ThreadGoesOn DEF LinkInv, OwnPackets, k
<1>8. ThreadWork'
  <2>1. /\ pc' \in [Thread -> {"idle", "insert", "check", "mark", "send"}]
        /\ payload' \in [Thread -> Payloads \cup {NoPayload}]
        /\ todo' \in [Thread -> SUBSET Peer]
    BY <1>1, ThreadFacts
  <2>2. \A u \in Thread \ {t} : BroadcastWork(u)'
    <3> SUFFICES ASSUME NEW u \in Thread \ {t}
                 PROVE  BroadcastWork(u)'
      OBVIOUS
    <3>1. pc[u] = "mark" => PacketOf(payload[u]) \notin seen'
      BY <1>1, <1>4, ThreadFacts DEF BroadcastWork
    <3> QED
      BY <1>3, <1>6, <3>1, ThreadFacts, ThreadRests
  <2>3. BroadcastWork(t)'
    BY <1>1, <1>2, <1>3, PeerAssumption DEF BroadcastWork, PacketOf, k
  <2>4. EnqueuerWork'
    <3>1. CASE t = "enqueuer"
      BY <1>1, <1>3, <3>1 DEF EnqueuerWork, LinkInv, ThreadWork, batch
    <3>2. CASE t # "enqueuer"
      <4>1. \A x \in seen' \ seen : x[1] # Self
        BY <1>1, <1>2, <3>2 DEF Thread
      <4>2. pc'["enqueuer"] = pc["enqueuer"] /\ payload'["enqueuer"] = payload["enqueuer"]
        BY <1>3, <3>2 DEF Thread
      <4> QED
        BY <1>1, <4>1, <4>2, EnqueuerRests
    <3> QED
      BY <3>1, <3>2
  <2>5. ReceiverWork'
    <3>1. CASE t = "receiver"
      BY <1>2, <1>3, <3>1 DEF ReceiverWork
    <3>2. CASE t # "receiver"
      BY <1>3, <1>6, <3>2, ReceiverRests DEF Thread
    <3> QED
      BY <3>1, <3>2
  <2> QED
    BY <2>1, <2>2, <2>3, <2>4, <2>5 DEF ThreadWork
<1>9. ASSUME NEW q \in Peer, NEW x \in Packets
      PROVE  InCirculation(q, x)' = IF x = k THEN InCirculation(q, x) + 1
                                    ELSE InCirculation(q, x)
  <2> DEFINE one == IF x = k THEN 1 ELSE 0
             c == InQueues(q, x)
             d == InQueues(q, x)'
             e(u) == StillToSend(u, q, x)
             f(u) == StillToSend(u, q, x)'
  <2>1. d = c /\ c \in Nat /\ \A u : e(u) \in {0, 1}
    BY <1>1, QueuesSame, CountsAreNumbers DEF LinkInv
  <2>2. f(t) = one /\ e(t) = 0
    BY <1>2, <1>3 DEF StillToSend, PacketOf, k
  <2>3. \A u \in Thread \ {t} : f(u) = e(u)
    BY <1>3 DEF StillToSend, PacketOf
  <2>4. /\ InCirculation(q, x) = c + e("enqueuer") + e("receiver")
        /\ InCirculation(q, x)' = d + f("enqueuer") + f("receiver")
    BY CirculationIs, CirculationIsNext
  <2>5. one \in Nat
    OBVIOUS
  <2> HIDE DEF c, d, e, f, one
  <2>6. InCirculation(q, x)' = InCirculation(q, x) + one
    <3>1. CASE t = "enqueuer"
      <4>1. f("receiver") = e("receiver")
        BY <2>3, <3>1 DEF Thread
      <4> QED
        BY <2>1, <2>2, <2>4, <2>5, <3>1, <4>1
    <3>2. CASE t = "receiver"
      <4>1. f("enqueuer") = e("enqueuer")
        BY <2>3, <3>2 DEF Thread
      <4> QED
        BY <2>1, <2>2, <2>4, <2>5, <3>2, <4>1
    <3> QED
      BY <3>1, <3>2 DEF Thread
  <2>7. InCirculation(q, x) \in Nat
    BY <2>1, <2>4
  <2> QED
    BY <2>6, <2>7 DEF one
<1>10. OneCopy'
  BY <1>1, <1>2, <1>9, OneCopyMade DEF LinkInv
<1> QED
  BY <1>5, <1>7, <1>8, <1>10 DEF LinkInv

\* The loop goes through the peers.
LEMMA NextPeer ==
  ASSUME LinkInv, NEW t \in Thread, pc[t] = "send"
  PROVE  Min(todo[t]) \in todo[t] /\ todo[t] \subseteq Peer
<1>1. todo[t] # {} /\ todo[t] \in SUBSET Peer
  BY ThreadFacts DEF BroadcastWork
<1>2. todo[t] \in SUBSET Nat
  BY <1>1, PeerAssumption
<1>3. \E n \in todo[t] : \A m \in todo[t] : n <= m
  BY <1>1, <1>2, LeastNat
<1> QED
  BY <1>1, <1>3 DEF Min

LEMMA SendCopyLink ==
  ASSUME LinkInv, NEW t \in Thread, SendCopy(t)
  PROVE  LinkInv'
<1> DEFINE q == Min(todo[t])
           k == PacketOf(payload[t])
           m == [recipient |-> q, payload |-> payload[t]]
           done == todo[t] = {q}
<1>1. /\ pc[t] = "send"
      /\ sending_queue' = Append(sending_queue, m)
      /\ todo' = [todo EXCEPT ![t] = @ \ {q}]
      /\ pc' = [pc EXCEPT ![t] = IF done THEN "idle" ELSE "send"]
      /\ payload' = [payload EXCEPT ![t] = IF done THEN NoPayload ELSE @]
      /\ UNCHANGED <<batch, retrans_queue, sending, retransmitting, network, seen, acked>>
  BY DEF SendCopy, delivered
<1>2. q \in todo[t] /\ q \in Peer
  BY <1>1, NextPeer
<1>3. /\ payload[t] \in Payloads /\ k \in Packets
      /\ payload[t].sender_id = Self /\ ~payload[t].is_ack
      /\ k \in seen
      /\ t = "receiver" => payload[t].owner_id # Self
  BY <1>1, WorkIs, ThreadFacts DEF BroadcastWork
<1> HIDE DEF q, done
<1>4. m.recipient = q /\ m.payload = payload[t]
  OBVIOUS
<1>5. m \in Message /\ IsTrue(m)
  BY <1>2, <1>3, <1>4, MessageIs DEF IsTrue
<1> HIDE DEF m, k
<1>6. /\ pc'[t] = (IF done THEN "idle" ELSE "send")
      /\ payload'[t] = (IF done THEN NoPayload ELSE payload[t])
      /\ todo'[t] = todo[t] \ {q}
      /\ \A u \in Thread \ {t} : pc'[u] = pc[u] /\ payload'[u] = payload[u] /\ todo'[u] = todo[u]
  BY <1>1, ThreadFacts
<1>7. OwnPackets'
  BY <1>1 DEF LinkInv, OwnPackets, batch
<1>8. TrueOnWire'
  BY <1>1 DEF LinkInv, TrueOnWire, network, PacketOf
<1>9. True \subseteq True' /\ TruePackets \subseteq TruePackets' /\ TrueOwn \subseteq TrueOwn'
  <2>1. CASE t = "enqueuer"
    <3>1. pc'["receiver"] = pc["receiver"] /\ payload'["receiver"] = payload["receiver"]
      BY <1>6, <2>1 DEF Thread
    <3> QED
      BY <1>1, <3>1, HandRests, TrueGrows
  <2>2. CASE t = "receiver"
    <3>1. \A x : InHand(x) => x \in seen'
      BY <1>1, <1>3, <2>2 DEF InHand, k
    <3>2. \A p, x : ~Inserting(p, x)
      BY <1>1, <2>2 DEF Inserting
    <3> QED
      BY <1>1, <3>1, <3>2, TrueGrows
  <2> QED
    BY <2>1, <2>2 DEF Thread
<1>10. TrueInHand'
  <2>1. HandSets
    BY HandSetsHold DEF LinkInv
  <2>2. m \in True
    BY <1>5 DEF True
  <2>3. sending_queue' \in Seq(True')
    BY <1>1, <1>9, <2>1, <2>2 DEF HandSets
  <2>4. retrans_queue' \in Seq(TruePackets')
    BY <1>1, <1>9, <2>1 DEF HandSets
  <2>5. HandSets'
    BY <1>1, <1>9, <2>1, <2>3, <2>4 DEF HandSets
  <2> QED
    BY <2>5, HandsFromSetsNext
<1>11. ThreadWork'
  <2>1. /\ pc' \in [Thread -> {"idle", "insert", "check", "mark", "send"}]
        /\ payload' \in [Thread -> Payloads \cup {NoPayload}]
        /\ todo' \in [Thread -> SUBSET Peer]
    BY <1>1, ThreadFacts
  <2>2. \A u \in Thread \ {t} : BroadcastWork(u)'
    BY <1>1, <1>6, ThreadFacts, ThreadRests DEF BroadcastWork
  <2>3. BroadcastWork(t)'
    <3>1. CASE done
      <4>1. todo'[t] = {}
        BY <1>6, <3>1 DEF done
      <4> QED
        BY <1>6, <3>1, <4>1 DEF BroadcastWork
    <3>2. CASE ~done
      <4>1. todo'[t] # {}
        BY <1>2, <1>6, <3>2 DEF done
      <4> QED
        BY <1>1, <1>3, <1>6, <3>2, <4>1 DEF BroadcastWork, PacketOf, k
    <3> QED
      BY <3>1, <3>2
  <2>4. EnqueuerWork'
    <3>1. CASE t = "enqueuer"
      BY <1>1, <1>6, <3>1 DEF EnqueuerWork, LinkInv, ThreadWork, batch
    <3>2. CASE t # "enqueuer"
      BY <1>1, <1>6, <3>2, EnqueuerRests DEF Thread
    <3> QED
      BY <3>1, <3>2
  <2>5. ReceiverWork'
    <3>1. CASE t = "receiver"
      BY <1>3, <1>6, <3>1 DEF ReceiverWork
    <3>2. CASE t # "receiver"
      BY <1>1, <1>6, <3>2, ReceiverRests DEF Thread
    <3> QED
      BY <3>1, <3>2
  <2> QED
    BY <2>1, <2>2, <2>3, <2>4, <2>5 DEF ThreadWork
<1>12. ASSUME NEW p \in Peer, NEW x \in Packets
       PROVE  InCirculation(p, x)' = InCirculation(p, x)
  <2> DEFINE one == IF p = q /\ x = k THEN 1 ELSE 0
             c == InQueues(p, x)
             d == InQueues(p, x)'
             e(u) == StillToSend(u, p, x)
             f(u) == StillToSend(u, p, x)'
  <2>1. c \in Nat /\ \A u : e(u) \in {0, 1}
    BY CountsAreNumbers DEF LinkInv
  <2>2. d = c + one
    <3> DEFINE S == CopyOf(p, x)
    <3>1. m \in S <=> p = q /\ x = k
      BY <1>3, <1>4, <1>5, CopyIs DEF k
    <3>2. sending_queue \in Seq(Message)
      BY DEF LinkInv, TrueInHand
    <3>3. Occurrences(sending_queue', S) = Occurrences(sending_queue, S)
                                             + (IF m \in S THEN 1 ELSE 0)
      BY <1>1, <1>5, <3>2, OccurrencesAppend
    <3>4. (IF m \in S THEN 1 ELSE 0) = one
      BY <3>1
    <3>5. /\ Occurrences(sending_queue, S) \in Nat
          /\ Occurrences(retrans_queue, S) \in Nat
          /\ Occurrences(sending, S) \in Nat
          /\ Occurrences(retransmitting, S) \in Nat
      BY CountsAreNumbers DEF LinkInv
    <3>6. d = Occurrences(sending_queue', S) + Occurrences(retrans_queue', S)
                + Occurrences(sending', S) + Occurrences(retransmitting', S)
      BY DEF InQueues, CopyOf
    <3>7. c = Occurrences(sending_queue, S) + Occurrences(retrans_queue, S)
                + Occurrences(sending, S) + Occurrences(retransmitting, S)
      BY DEF InQueues
    <3>8. one \in Nat
      OBVIOUS
    <3> HIDE DEF S, one, c, d
    <3> QED
      BY <1>1, <3>3, <3>4, <3>5, <3>6, <3>7, <3>8
  <2>3. e(t) = f(t) + one /\ f(t) \in {0, 1}
    <3>1. e(t) = IF p \in todo[t] /\ k = x THEN 1 ELSE 0
      BY DEF StillToSend, k
    <3>2. f(t) = IF p \in todo'[t] /\ PacketOf(payload'[t]) = x THEN 1 ELSE 0
      BY DEF StillToSend, PacketOf
    <3>3. CASE done
      <4>1. todo[t] = {q} /\ todo'[t] = {}
        BY <1>6, <3>3 DEF done
      <4> QED
        BY <3>1, <3>2, <4>1
    <3>4. CASE ~done
      BY <1>2, <1>6, <3>1, <3>2, <3>4 DEF k
    <3> QED
      BY <3>3, <3>4
  <2>4. \A u \in Thread \ {t} : f(u) = e(u)
    BY <1>6 DEF StillToSend, PacketOf
  <2>5. /\ InCirculation(p, x) = c + e("enqueuer") + e("receiver")
        /\ InCirculation(p, x)' = d + f("enqueuer") + f("receiver")
    BY CirculationIs, CirculationIsNext
  <2>6. one \in Nat
    OBVIOUS
  <2> HIDE DEF c, d, e, f, one
  <2>7. CASE t = "enqueuer"
    <3>1. f("receiver") = e("receiver") /\ e("receiver") \in {0, 1}
      BY <2>1, <2>4, <2>7 DEF Thread
    <3> QED
      BY <2>1, <2>2, <2>3, <2>5, <2>6, <2>7, <3>1
  <2>8. CASE t = "receiver"
    <3>1. f("enqueuer") = e("enqueuer") /\ e("enqueuer") \in {0, 1}
      BY <2>1, <2>4, <2>8 DEF Thread
    <3> QED
      BY <2>1, <2>2, <2>3, <2>5, <2>6, <2>8, <3>1
  <2> QED
    BY <2>7, <2>8 DEF Thread
<1>13. OneCopy'
  BY <1>1, <1>12, OneCopyPassedOn DEF LinkInv
<1> QED
  BY <1>7, <1>8, <1>10, <1>11, <1>13 DEF LinkInv

\* What arrives, a packet or an acknowledgement, is of a peer, and of a packet
\* marked as seen unless it is a packet of a peer.
LEMMA ReceiveLink ==
  ASSUME LinkInv, NEW p \in Payloads, Receive(p), p.sender_id \in Peer,
         p.is_ack \/ p.owner_id = Self => PacketOf(p) \in seen,
         TrueOnWire'
  PROVE  LinkInv'
<1> DEFINE answer == IF p.is_ack THEN <<>> ELSE <<Ack(p)>>
           k == PacketOf(p)
           a == [p EXCEPT !.is_ack = TRUE]
<1>0. "enqueuer" \in Thread /\ "receiver" \in Thread /\ \A t \in Thread : t = "enqueuer" \/ t = "receiver"
  BY DEF Thread
<1>1. /\ pc["receiver"] = "idle"
      /\ pc' = [pc EXCEPT !["receiver"] = "insert"]
      /\ payload' = [payload EXCEPT !["receiver"] = p]
      /\ sending_queue' = IF p.is_ack THEN sending_queue ELSE Append(sending_queue, Ack(p))
      /\ UNCHANGED <<batch, todo, retrans_queue, sending, retransmitting, seen, acked>>
  BY DEF Receive, delivered
<1>2. k \in Packets
  BY PayloadIs
<1>3. a \in Payloads /\ PacketOf(a) = k /\ a.is_ack
  BY Acknowledged
<1>4. Ack(p) = [recipient |-> p.sender_id, payload |-> a]
  BY DEF Ack
<1> HIDE DEF a, k
<1>5. Ack(p).recipient = p.sender_id /\ Ack(p).payload = a
  BY <1>4
<1>6. Ack(p) \in Message
  BY <1>3, <1>4, <1>5, MessageIs
<1>7. /\ pc'["receiver"] = "insert" /\ payload'["receiver"] = p
      /\ pc'["enqueuer"] = pc["enqueuer"] /\ payload'["enqueuer"] = payload["enqueuer"]
      /\ todo["receiver"] = {}
  BY <1>0, <1>1, ThreadFacts DEF BroadcastWork
<1>8. IsTrue(Ack(p))'
  <2>1. InHand(k)' /\ Inserting(p.sender_id, k)'
    BY <1>7 DEF InHand, Inserting, PacketOf, k
  <2>2. (Vouched(p.sender_id, k))'
    BY <2>1 DEF Vouched
  <2> QED
    BY <1>3, <1>5, <2>2 DEF IsTrue
<1>9. OwnPackets'
  BY <1>1 DEF LinkInv, OwnPackets, batch
<1>10. TrueInHand'
  <2>1. HandSets
    BY HandSetsHold DEF LinkInv
  <2>2. True \subseteq True' /\ TruePackets \subseteq TruePackets' /\ TrueOwn \subseteq TrueOwn'
    <3>1. \A x : ~InHand(x)
      BY <1>1 DEF InHand
    <3>2. \A q, x : ~Inserting(q, x)
      BY <1>1 DEF Inserting
    <3> QED
      BY <1>1, <3>1, <3>2, TrueGrows
  <2>3. Ack(p) \in True'
    BY <1>6, <1>8 DEF True
  <2>4. sending_queue' \in Seq(True')
    <3>1. sending_queue \in Seq(True')
      BY <2>1, <2>2 DEF HandSets
    <3> QED
      BY <1>1, <2>3, <3>1
  <2>5. retrans_queue' \in Seq(TruePackets')
    BY <1>1, <2>1, <2>2 DEF HandSets
  <2>6. HandSets'
    BY <1>1, <2>1, <2>2, <2>4, <2>5 DEF HandSets
  <2> QED
    BY <2>6, HandsFromSetsNext
<1>11. ThreadWork'
  <2>1. /\ pc' \in [Thread -> {"idle", "insert", "check", "mark", "send"}]
        /\ payload' \in [Thread -> Payloads \cup {NoPayload}]
        /\ todo' \in [Thread -> SUBSET Peer]
    BY <1>1, ThreadFacts
  <2>2. BroadcastWork("enqueuer")'
    BY <1>0, <1>1, <1>7, ThreadFacts, ThreadRests DEF BroadcastWork
  <2>3. BroadcastWork("receiver")'
    BY <1>1, <1>7 DEF BroadcastWork
  <2>4. EnqueuerWork'
    BY <1>1, <1>7, EnqueuerRests
  <2>5. ReceiverWork'
    BY <1>1, <1>7 DEF ReceiverWork, PacketOf
  <2> QED
    BY <1>0, <2>1, <2>2, <2>3, <2>4, <2>5 DEF ThreadWork
<1>12. ASSUME NEW q \in Peer, NEW x \in Packets
       PROVE  InCirculation(q, x)' = InCirculation(q, x)
  <2> DEFINE S == CopyOf(q, x)
  <2>1. Occurrences(sending_queue', S) = Occurrences(sending_queue, S)
    <3>1. CASE p.is_ack
      BY <1>1, <3>1
    <3>2. CASE ~p.is_ack
      <4>1. Ack(p) \notin S
        BY <1>3, <1>5, <1>6, CopyIs
      <4>2. sending_queue \in Seq(Message)
        BY DEF LinkInv, TrueInHand
      <4>3. Occurrences(Append(sending_queue, Ack(p)), S)
              = Occurrences(sending_queue, S) + (IF Ack(p) \in S THEN 1 ELSE 0)
        BY <1>6, <4>2, OccurrencesAppend
      <4>4. Occurrences(sending_queue, S) \in Nat
        BY CountsAreNumbers DEF LinkInv
      <4> HIDE DEF S
      <4> QED
        BY <1>1, <3>2, <4>1, <4>3, <4>4
    <3> QED
      BY <3>1, <3>2
  <2>2. InQueues(q, x)' = InQueues(q, x)
    BY <1>1, <2>1 DEF InQueues, CopyOf
  <2>3. \A t \in Thread : StillToSend(t, q, x)' = StillToSend(t, q, x)
    BY <1>1, <1>7, ToSendSame DEF Thread
  <2> QED
    BY <1>0, <2>2, <2>3, CirculationIs, CirculationIsNext
<1>13. OneCopy'
  BY <1>1, <1>12, OneCopyPassedOn DEF LinkInv
<1> QED
  BY <1>9, <1>10, <1>11, <1>13 DEF LinkInv

LEMMA CopyReceivedLink ==
  ASSUME LinkInv, NEW q \in Peer, NEW k \in Packets, CopyReceived(q, k)
  PROVE  LinkInv'
<1>1. /\ k \in spread
      /\ copies_received < MaxCopies
      /\ copies_received' = copies_received + 1
      /\ Receive(Payload(k, q, FALSE))
      /\ UNCHANGED <<wire, spread, seen, acked>>
  BY DEF CopyReceived, Receive, delivered
<1>2. \A a \in BOOLEAN : /\ Payload(k, q, a) \in Payloads
                         /\ PacketOf(Payload(k, q, a)) = k
                         /\ Payload(k, q, a).sender_id = q
                         /\ Payload(k, q, a).is_ack = a
  BY PayloadParts DEF Payloads
<1> DEFINE p == Payload(k, q, FALSE)
<1>3. p \in Payloads /\ PacketOf(p) = k /\ p.sender_id = q /\ p.is_ack = FALSE
  BY <1>2, Zenon
<1>4. p.owner_id = k[1]
  BY <1>3, OwnerIs
<1>5. k[1] = Self => k \in seen
  BY <1>1 DEF LinkInv, TrueOnWire
<1>6. TrueOnWire'
  BY <1>1, BoundsAssumption DEF LinkInv, TrueOnWire, PacketOf
<1>7. Receive(p)
  BY <1>1
<1> HIDE DEF p
<1> QED
  BY <1>3, <1>4, <1>5, <1>6, <1>7, ReceiveLink

LEMMA AckReceivedLink ==
  ASSUME LinkInv, NEW q \in Peer, NEW k \in Packets, AckReceived(q, k)
  PROVE  LinkInv'
<1> DEFINE p == Payload(k, q, TRUE)
<1>1. p \in wire /\ Receive(p) /\ UNCHANGED <<network, seen, acked>>
  BY DEF AckReceived, Receive, delivered
<1> HIDE DEF p
<1>2. p \in Payloads /\ p.sender_id \in Peer /\ p.is_ack /\ PacketOf(p) \in seen
  BY <1>1 DEF LinkInv, TrueOnWire
<1>3. TrueOnWire'
  BY <1>1 DEF LinkInv, TrueOnWire, network, PacketOf
<1> QED
  BY <1>1, <1>2, <1>3, ReceiveLink

----------------------------------------------------------------------------
(* The theorems. *)

LEMMA StepLink == LinkInv /\ [Next]_vars => LinkInv'
<1> SUFFICES ASSUME LinkInv, [Next]_vars
             PROVE  LinkInv'
  OBVIOUS
<1>1. ASSUME NEW t \in Thread, UniformReliableBroadcast(t)
      PROVE  LinkInv'
  BY <1>1, SkipSeenLink, FoundUnseenLink, MarkAsSeenLink, SendCopyLink
  DEF UniformReliableBroadcast
<1>2. "enqueuer" \in Thread /\ "receiver" \in Thread
  BY DEF Thread
<1>3. CASE Enqueuer
  BY <1>1, <1>2, <1>3, BeginBatchLink, EnqueuePacketLink DEF Enqueuer
<1>4. CASE Receiver
  BY <1>1, <1>2, <1>4, InsertLink DEF Receiver
<1>5. CASE Sender
  BY <1>5, SenderDequeueLink, SendLostLink, PeerReceivesLink DEF Sender
<1>6. CASE Retransmitter
  BY <1>6, RetransmitterDequeueLink, RetransmitterEnqueueLink DEF Retransmitter
<1>7. ASSUME NEW q \in Peer, NEW k \in Packets, CopyReceived(q, k)
      PROVE  LinkInv'
  BY <1>7, CopyReceivedLink
<1>8. ASSUME NEW q \in Peer, NEW k \in Packets, AckReceived(q, k)
      PROVE  LinkInv'
  BY <1>8, AckReceivedLink
<1>9. CASE UNCHANGED vars
  <2>1. UNCHANGED <<batch, threads, queues, network, delivered>>
    BY <1>9 DEF vars
  <2>2. ThreadWork' /\ OwnPackets' /\ TrueOnWire'
    BY <2>1, NothingMarked
  <2>3. OneCopy'
    BY <2>1, QueuesSame, QueuesPassOn
  <2>4. TrueInHand'
    BY <2>1, HandsKept, HandRests DEF LinkInv, threads, delivered
  <2> QED
    BY <2>2, <2>3, <2>4 DEF LinkInv
<1> QED
  BY <1>3, <1>4, <1>5, <1>6, <1>7, <1>8, <1>9 DEF Next

\* LinkInv is an invariant.
THEOREM LinkInvHolds == Spec => []LinkInv
BY InitLink, StepLink, PTL DEF Spec

\* Each variable of the link layer has values of its type: what is sent, queued
\* and on its way is a packet of the program or an acknowledgement of one.
THEOREM LinkTypesCorrect == Spec => []TypeOK
<1>1. LinkInv => TypeOK
  BY ThreadFacts, BoundsAssumption DEF LinkInv, OwnPackets, TrueInHand, TrueOnWire, TypeOK
<1> QED
  BY <1>1, LinkInvHolds, PTL

\* However the threads pass it on, a packet marked as seen is with one of them or
\* in one of their queues exactly once for each peer, or about to be, until the
\* peer is known to have it, and never more than once.
THEOREM OneCopyHolds == Spec => []OneCopy
BY LinkInvHolds, PTL DEF LinkInv

\* What the sender sends names this process as its sender and is true: a packet is
\* marked as seen, and an acknowledgement is for a packet and a peer that are
\* recorded, or that the receiver is about to record.
THEOREM HonestDatagramsHolds == Spec => []HonestDatagrams
<1>1. LinkInv => HonestDatagrams
  BY DEF LinkInv, TrueInHand, IsTrue, Vouched, HonestDatagrams
<1> QED
  BY <1>1, LinkInvHolds, PTL
=============================================================================
