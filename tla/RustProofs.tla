----------------------------- MODULE RustProofs -----------------------------
(* Inv is an invariant of RustBroadcast, for every number of processes and *)
(* packets, every configuration file and every kind of broadcast; and with *)
(* a kind that delivers in order RustBroadcast implements FifoUrb.         *)
EXTENDS RustInvariant, SequencePartsProofs, SequenceTheorems

\* The processes are finitely many, and so are the senders of a packet.
LEMMA ProcFinite ==
  /\ IsFiniteSet(Proc)
  /\ \A S \in SUBSET Proc : IsFiniteSet(S) /\ Cardinality(S) \in 0..N
<1>1. IsFiniteSet(Proc) /\ Cardinality(Proc) = N
  BY FS_Interval, NAssumption DEF Proc
<1>2. ASSUME NEW S \in SUBSET Proc
      PROVE  IsFiniteSet(S) /\ Cardinality(S) \in 0..N
  <2>1. IsFiniteSet(S) /\ Cardinality(S) <= Cardinality(Proc)
    BY <1>1, FS_Subset
  <2>2. Cardinality(S) \in Nat
    BY <2>1, FS_CardinalityType
  <2> QED
    BY <1>1, <2>1, <2>2, NAssumption
<1> QED
  BY <1>1, <1>2

\* Numbers of packets and processes.
LEMMA Numbers ==
  /\ N \in Nat /\ N >= 1 /\ MaxMsgs \in Nat
  /\ Proc \subseteq Nat /\ Proc \subseteq 0..N
  /\ Uid \subseteq Nat /\ Uid \subseteq PacketID /\ PacketID \subseteq Nat
  /\ \A u \in Uid : u >= 1 /\ u + 1 \in PacketID
  /\ \A u \in PacketID : u >= 1 /\ u - 1 \in 0..MaxMsgs
  /\ 1 \in PacketID /\ 0 \in 0..MaxMsgs /\ 0 \in 0..N
  /\ N \div 2 \in Nat /\ Majority \in Nat /\ Majority > N \div 2 /\ Majority >= 1
  /\ N > 1 => Majority >= 2
<1>1. N \in Nat /\ N >= 1 /\ MaxMsgs \in Nat
  BY NAssumption, CountAssumption
<1>2. N \div 2 \in Nat /\ (N > 1 => N \div 2 >= 1)
  BY <1>1
<1>3. /\ Proc \subseteq Nat /\ Proc \subseteq 0..N
      /\ Uid \subseteq Nat /\ Uid \subseteq PacketID /\ PacketID \subseteq Nat
  BY <1>1 DEF Proc, Uid, PacketID
<1>4. /\ \A u \in Uid : u >= 1 /\ u + 1 \in PacketID
      /\ \A u \in PacketID : u >= 1 /\ u - 1 \in 0..MaxMsgs
      /\ 1 \in PacketID /\ 0 \in 0..MaxMsgs /\ 0 \in 0..N
  BY <1>1 DEF Uid, PacketID
<1>5. /\ Majority \in Nat /\ Majority > N \div 2 /\ Majority >= 1
      /\ N > 1 => Majority >= 2
  BY <1>2 DEF Majority
<1> QED
  BY <1>1, <1>2, <1>3, <1>4, <1>5

\* Updating one entry of a three-level function.
LEMMA Update3 ==
  ASSUME NEW A, NEW B, NEW C, NEW D, NEW f \in [A -> [B -> [C -> D]]],
         NEW a \in A, NEW b \in B, NEW c \in C, NEW d \in D
  PROVE  [f EXCEPT ![a][b][c] = d] \in [A -> [B -> [C -> D]]]
<1>1. f[a] \in [B -> [C -> D]] /\ f[a][b] \in [C -> D]
  OBVIOUS
<1>2. [f[a][b] EXCEPT ![c] = d] \in [C -> D]
  BY <1>1
<1>3. [f[a] EXCEPT ![b] = [f[a][b] EXCEPT ![c] = d]] \in [B -> [C -> D]]
  BY <1>1, <1>2
<1>4. [f EXCEPT ![a] = [f[a] EXCEPT ![b] = [f[a][b] EXCEPT ![c] = d]]]
        \in [A -> [B -> [C -> D]]]
  BY <1>3
<1> QED
  BY <1>4

\* Reading an entry after updating one entry of a three-level function.
LEMMA Entry3 ==
  ASSUME NEW A, NEW B, NEW C, NEW D, NEW f \in [A -> [B -> [C -> D]]],
         NEW a \in A, NEW b \in B, NEW c \in C, NEW d,
         NEW x \in A, NEW y \in B, NEW z \in C
  PROVE  [f EXCEPT ![a][b][c] = d][x][y][z] =
           IF x = a /\ y = b /\ z = c THEN d ELSE f[x][y][z]
OBVIOUS

\* The fields of the payload a thread is working on.
LEMMA PayloadInHand ==
  ASSUME ThreadWork, NEW p \in Proc, NEW t \in Thread, pc[p][t] # "idle"
  PROVE  /\ payload[p][t] \in Payload
         /\ payload[p][t].sender_id \in Proc
         /\ payload[p][t].owner_id \in Proc
         /\ payload[p][t].packet_uid \in Uid
         /\ payload[p][t].vector_clock \in Clock
         /\ payload[p][t].is_ack \in BOOLEAN
BY DEF ThreadWork, Payload

\* The fields of a payload on the network.
LEMMA PayloadSent ==
  ASSUME TypeOK, NEW k \in net
  PROVE  /\ k.destination \in Proc
         /\ k.payload \in Payload
         /\ k.payload.sender_id \in Proc
         /\ k.payload.owner_id \in Proc
         /\ k.payload.packet_uid \in Uid
         /\ k.payload.vector_clock \in Clock
         /\ k.payload.is_ack \in BOOLEAN
BY DEF TypeOK, Message, Payload

\* NoClock is not a clock.
LEMMA NoClockIsNone == NoClock \notin Clock
<1>1. ASSUME NoClock \in Clock
      PROVE  FALSE
  <2>1. DOMAIN NoClock = Proc
    BY <1>1 DEF Clock
  <2>2. DOMAIN NoClock = {}
    BY DEF NoClock
  <2>3. 1 \in Proc
    BY Numbers DEF Proc
  <2> QED
    BY <2>1, <2>2, <2>3
<1> QED
  BY <1>1

\* What the kinds of broadcast ask before a delivery.
LEMMA CanDeliverCases ==
  ASSUME TypeOK, NEW p, NEW o, NEW u
  PROVE  /\ CanDeliver(p, o, u) /\ kind \notin {"Beb", "Rb"} => CanUrbDeliver(p, o, u)
         /\ CanDeliver(p, o, u) /\ InOrder => CanFifobDeliver(p, o, u)
         /\ CanDeliver(p, o, u) /\ kind = "Lcb" => CanLcbDeliver(p, o, u)
         /\ CanFifobDeliver(p, o, u) /\ kind = "Fifob" => CanDeliver(p, o, u)
<1>1. kind \in {"Beb", "Rb", "Urb", "Fifob", "Lcb"}
  BY KindsAssumption DEF TypeOK
<1>2. CASE kind = "Urb"
  BY <1>2 DEF CanDeliver, InOrder
<1>3. CASE kind = "Fifob"
  BY <1>3 DEF CanDeliver, CanFifobDeliver, InOrder
<1>4. CASE kind = "Lcb"
  BY <1>4 DEF CanDeliver, CanLcbDeliver, CanFifobDeliver, InOrder
<1>5. CASE kind \in {"Beb", "Rb"}
  BY <1>5 DEF InOrder
<1> QED
  BY <1>1, <1>2, <1>3, <1>4, <1>5

----------------------------------------------------------------------------
(* What the actions change, entry by entry. *)

\* Thread t of p goes on to l with payload m; the DeliveredSet is left alone.
Moves(p, t, l, m) ==
  /\ pc' = [pc EXCEPT ![p][t] = l]
  /\ payload' = [payload EXCEPT ![p][t] = m]
  /\ UNCHANGED <<kind, setVars, lock, deliverable>>

\* Only the thread that moves changes place and payload.
LEMMA MovesEffect ==
  ASSUME TypeOK, NEW p \in Proc, NEW t \in Thread, NEW l, NEW m, Moves(p, t, l, m)
  PROVE  /\ \A q \in Proc, r \in Thread :
              /\ pc'[q][r] = IF q = p /\ r = t THEN l ELSE pc[q][r]
              /\ payload'[q][r] = IF q = p /\ r = t THEN m ELSE payload[q][r]
         /\ UNCHANGED <<kind, acked, acked_counter, received_up_to, undelivered, set,
                        vector_clock, lock, deliverable>>
BY DEF Moves, TypeOK, setVars

\* The sender, owner and number of the packet that insert is to record.
InHand(p, t, s, o, u) ==
  /\ s = IF pc[p][t] = "mark" THEN p ELSE payload[p][t].sender_id
  /\ o = payload[p][t].owner_id
  /\ u = payload[p][t].packet_uid

\* What insert changes up to try_delivering, entry by entry.
InsertChanges(p, t, s, o, u) ==
  /\ \A q, r, x \in Proc : acked'[q][r][x] =
       IF q = p /\ r = s /\ x = o THEN acked[p][s][o] \cup {u} ELSE acked[q][r][x]
  /\ \A q, x \in Proc, v \in Uid : acked_counter'[q][x][v] =
       IF q = p /\ x = o /\ v = u /\ u \notin acked[p][s][o]
       THEN acked_counter[q][x][v] + 1 ELSE acked_counter[q][x][v]
  /\ \A q, x \in Proc, v \in Uid : undelivered'[q][x][v] =
       IF q = p /\ x = o /\ v = u /\ u \notin set[p][o]
       THEN payload[p][t].vector_clock ELSE undelivered[q][x][v]
  /\ \A q \in Proc, r \in Thread : pc'[q][r] =
       IF q = p /\ r = t
       THEN IF pc[p][t] = "mark" THEN "marking" ELSE "inserting"
       ELSE pc[q][r]
  /\ \A q \in Proc : lock'[q] = IF q = p THEN t ELSE lock[q]
  /\ \A q \in Proc : deliverable'[q] =
       IF q = p THEN IF u \in set[p][o] THEN <<>>
                     ELSE <<[owner_id |-> o, packet_uid |-> u]>>
                ELSE deliverable[q]
  /\ UNCHANGED <<kind, received_up_to, set, vector_clock, payload, enqueued, log,
                 net>>

\* insert up to try_delivering.
LEMMA InsertEffect ==
  ASSUME TypeOK, NEW p \in Proc, NEW t \in Thread, Insert(p, t),
         NEW s \in Proc, NEW o \in Proc, NEW u \in Uid, InHand(p, t, s, o, u)
  PROVE  InsertChanges(p, t, s, o, u)
<1>1. ASSUME NEW q \in Proc, NEW r \in Proc, NEW x \in Proc
      PROVE  acked'[q][r][x] =
               IF q = p /\ r = s /\ x = o THEN acked[p][s][o] \cup {u}
                                          ELSE acked[q][r][x]
  <2> DEFINE new == acked[p][s][o] \cup {u}
  <2>1. acked' = [acked EXCEPT ![p][s][o] = new]
    BY DEF Insert, InHand
  <2>2. acked \in [Proc -> [Proc -> [Proc -> SUBSET Uid]]]
    BY DEF TypeOK
  <2>3. acked'[q][r][x] = IF q = p /\ r = s /\ x = o THEN new ELSE acked[q][r][x]
    <3> HIDE DEF new
    <3> QED
      BY <2>1, <2>2, Entry3
  <2> QED
    BY <2>3
<1>2. ASSUME NEW q \in Proc, NEW x \in Proc, NEW v \in Uid
      PROVE  acked_counter'[q][x][v] =
               IF q = p /\ x = o /\ v = u /\ u \notin acked[p][s][o]
               THEN acked_counter[q][x][v] + 1 ELSE acked_counter[q][x][v]
  <2> DEFINE new == IF u \in acked[p][s][o] THEN acked_counter[p][o][u]
                                            ELSE acked_counter[p][o][u] + 1
  <2>1. acked_counter' = [acked_counter EXCEPT ![p][o][u] = new]
    BY DEF Insert, InHand, AlreadyAcked
  <2>2. acked_counter \in [Proc -> [Proc -> [Uid -> 0..N]]]
    BY DEF TypeOK
  <2>3. acked_counter'[q][x][v] =
          IF q = p /\ x = o /\ v = u THEN new ELSE acked_counter[q][x][v]
    <3> HIDE DEF new
    <3> QED
      BY <2>1, <2>2, Entry3
  <2> QED
    BY <2>3
<1>3. ASSUME NEW q \in Proc, NEW x \in Proc, NEW v \in Uid
      PROVE  undelivered'[q][x][v] =
               IF q = p /\ x = o /\ v = u /\ u \notin set[p][o]
               THEN payload[p][t].vector_clock ELSE undelivered[q][x][v]
  <2> DEFINE new == IF u \in set[p][o] THEN undelivered[p][o][u]
                                       ELSE payload[p][t].vector_clock
  <2>1. undelivered' = [undelivered EXCEPT ![p][o][u] = new]
    BY DEF Insert, InHand
  <2>2. undelivered \in [Proc -> [Proc -> [Uid -> Clock \cup {NoClock}]]]
    BY DEF TypeOK
  <2>3. undelivered'[q][x][v] =
          IF q = p /\ x = o /\ v = u THEN new ELSE undelivered[q][x][v]
    <3> HIDE DEF new
    <3> QED
      BY <2>1, <2>2, Entry3
  <2> QED
    BY <2>3
<1>4. \A q \in Proc, r \in Thread : pc'[q][r] =
        IF q = p /\ r = t THEN IF pc[p][t] = "mark" THEN "marking" ELSE "inserting"
                          ELSE pc[q][r]
  BY DEF Insert, TypeOK
<1>5. \A q \in Proc : lock'[q] = IF q = p THEN t ELSE lock[q]
  BY DEF Insert, TypeOK
<1>6. \A q \in Proc : deliverable'[q] =
        IF q = p THEN IF u \in set[p][o] THEN <<>>
                      ELSE <<[owner_id |-> o, packet_uid |-> u]>>
                 ELSE deliverable[q]
  BY DEF Insert, TypeOK, InHand
<1>7. UNCHANGED <<kind, received_up_to, set, vector_clock, payload, enqueued, log, net>>
  BY DEF Insert
<1> QED
  BY <1>1, <1>2, <1>3, <1>4, <1>5, <1>6, <1>7 DEF InsertChanges

\* What the delivery of packet u of o by p needs and changes.
DeliverChanges(p, o, u) ==
  /\ undelivered[p][o][u] # NoClock
  /\ CanDeliver(p, o, u)
  /\ deliverable[p] # <<>>
  /\ Last(deliverable[p]) = [owner_id |-> o, packet_uid |-> u]
  /\ log' = [log EXCEPT ![p] = Append(@, Delivery(o, u))]
  /\ \A q, x \in Proc, v \in Uid : undelivered'[q][x][v] =
       IF q = p /\ x = o /\ v = u THEN NoClock ELSE undelivered[q][x][v]
  /\ \A q, x \in Proc : set'[q][x] =
       IF q = p /\ x = o THEN set[p][o] \cup {u} ELSE set[q][x]
  /\ \A q, x \in Proc : received_up_to'[q][x] =
       IF q = p /\ x = o /\ InOrder THEN u + 1 ELSE received_up_to[q][x]
  /\ \A q, x \in Proc : vector_clock'[q][x] =
       IF q = p /\ x = o /\ kind = "Lcb" THEN vector_clock[q][x] + 1
                                         ELSE vector_clock[q][x]
  /\ \A q \in Proc : deliverable'[q] =
       IF q = p
       THEN Front(deliverable[p])
              \o (IF InOrder THEN NextTried(o, u) ELSE <<>>)
              \o (IF kind = "Lcb" THEN AffectedTried(p, o, u) ELSE <<>>)
       ELSE deliverable[q]
  /\ UNCHANGED <<kind, acked, acked_counter, lock, pc, payload, enqueued, net>>

\* One delivery of try_delivering: packet u of o, whose payload is stored and
\* which the kind of broadcast allows to deliver.
LEMMA DeliverEffect ==
  ASSUME TypeOK, NEW p \in Proc, NEW t \in Thread, Deliver(p, t)
  PROVE  \E o \in Proc, u \in Uid : DeliverChanges(p, o, u)
<1> DEFINE o == Last(deliverable[p]).owner_id
           u == Last(deliverable[p]).packet_uid
<1>1. /\ o \in Proc /\ u \in Uid
      /\ deliverable[p] # <<>>
      /\ undelivered[p][o][u] # NoClock
      /\ CanDeliver(p, o, u)
  BY DEF Deliver, CanDeliverLast
<1>2. Last(deliverable[p]) = [owner_id |-> o, packet_uid |-> u]
  <2>1. deliverable[p] \in Seq(Deliverable)
    BY DEF TypeOK
  <2>2. Last(deliverable[p]) \in Deliverable
    BY <1>1, <2>1 DEF Last
  <2> QED
    BY <2>2 DEF Deliverable
<1>3. log' = [log EXCEPT ![p] = Append(@, Delivery(o, u))]
  BY DEF Deliver, Delivery
<1>4. \A q, x \in Proc, v \in Uid : undelivered'[q][x][v] =
        IF q = p /\ x = o /\ v = u THEN NoClock ELSE undelivered[q][x][v]
  <2>1. undelivered \in [Proc -> [Proc -> [Uid -> Clock \cup {NoClock}]]]
    BY DEF TypeOK
  <2>2. undelivered' = [undelivered EXCEPT ![p][o][u] = NoClock]
    BY DEF Deliver
  <2> HIDE DEF o, u
  <2> QED
    BY <1>1, <2>1, <2>2, Entry3
<1>5. \A q, x \in Proc : set'[q][x] =
        IF q = p /\ x = o THEN set[p][o] \cup {u} ELSE set[q][x]
  <2>1. set' = [set EXCEPT ![p][o] = @ \cup {u}]
    BY DEF Deliver
  <2>2. set \in [Proc -> [Proc -> SUBSET Uid]]
    BY DEF TypeOK
  <2> HIDE DEF o, u
  <2> QED
    BY <1>1, <2>1, <2>2
<1>6. \A q, x \in Proc : received_up_to'[q][x] =
        IF q = p /\ x = o /\ InOrder THEN u + 1 ELSE received_up_to[q][x]
  <2> DEFINE new == IF InOrder THEN u + 1 ELSE received_up_to[p][o]
  <2>1. received_up_to' = [received_up_to EXCEPT ![p][o] = new]
    BY DEF Deliver, InOrder
  <2>2. received_up_to \in [Proc -> [Proc -> PacketID]]
    BY DEF TypeOK
  <2>3. \A q, x \in Proc : received_up_to'[q][x] =
          IF q = p /\ x = o THEN new ELSE received_up_to[q][x]
    <3> HIDE DEF o, u, new
    <3> QED
      BY <1>1, <2>1, <2>2
  <2> QED
    BY <2>3
<1>7. \A q, x \in Proc : vector_clock'[q][x] =
        IF q = p /\ x = o /\ kind = "Lcb" THEN vector_clock[q][x] + 1
                                          ELSE vector_clock[q][x]
  <2> DEFINE new == IF kind = "Lcb" THEN vector_clock[p][o] + 1 ELSE vector_clock[p][o]
  <2>1. vector_clock' = [vector_clock EXCEPT ![p][o] = new]
    BY DEF Deliver
  <2>2. vector_clock \in [Proc -> [Proc -> 0..MaxMsgs]]
    BY DEF TypeOK, Clock
  <2>3. \A q, x \in Proc : vector_clock'[q][x] =
          IF q = p /\ x = o THEN new ELSE vector_clock[q][x]
    <3> HIDE DEF o, u, new
    <3> QED
      BY <1>1, <2>1, <2>2
  <2> QED
    BY <2>3
<1>8. \A q \in Proc : deliverable'[q] =
        IF q = p
        THEN Front(deliverable[p])
               \o (IF InOrder THEN NextTried(o, u) ELSE <<>>)
               \o (IF kind = "Lcb" THEN AffectedTried(p, o, u) ELSE <<>>)
        ELSE deliverable[q]
  BY DEF Deliver, TypeOK, InOrder
<1>9. UNCHANGED <<kind, acked, acked_counter, lock, pc, payload, enqueued, net>>
  BY DEF Deliver
<1> HIDE DEF o, u
<1> QED
  BY <1>1, <1>2, <1>3, <1>4, <1>5, <1>6, <1>7, <1>8, <1>9 DEF DeliverChanges

\* What the return of insert changes.
ReturnChanges(p, t) ==
  /\ pc[p][t] \in {"inserting", "marking"}
  /\ \A q \in Proc, r \in Thread :
       /\ pc'[q][r] = IF q = p /\ r = t
            THEN IF pc[p][t] = "inserting" /\ kind # "Beb" THEN "check" ELSE "idle"
            ELSE pc[q][r]
       /\ payload'[q][r] = IF q = p /\ r = t
            THEN IF pc[p][t] = "inserting" /\ kind # "Beb" THEN payload[p][t]
                                                           ELSE NoPayload
            ELSE payload[q][r]
  /\ \A q \in Proc : lock'[q] = IF q = p THEN "free" ELSE lock[q]
  /\ \A q \in Proc : deliverable'[q] = IF q = p THEN <<>> ELSE deliverable[q]
  /\ UNCHANGED <<kind, acked, acked_counter, received_up_to, undelivered, set,
                 vector_clock, enqueued, log, net>>

\* The return of insert: the DeliveredSet is left alone.
LEMMA InsertReturnEffect ==
  ASSUME TypeOK, NEW p \in Proc, NEW t \in Thread, InsertReturn(p, t)
  PROVE  ReturnChanges(p, t)
<1>1. CASE pc[p][t] = "inserting" /\ kind # "Beb"
  BY <1>1 DEF InsertReturn, ReturnChanges, TypeOK, setVars
<1>2. CASE ~(pc[p][t] = "inserting" /\ kind # "Beb")
  BY <1>2 DEF InsertReturn, ReturnChanges, TypeOK, setVars
<1> QED
  BY <1>1, <1>2

----------------------------------------------------------------------------
(* Types, action by action. *)

\* A packet recorded for one more process is counted for at most N of them.
LEMMA OneMoreAck ==
  ASSUME CounterMatchesAcks,
         NEW p \in Proc, NEW s \in Proc, NEW o \in Proc, NEW u \in Uid,
         u \notin acked[p][s][o]
  PROVE  /\ Cardinality({r \in Proc : u \in acked[p][r][o]} \cup {s})
              = acked_counter[p][o][u] + 1
         /\ acked_counter[p][o][u] + 1 \in 0..N
<1> DEFINE K == {r \in Proc : u \in acked[p][r][o]}
<1>1. acked_counter[p][o][u] = Cardinality(K)
  BY DEF CounterMatchesAcks
<1>2. K \in SUBSET Proc /\ K \cup {s} \in SUBSET Proc /\ s \notin K
  OBVIOUS
<1>3. IsFiniteSet(K) /\ Cardinality(K \cup {s}) \in 0..N
  BY <1>2, ProcFinite
<1>4. Cardinality(K \cup {s}) = Cardinality(K) + 1
  BY <1>2, <1>3, FS_AddElement
<1> QED
  BY <1>1, <1>3, <1>4

\* insert counts a sender once, so acked_counter does not exceed N.
LEMMA InsertTypeOK ==
  ASSUME TypeOK, ThreadWork, CounterMatchesAcks,
         NEW p \in Proc, NEW t \in Thread, Insert(p, t)
  PROVE  TypeOK'
<1> DEFINE m == payload[p][t]
           s == IF pc[p][t] = "mark" THEN p ELSE m.sender_id
           o == m.owner_id
           u == m.packet_uid
<1>1. s \in Proc /\ o \in Proc /\ u \in Uid /\ m.vector_clock \in Clock
  BY PayloadInHand DEF Insert
<1>2. acked' \in [Proc -> [Proc -> [Proc -> SUBSET Uid]]]
  <2>1. acked \in [Proc -> [Proc -> [Proc -> SUBSET Uid]]]
    BY DEF TypeOK
  <2> DEFINE new == acked[p][s][o] \cup {u}
  <2>2. acked' = [acked EXCEPT ![p][s][o] = new]
    BY DEF Insert
  <2>3. new \in SUBSET Uid
    BY <1>1, <2>1
  <2> HIDE DEF m, s, o, u, new
  <2> QED
    BY <1>1, <2>1, <2>2, <2>3, Update3
<1>3. acked_counter' \in [Proc -> [Proc -> [Uid -> 0..N]]]
  <2>1. acked_counter \in [Proc -> [Proc -> [Uid -> 0..N]]]
    BY DEF TypeOK
  <2> DEFINE new == IF u \in acked[p][s][o] THEN acked_counter[p][o][u]
                                            ELSE acked_counter[p][o][u] + 1
  <2>2. acked_counter' = [acked_counter EXCEPT ![p][o][u] = new]
    BY DEF Insert, AlreadyAcked
  <2>3. u \notin acked[p][s][o] => acked_counter[p][o][u] + 1 \in 0..N
    <3> HIDE DEF m, s, o, u
    <3> QED
      BY <1>1, OneMoreAck
  <2>4. new \in 0..N
    <3> HIDE DEF m, s, o, u
    <3> QED
      BY <1>1, <2>1, <2>3
  <2> HIDE DEF m, s, o, u, new
  <2> QED
    BY <1>1, <2>1, <2>2, <2>4, Update3
<1>4. undelivered' \in [Proc -> [Proc -> [Uid -> Clock \cup {NoClock}]]]
  <2>1. undelivered \in [Proc -> [Proc -> [Uid -> Clock \cup {NoClock}]]]
    BY DEF TypeOK
  <2> DEFINE new == IF u \in set[p][o] THEN undelivered[p][o][u] ELSE m.vector_clock
             E   == Clock \cup {NoClock}
  <2>2. undelivered' = [undelivered EXCEPT ![p][o][u] = new]
    BY DEF Insert
  <2>3. new \in E
    <3> HIDE DEF m, s, o, u
    <3> QED
      BY <1>1, <2>1
  <2> HIDE DEF m, s, o, u, new, E
  <2>4. undelivered \in [Proc -> [Proc -> [Uid -> E]]]
    BY <2>1 DEF E
  <2>5. undelivered' \in [Proc -> [Proc -> [Uid -> E]]]
    BY <1>1, <2>2, <2>3, <2>4, Update3
  <2> QED
    BY <2>5 DEF E
<1>5. lock' \in [Proc -> Thread \cup {"free"}]
  BY DEF Insert, TypeOK
<1>6. deliverable' \in [Proc -> Seq(Deliverable)]
  <2>1. [owner_id |-> o, packet_uid |-> u] \in Deliverable
    BY <1>1, Numbers DEF Deliverable
  <2> DEFINE new == IF u \in set[p][o] THEN <<>> ELSE <<[owner_id |-> o, packet_uid |-> u]>>
  <2>2. deliverable' = [deliverable EXCEPT ![p] = new]
    BY DEF Insert
  <2>3. new \in Seq(Deliverable)
    <3> HIDE DEF m, o, u
    <3> QED
      BY <2>1
  <2> HIDE DEF new
  <2> QED
    BY <2>2, <2>3 DEF TypeOK
<1>7. pc' \in [Proc -> [Thread -> Label]]
  BY DEF Insert, TypeOK, Label
<1>8. /\ received_up_to' \in [Proc -> [Proc -> PacketID]]
      /\ set' \in [Proc -> [Proc -> SUBSET Uid]]
      /\ vector_clock' \in [Proc -> Clock]
      /\ payload' \in [Proc -> [Thread -> Payload \cup {NoPayload}]]
      /\ enqueued' \in [Proc -> 0..MaxMsgs]
      /\ log' \in [Proc -> Seq(LogEvent)]
      /\ net' \in SUBSET Message
      /\ kind' \in kinds
  BY DEF Insert, TypeOK
<1> QED
  BY <1>2, <1>3, <1>4, <1>5, <1>6, <1>7, <1>8 DEF TypeOK

\* The nodes affected by a process are numbers of lines.
LEMMA AffectedTyped ==
  ASSUME TypeOK, NEW p \in Proc, NEW o \in Proc, NEW u \in Uid
  PROVE  AffectedTried(p, o, u) \in Seq(Deliverable)
<1> DEFINE nodes   == AffectedNodes(o)
           upTo(a) == CASE a = o -> u + 1
                        [] a \in Proc \ {o} -> received_up_to[p][a]
                        [] OTHER -> 1
<1>1. nodes \in Seq(0..N)
  <2>1. [i \in 1..N |-> i - 1] \in Seq(0..N)
    BY Numbers
  <2> QED
    BY <2>1, KeptElements DEF AffectedNodes
<1> HIDE DEF nodes
<1>2. /\ Len(nodes) \in Nat
      /\ DOMAIN nodes = 1..Len(nodes)
      /\ \A i \in DOMAIN nodes : nodes[i] \in 0..N
  <2>1. \A S, r : r \in Seq(S) =>
          Len(r) \in Nat /\ DOMAIN r = 1..Len(r) /\ \A i \in DOMAIN r : r[i] \in S
    OBVIOUS
  <2> QED
    BY <1>1, <2>1, Zenon
<1>3. \A a \in 0..N : upTo(a) \in PacketID
  <2> SUFFICES ASSUME NEW a \in 0..N
               PROVE  upTo(a) \in PacketID
    OBVIOUS
  <2>1. CASE a = o
    BY <2>1, Numbers
  <2>2. CASE a \in Proc \ {o}
    BY <2>2 DEF TypeOK
  <2>3. CASE a # o /\ a \notin Proc
    BY <2>3, Numbers
  <2> QED
    BY <2>1, <2>2, <2>3
<1>4. AffectedTried(p, o, u) =
        [i \in 1..Len(nodes) |-> [owner_id |-> nodes[i], packet_uid |-> upTo(nodes[i])]]
  BY <1>2 DEF AffectedTried, nodes
<1> HIDE DEF upTo
<1>5. \A i \in 1..Len(nodes) :
        [owner_id |-> nodes[i], packet_uid |-> upTo(nodes[i])] \in Deliverable
  BY <1>2, <1>3 DEF Deliverable
<1> QED
  BY <1>2, <1>4, <1>5

\* A delivery in order is of the next packet, so received_up_to and vector_clock
\* stay within their bounds.
LEMMA DeliverTypeOK ==
  ASSUME TypeOK, ClockCounts, NEW p \in Proc, NEW t \in Thread, Deliver(p, t)
  PROVE  TypeOK'
<1> DEFINE o == Last(deliverable[p]).owner_id
           u == Last(deliverable[p]).packet_uid
<1>1. /\ o \in Proc /\ u \in Uid
      /\ deliverable[p] # <<>>
      /\ CanDeliver(p, o, u)
  BY DEF Deliver, CanDeliverLast
<1>2. undelivered' \in [Proc -> [Proc -> [Uid -> Clock \cup {NoClock}]]]
  <2> DEFINE E == Clock \cup {NoClock}
  <2>1. undelivered \in [Proc -> [Proc -> [Uid -> E]]] /\ NoClock \in E
    BY DEF TypeOK
  <2>2. undelivered' = [undelivered EXCEPT ![p][o][u] = NoClock]
    BY DEF Deliver
  <2> HIDE DEF o, u, E
  <2>3. undelivered' \in [Proc -> [Proc -> [Uid -> E]]]
    BY <1>1, <2>1, <2>2, Update3
  <2> QED
    BY <2>3 DEF E
<1>3. set' \in [Proc -> [Proc -> SUBSET Uid]]
  <2>1. set' = [set EXCEPT ![p][o] = @ \cup {u}]
    BY DEF Deliver
  <2> HIDE DEF o, u
  <2> QED
    BY <1>1, <2>1 DEF TypeOK
<1>4. log' \in [Proc -> Seq(LogEvent)]
  <2>1. Delivery(o, u) \in LogEvent
    BY <1>1 DEF Delivery, LogEvent
  <2>2. log' = [log EXCEPT ![p] = Append(@, Delivery(o, u))]
    BY DEF Deliver, Delivery
  <2> HIDE DEF o, u
  <2> QED
    BY <2>1, <2>2 DEF TypeOK
<1>5. received_up_to' \in [Proc -> [Proc -> PacketID]]
  <2> DEFINE new == IF InOrder THEN u + 1 ELSE received_up_to[p][o]
  <2>1. received_up_to' = [received_up_to EXCEPT ![p][o] = new]
    BY DEF Deliver, InOrder
  <2>2. received_up_to[p][o] \in PacketID /\ u + 1 \in PacketID
    <3> HIDE DEF o, u
    <3> QED
      BY <1>1, Numbers DEF TypeOK
  <2>3. new \in PacketID
    BY <2>2
  <2> HIDE DEF o, u, new
  <2> QED
    BY <1>1, <2>1, <2>3 DEF TypeOK
<1>6. vector_clock' \in [Proc -> Clock]
  <2> DEFINE new == IF kind = "Lcb" THEN vector_clock[p][o] + 1 ELSE vector_clock[p][o]
  <2>1. vector_clock' = [vector_clock EXCEPT ![p][o] = new]
    BY DEF Deliver
  <2>2. new \in 0..MaxMsgs
    <3>1. CASE kind = "Lcb"
      <4>1. u = received_up_to[p][o]
        BY <1>1, <3>1, CanDeliverCases DEF CanLcbDeliver, CanFifobDeliver
      <4>2. vector_clock[p][o] = u - 1
        BY <1>1, <3>1, <4>1 DEF ClockCounts
      <4>3. u \in 0..MaxMsgs
        BY <1>1, Numbers DEF Uid
      <4> HIDE DEF o, u
      <4> QED
        BY <3>1, <4>2, <4>3
    <3>2. CASE kind # "Lcb"
      BY <1>1, <3>2 DEF TypeOK, Clock
    <3> QED
      BY <3>1, <3>2
  <2> HIDE DEF o, u, new
  <2> QED
    BY <1>1, <2>1, <2>2 DEF TypeOK, Clock
<1>7. deliverable' \in [Proc -> Seq(Deliverable)]
  <2> DEFINE new == Front(deliverable[p])
                      \o (IF InOrder THEN NextTried(o, u) ELSE <<>>)
                      \o (IF kind = "Lcb" THEN AffectedTried(p, o, u) ELSE <<>>)
  <2>1. deliverable' = [deliverable EXCEPT ![p] = new]
    BY DEF Deliver, InOrder
  <2> HIDE DEF o, u
  <2>2. deliverable[p] \in Seq(Deliverable)
    BY DEF TypeOK
  <2>3. Front(deliverable[p]) \in Seq(Deliverable)
    BY <1>1, <2>2 DEF Front
  <2>4. NextTried(o, u) \in Seq(Deliverable)
    <3>1. [owner_id |-> o, packet_uid |-> u + 1] \in Deliverable
      BY <1>1, Numbers DEF Deliverable
    <3> QED
      BY <3>1 DEF NextTried
  <2>5. AffectedTried(p, o, u) \in Seq(Deliverable)
    BY <1>1, AffectedTyped
  <2>6. new \in Seq(Deliverable)
    BY <2>3, <2>4, <2>5
  <2> HIDE DEF new
  <2> QED
    BY <2>1, <2>6 DEF TypeOK
<1>8. /\ kind' \in kinds
      /\ acked' \in [Proc -> [Proc -> [Proc -> SUBSET Uid]]]
      /\ acked_counter' \in [Proc -> [Proc -> [Uid -> 0..N]]]
      /\ lock' \in [Proc -> Thread \cup {"free"}]
      /\ pc' \in [Proc -> [Thread -> Label]]
      /\ payload' \in [Proc -> [Thread -> Payload \cup {NoPayload}]]
      /\ enqueued' \in [Proc -> 0..MaxMsgs]
      /\ net' \in SUBSET Message
  BY DEF Deliver, TypeOK
<1> QED
  BY <1>2, <1>3, <1>4, <1>5, <1>6, <1>7, <1>8 DEF TypeOK

\* The return of insert.
LEMMA InsertReturnTypeOK ==
  ASSUME TypeOK, NEW p \in Proc, NEW t \in Thread, InsertReturn(p, t)
  PROVE  TypeOK'
<1>1. /\ pc' \in [Proc -> [Thread -> Label]]
      /\ payload' \in [Proc -> [Thread -> Payload \cup {NoPayload}]]
  <2>1. /\ pc \in [Proc -> [Thread -> Label]]
        /\ payload \in [Proc -> [Thread -> Payload \cup {NoPayload}]]
    BY DEF TypeOK
  <2>2. "check" \in Label /\ "idle" \in Label
    BY DEF Label
  <2>3. CASE pc[p][t] = "inserting" /\ kind # "Beb"
    BY <2>1, <2>2, <2>3 DEF InsertReturn
  <2>4. CASE ~(pc[p][t] = "inserting" /\ kind # "Beb")
    <3>1. /\ pc' = [pc EXCEPT ![p][t] = "idle"]
          /\ payload' = [payload EXCEPT ![p][t] = NoPayload]
      BY <2>4 DEF InsertReturn
    <3> QED
      BY <2>1, <2>2, <3>1
  <2> QED
    BY <2>3, <2>4
<1>2. /\ lock' \in [Proc -> Thread \cup {"free"}]
      /\ deliverable' \in [Proc -> Seq(Deliverable)]
  <2>1. <<>> \in Seq(Deliverable)
    OBVIOUS
  <2> QED
    BY <2>1 DEF InsertReturn, TypeOK
<1> QED
  BY <1>1, <1>2 DEF InsertReturn, TypeOK, setVars

----------------------------------------------------------------------------
(* The steps outside insert have one shape. *)

\* The payload that enqueue_broadcast_messages makes.
NewPayload(p) ==
  [sender_id |-> p, owner_id |-> p, packet_uid |-> enqueued[p] + 1,
   vector_clock |-> vector_clock[p], is_ack |-> FALSE]

Drops(p, t, l, m) ==
  l = "idle" /\ m = NoPayload /\ pc[p][t] = "check" /\ WasSeen(p, payload[p][t])

Continues(p, t, l, m) ==
  /\ pc[p][t] \in {"dispatch", "check", "send"}
  /\ l \in {"check", "send", "mark"}
  /\ m = payload[p][t]

Receives(p, t, l, m) ==
  /\ t = "receiver" /\ pc[p][t] = "idle" /\ l = "insert"
  /\ [destination |-> p, payload |-> m] \in net

Constructs(p, t, l, m) ==
  /\ t = "enqueuer" /\ pc[p][t] = "idle" /\ l = "dispatch"
  /\ enqueued[p] < MaxMsgs
  /\ m = NewPayload(p)

\* Message k is a copy of m, or its acknowledgement, in the name of p.
Copied(k, p, m) ==
  /\ k \in Message
  /\ k.payload.sender_id = p
  /\ k.payload.owner_id = m.owner_id
  /\ k.payload.packet_uid = m.packet_uid
  /\ k.payload.vector_clock = m.vector_clock

\* Thread t of p goes on to l with payload m, and sends nothing but m.
Work(p, t, l, m) ==
  /\ Moves(p, t, l, m)
  /\ \/ Drops(p, t, l, m)
     \/ Continues(p, t, l, m)
     \/ Receives(p, t, l, m)
     \/ Constructs(p, t, l, m)
  /\ enqueued' = IF l = "dispatch" THEN [enqueued EXCEPT ![p] = @ + 1] ELSE enqueued
  /\ log' = IF pc[p][t] = "dispatch"
            THEN [log EXCEPT ![p] = Append(@, [event |-> "Dispatch", owner_id |-> p,
                                               packet_uid |-> m.packet_uid])]
            ELSE log
  /\ pc[p][t] = "dispatch" => t = "enqueuer"
  /\ net \subseteq net'
  /\ \A k \in net' \ net :
       Copied(k, p, m) /\ (Receives(p, t, l, m) \/ (pc[p][t] = "send" /\ l = "mark"))

\* keep_receiving_messages.
LEMMA ReceiveWorks ==
  ASSUME TypeOK, NEW p \in Proc, NEW m, Receive(p, m)
  PROVE  Work(p, "receiver", "insert", m)
<1>1. [destination |-> p, payload |-> m] \in net /\ m \in Payload
  BY DEF Receive, TypeOK, Message
<1>2. Copied(Ack(p, m), p, m)
  BY <1>1 DEF Copied, Ack, Message, Payload
<1>3. Receives(p, "receiver", "insert", m)
  BY DEF Receives, Receive
<1>4. net \subseteq net' /\ \A k \in net' \ net : k = Ack(p, m)
  BY DEF Receive
<1>5. /\ Moves(p, "receiver", "insert", m)
      /\ pc[p]["receiver"] = "idle"
      /\ enqueued' = enqueued /\ log' = log
  BY DEF Receive, Moves
<1> QED
  BY <1>2, <1>3, <1>4, <1>5 DEF Work

\* The payload made is a payload.
LEMMA NewPayloadTyped ==
  ASSUME TypeOK, NEW p \in Proc, enqueued[p] < MaxMsgs
  PROVE  /\ NewPayload(p) \in Payload
         /\ enqueued[p] + 1 \in Uid
<1>1. enqueued[p] + 1 \in Uid
  BY Numbers DEF TypeOK, Uid
<1> QED
  BY <1>1 DEF NewPayload, Payload, TypeOK

\* enqueue_broadcast_messages, the payload.
LEMMA ConstructWorks ==
  ASSUME TypeOK, NEW p \in Proc, Construct(p)
  PROVE  Work(p, "enqueuer", "dispatch", NewPayload(p))
<1>1. enqueued[p] < MaxMsgs
  BY CountAssumption, Numbers DEF Construct, TypeOK, Proc
<1>2. Constructs(p, "enqueuer", "dispatch", NewPayload(p))
  BY <1>1 DEF Constructs, Construct
<1> QED
  BY <1>2 DEF Work, Construct, Constructs, Moves, NewPayload

\* enqueue_broadcast_messages, the log.
LEMMA DispatchWorks ==
  ASSUME TypeOK, NEW p \in Proc, Dispatch(p)
  PROVE  Work(p, "enqueuer", AfterDispatch, payload[p]["enqueuer"])
<1>1. payload' = [payload EXCEPT ![p]["enqueuer"] = payload[p]["enqueuer"]]
  BY DEF Dispatch, TypeOK, Thread
<1>2. Continues(p, "enqueuer", AfterDispatch, payload[p]["enqueuer"])
  BY DEF Continues, Dispatch, AfterDispatch
<1> QED
  BY <1>1, <1>2 DEF Work, Dispatch, Moves, AfterDispatch

\* reliable_broadcast and best_effort_broadcast.
LEMMA RelayWorks ==
  ASSUME TypeOK, ThreadWork, NEW p \in Proc, NEW t \in Thread,
         SkipSeen(p, t) \/ RelayUnseen(p, t) \/ SendCopies(p, t)
  PROVE  \E l, m : Work(p, t, l, m)
<1> DEFINE m == payload[p][t]
<1>1. payload = [payload EXCEPT ![p][t] = m]
  BY DEF TypeOK
<1>2. CASE SkipSeen(p, t)
  <2>1. Work(p, t, "idle", NoPayload)
    BY <1>2 DEF Work, SkipSeen, Moves, Drops
  <2> QED
    BY <2>1
<1>3. CASE RelayUnseen(p, t)
  <2>1. /\ pc[p][t] = "check"
        /\ pc' = [pc EXCEPT ![p][t] = "send"]
        /\ payload' = payload
        /\ UNCHANGED <<kind, setVars, lock, deliverable, enqueued, log, net>>
    BY <1>3 DEF RelayUnseen
  <2>2. Continues(p, t, "send", m)
    BY <2>1 DEF Continues
  <2>3. Moves(p, t, "send", m)
    BY <1>1, <2>1 DEF Moves
  <2>4. Work(p, t, "send", m)
    BY <2>1, <2>2, <2>3 DEF Work
  <2> QED
    BY <2>4
<1>4. CASE SendCopies(p, t)
  <2>1. /\ pc[p][t] = "send"
        /\ pc' = [pc EXCEPT ![p][t] = "mark"]
        /\ payload' = payload
        /\ net' = net \cup Copies(p, m)
        /\ UNCHANGED <<kind, setVars, lock, deliverable, enqueued, log>>
    BY <1>4 DEF SendCopies
  <2>2. Continues(p, t, "mark", m)
    BY <2>1 DEF Continues
  <2>3. Moves(p, t, "mark", m)
    BY <1>1, <2>1 DEF Moves
  <2>4. m \in Payload
    BY <2>1, PayloadInHand
  <2>5. \A k \in Copies(p, m) : Copied(k, p, m)
    <3> HIDE DEF m
    <3> QED
      BY <2>4 DEF Copies, Copied, Message, Payload
  <2>6. Work(p, t, "mark", m)
    BY <2>1, <2>2, <2>3, <2>5 DEF Work
  <2> QED
    BY <2>6
<1> QED
  BY <1>2, <1>3, <1>4

\* A step is work outside insert, or one of the three parts of insert.
LEMMA StepCases ==
  ASSUME TypeOK, ThreadWork, Next
  PROVE  \E p \in Proc, t \in Thread :
           \/ \E l, m : Work(p, t, l, m)
           \/ Insert(p, t)
           \/ Deliver(p, t)
           \/ InsertReturn(p, t)
<1>1. PICK p \in Proc : \/ \E k \in net : Receive(p, k.payload)
                        \/ Construct(p)
                        \/ Dispatch(p)
                        \/ \E t \in Thread : ThreadStep(p, t)
  BY DEF Next
<1>2. "receiver" \in Thread /\ "enqueuer" \in Thread
  BY DEF Thread
<1>3. CASE \E k \in net : Receive(p, k.payload)
  BY <1>2, <1>3, ReceiveWorks
<1>4. CASE Construct(p)
  BY <1>2, <1>4, ConstructWorks
<1>5. CASE Dispatch(p)
  BY <1>2, <1>5, DispatchWorks
<1>6. CASE \E t \in Thread : ThreadStep(p, t)
  <2>1. PICK t \in Thread : ThreadStep(p, t)
    BY <1>6
  <2>2. CASE SkipSeen(p, t) \/ RelayUnseen(p, t) \/ SendCopies(p, t)
    BY <2>2, RelayWorks
  <2>3. CASE Insert(p, t) \/ Deliver(p, t) \/ InsertReturn(p, t)
    BY <2>3
  <2> QED
    BY <2>1, <2>2, <2>3 DEF ThreadStep
<1> QED
  BY <1>1, <1>3, <1>4, <1>5, <1>6

\* What such a step changes, entry by entry.
WorkChanges(p, t, l, m) ==
  /\ \A q \in Proc, r \in Thread :
       /\ pc'[q][r] = IF q = p /\ r = t THEN l ELSE pc[q][r]
       /\ payload'[q][r] = IF q = p /\ r = t THEN m ELSE payload[q][r]
  /\ UNCHANGED <<kind, acked, acked_counter, received_up_to, undelivered, set,
                 vector_clock, lock, deliverable>>
  /\ l \in Label \ {"inserting", "marking"}
  /\ pc[p][t] \notin {"insert", "inserting", "mark", "marking"}
  /\ l # "idle" => m \in Payload
  /\ l = "idle" => m = NoPayload
  /\ net \subseteq net' /\ net' \subseteq Message

\* Work changes no more than that.
LEMMA WorkEffect ==
  ASSUME TypeOK, ThreadWork, NEW p \in Proc, NEW t \in Thread, NEW l, NEW m,
         Work(p, t, l, m)
  PROVE  WorkChanges(p, t, l, m)
<1>1. Moves(p, t, l, m)
  BY DEF Work
<1>2. l \in Label \ {"inserting", "marking"}
  BY DEF Work, Drops, Continues, Receives, Constructs, Label
<1>3. pc[p][t] \notin {"insert", "inserting", "mark", "marking"}
  BY DEF Work, Drops, Continues, Receives, Constructs
<1>4. (l # "idle" => m \in Payload) /\ (l = "idle" => m = NoPayload)
  <2>1. CASE Drops(p, t, l, m)
    BY <2>1 DEF Drops
  <2>2. CASE Continues(p, t, l, m)
    BY <2>2, PayloadInHand DEF Continues
  <2>3. CASE Receives(p, t, l, m)
    <3>1. [destination |-> p, payload |-> m] \in Message /\ l = "insert"
      BY <2>3 DEF Receives, TypeOK
    <3> QED
      BY <3>1 DEF Message
  <2>4. CASE Constructs(p, t, l, m)
    BY <2>4, NewPayloadTyped DEF Constructs
  <2> QED
    BY <2>1, <2>2, <2>3, <2>4 DEF Work
<1>5. net \subseteq net' /\ net' \subseteq Message
  BY DEF Work, Copied, TypeOK
<1> QED
  BY <1>1, <1>2, <1>3, <1>4, <1>5, MovesEffect DEF WorkChanges

\* Work keeps the types.
LEMMA WorkTypeOK ==
  ASSUME TypeOK, ThreadWork, NEW p \in Proc, NEW t \in Thread, NEW l, NEW m,
         Work(p, t, l, m)
  PROVE  TypeOK'
<1>1. /\ l \in Label
      /\ m \in Payload \cup {NoPayload}
      /\ net' \in SUBSET Message
      /\ UNCHANGED <<kind, acked, acked_counter, received_up_to, undelivered, set,
                     vector_clock, lock, deliverable>>
  BY WorkEffect DEF WorkChanges
<1>2. /\ pc' \in [Proc -> [Thread -> Label]]
      /\ payload' \in [Proc -> [Thread -> Payload \cup {NoPayload}]]
  BY <1>1 DEF Work, Moves, TypeOK
<1>3. enqueued' \in [Proc -> 0..MaxMsgs]
  <2>1. CASE l = "dispatch"
    <3>1. enqueued[p] < MaxMsgs
      BY <2>1 DEF Work, Drops, Continues, Receives, Constructs
    <3>2. enqueued[p] + 1 \in 0..MaxMsgs
      BY <3>1, Numbers DEF TypeOK
    <3>3. enqueued' = [enqueued EXCEPT ![p] = @ + 1]
      BY <2>1 DEF Work
    <3> QED
      BY <3>2, <3>3 DEF TypeOK
  <2>2. CASE l # "dispatch"
    BY <2>2 DEF Work, TypeOK
  <2> QED
    BY <2>1, <2>2
<1>4. log' \in [Proc -> Seq(LogEvent)]
  <2>1. CASE pc[p][t] = "dispatch"
    <3> DEFINE e == [event |-> "Dispatch", owner_id |-> p, packet_uid |-> m.packet_uid]
    <3>1. m \in Payload
      BY <2>1, PayloadInHand DEF Work, Drops, Continues, Receives, Constructs
    <3>2. e \in LogEvent
      BY <3>1 DEF LogEvent, Payload
    <3>3. log' = [log EXCEPT ![p] = Append(@, e)]
      BY <2>1 DEF Work
    <3> HIDE DEF e
    <3> QED
      BY <3>2, <3>3 DEF TypeOK
  <2>2. CASE pc[p][t] # "dispatch"
    BY <2>2 DEF Work, TypeOK
  <2> QED
    BY <2>1, <2>2
<1> QED
  BY <1>1, <1>2, <1>3, <1>4 DEF TypeOK

----------------------------------------------------------------------------
(* The parts of Inv that bound the counters and tie the DeliveredSet, the  *)
(* threads and the log together.                                           *)

Base ==
  /\ TypeOK
  /\ LockOwner
  /\ ThreadWork
  /\ CounterMatchesAcks
  /\ Stored
  /\ ClockCounts
  /\ LogMatches

\* A set of processes with a member has one or more.
LEMMA SomebodyCounts ==
  ASSUME NEW S \in SUBSET Proc, NEW s \in S
  PROVE  Cardinality(S) > 0
<1>1. IsFiniteSet(S) /\ Cardinality(S) \in 0..N
  BY ProcFinite
<1>2. Cardinality(S) # 0
  BY <1>1, FS_EmptySet
<1> QED
  BY <1>1, <1>2, Numbers

\* One more event in one log.
LEMMA LogAppend ==
  ASSUME TypeOK, NEW p \in Proc, NEW e, log' = [log EXCEPT ![p] = Append(@, e)]
  PROVE  /\ \A q \in Proc :
              /\ Len(log[q]) \in Nat
              /\ DOMAIN log[q] = 1..Len(log[q])
              /\ Len(log'[q]) = IF q = p THEN Len(log[q]) + 1 ELSE Len(log[q])
              /\ DOMAIN log'[q] = 1..Len(log'[q])
              /\ \A i \in 1..Len(log[q]) : log'[q][i] = log[q][i]
         /\ log'[p][Len(log[p]) + 1] = e
<1>1. \A q \in Proc : log[q] \in Seq(LogEvent)
  BY DEF TypeOK
<1>2. \A q \in Proc : log'[q] = IF q = p THEN Append(log[q], e) ELSE log[q]
  BY DEF TypeOK
<1>3. \A S, r : r \in Seq(S) => Len(r) \in Nat /\ DOMAIN r = 1..Len(r)
  OBVIOUS
<1>4. \A q \in Proc : Len(log[q]) \in Nat /\ DOMAIN log[q] = 1..Len(log[q])
  BY <1>1, <1>3
<1>5. ASSUME NEW q \in Proc
      PROVE  /\ Len(log'[q]) = IF q = p THEN Len(log[q]) + 1 ELSE Len(log[q])
             /\ DOMAIN log'[q] = 1..Len(log'[q])
             /\ \A i \in 1..Len(log[q]) : log'[q][i] = log[q][i]
  <2>1. CASE q # p
    BY <1>2, <1>4, <2>1
  <2>2. CASE q = p
    <3>1. log'[q] = Append(log[q], e)
      BY <1>2, <2>2
    <3>2. Len(log'[q]) = Len(log[q]) + 1
      BY <1>1, <3>1
    <3>3. DOMAIN log'[q] = 1..Len(log'[q])
      BY <1>1, <3>1
    <3>4. \A i \in 1..Len(log[q]) : log'[q][i] = log[q][i]
      BY <1>1, <3>1
    <3> QED
      BY <2>2, <3>2, <3>3, <3>4
  <2> QED
    BY <2>1, <2>2
<1>6. log'[p][Len(log[p]) + 1] = e
  <2>1. log'[p] = Append(log[p], e)
    BY <1>2
  <2> QED
    BY <1>1, <2>1
<1> QED
  BY <1>4, <1>5, <1>6

\* Only that event is new in a log.
LEMMA LoggedAppend ==
  ASSUME TypeOK, NEW p \in Proc, NEW e, log' = [log EXCEPT ![p] = Append(@, e)]
  PROVE  \A q \in Proc : \A x :
           LoggedBefore(q, x, Len(log[q]))' <=>
             LoggedBefore(q, x, Len(log[q])) \/ (q = p /\ x = e)
<1> SUFFICES ASSUME NEW q \in Proc, NEW x
             PROVE  (\E i \in 1..Len(log'[q]) : log'[q][i] = x) <=>
                      (\E i \in 1..Len(log[q]) : log[q][i] = x) \/ (q = p /\ x = e)
  BY DEF LoggedBefore
<1>1. CASE q # p
  BY <1>1, LogAppend
<1>2. CASE q = p
  <2>1. /\ Len(log[p]) \in Nat
        /\ Len(log'[p]) = Len(log[p]) + 1
        /\ \A i \in 1..Len(log[p]) : log'[p][i] = log[p][i]
        /\ log'[p][Len(log[p]) + 1] = e
    BY LogAppend
  <2>2. \A i \in 1..(Len(log[p]) + 1) : i \in 1..Len(log[p]) \/ i = Len(log[p]) + 1
    BY <2>1
  <2>3. Len(log[p]) + 1 \in 1..(Len(log[p]) + 1)
    BY <2>1
  <2>4. \A i \in 1..Len(log[p]) : i \in 1..(Len(log[p]) + 1)
    BY <2>1
  <2> QED
    BY <1>2, <2>1, <2>2, <2>3, <2>4
<1> QED
  BY <1>1, <1>2

\* A delivery in the log is of a packet in set.
LEMMA LoggedIsSet ==
  ASSUME TypeOK, LogMatches, NEW p \in Proc, NEW i \in DOMAIN log[p],
         log[p][i].event = "Delivery"
  PROVE  /\ log[p][i].owner_id \in Proc
         /\ log[p][i].packet_uid \in Uid
         /\ log[p][i] = Delivery(log[p][i].owner_id, log[p][i].packet_uid)
         /\ log[p][i].packet_uid \in set[p][log[p][i].owner_id]
<1>1. log[p] \in Seq(LogEvent)
  BY DEF TypeOK
<1>2. log[p][i] \in LogEvent /\ i \in 1..Len(log[p])
  BY <1>1
<1>3. /\ log[p][i].owner_id \in Proc
      /\ log[p][i].packet_uid \in Uid
      /\ log[p][i] = Delivery(log[p][i].owner_id, log[p][i].packet_uid)
  BY <1>2 DEF LogEvent, Delivery
<1>4. HasDelivered(p, log[p][i].owner_id, log[p][i].packet_uid)
  BY <1>2, <1>3 DEF HasDelivered, LoggedBefore
<1> QED
  BY <1>3, <1>4 DEF LogMatches

\* A step that delivers nothing keeps LogMatches.
LEMMA LogMatchesKeeps ==
  ASSUME TypeOK, LogMatches, UNCHANGED <<kind, set, received_up_to>>,
         \/ log' = log
         \/ \E p \in Proc : \E u : log' = [log EXCEPT ![p] =
              Append(@, [event |-> "Dispatch", owner_id |-> p, packet_uid |-> u])]
  PROVE  LogMatches'
<1>1. CASE log' = log
  BY <1>1 DEF LogMatches, HasDelivered, LoggedBefore, InOrder
<1>2. ASSUME NEW p \in Proc, NEW u, log' = [log EXCEPT ![p] =
               Append(@, [event |-> "Dispatch", owner_id |-> p, packet_uid |-> u])]
      PROVE  LogMatches'
  <2> DEFINE e == [event |-> "Dispatch", owner_id |-> p, packet_uid |-> u]
  <2>1. e.event # "Delivery" /\ \A o, v : e # Delivery(o, v)
    <3>1. e.event # "Delivery" /\ \A o, v : Delivery(o, v).event = "Delivery"
      BY DEF Delivery
    <3> QED
      BY <3>1
  <2> HIDE DEF e
  <2>2. log' = [log EXCEPT ![p] = Append(@, e)]
    BY <1>2 DEF e
  <2>3. \A q, o \in Proc, v \in Uid : HasDelivered(q, o, v)' <=> HasDelivered(q, o, v)
    <3> SUFFICES ASSUME NEW q \in Proc, NEW o \in Proc, NEW v \in Uid
                 PROVE  LoggedBefore(q, Delivery(o, v), Len(log[q]))' <=>
                          LoggedBefore(q, Delivery(o, v), Len(log[q]))
      BY DEF HasDelivered
    <3>1. Delivery(o, v) # e
      BY <2>1
    <3> QED
      BY <2>2, <3>1, LoggedAppend
  <2>4. ASSUME NEW q \in Proc, NEW i \in DOMAIN log'[q], log'[q][i].event = "Delivery"
        PROVE  i \in DOMAIN log[q] /\ log'[q][i] = log[q][i]
    <3>1. /\ Len(log[q]) \in Nat
          /\ DOMAIN log[q] = 1..Len(log[q])
          /\ Len(log'[q]) = IF q = p THEN Len(log[q]) + 1 ELSE Len(log[q])
          /\ DOMAIN log'[q] = 1..Len(log'[q])
          /\ \A j \in 1..Len(log[q]) : log'[q][j] = log[q][j]
          /\ log'[p][Len(log[p]) + 1] = e
      BY <2>2, LogAppend
    <3>2. ~(q = p /\ i = Len(log[q]) + 1)
      BY <2>1, <2>4, <3>1
    <3>3. i \in 1..Len(log[q])
      BY <2>4, <3>1, <3>2
    <3> QED
      BY <3>1, <3>3
  <2> QED
    BY <2>3, <2>4 DEF LogMatches, InOrder
<1> QED
  BY <1>1, <1>2

\* A delivery keeps LogMatches: with a kind that delivers in order it is of the
\* first packet that set does not have.
LEMMA LogMatchesDeliver ==
  ASSUME TypeOK, LogMatches, NEW p \in Proc, NEW o \in Proc, NEW u \in Uid,
         kind' = kind,
         InOrder => u = received_up_to[p][o],
         log' = [log EXCEPT ![p] = Append(@, Delivery(o, u))],
         \A q, x \in Proc : set'[q][x] =
           IF q = p /\ x = o THEN set[p][o] \cup {u} ELSE set[q][x],
         \A q, x \in Proc : received_up_to'[q][x] =
           IF q = p /\ x = o /\ InOrder THEN u + 1 ELSE received_up_to[q][x]
  PROVE  LogMatches'
<1>1. ASSUME NEW q \in Proc, NEW x \in Proc, NEW v \in Uid
      PROVE  v \in set'[q][x] <=> HasDelivered(q, x, v)'
  <2>1. HasDelivered(q, x, v)' <=>
          HasDelivered(q, x, v) \/ (q = p /\ Delivery(x, v) = Delivery(o, u))
    BY LoggedAppend DEF HasDelivered
  <2>2. Delivery(x, v) = Delivery(o, u) <=> x = o /\ v = u
    <3>1. /\ Delivery(x, v).owner_id = x /\ Delivery(x, v).packet_uid = v
          /\ Delivery(o, u).owner_id = o /\ Delivery(o, u).packet_uid = u
      BY DEF Delivery
    <3> QED
      BY <3>1
  <2>3. v \in set[q][x] <=> HasDelivered(q, x, v)
    BY DEF LogMatches
  <2>4. v \in set'[q][x] <=> v \in set[q][x] \/ (q = p /\ x = o /\ v = u)
    OBVIOUS
  <2> QED
    BY <2>1, <2>2, <2>3, <2>4
<1>2. ASSUME InOrder, NEW q \in Proc, NEW x \in Proc
      PROVE  set'[q][x] = 1..(received_up_to'[q][x] - 1)
  <2>1. set[q][x] = 1..(received_up_to[q][x] - 1)
    BY <1>2 DEF LogMatches
  <2>2. CASE q = p /\ x = o
    <3>1. /\ u \in Nat /\ u >= 1
          /\ set[p][o] = 1..(u - 1)
          /\ received_up_to'[p][o] = u + 1
          /\ set'[p][o] = set[p][o] \cup {u}
      BY <1>2, <2>1, <2>2, Numbers
    <3>2. 1..(u - 1) \cup {u} = 1..((u + 1) - 1)
      BY <3>1
    <3> QED
      BY <2>2, <3>1, <3>2
  <2>3. CASE ~(q = p /\ x = o)
    <3>1. set'[q][x] = set[q][x] /\ received_up_to'[q][x] = received_up_to[q][x]
      BY <2>3
    <3> QED
      BY <2>1, <3>1
  <2> QED
    BY <2>2, <2>3
<1>3. ASSUME InOrder, NEW q \in Proc, NEW i \in DOMAIN log'[q], NEW j \in DOMAIN log'[q],
             i < j,
             log'[q][i].event = "Delivery", log'[q][j].event = "Delivery",
             log'[q][i].owner_id = log'[q][j].owner_id
      PROVE  log'[q][i].packet_uid < log'[q][j].packet_uid
  <2> DEFINE n == Len(log[q])
  <2>1. /\ n \in Nat
        /\ DOMAIN log[q] = 1..n
        /\ DOMAIN log'[q] = IF q = p THEN 1..(n + 1) ELSE 1..n
        /\ \A k \in 1..n : log'[q][k] = log[q][k]
        /\ q = p => log'[q][n + 1] = Delivery(o, u)
    <3>1. /\ Len(log[q]) \in Nat
          /\ DOMAIN log[q] = 1..Len(log[q])
          /\ Len(log'[q]) = IF q = p THEN Len(log[q]) + 1 ELSE Len(log[q])
          /\ DOMAIN log'[q] = 1..Len(log'[q])
          /\ \A k \in 1..Len(log[q]) : log'[q][k] = log[q][k]
          /\ log'[p][Len(log[p]) + 1] = Delivery(o, u)
      BY LogAppend
    <3> QED
      BY <3>1
  <2> HIDE DEF n
  <2>2. CASE j \in 1..n
    <3>1. i \in 1..n
      BY <1>3, <2>1, <2>2
    <3> QED
      BY <1>3, <2>1, <2>2, <3>1 DEF LogMatches
  <2>3. CASE j \notin 1..n
    <3>1. q = p /\ j = n + 1 /\ i \in 1..n
      BY <1>3, <2>1, <2>3
    <3>2. log'[q][j] = Delivery(o, u) /\ log'[q][i] = log[p][i] /\ i \in DOMAIN log[p]
      BY <2>1, <3>1
    <3>3. log'[q][j].owner_id = o /\ log'[q][j].packet_uid = u
      BY <3>2 DEF Delivery
    <3>4. log[p][i].packet_uid \in set[p][o]
      BY <1>3, <3>2, <3>3, LoggedIsSet
    <3>5. set[p][o] = 1..(u - 1) /\ u \in Nat
      BY <1>3, Numbers DEF LogMatches
    <3>6. log[p][i].packet_uid < u
      BY <3>4, <3>5
    <3> QED
      BY <3>2, <3>3, <3>6
  <2> QED
    BY <2>2, <2>3
<1>4. InOrder' <=> InOrder
  BY DEF InOrder
<1> QED
  BY <1>1, <1>2, <1>3, <1>4 DEF LogMatches

\* Work outside insert keeps the base.
LEMMA WorkBase ==
  ASSUME Base, NEW p \in Proc, NEW t \in Thread, NEW l, NEW m, Work(p, t, l, m)
  PROVE  Base'
<1>1. TypeOK /\ ThreadWork /\ TypeOK'
  BY WorkTypeOK DEF Base
<1>2. WorkChanges(p, t, l, m)
  BY <1>1, WorkEffect
<1> USE DEF WorkChanges
<1>3. LockOwner'
  <2>1. ASSUME NEW q \in Proc, NEW r \in Thread
        PROVE  pc'[q][r] \in {"inserting", "marking"} <=> pc[q][r] \in {"inserting", "marking"}
    BY <1>2
  <2> QED
    BY <1>2, <2>1 DEF Base, LockOwner
<1>4. ThreadWork'
  <2>1. "enqueuer" \in Thread /\ "receiver" \in Thread
    BY DEF Thread
  <2>2. t = "enqueuer" => l # "insert" /\ (l # "idle" => m.owner_id = p)
    <3>1. CASE Drops(p, t, l, m)
      BY <3>1 DEF Drops
    <3>2. CASE Continues(p, t, l, m)
      BY <1>1, <3>2 DEF Continues, ThreadWork
    <3>3. CASE Receives(p, t, l, m)
      BY <3>3 DEF Receives
    <3>4. CASE Constructs(p, t, l, m)
      BY <3>4 DEF Constructs, NewPayload
    <3> QED
      BY <3>1, <3>2, <3>3, <3>4 DEF Work
  <2>3. t = "receiver" =>
          l # "dispatch" /\ (l # "idle" => [destination |-> p, payload |-> m] \in net)
    <3>1. CASE Drops(p, t, l, m)
      BY <3>1 DEF Drops
    <3>2. CASE Continues(p, t, l, m)
      BY <1>1, <3>2 DEF Continues, ThreadWork
    <3>3. CASE Receives(p, t, l, m)
      BY <3>3 DEF Receives
    <3>4. CASE Constructs(p, t, l, m)
      BY <3>4 DEF Constructs
    <3> QED
      BY <3>1, <3>2, <3>3, <3>4 DEF Work
  <2>4. ASSUME NEW q \in Proc, pc'[q]["enqueuer"] # "idle"
        PROVE  /\ pc'[q]["enqueuer"] \notin {"insert", "inserting"}
               /\ payload'[q]["enqueuer"].owner_id = q
    <3>1. CASE q = p /\ t = "enqueuer"
      BY <1>2, <2>1, <2>2, <2>4, <3>1
    <3>2. CASE ~(q = p /\ t = "enqueuer")
      <4>1. /\ pc'[q]["enqueuer"] = pc[q]["enqueuer"]
            /\ payload'[q]["enqueuer"] = payload[q]["enqueuer"]
        BY <1>2, <2>1, <3>2
      <4> QED
        BY <1>1, <2>4, <4>1 DEF ThreadWork
    <3> QED
      BY <3>1, <3>2
  <2>5. ASSUME NEW q \in Proc
        PROVE  /\ pc'[q]["receiver"] # "dispatch"
               /\ pc'[q]["receiver"] # "idle" =>
                    [destination |-> q, payload |-> payload'[q]["receiver"]] \in net'
    <3>1. CASE q = p /\ t = "receiver"
      BY <1>2, <2>1, <2>3, <3>1
    <3>2. CASE ~(q = p /\ t = "receiver")
      <4>1. /\ pc'[q]["receiver"] = pc[q]["receiver"]
            /\ payload'[q]["receiver"] = payload[q]["receiver"]
        BY <1>2, <2>1, <3>2
      <4> QED
        BY <1>1, <1>2, <4>1 DEF ThreadWork
    <3> QED
      BY <3>1, <3>2
  <2>6. ASSUME NEW q \in Proc, NEW r \in Thread
        PROVE  /\ pc'[q][r] # "idle" => payload'[q][r] \in Payload
               /\ pc'[q][r] = "marking" => WasSeen(q, payload[q][r])'
    <3>1. CASE q = p /\ r = t
      BY <1>2, <3>1
    <3>2. CASE ~(q = p /\ r = t)
      <4>1. pc'[q][r] = pc[q][r] /\ payload'[q][r] = payload[q][r]
        BY <1>2, <3>2
      <4>2. pc[q][r] # "idle" => payload[q][r] \in Payload
        BY <1>1 DEF ThreadWork
      <4>3. pc[q][r] = "marking" => WasSeen(q, payload[q][r])
        BY <1>1 DEF ThreadWork
      <4> QED
        BY <1>2, <4>1, <4>2, <4>3 DEF WasSeen
    <3> QED
      BY <3>1, <3>2
  <2> QED
    BY <2>4, <2>5, <2>6 DEF ThreadWork
<1>5. CounterMatchesAcks' /\ Stored' /\ ClockCounts'
  BY <1>2 DEF Base, CounterMatchesAcks, Stored, ClockCounts
<1>6. LogMatches'
  <2>1. \/ log' = log
        \/ \E q \in Proc : \E u : log' = [log EXCEPT ![q] =
             Append(@, [event |-> "Dispatch", owner_id |-> q, packet_uid |-> u])]
    <3>1. CASE pc[p][t] = "dispatch"
      BY <3>1 DEF Work
    <3>2. CASE pc[p][t] # "dispatch"
      BY <3>2 DEF Work
    <3> QED
      BY <3>1, <3>2
  <2> QED
    BY <1>1, <1>2, <2>1, LogMatchesKeeps DEF Base
<1> QED
  BY <1>1, <1>3, <1>4, <1>5, <1>6 DEF Base

\* insert up to try_delivering keeps the base.
LEMMA InsertBase ==
  ASSUME Base, NEW p \in Proc, NEW t \in Thread, Insert(p, t)
  PROVE  Base'
<1>1. TypeOK /\ ThreadWork /\ TypeOK'
  BY InsertTypeOK DEF Base
<1>2. PICK s \in Proc, o \in Proc, u \in Uid : InHand(p, t, s, o, u)
  BY <1>1, PayloadInHand DEF Insert, InHand
<1>3. InsertChanges(p, t, s, o, u)
  BY <1>1, <1>2, InsertEffect
<1> USE DEF InsertChanges
<1>4. pc[p][t] \in {"insert", "mark"} /\ lock[p] = "free"
  BY DEF Insert
<1>5. LockOwner'
  <2>1. ASSUME NEW q \in Proc, NEW r \in Thread
        PROVE  pc'[q][r] \in {"inserting", "marking"} <=> lock'[q] = r
    <3>1. pc[q][r] \in {"inserting", "marking"} <=> lock[q] = r
      BY DEF Base, LockOwner
    <3>2. r # "free"
      BY DEF Thread
    <3>3. CASE q = p /\ r = t
      BY <1>3, <3>3
    <3>4. CASE q = p /\ r # t
      BY <1>3, <1>4, <3>1, <3>2, <3>4
    <3>5. CASE q # p
      BY <1>3, <3>1, <3>5
    <3> QED
      BY <3>3, <3>4, <3>5
  <2> QED
    BY <2>1 DEF LockOwner
<1>6. ThreadWork'
  <2>1. ASSUME NEW q \in Proc, NEW r \in Thread, pc'[q][r] = "marking"
        PROVE  WasSeen(q, payload[q][r])'
    <3>1. CASE q = p /\ r = t
      <4>1. pc[p][t] = "mark"
        BY <1>3, <1>4, <2>1, <3>1
      <4>2. s = p /\ payload[p][t].owner_id = o /\ payload[p][t].packet_uid = u
        BY <1>2, <4>1 DEF InHand
      <4>3. u \in acked'[p][p][o]
        BY <1>3, <4>2
      <4> QED
        BY <1>3, <3>1, <4>2, <4>3 DEF WasSeen
    <3>2. CASE ~(q = p /\ r = t)
      <4>1. pc[q][r] = "marking"
        BY <1>3, <2>1, <3>2
      <4>2. WasSeen(q, payload[q][r]) /\ payload[q][r].owner_id \in Proc
        BY <1>1, <4>1, PayloadInHand DEF ThreadWork
      <4>3. acked[q][q][payload[q][r].owner_id] \subseteq acked'[q][q][payload[q][r].owner_id]
        BY <1>3, <4>2
      <4> QED
        BY <1>3, <4>2, <4>3 DEF WasSeen
    <3> QED
      BY <3>1, <3>2
  <2>2. ASSUME NEW q \in Proc
        PROVE  /\ pc'[q]["enqueuer"] # "idle" =>
                    /\ pc'[q]["enqueuer"] \notin {"insert", "inserting"}
                    /\ payload'[q]["enqueuer"].owner_id = q
               /\ pc'[q]["receiver"] # "dispatch"
               /\ pc'[q]["receiver"] # "idle" =>
                    [destination |-> q, payload |-> payload'[q]["receiver"]] \in net'
    <3>1. /\ pc[q]["enqueuer"] # "idle" =>
               /\ pc[q]["enqueuer"] \notin {"insert", "inserting"}
               /\ payload[q]["enqueuer"].owner_id = q
          /\ pc[q]["receiver"] # "dispatch"
          /\ pc[q]["receiver"] # "idle" =>
               [destination |-> q, payload |-> payload[q]["receiver"]] \in net
      BY <1>1 DEF ThreadWork
    <3>2. "enqueuer" \in Thread /\ "receiver" \in Thread
      BY DEF Thread
    <3> QED
      BY <1>3, <1>4, <3>1, <3>2
  <2>3. ASSUME NEW q \in Proc, NEW r \in Thread, pc'[q][r] # "idle"
        PROVE  payload'[q][r] \in Payload
    <3>1. pc[q][r] # "idle" /\ payload'[q][r] = payload[q][r]
      BY <1>3, <1>4, <2>3
    <3> QED
      BY <1>1, <3>1 DEF ThreadWork
  <2> QED
    BY <2>1, <2>2, <2>3 DEF ThreadWork
<1>7. CounterMatchesAcks'
  <2>1. ASSUME NEW q \in Proc, NEW x \in Proc, NEW v \in Uid
        PROVE  acked_counter'[q][x][v] = Cardinality({r \in Proc : v \in acked'[q][r][x]})
    <3>1. acked_counter[q][x][v] = Cardinality({r \in Proc : v \in acked[q][r][x]})
      BY DEF Base, CounterMatchesAcks
    <3>2. CASE q = p /\ x = o /\ v = u /\ u \notin acked[p][s][o]
      <4>1. {r \in Proc : v \in acked'[q][r][x]} = {r \in Proc : u \in acked[p][r][o]} \cup {s}
        BY <1>3, <3>2
      <4>2. Cardinality({r \in Proc : u \in acked[p][r][o]} \cup {s})
              = acked_counter[p][o][u] + 1
        BY <3>2, OneMoreAck DEF Base
      <4> QED
        BY <1>3, <3>2, <4>1, <4>2
    <3>3. CASE ~(q = p /\ x = o /\ v = u /\ u \notin acked[p][s][o])
      <4>1. \A r \in Proc : v \in acked'[q][r][x] <=> v \in acked[q][r][x]
        BY <1>3, <3>3
      <4>2. {r \in Proc : v \in acked'[q][r][x]} = {r \in Proc : v \in acked[q][r][x]}
        BY <4>1
      <4>3. acked_counter'[q][x][v] = acked_counter[q][x][v]
        BY <1>3, <3>3
      <4> QED
        BY <3>1, <4>2, <4>3
    <3> QED
      BY <3>2, <3>3
  <2> QED
    BY <2>1 DEF CounterMatchesAcks
<1>8. Stored'
  <2>1. ASSUME NEW q \in Proc, NEW x \in Proc, NEW v \in Uid
        PROVE  undelivered'[q][x][v] # NoClock
                 <=> acked_counter'[q][x][v] > 0 /\ v \notin set'[q][x]
    <3>1. undelivered[q][x][v] # NoClock
            <=> acked_counter[q][x][v] > 0 /\ v \notin set[q][x]
      BY DEF Base, Stored
    <3>2. CASE q = p /\ x = o /\ v = u
      <4>1. s \in {r \in Proc : v \in acked'[q][r][x]}
        BY <1>3, <3>2
      <4>2. Cardinality({r \in Proc : v \in acked'[q][r][x]}) > 0
        BY <4>1, SomebodyCounts
      <4>3. acked_counter'[q][x][v] > 0
        BY <1>7, <4>2 DEF CounterMatchesAcks
      <4>4. payload[p][t].vector_clock # NoClock
        BY <1>1, <1>4, PayloadInHand, NoClockIsNone
      <4> QED
        BY <1>3, <3>1, <3>2, <4>3, <4>4
    <3>3. CASE ~(q = p /\ x = o /\ v = u)
      <4>1. /\ undelivered'[q][x][v] = undelivered[q][x][v]
            /\ acked_counter'[q][x][v] = acked_counter[q][x][v]
            /\ set' = set
        BY <1>3, <3>3
      <4> QED
        BY <3>1, <4>1
    <3> QED
      BY <3>2, <3>3
  <2> QED
    BY <2>1 DEF Stored
<1>9. ClockCounts'
  BY <1>3 DEF Base, ClockCounts
<1>10. LogMatches'
  BY <1>1, <1>3, LogMatchesKeeps DEF Base
<1> QED
  BY <1>1, <1>5, <1>6, <1>7, <1>8, <1>9, <1>10 DEF Base

\* One delivery keeps the base.
LEMMA DeliverBase ==
  ASSUME Base, NEW p \in Proc, NEW t \in Thread, Deliver(p, t)
  PROVE  Base'
<1>1. TypeOK /\ ThreadWork /\ TypeOK'
  BY DeliverTypeOK DEF Base
<1>2. PICK o \in Proc, u \in Uid : DeliverChanges(p, o, u)
  BY <1>1, DeliverEffect
<1> USE DEF DeliverChanges
<1>3. LockOwner' /\ ThreadWork' /\ CounterMatchesAcks'
  BY <1>2 DEF Base, LockOwner, ThreadWork, WasSeen, CounterMatchesAcks
<1>4. Stored'
  <2>1. ASSUME NEW q \in Proc, NEW x \in Proc, NEW v \in Uid
        PROVE  undelivered'[q][x][v] # NoClock
                 <=> acked_counter'[q][x][v] > 0 /\ v \notin set'[q][x]
    <3>1. undelivered[q][x][v] # NoClock
            <=> acked_counter[q][x][v] > 0 /\ v \notin set[q][x]
      BY DEF Base, Stored
    <3>2. acked_counter'[q][x][v] = acked_counter[q][x][v]
      BY <1>2
    <3>3. CASE q = p /\ x = o /\ v = u
      <4>1. undelivered'[q][x][v] = NoClock /\ v \in set'[q][x]
        BY <1>2, <3>3
      <4> QED
        BY <4>1
    <3>4. CASE ~(q = p /\ x = o /\ v = u)
      <4>1. undelivered'[q][x][v] = undelivered[q][x][v]
        BY <1>2, <3>4
      <4>2. v \in set'[q][x] <=> v \in set[q][x]
        BY <1>2, <3>4
      <4> QED
        BY <3>1, <3>2, <4>1, <4>2
    <3> QED
      BY <3>3, <3>4
  <2> QED
    BY <2>1 DEF Stored
<1>5. InOrder => u = received_up_to[p][o]
  BY <1>1, <1>2, CanDeliverCases DEF CanFifobDeliver
<1>6. ClockCounts'
  <2>1. ASSUME NEW q \in Proc, NEW x \in Proc
        PROVE  vector_clock'[q][x] = IF kind' = "Lcb" THEN received_up_to'[q][x] - 1 ELSE 0
    <3>1. vector_clock[q][x] = IF kind = "Lcb" THEN received_up_to[q][x] - 1 ELSE 0
      BY DEF Base, ClockCounts
    <3>2. CASE q = p /\ x = o /\ kind = "Lcb"
      <4>1. /\ received_up_to'[q][x] = u + 1
            /\ vector_clock'[q][x] = (u - 1) + 1
            /\ u \in Nat
        BY <1>2, <1>5, <3>1, <3>2, Numbers DEF InOrder
      <4> QED
        BY <1>2, <3>2, <4>1
    <3>3. CASE ~(q = p /\ x = o /\ kind = "Lcb")
      <4>1. vector_clock'[q][x] = vector_clock[q][x]
        BY <1>2, <3>3
      <4>2. kind = "Lcb" => received_up_to'[q][x] = received_up_to[q][x]
        BY <1>2, <3>3
      <4> QED
        BY <1>2, <3>1, <4>1, <4>2
    <3> QED
      BY <3>2, <3>3
  <2> QED
    BY <2>1 DEF ClockCounts
<1>7. LogMatches'
  BY <1>1, <1>2, <1>5, LogMatchesDeliver DEF Base
<1> QED
  BY <1>1, <1>3, <1>4, <1>6, <1>7 DEF Base

\* The return of insert keeps the base.
LEMMA InsertReturnBase ==
  ASSUME Base, NEW p \in Proc, NEW t \in Thread, InsertReturn(p, t)
  PROVE  Base'
<1>1. TypeOK /\ ThreadWork /\ TypeOK'
  BY InsertReturnTypeOK DEF Base
<1>2. ReturnChanges(p, t)
  BY <1>1, InsertReturnEffect
<1> USE DEF ReturnChanges
<1>3. LockOwner'
  <2>1. ASSUME NEW q \in Proc, NEW r \in Thread
        PROVE  pc'[q][r] \in {"inserting", "marking"} <=> lock'[q] = r
    <3>1. /\ pc[q][r] \in {"inserting", "marking"} <=> lock[q] = r
          /\ lock[p] = t /\ r # "free"
      BY <1>2 DEF Base, LockOwner, Thread
    <3>2. CASE q = p /\ r = t
      BY <1>2, <3>1, <3>2
    <3>3. CASE ~(q = p /\ r = t)
      BY <1>2, <3>1, <3>3
    <3> QED
      BY <3>2, <3>3
  <2> QED
    BY <2>1 DEF LockOwner
<1>4. ThreadWork'
  <2>1. ASSUME NEW q \in Proc, NEW r \in Thread, pc'[q][r] # "idle"
        PROVE  /\ payload'[q][r] = payload[q][r]
               /\ pc[q][r] # "idle"
               /\ pc'[q][r] = pc[q][r] \/ (pc[q][r] = "inserting" /\ pc'[q][r] = "check")
    BY <1>2, <2>1
  <2>2. "enqueuer" \in Thread /\ "receiver" \in Thread
    BY DEF Thread
  <2>3. ASSUME NEW q \in Proc, pc'[q]["enqueuer"] # "idle"
        PROVE  /\ pc'[q]["enqueuer"] \notin {"insert", "inserting"}
               /\ payload'[q]["enqueuer"].owner_id = q
    <3>1. /\ payload'[q]["enqueuer"] = payload[q]["enqueuer"]
          /\ pc[q]["enqueuer"] # "idle"
          /\ pc'[q]["enqueuer"] = pc[q]["enqueuer"]
               \/ (pc[q]["enqueuer"] = "inserting" /\ pc'[q]["enqueuer"] = "check")
      BY <2>1, <2>2, <2>3
    <3>2. /\ pc[q]["enqueuer"] \notin {"insert", "inserting"}
          /\ payload[q]["enqueuer"].owner_id = q
      BY <1>1, <3>1 DEF ThreadWork
    <3> QED
      BY <3>1, <3>2
  <2>4. ASSUME NEW q \in Proc
        PROVE  /\ pc'[q]["receiver"] # "dispatch"
               /\ pc'[q]["receiver"] # "idle" =>
                    [destination |-> q, payload |-> payload'[q]["receiver"]] \in net'
    <3>1. CASE pc'[q]["receiver"] = "idle"
      BY <3>1
    <3>2. CASE pc'[q]["receiver"] # "idle"
      <4>1. /\ payload'[q]["receiver"] = payload[q]["receiver"]
            /\ pc[q]["receiver"] # "idle"
            /\ pc'[q]["receiver"] = pc[q]["receiver"] \/ pc'[q]["receiver"] = "check"
        BY <2>1, <2>2, <3>2
      <4>2. /\ pc[q]["receiver"] # "dispatch"
            /\ [destination |-> q, payload |-> payload[q]["receiver"]] \in net
        BY <1>1, <4>1 DEF ThreadWork
      <4> QED
        BY <1>2, <4>1, <4>2
    <3> QED
      BY <3>1, <3>2
  <2>5. ASSUME NEW q \in Proc, NEW r \in Thread, pc'[q][r] # "idle"
        PROVE  /\ payload'[q][r] \in Payload
               /\ pc'[q][r] = "marking" => WasSeen(q, payload[q][r])'
    <3>1. payload'[q][r] = payload[q][r] /\ pc[q][r] # "idle"
      BY <2>1, <2>5
    <3>2. pc'[q][r] = "marking" => pc[q][r] = "marking"
      BY <2>1, <2>5
    <3> QED
      BY <1>1, <1>2, <3>1, <3>2 DEF ThreadWork, WasSeen
  <2> QED
    BY <2>3, <2>4, <2>5 DEF ThreadWork
<1>5. CounterMatchesAcks' /\ Stored' /\ ClockCounts'
  BY <1>2 DEF Base, CounterMatchesAcks, Stored, ClockCounts
<1>6. LogMatches'
  BY <1>1, <1>2, LogMatchesKeeps DEF Base
<1> QED
  BY <1>1, <1>3, <1>4, <1>5, <1>6 DEF Base

\* Every step keeps the base.
LEMMA NextBase ==
  ASSUME Base, Next
  PROVE  Base'
<1>1. TypeOK /\ ThreadWork
  BY DEF Base
<1>2. PICK p \in Proc, t \in Thread : \/ \E l, m : Work(p, t, l, m)
                                      \/ Insert(p, t)
                                      \/ Deliver(p, t)
                                      \/ InsertReturn(p, t)
  BY <1>1, StepCases
<1> QED
  BY <1>2, WorkBase, InsertBase, DeliverBase, InsertReturnBase

----------------------------------------------------------------------------
(* The work list. *)

\* Sequences of length one.
LEMMA OneElement ==
  /\ \A x : /\ Len(<<x>>) = 1 /\ <<x>> # <<>>
            /\ Last(<<x>>) = x
            /\ Front(<<x>>) \o <<>> = <<>>
  /\ \A S, s : s \in Seq(S) /\ s # <<>> /\ Len(s) <= 1 =>
       \A y : Front(s) \o <<y>> \o <<>> = <<y>>
<1>1. ASSUME NEW x
      PROVE  /\ Len(<<x>>) = 1 /\ <<x>> # <<>>
             /\ Last(<<x>>) = x
             /\ Front(<<x>>) \o <<>> = <<>>
  BY DEF Last, Front
<1>2. ASSUME NEW S, NEW s \in Seq(S), s # <<>>, Len(s) <= 1, NEW y
      PROVE  Front(s) \o <<y>> \o <<>> = <<y>>
  <2>1. Len(s) \in Nat /\ Len(s) # 0
    BY <1>2
  <2>2. Len(s) = 1
    BY <1>2, <2>1
  <2>3. Front(s) = <<>>
    BY <2>2 DEF Front
  <2> QED
    BY <2>3
<1> QED
  BY <1>1, <1>2

\* Packet u of o is stored at p and can be delivered in order.
Ready(p, o, u) == undelivered[p][o][u] # NoClock /\ CanFifobDeliver(p, o, u)

\* The work list of p is the one packet that is ready, if there is one.
OneTriedAt(p) ==
  /\ lock[p] = "free" => deliverable[p] = <<>>
  /\ Len(deliverable[p]) <= 1
  /\ \A o \in Proc, u \in Uid :
       Ready(p, o, u) => deliverable[p] = <<[owner_id |-> o, packet_uid |-> u]>>

\* A packet whose entries a step leaves alone is ready after it if it was before.
LEMMA ReadyKeeps ==
  ASSUME NEW p, NEW o, NEW u,
         undelivered'[p][o][u] = undelivered[p][o][u],
         acked_counter'[p][o][u] = acked_counter[p][o][u],
         received_up_to'[p][o] = received_up_to[p][o]
  PROVE  Ready(p, o, u)' <=> Ready(p, o, u)
BY DEF Ready, CanFifobDeliver, CanUrbDeliver

\* insert tries the packet it has recorded; no other can have become ready.
LEMMA InsertTries ==
  ASSUME Base, NEW p \in Proc, NEW t \in Thread, Insert(p, t), OneTriedAt(p)
  PROVE  OneTriedAt(p)'
<1>1. TypeOK /\ ThreadWork
  BY DEF Base
<1>2. PICK s \in Proc, o \in Proc, u \in Uid : InHand(p, t, s, o, u)
  BY <1>1, PayloadInHand DEF Insert, InHand
<1>3. InsertChanges(p, t, s, o, u)
  BY <1>1, <1>2, InsertEffect
<1> USE DEF InsertChanges
<1>4. deliverable[p] = <<>> /\ lock'[p] # "free"
  BY <1>3 DEF Insert, OneTriedAt, Thread
<1>5. \A x \in Proc, v \in Uid : ~Ready(p, x, v)
  BY <1>4, OneElement DEF OneTriedAt
<1>6. Len(deliverable'[p]) <= 1
  <2>1. deliverable'[p] = <<>> \/ deliverable'[p] = <<[owner_id |-> o, packet_uid |-> u]>>
    BY <1>3
  <2>2. Len(<<>>) <= 1
    OBVIOUS
  <2>3. CASE deliverable'[p] = <<>>
    BY <2>2, <2>3
  <2>4. CASE deliverable'[p] = <<[owner_id |-> o, packet_uid |-> u]>>
    <3>1. Len(deliverable'[p]) = 1
      BY <2>4, OneElement
    <3> QED
      BY <3>1
  <2> QED
    BY <2>1, <2>3, <2>4
<1>7. ASSUME NEW x \in Proc, NEW v \in Uid, Ready(p, x, v)'
      PROVE  deliverable'[p] = <<[owner_id |-> x, packet_uid |-> v]>>
  <2>1. CASE x = o /\ v = u
    <3>1. u \notin set[p][o]
      <4>1. ASSUME u \in set[p][o]
            PROVE  FALSE
        <5>1. undelivered[p][o][u] = NoClock
          BY <4>1 DEF Base, Stored
        <5>2. undelivered'[p][o][u] = NoClock
          BY <1>3, <4>1, <5>1
        <5> QED
          BY <1>7, <2>1, <5>2 DEF Ready
      <4> QED
        BY <4>1
    <3> QED
      BY <1>3, <2>1, <3>1
  <2>2. CASE ~(x = o /\ v = u)
    <3>1. /\ undelivered'[p][x][v] = undelivered[p][x][v]
          /\ acked_counter'[p][x][v] = acked_counter[p][x][v]
          /\ received_up_to'[p][x] = received_up_to[p][x]
      BY <1>3, <2>2
    <3> QED
      BY <1>5, <1>7, <3>1, ReadyKeeps
  <2> QED
    BY <2>1, <2>2
<1> QED
  BY <1>4, <1>6, <1>7 DEF OneTriedAt

\* With kind Fifob fifob_deliver tries the next packet of the owner, the only one
\* that can have become ready.
LEMMA DeliverTries ==
  ASSUME Base, NEW p \in Proc, NEW t \in Thread, Deliver(p, t), kind = "Fifob",
         OneTriedAt(p)
  PROVE  OneTriedAt(p)'
<1>1. TypeOK
  BY DEF Base
<1>2. PICK o \in Proc, u \in Uid : DeliverChanges(p, o, u)
  BY <1>1, DeliverEffect
<1> USE DEF DeliverChanges
<1>3. lock'[p] # "free"
  BY <1>2 DEF Deliver, Base, LockOwner, Thread
<1>4. deliverable'[p] = <<[owner_id |-> o, packet_uid |-> u + 1]>>
  <2>1. deliverable'[p] = Front(deliverable[p])
                            \o <<[owner_id |-> o, packet_uid |-> u + 1]>> \o <<>>
    BY <1>2 DEF InOrder, NextTried
  <2>2. deliverable[p] \in Seq(Deliverable)
    BY <1>1 DEF TypeOK
  <2> QED
    BY <1>2, <2>1, <2>2, OneElement DEF OneTriedAt
<1>5. Len(deliverable'[p]) <= 1
  BY <1>4, OneElement
<1>6. ASSUME NEW x \in Proc, NEW v \in Uid, Ready(p, x, v)'
      PROVE  x = o /\ v = u + 1
  <2>1. CASE x = o
    <3>1. v = received_up_to'[p][o]
      BY <1>6, <2>1 DEF Ready, CanFifobDeliver
    <3> QED
      BY <1>2, <2>1, <3>1 DEF InOrder
  <2>2. CASE x # o
    <3>1. /\ undelivered'[p][x][v] = undelivered[p][x][v]
          /\ acked_counter'[p][x][v] = acked_counter[p][x][v]
          /\ received_up_to'[p][x] = received_up_to[p][x]
      BY <1>2, <2>2
    <3>2. Ready(p, x, v)
      BY <1>6, <3>1, ReadyKeeps
    <3>3. Last(deliverable[p]) = [owner_id |-> x, packet_uid |-> v]
      BY <3>2, OneElement DEF OneTriedAt
    <3>4. [owner_id |-> x, packet_uid |-> v] = [owner_id |-> o, packet_uid |-> u]
      BY <1>2, <3>3
    <3> QED
      BY <2>2, <3>4
  <2> QED
    BY <2>1, <2>2
<1> QED
  BY <1>3, <1>4, <1>5, <1>6 DEF OneTriedAt

\* try_delivering stops when nothing is ready.
LEMMA ReturnTries ==
  ASSUME Base, NEW p \in Proc, NEW t \in Thread, InsertReturn(p, t), kind = "Fifob",
         OneTriedAt(p)
  PROVE  OneTriedAt(p)'
<1>1. TypeOK
  BY DEF Base
<1>2. ReturnChanges(p, t)
  BY <1>1, InsertReturnEffect
<1> USE DEF ReturnChanges
<1>3. ASSUME NEW x \in Proc, NEW v \in Uid, Ready(p, x, v)
      PROVE  FALSE
  <2>1. deliverable[p] = <<[owner_id |-> x, packet_uid |-> v]>>
    BY <1>3 DEF OneTriedAt
  <2>2. deliverable[p] # <<>> /\ Last(deliverable[p]) = [owner_id |-> x, packet_uid |-> v]
    BY <2>1, OneElement
  <2>3. CanDeliver(p, x, v) /\ undelivered[p][x][v] # NoClock
    BY <1>1, <1>3, CanDeliverCases DEF Ready
  <2>4. CanDeliverLast(p)
    BY <2>2, <2>3 DEF CanDeliverLast
  <2> QED
    BY <2>4 DEF InsertReturn
<1>4. \A x \in Proc, v \in Uid : ~Ready(p, x, v)'
  BY <1>2, <1>3, ReadyKeeps
<1>5. deliverable'[p] = <<>>
  BY <1>2
<1>6. Len(deliverable'[p]) <= 1
  BY <1>5
<1> QED
  BY <1>4, <1>5, <1>6 DEF OneTriedAt

\* Every step keeps OneTried.
LEMMA NextOneTried ==
  ASSUME Base, OneTried, Next
  PROVE  OneTried'
<1>1. TypeOK /\ ThreadWork
  BY DEF Base
<1>2. PICK p \in Proc, t \in Thread : \/ \E l, m : Work(p, t, l, m)
                                      \/ Insert(p, t)
                                      \/ Deliver(p, t)
                                      \/ InsertReturn(p, t)
  BY <1>1, StepCases
<1>3. SUFFICES ASSUME kind' = "Fifob", NEW q \in Proc
               PROVE  OneTriedAt(q)'
  BY DEF OneTried, OneTriedAt, Ready
<1>4. ASSUME kind = "Fifob"
      PROVE  OneTriedAt(q)
  BY <1>4 DEF OneTried, OneTriedAt, Ready
<1>5. ASSUME kind' = kind,
             lock'[q] = lock[q],
             deliverable'[q] = deliverable[q],
             \A x \in Proc, v \in Uid :
               /\ undelivered'[q][x][v] = undelivered[q][x][v]
               /\ acked_counter'[q][x][v] = acked_counter[q][x][v]
               /\ received_up_to'[q][x] = received_up_to[q][x]
      PROVE  OneTriedAt(q)'
  <2>1. \A x \in Proc, v \in Uid : Ready(q, x, v)' <=> Ready(q, x, v)
    BY <1>5, ReadyKeeps
  <2> QED
    BY <1>3, <1>4, <1>5, <2>1 DEF OneTriedAt
<1>6. ASSUME NEW l, NEW m, Work(p, t, l, m)
      PROVE  OneTriedAt(q)'
  BY <1>1, <1>5, <1>6, WorkEffect DEF WorkChanges
<1>7. CASE Insert(p, t)
  <2>1. PICK s \in Proc, o \in Proc, u \in Uid : InHand(p, t, s, o, u)
    BY <1>1, <1>7, PayloadInHand DEF Insert, InHand
  <2>2. InsertChanges(p, t, s, o, u)
    BY <1>1, <1>7, <2>1, InsertEffect
  <2>3. CASE q = p
    BY <1>3, <1>4, <1>7, <2>2, <2>3, InsertTries DEF InsertChanges
  <2>4. CASE q # p
    BY <1>5, <2>2, <2>4 DEF InsertChanges
  <2> QED
    BY <2>3, <2>4
<1>8. CASE Deliver(p, t)
  <2>1. PICK o \in Proc, u \in Uid : DeliverChanges(p, o, u)
    BY <1>1, <1>8, DeliverEffect
  <2>2. CASE q = p
    BY <1>3, <1>4, <1>8, <2>1, <2>2, DeliverTries DEF DeliverChanges
  <2>3. CASE q # p
    BY <1>5, <2>1, <2>3 DEF DeliverChanges
  <2> QED
    BY <2>2, <2>3
<1>9. CASE InsertReturn(p, t)
  <2>1. ReturnChanges(p, t)
    BY <1>1, <1>9, InsertReturnEffect
  <2>2. CASE q = p
    BY <1>3, <1>4, <1>9, <2>1, <2>2, ReturnTries DEF ReturnChanges
  <2>3. CASE q # p
    BY <1>5, <2>1, <2>3 DEF ReturnChanges
  <2> QED
    BY <2>2, <2>3
<1> QED
  BY <1>2, <1>6, <1>7, <1>8, <1>9

----------------------------------------------------------------------------
(* What a step adds: where new payloads, messages, acknowledgements, clocks *)
(* and events come from. What is said of them later follows from this,      *)
(* whatever the step.                                                       *)

DispatchEvent(p, u) == [event |-> "Dispatch", owner_id |-> p, packet_uid |-> u]

\* Nothing shared is ever taken back.
Grows ==
  /\ kind' = kind
  /\ net \subseteq net'
  /\ \A p, s, o \in Proc : acked[p][s][o] \subseteq acked'[p][s][o]
  /\ \A o \in Proc : enqueued'[o] = enqueued[o] \/ enqueued'[o] = enqueued[o] + 1
  /\ \A q \in Proc :
       /\ Len(log'[q]) = Len(log[q]) \/ Len(log'[q]) = Len(log[q]) + 1
       /\ DOMAIN log'[q] = 1..Len(log'[q])
       /\ \A i \in 1..Len(log[q]) : log'[q][i] = log[q][i]

\* A thread has the payload it had, or one from the network, or a new one.
HandFrom(p, t) ==
  \/ /\ pc[p][t] # "idle" /\ payload'[p][t] = payload[p][t]
     /\ pc[p][t] = "dispatch" /\ pc'[p][t] # "dispatch" =>
          /\ p = payload[p][t].owner_id
          /\ LoggedBefore(p, DispatchEvent(p, payload[p][t].packet_uid), Len(log[p]))'
  \/ \E k \in net : payload'[p][t] = k.payload
  \/ /\ pc'[p][t] = "dispatch"
     /\ payload'[p][t] = NewPayload(p)
     /\ enqueued[p] < MaxMsgs /\ enqueued'[p] = enqueued[p] + 1

HandsFrom == \A p \in Proc, t \in Thread : pc'[p][t] # "idle" => HandFrom(p, t)

\* A thread lets go of packets that are seen; with kind Beb of others, too.
HandsSeen ==
  kind # "Beb" => \A p \in Proc, t \in Thread : pc[p][t] # "idle" =>
    \/ pc'[p][t] # "idle" /\ payload'[p][t] = payload[p][t]
    \/ WasSeen(p, payload[p][t]) /\ acked' = acked

\* What is sent is a copy of what the thread has.
NetFrom ==
  \A k \in net' \ net : \E p \in Proc, t \in Thread :
    Copied(k, p, payload'[p][t]) /\ pc'[p][t] \notin {"idle", "dispatch"}

\* What is recorded was in the hands of the thread that records it.
AckedFrom ==
  \A p, s, o \in Proc : \A u \in acked'[p][s][o] :
    \/ u \in acked[p][s][o]
    \/ \E t \in Thread : InHand(p, t, s, o, u) /\ pc[p][t] \in {"insert", "mark"}

\* So is what is stored.
StoredFrom ==
  \A p, o \in Proc, u \in Uid :
    \/ undelivered'[p][o][u] \in {undelivered[p][o][u], NoClock}
    \/ \E t \in Thread : /\ pc[p][t] # "idle"
                         /\ payload[p][t].owner_id = o
                         /\ payload[p][t].packet_uid = u
                         /\ undelivered'[p][o][u] = payload[p][t].vector_clock

\* What is delivered could be.
DeliveredFrom ==
  /\ \A q, o \in Proc : \A u \in set'[q][o] : u \in set[q][o] \/ DeliverChanges(q, o, u)
  /\ \A q \in Proc : \A i \in DOMAIN log'[q] :
       \/ i \in 1..Len(log[q])
       \/ /\ i = Len(log[q]) + 1
          /\ \A o \in Proc, u \in Uid :
               log'[q][i] = Delivery(o, u) => DeliverChanges(q, o, u)

Shape ==
  /\ Grows
  /\ HandsFrom
  /\ HandsSeen
  /\ NetFrom
  /\ AckedFrom
  /\ StoredFrom
  /\ DeliveredFrom

\* The logs when no event, or one, is added.
LEMMA LogGrows ==
  ASSUME TypeOK, log' = log \/ \E p \in Proc : \E e : log' = [log EXCEPT ![p] = Append(@, e)]
  PROVE  \A q \in Proc :
           /\ Len(log[q]) \in Nat
           /\ Len(log'[q]) = Len(log[q]) \/ Len(log'[q]) = Len(log[q]) + 1
           /\ DOMAIN log'[q] = 1..Len(log'[q])
           /\ \A i \in 1..Len(log[q]) : log'[q][i] = log[q][i]
<1>1. CASE log' = log
  <2>1. \A S, r : r \in Seq(S) => Len(r) \in Nat /\ DOMAIN r = 1..Len(r)
    OBVIOUS
  <2>2. \A q \in Proc : log[q] \in Seq(LogEvent)
    BY DEF TypeOK
  <2>3. \A q \in Proc : Len(log[q]) \in Nat /\ DOMAIN log[q] = 1..Len(log[q])
    BY <2>1, <2>2
  <2> QED
    BY <1>1, <2>3
<1>2. ASSUME NEW p \in Proc, NEW e, log' = [log EXCEPT ![p] = Append(@, e)]
      PROVE  \A q \in Proc :
               /\ Len(log[q]) \in Nat
               /\ Len(log'[q]) = Len(log[q]) \/ Len(log'[q]) = Len(log[q]) + 1
               /\ DOMAIN log'[q] = 1..Len(log'[q])
               /\ \A i \in 1..Len(log[q]) : log'[q][i] = log[q][i]
  <2> SUFFICES ASSUME NEW q \in Proc
               PROVE  /\ Len(log[q]) \in Nat
                      /\ Len(log'[q]) = Len(log[q]) \/ Len(log'[q]) = Len(log[q]) + 1
                      /\ DOMAIN log'[q] = 1..Len(log'[q])
                      /\ \A i \in 1..Len(log[q]) : log'[q][i] = log[q][i]
    OBVIOUS
  <2>1. /\ Len(log[q]) \in Nat
        /\ Len(log'[q]) = IF q = p THEN Len(log[q]) + 1 ELSE Len(log[q])
        /\ DOMAIN log'[q] = 1..Len(log'[q])
        /\ \A i \in 1..Len(log[q]) : log'[q][i] = log[q][i]
    BY <1>2, LogAppend
  <2> QED
    BY <2>1
<1> QED
  BY <1>1, <1>2

\* An event that is added is there.
LEMMA LoggedNow ==
  ASSUME TypeOK, NEW p \in Proc, NEW e, log' = [log EXCEPT ![p] = Append(@, e)]
  PROVE  \E i \in 1..Len(log'[p]) : log'[p][i] = e
<1>1. /\ Len(log[p]) \in Nat
      /\ Len(log'[p]) = Len(log[p]) + 1
      /\ log'[p][Len(log[p]) + 1] = e
  BY LogAppend
<1>2. Len(log[p]) + 1 \in 1..Len(log'[p])
  BY <1>1
<1> QED
  BY <1>1, <1>2

\* Without a delivery the new event, if there is one, is not a delivery.
LEMMA DeliveredNothing ==
  ASSUME TypeOK, set' = set,
         \/ log' = log
         \/ \E p \in Proc : \E u : log' = [log EXCEPT ![p] = Append(@, DispatchEvent(p, u))]
  PROVE  DeliveredFrom
<1>1. ASSUME NEW q \in Proc, NEW i \in DOMAIN log'[q], i \notin 1..Len(log[q])
      PROVE  /\ i = Len(log[q]) + 1
             /\ \A o \in Proc, u \in Uid : log'[q][i] # Delivery(o, u)
  <2>1. /\ Len(log[q]) \in Nat
        /\ Len(log'[q]) = Len(log[q]) \/ Len(log'[q]) = Len(log[q]) + 1
        /\ DOMAIN log'[q] = 1..Len(log'[q])
    BY LogGrows
  <2>2. i = Len(log[q]) + 1
    BY <1>1, <2>1
  <2>3. log' # log
    <3>1. ASSUME log' = log
          PROVE  FALSE
      <4>1. i \in 1..Len(log[q])
        BY <2>1, <3>1
      <4> QED
        BY <1>1, <4>1
    <3> QED
      BY <3>1
  <2>4. PICK p \in Proc : \E w : log' = [log EXCEPT ![p] = Append(@, DispatchEvent(p, w))]
    BY <2>3
  <2> PICK v : log' = [log EXCEPT ![p] = Append(@, DispatchEvent(p, v))]
    BY <2>4
  <2>5. q = p
    <3>1. Len(log'[q]) = IF q = p THEN Len(log[q]) + 1 ELSE Len(log[q])
      BY LogAppend
    <3> QED
      BY <1>1, <2>1, <3>1
  <2>6. log'[q][i] = DispatchEvent(p, v)
    BY <2>2, <2>5, LogAppend
  <2>7. log'[q][i].event = "Dispatch"
    BY <2>6 DEF DispatchEvent
  <2>8. \A o \in Proc, u \in Uid : Delivery(o, u).event = "Delivery"
    BY DEF Delivery
  <2> QED
    BY <2>2, <2>7, <2>8
<1> QED
  BY <1>1 DEF DeliveredFrom

\* Work outside insert.
LEMMA WorkShape ==
  ASSUME Base, NEW p \in Proc, NEW t \in Thread, NEW l, NEW m, Work(p, t, l, m)
  PROVE  Shape
<1>1. TypeOK /\ ThreadWork
  BY DEF Base
<1>2. WorkChanges(p, t, l, m)
  BY <1>1, WorkEffect
<1> USE DEF WorkChanges
<1>3. \/ log' = log
      \/ \E q \in Proc : \E u : log' = [log EXCEPT ![q] = Append(@, DispatchEvent(q, u))]
  <2>1. CASE pc[p][t] = "dispatch"
    BY <2>1 DEF Work, DispatchEvent
  <2>2. CASE pc[p][t] # "dispatch"
    BY <2>2 DEF Work
  <2> QED
    BY <2>1, <2>2
<1>4. Grows
  <2>1. \A o \in Proc : enqueued'[o] = enqueued[o] \/ enqueued'[o] = enqueued[o] + 1
    <3>1. enqueued' = IF l = "dispatch" THEN [enqueued EXCEPT ![p] = @ + 1] ELSE enqueued
      BY DEF Work
    <3> QED
      BY <1>1, <3>1 DEF TypeOK
  <2> QED
    BY <1>1, <1>2, <1>3, <2>1, LogGrows DEF Grows
<1>5. HandsFrom
  <2> SUFFICES ASSUME NEW q \in Proc, NEW r \in Thread, pc'[q][r] # "idle"
               PROVE  HandFrom(q, r)
    BY DEF HandsFrom
  <2>1. CASE ~(q = p /\ r = t)
    <3>1. pc'[q][r] = pc[q][r] /\ payload'[q][r] = payload[q][r]
      BY <1>2, <2>1
    <3> QED
      BY <3>1 DEF HandFrom
  <2>2. CASE q = p /\ r = t
    <3>1. pc'[p][t] = l /\ payload'[p][t] = m /\ l # "idle"
      BY <1>2, <2>2
    <3>2. CASE Continues(p, t, l, m)
      <4>1. ASSUME pc[p][t] = "dispatch"
            PROVE  /\ p = payload[p][t].owner_id
                   /\ LoggedBefore(p, DispatchEvent(p, payload[p][t].packet_uid),
                                   Len(log[p]))'
        <5>1. p = payload[p][t].owner_id
          BY <1>1, <4>1 DEF Work, ThreadWork
        <5> DEFINE e == DispatchEvent(p, m.packet_uid)
        <5>2. log' = [log EXCEPT ![p] = Append(@, e)]
          BY <4>1 DEF Work, DispatchEvent
        <5>3. \E i \in 1..Len(log'[p]) : log'[p][i] = e
          BY <1>1, <5>2, LoggedNow
        <5>4. m.packet_uid = payload'[p][t].packet_uid
          BY <3>1
        <5> QED
          BY <5>1, <5>3, <5>4 DEF LoggedBefore
      <4> QED
        BY <2>2, <3>1, <3>2, <4>1 DEF Continues, HandFrom
    <3>3. CASE Receives(p, t, l, m)
      <4>1. [destination |-> p, payload |-> m].payload = m
        OBVIOUS
      <4> QED
        BY <2>2, <3>1, <3>3, <4>1 DEF Receives, HandFrom
    <3>4. CASE Constructs(p, t, l, m)
      <4>1. enqueued' = [enqueued EXCEPT ![p] = @ + 1]
        BY <3>4 DEF Work, Constructs
      <4>2. enqueued'[p] = enqueued[p] + 1
        BY <1>1, <4>1 DEF TypeOK
      <4> QED
        BY <2>2, <3>1, <3>4, <4>2 DEF Constructs, HandFrom
    <3> QED
      BY <3>1, <3>2, <3>3, <3>4 DEF Work, Drops
  <2> QED
    BY <2>1, <2>2
<1>6. HandsSeen
  <2> SUFFICES ASSUME NEW q \in Proc, NEW r \in Thread, pc[q][r] # "idle"
               PROVE  \/ pc'[q][r] # "idle" /\ payload'[q][r] = payload[q][r]
                      \/ WasSeen(q, payload[q][r]) /\ acked' = acked
    BY DEF HandsSeen
  <2>1. CASE ~(q = p /\ r = t)
    BY <1>2, <2>1
  <2>2. CASE q = p /\ r = t
    <3>1. pc'[p][t] = l /\ payload'[p][t] = m /\ acked' = acked
      BY <1>2, <2>2
    <3>2. Drops(p, t, l, m) \/ Continues(p, t, l, m)
      BY <2>2 DEF Work, Receives, Constructs
    <3> QED
      BY <2>2, <3>1, <3>2 DEF Drops, Continues
  <2> QED
    BY <2>1, <2>2
<1>7. NetFrom
  <2> SUFFICES ASSUME NEW k \in net' \ net
               PROVE  Copied(k, p, payload'[p][t]) /\ pc'[p][t] \notin {"idle", "dispatch"}
    BY DEF NetFrom
  <2>1. pc'[p][t] = l /\ payload'[p][t] = m
    BY <1>2
  <2> QED
    BY <2>1 DEF Work, Receives
<1>8. AckedFrom /\ StoredFrom
  BY <1>2 DEF AckedFrom, StoredFrom
<1>9. DeliveredFrom
  BY <1>1, <1>2, <1>3, DeliveredNothing
<1> QED
  BY <1>4, <1>5, <1>6, <1>7, <1>8, <1>9 DEF Shape

\* insert up to try_delivering.
LEMMA InsertShape ==
  ASSUME Base, NEW p \in Proc, NEW t \in Thread, Insert(p, t)
  PROVE  Shape
<1>1. TypeOK /\ ThreadWork /\ pc[p][t] \in {"insert", "mark"}
  BY DEF Base, Insert
<1>2. PICK s \in Proc, o \in Proc, u \in Uid : InHand(p, t, s, o, u)
  BY <1>1, PayloadInHand DEF InHand
<1>3. InsertChanges(p, t, s, o, u)
  BY <1>1, <1>2, InsertEffect
<1> USE DEF InsertChanges
<1>4. Grows
  <2>1. \A q, r, x \in Proc : acked[q][r][x] \subseteq acked'[q][r][x]
    BY <1>3
  <2> QED
    BY <1>1, <1>3, <2>1, LogGrows DEF Grows
<1>5. ASSUME NEW q \in Proc, NEW r \in Thread
      PROVE  /\ payload'[q][r] = payload[q][r]
             /\ pc'[q][r] # "idle" <=> pc[q][r] # "idle"
             /\ pc[q][r] = "dispatch" => pc'[q][r] = "dispatch"
  BY <1>1, <1>3
<1>6. HandsFrom /\ HandsSeen
  BY <1>5 DEF HandsFrom, HandFrom, HandsSeen
<1>7. NetFrom
  BY <1>3 DEF NetFrom
<1>8. AckedFrom
  <2> SUFFICES ASSUME NEW q \in Proc, NEW r \in Proc, NEW x \in Proc,
                      NEW v \in acked'[q][r][x], v \notin acked[q][r][x]
               PROVE  InHand(q, t, r, x, v) /\ pc[q][t] \in {"insert", "mark"}
    BY DEF AckedFrom
  <2>1. q = p /\ r = s /\ x = o /\ v = u
    BY <1>3
  <2> QED
    BY <1>1, <1>2, <2>1
<1>9. StoredFrom
  <2> SUFFICES ASSUME NEW q \in Proc, NEW x \in Proc, NEW v \in Uid
               PROVE  \/ undelivered'[q][x][v] = undelivered[q][x][v]
                      \/ /\ pc[q][t] # "idle"
                         /\ payload[q][t].owner_id = x
                         /\ payload[q][t].packet_uid = v
                         /\ undelivered'[q][x][v] = payload[q][t].vector_clock
    BY DEF StoredFrom
  <2>1. CASE q = p /\ x = o /\ v = u
    BY <1>1, <1>2, <1>3, <2>1 DEF InHand
  <2>2. CASE ~(q = p /\ x = o /\ v = u)
    BY <1>3, <2>2
  <2> QED
    BY <2>1, <2>2
<1>10. DeliveredFrom
  BY <1>1, <1>3, DeliveredNothing
<1> QED
  BY <1>4, <1>6, <1>7, <1>8, <1>9, <1>10 DEF Shape

\* One delivery.
LEMMA DeliverShape ==
  ASSUME Base, NEW p \in Proc, NEW t \in Thread, Deliver(p, t)
  PROVE  Shape
<1>1. TypeOK
  BY DEF Base
<1>2. PICK o \in Proc, u \in Uid : DeliverChanges(p, o, u)
  BY <1>1, DeliverEffect
<1>3. /\ UNCHANGED <<kind, acked, pc, payload, enqueued, net>>
      /\ log' = [log EXCEPT ![p] = Append(@, Delivery(o, u))]
      /\ \A q, x \in Proc, v \in Uid : undelivered'[q][x][v] =
           IF q = p /\ x = o /\ v = u THEN NoClock ELSE undelivered[q][x][v]
      /\ \A q, x \in Proc : set'[q][x] =
           IF q = p /\ x = o THEN set[p][o] \cup {u} ELSE set[q][x]
  BY <1>2 DEF DeliverChanges
<1>4. Grows
  BY <1>1, <1>3, LogGrows DEF Grows
<1>5. HandsFrom /\ HandsSeen
  BY <1>3 DEF HandsFrom, HandFrom, HandsSeen
<1>6. NetFrom /\ AckedFrom
  BY <1>3 DEF NetFrom, AckedFrom
<1>7. StoredFrom
  BY <1>3 DEF StoredFrom
<1>8. DeliveredFrom
  <2>1. \A q, x \in Proc : \A v \in set'[q][x] : v \in set[q][x] \/ DeliverChanges(q, x, v)
    BY <1>2, <1>3
  <2>2. ASSUME NEW q \in Proc, NEW i \in DOMAIN log'[q], i \notin 1..Len(log[q])
        PROVE  /\ i = Len(log[q]) + 1
               /\ \A x \in Proc, v \in Uid :
                    log'[q][i] = Delivery(x, v) => DeliverChanges(q, x, v)
    <3>1. /\ Len(log[q]) \in Nat
          /\ Len(log'[q]) = IF q = p THEN Len(log[q]) + 1 ELSE Len(log[q])
          /\ DOMAIN log'[q] = 1..Len(log'[q])
          /\ log'[p][Len(log[p]) + 1] = Delivery(o, u)
      <4>1. log' = [log EXCEPT ![p] = Append(@, Delivery(o, u))]
        BY <1>3
      <4> QED
        BY <1>1, <4>1, LogAppend
    <3>2. q = p /\ i = Len(log[q]) + 1
      BY <2>2, <3>1
    <3>3. \A x, v : Delivery(x, v) = Delivery(o, u) => x = o /\ v = u
      <4>1. \A x, v : Delivery(x, v).owner_id = x /\ Delivery(x, v).packet_uid = v
        BY DEF Delivery
      <4> QED
        BY <4>1
    <3> QED
      BY <1>2, <3>1, <3>2, <3>3
  <2> QED
    BY <2>1, <2>2 DEF DeliveredFrom
<1> QED
  BY <1>4, <1>5, <1>6, <1>7, <1>8 DEF Shape

\* The return of insert.
LEMMA ReturnShape ==
  ASSUME Base, NEW p \in Proc, NEW t \in Thread, InsertReturn(p, t)
  PROVE  Shape
<1>1. TypeOK /\ ThreadWork
  BY DEF Base
<1>2. ReturnChanges(p, t)
  BY <1>1, InsertReturnEffect
<1> USE DEF ReturnChanges
<1>3. Grows
  BY <1>1, <1>2, LogGrows DEF Grows
<1>4. HandsFrom
  <2>1. ASSUME NEW q \in Proc, NEW r \in Thread, pc'[q][r] # "idle"
        PROVE  /\ payload'[q][r] = payload[q][r]
               /\ pc[q][r] # "idle"
               /\ pc[q][r] = "dispatch" => pc'[q][r] = "dispatch"
    BY <1>2, <2>1
  <2> QED
    BY <2>1 DEF HandsFrom, HandFrom
<1>5. HandsSeen
  <2> SUFFICES ASSUME kind # "Beb", NEW q \in Proc, NEW r \in Thread, pc[q][r] # "idle"
               PROVE  \/ pc'[q][r] # "idle" /\ payload'[q][r] = payload[q][r]
                      \/ WasSeen(q, payload[q][r]) /\ acked' = acked
    BY DEF HandsSeen
  <2>1. CASE ~(q = p /\ r = t)
    BY <1>2, <2>1
  <2>2. CASE q = p /\ r = t /\ pc[p][t] = "inserting"
    BY <1>2, <2>2
  <2>3. CASE q = p /\ r = t /\ pc[p][t] = "marking"
    BY <1>1, <1>2, <2>3 DEF ThreadWork
  <2> QED
    BY <1>2, <2>1, <2>2, <2>3
<1>6. NetFrom /\ AckedFrom /\ StoredFrom
  BY <1>2 DEF NetFrom, AckedFrom, StoredFrom
<1>7. DeliveredFrom
  BY <1>1, <1>2, DeliveredNothing
<1> QED
  BY <1>3, <1>4, <1>5, <1>6, <1>7 DEF Shape

\* Every step has this shape.
LEMMA NextShape ==
  ASSUME Base, Next
  PROVE  Shape
<1>1. TypeOK /\ ThreadWork
  BY DEF Base
<1>2. PICK p \in Proc, t \in Thread : \/ \E l, m : Work(p, t, l, m)
                                      \/ Insert(p, t)
                                      \/ Deliver(p, t)
                                      \/ InsertReturn(p, t)
  BY <1>1, StepCases
<1> QED
  BY <1>2, WorkShape, InsertShape, DeliverShape, ReturnShape

----------------------------------------------------------------------------
(* Who has a packet. *)

\* Nobody loses a packet. (With kind Beb a packet is dropped after insert.)
LEMMA HoldsKept ==
  ASSUME Shape, kind # "Beb", NEW s \in Proc, NEW o \in Proc, NEW u, Holds(s, o, u)
  PROVE  Holds(s, o, u)'
<1>1. CASE u \in acked[s][s][o]
  BY <1>1 DEF Shape, Grows, Holds
<1>2. ASSUME NEW t \in Thread, pc[s][t] # "idle",
             payload[s][t].owner_id = o, payload[s][t].packet_uid = u
      PROVE  Holds(s, o, u)'
  <2>1. CASE pc'[s][t] # "idle" /\ payload'[s][t] = payload[s][t]
    BY <1>2, <2>1 DEF Holds
  <2>2. CASE WasSeen(s, payload[s][t]) /\ acked' = acked
    BY <1>2, <2>2 DEF Holds, WasSeen
  <2> QED
    BY <1>2, <2>1, <2>2 DEF Shape, HandsSeen
<1> QED
  BY <1>1, <1>2 DEF Holds

\* Senders hold what they send.
LEMMA NextSenderHolds ==
  ASSUME Base, Base', Shape, SenderHolds
  PROVE  SenderHolds'
<1>1. SUFFICES ASSUME kind # "Beb"
               PROVE  SenderHolds'
  BY DEF SenderHolds, Shape, Grows
<1>2. TypeOK /\ ThreadWork
  BY DEF Base
<1>3. ASSUME NEW p \in Proc, NEW t \in Thread, pc'[p][t] # "idle"
      PROVE  Holds(payload[p][t].sender_id, payload[p][t].owner_id,
                   payload[p][t].packet_uid)'
  <2>1. CASE pc[p][t] # "idle" /\ payload'[p][t] = payload[p][t]
    <3>1. PICK s \in Proc, o \in Proc, u \in Uid : s = payload[p][t].sender_id
            /\ o = payload[p][t].owner_id /\ u = payload[p][t].packet_uid
      BY <1>2, <2>1, PayloadInHand
    <3>2. Holds(s, o, u)
      BY <1>1, <2>1, <3>1 DEF SenderHolds
    <3>3. Holds(s, o, u)'
      BY <1>1, <3>2, HoldsKept
    <3>4. /\ s = payload'[p][t].sender_id
          /\ o = payload'[p][t].owner_id /\ u = payload'[p][t].packet_uid
      BY <2>1, <3>1
    <3> QED
      BY <3>3, <3>4 DEF Holds
  <2>2. ASSUME NEW k \in net, payload'[p][t] = k.payload
        PROVE  Holds(payload[p][t].sender_id, payload[p][t].owner_id,
                     payload[p][t].packet_uid)'
    <3> DEFINE s == k.payload.sender_id
               o == k.payload.owner_id
               u == k.payload.packet_uid
    <3>1. s \in Proc /\ o \in Proc /\ Holds(s, o, u)
      BY <1>1, <1>2, PayloadSent DEF SenderHolds
    <3>2. \A a, b \in Proc : \A c : Holds(a, b, c) => Holds(a, b, c)'
      BY <1>1, HoldsKept
    <3> QED
      BY <2>2, <3>1, <3>2 DEF Holds
  <2>3. CASE payload'[p][t] = NewPayload(p)
    <3>1. payload'[p][t].sender_id = p
      BY <2>3 DEF NewPayload
    <3> QED
      BY <1>3, <3>1 DEF Holds
  <2> QED
    BY <1>3, <2>1, <2>2, <2>3 DEF Shape, HandsFrom, HandFrom
<1>4. ASSUME NEW k \in net'
      PROVE  Holds(k.payload.sender_id, k.payload.owner_id, k.payload.packet_uid)'
  <2>1. CASE k \in net
    <3>1. /\ k.payload.sender_id \in Proc /\ k.payload.owner_id \in Proc
          /\ Holds(k.payload.sender_id, k.payload.owner_id, k.payload.packet_uid)
      BY <1>1, <1>2, <2>1, PayloadSent DEF SenderHolds
    <3>2. \A a, b \in Proc : \A c : Holds(a, b, c) => Holds(a, b, c)'
      BY <1>1, HoldsKept
    <3> QED
      BY <3>1, <3>2
  <2>2. CASE k \notin net
    <3>1. PICK p \in Proc, t \in Thread : Copied(k, p, payload'[p][t]) /\ pc'[p][t] # "idle"
      BY <2>2 DEF Shape, NetFrom
    <3>2. /\ k.payload.sender_id = p
          /\ k.payload.owner_id = payload'[p][t].owner_id
          /\ k.payload.packet_uid = payload'[p][t].packet_uid
      BY <3>1 DEF Copied
    <3> QED
      BY <3>1, <3>2 DEF Holds
  <2> QED
    BY <2>1, <2>2
<1>5. ASSUME NEW p \in Proc, NEW s \in Proc, NEW o \in Proc, NEW u \in acked'[p][s][o]
      PROVE  Holds(s, o, u)'
  <2>1. Holds(s, o, u)
    <3>1. CASE u \in acked[p][s][o]
      BY <1>1, <3>1 DEF SenderHolds
    <3>2. ASSUME NEW t \in Thread, InHand(p, t, s, o, u), pc[p][t] \in {"insert", "mark"}
          PROVE  Holds(s, o, u)
      <4>1. CASE pc[p][t] = "mark"
        BY <3>2, <4>1 DEF InHand, Holds
      <4>2. CASE pc[p][t] = "insert"
        BY <1>1, <3>2, <4>2 DEF InHand, SenderHolds
      <4> QED
        BY <3>2, <4>1, <4>2
    <3> QED
      BY <3>1, <3>2 DEF Shape, AckedFrom
  <2> QED
    BY <1>1, <2>1, HoldsKept
<1> QED
  BY <1>3, <1>4, <1>5 DEF SenderHolds

\* What has been counted by a majority is held by a majority.
LEMMA CountedHeld ==
  ASSUME CounterMatchesAcks, SenderHolds, kind # "Beb",
         NEW p \in Proc, NEW o \in Proc, NEW u \in Uid,
         acked_counter[p][o][u] >= Majority
  PROVE  Cardinality(Holders(o, u)) > N \div 2
<1> DEFINE K == {s \in Proc : u \in acked[p][s][o]}
<1>1. Cardinality(K) >= Majority
  BY DEF CounterMatchesAcks
<1>2. K \subseteq Holders(o, u)
  BY DEF SenderHolds, Holders
<1>3. Holders(o, u) \in SUBSET Proc
  BY DEF Holders
<1>4. IsFiniteSet(Holders(o, u)) /\ Cardinality(Holders(o, u)) \in Nat
  BY <1>3, ProcFinite
<1>5. Cardinality(K) <= Cardinality(Holders(o, u)) /\ Cardinality(K) \in Nat
  BY <1>2, <1>4, FS_Subset, FS_CardinalityType
<1> HIDE DEF K
<1> QED
  BY <1>1, <1>4, <1>5, Numbers

\* Deliveries are of packets a majority holds.
LEMMA NextDeliveredHeld ==
  ASSUME Base, Base', Shape, SenderHolds, DeliveredHeld
  PROVE  DeliveredHeld'
<1>1. SUFFICES ASSUME kind \notin {"Beb", "Rb"},
                      NEW p \in Proc, NEW o \in Proc, NEW u \in set'[p][o]
               PROVE  (Cardinality(Holders(o, u)) > N \div 2)'
  BY DEF DeliveredHeld, Shape, Grows
<1>2. u \in Uid
  BY DEF Base, TypeOK
<1>3. Cardinality(Holders(o, u)) > N \div 2
  <2>1. CASE u \in set[p][o]
    BY <1>1, <2>1 DEF DeliveredHeld
  <2>2. CASE DeliverChanges(p, o, u)
    <3>1. CanDeliver(p, o, u)
      BY <2>2 DEF DeliverChanges
    <3>2. acked_counter[p][o][u] >= Majority
      BY <1>1, <3>1, CanDeliverCases DEF Base, CanUrbDeliver
    <3> QED
      BY <1>1, <1>2, <3>2, CountedHeld DEF Base
  <2> QED
    BY <2>1, <2>2 DEF Shape, DeliveredFrom
<1>4. Holders(o, u) \subseteq Holders(o, u)'
  BY <1>1, HoldsKept DEF Holders
<1>5. /\ Holders(o, u) \in SUBSET Proc /\ Holders(o, u)' \in SUBSET Proc
  BY DEF Holders
<1>6. /\ Cardinality(Holders(o, u)) \in Nat
      /\ IsFiniteSet(Holders(o, u)')
      /\ Cardinality(Holders(o, u)') \in Nat
  BY <1>5, ProcFinite
<1>7. Cardinality(Holders(o, u)) <= Cardinality(Holders(o, u)')
  BY <1>4, <1>6, FS_Subset
<1>8. Cardinality(Holders(o, u))' = Cardinality(Holders(o, u)')
  OBVIOUS
<1> QED
  BY <1>3, <1>6, <1>7, <1>8, Numbers

----------------------------------------------------------------------------
(* What the logs say. *)

\* Events stay where they are in the logs.
LEMMA LoggedKept ==
  ASSUME TypeOK, Shape, NEW p \in Proc
  PROVE  /\ Len(log[p]) \in Nat
         /\ DOMAIN log[p] = 1..Len(log[p])
         /\ DOMAIN log'[p] = 1..Len(log'[p])
         /\ 1..Len(log[p]) \subseteq 1..Len(log'[p])
         /\ \A n \in 0..Len(log[p]) : \A x :
              (\E j \in 1..n : log[p][j] = x) <=> (\E j \in 1..n : log'[p][j] = x)
<1>1. \A S, r : r \in Seq(S) => Len(r) \in Nat /\ DOMAIN r = 1..Len(r)
  OBVIOUS
<1>2. Len(log[p]) \in Nat /\ DOMAIN log[p] = 1..Len(log[p])
  BY <1>1 DEF TypeOK
<1>3. /\ Len(log'[p]) = Len(log[p]) \/ Len(log'[p]) = Len(log[p]) + 1
      /\ DOMAIN log'[p] = 1..Len(log'[p])
      /\ \A i \in 1..Len(log[p]) : log'[p][i] = log[p][i]
  BY DEF Shape, Grows
<1>4. \A n \in 0..Len(log[p]) : 1..n \subseteq 1..Len(log[p])
  BY <1>2
<1> QED
  BY <1>2, <1>3, <1>4

\* A broadcast that is logged stays logged.
LEMMA DispatchedKept ==
  ASSUME TypeOK, Shape, NEW o \in Proc, NEW u, Dispatched(o, u)
  PROVE  Dispatched(o, u)'
<1> DEFINE e == DispatchEvent(o, u)
<1>1. \E j \in 1..Len(log[o]) : log[o][j] = e
  BY DEF Dispatched, LoggedBefore, DispatchEvent
<1>2. \E j \in 1..Len(log'[o]) : log'[o][j] = e
  <2> HIDE DEF e
  <2>1. Len(log[o]) \in 0..Len(log[o])
    BY LoggedKept
  <2> QED
    BY <1>1, <2>1, LoggedKept
<1> QED
  BY <1>2 DEF Dispatched, LoggedBefore, DispatchEvent

\* What is carried around has been logged as broadcast.
LEMMA NextCarriedDispatched ==
  ASSUME Base, Base', Shape, CarriedDispatched
  PROVE  CarriedDispatched'
<1>1. TypeOK /\ ThreadWork /\ TypeOK'
  BY DEF Base
<1>2. \A o \in Proc : \A u : Dispatched(o, u) => Dispatched(o, u)'
  BY <1>1, DispatchedKept
<1>3. \A k \in net : /\ k.payload.owner_id \in Proc
                     /\ Dispatched(k.payload.owner_id, k.payload.packet_uid)
  BY <1>1, PayloadSent DEF CarriedDispatched
<1>4. ASSUME NEW p \in Proc, NEW t \in Thread, pc'[p][t] \notin {"idle", "dispatch"}
      PROVE  Dispatched(payload[p][t].owner_id, payload[p][t].packet_uid)'
  <2>1. CASE /\ pc[p][t] # "idle" /\ payload'[p][t] = payload[p][t]
             /\ pc[p][t] = "dispatch" =>
                  /\ p = payload[p][t].owner_id
                  /\ LoggedBefore(p, DispatchEvent(p, payload[p][t].packet_uid),
                                  Len(log[p]))'
    <3> DEFINE o == payload[p][t].owner_id
               u == payload[p][t].packet_uid
    <3>1. o \in Proc
      BY <1>1, <2>1, PayloadInHand
    <3>2. CASE pc[p][t] = "dispatch"
      <4>1. /\ p = payload[p][t].owner_id
            /\ LoggedBefore(p, DispatchEvent(p, payload[p][t].packet_uid), Len(log[p]))'
        BY <2>1, <3>2
      <4> QED
        BY <2>1, <4>1 DEF Dispatched, LoggedBefore, DispatchEvent
    <3>3. CASE pc[p][t] # "dispatch"
      <4>1. Dispatched(o, u)
        BY <2>1, <3>3 DEF CarriedDispatched
      <4> QED
        BY <1>2, <2>1, <3>1, <4>1 DEF Dispatched, LoggedBefore
    <3> QED
      BY <3>2, <3>3
  <2>2. ASSUME NEW k \in net, payload'[p][t] = k.payload
        PROVE  Dispatched(payload[p][t].owner_id, payload[p][t].packet_uid)'
    BY <1>2, <1>3, <2>2 DEF Dispatched, LoggedBefore
  <2> QED
    BY <1>4, <2>1, <2>2 DEF Shape, HandsFrom, HandFrom
<1>5. ASSUME NEW k \in net'
      PROVE  Dispatched(k.payload.owner_id, k.payload.packet_uid)'
  <2>1. CASE k \in net
    BY <1>2, <1>3, <2>1
  <2>2. CASE k \notin net
    <3>1. PICK p \in Proc, t \in Thread :
            Copied(k, p, payload'[p][t]) /\ pc'[p][t] \notin {"idle", "dispatch"}
      BY <2>2 DEF Shape, NetFrom
    <3>2. /\ k.payload.owner_id = payload'[p][t].owner_id
          /\ k.payload.packet_uid = payload'[p][t].packet_uid
      BY <3>1 DEF Copied
    <3> QED
      BY <1>4, <3>1, <3>2 DEF Dispatched, LoggedBefore
  <2> QED
    BY <2>1, <2>2
<1>6. ASSUME NEW p \in Proc, NEW s \in Proc, NEW o \in Proc, NEW u \in acked'[p][s][o]
      PROVE  Dispatched(o, u)'
  <2>1. Dispatched(o, u)
    <3>1. CASE u \in acked[p][s][o]
      BY <3>1 DEF CarriedDispatched
    <3>2. ASSUME NEW t \in Thread, InHand(p, t, s, o, u), pc[p][t] \in {"insert", "mark"}
          PROVE  Dispatched(o, u)
      BY <3>2 DEF InHand, CarriedDispatched
    <3> QED
      BY <3>1, <3>2 DEF Shape, AckedFrom
  <2> QED
    BY <1>2, <2>1
<1> QED
  BY <1>4, <1>5, <1>6 DEF CarriedDispatched

\* What is stored has been recorded for somebody.
LEMMA StoredRecorded ==
  ASSUME Base, NEW p \in Proc, NEW o \in Proc, NEW u \in Uid,
         undelivered[p][o][u] # NoClock
  PROVE  \E s \in Proc : u \in acked[p][s][o]
<1> DEFINE K == {s \in Proc : u \in acked[p][s][o]}
<1>1. acked_counter[p][o][u] > 0
  BY DEF Base, Stored
<1>2. Cardinality(K) > 0
  BY <1>1 DEF Base, CounterMatchesAcks
<1>3. Cardinality({}) = 0
  BY FS_EmptySet
<1>4. K # {}
  <2> HIDE DEF K
  <2> QED
    BY <1>2, <1>3
<1> QED
  BY <1>4

\* A broadcast is logged by its owner, before the owner's own delivery.
LEMMA NextDispatchLogged ==
  ASSUME Base, Base', Shape, CarriedDispatched, DispatchLogged
  PROVE  DispatchLogged'
<1>1. TypeOK
  BY DEF Base
<1>2. SUFFICES ASSUME NEW p \in Proc, NEW o \in Proc, NEW u \in Uid,
                      NEW i \in DOMAIN log'[p], log'[p][i] = Delivery(o, u)
               PROVE  LoggedBefore(o, DispatchEvent(o, u),
                                   IF o = p THEN i - 1 ELSE Len(log[o]))'
  BY DEF DispatchLogged, DispatchEvent, Delivery
<1> DEFINE e == DispatchEvent(o, u)
<1>3. CASE i \in 1..Len(log[p])
  <2>1. log[p][i] = Delivery(o, u) /\ i \in DOMAIN log[p]
    BY <1>1, <1>2, <1>3, LoggedKept DEF Shape, Grows
  <2>2. LoggedBefore(o, e, IF o = p THEN i - 1 ELSE Len(log[o]))
    BY <2>1 DEF DispatchLogged, DispatchEvent
  <2>3. CASE o = p
    <3>1. \E j \in 1..(i - 1) : log[o][j] = e
      BY <2>2, <2>3 DEF LoggedBefore
    <3>2. i - 1 \in 0..Len(log[o])
      BY <1>1, <1>3, <2>3, LoggedKept
    <3>3. \A n \in 0..Len(log[o]) : \A x :
            (\E j \in 1..n : log[o][j] = x) <=> (\E j \in 1..n : log'[o][j] = x)
      BY <1>1, LoggedKept
    <3>4. \E j \in 1..(i - 1) : log'[o][j] = e
      <4> HIDE DEF e
      <4> QED
        BY <3>1, <3>2, <3>3, Zenon
    <3> QED
      BY <2>3, <3>4 DEF LoggedBefore, DispatchEvent
  <2>4. CASE o # p
    <3>1. Dispatched(o, u)
      BY <2>2, <2>4 DEF Dispatched, DispatchEvent
    <3>2. Dispatched(o, u)'
      BY <1>1, <3>1, DispatchedKept
    <3> QED
      BY <2>4, <3>2 DEF Dispatched, LoggedBefore, DispatchEvent
  <2> QED
    BY <2>3, <2>4
<1>4. CASE i \notin 1..Len(log[p])
  <2>1. i = Len(log[p]) + 1 /\ DeliverChanges(p, o, u)
    BY <1>2, <1>4 DEF Shape, DeliveredFrom
  <2>2. Dispatched(o, u)
    BY <2>1, StoredRecorded DEF DeliverChanges, CarriedDispatched
  <2>3. CASE o = p
    <3>1. \E j \in 1..Len(log[o]) : log[o][j] = e
      BY <2>2 DEF Dispatched, LoggedBefore, DispatchEvent
    <3>2. Len(log[o]) \in 0..Len(log[o]) /\ i - 1 = Len(log[o])
      BY <1>1, <2>1, <2>3, LoggedKept
    <3>3. \A n \in 0..Len(log[o]) : \A x :
            (\E j \in 1..n : log[o][j] = x) <=> (\E j \in 1..n : log'[o][j] = x)
      BY <1>1, LoggedKept
    <3>4. \E j \in 1..(i - 1) : log'[o][j] = e
      <4> HIDE DEF e
      <4> QED
        BY <3>1, <3>2, <3>3, Zenon
    <3> QED
      BY <2>3, <3>4 DEF LoggedBefore, DispatchEvent
  <2>4. CASE o # p
    <3>1. Dispatched(o, u)'
      BY <1>1, <2>2, DispatchedKept
    <3> QED
      BY <2>4, <3>1 DEF Dispatched, LoggedBefore, DispatchEvent
  <2> QED
    BY <2>3, <2>4
<1> QED
  BY <1>3, <1>4

----------------------------------------------------------------------------
(* The clocks of packets. *)

\* Packet u of o is the one that the step constructs, and c its clock.
JustMade(o, u, c) ==
  enqueued'[o] = enqueued[o] + 1 /\ u = enqueued[o] + 1 /\ c = vector_clock[o]

\* A packet somewhere with a clock was somewhere with that clock before, or is
\* just made.
LEMMA CarriesFrom ==
  ASSUME Base, Shape, NEW o \in Proc, NEW u \in Uid, NEW c, Carries(o, u, c)'
  PROVE  Carries(o, u, c) \/ JustMade(o, u, c)
<1>1. ASSUME NEW p \in Proc, NEW t \in Thread, pc'[p][t] # "idle",
             payload'[p][t].owner_id = o,
             payload'[p][t].packet_uid = u,
             payload'[p][t].vector_clock = c
      PROVE  Carries(o, u, c) \/ JustMade(o, u, c)
  <2>1. CASE pc[p][t] # "idle" /\ payload'[p][t] = payload[p][t]
    BY <1>1, <2>1 DEF Carries
  <2>2. ASSUME NEW k \in net, payload'[p][t] = k.payload
        PROVE  Carries(o, u, c)
    BY <1>1, <2>2 DEF Carries
  <2>3. CASE payload'[p][t] = NewPayload(p) /\ enqueued'[p] = enqueued[p] + 1
    <3>1. /\ payload'[p][t].owner_id = p
          /\ payload'[p][t].packet_uid = enqueued[p] + 1
          /\ payload'[p][t].vector_clock = vector_clock[p]
      BY <2>3 DEF NewPayload
    <3> QED
      BY <1>1, <2>3, <3>1 DEF JustMade
  <2> QED
    BY <1>1, <2>1, <2>2, <2>3 DEF Shape, HandsFrom, HandFrom
<1>2. ASSUME NEW k \in net', k.payload.owner_id = o, k.payload.packet_uid = u,
             k.payload.vector_clock = c
      PROVE  Carries(o, u, c) \/ JustMade(o, u, c)
  <2>1. CASE k \in net
    BY <1>2, <2>1 DEF Carries
  <2>2. CASE k \notin net
    <3>1. PICK p \in Proc, t \in Thread : Copied(k, p, payload'[p][t]) /\ pc'[p][t] # "idle"
      BY <2>2 DEF Shape, NetFrom
    <3>2. /\ payload'[p][t].owner_id = o
          /\ payload'[p][t].packet_uid = u
          /\ payload'[p][t].vector_clock = c
      BY <1>2, <3>1 DEF Copied
    <3> QED
      BY <1>1, <3>1, <3>2
  <2> QED
    BY <2>1, <2>2
<1>3. ASSUME NEW p \in Proc, undelivered'[p][o][u] = c, c # NoClock
      PROVE  Carries(o, u, c)
  <2>1. CASE undelivered'[p][o][u] = undelivered[p][o][u]
    BY <1>3, <2>1 DEF Carries
  <2>2. ASSUME NEW t \in Thread, pc[p][t] # "idle",
               payload[p][t].owner_id = o, payload[p][t].packet_uid = u,
               undelivered'[p][o][u] = payload[p][t].vector_clock
        PROVE  Carries(o, u, c)
    BY <1>3, <2>2 DEF Carries
  <2> QED
    BY <1>3, <2>1, <2>2 DEF Shape, StoredFrom
<1> QED
  BY <1>1, <1>2, <1>3 DEF Carries

\* A packet has one clock, and only packets that were constructed are around.
LEMMA NextOneClock ==
  ASSUME Base, Shape, OneClock
  PROVE  OneClock'
<1> SUFFICES ASSUME NEW o \in Proc, NEW u \in Uid, NEW c \in Clock, Carries(o, u, c)'
             PROVE  /\ u <= enqueued'[o]
                    /\ \A d \in Clock : Carries(o, u, d)' => d = c
  BY DEF OneClock
<1>1. /\ enqueued[o] \in Nat /\ u \in Nat
      /\ enqueued'[o] = enqueued[o] \/ enqueued'[o] = enqueued[o] + 1
  BY Numbers DEF Base, TypeOK, Shape, Grows
<1>2. \A d \in Clock : Carries(o, u, d)' => Carries(o, u, d) \/ JustMade(o, u, d)
  BY CarriesFrom
<1>3. \A d \in Clock : Carries(o, u, d) => u <= enqueued[o]
  BY DEF OneClock
<1>4. CASE Carries(o, u, c)
  <2>1. u <= enqueued[o]
    BY <1>3, <1>4
  <2>2. \A d \in Clock : ~JustMade(o, u, d)
    BY <1>1, <2>1 DEF JustMade
  <2>3. \A d \in Clock : Carries(o, u, d) => d = c
    BY <1>4 DEF OneClock
  <2>4. u <= enqueued'[o]
    BY <1>1, <2>1
  <2> QED
    BY <1>2, <2>2, <2>3, <2>4
<1>5. CASE JustMade(o, u, c)
  <2>1. u = enqueued[o] + 1 /\ u = enqueued'[o] /\ c = vector_clock[o]
    BY <1>5 DEF JustMade
  <2>2. ASSUME NEW d \in Clock, Carries(o, u, d)
        PROVE  FALSE
    <3>1. u <= enqueued[o]
      BY <1>3, <2>2
    <3> QED
      BY <1>1, <2>1, <3>1
  <2>3. \A d \in Clock : Carries(o, u, d)' => d = c
    BY <1>2, <2>1, <2>2 DEF JustMade
  <2>4. u <= enqueued'[o]
    BY <1>1, <2>1
  <2> QED
    BY <2>3, <2>4
<1> QED
  BY <1>2, <1>4, <1>5

\* What is acknowledged has been constructed and, by others, received.
LEMMA NextAckedSent ==
  ASSUME Base, Base', Shape, OneClock, AckedSent
  PROVE  AckedSent'
<1>1. TypeOK /\ ThreadWork /\ net \subseteq net'
  BY DEF Base, Shape, Grows
<1> SUFFICES ASSUME NEW p \in Proc, NEW s \in Proc, NEW o \in Proc, NEW u \in acked'[p][s][o]
             PROVE  /\ u <= enqueued'[o]
                    /\ s # p => \E k \in net' : /\ k.payload.owner_id = o
                                                /\ k.payload.packet_uid = u
  BY DEF AckedSent
<1>2. u \in Uid
  BY DEF Base, TypeOK
<1>3. /\ enqueued[o] \in Nat /\ u \in Nat
      /\ enqueued'[o] = enqueued[o] \/ enqueued'[o] = enqueued[o] + 1
  BY <1>2, Numbers DEF Base, TypeOK, Shape, Grows
<1>4. CASE u \in acked[p][s][o]
  BY <1>1, <1>3, <1>4 DEF AckedSent
<1>5. ASSUME NEW t \in Thread, InHand(p, t, s, o, u), pc[p][t] \in {"insert", "mark"}
      PROVE  /\ u <= enqueued'[o]
             /\ s # p => \E k \in net' : /\ k.payload.owner_id = o
                                         /\ k.payload.packet_uid = u
  <2>1. pc[p][t] # "idle" /\ payload[p][t].owner_id = o /\ payload[p][t].packet_uid = u
    BY <1>5 DEF InHand
  <2>2. payload[p][t].vector_clock \in Clock
    BY <1>1, <2>1, PayloadInHand
  <2>3. Carries(o, u, payload[p][t].vector_clock)
    BY <2>1 DEF Carries
  <2>4. u <= enqueued[o]
    BY <1>2, <2>2, <2>3 DEF OneClock
  <2>5. ASSUME s # p
        PROVE  \E k \in net : k.payload.owner_id = o /\ k.payload.packet_uid = u
    <3>1. t = "receiver"
      BY <1>1, <1>5, <2>5 DEF InHand, ThreadWork, Thread
    <3>2. [destination |-> p, payload |-> payload[p][t]] \in net
      BY <1>1, <2>1, <3>1 DEF ThreadWork
    <3> QED
      BY <2>1, <3>2
  <2>6. u <= enqueued'[o]
    BY <1>3, <2>4
  <2> QED
    BY <1>1, <2>5, <2>6
<1> QED
  BY <1>4, <1>5 DEF Shape, AckedFrom

\* Dependencies are processes; with one process there are none.
LEMMA DependenciesTyped ==
  ASSUME NEW o \in Proc
  PROVE  /\ Dependencies(o) \subseteq Proc
         /\ N = 1 => Dependencies(o) = {}
<1>1. CASE o < N
  <2>1. o + 1 \in 1..N
    BY <1>1, Numbers DEF Proc
  <2>2. lines[o + 1] \in Seq(1..N)
    BY <2>1, LinesAssumption
  <2>3. \A S, r : r \in Seq(S) => \A i \in DOMAIN r : r[i] \in S
    OBVIOUS
  <2>4. ToSet(lines[o + 1]) \subseteq Proc
    BY <2>2, <2>3 DEF ToSet, Proc
  <2>5. N # 1
    BY <1>1, Numbers DEF Proc
  <2> QED
    BY <1>1, <2>4, <2>5 DEF Dependencies
<1>2. CASE ~(o < N)
  BY <1>2 DEF Dependencies
<1> QED
  BY <1>1, <1>2

\* A packet that a majority of several processes has is on the network.
LEMMA CountedSent ==
  ASSUME Base, AckedSent, NEW p \in Proc, NEW o \in Proc, NEW u \in Uid,
         CanUrbDeliver(p, o, u), N > 1
  PROVE  \E k \in net : k.payload.owner_id = o /\ k.payload.packet_uid = u
<1> DEFINE K == {s \in Proc : u \in acked[p][s][o]}
<1>1. Cardinality(K) >= 2
  <2>1. acked_counter[p][o][u] = Cardinality(K)
    BY DEF Base, CounterMatchesAcks
  <2>2. Cardinality(K) \in Nat
    BY ProcFinite
  <2>3. acked_counter[p][o][u] >= Majority /\ Majority \in Nat /\ Majority >= 2
    BY Numbers DEF CanUrbDeliver
  <2> HIDE DEF K
  <2> QED
    BY <2>1, <2>2, <2>3
<1>2. \E s \in K : s # p
  <2>1. SUFFICES ASSUME K \subseteq {p}
                 PROVE  FALSE
    OBVIOUS
  <2>2. IsFiniteSet({p}) /\ Cardinality({p}) = 1
    BY FS_Singleton
  <2>3. Cardinality(K) <= 1
    BY <2>1, <2>2, FS_Subset
  <2>4. Cardinality(K) \in Nat
    BY ProcFinite
  <2> HIDE DEF K
  <2> QED
    BY <1>1, <2>3, <2>4
<1> QED
  BY <1>2 DEF AckedSent

\* What a process could deliver with kind Lcb comes after what its clock counts.
LEMMA ClockCovered ==
  ASSUME Base, kind = "Lcb", NEW p \in Proc, NEW o \in Proc, NEW u \in Uid,
         undelivered[p][o][u] # NoClock, CanLcbDeliver(p, o, u),
         NEW d \in Dependencies(o), NEW v \in 1..undelivered[p][o][u][d]
  PROVE  \E j \in 1..Len(log[p]) : log[p][j] = Delivery(d, v)
<1>1. d \in Proc
  BY DependenciesTyped
<1>2. /\ undelivered[p][o][u][d] \in Nat
      /\ vector_clock[p][d] \in Nat
      /\ received_up_to[p][d] \in Nat
  <2>1. undelivered[p][o][u] \in Clock /\ vector_clock[p] \in Clock
    BY DEF Base, TypeOK
  <2>2. \A c \in Clock : c[d] \in Nat
    BY <1>1, Numbers DEF Clock
  <2>3. received_up_to[p][d] \in PacketID
    BY <1>1 DEF Base, TypeOK
  <2> QED
    BY <2>1, <2>2, <2>3, Numbers
<1>3. vector_clock[p][d] >= undelivered[p][o][u][d]
  BY DEF CanLcbDeliver
<1>4. vector_clock[p][d] = received_up_to[p][d] - 1
  BY <1>1 DEF Base, ClockCounts
<1>5. set[p][d] = 1..(received_up_to[p][d] - 1)
  BY <1>1 DEF Base, LogMatches, InOrder
<1>6. v \in set[p][d]
  BY <1>2, <1>3, <1>4, <1>5
<1>7. v \in Uid
  BY <1>1, <1>6 DEF Base, TypeOK
<1>8. HasDelivered(p, d, v)
  BY <1>1, <1>6, <1>7 DEF Base, LogMatches
<1> QED
  BY <1>8 DEF HasDelivered, LoggedBefore

\* With kind Lcb deliveries come after what the clocks of their packets count.
LEMMA NextClockDelivered ==
  ASSUME Base, Base', Shape, OneClock, AckedSent, ClockDelivered
  PROVE  ClockDelivered'
<1>1. TypeOK /\ net \subseteq net'
  BY DEF Base, Shape, Grows
<1> SUFFICES ASSUME kind' = "Lcb", NEW p \in Proc, NEW o \in Proc, NEW u \in Uid,
                    NEW i \in DOMAIN log'[p], log'[p][i] = Delivery(o, u)
             PROVE  /\ N > 1 => \E k \in net' : /\ k.payload.owner_id = o
                                                /\ k.payload.packet_uid = u
                    /\ \A c \in Clock : Carries(o, u, c)' =>
                         \A d \in Dependencies(o) : \A v \in 1..c[d] :
                           LoggedBefore(p, Delivery(d, v), i - 1)'
  BY DEF ClockDelivered, Delivery
<1> SUFFICES /\ N > 1 => \E k \in net : /\ k.payload.owner_id = o
                                        /\ k.payload.packet_uid = u
             /\ \A c \in Clock : Carries(o, u, c)' =>
                  \A d \in Dependencies(o) : \A v \in 1..c[d] :
                    \E j \in 1..(i - 1) : log'[p][j] = Delivery(d, v)
  BY <1>1 DEF LoggedBefore, Delivery
<1> kind = "Lcb"
  BY DEF Shape, Grows
<1>2. /\ enqueued[o] \in Nat /\ u \in Nat
  BY Numbers DEF Base, TypeOK
<1>3. \A n \in 0..Len(log[p]) : \A x :
        (\E j \in 1..n : log[p][j] = x) <=> (\E j \in 1..n : log'[p][j] = x)
  BY <1>1, LoggedKept
<1>4. Len(log[p]) \in Nat
  BY <1>1, LoggedKept
<1>5. CASE i \in 1..Len(log[p])
  <2>1. log[p][i] = Delivery(o, u) /\ i \in DOMAIN log[p] /\ i - 1 \in 0..Len(log[p])
    BY <1>1, <1>4, <1>5, LoggedKept DEF Shape, Grows
  <2>2. N > 1 => \E k \in net : k.payload.owner_id = o /\ k.payload.packet_uid = u
    BY <2>1 DEF ClockDelivered
  <2>3. ASSUME NEW c \in Clock, Carries(o, u, c)', NEW d \in Dependencies(o),
               NEW v \in 1..c[d]
        PROVE  \E j \in 1..(i - 1) : log'[p][j] = Delivery(d, v)
    <3>1. Carries(o, u, c)
      <4>1. N # 1 /\ N > 1
        BY <2>3, DependenciesTyped, Numbers
      <4>2. PICK k \in net : k.payload.owner_id = o /\ k.payload.packet_uid = u
        BY <2>2, <4>1
      <4>3. Carries(o, u, k.payload.vector_clock) /\ k.payload.vector_clock \in Clock
        BY <1>1, <4>2, PayloadSent DEF Carries
      <4>4. u <= enqueued[o]
        BY <4>3 DEF OneClock
      <4>5. ~JustMade(o, u, c)
        BY <1>2, <4>4 DEF JustMade
      <4> QED
        BY <2>3, <4>5, CarriesFrom
    <3>2. \E j \in 1..(i - 1) : log[p][j] = Delivery(d, v)
      BY <2>1, <2>3, <3>1 DEF ClockDelivered, LoggedBefore
    <3> QED
      BY <1>3, <2>1, <3>2
  <2> QED
    BY <2>2, <2>3
<1>6. CASE i \notin 1..Len(log[p])
  <2>1. i = Len(log[p]) + 1 /\ DeliverChanges(p, o, u)
    BY <1>6 DEF Shape, DeliveredFrom
  <2>2. undelivered[p][o][u] # NoClock /\ CanLcbDeliver(p, o, u)
    BY <1>1, <2>1, CanDeliverCases DEF DeliverChanges
  <2>3. N > 1 => \E k \in net : k.payload.owner_id = o /\ k.payload.packet_uid = u
    BY <2>2, CountedSent DEF CanLcbDeliver, CanFifobDeliver
  <2>4. ASSUME NEW c \in Clock, Carries(o, u, c)', NEW d \in Dependencies(o),
               NEW v \in 1..c[d]
        PROVE  \E j \in 1..(i - 1) : log'[p][j] = Delivery(d, v)
    <3>1. u <= enqueued[o]
      BY <2>2, StoredRecorded DEF AckedSent
    <3>2. ~JustMade(o, u, c)
      BY <1>2, <3>1 DEF JustMade
    <3>3. Carries(o, u, c)
      BY <2>4, <3>2, CarriesFrom
    <3>4. undelivered[p][o][u] \in Clock
      BY <1>1, <2>2 DEF TypeOK
    <3>5. Carries(o, u, undelivered[p][o][u])
      BY <2>2 DEF Carries
    <3>6. undelivered[p][o][u] = c
      BY <3>3, <3>4, <3>5 DEF OneClock
    <3>7. \E j \in 1..Len(log[p]) : log[p][j] = Delivery(d, v)
      BY <2>2, <2>4, <3>6, ClockCovered
    <3>8. Len(log[p]) \in 0..Len(log[p]) /\ i - 1 = Len(log[p])
      BY <1>4, <2>1
    <3> QED
      BY <1>3, <3>7, <3>8
  <2> QED
    BY <2>3, <2>4
<1> QED
  BY <1>1, <1>5, <1>6

----------------------------------------------------------------------------
(* The invariant. *)

\* The counters of the initial state.
LEMMA InitTypeOK ==
  ASSUME Init
  PROVE  TypeOK
<1>1. /\ kind \in kinds
      /\ acked \in [Proc -> [Proc -> [Proc -> SUBSET Uid]]]
      /\ set \in [Proc -> [Proc -> SUBSET Uid]]
      /\ lock \in [Proc -> Thread \cup {"free"}]
      /\ net \in SUBSET Message
  BY DEF Init
<1>2. acked_counter \in [Proc -> [Proc -> [Uid -> 0..N]]]
  <2>1. [o \in Proc |-> [u \in Uid |-> 0]] \in [Proc -> [Uid -> 0..N]]
    BY Numbers
  <2> QED
    BY <2>1 DEF Init
<1>3. /\ received_up_to \in [Proc -> [Proc -> PacketID]]
      /\ vector_clock \in [Proc -> Clock]
      /\ enqueued \in [Proc -> 0..MaxMsgs]
  BY Numbers DEF Init, Clock
<1>4. undelivered \in [Proc -> [Proc -> [Uid -> Clock \cup {NoClock}]]]
  <2>1. [o \in Proc |-> [u \in Uid |-> NoClock]] \in [Proc -> [Uid -> Clock \cup {NoClock}]]
    OBVIOUS
  <2> QED
    BY <2>1 DEF Init
<1>5. /\ deliverable \in [Proc -> Seq(Deliverable)]
      /\ log \in [Proc -> Seq(LogEvent)]
  BY DEF Init
<1>6. /\ pc \in [Proc -> [Thread -> Label]]
      /\ payload \in [Proc -> [Thread -> Payload \cup {NoPayload}]]
  BY DEF Init, Label
<1> QED
  BY <1>1, <1>2, <1>3, <1>4, <1>5, <1>6 DEF TypeOK

\* Inv holds initially.
LEMMA InitInv ==
  ASSUME Init
  PROVE  Inv
<1>1. TypeOK
  BY InitTypeOK
<1>2. \A p \in Proc, t \in Thread : pc[p][t] = "idle"
  BY DEF Init
<1>3. \A p, s, o \in Proc : acked[p][s][o] = {}
  BY DEF Init
<1>4. \A p \in Proc : log[p] = <<>> /\ DOMAIN log[p] = {} /\ Len(log[p]) = 0
  BY DEF Init
<1>5. net = {}
  BY DEF Init
<1>6. \A p, o \in Proc : set[p][o] = {} /\ received_up_to[p][o] = 1
  BY DEF Init
<1>7. \A p, o \in Proc, u \in Uid : undelivered[p][o][u] = NoClock /\ acked_counter[p][o][u] = 0
  BY DEF Init
<1>8. LockOwner
  BY <1>2 DEF Init, LockOwner, Thread
<1>9. ThreadWork
  BY <1>2 DEF ThreadWork, Thread
<1>10. CounterMatchesAcks
  <2>1. \A p, o \in Proc, u \in Uid : {s \in Proc : u \in acked[p][s][o]} = {}
    BY <1>3
  <2> QED
    BY <1>7, <2>1, FS_EmptySet DEF CounterMatchesAcks
<1>11. Stored
  BY <1>7 DEF Stored
<1>12. ClockCounts
  BY <1>6 DEF Init, ClockCounts
<1>13. OneTried
  BY <1>7, OneElement DEF Init, OneTried
<1>14. LogMatches
  <2>1. \A p, o \in Proc, u \in Uid : ~HasDelivered(p, o, u)
    BY <1>4 DEF HasDelivered, LoggedBefore
  <2>2. 1..(1 - 1) = {}
    OBVIOUS
  <2> QED
    BY <1>4, <1>6, <2>1, <2>2 DEF LogMatches
<1>15. SenderHolds
  BY <1>2, <1>3, <1>5 DEF SenderHolds
<1>16. DeliveredHeld
  BY <1>6 DEF DeliveredHeld
<1>17. CarriedDispatched
  BY <1>2, <1>3, <1>5 DEF CarriedDispatched
<1>18. DispatchLogged
  BY <1>4 DEF DispatchLogged
<1>19. OneClock
  BY <1>2, <1>5, <1>7 DEF OneClock, Carries
<1>20. AckedSent
  BY <1>3 DEF AckedSent
<1>21. ClockDelivered
  BY <1>4 DEF ClockDelivered
<1> QED
  BY <1>1, <1>8, <1>9, <1>10, <1>11, <1>12, <1>13, <1>14, <1>15, <1>16, <1>17, <1>18,
     <1>19, <1>20, <1>21 DEF Inv

\* Every step keeps Inv.
LEMMA NextInv ==
  ASSUME Inv, Next
  PROVE  Inv'
<1>1. Base /\ OneTried
  BY DEF Inv, Base
<1>2. Base' /\ Shape /\ OneTried'
  BY <1>1, NextBase, NextShape, NextOneTried
<1>3. SenderHolds' /\ DeliveredHeld'
  BY <1>1, <1>2, NextSenderHolds, NextDeliveredHeld DEF Inv
<1>4. CarriedDispatched' /\ DispatchLogged'
  BY <1>1, <1>2, NextCarriedDispatched, NextDispatchLogged DEF Inv
<1>5. OneClock' /\ AckedSent' /\ ClockDelivered'
  BY <1>1, <1>2, NextOneClock, NextAckedSent, NextClockDelivered DEF Inv
<1> QED
  BY <1>2, <1>3, <1>4, <1>5 DEF Inv, Base

\* So does a step that changes nothing.
LEMMA StutterInv ==
  ASSUME Inv, UNCHANGED vars
  PROVE  Inv'
<1> USE DEF vars, setVars
<1>1. TypeOK' /\ LockOwner' /\ ThreadWork' /\ CounterMatchesAcks'
  BY DEF Inv, TypeOK, LockOwner, ThreadWork, CounterMatchesAcks, WasSeen
<1>2. Stored' /\ ClockCounts' /\ OneTried' /\ LogMatches'
  BY DEF Inv, Stored, ClockCounts, OneTried, CanFifobDeliver, CanUrbDeliver,
         LogMatches, HasDelivered, LoggedBefore, InOrder
<1>3. SenderHolds' /\ DeliveredHeld'
  BY DEF Inv, SenderHolds, DeliveredHeld, Holders, Holds
<1>4. CarriedDispatched' /\ DispatchLogged'
  BY DEF Inv, CarriedDispatched, Dispatched, DispatchLogged, LoggedBefore
<1>5. OneClock' /\ AckedSent' /\ ClockDelivered'
  BY DEF Inv, OneClock, Carries, AckedSent, ClockDelivered, LoggedBefore
<1> QED
  BY <1>1, <1>2, <1>3, <1>4, <1>5 DEF Inv

\* The invariant of the Rust program, with every kind of broadcast.
THEOREM InvHolds == Spec => []Inv
<1>1. Init => Inv
  BY InitInv
<1>2. Inv /\ [Next]_vars => Inv'
  BY NextInv, StutterInv
<1> QED
  BY <1>1, <1>2, PTL DEF Spec

\* Every variable stays in its type: no counter leaves its bounds and no thread
\* handles what is not a payload.
THEOREM TypesHold == Spec => []TypeOK
<1>1. Inv => TypeOK
  BY DEF Inv
<1> QED
  BY <1>1, InvHolds, PTL

----------------------------------------------------------------------------
(* What the invariant says of the program. *)

\* What is delivered after counting is held by a majority.
LEMMA InvUniform ==
  ASSUME Inv, kind \notin {"Beb", "Rb"}
  PROVE  UniformDelivery
<1>1. ASSUME NEW p \in Proc, NEW o \in Proc, NEW u \in Uid, HasDelivered(p, o, u)
      PROVE  Cardinality(Holders(o, u)) > N \div 2
  <2>1. u \in set[p][o]
    BY <1>1 DEF Inv, LogMatches
  <2> QED
    BY <2>1 DEF Inv, DeliveredHeld
<1> QED
  BY <1>1 DEF UniformDelivery

\* Delivery in the order of the packets of an owner, without gaps and once.
LEMMA InvFifo ==
  ASSUME Inv, InOrder
  PROVE  FifoDelivery
<1>1. TypeOK /\ LogMatches
  BY DEF Inv
<1>2. SUFFICES ASSUME NEW p \in Proc, NEW i \in DOMAIN log[p], log[p][i].event = "Delivery"
               PROVE  /\ \A v \in 1..(log[p][i].packet_uid - 1) :
                           LoggedBefore(p, Delivery(log[p][i].owner_id, v), i - 1)
                      /\ ~LoggedBefore(p, log[p][i], i - 1)
  BY DEF FifoDelivery
<1>3. PICK o \in Proc, u \in Uid :
        o = log[p][i].owner_id /\ u = log[p][i].packet_uid /\ u \in set[p][o]
  BY <1>1, <1>2, LoggedIsSet
<1>4. Len(log[p]) \in Nat /\ DOMAIN log[p] = 1..Len(log[p]) /\ i \in Nat
  <2>1. \A S, r : r \in Seq(S) => Len(r) \in Nat /\ DOMAIN r = 1..Len(r)
    OBVIOUS
  <2>2. Len(log[p]) \in Nat /\ DOMAIN log[p] = 1..Len(log[p])
    BY <1>1, <2>1 DEF TypeOK
  <2> QED
    BY <2>2
<1>5. set[p][o] = 1..(received_up_to[p][o] - 1) /\ received_up_to[p][o] \in Nat /\ u \in Nat
  <2>1. set[p][o] = 1..(received_up_to[p][o] - 1)
    BY <1>1 DEF LogMatches
  <2>2. received_up_to[p][o] \in PacketID
    BY <1>1 DEF TypeOK
  <2> QED
    BY <2>1, <2>2, Numbers
<1>6. ASSUME NEW v \in 1..(u - 1)
      PROVE  \E j \in 1..(i - 1) : log[p][j] = Delivery(o, v)
  <2>1. v \in set[p][o] /\ v < u /\ v \in Nat
    BY <1>3, <1>5
  <2>2. v \in Uid
    BY <1>1, <2>1 DEF TypeOK
  <2>3. PICK j \in 1..Len(log[p]) : log[p][j] = Delivery(o, v)
    BY <1>1, <2>1, <2>2 DEF LogMatches, HasDelivered, LoggedBefore
  <2>4. log[p][j].event = "Delivery" /\ log[p][j].owner_id = o /\ log[p][j].packet_uid = v
    BY <2>3 DEF Delivery
  <2>5. ~(i < j)
    <3>1. ASSUME i < j
          PROVE  u < v
      BY <1>1, <1>2, <1>3, <1>4, <2>4, <3>1 DEF LogMatches
    <3> QED
      BY <1>5, <2>1, <3>1
  <2>6. i # j
    <3>1. u # v
      BY <1>5, <2>1
    <3> QED
      BY <1>3, <2>4, <3>1
  <2>7. j \in 1..(i - 1)
    BY <1>4, <2>5, <2>6
  <2> QED
    BY <2>3, <2>7
<1>7. ASSUME NEW j \in 1..(i - 1), log[p][j] = log[p][i]
      PROVE  FALSE
  <2>1. j \in DOMAIN log[p] /\ j < i
    BY <1>4
  <2>2. u < u
    BY <1>1, <1>2, <1>3, <1>7, <2>1 DEF LogMatches
  <2> QED
    BY <1>5, <2>2
<1> QED
  BY <1>3, <1>6, <1>7 DEF LoggedBefore

\* Nothing that can be delivered is left waiting.
LEMMA InvNothingLeft ==
  ASSUME Inv
  PROVE  NothingLeftWaiting
<1> SUFFICES ASSUME NEW p \in Proc, NEW o \in Proc, NEW u \in Uid, lock[p] = "free"
             PROVE  /\ undelivered[p][o][u] # NoClock
                         <=> acked_counter[p][o][u] > 0 /\ u \notin set[p][o]
                    /\ ~(kind = "Fifob" /\ undelivered[p][o][u] # NoClock
                           /\ CanFifobDeliver(p, o, u))
  BY DEF NothingLeftWaiting
<1>1. undelivered[p][o][u] # NoClock <=> acked_counter[p][o][u] > 0 /\ u \notin set[p][o]
  BY DEF Inv, Stored
<1>2. ASSUME kind = "Fifob", undelivered[p][o][u] # NoClock, CanFifobDeliver(p, o, u)
      PROVE  FALSE
  <2>1. deliverable[p] = <<>>
    BY <1>2 DEF Inv, OneTried
  <2>2. deliverable[p] = <<[owner_id |-> o, packet_uid |-> u]>>
    BY <1>2 DEF Inv, OneTried
  <2>3. <<[owner_id |-> o, packet_uid |-> u]>> # <<>>
    BY OneElement
  <2> QED
    BY <2>1, <2>2, <2>3
<1> QED
  BY <1>1, <1>2

\* The clocks of packets are respected by deliveries.
LEMMA InvClock ==
  ASSUME Inv
  PROVE  ClockRespected
<1>1. TypeOK /\ LogMatches /\ ClockDelivered
  BY DEF Inv
<1>2. SUFFICES ASSUME kind = "Lcb", NEW p \in Proc, NEW i \in DOMAIN log[p],
                      log[p][i].event = "Delivery",
                      NEW d \in Dependencies(log[p][i].owner_id),
                      NEW v \in 1..PacketClock(log[p][i].owner_id,
                                               log[p][i].packet_uid)[d]
               PROVE  LoggedBefore(p, Delivery(d, v), i - 1)
  BY DEF ClockRespected
<1>3. PICK o \in Proc, u \in Uid :
        /\ o = log[p][i].owner_id /\ u = log[p][i].packet_uid
        /\ log[p][i] = Delivery(o, u)
  BY <1>1, <1>2, LoggedIsSet
<1>4. N > 1
  BY <1>2, <1>3, DependenciesTyped, Numbers
<1>5. \E k \in net : k.payload.owner_id = o /\ k.payload.packet_uid = u
  <2>1. \A j \in DOMAIN log[p] : log[p][j] = Delivery(o, u) =>
          (N > 1 => \E k \in net : k.payload.owner_id = o /\ k.payload.packet_uid = u)
    BY <1>1, <1>2, Zenon DEF ClockDelivered
  <2> QED
    BY <1>2, <1>3, <1>4, <2>1
<1> DEFINE k == CHOOSE m \in net : m.payload.owner_id = o /\ m.payload.packet_uid = u
<1>6. k \in net /\ k.payload.owner_id = o /\ k.payload.packet_uid = u
  BY <1>5
<1>7. PacketClock(o, u) = k.payload.vector_clock
  BY DEF PacketClock
<1> HIDE DEF k
<1>8. k.payload.vector_clock \in Clock /\ Carries(o, u, k.payload.vector_clock)
  BY <1>1, <1>6, PayloadSent DEF Carries
<1>9. v \in 1..k.payload.vector_clock[d] /\ d \in Dependencies(o)
  BY <1>2, <1>3, <1>7
<1>10. \A e \in Dependencies(o) : \A w \in 1..k.payload.vector_clock[e] :
         LoggedBefore(p, Delivery(e, w), i - 1)
  <2>1. \A j \in DOMAIN log[p] : log[p][j] = Delivery(o, u) =>
          \A c \in Clock : Carries(o, u, c) =>
            \A e \in Dependencies(o) : \A w \in 1..c[e] :
              LoggedBefore(p, Delivery(e, w), j - 1)
    BY <1>1, <1>2, Zenon DEF ClockDelivered
  <2> QED
    BY <1>2, <1>3, <1>8, <2>1
<1> QED
  BY <1>9, <1>10

\* Uniform delivery, with the kinds that count before they deliver.
THEOREM UniformDeliveryHolds ==
  Spec => [](kind \notin {"Beb", "Rb"} => UniformDelivery)
<1>1. Inv => (kind \notin {"Beb", "Rb"} => UniformDelivery)
  BY InvUniform
<1> QED
  BY <1>1, InvHolds, PTL

\* FIFO delivery, with the kinds that deliver in order.
THEOREM FifoDeliveryHolds == Spec => [](InOrder => FifoDelivery)
<1>1. Inv => (InOrder => FifoDelivery)
  BY InvFifo
<1> QED
  BY <1>1, InvHolds, PTL

\* Nothing is delivered that its owner has not logged as broadcast.
THEOREM DispatchLoggedHolds == Spec => []DispatchLogged
<1>1. Inv => DispatchLogged
  BY DEF Inv
<1> QED
  BY <1>1, InvHolds, PTL

\* The work list never stops too early with kind Fifob.
THEOREM NothingLeftWaitingHolds == Spec => []NothingLeftWaiting
<1>1. Inv => NothingLeftWaiting
  BY InvNothingLeft
<1> QED
  BY <1>1, InvHolds, PTL

\* With kind Lcb every delivery respects the clock of its packet.
THEOREM ClockRespectedHolds == Spec => []ClockRespected
<1>1. Inv => ClockRespected
  BY InvClock
<1> QED
  BY <1>1, InvHolds, PTL

----------------------------------------------------------------------------
(* With a kind that delivers in order RustBroadcast implements FifoUrb.     *)

\* The abstract variables holders and log.
AllHolders == [o \in Proc |-> [u \in Uid |-> Holders(o, u)]]
AllLogs    == [p \in Proc |-> Deliveries(p)]

\* A step after which everybody holds what he held is a stutter for holders.
LEMMA HoldersSame ==
  ASSUME \A s, o \in Proc, u \in Uid : Holds(s, o, u)' <=> Holds(s, o, u)
  PROVE  AllHolders' = AllHolders
<1>1. \A o \in Proc, u \in Uid : Holders(o, u)' = Holders(o, u)
  BY DEF Holders
<1> QED
  BY <1>1 DEF AllHolders

\* A step after which one more process holds one packet.
LEMMA HoldersOneMore ==
  ASSUME NEW p \in Proc, NEW x \in Proc, NEW v \in Uid,
         \A s, o \in Proc, u \in Uid :
           Holds(s, o, u)' <=> Holds(s, o, u) \/ (s = p /\ o = x /\ u = v)
  PROVE  AllHolders' = [AllHolders EXCEPT ![x][v] = @ \cup {p}]
<1> DEFINE new == Holders(x, v) \cup {p}
           F   == [AllHolders EXCEPT ![x][v] = new]
<1>1. ASSUME NEW o \in Proc, NEW u \in Uid
      PROVE  Holders(o, u)' = IF o = x /\ u = v THEN new ELSE Holders(o, u)
  <2>1. CASE o = x /\ u = v
    BY <2>1 DEF Holders
  <2>2. CASE ~(o = x /\ u = v)
    BY <2>2 DEF Holders
  <2> QED
    BY <2>1, <2>2
<1>2. AllHolders[x][v] = Holders(x, v)
  BY DEF AllHolders
<1>3. new \in SUBSET Proc
  BY DEF Holders
<1> HIDE DEF new
<1>4. \A o \in Proc : F[o] = [u \in Uid |-> IF o = x /\ u = v THEN new ELSE Holders(o, u)]
  BY DEF AllHolders
<1>5. \A o \in Proc : F[o] = [u \in Uid |-> Holders(o, u)']
  BY <1>1, <1>4
<1>6. F = [o \in Proc |-> F[o]]
  BY DEF AllHolders
<1>7. F = AllHolders'
  <2> HIDE DEF F
  <2> QED
    BY <1>5, <1>6 DEF AllHolders
<1> QED
  BY <1>2, <1>7 DEF new

\* FifoUrb logs deliveries and nothing else.
LEMMA LoggedByFifoUrb ==
  ASSUME NEW o \in Proc, NEW u \in Uid
  PROVE  /\ Delivery(o, u) \in DOMAIN Delivered
         /\ Delivered[Delivery(o, u)] = [owner_id |-> o, packet_uid |-> u]
         /\ \A x \in DOMAIN Delivered :
              /\ x.event = "Delivery"
              /\ Delivered[x] = [owner_id |-> o, packet_uid |-> u] => x = Delivery(o, u)
<1> DEFINE S == [event : {"Delivery"}, owner_id : Proc, packet_uid : Uid]
<1>1. DOMAIN Delivered = S
  BY DEF Delivered
<1>2. \A x \in S : Delivered[x] = [owner_id |-> x.owner_id, packet_uid |-> x.packet_uid]
  BY DEF Delivered
<1>3. Delivery(o, u) \in S
  BY DEF Delivery
<1>4. Delivery(o, u).owner_id = o /\ Delivery(o, u).packet_uid = u
  BY DEF Delivery
<1>5. \A x \in S : x.event = "Delivery" /\ x = Delivery(x.owner_id, x.packet_uid)
  BY DEF Delivery
<1> HIDE DEF S
<1>6. ASSUME NEW x \in S, Delivered[x] = [owner_id |-> o, packet_uid |-> u]
      PROVE  x = Delivery(o, u)
  <2>1. [owner_id |-> x.owner_id, packet_uid |-> x.packet_uid]
          = [owner_id |-> o, packet_uid |-> u]
    BY <1>2, <1>6
  <2>2. x.owner_id = o /\ x.packet_uid = u
    BY <2>1
  <2> QED
    BY <1>5, <2>2
<1> QED
  BY <1>1, <1>2, <1>3, <1>4, <1>5, <1>6

\* What is delivered is what set has.
LEMMA DeliveriesAreSet ==
  ASSUME TypeOK, LogMatches, NEW p \in Proc, NEW o \in Proc, NEW u \in Uid
  PROVE  (\E i \in DOMAIN Deliveries(p) :
            Deliveries(p)[i] = [owner_id |-> o, packet_uid |-> u])
           <=> u \in set[p][o]
<1> DEFINE y == [owner_id |-> o, packet_uid |-> u]
<1>1. log[p] \in Seq(LogEvent)
  BY DEF TypeOK
<1>2. (\E i \in DOMAIN Deliveries(p) : Deliveries(p)[i] = y)
        <=> \E x \in DOMAIN Delivered : Delivered[x] = y /\ \E i \in DOMAIN log[p] : log[p][i] = x
  <2>1. \A S : \A s \in Seq(S) : \A f, z :
          (\E i \in DOMAIN KeptImages(s, f) : KeptImages(s, f)[i] = z)
            <=> \E x \in DOMAIN f : f[x] = z /\ \E i \in DOMAIN s : s[i] = x
    BY KeptImagesElements
  <2>2. \A z :
          (\E i \in DOMAIN KeptImages(log[p], Delivered) : KeptImages(log[p], Delivered)[i] = z)
            <=> \E x \in DOMAIN Delivered :
                  Delivered[x] = z /\ \E i \in DOMAIN log[p] : log[p][i] = x
    BY <1>1, <2>1, Zenon
  <2> QED
    BY <2>2 DEF Deliveries
<1> HIDE DEF y
<1>3. (\E x \in DOMAIN Delivered : Delivered[x] = y /\ \E i \in DOMAIN log[p] : log[p][i] = x)
        <=> \E i \in DOMAIN log[p] : log[p][i] = Delivery(o, u)
  BY LoggedByFifoUrb DEF y
<1>4. (\E i \in DOMAIN log[p] : log[p][i] = Delivery(o, u)) <=> HasDelivered(p, o, u)
  <2>1. \A S, r : r \in Seq(S) => DOMAIN r = 1..Len(r)
    OBVIOUS
  <2> QED
    BY <1>1, <2>1 DEF HasDelivered, LoggedBefore
<1> QED
  BY <1>2, <1>3, <1>4 DEF LogMatches, y

\* An event that is no delivery changes nothing in the abstract logs.
LEMMA LogsSame ==
  ASSUME TypeOK,
         \/ log' = log
         \/ \E p \in Proc : \E u : log' = [log EXCEPT ![p] = Append(@, DispatchEvent(p, u))]
  PROVE  AllLogs' = AllLogs
<1>1. ASSUME NEW q \in Proc
      PROVE  KeptImages(log'[q], Delivered) = KeptImages(log[q], Delivered)
  <2>1. CASE log'[q] = log[q]
    BY <2>1
  <2>2. ASSUME NEW p \in Proc, NEW u, q = p,
               log' = [log EXCEPT ![p] = Append(@, DispatchEvent(p, u))]
        PROVE  KeptImages(log'[q], Delivered) = KeptImages(log[q], Delivered)
    <3> DEFINE e == DispatchEvent(p, u)
    <3>1. log[q] \in Seq(LogEvent)
      BY DEF TypeOK
    <3>2. log'[q] = Append(log[q], e)
      BY <2>2 DEF TypeOK
    <3>3. e \notin DOMAIN Delivered
      <4>1. e.event = "Dispatch"
        BY DEF DispatchEvent
      <4>2. \A x \in DOMAIN Delivered : x.event = "Delivery"
        BY DEF Delivered
      <4> QED
        BY <4>1, <4>2
    <3> HIDE DEF e
    <3>4. log[q] \in Seq(LogEvent \cup {e})
      BY <3>1
    <3> QED
      BY <3>2, <3>3, <3>4, KeptImagesAppend
  <2> QED
    BY <2>1, <2>2 DEF TypeOK
<1> QED
  BY <1>1 DEF AllLogs, Deliveries

\* A delivery is appended to the abstract log.
LEMMA LogsDelivery ==
  ASSUME TypeOK, NEW p \in Proc, NEW o \in Proc, NEW u \in Uid,
         log' = [log EXCEPT ![p] = Append(@, Delivery(o, u))]
  PROVE  AllLogs' = [AllLogs EXCEPT ![p] = Append(@, [owner_id |-> o, packet_uid |-> u])]
<1> DEFINE e == Delivery(o, u)
           a == [owner_id |-> o, packet_uid |-> u]
<1>1. log[p] \in Seq(LogEvent) /\ log'[p] = Append(log[p], e)
  BY DEF TypeOK
<1>2. e \in DOMAIN Delivered /\ Delivered[e] = a
  BY LoggedByFifoUrb
<1>3. e \in LogEvent
  BY DEF LogEvent, Delivery
<1> HIDE DEF e, a
<1>4. KeptImages(log'[p], Delivered) = Append(KeptImages(log[p], Delivered), a)
  BY <1>1, <1>2, <1>3, KeptImagesAppend
<1>5. \A q \in Proc : q # p => log'[q] = log[q]
  BY DEF TypeOK
<1>6. Deliveries(p)' = Append(Deliveries(p), a)
  BY <1>4 DEF Deliveries
<1>7. \A q \in Proc : q # p => Deliveries(q)' = Deliveries(q)
  BY <1>5 DEF Deliveries
<1> HIDE DEF a
<1> QED
  BY <1>6, <1>7 DEF AllLogs, a

\* The events of work outside insert are no deliveries.
LEMMA WorkLogs ==
  ASSUME Base, Base', NEW p \in Proc, NEW t \in Thread, NEW l, NEW m, Work(p, t, l, m)
  PROVE  AllLogs' = AllLogs
<1>1. \/ log' = log
      \/ \E q \in Proc : \E u : log' = [log EXCEPT ![q] = Append(@, DispatchEvent(q, u))]
  <2>1. CASE pc[p][t] = "dispatch"
    BY <2>1 DEF Work, DispatchEvent
  <2>2. CASE pc[p][t] # "dispatch"
    BY <2>2 DEF Work
  <2> QED
    BY <2>1, <2>2
<1> QED
  BY <1>1, LogsSame DEF Base

\* Constructing a packet is an abstract broadcast.
LEMMA ConstructBroadcasts ==
  ASSUME Inv, Inv', NEW p \in Proc, NEW t \in Thread, NEW l, NEW m,
         Work(p, t, l, m), Constructs(p, t, l, m)
  PROVE  FU!Broadcast(p)
<1> DEFINE v == enqueued[p] + 1
<1>1. TypeOK /\ ThreadWork /\ Base /\ Base'
  BY DEF Inv, Base
<1>2. WorkChanges(p, t, l, m)
  BY <1>1, WorkEffect
<1>3. enqueued[p] < MaxMsgs /\ v \in Uid /\ enqueued' = [enqueued EXCEPT ![p] = @ + 1]
  BY <1>1, NewPayloadTyped DEF Constructs, Work
<1>4. pc[p][t] = "idle" /\ l # "idle" /\ m.owner_id = p /\ m.packet_uid = v
  BY DEF Constructs, NewPayload
<1> HIDE DEF v
<1>5. \A s, o \in Proc, u \in Uid :
        Holds(s, o, u)' <=> Holds(s, o, u) \/ (s = p /\ o = p /\ u = v)
  BY <1>2, <1>4 DEF WorkChanges, Holds
<1>6. AllHolders' = [AllHolders EXCEPT ![p][v] = @ \cup {p}]
  BY <1>3, <1>5, HoldersOneMore
<1>7. AllLogs' = AllLogs
  BY <1>1, WorkLogs
<1> QED
  BY <1>3, <1>6, <1>7 DEF FU!Broadcast, AllHolders, AllLogs, v

\* Receiving a packet spreads it: its sender holds it.
LEMMA ReceiveSpreads ==
  ASSUME Inv, Inv', InOrder, NEW p \in Proc, NEW t \in Thread, NEW l, NEW m,
         Work(p, t, l, m), Receives(p, t, l, m)
  PROVE  \E o \in Proc, u \in Uid : FU!Spread(p, o, u)
<1> DEFINE x == m.owner_id
           v == m.packet_uid
           k == [destination |-> p, payload |-> m]
<1>1. TypeOK /\ ThreadWork /\ Base /\ Base' /\ kind # "Beb"
  BY DEF Inv, Base, InOrder
<1>2. WorkChanges(p, t, l, m)
  BY <1>1, WorkEffect
<1>3. k \in net /\ k.payload = m
  BY DEF Receives
<1>4. m.sender_id \in Proc /\ x \in Proc /\ v \in Uid
  BY <1>1, <1>3, PayloadSent
<1>5. Holds(m.sender_id, x, v)
  BY <1>1, <1>3 DEF Inv, SenderHolds
<1>6. AllHolders[x][v] # {}
  BY <1>4, <1>5 DEF AllHolders, Holders
<1>7. pc[p][t] = "idle" /\ l # "idle" /\ enqueued' = enqueued
  BY DEF Receives, Work
<1>8. \A s, o \in Proc, u \in Uid :
        Holds(s, o, u)' <=> Holds(s, o, u) \/ (s = p /\ o = x /\ u = v)
  BY <1>2, <1>7 DEF WorkChanges, Holds
<1>9. AllHolders' = [AllHolders EXCEPT ![x][v] = @ \cup {p}]
  BY <1>4, <1>8, HoldersOneMore
<1>10. AllLogs' = AllLogs
  BY <1>1, WorkLogs
<1>11. FU!Spread(p, x, v)
  BY <1>6, <1>7, <1>9, <1>10 DEF FU!Spread, AllHolders, AllLogs
<1> QED
  BY <1>4, <1>11

\* Going on with a packet, and dropping one that is seen, changes nothing.
LEMMA WorkStutters ==
  ASSUME Inv, Inv', NEW p \in Proc, NEW t \in Thread, NEW l, NEW m,
         Work(p, t, l, m), Drops(p, t, l, m) \/ Continues(p, t, l, m)
  PROVE  UNCHANGED <<enqueued, AllHolders, AllLogs>>
<1>1. TypeOK /\ ThreadWork /\ Base /\ Base'
  BY DEF Inv, Base
<1>2. WorkChanges(p, t, l, m)
  BY <1>1, WorkEffect
<1>3. enqueued' = enqueued
  BY DEF Work, Drops, Continues
<1>4. \A s, o \in Proc, u \in Uid : Holds(s, o, u)' <=> Holds(s, o, u)
  <2>1. CASE Drops(p, t, l, m)
    BY <1>2, <2>1 DEF WorkChanges, Drops, Holds, WasSeen
  <2>2. CASE Continues(p, t, l, m)
    <3>1. pc[p][t] # "idle" /\ l # "idle" /\ m = payload[p][t]
      BY <2>2 DEF Continues
    <3> QED
      BY <1>2, <3>1 DEF WorkChanges, Holds
  <2> QED
    BY <2>1, <2>2
<1> QED
  BY <1>1, <1>3, <1>4, HoldersSame, WorkLogs

\* insert up to try_delivering: the packet recorded was in hand.
LEMMA InsertStutters ==
  ASSUME Inv, Inv', NEW p \in Proc, NEW t \in Thread, Insert(p, t)
  PROVE  UNCHANGED <<enqueued, AllHolders, AllLogs>>
<1>1. TypeOK /\ TypeOK' /\ ThreadWork /\ pc[p][t] \in {"insert", "mark"}
  BY DEF Inv, Insert
<1>2. PICK s \in Proc, o \in Proc, u \in Uid : InHand(p, t, s, o, u)
  BY <1>1, PayloadInHand DEF InHand
<1>3. InsertChanges(p, t, s, o, u)
  BY <1>1, <1>2, InsertEffect
<1>4. UNCHANGED <<enqueued, payload, log>>
  BY <1>3 DEF InsertChanges
<1>5. \A q \in Proc, r \in Thread : pc'[q][r] # "idle" <=> pc[q][r] # "idle"
  BY <1>1, <1>3 DEF InsertChanges
<1>6. ASSUME NEW q \in Proc, NEW x \in Proc, NEW v \in Uid
      PROVE  Holds(q, x, v)' <=> Holds(q, x, v)
  <2>1. v \in acked'[q][q][x] <=> v \in acked[q][q][x] \/ (q = p /\ q = s /\ x = o /\ v = u)
    BY <1>3 DEF InsertChanges
  <2>2. q = p /\ x = o /\ v = u => Holds(q, x, v)
    BY <1>1, <1>2 DEF InHand, Holds
  <2> QED
    BY <1>4, <1>5, <2>1, <2>2 DEF Holds
<1> QED
  BY <1>1, <1>4, <1>6, HoldersSame, LogsSame

\* The return of insert: a thread that marked its packet goes idle.
LEMMA ReturnStutters ==
  ASSUME Inv, Inv', InOrder, NEW p \in Proc, NEW t \in Thread, InsertReturn(p, t)
  PROVE  UNCHANGED <<enqueued, AllHolders, AllLogs>>
<1>1. TypeOK /\ TypeOK' /\ ThreadWork /\ kind # "Beb"
  BY DEF Inv, InOrder
<1>2. ReturnChanges(p, t)
  BY <1>1, InsertReturnEffect
<1>3. UNCHANGED <<enqueued, log, acked>>
  BY <1>2 DEF ReturnChanges
<1>4. \A s, o \in Proc, u \in Uid : Holds(s, o, u)' <=> Holds(s, o, u)
  <2>1. CASE pc[p][t] = "inserting"
    <3>1. \A q \in Proc, r \in Thread :
            /\ pc'[q][r] # "idle" <=> pc[q][r] # "idle"
            /\ payload'[q][r] = payload[q][r]
      BY <1>1, <1>2, <2>1 DEF ReturnChanges
    <3> QED
      BY <1>3, <3>1 DEF Holds
  <2>2. CASE pc[p][t] = "marking"
    <3>1. WasSeen(p, payload[p][t])
      BY <1>1, <2>2 DEF ThreadWork
    <3>2. \A q \in Proc, r \in Thread :
            /\ pc'[q][r] = IF q = p /\ r = t THEN "idle" ELSE pc[q][r]
            /\ ~(q = p /\ r = t) => payload'[q][r] = payload[q][r]
      BY <1>2, <2>2 DEF ReturnChanges
    <3> QED
      BY <1>3, <3>1, <3>2 DEF Holds, WasSeen
  <2> QED
    BY <1>2, <2>1, <2>2 DEF ReturnChanges
<1> QED
  BY <1>1, <1>3, <1>4, HoldersSame, LogsSame

\* One round of try_delivering is one abstract delivery.
LEMMA DeliverDelivers ==
  ASSUME Inv, InOrder, NEW p \in Proc, NEW t \in Thread, Deliver(p, t)
  PROVE  \E o \in Proc, u \in Uid : FU!Deliver(p, o, u)
<1>1. TypeOK /\ LogMatches /\ CounterMatchesAcks /\ SenderHolds /\ kind # "Beb"
  BY DEF Inv, InOrder
<1>2. PICK o \in Proc, u \in Uid : DeliverChanges(p, o, u)
  BY <1>1, DeliverEffect
<1>3. /\ CanFifobDeliver(p, o, u)
      /\ log' = [log EXCEPT ![p] = Append(@, Delivery(o, u))]
      /\ UNCHANGED <<enqueued, acked, pc, payload>>
  BY <1>1, <1>2, CanDeliverCases DEF DeliverChanges
<1>4. u = received_up_to[p][o] /\ acked_counter[p][o][u] >= Majority
  BY <1>3 DEF CanFifobDeliver, CanUrbDeliver
<1>5. Cardinality(AllHolders[o][u]) > N \div 2
  BY <1>1, <1>4, CountedHeld DEF AllHolders
<1>6. set[p][o] = 1..(u - 1) /\ u \in Nat
  BY <1>1, <1>4, Numbers DEF LogMatches
<1>7. \A v \in 1..(u - 1) : FU!InLog(p, o, v)
  <2>1. \A v \in 1..(u - 1) : v \in Uid /\ v \in set[p][o]
    BY <1>1, <1>6 DEF TypeOK
  <2> QED
    BY <1>1, <2>1, DeliveriesAreSet DEF FU!InLog
<1>8. ~FU!InLog(p, o, u)
  <2>1. u \notin set[p][o]
    BY <1>6
  <2> QED
    BY <1>1, <2>1, DeliveriesAreSet DEF FU!InLog
<1>9. AllHolders' = AllHolders
  <2>1. \A s, x \in Proc, v \in Uid : Holds(s, x, v)' <=> Holds(s, x, v)
    BY <1>3 DEF Holds
  <2> QED
    BY <2>1, HoldersSame
<1>10. AllLogs' = [AllLogs EXCEPT ![p] = Append(@, [owner_id |-> o, packet_uid |-> u])]
  BY <1>1, <1>3, LogsDelivery
<1>11. FU!Cardinality(AllHolders[o][u]) > N \div 2
  <2>1. \A S : FU!Cardinality(S) = Cardinality(S)
    BY Zenon DEF FU!Cardinality, Cardinality
  <2> QED
    BY <1>5, <2>1
<1>12. FU!Deliver(p, o, u)
  BY <1>3, <1>7, <1>8, <1>9, <1>10, <1>11 DEF FU!Deliver, AllHolders, AllLogs
<1> QED
  BY <1>12

\* Every step of a thread is an abstract step or an abstract stutter.
LEMMA StepSimulates ==
  ASSUME Inv, Inv', InOrder, [Next]_vars
  PROVE  [FU!Next]_<<enqueued, AllHolders, AllLogs>>
<1>1. CASE UNCHANGED vars
  <2>1. UNCHANGED <<enqueued, log, acked, pc, payload>>
    BY <1>1 DEF vars, setVars
  <2>2. \A s, o \in Proc, u \in Uid : Holds(s, o, u)' <=> Holds(s, o, u)
    BY <2>1 DEF Holds
  <2>3. AllLogs' = AllLogs
    BY <2>1, LogsSame DEF Inv
  <2> QED
    BY <2>1, <2>2, <2>3, HoldersSame
<1>2. CASE Next
  <2>1. TypeOK /\ ThreadWork
    BY DEF Inv
  <2>2. PICK p \in Proc, t \in Thread : \/ \E l, m : Work(p, t, l, m)
                                        \/ Insert(p, t)
                                        \/ Deliver(p, t)
                                        \/ InsertReturn(p, t)
    BY <1>2, <2>1, StepCases
  <2>3. ASSUME NEW l, NEW m, Work(p, t, l, m)
        PROVE  [FU!Next]_<<enqueued, AllHolders, AllLogs>>
    <3>1. CASE Constructs(p, t, l, m)
      <4>1. FU!Broadcast(p)
        BY <2>3, <3>1, ConstructBroadcasts
      <4> QED
        BY <4>1 DEF FU!Next, Proc
    <3>2. CASE Receives(p, t, l, m)
      <4>1. \E o \in Proc, u \in Uid : FU!Spread(p, o, u)
        BY <2>3, <3>2, ReceiveSpreads
      <4> QED
        BY <4>1 DEF FU!Next, Proc, Uid
    <3>3. CASE Drops(p, t, l, m) \/ Continues(p, t, l, m)
      BY <2>3, <3>3, WorkStutters
    <3> QED
      BY <2>3, <3>1, <3>2, <3>3 DEF Work
  <2>4. CASE Insert(p, t)
    BY <2>4, InsertStutters
  <2>5. CASE InsertReturn(p, t)
    BY <2>5, ReturnStutters
  <2>6. CASE Deliver(p, t)
    <3>1. \E o \in Proc, u \in Uid : FU!Deliver(p, o, u)
      BY <2>6, DeliverDelivers
    <3> QED
      BY <3>1 DEF FU!Next, Proc, Uid
  <2> QED
    BY <2>2, <2>3, <2>4, <2>5, <2>6
<1> QED
  BY <1>1, <1>2

\* The work list, the locks, the acknowledgements and the network of the Rust
\* program implement FIFO uniform reliable broadcast when it broadcasts with kind
\* Fifob or Lcb, for any number of processes and any configuration.
THEOREM Refinement == Spec /\ InOrder => ImplementsFifoUrb
<1>1. Init => FU!Init
  <2> SUFFICES ASSUME Init
               PROVE  FU!Init
    OBVIOUS
  <2>1. \A p \in Proc, t \in Thread : pc[p][t] = "idle"
    BY DEF Init
  <2>2. \A p, s, o \in Proc : acked[p][s][o] = {}
    BY DEF Init
  <2>3. \A o \in Proc, u \in Uid : Holders(o, u) = {}
    BY <2>1, <2>2 DEF Holders, Holds
  <2>4. [o \in Proc |-> [u \in Uid |-> Holders(o, u)]]
          = [o \in Proc |-> [u \in Uid |-> {}]]
    BY <2>3
  <2>5. \A p \in Proc : Deliveries(p) = <<>>
    BY KeptImagesEmpty DEF Deliveries, Init
  <2>6. [p \in Proc |-> Deliveries(p)] = [p \in Proc |-> <<>>]
    BY <2>5
  <2> QED
    BY <2>4, <2>6 DEF Init, FU!Init, Proc, Uid
<1>2. Inv /\ Inv' /\ InOrder /\ [Next]_vars
        => [FU!Next]_<<enqueued, [o \in Proc |-> [u \in Uid |-> Holders(o, u)]],
                       [p \in Proc |-> Deliveries(p)]>>
  BY StepSimulates DEF AllHolders, AllLogs
<1>3. Inv /\ InOrder /\ [Next]_vars => InOrder'
  <2>1. ASSUME Inv, [Next]_vars
        PROVE  kind' = kind
    <3>1. CASE Next
      BY <2>1, <3>1, NextShape DEF Inv, Base, Shape, Grows
    <3> QED
      BY <2>1, <3>1 DEF vars
  <2> QED
    BY <2>1 DEF InOrder
<1> QED
  BY <1>1, <1>2, <1>3, InvHolds, PTL DEF Spec, ImplementsFifoUrb, FU!Spec
=============================================================================
