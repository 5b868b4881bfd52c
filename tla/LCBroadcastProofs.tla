------------------------- MODULE LCBroadcastProofs -------------------------
(* Inv, ClockInv and CausalInv are invariants of LCBroadcast, for every     *)
(* number of processes and packets and every configuration file.           *)
EXTENDS LCBInvariant, FiniteSetTheorems, TLAPS

\* The processes are finitely many, and so are the holders of a packet.
LEMMA ProcFinite ==
  /\ IsFiniteSet(Proc)
  /\ Cardinality(Proc) = N
  /\ \A S \in SUBSET Proc : IsFiniteSet(S) /\ Cardinality(S) \in 0..N
<1>1. IsFiniteSet(Proc) /\ Cardinality(Proc) = N
  BY FS_Interval, NAssumption DEF Proc
<1>2. ASSUME NEW S \in SUBSET Proc
      PROVE  IsFiniteSet(S) /\ Cardinality(S) \in 0..N
  <2>1. IsFiniteSet(S) /\ Cardinality(S) <= Cardinality(Proc)
    BY <1>1, FS_Subset
  <2>2. Cardinality(S) \in Nat
    BY <2>1, FS_CardinalityType
  <2> QED
    BY <1>1, <2>1, <2>2, NAssumption
<1> QED
  BY <1>1, <1>2

\* A packet counted for one more sender is counted for at most N of them.
LEMMA OneMoreAck ==
  ASSUME TypeOK, CounterMatchesAcks,
         NEW p \in Proc, NEW s \in Proc, NEW o \in Proc, NEW u \in Uid,
         u >= received_up_to[p][o], u \notin acked[p][s][o]
  PROVE  /\ Cardinality({r \in Proc : u \in acked[p][r][o]} \cup {s})
              = acked_counter[p][o][u] + 1
         /\ acked_counter[p][o][u] + 1 \in 0..N
<1> DEFINE K == {r \in Proc : u \in acked[p][r][o]}
<1>1. acked_counter[p][o][u] = Cardinality(K)
  BY DEF CounterMatchesAcks
<1>2. K \in SUBSET Proc /\ K \cup {s} \in SUBSET Proc /\ s \notin K
  OBVIOUS
<1>3. IsFiniteSet(K) /\ Cardinality(K \cup {s}) \in 0..N
  BY <1>2, ProcFinite
<1>4. Cardinality(K \cup {s}) = Cardinality(K) + 1
  BY <1>2, <1>3, FS_AddElement
<1> QED
  BY <1>1, <1>3, <1>4

\* What the delivery loop finds at the node it delivers from: a packet that
\* exists, that is not delivered yet and that a majority has acknowledged.
LEMMA DeliverableIsCounted ==
  ASSUME TypeOK, NoExtraCount,
         NEW p \in Proc, NEW a \in Proc,
         CanUrbDeliver(p, a, received_up_to[p][a])
  PROVE  /\ received_up_to[p][a] \in Uid
         /\ acked_counter[p][a][received_up_to[p][a]] > N \div 2
<1> DEFINE u == received_up_to[p][a]
<1>1. u \in PacketID /\ acked_counter[p][a][u] \in 0..N
  BY DEF TypeOK
<1>2. acked_counter[p][a][u] > N \div 2
  BY <1>1, CountAssumption DEF CanUrbDeliver, PacketID
<1>3. N \div 2 \in Nat
  BY NAssumption
<1>4. u # MaxMsgs + 1
  <2>1. acked_counter[p][a][MaxMsgs + 1] = 0
    BY DEF NoExtraCount
  <2> QED
    BY <1>1, <1>2, <1>3, <2>1, CountAssumption DEF PacketID
<1> QED
  BY <1>1, <1>2, <1>4, CountAssumption DEF PacketID, Uid

----------------------------------------------------------------------------
(* Types, action by action. *)

\* Updating one entry of a three-level function.
LEMMA Update3 ==
  ASSUME NEW A, NEW B, NEW C, NEW D, NEW f \in [A -> [B -> [C -> D]]],
         NEW a \in A, NEW b \in B, NEW c \in C, NEW d \in D
  PROVE  [f EXCEPT ![a][b][c] = d] \in [A -> [B -> [C -> D]]]
<1>1. f[a] \in [B -> [C -> D]] /\ f[a][b] \in [C -> D]
  OBVIOUS
<1>2. [f[a][b] EXCEPT ![c] = d] \in [C -> D]
  BY <1>1
<1>3. [f[a] EXCEPT ![b] = [f[a][b] EXCEPT ![c] = d]] \in [B -> [C -> D]]
  BY <1>1, <1>2
<1>4. [f EXCEPT ![a] = [f[a] EXCEPT ![b] = [f[a][b] EXCEPT ![c] = d]]]
        \in [A -> [B -> [C -> D]]]
  BY <1>3
<1> QED
  BY <1>4

\* The fields of the payload a thread is working on.
LEMMA PayloadInHand ==
  ASSUME TypeOK, NEW p \in Proc, NEW t \in Thread, pc[p][t] # "idle"
  PROVE  /\ payload[p][t] \in Payload
         /\ payload[p][t].sender_id \in Proc
         /\ payload[p][t].owner_id \in Proc
         /\ payload[p][t].packet_uid \in Uid
         /\ payload[p][t].vector_clock \in Clock
         /\ payload[p][t].is_ack \in BOOLEAN
BY DEF TypeOK, Payload

\* acked holds numbers of packets only.
LEMMA AckedUid ==
  ASSUME TypeOK, NEW p \in Proc, NEW s \in Proc, NEW o \in Proc
  PROVE  acked[p][s][o] \subseteq Uid
<1>1. acked \in [Proc -> [Proc -> [Proc -> SUBSET Uid]]]
  BY DEF TypeOK
<1>2. acked[p][s][o] \in SUBSET Uid
  BY <1>1
<1> QED
  BY <1>2

\* insert counts a sender once, so acked_counter does not exceed N.
LEMMA InsertTypeOK ==
  ASSUME TypeOK, CounterMatchesAcks, NEW p \in Proc, NEW t \in Thread, Insert(p, t)
  PROVE  TypeOK'
<1> DEFINE m == payload[p][t]
           s == m.sender_id
           o == m.owner_id
           u == m.packet_uid
<1>1. s \in Proc /\ o \in Proc /\ u \in Uid
  BY PayloadInHand DEF Insert
<1>2. acked' \in [Proc -> [Proc -> [Proc -> SUBSET Uid]]]
  <2>1. acked \in [Proc -> [Proc -> [Proc -> SUBSET Uid]]]
    BY DEF TypeOK
  <2> DEFINE new == acked[p][s][o] \cup {u}
  <2>2. acked' = [acked EXCEPT ![p][s][o] = new]
    BY DEF Insert
  <2>3. new \in SUBSET Uid
    BY <1>1, <2>1
  <2> HIDE DEF m, s, o, u, new
  <2> QED
    BY <1>1, <2>1, <2>2, <2>3, Update3
<1>3. acked_counter' \in [Proc -> [Proc -> [PacketID -> 0..N]]]
  <2>1. u \in PacketID
    BY <1>1, CountAssumption DEF Uid, PacketID
  <2>2. CountsAsNew(p, m) => acked_counter[p][o][u] + 1 \in 0..N
    BY <1>1, OneMoreAck DEF CountsAsNew
  <2>3. acked_counter \in [Proc -> [Proc -> [PacketID -> 0..N]]]
    BY DEF TypeOK
  <2> DEFINE new == IF CountsAsNew(p, m) THEN acked_counter[p][o][u] + 1
                                        ELSE acked_counter[p][o][u]
  <2>4. acked_counter' = [acked_counter EXCEPT ![p][o][u] = new]
    BY DEF Insert
  <2>5. new \in 0..N
    BY <1>1, <2>1, <2>2, <2>3
  <2> HIDE DEF m, s, o, u, new
  <2> QED
    BY <1>1, <2>1, <2>3, <2>4, <2>5, Update3
<1>4. undelivered' \in [Proc -> [Proc -> SUBSET Uid]]
  BY <1>1 DEF Insert, TypeOK
<1>5. mtx' \in [Proc -> Thread \cup {"free"}]
  BY DEF Insert, TypeOK
<1>6. cursor' \in [Proc -> Nat \ {0}]
  <2>1. Len(causality[o]) + 1 \in Nat \ {0}
    BY <1>1, CausalityAssumption DEF Proc
  <2> QED
    BY <2>1 DEF Insert, TypeOK
<1>7. /\ pc' \in [Proc -> [Thread -> Label]]
      /\ \A q \in Proc : pc'[q]["receiver"] # "copy"
      /\ \A q \in Proc, r \in Thread :
           pc'[q][r] # "idle" => payload'[q][r] \in Payload
  <2>1. pc'[p][t] \in {"inserting", "marking"}
    BY DEF Insert, TypeOK
  <2>2. \A q \in Proc, r \in Thread : <<q, r>> # <<p, t>> => pc'[q][r] = pc[q][r]
    BY DEF Insert, TypeOK
  <2>3. pc' \in [Proc -> [Thread -> Label]]
    BY <2>1 DEF Insert, TypeOK, Label
  <2>4. payload' = payload /\ payload[p][t] \in Payload
    BY PayloadInHand DEF Insert
  <2> QED
    BY <2>1, <2>2, <2>3, <2>4 DEF TypeOK, Thread
<1> QED
  BY <1>2, <1>3, <1>4, <1>5, <1>6, <1>7 DEF Insert, TypeOK

\* insert's loop never delivers past the last packet, so received_up_to and
\* vector_clock stay within their bounds.
LEMMA DeliverTypeOK ==
  ASSUME TypeOK, NoExtraCount, ClockCounts,
         NEW p \in Proc, NEW t \in Thread, Deliver(p, t)
  PROVE  TypeOK'
<1> DEFINE m == payload[p][t]
<1>1. m.owner_id \in Proc
  BY PayloadInHand DEF Deliver
<1>2. causality[m.owner_id] \in Seq(Proc)
  BY <1>1, CausalityAssumption DEF Proc
<1>3. PICK i \in Remaining(p, t) :
        LET a == Affected(p, t, i)
            u == received_up_to[p][a]
        IN  /\ CanDeliverAt(p, t, i)
            /\ deliverable' =
                 [deliverable EXCEPT ![p] = Append(@, Delivered(p, t, a))]
            /\ undelivered' = [undelivered EXCEPT ![p][a] = @ \ {u}]
            /\ acked_counter' = [acked_counter EXCEPT ![p][a][u] = 0]
            /\ received_up_to' = [received_up_to EXCEPT ![p][a] = @ + 1]
            /\ vector_clock' = [vector_clock EXCEPT ![p][a] = @ + 1]
            /\ cursor' = [cursor EXCEPT ![p] = i]
  BY DEF Deliver
<1> DEFINE a == Affected(p, t, i)
           u == received_up_to[p][a]
<1>4. i \in Nat \ {0} /\ i \in 1..Len(causality[m.owner_id])
  <2>1. cursor[p] \in Nat \ {0} /\ Len(causality[m.owner_id]) \in Nat
    BY <1>2 DEF TypeOK
  <2> QED
    BY <2>1 DEF Remaining
<1>5. a \in Proc
  BY <1>2, <1>4 DEF Affected
<1>6. u \in Uid
  BY <1>3, <1>5, DeliverableIsCounted DEF CanDeliverAt, CanLcbDeliver
<1>7. deliverable' \in [Proc -> Seq(Delivery)]
  <2>1. Delivered(p, t, a) \in Delivery
    BY <1>5, <1>6 DEF Delivered, Delivery
  <2> QED
    BY <1>3, <2>1 DEF TypeOK
<1>8. undelivered' \in [Proc -> [Proc -> SUBSET Uid]]
  BY <1>3, <1>5 DEF TypeOK
<1>9. acked_counter' \in [Proc -> [Proc -> [PacketID -> 0..N]]]
  <2>1. acked_counter \in [Proc -> [Proc -> [PacketID -> 0..N]]] /\ 0 \in 0..N
    BY NAssumption DEF TypeOK
  <2>2. u \in PacketID
    BY <1>6, CountAssumption DEF Uid, PacketID
  <2>3. acked_counter' = [acked_counter EXCEPT ![p][a][u] = 0]
    BY <1>3
  <2> HIDE DEF a, u
  <2> QED
    BY <1>5, <2>1, <2>2, <2>3, Update3
<1>10. received_up_to' \in [Proc -> [Proc -> PacketID]]
  <2>1. u + 1 \in PacketID
    BY <1>6, CountAssumption DEF Uid, PacketID
  <2> QED
    BY <1>3, <1>5, <2>1 DEF TypeOK
<1>11. vector_clock' \in [Proc -> Clock]
  <2>1. vector_clock[p][a] + 1 \in 0..MaxMsgs
    BY <1>5, <1>6, CountAssumption DEF ClockCounts, Uid
  <2> QED
    BY <1>3, <1>5, <2>1 DEF TypeOK, Clock
<1>12. cursor' \in [Proc -> Nat \ {0}]
  BY <1>3, <1>4 DEF TypeOK
<1> QED
  BY <1>7, <1>8, <1>9, <1>10, <1>11, <1>12 DEF Deliver, TypeOK

\* The return of insert keeps the types.
LEMMA InsertReturnTypeOK ==
  ASSUME TypeOK, NEW p \in Proc, NEW t \in Thread, InsertReturn(p, t)
  PROVE  TypeOK'
<1>1. pc'[p][t] \in {"check", "send"}
  BY DEF InsertReturn, TypeOK
<1>2. \A q \in Proc, r \in Thread : <<q, r>> # <<p, t>> => pc'[q][r] = pc[q][r]
  BY DEF InsertReturn, TypeOK
<1>3. pc' \in [Proc -> [Thread -> Label]]
  BY <1>1 DEF InsertReturn, TypeOK, Label
<1>4. payload' = payload /\ payload[p][t] \in Payload
  BY PayloadInHand DEF InsertReturn
<1>5. /\ \A q \in Proc : pc'[q]["receiver"] # "copy"
      /\ \A q \in Proc, r \in Thread :
           pc'[q][r] # "idle" => payload'[q][r] \in Payload
  BY <1>1, <1>2, <1>3, <1>4 DEF TypeOK, Thread
<1>6. mtx' \in [Proc -> Thread \cup {"free"}]
  BY DEF InsertReturn, TypeOK
<1> QED
  BY <1>3, <1>5, <1>6 DEF InsertReturn, TypeOK, setVars

\* Thread t goes on to l with payload m; the DeliveredSet is left alone.
Moves(p, t, l, m) ==
  /\ pc' = [pc EXCEPT ![p][t] = l]
  /\ payload' = [payload EXCEPT ![p][t] = m]
  /\ UNCHANGED <<setVars, mtx, cursor>>

\* Only the thread that moves changes place and payload.
LEMMA MovesEffect ==
  ASSUME TypeOK, NEW p \in Proc, NEW t \in Thread, NEW l, NEW m, Moves(p, t, l, m)
  PROVE  \A q \in Proc, r \in Thread :
           /\ pc'[q][r] = IF q = p /\ r = t THEN l ELSE pc[q][r]
           /\ payload'[q][r] = IF q = p /\ r = t THEN m ELSE payload[q][r]
BY DEF Moves, TypeOK

\* A thread that moves with a proper payload, and sends proper messages, keeps
\* the types.
LEMMA ThreadTypeOK ==
  ASSUME TypeOK, NEW p \in Proc, NEW t \in Thread, NEW l \in Label,
         NEW m \in Payload \cup {NoPayload},
         l = "idle" \/ m \in Payload, l = "copy" => t = "enqueuer",
         Moves(p, t, l, m),
         enqueued_messages' \in [Proc -> 0..MaxMsgs],
         net' \in SUBSET Message
  PROVE  TypeOK'
<1>1. pc' \in [Proc -> [Thread -> Label]]
  BY DEF Moves, TypeOK
<1>2. payload' \in [Proc -> [Thread -> Payload \cup {NoPayload}]]
  BY DEF Moves, TypeOK
<1>3. /\ \A q \in Proc : pc'[q]["receiver"] # "copy"
      /\ \A q \in Proc, r \in Thread :
           pc'[q][r] # "idle" => payload'[q][r] \in Payload
  <2>1. \A q \in Proc, r \in Thread :
          /\ pc'[q][r] = IF q = p /\ r = t THEN l ELSE pc[q][r]
          /\ payload'[q][r] = IF q = p /\ r = t THEN m ELSE payload[q][r]
    BY MovesEffect
  <2>2. \A q \in Proc : pc[q]["receiver"] # "copy"
    BY DEF TypeOK
  <2>3. \A q \in Proc, r \in Thread : pc[q][r] # "idle" => payload[q][r] \in Payload
    BY DEF TypeOK
  <2>4. \A q \in Proc : pc'[q]["receiver"] # "copy"
    BY <2>1, <2>2 DEF Thread
  <2> QED
    BY <2>1, <2>3, <2>4
<1> QED
  BY <1>1, <1>2, <1>3 DEF Moves, TypeOK, setVars

\* keep_receiving_messages: the payload received and its acknowledgement are
\* proper.
LEMMA ReceiveTypeOK ==
  ASSUME TypeOK, NEW p \in Proc, NEW m, Receive(p, m)
  PROVE  TypeOK'
<1>1. m \in Payload
  BY DEF Receive, TypeOK, Message
<1>2. Ack(p, m) \in Message
  BY <1>1 DEF Ack, Message, Payload
<1>3. net' \in SUBSET Message
  BY <1>2 DEF Moves, Receive, TypeOK
<1>4. /\ Moves(p, "receiver", "insert", m)
      /\ enqueued_messages' \in [Proc -> 0..MaxMsgs]
  BY DEF Moves, Receive, TypeOK
<1> QED
  BY <1>1, <1>3, <1>4, ThreadTypeOK DEF Thread, Label

\* broadcast_messages: the number of the new packet is at most MaxMsgs.
LEMMA ConstructBeginTypeOK ==
  ASSUME TypeOK, NEW p \in Proc, ConstructBegin(p)
  PROVE  TypeOK'
<1> DEFINE m == [sender_id |-> p, owner_id |-> p,
                 packet_uid |-> enqueued_messages[p] + 1,
                 vector_clock |-> vector_clock[p], is_ack |-> FALSE]
<1>1. enqueued_messages[p] + 1 \in Uid
  BY CountAssumption DEF ConstructBegin, TypeOK, Uid, Proc
<1>2. m \in Payload
  BY <1>1 DEF TypeOK, Payload
<1>3. enqueued_messages' \in [Proc -> 0..MaxMsgs]
  BY <1>1, CountAssumption DEF ConstructBegin, TypeOK, Uid
<1>4. /\ Moves(p, "enqueuer", "copy", m)
      /\ net' \in SUBSET Message
  BY DEF Moves, ConstructBegin, TypeOK
<1> HIDE DEF m
<1> QED
  BY <1>2, <1>3, <1>4, ThreadTypeOK DEF Thread, Label

\* construct_payload: whatever clock the unlocked copy yields is a clock.
LEMMA ConstructEndTypeOK ==
  ASSUME TypeOK, NEW p \in Proc, ConstructEnd(p)
  PROVE  TypeOK'
<1>1. PICK c \in Clock :
        payload' = [payload EXCEPT ![p]["enqueuer"].vector_clock = c]
  BY DEF ConstructEnd
<1> DEFINE m == [payload[p]["enqueuer"] EXCEPT !.vector_clock = c]
<1>2. payload[p]["enqueuer"] \in Payload
  BY PayloadInHand DEF ConstructEnd, Thread
<1>3. m \in Payload
  BY <1>2 DEF Payload
<1>4. /\ Moves(p, "enqueuer", "check", m)
      /\ enqueued_messages' \in [Proc -> 0..MaxMsgs]
      /\ net' \in SUBSET Message
  BY <1>1 DEF Moves, ConstructEnd, TypeOK
<1> HIDE DEF m
<1> QED
  BY <1>3, <1>4, ThreadTypeOK DEF Thread, Label

\* uniform_reliable_broadcast, packet seen: the types are kept.
LEMMA SkipSeenTypeOK ==
  ASSUME TypeOK, NEW p \in Proc, NEW t \in Thread, SkipSeen(p, t)
  PROVE  TypeOK'
<1>1. /\ Moves(p, t, "idle", NoPayload)
      /\ enqueued_messages' \in [Proc -> 0..MaxMsgs]
      /\ net' \in SUBSET Message
  BY DEF Moves, SkipSeen, Finish, TypeOK
<1> QED
  BY <1>1, ThreadTypeOK DEF Label

\* uniform_reliable_broadcast, packet not seen: the types are kept.
LEMMA RelayUnseenTypeOK ==
  ASSUME TypeOK, NEW p \in Proc, NEW t \in Thread, RelayUnseen(p, t)
  PROVE  TypeOK'
<1> DEFINE m == [payload[p][t] EXCEPT !.sender_id = p]
<1>1. m \in Payload
  BY PayloadInHand DEF RelayUnseen, Payload
<1>2. /\ Moves(p, t, "mark", m)
      /\ enqueued_messages' \in [Proc -> 0..MaxMsgs]
      /\ net' \in SUBSET Message
  BY DEF Moves, RelayUnseen, TypeOK
<1> HIDE DEF m
<1> QED
  BY <1>1, <1>2, ThreadTypeOK DEF Label

\* best_effort_broadcast: the copies are proper messages.
LEMMA BestEffortBroadcastTypeOK ==
  ASSUME TypeOK, NEW p \in Proc, NEW t \in Thread, BestEffortBroadcast(p, t)
  PROVE  TypeOK'
<1>1. payload[p][t] \in Payload
  BY PayloadInHand DEF BestEffortBroadcast
<1>2. net' \in SUBSET Message
  BY <1>1 DEF BestEffortBroadcast, Copies, TypeOK, Message
<1>3. /\ Moves(p, t, "idle", NoPayload)
      /\ enqueued_messages' \in [Proc -> 0..MaxMsgs]
  BY DEF Moves, BestEffortBroadcast, Finish, TypeOK
<1> QED
  BY <1>2, <1>3, ThreadTypeOK DEF Label

\* Every step keeps the types, given the parts of Inv that bound the counters.
LEMMA NextTypeOK ==
  ASSUME TypeOK, CounterMatchesAcks, NoExtraCount, ClockCounts, [Next]_vars
  PROVE  TypeOK'
<1>1. CASE UNCHANGED vars
  BY <1>1 DEF vars, setVars, TypeOK
<1>2. CASE Next
  <2>1. PICK p \in Proc : \/ \E k \in net : Receive(p, k.payload)
                          \/ ConstructBegin(p)
                          \/ ConstructEnd(p)
                          \/ \E t \in Thread : ThreadStep(p, t)
    BY <1>2 DEF Next
  <2>2. CASE \E k \in net : Receive(p, k.payload)
    BY <2>2, ReceiveTypeOK
  <2>3. CASE ConstructBegin(p)
    BY <2>3, ConstructBeginTypeOK
  <2>4. CASE ConstructEnd(p)
    BY <2>4, ConstructEndTypeOK
  <2>5. ASSUME NEW t \in Thread, ThreadStep(p, t)
        PROVE  TypeOK'
    BY <2>5, InsertTypeOK, DeliverTypeOK, InsertReturnTypeOK, SkipSeenTypeOK,
       RelayUnseenTypeOK, BestEffortBroadcastTypeOK DEF ThreadStep
  <2> QED
    BY <2>1, <2>2, <2>3, <2>4, <2>5
<1> QED
  BY <1>1, <1>2

----------------------------------------------------------------------------
(* What the actions on a DeliveredSet change, entry by entry. *)

\* Reading an entry after updating one entry of a three-level function.
LEMMA Entry3 ==
  ASSUME NEW A, NEW B, NEW C, NEW D, NEW f \in [A -> [B -> [C -> D]]],
         NEW a \in A, NEW b \in B, NEW c \in C, NEW d,
         NEW x \in A, NEW y \in B, NEW z \in C
  PROVE  [f EXCEPT ![a][b][c] = d][x][y][z] =
           IF x = a /\ y = b /\ z = c THEN d ELSE f[x][y][z]
OBVIOUS

\* insert up to its loop: the packet is added to one set of acked, counted at
\* most once, and kept when it is counted for the first time.
LEMMA InsertEffect ==
  ASSUME TypeOK, NEW p \in Proc, NEW t \in Thread, Insert(p, t),
         NEW s \in Proc, NEW o \in Proc, NEW u \in Uid, InHand(p, t, s, o, u)
  PROVE  /\ \A q, r, x \in Proc : \A v :
              v \in acked'[q][r][x] <=>
                v \in acked[q][r][x] \/ (q = p /\ r = s /\ x = o /\ v = u)
         /\ \A q, x \in Proc, v \in PacketID :
              acked_counter'[q][x][v] =
                IF q = p /\ x = o /\ v = u /\ CountsAsNew(p, payload[p][t])
                THEN acked_counter[q][x][v] + 1
                ELSE acked_counter[q][x][v]
         /\ \A q, x \in Proc : \A v :
              v \in undelivered'[q][x] <=>
                \/ v \in undelivered[q][x]
                \/ q = p /\ x = o /\ v = u /\ KeepsPayload(p, payload[p][t])
         /\ \A q \in Proc, r \in Thread :
              pc'[q][r] = IF q = p /\ r = t
                          THEN IF pc[p][t] = "insert" THEN "inserting" ELSE "marking"
                          ELSE pc[q][r]
<1> DEFINE m == payload[p][t]
<1>1. m.sender_id = s /\ m.owner_id = o /\ m.packet_uid = u
  BY DEF InHand
<1>2. u \in PacketID
  BY CountAssumption DEF Uid, PacketID
<1>3. ASSUME NEW q \in Proc, NEW r \in Proc, NEW x \in Proc
      PROVE  \A v : v \in acked'[q][r][x] <=>
               v \in acked[q][r][x] \/ (q = p /\ r = s /\ x = o /\ v = u)
  <2> DEFINE new == acked[p][s][o] \cup {u}
  <2>1. acked' = [acked EXCEPT ![p][s][o] = new]
    BY <1>1 DEF Insert
  <2>2. acked \in [Proc -> [Proc -> [Proc -> SUBSET Uid]]]
    BY DEF TypeOK
  <2>3. acked'[q][r][x] = IF q = p /\ r = s /\ x = o THEN new ELSE acked[q][r][x]
    <3> HIDE DEF new
    <3> QED
      BY <2>1, <2>2, Entry3
  <2>4. CASE q = p /\ r = s /\ x = o
    <3>1. acked'[q][r][x] = acked[q][r][x] \cup {u}
      BY <2>3, <2>4
    <3> QED
      BY <2>4, <3>1
  <2>5. CASE ~(q = p /\ r = s /\ x = o)
    <3>1. acked'[q][r][x] = acked[q][r][x]
      BY <2>3, <2>5
    <3> QED
      BY <2>5, <3>1
  <2> QED
    BY <2>4, <2>5
<1>4. ASSUME NEW q \in Proc, NEW x \in Proc, NEW v \in PacketID
      PROVE  acked_counter'[q][x][v] =
               IF q = p /\ x = o /\ v = u /\ CountsAsNew(p, m)
               THEN acked_counter[q][x][v] + 1 ELSE acked_counter[q][x][v]
  <2> DEFINE new == IF CountsAsNew(p, m) THEN acked_counter[p][o][u] + 1
                                        ELSE acked_counter[p][o][u]
  <2>1. acked_counter' = [acked_counter EXCEPT ![p][o][u] = new]
    BY <1>1 DEF Insert
  <2>2. acked_counter \in [Proc -> [Proc -> [PacketID -> 0..N]]]
    BY DEF TypeOK
  <2>3. acked_counter'[q][x][v] =
          IF q = p /\ x = o /\ v = u THEN new ELSE acked_counter[q][x][v]
    <3> HIDE DEF m, new
    <3> QED
      BY <1>2, <2>1, <2>2, Entry3
  <2> QED
    BY <2>3
<1>5. ASSUME NEW q \in Proc, NEW x \in Proc
      PROVE  \A v : v \in undelivered'[q][x] <=>
               \/ v \in undelivered[q][x]
               \/ q = p /\ x = o /\ v = u /\ KeepsPayload(p, m)
  <2>1. undelivered'[q][x] = IF q = p /\ x = o /\ KeepsPayload(p, m)
                             THEN undelivered[q][x] \cup {u} ELSE undelivered[q][x]
    BY <1>1 DEF Insert, TypeOK
  <2> HIDE DEF m
  <2>2. CASE q = p /\ x = o /\ KeepsPayload(p, m)
    <3>1. undelivered'[q][x] = undelivered[q][x] \cup {u}
      BY <2>1, <2>2
    <3> QED
      BY <2>2, <3>1
  <2>3. CASE ~(q = p /\ x = o /\ KeepsPayload(p, m))
    <3>1. undelivered'[q][x] = undelivered[q][x]
      BY <2>1, <2>3
    <3> QED
      BY <2>3, <3>1
  <2> QED
    BY <2>2, <2>3
<1>6. \A q \in Proc, r \in Thread :
        pc'[q][r] = IF q = p /\ r = t
                    THEN IF pc[p][t] = "insert" THEN "inserting" ELSE "marking"
                    ELSE pc[q][r]
  BY DEF Insert, TypeOK
<1> QED
  BY <1>3, <1>4, <1>5, <1>6

\* The packet insert records was in the hands of the thread: nothing new is
\* held, and nothing is let go.
LEMMA InsertHolds ==
  ASSUME TypeOK, NEW p \in Proc, NEW t \in Thread, Insert(p, t)
  PROVE  \A r, x \in Proc, v \in Uid : Holds(r, x, v)' <=> Holds(r, x, v)
<1>1. PICK s \in Proc, o \in Proc, u \in Uid : InHand(p, t, s, o, u)
  BY PayloadInHand DEF Insert, InHand
<1>2. pc[p][t] \in {"insert", "mark"} /\ payload' = payload
  BY DEF Insert
<1>3. \A r \in Proc, c \in Thread : pc'[r][c] = "idle" <=> pc[r][c] = "idle"
  <2>1. \A q \in Proc, r \in Thread :
          pc'[q][r] = IF q = p /\ r = t
                      THEN IF pc[p][t] = "insert" THEN "inserting" ELSE "marking"
                      ELSE pc[q][r]
    BY <1>1, InsertEffect
  <2> QED
    BY <1>2, <2>1
<1>4. Holds(p, o, u)
  BY <1>1, <1>2 DEF Holds, InHand
<1>5. \A r, x \in Proc : \A v :
        /\ v \in acked[r][r][x] => v \in acked'[r][r][x]
        /\ v \in acked'[r][r][x] => v \in acked[r][r][x] \/ (r = p /\ x = o /\ v = u)
  BY <1>1, InsertEffect
<1> QED
  BY <1>2, <1>3, <1>4, <1>5 DEF Holds

\* One delivery: packet u of a, which a majority has acknowledged, leaves
\* undelivered and acked_counter and enters deliverable.
LEMMA DeliverEffect ==
  ASSUME TypeOK, NoExtraCount, NEW p \in Proc, NEW t \in Thread, Deliver(p, t)
  PROVE  \E a \in Proc :
           LET u == received_up_to[p][a]
           IN  /\ u \in Uid /\ u \in PacketID
               /\ acked_counter[p][a][u] > N \div 2
               /\ deliverable' = [deliverable EXCEPT ![p] =
                    Append(@, [owner_id |-> a, packet_uid |-> u])]
               /\ \A q, x \in Proc :
                    received_up_to'[q][x] = IF q = p /\ x = a
                      THEN received_up_to[q][x] + 1 ELSE received_up_to[q][x]
               /\ \A q, x \in Proc :
                    vector_clock'[q][x] = IF q = p /\ x = a
                      THEN vector_clock[q][x] + 1 ELSE vector_clock[q][x]
               /\ \A q, x \in Proc :
                    undelivered'[q][x] = IF q = p /\ x = a
                      THEN undelivered[q][x] \ {u} ELSE undelivered[q][x]
               /\ \A q, x \in Proc, v \in PacketID :
                    acked_counter'[q][x][v] = IF q = p /\ x = a /\ v = u
                      THEN 0 ELSE acked_counter[q][x][v]
<1> DEFINE m == payload[p][t]
<1>1. m.owner_id \in Proc
  BY PayloadInHand DEF Deliver
<1>2. causality[m.owner_id] \in Seq(Proc)
  BY <1>1, CausalityAssumption DEF Proc
<1>3. PICK i \in Remaining(p, t) :
        LET a == Affected(p, t, i)
            u == received_up_to[p][a]
        IN  /\ CanDeliverAt(p, t, i)
            /\ deliverable' =
                 [deliverable EXCEPT ![p] = Append(@, Delivered(p, t, a))]
            /\ undelivered' = [undelivered EXCEPT ![p][a] = @ \ {u}]
            /\ acked_counter' = [acked_counter EXCEPT ![p][a][u] = 0]
            /\ received_up_to' = [received_up_to EXCEPT ![p][a] = @ + 1]
            /\ vector_clock' = [vector_clock EXCEPT ![p][a] = @ + 1]
  BY DEF Deliver
<1> DEFINE a == Affected(p, t, i)
           u == received_up_to[p][a]
<1>4. i \in 1..Len(causality[m.owner_id])
  <2>1. cursor[p] \in Nat \ {0} /\ Len(causality[m.owner_id]) \in Nat
    BY <1>2 DEF TypeOK
  <2> QED
    BY <2>1 DEF Remaining
<1>5. a \in Proc
  BY <1>2, <1>4 DEF Affected
<1>6. u \in Uid /\ acked_counter[p][a][u] > N \div 2
  BY <1>3, <1>5, DeliverableIsCounted DEF CanDeliverAt, CanLcbDeliver
<1>7. u \in PacketID
  BY <1>6, CountAssumption DEF Uid, PacketID
<1>8. ASSUME NEW q \in Proc, NEW x \in Proc, NEW v \in PacketID
      PROVE  acked_counter'[q][x][v] =
               IF q = p /\ x = a /\ v = u THEN 0 ELSE acked_counter[q][x][v]
  <2>1. acked_counter \in [Proc -> [Proc -> [PacketID -> 0..N]]]
    BY DEF TypeOK
  <2>2. acked_counter' = [acked_counter EXCEPT ![p][a][u] = 0]
    BY <1>3
  <2> HIDE DEF a, u
  <2> QED
    BY <1>5, <1>7, <2>1, <2>2, Entry3
<1>9. \A q, x \in Proc :
        /\ received_up_to'[q][x] = IF q = p /\ x = a
             THEN received_up_to[q][x] + 1 ELSE received_up_to[q][x]
        /\ vector_clock'[q][x] = IF q = p /\ x = a
             THEN vector_clock[q][x] + 1 ELSE vector_clock[q][x]
        /\ undelivered'[q][x] = IF q = p /\ x = a
             THEN undelivered[q][x] \ {u} ELSE undelivered[q][x]
  BY <1>3, <1>5 DEF TypeOK, Clock
<1>10. deliverable' = [deliverable EXCEPT ![p] =
         Append(@, [owner_id |-> a, packet_uid |-> u])]
  BY <1>3 DEF Delivered
<1> HIDE DEF a
<1> QED
  BY <1>5, <1>6, <1>7, <1>8, <1>9, <1>10

----------------------------------------------------------------------------
(* What only grows. *)

HoldersGrow ==
  \A s, o \in Proc, u \in Uid : Holds(s, o, u) => Holds(s, o, u)'

AckedGrows ==
  \A p, s, o \in Proc : acked[p][s][o] \subseteq acked'[p][s][o]

\* What is said of the messages on the network stays true of them.
LEMMA NetKeeps ==
  ASSUME TypeOK, SenderHolds, SentAfterSeen, AckAfterSeen, HoldersGrow, AckedGrows,
         NEW k \in net
  PROVE  LET m == k.payload
         IN  /\ m \in Payload
             /\ k.recipient \in Proc
             /\ Holds(m.sender_id, m.owner_id, m.packet_uid)'
             /\ ~m.is_ack =>
                  m.packet_uid \in acked'[m.sender_id][m.sender_id][m.owner_id]
             /\ m.is_ack =>
                  m.packet_uid \in acked'[k.recipient][k.recipient][m.owner_id]
<1>1. k.payload \in Payload /\ k.recipient \in Proc
  BY DEF TypeOK, Message
<1>2. /\ k.payload.sender_id \in Proc
      /\ k.payload.owner_id \in Proc
      /\ k.payload.packet_uid \in Uid
  BY <1>1 DEF Payload
<1>3. Holds(k.payload.sender_id, k.payload.owner_id, k.payload.packet_uid)'
  <2>1. Holds(k.payload.sender_id, k.payload.owner_id, k.payload.packet_uid)
    BY DEF SenderHolds
  <2> QED
    BY <1>2, <2>1 DEF HoldersGrow
<1> QED
  BY <1>1, <1>2, <1>3 DEF SentAfterSeen, AckAfterSeen, AckedGrows

\* A majority that holds a packet stays a majority.
LEMMA MajorityKeeps ==
  ASSUME HoldersGrow, NEW o \in Proc, NEW u \in Uid,
         Cardinality(Holders(o, u)) > N \div 2
  PROVE  Cardinality(Holders(o, u))' > N \div 2
<1>1. Holders(o, u) \subseteq Holders(o, u)'
  BY DEF Holders, HoldersGrow
<1>2. Holders(o, u) \in SUBSET Proc /\ Holders(o, u)' \in SUBSET Proc
  BY DEF Holders
<1>3. /\ IsFiniteSet(Holders(o, u)')
      /\ Cardinality(Holders(o, u)) \in 0..N
      /\ Cardinality(Holders(o, u)') \in 0..N
  BY <1>2, ProcFinite
<1>4. Cardinality(Holders(o, u)) <= Cardinality(Holders(o, u)')
  BY <1>1, <1>3, FS_Subset
<1>5. N \div 2 \in Nat
  BY NAssumption
<1> QED
  BY <1>3, <1>4, <1>5

\* What has been delivered stays held by a majority.
LEMMA DeliveredHeldKeeps ==
  ASSUME TypeOK, HoldersGrow, DeliveredHeld, received_up_to' = received_up_to
  PROVE  DeliveredHeld'
<1>1. ASSUME NEW p \in Proc, NEW o \in Proc, NEW u \in 1..(received_up_to[p][o] - 1)
      PROVE  Cardinality(Holders(o, u))' > N \div 2
  <2>1. u \in Uid
    <3>1. received_up_to[p][o] \in PacketID
      BY DEF TypeOK
    <3> QED
      BY <3>1, CountAssumption DEF PacketID, Uid
  <2>2. Cardinality(Holders(o, u)) > N \div 2
    BY DEF DeliveredHeld
  <2> QED
    BY <2>1, <2>2, MajorityKeeps
<1> QED
  BY <1>1 DEF DeliveredHeld

\* The parts of Inv that speak of the DeliveredSet alone.
LEMMA SetKeeps ==
  ASSUME Inv, UNCHANGED setVars
  PROVE  (CounterMatchesAcks /\ NoExtraCount /\ ClockCounts /\ LogMatches)'
<1>1. CounterMatchesAcks'
  BY DEF Inv, setVars, CounterMatchesAcks
<1>2. NoExtraCount' /\ ClockCounts'
  BY DEF Inv, setVars, NoExtraCount, ClockCounts
<1>3. LogMatches'
  BY DEF Inv, setVars, LogMatches
<1> QED
  BY <1>1, <1>2, <1>3

----------------------------------------------------------------------------
(* Inv, action by action. *)

\* What holds of a message h on the network.
Sound(h) ==
  /\ Holds(h.payload.sender_id, h.payload.owner_id, h.payload.packet_uid)
  /\ ~h.payload.is_ack => h.payload.packet_uid
       \in acked[h.payload.sender_id][h.payload.sender_id][h.payload.owner_id]
  /\ h.payload.is_ack => h.payload.packet_uid
       \in acked[h.recipient][h.recipient][h.payload.owner_id]

\* A step that moves one thread outside insert keeps Inv if the thread's new
\* payload and the messages it sends are as Inv wants them.
LEMMA MovesInv ==
  ASSUME Inv, TypeOK', NEW p \in Proc, NEW t \in Thread, NEW l, NEW m,
         Moves(p, t, l, m),
         pc[p][t] \notin {"inserting", "marking"}, l \notin {"inserting", "marking"},
         HoldersGrow,
         HeldWasSent',
         \A s, o \in Proc, u \in Uid :
           l # "idle" /\ m.sender_id = s /\ m.owner_id = o /\ m.packet_uid = u
             => Holds(s, o, u)',
         t = "enqueuer" /\ l # "idle" =>
           l # "insert" /\ m.owner_id = p /\ m.sender_id = p /\ ~m.is_ack,
         l # "idle" /\ m.is_ack => WasSeen(p, m),
         l \in {"mark", "send"} => m.sender_id = p /\ ~m.is_ack,
         l = "send" => WasSeen(p, m),
         \A h \in net' \ net : Sound(h)'
  PROVE  Inv'
<1>0. TypeOK
  BY DEF Inv
<1>1. \A q \in Proc, r \in Thread :
        /\ pc'[q][r] = IF q = p /\ r = t THEN l ELSE pc[q][r]
        /\ payload'[q][r] = IF q = p /\ r = t THEN m ELSE payload[q][r]
  BY <1>0, MovesEffect
<1>2. /\ acked' = acked
      /\ mtx' = mtx
      /\ received_up_to' = received_up_to
      /\ UNCHANGED setVars
  BY DEF Moves, setVars
<1>3. AckedGrows
  BY <1>2 DEF AckedGrows
<1>4. MutexOwner'
  <2>1. MutexOwner
    BY DEF Inv
  <2> QED
    BY <1>1, <1>2, <2>1 DEF MutexOwner
<1>5. ThreadWork'
  <2>1. ThreadWork
    BY DEF Inv
  <2> SUFFICES ASSUME NEW q \in Proc, NEW r \in Thread
               PROVE  LET n == payload'[q][r]
                      IN  /\ r = "enqueuer" /\ pc'[q][r] # "idle" =>
                               /\ pc'[q][r] \notin {"insert", "inserting"}
                               /\ n.owner_id = q
                               /\ n.sender_id = q
                               /\ ~n.is_ack
                          /\ pc'[q][r] # "idle" /\ n.is_ack => WasSeen(q, n)
                          /\ pc'[q][r] \in {"mark", "marking", "send"} =>
                               n.sender_id = q /\ ~n.is_ack
                          /\ pc'[q][r] \in {"marking", "send"} => WasSeen(q, n)
    BY <1>2 DEF ThreadWork, WasSeen
  <2>2. CASE q = p /\ r = t
    BY <1>1, <2>2
  <2>3. CASE ~(q = p /\ r = t)
    BY <1>1, <2>1, <2>3 DEF ThreadWork
  <2> QED
    BY <2>2, <2>3
<1>6. ASSUME NEW h \in net'
      PROVE  Sound(h)'
  <2>1. CASE h \in net
    BY <1>3, <2>1, NetKeeps DEF Inv, Sound
  <2> QED
    BY <2>1
<1>7. SenderHolds'
  <2>1. ASSUME NEW q \in Proc, NEW r \in Thread, NEW s \in Proc, NEW o \in Proc,
               NEW u \in Uid, pc'[q][r] # "idle", InHand(q, r, s, o, u)'
        PROVE  Holds(s, o, u)'
    <3>1. CASE q = p /\ r = t
      BY <1>1, <2>1, <3>1 DEF InHand
    <3>2. CASE ~(q = p /\ r = t)
      BY <1>1, <2>1, <3>2 DEF Inv, SenderHolds, HoldersGrow, InHand
    <3> QED
      BY <3>1, <3>2
  <2>2. ASSUME NEW q \in Proc, NEW s \in Proc, NEW o \in Proc, NEW u \in acked'[q][s][o]
        PROVE  Holds(s, o, u)'
    <3>1. u \in acked[q][s][o] /\ u \in Uid
      BY <1>2, AckedUid DEF Inv
    <3> QED
      BY <3>1 DEF Inv, SenderHolds, HoldersGrow
  <2> QED
    BY <1>6, <2>1, <2>2 DEF SenderHolds, Sound
<1>8. SentAfterSeen' /\ AckAfterSeen'
  BY <1>6 DEF SentAfterSeen, AckAfterSeen, Sound
<1>9. DeliveredHeld'
  BY <1>2, DeliveredHeldKeeps DEF Inv
<1> QED
  BY <1>2, <1>4, <1>5, <1>7, <1>8, <1>9, SetKeeps DEF Inv

\* keep_receiving_messages: the acknowledgement goes to a process that sent
\* the packet, hence marked it; this process holds the packet from now on.
LEMMA ReceiveInv ==
  ASSUME Inv, NEW p \in Proc, NEW m, Receive(p, m)
  PROVE  Inv'
<1> DEFINE k == [recipient |-> p, payload |-> m]
<1>1. TypeOK /\ TypeOK'
  BY ReceiveTypeOK DEF Inv
<1>2. k \in net /\ k.recipient = p /\ k.payload = m
  BY DEF Receive
<1>3. /\ m \in Payload
      /\ m.sender_id \in Proc
      /\ m.owner_id \in Proc
      /\ m.packet_uid \in Uid
      /\ m.is_ack \in BOOLEAN
  BY <1>1, <1>2 DEF TypeOK, Message, Payload
<1>4. Moves(p, "receiver", "insert", m)
  BY DEF Moves, Receive
<1>5. \A q \in Proc, r \in Thread :
        /\ pc'[q][r] = IF q = p /\ r = "receiver" THEN "insert" ELSE pc[q][r]
        /\ payload'[q][r] = IF q = p /\ r = "receiver" THEN m ELSE payload[q][r]
  BY <1>1, <1>4, MovesEffect DEF Thread
<1>6. /\ pc[p]["receiver"] = "idle"
      /\ acked' = acked
      /\ enqueued_messages' = enqueued_messages
  BY DEF Receive, setVars
<1>7. HoldersGrow
  BY <1>5, <1>6 DEF HoldersGrow, Holds
<1>8. Holds(m.sender_id, m.owner_id, m.packet_uid)
  BY <1>2 DEF Inv, SenderHolds
<1>9. HeldWasSent'
  <2>1. \A s, o \in Proc, u \in Uid :
          Holds(s, o, u)' =>
            Holds(s, o, u) \/ (s = p /\ o = m.owner_id /\ u = m.packet_uid)
    BY <1>5, <1>6 DEF Holds
  <2> QED
    BY <1>3, <1>6, <1>8, <2>1 DEF Inv, HeldWasSent
<1>10. m.is_ack => WasSeen(p, m)
  BY <1>2 DEF Inv, AckAfterSeen, WasSeen
<1>11. ASSUME NEW h \in net' \ net
       PROVE  Sound(h)'
  <2>1. h = Ack(p, m) /\ ~m.is_ack
    BY DEF Receive
  <2>2. /\ h.recipient = m.sender_id
        /\ h.payload.sender_id = p
        /\ h.payload.owner_id = m.owner_id
        /\ h.payload.packet_uid = m.packet_uid
        /\ h.payload.is_ack = TRUE
    BY <1>3, <2>1 DEF Ack, Payload
  <2>3. m.packet_uid \in acked'[m.sender_id][m.sender_id][m.owner_id]
    BY <1>2, <1>6, <2>1 DEF Inv, SentAfterSeen
  <2>4. Holds(p, m.owner_id, m.packet_uid)'
    BY <1>5 DEF Holds, Thread
  <2> QED
    BY <2>2, <2>3, <2>4 DEF Sound
<1>12. Holds(m.sender_id, m.owner_id, m.packet_uid)'
  BY <1>3, <1>7, <1>8 DEF HoldersGrow
<1> QED
  BY <1>1, <1>4, <1>6, <1>7, <1>9, <1>10, <1>11, <1>12, MovesInv DEF Thread

\* broadcast_messages: the new packet is held by its owner.
LEMMA ConstructBeginInv ==
  ASSUME Inv, NEW p \in Proc, ConstructBegin(p)
  PROVE  Inv'
<1> DEFINE m == [sender_id |-> p, owner_id |-> p,
                 packet_uid |-> enqueued_messages[p] + 1,
                 vector_clock |-> vector_clock[p], is_ack |-> FALSE]
<1>1. TypeOK /\ TypeOK'
  BY ConstructBeginTypeOK DEF Inv
<1>2. Moves(p, "enqueuer", "copy", m)
  BY DEF Moves, ConstructBegin
<1>3. /\ m.sender_id = p /\ m.owner_id = p /\ ~m.is_ack
      /\ m.packet_uid = enqueued_messages[p] + 1
  OBVIOUS
<1>4. /\ pc[p]["enqueuer"] = "idle"
      /\ acked' = acked
      /\ net' = net
  BY DEF ConstructBegin, setVars
<1>5. \A q \in Proc : /\ enqueued_messages[q] \in Nat
                      /\ enqueued_messages'[q] =
                           IF q = p THEN enqueued_messages[q] + 1
                                    ELSE enqueued_messages[q]
  BY <1>1 DEF TypeOK, ConstructBegin
<1> HIDE DEF m
<1>6. \A q \in Proc, r \in Thread :
        /\ pc'[q][r] = IF q = p /\ r = "enqueuer" THEN "copy" ELSE pc[q][r]
        /\ payload'[q][r] = IF q = p /\ r = "enqueuer" THEN m ELSE payload[q][r]
  BY <1>1, <1>2, MovesEffect DEF Thread
<1>7. HoldersGrow
  BY <1>4, <1>6 DEF HoldersGrow, Holds
<1>8. HeldWasSent'
  <2>1. \A s, o \in Proc, u \in Uid :
          Holds(s, o, u)' =>
            Holds(s, o, u) \/ (o = p /\ u = enqueued_messages[p] + 1)
    BY <1>3, <1>4, <1>6 DEF Holds
  <2>2. ASSUME NEW s \in Proc, NEW o \in Proc, NEW u \in Uid, Holds(s, o, u)'
        PROVE  u <= enqueued_messages'[o]
    <3>1. CASE Holds(s, o, u)
      <4>1. u <= enqueued_messages[o]
        BY <3>1 DEF Inv, HeldWasSent
      <4> QED
        BY <1>5, <4>1, CountAssumption DEF Uid
    <3>2. CASE o = p /\ u = enqueued_messages[p] + 1
      BY <1>5, <3>2
    <3> QED
      BY <2>1, <2>2, <3>1, <3>2
  <2> QED
    BY <2>2 DEF HeldWasSent
<1>9. \A s, o \in Proc, u \in Uid :
        m.sender_id = s /\ m.owner_id = o /\ m.packet_uid = u => Holds(s, o, u)'
  BY <1>3, <1>6 DEF Holds, Thread
<1> QED
  BY <1>1, <1>2, <1>3, <1>4, <1>7, <1>8, <1>9, MovesInv DEF Thread

\* construct_payload: the clock is the only thing that changes.
LEMMA ConstructEndInv ==
  ASSUME Inv, NEW p \in Proc, ConstructEnd(p)
  PROVE  Inv'
<1>1. TypeOK /\ TypeOK'
  BY ConstructEndTypeOK DEF Inv
<1>2. PICK c \in Clock :
        payload' = [payload EXCEPT ![p]["enqueuer"].vector_clock = c]
  BY DEF ConstructEnd
<1> DEFINE old == payload[p]["enqueuer"]
           m   == [old EXCEPT !.vector_clock = c]
<1>3. /\ pc[p]["enqueuer"] = "copy"
      /\ acked' = acked
      /\ net' = net
      /\ enqueued_messages' = enqueued_messages
  BY DEF ConstructEnd, setVars
<1>4. old \in Payload
  BY <1>1, <1>3, PayloadInHand DEF Thread
<1>5. /\ m.sender_id = old.sender_id
      /\ m.owner_id = old.owner_id
      /\ m.packet_uid = old.packet_uid
      /\ m.is_ack = old.is_ack
      /\ m.sender_id \in Proc /\ m.owner_id \in Proc /\ m.packet_uid \in Uid
  BY <1>4 DEF Payload
<1>6. Moves(p, "enqueuer", "check", m)
  BY <1>2 DEF Moves, ConstructEnd
<1> HIDE DEF m
<1>7. \A q \in Proc, r \in Thread :
        /\ pc'[q][r] = IF q = p /\ r = "enqueuer" THEN "check" ELSE pc[q][r]
        /\ payload'[q][r] = IF q = p /\ r = "enqueuer" THEN m ELSE payload[q][r]
  BY <1>1, <1>6, MovesEffect DEF Thread
<1>8. \A s, o \in Proc, u \in Uid : Holds(s, o, u)' <=> Holds(s, o, u)
  BY <1>3, <1>5, <1>7 DEF Holds, Thread
<1>9. HoldersGrow /\ HeldWasSent'
  BY <1>3, <1>8 DEF Inv, HoldersGrow, HeldWasSent
<1>10. old.owner_id = p /\ old.sender_id = p /\ ~old.is_ack
  BY <1>3 DEF Inv, ThreadWork, Thread
<1>11. \A s, o \in Proc, u \in Uid :
         m.sender_id = s /\ m.owner_id = o /\ m.packet_uid = u => Holds(s, o, u)'
  BY <1>5, <1>7, <1>10 DEF Holds, Thread
<1> QED
  BY <1>1, <1>3, <1>5, <1>6, <1>9, <1>10, <1>11, MovesInv DEF Thread

\* uniform_reliable_broadcast, packet seen: the packet stays held because it
\* is marked.
LEMMA SkipSeenInv ==
  ASSUME Inv, NEW p \in Proc, NEW t \in Thread, SkipSeen(p, t)
  PROVE  Inv'
<1>1. TypeOK /\ TypeOK'
  BY SkipSeenTypeOK DEF Inv
<1>2. Moves(p, t, "idle", NoPayload)
  BY DEF Moves, SkipSeen, Finish
<1>3. /\ pc[p][t] = "check"
      /\ WasSeen(p, payload[p][t])
      /\ acked' = acked
      /\ net' = net
      /\ enqueued_messages' = enqueued_messages
  BY DEF SkipSeen, setVars
<1>4. \A q \in Proc, r \in Thread :
        /\ pc'[q][r] = IF q = p /\ r = t THEN "idle" ELSE pc[q][r]
        /\ payload'[q][r] = IF q = p /\ r = t THEN NoPayload ELSE payload[q][r]
  BY <1>1, <1>2, MovesEffect
<1>5. \A s, o \in Proc, u \in Uid : Holds(s, o, u)' <=> Holds(s, o, u)
  BY <1>3, <1>4 DEF Holds, WasSeen
<1>6. HoldersGrow /\ HeldWasSent'
  BY <1>3, <1>5 DEF Inv, HoldersGrow, HeldWasSent
<1> QED
  BY <1>1, <1>2, <1>3, <1>6, MovesInv

\* uniform_reliable_broadcast, packet not seen: it is no acknowledgement.
LEMMA RelayUnseenInv ==
  ASSUME Inv, NEW p \in Proc, NEW t \in Thread, RelayUnseen(p, t)
  PROVE  Inv'
<1> DEFINE old == payload[p][t]
           m   == [old EXCEPT !.sender_id = p]
<1>1. TypeOK /\ TypeOK'
  BY RelayUnseenTypeOK DEF Inv
<1>2. /\ pc[p][t] = "check"
      /\ ~WasSeen(p, old)
      /\ acked' = acked
      /\ net' = net
      /\ enqueued_messages' = enqueued_messages
  BY DEF RelayUnseen, setVars
<1>3. old \in Payload
  BY <1>1, <1>2, PayloadInHand
<1>4. /\ m.sender_id = p
      /\ m.owner_id = old.owner_id
      /\ m.packet_uid = old.packet_uid
      /\ m.is_ack = old.is_ack
  BY <1>3 DEF Payload
<1>5. Moves(p, t, "mark", m)
  BY DEF Moves, RelayUnseen
<1> HIDE DEF m
<1>6. \A q \in Proc, r \in Thread :
        /\ pc'[q][r] = IF q = p /\ r = t THEN "mark" ELSE pc[q][r]
        /\ payload'[q][r] = IF q = p /\ r = t THEN m ELSE payload[q][r]
  BY <1>1, <1>5, MovesEffect
<1>7. \A s, o \in Proc, u \in Uid : Holds(s, o, u)' <=> Holds(s, o, u)
  BY <1>2, <1>4, <1>6 DEF Holds
<1>8. HoldersGrow /\ HeldWasSent'
  BY <1>2, <1>7 DEF Inv, HoldersGrow, HeldWasSent
<1>9. ~m.is_ack /\ (t = "enqueuer" => m.owner_id = p)
  BY <1>2, <1>4 DEF Inv, ThreadWork
<1>10. \A s, o \in Proc, u \in Uid :
         m.sender_id = s /\ m.owner_id = o /\ m.packet_uid = u => Holds(s, o, u)'
  BY <1>4, <1>6 DEF Holds
<1> QED
  BY <1>1, <1>2, <1>4, <1>5, <1>8, <1>9, <1>10, MovesInv

\* best_effort_broadcast: what is sent was marked as seen before.
LEMMA BestEffortBroadcastInv ==
  ASSUME Inv, NEW p \in Proc, NEW t \in Thread, BestEffortBroadcast(p, t)
  PROVE  Inv'
<1> DEFINE m == payload[p][t]
<1>1. TypeOK /\ TypeOK'
  BY BestEffortBroadcastTypeOK DEF Inv
<1>2. Moves(p, t, "idle", NoPayload)
  BY DEF Moves, BestEffortBroadcast, Finish
<1>3. /\ pc[p][t] = "send"
      /\ acked' = acked
      /\ enqueued_messages' = enqueued_messages
  BY DEF BestEffortBroadcast, setVars
<1>4. m.sender_id = p /\ ~m.is_ack /\ WasSeen(p, m)
  BY <1>3 DEF Inv, ThreadWork
<1>5. \A q \in Proc, r \in Thread :
        /\ pc'[q][r] = IF q = p /\ r = t THEN "idle" ELSE pc[q][r]
        /\ payload'[q][r] = IF q = p /\ r = t THEN NoPayload ELSE payload[q][r]
  BY <1>1, <1>2, MovesEffect
<1>6. \A s, o \in Proc, u \in Uid : Holds(s, o, u)' <=> Holds(s, o, u)
  BY <1>3, <1>4, <1>5 DEF Holds, WasSeen
<1>7. HoldersGrow /\ HeldWasSent'
  BY <1>3, <1>6 DEF Inv, HoldersGrow, HeldWasSent
<1>8. ASSUME NEW h \in net' \ net
      PROVE  Sound(h)'
  <2>1. h.payload = m
    BY DEF BestEffortBroadcast, Copies
  <2>2. m.packet_uid \in acked'[p][p][m.owner_id]
    BY <1>3, <1>4 DEF WasSeen
  <2>3. Holds(h.payload.sender_id, h.payload.owner_id, h.payload.packet_uid)'
    BY <1>4, <2>1, <2>2 DEF Holds
  <2> QED
    BY <1>4, <2>1, <2>2, <2>3 DEF Sound
<1> QED
  BY <1>1, <1>2, <1>3, <1>7, <1>8, MovesInv

\* What is left of Inv after a step of insert, which neither starts nor ends
\* the work of a thread: nothing new is held, nothing is sent.
LEMMA InsertStepInv ==
  ASSUME Inv, TypeOK', AckedGrows,
         UNCHANGED <<payload, enqueued_messages, net>>,
         \A q \in Proc, r \in Thread : pc'[q][r] = "idle" <=> pc[q][r] = "idle",
         \A s, o \in Proc, u \in Uid : Holds(s, o, u)' <=> Holds(s, o, u),
         \A q, s, o \in Proc : \A u \in acked'[q][s][o] : Holds(s, o, u)
  PROVE  /\ HoldersGrow
         /\ HeldWasSent' /\ SenderHolds' /\ SentAfterSeen' /\ AckAfterSeen'
<1>1. HoldersGrow /\ HeldWasSent'
  BY DEF Inv, HoldersGrow, HeldWasSent
<1>2. ASSUME NEW h \in net'
      PROVE  Sound(h)'
  BY <1>1, NetKeeps DEF Inv, Sound
<1>3. SentAfterSeen' /\ AckAfterSeen'
  BY <1>2 DEF SentAfterSeen, AckAfterSeen, Sound
<1>4. SenderHolds'
  <2>1. ASSUME NEW q \in Proc, NEW r \in Thread, NEW s \in Proc, NEW o \in Proc,
               NEW u \in Uid, pc'[q][r] # "idle", InHand(q, r, s, o, u)'
        PROVE  Holds(s, o, u)'
    BY <2>1 DEF Inv, SenderHolds, InHand
  <2>2. ASSUME NEW q \in Proc, NEW s \in Proc, NEW o \in Proc, NEW u \in acked'[q][s][o]
        PROVE  Holds(s, o, u)'
    <3>1. acked' \in [Proc -> [Proc -> [Proc -> SUBSET Uid]]]
      BY DEF TypeOK
    <3>2. acked'[q][s][o] \in SUBSET Uid
      BY <3>1
    <3>3. u \in Uid
      BY <3>2
    <3> QED
      BY <3>3
  <2> QED
    BY <1>2, <2>1, <2>2 DEF SenderHolds, Sound
<1> QED
  BY <1>1, <1>3, <1>4

\* insert records the packet and its sender, and counts it, under the mutex.
LEMMA InsertInv ==
  ASSUME Inv, NEW p \in Proc, NEW t \in Thread, Insert(p, t)
  PROVE  Inv'
<1> DEFINE m == payload[p][t]
<1>1. TypeOK /\ TypeOK'
  BY InsertTypeOK DEF Inv
<1>2. PICK s \in Proc, o \in Proc, u \in Uid : InHand(p, t, s, o, u)
  BY <1>1, PayloadInHand DEF Insert, InHand
<1>3. \A q, r, x \in Proc : \A v :
        v \in acked'[q][r][x] <=>
          v \in acked[q][r][x] \/ (q = p /\ r = s /\ x = o /\ v = u)
  BY <1>1, <1>2, InsertEffect
<1>4. \A q, x \in Proc, v \in PacketID :
        acked_counter'[q][x][v] =
          IF q = p /\ x = o /\ v = u /\ CountsAsNew(p, m)
          THEN acked_counter[q][x][v] + 1 ELSE acked_counter[q][x][v]
  BY <1>1, <1>2, InsertEffect
<1>5. \A q, x \in Proc : \A v :
        v \in undelivered'[q][x] <=>
          v \in undelivered[q][x] \/ (q = p /\ x = o /\ v = u /\ KeepsPayload(p, m))
  BY <1>1, <1>2, InsertEffect
<1>6. \A q \in Proc, r \in Thread :
        pc'[q][r] = IF q = p /\ r = t
                    THEN IF pc[p][t] = "insert" THEN "inserting" ELSE "marking"
                    ELSE pc[q][r]
  BY <1>1, <1>2, InsertEffect
<1>7. /\ pc[p][t] \in {"insert", "mark"}
      /\ mtx[p] = "free"
      /\ mtx' = [mtx EXCEPT ![p] = t]
      /\ UNCHANGED <<received_up_to, vector_clock, deliverable, payload,
                     enqueued_messages, net>>
  BY DEF Insert
<1>8. AckedGrows
  BY <1>3 DEF AckedGrows
<1>9. \A r, x \in Proc, v \in Uid : Holds(r, x, v)' <=> Holds(r, x, v)
  BY <1>1, InsertHolds
<1>0. m.sender_id = s /\ m.owner_id = o /\ m.packet_uid = u /\ u \in PacketID
  BY <1>2, CountAssumption DEF InHand, Uid, PacketID
<1> HIDE DEF m
<1>10. Holds(s, o, u)
  <2>1. InHand(p, t, s, o, u) /\ pc[p][t] # "idle"
    BY <1>2, <1>7
  <2> QED
    BY <2>1 DEF Inv, SenderHolds
<1>11. \A q, r, x \in Proc : \A v \in acked'[q][r][x] : Holds(r, x, v)
  <2>1. \A q, r, x \in Proc : \A v \in acked[q][r][x] : Holds(r, x, v)
    BY DEF Inv, SenderHolds
  <2> QED
    BY <1>3, <1>10, <2>1
<1>12. /\ HoldersGrow
       /\ HeldWasSent' /\ SenderHolds' /\ SentAfterSeen' /\ AckAfterSeen'
  <2>1. \A q \in Proc, r \in Thread : pc'[q][r] = "idle" <=> pc[q][r] = "idle"
    BY <1>6, <1>7
  <2> QED
    BY <1>1, <1>7, <1>8, <1>9, <1>11, <2>1, InsertStepInv
<1>13. MutexOwner'
  <2>1. MutexOwner /\ \A q \in Proc : mtx'[q] = IF q = p THEN t ELSE mtx[q]
    BY <1>1, <1>7 DEF Inv, TypeOK
  <2>2. t # "free"
    BY DEF Thread
  <2> QED
    BY <1>6, <1>7, <2>1, <2>2 DEF MutexOwner, Thread
<1>14. ThreadWork'
  <2>1. ThreadWork
    BY DEF Inv
  <2>2. \A q, x \in Proc : acked[q][q][x] \subseteq acked'[q][q][x]
    BY <1>8 DEF AckedGrows
  <2> SUFFICES ASSUME NEW q \in Proc, NEW r \in Thread
               PROVE  LET n == payload[q][r]
                      IN  /\ r = "enqueuer" /\ pc'[q][r] # "idle" =>
                               /\ pc'[q][r] \notin {"insert", "inserting"}
                               /\ n.owner_id = q
                               /\ n.sender_id = q
                               /\ ~n.is_ack
                          /\ pc'[q][r] # "idle" /\ n.is_ack =>
                               n.packet_uid \in acked'[q][q][n.owner_id]
                          /\ pc'[q][r] \in {"mark", "marking", "send"} =>
                               n.sender_id = q /\ ~n.is_ack
                          /\ pc'[q][r] \in {"marking", "send"} =>
                               n.packet_uid \in acked'[q][q][n.owner_id]
    BY <1>7 DEF ThreadWork, WasSeen
  <2>3. CASE q = p /\ r = t
    <3>1. pc[p][t] = "mark" => s = p /\ u \in acked'[p][p][o]
      BY <1>0, <1>3, <2>1 DEF ThreadWork, m
    <3>2. m.is_ack => u \in acked'[p][p][o]
      BY <1>0, <1>7, <2>1, <2>2 DEF ThreadWork, WasSeen, m
    <3> QED
      BY <1>0, <1>6, <1>7, <2>1, <2>3, <3>1, <3>2 DEF ThreadWork, m
  <2>4. CASE ~(q = p /\ r = t)
    <3>1. pc'[q][r] = pc[q][r]
      BY <1>6, <2>4
    <3>2. pc[q][r] # "idle" => payload[q][r].owner_id \in Proc
      BY <1>1, PayloadInHand
    <3> QED
      BY <2>1, <2>2, <3>1, <3>2 DEF ThreadWork, WasSeen
  <2> QED
    BY <2>3, <2>4
<1>15. CounterMatchesAcks'
  <2>1. CounterMatchesAcks
    BY DEF Inv
  <2> SUFFICES ASSUME NEW q \in Proc, NEW x \in Proc, NEW v \in Uid,
                      v >= received_up_to[q][x]
               PROVE  /\ acked_counter'[q][x][v] =
                           Cardinality({r \in Proc : v \in acked'[q][r][x]})
                      /\ v \in undelivered'[q][x] <=> acked_counter'[q][x][v] > 0
    BY <1>7 DEF CounterMatchesAcks
  <2>2. v \in PacketID
    BY CountAssumption DEF Uid, PacketID
  <2>3. /\ acked_counter[q][x][v] = Cardinality({r \in Proc : v \in acked[q][r][x]})
        /\ v \in undelivered[q][x] <=> acked_counter[q][x][v] > 0
    BY <2>1 DEF CounterMatchesAcks
  <2>4. acked_counter[q][x][v] \in Nat
    BY <1>1, <2>2 DEF TypeOK
  <2>5. CASE q = p /\ x = o /\ v = u /\ CountsAsNew(p, m)
    <3>1. u \notin acked[p][s][o] /\ u >= received_up_to[p][o]
      BY <1>0, <2>5 DEF CountsAsNew
    <3>2. Cardinality({r \in Proc : u \in acked[p][r][o]} \cup {s})
            = acked_counter[p][o][u] + 1
      BY <1>1, <2>1, <3>1, OneMoreAck
    <3>3. {r \in Proc : v \in acked'[q][r][x]}
            = {r \in Proc : u \in acked[p][r][o]} \cup {s}
      BY <1>3, <2>5
    <3>4. acked_counter'[q][x][v] = acked_counter[q][x][v] + 1
      BY <1>4, <2>2, <2>5
    <3>5. v \in undelivered'[q][x]
      <4>1. CASE acked_counter[q][x][v] = 0
        BY <1>0, <1>5, <2>5, <4>1 DEF KeepsPayload
      <4>2. CASE acked_counter[q][x][v] # 0
        BY <1>5, <2>3, <2>4, <4>2
      <4> QED
        BY <4>1, <4>2
    <3>6. acked_counter'[q][x][v] =
            Cardinality({r \in Proc : v \in acked'[q][r][x]})
      BY <2>5, <3>2, <3>3, <3>4
    <3>7. acked_counter'[q][x][v] > 0
      BY <2>4, <3>4
    <3> QED
      BY <3>5, <3>6, <3>7
  <2>6. CASE ~(q = p /\ x = o /\ v = u /\ CountsAsNew(p, m))
    <3>1. acked_counter'[q][x][v] = acked_counter[q][x][v]
      BY <1>4, <2>2, <2>6
    <3>2. {r \in Proc : v \in acked'[q][r][x]} = {r \in Proc : v \in acked[q][r][x]}
      BY <1>0, <1>3, <2>6 DEF CountsAsNew
    <3>3. v \in undelivered'[q][x] <=> v \in undelivered[q][x]
      BY <1>0, <1>5, <2>6 DEF KeepsPayload
    <3> QED
      BY <2>3, <3>1, <3>2, <3>3
  <2> QED
    BY <2>5, <2>6
<1>16. NoExtraCount'
  <2>1. u # MaxMsgs + 1 /\ MaxMsgs + 1 \in PacketID
    BY CountAssumption DEF Uid, PacketID
  <2> QED
    BY <1>4, <2>1 DEF Inv, NoExtraCount
<1>17. ClockCounts' /\ LogMatches'
  BY <1>7 DEF Inv, ClockCounts, LogMatches
<1>18. DeliveredHeld'
  BY <1>1, <1>7, <1>12, DeliveredHeldKeeps DEF Inv
<1> QED
  BY <1>1, <1>12, <1>13, <1>14, <1>15, <1>16, <1>17, <1>18 DEF Inv

\* The packet that insert's loop is about to deliver is held by a majority:
\* every process counted for it holds it.
LEMMA CountedIsHeld ==
  ASSUME Inv, NEW p \in Proc, NEW a \in Proc, NEW u \in Uid,
         u = received_up_to[p][a], acked_counter[p][a][u] > N \div 2
  PROVE  Cardinality(Holders(a, u)) > N \div 2
<1> DEFINE K == {s \in Proc : u \in acked[p][s][a]}
<1>1. K \subseteq Holders(a, u)
  BY DEF Inv, SenderHolds, Holders
<1>2. acked_counter[p][a][u] = Cardinality(K)
  <2>1. u >= received_up_to[p][a]
    BY CountAssumption DEF Uid
  <2> QED
    BY <2>1 DEF Inv, CounterMatchesAcks
<1>3. K \in SUBSET Proc /\ Holders(a, u) \in SUBSET Proc
  BY DEF Holders
<1>4. /\ IsFiniteSet(Holders(a, u))
      /\ Cardinality(K) \in 0..N
      /\ Cardinality(Holders(a, u)) \in 0..N
  BY <1>3, ProcFinite
<1>5. Cardinality(K) <= Cardinality(Holders(a, u))
  BY <1>1, <1>4, FS_Subset
<1>6. N \div 2 \in Nat
  BY NAssumption
<1> HIDE DEF K
<1> QED
  BY <1>2, <1>4, <1>5, <1>6

\* One more packet at the end of a log that matches received_up_to.
LEMMA DeliverLogMatches ==
  ASSUME TypeOK, LogMatches, NEW p \in Proc, NEW a \in Proc, NEW u \in Uid,
         u = received_up_to[p][a],
         deliverable' = [deliverable EXCEPT ![p] =
           Append(@, [owner_id |-> a, packet_uid |-> u])],
         \A q, x \in Proc :
           received_up_to'[q][x] = IF q = p /\ x = a
             THEN received_up_to[q][x] + 1 ELSE received_up_to[q][x]
  PROVE  LogMatches'
<1> DEFINE L == deliverable[p]
           M == deliverable'[p]
           e == [owner_id |-> a, packet_uid |-> u]
           n == Len(L)
<1>1. L \in Seq(Delivery) /\ n \in Nat
  BY DEF TypeOK
<1>2. M = Append(L, e)
  BY DEF TypeOK
<1>3. e \in Delivery /\ e.owner_id = a /\ e.packet_uid = u
  BY DEF Delivery
<1>4. /\ DOMAIN L = 1..n
      /\ DOMAIN M = 1..(n + 1)
      /\ \A i \in 1..n : M[i] = L[i] /\ L[i] \in Delivery
      /\ M[n + 1] = e
  BY <1>1, <1>2, <1>3
<1>5. \A q, x \in Proc : /\ received_up_to[q][x] \in Nat
                         /\ received_up_to[q][x] <= received_up_to'[q][x]
                         /\ received_up_to'[q][x] \in Nat
  <2>1. \A q, x \in Proc : received_up_to[q][x] \in PacketID
    BY DEF TypeOK
  <2>2. \A q, x \in Proc : received_up_to[q][x] \in Nat
    BY <2>1, CountAssumption DEF PacketID
  <2> QED
    BY <2>2
<1>6. \A i \in 1..n : /\ L[i].owner_id \in Proc
                      /\ L[i].packet_uid \in Nat
                      /\ L[i].packet_uid < received_up_to[p][L[i].owner_id]
  <2>1. \A i \in 1..n : L[i].packet_uid < received_up_to[p][L[i].owner_id]
    BY <1>4 DEF LogMatches
  <2>2. \A d \in Delivery : d.owner_id \in Proc /\ d.packet_uid \in Nat
    BY CountAssumption DEF Delivery, Uid
  <2> QED
    BY <1>4, <2>1, <2>2
<1> HIDE DEF L, M, e, n
<1>7. \A i \in DOMAIN M : M[i].packet_uid < received_up_to'[p][M[i].owner_id]
  <2> SUFFICES ASSUME NEW i \in 1..(n + 1)
               PROVE  M[i].packet_uid < received_up_to'[p][M[i].owner_id]
    BY <1>4
  <2>1. CASE i = n + 1
    <3>1. received_up_to'[p][a] = u + 1
      OBVIOUS
    <3> QED
      BY <1>3, <1>4, <2>1, <3>1, CountAssumption DEF Uid
  <2>2. CASE i # n + 1
    <3>1. i \in 1..n
      BY <1>1, <2>2
    <3> QED
      BY <1>4, <1>5, <1>6, <3>1
  <2> QED
    BY <2>1, <2>2
<1>8. ASSUME NEW o \in Proc, NEW v \in 1..(received_up_to'[p][o] - 1)
      PROVE  \E i \in DOMAIN M : M[i] = [owner_id |-> o, packet_uid |-> v]
  <2>1. CASE v \in 1..(received_up_to[p][o] - 1)
    <3>1. PICK i \in DOMAIN L : L[i] = [owner_id |-> o, packet_uid |-> v]
      BY <2>1 DEF LogMatches, L
    <3>2. i \in 1..n /\ i \in 1..(n + 1)
      BY <1>1, <1>4
    <3> QED
      BY <1>4, <3>1, <3>2
  <2>2. CASE v \notin 1..(received_up_to[p][o] - 1)
    <3>1. o = a /\ v = u
      BY <1>5, <2>2
    <3>2. n + 1 \in DOMAIN M /\ M[n + 1] = [owner_id |-> o, packet_uid |-> v]
      BY <1>1, <1>4, <3>1 DEF e
    <3> QED
      BY <3>2
  <2> QED
    BY <2>1, <2>2
<1>9. ASSUME NEW i \in DOMAIN M, NEW j \in DOMAIN M, i < j,
             M[i].owner_id = M[j].owner_id
      PROVE  M[i].packet_uid < M[j].packet_uid
  <2>1. i \in 1..n /\ j \in 1..(n + 1)
    BY <1>1, <1>4, <1>9
  <2>2. CASE j = n + 1
    BY <1>3, <1>4, <1>6, <1>9, <2>1, <2>2
  <2>3. CASE j # n + 1
    <3>1. j \in 1..n
      BY <1>1, <2>1, <2>3
    <3>2. L[i].owner_id = L[j].owner_id
      BY <1>4, <1>9, <2>1, <3>1
    <3>3. L[i].packet_uid < L[j].packet_uid
      BY <1>4, <1>9, <2>1, <3>1, <3>2 DEF LogMatches, L
    <3> QED
      BY <1>4, <2>1, <3>1, <3>3
  <2> QED
    BY <2>2, <2>3
<1> SUFFICES ASSUME NEW q \in Proc
             PROVE  /\ \A i \in DOMAIN deliverable'[q] :
                         deliverable'[q][i].packet_uid
                           < received_up_to'[q][deliverable'[q][i].owner_id]
                    /\ \A o \in Proc : \A v \in 1..(received_up_to'[q][o] - 1) :
                         \E i \in DOMAIN deliverable'[q] :
                           deliverable'[q][i] = [owner_id |-> o, packet_uid |-> v]
                    /\ \A i, j \in DOMAIN deliverable'[q] :
                         i < j /\ deliverable'[q][i].owner_id = deliverable'[q][j].owner_id
                           => deliverable'[q][i].packet_uid < deliverable'[q][j].packet_uid
  BY DEF LogMatches
<1>10. CASE q = p
  BY <1>7, <1>8, <1>9, <1>10 DEF M
<1>11. CASE q # p
  <2>1. deliverable'[q] = deliverable[q]
    BY <1>11 DEF TypeOK
  <2>2. \A i \in DOMAIN deliverable[q] : deliverable[q][i].owner_id \in Proc
    <3>1. deliverable[q] \in Seq(Delivery)
      BY DEF TypeOK
    <3>2. \A i \in DOMAIN deliverable[q] : deliverable[q][i] \in Delivery
      BY <3>1
    <3> QED
      BY <3>2 DEF Delivery
  <2>3. \A x \in Proc : received_up_to'[q][x] = received_up_to[q][x]
    BY <1>11
  <2>4. \A i \in DOMAIN deliverable[q] :
          deliverable[q][i].packet_uid
            < received_up_to[q][deliverable[q][i].owner_id]
    BY DEF LogMatches
  <2>5. \A o \in Proc : \A v \in 1..(received_up_to[q][o] - 1) :
          \E i \in DOMAIN deliverable[q] :
            deliverable[q][i] = [owner_id |-> o, packet_uid |-> v]
    BY DEF LogMatches
  <2>6. \A i, j \in DOMAIN deliverable[q] :
          i < j /\ deliverable[q][i].owner_id = deliverable[q][j].owner_id
            => deliverable[q][i].packet_uid < deliverable[q][j].packet_uid
    BY DEF LogMatches
  <2>7. \A i \in DOMAIN deliverable'[q] :
          deliverable'[q][i].packet_uid
            < received_up_to'[q][deliverable'[q][i].owner_id]
    BY <2>1, <2>2, <2>3, <2>4
  <2>8. \A o \in Proc : \A v \in 1..(received_up_to'[q][o] - 1) :
          \E i \in DOMAIN deliverable'[q] :
            deliverable'[q][i] = [owner_id |-> o, packet_uid |-> v]
    BY <2>1, <2>3, <2>5
  <2>9. \A i, j \in DOMAIN deliverable'[q] :
          i < j /\ deliverable'[q][i].owner_id = deliverable'[q][j].owner_id
            => deliverable'[q][i].packet_uid < deliverable'[q][j].packet_uid
    <3> DEFINE D == deliverable[q]
               E == deliverable'[q]
    <3>1. \A i, j \in DOMAIN D :
            i < j /\ D[i].owner_id = D[j].owner_id => D[i].packet_uid < D[j].packet_uid
      BY <2>6
    <3>2. E = D
      BY <2>1
    <3> HIDE DEF D, E
    <3>3. \A i, j \in DOMAIN E :
            i < j /\ E[i].owner_id = E[j].owner_id => E[i].packet_uid < E[j].packet_uid
      BY <3>1, <3>2
    <3> QED
      BY <3>3 DEF E
  <2> QED
    BY <2>7, <2>8, <2>9
<1> QED
  BY <1>10, <1>11

\* One delivery moves one packet from undelivered to deliverable.
LEMMA DeliverInv ==
  ASSUME Inv, NEW p \in Proc, NEW t \in Thread, Deliver(p, t)
  PROVE  Inv'
<1>1. TypeOK /\ TypeOK' /\ NoExtraCount
  BY DeliverTypeOK DEF Inv
<1>2. PICK a \in Proc :
        LET u == received_up_to[p][a]
        IN  /\ u \in Uid /\ u \in PacketID
            /\ acked_counter[p][a][u] > N \div 2
            /\ deliverable' = [deliverable EXCEPT ![p] =
                 Append(@, [owner_id |-> a, packet_uid |-> u])]
            /\ \A q, x \in Proc :
                 received_up_to'[q][x] = IF q = p /\ x = a
                   THEN received_up_to[q][x] + 1 ELSE received_up_to[q][x]
            /\ \A q, x \in Proc :
                 vector_clock'[q][x] = IF q = p /\ x = a
                   THEN vector_clock[q][x] + 1 ELSE vector_clock[q][x]
            /\ \A q, x \in Proc :
                 undelivered'[q][x] = IF q = p /\ x = a
                   THEN undelivered[q][x] \ {u} ELSE undelivered[q][x]
            /\ \A q, x \in Proc, v \in PacketID :
                 acked_counter'[q][x][v] = IF q = p /\ x = a /\ v = u
                   THEN 0 ELSE acked_counter[q][x][v]
  BY <1>1, DeliverEffect
<1> DEFINE u == received_up_to[p][a]
<1>3. UNCHANGED <<acked, mtx, pc, payload, enqueued_messages, net>>
  BY DEF Deliver
<1>4. u \in Uid /\ acked_counter[p][a][u] > N \div 2
  BY <1>2
<1>5. \A q, x \in Proc :
        received_up_to'[q][x] = IF q = p /\ x = a
          THEN received_up_to[q][x] + 1 ELSE received_up_to[q][x]
  BY <1>2
<1>6. \A q, x \in Proc : received_up_to[q][x] \in Nat
  <2>1. \A q, x \in Proc : received_up_to[q][x] \in PacketID
    BY <1>1 DEF TypeOK
  <2> QED
    BY <2>1, CountAssumption DEF PacketID
<1>7. MutexOwner' /\ ThreadWork'
  BY <1>3 DEF Inv, MutexOwner, ThreadWork, WasSeen
<1>8. \A s, o \in Proc, v \in Uid : Holds(s, o, v)' <=> Holds(s, o, v)
  BY <1>3 DEF Holds
<1>9. /\ HoldersGrow
      /\ HeldWasSent' /\ SenderHolds' /\ SentAfterSeen' /\ AckAfterSeen'
  <2>1. AckedGrows
    BY <1>3 DEF AckedGrows
  <2>2. \A q, s, o \in Proc : \A v \in acked'[q][s][o] : Holds(s, o, v)
    BY <1>3 DEF Inv, SenderHolds
  <2> QED
    BY <1>1, <1>3, <1>8, <2>1, <2>2, InsertStepInv
<1>10. CounterMatchesAcks'
  <2> SUFFICES ASSUME NEW q \in Proc, NEW x \in Proc, NEW v \in Uid,
                      v >= received_up_to'[q][x]
               PROVE  /\ acked_counter'[q][x][v] =
                           Cardinality({r \in Proc : v \in acked'[q][r][x]})
                      /\ v \in undelivered'[q][x] <=> acked_counter'[q][x][v] > 0
    BY DEF CounterMatchesAcks
  <2>1. v \in PacketID /\ v \in Nat
    BY CountAssumption DEF Uid, PacketID
  <2>2. v >= received_up_to[q][x] /\ ~(q = p /\ x = a /\ v = u)
    BY <1>5, <1>6, <2>1
  <2>3. acked_counter'[q][x][v] = acked_counter[q][x][v]
    BY <1>2, <2>1, <2>2
  <2>4. v \in undelivered'[q][x] <=> v \in undelivered[q][x]
    <3>1. CASE q = p /\ x = a
      <4>1. undelivered'[q][x] = undelivered[q][x] \ {u}
        BY <1>2, <3>1
      <4>2. v # u
        BY <2>2, <3>1
      <4> HIDE DEF u
      <4> QED
        BY <4>1, <4>2
    <3>2. CASE ~(q = p /\ x = a)
      BY <1>2, <3>2
    <3> QED
      BY <3>1, <3>2
  <2> QED
    BY <1>3, <2>2, <2>3, <2>4 DEF Inv, CounterMatchesAcks
<1>11. NoExtraCount'
  <2>1. MaxMsgs + 1 \in PacketID
    BY CountAssumption DEF PacketID
  <2>2. ASSUME NEW q \in Proc, NEW x \in Proc
        PROVE  acked_counter'[q][x][MaxMsgs + 1] = 0
    <3>1. acked_counter[q][x][MaxMsgs + 1] = 0
      BY <1>1 DEF NoExtraCount
    <3> QED
      BY <1>2, <2>1, <3>1
  <2> QED
    BY <2>2 DEF NoExtraCount
<1>12. ClockCounts'
  <2>1. ASSUME NEW q \in Proc, NEW x \in Proc
        PROVE  vector_clock'[q][x] = received_up_to'[q][x] - 1
    <3>1. vector_clock[q][x] = received_up_to[q][x] - 1
      BY DEF Inv, ClockCounts
    <3>2. vector_clock'[q][x] = IF q = p /\ x = a
            THEN vector_clock[q][x] + 1 ELSE vector_clock[q][x]
      BY <1>2
    <3> QED
      BY <1>5, <1>6, <3>1, <3>2
  <2> QED
    BY <2>1 DEF ClockCounts
<1>13. LogMatches'
  BY <1>1, <1>2, DeliverLogMatches DEF Inv
<1>14. DeliveredHeld'
  <2> SUFFICES ASSUME NEW q \in Proc, NEW x \in Proc,
                      NEW v \in 1..(received_up_to'[q][x] - 1)
               PROVE  Cardinality(Holders(x, v))' > N \div 2
    BY DEF DeliveredHeld
  <2>1. CASE v \in 1..(received_up_to[q][x] - 1)
    <3>1. Cardinality(Holders(x, v)) > N \div 2
      BY <2>1 DEF Inv, DeliveredHeld
    <3>2. received_up_to[q][x] \in PacketID
      BY <1>1 DEF TypeOK
    <3>3. v \in Uid
      BY <2>1, <3>2, CountAssumption DEF PacketID, Uid
    <3> QED
      BY <1>9, <3>1, <3>3, MajorityKeeps
  <2>2. CASE v \notin 1..(received_up_to[q][x] - 1)
    <3>1. x = a /\ v = u
      BY <1>5, <1>6, <2>2
    <3>2. Cardinality(Holders(x, v)) > N \div 2
      BY <1>4, <3>1, CountedIsHeld
    <3> QED
      BY <1>4, <1>9, <3>1, <3>2, MajorityKeeps
  <2> QED
    BY <2>1, <2>2
<1> QED
  BY <1>1, <1>7, <1>9, <1>10, <1>11, <1>12, <1>13, <1>14 DEF Inv

\* insert returns: only the mutex and the thread's place change.
LEMMA InsertReturnInv ==
  ASSUME Inv, NEW p \in Proc, NEW t \in Thread, InsertReturn(p, t)
  PROVE  Inv'
<1>1. TypeOK /\ TypeOK'
  BY InsertReturnTypeOK DEF Inv
<1>2. /\ pc[p][t] \in {"inserting", "marking"}
      /\ mtx' = [mtx EXCEPT ![p] = "free"]
      /\ UNCHANGED setVars
      /\ UNCHANGED <<payload, enqueued_messages, net>>
  BY DEF InsertReturn
<1>3. \A q \in Proc, r \in Thread :
        pc'[q][r] = IF q = p /\ r = t
                    THEN IF pc[p][t] = "inserting" THEN "check" ELSE "send"
                    ELSE pc[q][r]
  <2> DEFINE l == IF pc[p][t] = "inserting" THEN "check" ELSE "send"
  <2>1. pc' = [pc EXCEPT ![p][t] = l]
    BY DEF InsertReturn
  <2>2. pc \in [Proc -> [Thread -> Label]]
    BY <1>1 DEF TypeOK
  <2> HIDE DEF l
  <2>3. \A q \in Proc, r \in Thread :
          pc'[q][r] = IF q = p /\ r = t THEN l ELSE pc[q][r]
    BY <2>1, <2>2
  <2> QED
    BY <2>3 DEF l
<1>4. acked' = acked /\ received_up_to' = received_up_to
  BY <1>2 DEF setVars
<1>5. \A q \in Proc, r \in Thread : pc'[q][r] = "idle" <=> pc[q][r] = "idle"
  BY <1>2, <1>3
<1>6. \A s, o \in Proc, u \in Uid : Holds(s, o, u)' <=> Holds(s, o, u)
  BY <1>2, <1>4, <1>5 DEF Holds
<1>7. /\ HoldersGrow
      /\ HeldWasSent' /\ SenderHolds' /\ SentAfterSeen' /\ AckAfterSeen'
  <2>1. AckedGrows
    BY <1>4 DEF AckedGrows
  <2>2. \A q, s, o \in Proc : \A v \in acked'[q][s][o] : Holds(s, o, v)
    BY <1>4 DEF Inv, SenderHolds
  <2> QED
    BY <1>1, <1>2, <1>5, <1>6, <2>1, <2>2, InsertStepInv
<1>8. MutexOwner'
  <2>1. MutexOwner /\ \A q \in Proc : mtx'[q] = IF q = p THEN "free" ELSE mtx[q]
    BY <1>1, <1>2 DEF Inv, TypeOK
  <2>2. "free" \notin Thread
    BY DEF Thread
  <2> QED
    BY <1>2, <1>3, <2>1, <2>2 DEF MutexOwner
<1>9. ThreadWork'
  BY <1>2, <1>3, <1>4 DEF Inv, ThreadWork, WasSeen
<1>10. DeliveredHeld'
  BY <1>1, <1>4, <1>7, DeliveredHeldKeeps DEF Inv
<1> QED
  BY <1>1, <1>2, <1>7, <1>8, <1>9, <1>10, SetKeeps DEF Inv

----------------------------------------------------------------------------
(* The theorems. *)

\* The constructor of DeliveredSet, an empty network and idle threads.
LEMMA InitInv == Init => Inv
<1> SUFFICES ASSUME Init
             PROVE  Inv
  OBVIOUS
<1>1. 0 \in 0..N /\ 0 \in 0..MaxMsgs /\ 1 \in PacketID
  BY NAssumption, CountAssumption DEF PacketID
<1>2. TypeOK
  <2>1. acked \in [Proc -> [Proc -> [Proc -> SUBSET Uid]]]
    BY DEF Init
  <2>2. /\ acked_counter \in [Proc -> [Proc -> [PacketID -> 0..N]]]
        /\ undelivered \in [Proc -> [Proc -> SUBSET Uid]]
        /\ received_up_to \in [Proc -> [Proc -> PacketID]]
        /\ vector_clock \in [Proc -> Clock]
    BY <1>1 DEF Init, Clock
  <2>3. /\ deliverable \in [Proc -> Seq(Delivery)]
        /\ mtx \in [Proc -> Thread \cup {"free"}]
        /\ cursor \in [Proc -> Nat \ {0}]
        /\ enqueued_messages \in [Proc -> 0..MaxMsgs]
        /\ net \in SUBSET Message
    BY <1>1 DEF Init
  <2>4. /\ pc \in [Proc -> [Thread -> Label]]
        /\ payload \in [Proc -> [Thread -> Payload \cup {NoPayload}]]
        /\ \A p \in Proc : pc[p]["receiver"] # "copy"
        /\ \A p \in Proc, t \in Thread :
             pc[p][t] # "idle" => payload[p][t] \in Payload
    BY DEF Init, Label, Thread
  <2> QED
    BY <2>1, <2>2, <2>3, <2>4 DEF TypeOK
<1>3. \A p \in Proc, t \in Thread : pc[p][t] = "idle" /\ mtx[p] # t
  BY DEF Init, Thread
<1>4. \A p, s, o \in Proc : acked[p][s][o] = {}
  BY DEF Init
<1>5. MutexOwner /\ ThreadWork /\ SentAfterSeen /\ AckAfterSeen
  <2>1. net = {}
    BY DEF Init
  <2> QED
    BY <1>3, <2>1 DEF MutexOwner, ThreadWork, SentAfterSeen, AckAfterSeen
<1>6. HeldWasSent /\ SenderHolds
  <2>1. \A s, o \in Proc, u \in Uid : ~Holds(s, o, u)
    BY <1>3, <1>4 DEF Holds
  <2>2. net = {}
    BY DEF Init
  <2> QED
    BY <1>3, <1>4, <2>1, <2>2 DEF HeldWasSent, SenderHolds
<1>7. CounterMatchesAcks
  <2>1. ASSUME NEW p \in Proc, NEW o \in Proc, NEW u \in Uid
        PROVE  /\ acked_counter[p][o][u] =
                    Cardinality({s \in Proc : u \in acked[p][s][o]})
               /\ u \in undelivered[p][o] <=> acked_counter[p][o][u] > 0
    <3>1. u \in PacketID
      BY CountAssumption DEF Uid, PacketID
    <3>2. acked_counter[p][o][u] = 0 /\ undelivered[p][o] = {}
      BY <3>1 DEF Init
    <3>3. {s \in Proc : u \in acked[p][s][o]} = {}
      BY <1>4
    <3>4. Cardinality({s \in Proc : u \in acked[p][s][o]}) = 0
      BY <3>3, FS_EmptySet
    <3> QED
      BY <3>2, <3>4
  <2> QED
    BY <2>1 DEF CounterMatchesAcks
<1>8. NoExtraCount /\ ClockCounts
  <2>1. MaxMsgs + 1 \in PacketID
    BY CountAssumption DEF PacketID
  <2> QED
    BY <2>1 DEF Init, NoExtraCount, ClockCounts
<1>9. LogMatches /\ DeliveredHeld
  BY DEF Init, LogMatches, DeliveredHeld
<1> QED
  BY <1>2, <1>5, <1>6, <1>7, <1>8, <1>9 DEF Inv

\* A step that changes nothing.
LEMMA StutterInv ==
  ASSUME Inv, UNCHANGED vars
  PROVE  Inv'
<1>1. UNCHANGED <<acked, acked_counter, undelivered, received_up_to, vector_clock,
                  deliverable, mtx, cursor, pc, payload, enqueued_messages, net>>
  BY DEF vars, setVars
<1>2. TypeOK'
  BY <1>1 DEF Inv, TypeOK
<1>3. MutexOwner' /\ ThreadWork' /\ HeldWasSent'
  BY <1>1 DEF Inv, MutexOwner, ThreadWork, WasSeen, HeldWasSent, Holds
<1>4. SenderHolds'
  BY <1>1 DEF Inv, SenderHolds, InHand, Holds
<1>5. SentAfterSeen' /\ AckAfterSeen'
  BY <1>1 DEF Inv, SentAfterSeen, AckAfterSeen
<1>6. (CounterMatchesAcks /\ NoExtraCount /\ ClockCounts /\ LogMatches)'
  BY <1>1, SetKeeps DEF setVars
<1>7. DeliveredHeld'
  BY <1>1 DEF Inv, DeliveredHeld, Holders, Holds
<1> QED
  BY <1>2, <1>3, <1>4, <1>5, <1>6, <1>7 DEF Inv

\* Every step of either thread of any process keeps Inv.
LEMMA NextInv ==
  ASSUME Inv, [Next]_vars
  PROVE  Inv'
<1>1. CASE UNCHANGED vars
  BY <1>1, StutterInv
<1>2. CASE Next
  <2>1. PICK p \in Proc : \/ \E k \in net : Receive(p, k.payload)
                          \/ ConstructBegin(p)
                          \/ ConstructEnd(p)
                          \/ \E t \in Thread : ThreadStep(p, t)
    BY <1>2 DEF Next
  <2>2. CASE \E k \in net : Receive(p, k.payload)
    BY <2>2, ReceiveInv
  <2>3. CASE ConstructBegin(p)
    BY <2>3, ConstructBeginInv
  <2>4. CASE ConstructEnd(p)
    BY <2>4, ConstructEndInv
  <2>5. ASSUME NEW t \in Thread, ThreadStep(p, t)
        PROVE  Inv'
    BY <2>5, InsertInv, DeliverInv, InsertReturnInv, SkipSeenInv, RelayUnseenInv,
       BestEffortBroadcastInv DEF ThreadStep
  <2> QED
    BY <2>1, <2>2, <2>3, <2>4, <2>5
<1> QED
  BY <1>1, <1>2

\* A log that matches received_up_to has no gap, no duplicate and no inversion.
LEMMA LogIsFifo ==
  ASSUME TypeOK, LogMatches
  PROVE  FifoDelivery
<1> SUFFICES ASSUME NEW p \in Proc, NEW i \in DOMAIN deliverable[p]
             PROVE  /\ \A v \in 1..(deliverable[p][i].packet_uid - 1) :
                         \E j \in 1..(i - 1) : deliverable[p][j] =
                           [owner_id |-> deliverable[p][i].owner_id, packet_uid |-> v]
                    /\ \A j \in 1..(i - 1) : deliverable[p][j] # deliverable[p][i]
  BY DEF FifoDelivery
<1> DEFINE L == deliverable[p]
           n == Len(L)
           o == L[i].owner_id
           u == L[i].packet_uid
<1>1. /\ L \in Seq(Delivery)
      /\ n \in Nat
      /\ DOMAIN L = 1..n
      /\ \A j \in 1..n : L[j] \in Delivery
  BY DEF TypeOK
<1>2. o \in Proc /\ u \in Nat
  <2>1. L[i] \in Delivery
    BY <1>1
  <2> QED
    BY <2>1, CountAssumption DEF Delivery, Uid
<1>3. /\ u < received_up_to[p][o]
      /\ received_up_to[p][o] \in Nat
  <2>1. received_up_to[p][o] \in PacketID
    BY <1>2 DEF TypeOK
  <2> QED
    BY <2>1, CountAssumption DEF LogMatches, PacketID
<1>4. \A x, y \in DOMAIN L :
        x < y /\ L[x].owner_id = L[y].owner_id => L[x].packet_uid < L[y].packet_uid
  BY DEF LogMatches
<1>5. \A v \in 1..(received_up_to[p][o] - 1) :
        \E j \in DOMAIN L : L[j] = [owner_id |-> o, packet_uid |-> v]
  BY <1>2 DEF LogMatches
<1> HIDE DEF L, n
<1>6. ASSUME NEW v \in 1..(u - 1)
      PROVE  \E j \in 1..(i - 1) : L[j] = [owner_id |-> o, packet_uid |-> v]
  <2>1. v \in 1..(received_up_to[p][o] - 1)
    BY <1>2, <1>3
  <2>2. PICK j \in DOMAIN L : L[j] = [owner_id |-> o, packet_uid |-> v]
    BY <1>5, <2>1
  <2>3. L[j].owner_id = o /\ L[j].packet_uid = v
    BY <2>2
  <2>4. i \in DOMAIN L
    BY DEF L
  <2>5. ~(i < j) /\ i # j
    BY <1>2, <1>4, <2>3, <2>4
  <2>6. j \in 1..(i - 1)
    BY <1>1, <2>4, <2>5
  <2> QED
    BY <2>2, <2>6
<1>7. ASSUME NEW j \in 1..(i - 1)
      PROVE  L[j] # L[i]
  <2>1. i \in DOMAIN L
    BY DEF L
  <2>2. j \in DOMAIN L /\ j < i
    BY <1>1, <2>1
  <2> QED
    BY <1>2, <1>4, <2>1, <2>2
<1> QED
  BY <1>6, <1>7 DEF L

\* A packet in the log is below received_up_to, hence held by a majority.
LEMMA LogIsUniform ==
  ASSUME TypeOK, LogMatches, DeliveredHeld
  PROVE  UniformDelivery
<1> SUFFICES ASSUME NEW p \in Proc, NEW i \in DOMAIN deliverable[p]
             PROVE  Cardinality(Holders(deliverable[p][i].owner_id,
                                        deliverable[p][i].packet_uid)) > N \div 2
  BY DEF UniformDelivery
<1> DEFINE o == deliverable[p][i].owner_id
           u == deliverable[p][i].packet_uid
<1>1. o \in Proc /\ u \in Uid
  <2>1. deliverable[p] \in Seq(Delivery)
    BY DEF TypeOK
  <2>2. deliverable[p][i] \in Delivery
    BY <2>1
  <2> QED
    BY <2>2 DEF Delivery
<1>2. u < received_up_to[p][o] /\ received_up_to[p][o] \in PacketID
  BY <1>1 DEF LogMatches, TypeOK
<1>3. u \in 1..(received_up_to[p][o] - 1)
  BY <1>1, <1>2, CountAssumption DEF Uid, PacketID
<1> HIDE DEF o, u
<1>4. Cardinality(Holders(o, u)) > N \div 2
  BY <1>1, <1>3 DEF DeliveredHeld
<1> QED
  BY <1>4 DEF o, u

\* Inv, the inductive invariant of the broadcast stack, holds in every
\* execution of any number of processes with any configuration.
THEOREM InvHolds == Spec => []Inv
<1>1. Init => Inv
  BY InitInv
<1>2. Inv /\ [Next]_vars => Inv'
  BY NextInv
<1> QED
  BY <1>1, <1>2, PTL DEF Spec

\* The variables keep their types: in particular received_up_to never passes
\* one beyond the last packet and acked_counter never exceeds N.
THEOREM TypeCorrect == Spec => []TypeOK
<1>1. Inv => TypeOK
  BY DEF Inv
<1> QED
  BY <1>1, InvHolds, PTL

\* The deliveries of insert's loop are in FIFO order for every owner, without
\* gaps and without duplicates.
THEOREM FifoHolds == Spec => []FifoDelivery
<1>1. Inv => FifoDelivery
  BY LogIsFifo DEF Inv
<1> QED
  BY <1>1, InvHolds, PTL

\* Whatever any process delivers is held by a majority of the processes.
THEOREM UniformHolds == Spec => []UniformDelivery
<1>1. Inv => UniformDelivery
  BY LogIsUniform DEF Inv
<1> QED
  BY <1>1, InvHolds, PTL

\* Acknowledgements, although enqueued before insert, only travel to processes
\* that have marked the packet as seen.
THEOREM AckAfterSeenHolds == Spec => []AckAfterSeen
<1>1. Inv => AckAfterSeen
  BY DEF Inv
<1> QED
  BY <1>1, InvHolds, PTL

\* acked_counter and undelivered agree with acked for every packet not yet
\* delivered, so that insert's loop never finds a majority without a payload.
THEOREM CounterMatchesAcksHolds == Spec => []CounterMatchesAcks
<1>1. Inv => CounterMatchesAcks
  BY DEF Inv
<1> QED
  BY <1>1, InvHolds, PTL

----------------------------------------------------------------------------
(* ClockInv. *)

\* A payload is carried by the network or by a thread.
LEMMA CarriedIs ==
  \A m : m \in Carried <=>
    \/ \E k \in net : k.payload = m
    \/ \E p \in Proc : \E t \in Thread :
         pc[p][t] \notin {"idle", "copy"} /\ payload[p][t] = m
BY DEF Carried

\* The same in the next state.
LEMMA CarriedIsNext ==
  \A m : m \in Carried' <=>
    \/ \E k \in net' : k.payload = m
    \/ \E p \in Proc : \E t \in Thread :
         pc'[p][t] \notin {"idle", "copy"} /\ payload'[p][t] = m
BY DEF Carried

\* A carried packet has been started by its owner.
LEMMA CarriedType ==
  ASSUME Inv, NEW m \in Carried
  PROVE  /\ m \in Payload
         /\ m.sender_id \in Proc
         /\ m.owner_id \in Proc
         /\ m.packet_uid \in Uid
         /\ m.vector_clock \in Clock
         /\ m.packet_uid <= enqueued_messages[m.owner_id]
<1>1. TypeOK /\ SenderHolds /\ HeldWasSent
  BY DEF Inv
<1>2. m \in Payload
  <2>1. \A k \in net : k.payload \in Payload
    BY <1>1 DEF TypeOK, Message
  <2>2. \A p \in Proc : \A t \in Thread :
          pc[p][t] \notin {"idle", "copy"} => payload[p][t] \in Payload
    BY <1>1, PayloadInHand
  <2> QED
    BY <2>1, <2>2, CarriedIs
<1>3. /\ m.sender_id \in Proc
      /\ m.owner_id \in Proc
      /\ m.packet_uid \in Uid
      /\ m.vector_clock \in Clock
  BY <1>2 DEF Payload
<1>4. Holds(m.sender_id, m.owner_id, m.packet_uid)
  <2>1. CASE \E k \in net : k.payload = m
    BY <1>1, <2>1 DEF SenderHolds
  <2>2. CASE \E p \in Proc : \E t \in Thread :
               pc[p][t] \notin {"idle", "copy"} /\ payload[p][t] = m
    <3>1. PICK p \in Proc : \E t \in Thread :
            pc[p][t] \notin {"idle", "copy"} /\ payload[p][t] = m
      BY <2>2
    <3>2. PICK t \in Thread : pc[p][t] \notin {"idle", "copy"} /\ payload[p][t] = m
      BY <3>1
    <3>3. pc[p][t] # "idle" /\ InHand(p, t, m.sender_id, m.owner_id, m.packet_uid)
      BY <3>2 DEF InHand
    <3> QED
      BY <1>1, <1>3, <3>3 DEF SenderHolds
  <2> QED
    BY <2>1, <2>2, CarriedIs
<1>5. m.packet_uid <= enqueued_messages[m.owner_id]
  BY <1>1, <1>3, <1>4 DEF HeldWasSent
<1> QED
  BY <1>2, <1>3, <1>5

\* A packet acknowledged by anybody has been started by its owner.
LEMMA AckedWasSent ==
  ASSUME Inv, NEW p \in Proc, NEW s \in Proc, NEW o \in Proc, NEW u \in acked[p][s][o]
  PROVE  u \in Uid /\ u <= enqueued_messages[o]
<1>1. u \in Uid
  BY AckedUid DEF Inv
<1>2. Holds(s, o, u)
  BY DEF Inv, SenderHolds
<1> QED
  BY <1>1, <1>2 DEF Inv, HeldWasSent

\* Clocks are ordered as numbers are.
LEMMA NotAfterTransitive ==
  ASSUME NEW b \in Clock, NEW c \in Clock, NEW d \in Clock,
         NotAfter(b, c), NotAfter(c, d)
  PROVE  NotAfter(b, d)
<1>1. \A q \in Proc : /\ b[q] \in 0..MaxMsgs /\ c[q] \in 0..MaxMsgs /\ d[q] \in 0..MaxMsgs
                     /\ b[q] <= c[q] /\ c[q] <= d[q]
  BY DEF Clock, NotAfter
<1>2. \A q \in Proc : b[q] <= d[q]
  BY <1>1, CountAssumption
<1> QED
  BY <1>2 DEF NotAfter

\* vector_clock grows with received_up_to.
LEMMA VectorsGrow ==
  ASSUME Inv, Inv', \A p, q \in Proc : received_up_to[p][q] <= received_up_to'[p][q]
  PROVE  \A p \in Proc : NotAfter(vector_clock[p], vector_clock'[p])
<1> SUFFICES ASSUME NEW p \in Proc, NEW q \in Proc
             PROVE  vector_clock[p][q] <= vector_clock'[p][q]
  BY DEF NotAfter
<1>1. received_up_to[p][q] \in PacketID /\ received_up_to'[p][q] \in PacketID
  BY DEF Inv, TypeOK
<1>2. /\ vector_clock[p][q] = received_up_to[p][q] - 1
      /\ vector_clock'[p][q] = received_up_to'[p][q] - 1
  BY DEF Inv, ClockCounts
<1> QED
  BY <1>1, <1>2, CountAssumption DEF PacketID

\* GrowingClocks in a step in which every payload carried is a copy of one that
\* was, and no copy of a clock begins.
LEMMA GrowingKeeps ==
  ASSUME Inv, Inv', GrowingClocks,
         \A m \in Carried' : \E n \in Carried :
           IsPacket(n, m.owner_id, m.packet_uid) /\ n.vector_clock = m.vector_clock,
         \A p \in Proc : pc'[p]["enqueuer"] = "copy" =>
           pc[p]["enqueuer"] = "copy" /\ payload'[p]["enqueuer"] = payload[p]["enqueuer"],
         \A p \in Proc : NotAfter(vector_clock[p], vector_clock'[p])
  PROVE  GrowingClocks'
<1>1. \A p \in Proc : vector_clock[p] \in Clock /\ vector_clock'[p] \in Clock
  BY DEF Inv, TypeOK
<1>2. ASSUME NEW m \in Carried'
      PROVE  NotAfter(m.vector_clock, vector_clock'[m.owner_id])
  <2>1. PICK x \in Carried :
          IsPacket(x, m.owner_id, m.packet_uid) /\ x.vector_clock = m.vector_clock
    OBVIOUS
  <2>2. x.owner_id = m.owner_id /\ m.owner_id \in Proc /\ x.vector_clock \in Clock
    BY <2>1, CarriedType DEF IsPacket
  <2>3. NotAfter(x.vector_clock, vector_clock[m.owner_id])
    BY <2>2 DEF GrowingClocks
  <2> QED
    BY <1>1, <2>1, <2>2, <2>3, NotAfterTransitive
<1>3. ASSUME NEW m \in Carried', NEW n \in Carried',
             m.owner_id = n.owner_id, m.packet_uid <= n.packet_uid
      PROVE  NotAfter(m.vector_clock, n.vector_clock)
  <2>1. PICK x \in Carried :
          IsPacket(x, m.owner_id, m.packet_uid) /\ x.vector_clock = m.vector_clock
    OBVIOUS
  <2>2. PICK y \in Carried :
          IsPacket(y, n.owner_id, n.packet_uid) /\ y.vector_clock = n.vector_clock
    OBVIOUS
  <2>3. x.owner_id = y.owner_id /\ x.packet_uid <= y.packet_uid
    BY <1>3, <2>1, <2>2 DEF IsPacket
  <2> QED
    BY <2>1, <2>2, <2>3 DEF GrowingClocks
<1>4. ASSUME NEW p \in Proc, pc'[p]["enqueuer"] = "copy"
      PROVE  /\ NotAfter(payload'[p]["enqueuer"].vector_clock, vector_clock'[p])
             /\ \A m \in Carried' : m.owner_id = p =>
                  NotAfter(m.vector_clock, payload'[p]["enqueuer"].vector_clock)
  <2> DEFINE c == payload[p]["enqueuer"].vector_clock
  <2>1. pc[p]["enqueuer"] = "copy" /\ payload'[p]["enqueuer"] = payload[p]["enqueuer"]
    BY <1>4
  <2>2. c \in Clock
    BY <2>1, PayloadInHand DEF Inv, Thread, Payload
  <2>3. /\ NotAfter(c, vector_clock[p])
        /\ \A m \in Carried : m.owner_id = p => NotAfter(m.vector_clock, c)
    BY <2>1 DEF GrowingClocks
  <2>4. NotAfter(c, vector_clock'[p])
    BY <1>1, <2>2, <2>3, NotAfterTransitive
  <2>5. \A m \in Carried' : m.owner_id = p => NotAfter(m.vector_clock, c)
    BY <2>3 DEF IsPacket
  <2> QED
    BY <2>1, <2>4, <2>5
<1> QED
  BY <1>2, <1>3, <1>4 DEF GrowingClocks, NotAfter

\* A step in which every payload carried is a copy of one that was, no copy of
\* a clock begins, acked grows by carried packets and the owner delivers what
\* has been acknowledged.
LEMMA ClocksKeep ==
  ASSUME Inv, Inv', OneClock, OwnClock, Copying, GrowingClocks,
         \A m \in Carried' : \E n \in Carried :
           IsPacket(n, m.owner_id, m.packet_uid) /\ n.vector_clock = m.vector_clock,
         enqueued_messages' = enqueued_messages,
         \A p \in Proc : pc'[p]["enqueuer"] = "copy" =>
           pc[p]["enqueuer"] = "copy" /\ payload'[p]["enqueuer"] = payload[p]["enqueuer"],
         \A q, s, o \in Proc : \A v \in acked'[q][s][o] :
           v \in acked[q][s][o] \/ \E n \in Carried : IsPacket(n, o, v),
         \A p \in Proc :
           \/ received_up_to'[p][p] = received_up_to[p][p]
           \/ /\ received_up_to'[p][p] = received_up_to[p][p] + 1
              /\ \E s \in Proc : received_up_to[p][p] \in acked[p][s][p],
         \A p, q \in Proc : received_up_to[p][q] <= received_up_to'[p][q]
  PROVE  (OneClock /\ OwnClock /\ Copying /\ GrowingClocks)'
<1>1. OneClock'
  <2> SUFFICES ASSUME NEW m \in Carried', NEW n \in Carried',
                      IsPacket(m, n.owner_id, n.packet_uid)
               PROVE  m.vector_clock = n.vector_clock
    BY DEF OneClock, IsPacket
  <2>1. PICK x \in Carried :
          IsPacket(x, m.owner_id, m.packet_uid) /\ x.vector_clock = m.vector_clock
    OBVIOUS
  <2>2. PICK y \in Carried :
          IsPacket(y, n.owner_id, n.packet_uid) /\ y.vector_clock = n.vector_clock
    OBVIOUS
  <2>3. IsPacket(x, y.owner_id, y.packet_uid)
    BY <2>1, <2>2 DEF IsPacket
  <2> QED
    BY <2>1, <2>2, <2>3 DEF OneClock
<1>2. OwnClock'
  <2> SUFFICES ASSUME NEW m \in Carried'
               PROVE  m.vector_clock[m.owner_id] < m.packet_uid
    BY DEF OwnClock
  <2>1. PICK x \in Carried :
          IsPacket(x, m.owner_id, m.packet_uid) /\ x.vector_clock = m.vector_clock
    OBVIOUS
  <2> QED
    BY <2>1 DEF OwnClock, IsPacket
<1>3. Copying'
  <2> SUFFICES ASSUME NEW p \in Proc, pc'[p]["enqueuer"] = "copy"
               PROVE  /\ payload'[p]["enqueuer"].packet_uid = enqueued_messages'[p]
                      /\ \A m \in Carried' : ~IsPacket(m, p, enqueued_messages'[p])
                      /\ \A q, s \in Proc : enqueued_messages'[p] \notin acked'[q][s][p]
                      /\ received_up_to'[p][p] <= enqueued_messages'[p]
    BY DEF Copying, IsPacket
  <2> DEFINE v == enqueued_messages[p]
  <2>1. /\ payload[p]["enqueuer"].packet_uid = v
        /\ \A m \in Carried : ~IsPacket(m, p, v)
        /\ \A q, s \in Proc : v \notin acked[q][s][p]
        /\ received_up_to[p][p] <= v
    BY DEF Copying
  <2>2. \A m \in Carried' : ~IsPacket(m, p, v)
    BY <2>1 DEF IsPacket
  <2>3. \A q, s \in Proc : v \notin acked'[q][s][p]
    BY <2>1
  <2>4. received_up_to'[p][p] <= v
    <3>1. CASE received_up_to'[p][p] = received_up_to[p][p]
      BY <2>1, <3>1
    <3>2. CASE /\ received_up_to'[p][p] = received_up_to[p][p] + 1
               /\ \E s \in Proc : received_up_to[p][p] \in acked[p][s][p]
      <4>1. PICK s \in Proc : received_up_to[p][p] \in acked[p][s][p]
        BY <3>2
      <4>2. received_up_to[p][p] \in Uid /\ received_up_to[p][p] # v
        BY <2>1, <4>1, AckedWasSent
      <4>3. v \in 0..MaxMsgs
        BY DEF Inv, TypeOK
      <4> QED
        BY <2>1, <3>2, <4>2, <4>3, CountAssumption DEF Uid
    <3> QED
      BY <3>1, <3>2
  <2> QED
    BY <2>1, <2>2, <2>3, <2>4
<1>4. GrowingClocks'
  BY VectorsGrow, GrowingKeeps
<1> QED
  BY <1>1, <1>2, <1>3, <1>4

\* acked and received_up_to are left alone.
SetSame == acked' = acked /\ received_up_to' = received_up_to

\* received_up_to counts packets.
LEMMA NumberedUpTo ==
  ASSUME Inv, NEW p \in Proc, NEW o \in Proc
  PROVE  received_up_to[p][o] \in Nat
<1>1. received_up_to[p][o] \in PacketID
  BY DEF Inv, TypeOK
<1> QED
  BY <1>1, CountAssumption DEF PacketID

\* A thread moves on, or drops its payload, and what it keeps and sends are
\* copies of a payload that was carried.
LEMMA MovesClocks ==
  ASSUME Inv, Inv', OneClock, OwnClock, Copying, GrowingClocks,
         NEW p \in Proc, NEW t \in Thread, NEW l, NEW m, Moves(p, t, l, m),
         pc[p][t] # "copy" \/ t # "enqueuer", l # "copy",
         enqueued_messages' = enqueued_messages,
         NEW n \in Carried,
         l # "idle" =>
           IsPacket(n, m.owner_id, m.packet_uid) /\ n.vector_clock = m.vector_clock,
         \A k \in net' :
           \/ k \in net
           \/ /\ IsPacket(n, k.payload.owner_id, k.payload.packet_uid)
              /\ n.vector_clock = k.payload.vector_clock
  PROVE  (OneClock /\ OwnClock /\ Copying /\ GrowingClocks)'
<1>1. \A q \in Proc, r \in Thread :
        /\ pc'[q][r] = IF q = p /\ r = t THEN l ELSE pc[q][r]
        /\ payload'[q][r] = IF q = p /\ r = t THEN m ELSE payload[q][r]
  BY MovesEffect DEF Inv
<1>2. SetSame
  BY DEF Moves, setVars, SetSame
<1>3. \A h \in Carried' : \E g \in Carried :
        IsPacket(g, h.owner_id, h.packet_uid) /\ g.vector_clock = h.vector_clock
  <2> SUFFICES ASSUME NEW h \in Carried'
               PROVE  \E g \in Carried :
                        IsPacket(g, h.owner_id, h.packet_uid) /\ g.vector_clock = h.vector_clock
    OBVIOUS
  <2>1. h \in Carried => IsPacket(h, h.owner_id, h.packet_uid)
    BY DEF IsPacket
  <2>2. CASE \E k \in net' : k.payload = h
    <3>1. PICK k \in net' : k.payload = h
      BY <2>2
    <3>2. k \in net => h \in Carried
      BY <3>1, CarriedIs
    <3> QED
      BY <2>1, <3>1, <3>2
  <2>3. CASE \E q \in Proc : \E r \in Thread :
               pc'[q][r] \notin {"idle", "copy"} /\ payload'[q][r] = h
    <3>1. PICK q \in Proc : \E r \in Thread :
            pc'[q][r] \notin {"idle", "copy"} /\ payload'[q][r] = h
      BY <2>3
    <3>2. PICK r \in Thread : pc'[q][r] \notin {"idle", "copy"} /\ payload'[q][r] = h
      BY <3>1
    <3>3. CASE q = p /\ r = t
      BY <1>1, <3>2, <3>3
    <3>4. CASE ~(q = p /\ r = t)
      <4>1. h \in Carried
        BY <1>1, <3>2, <3>4, CarriedIs
      <4> QED
        BY <2>1, <4>1
    <3> QED
      BY <3>3, <3>4
  <2> QED
    BY <2>2, <2>3, CarriedIsNext
<1>4. \A q \in Proc : pc'[q]["enqueuer"] = "copy" =>
        pc[q]["enqueuer"] = "copy" /\ payload'[q]["enqueuer"] = payload[q]["enqueuer"]
  BY <1>1 DEF Thread
<1>5. \A q, r \in Proc : received_up_to[q][r] <= received_up_to'[q][r]
  BY <1>2, NumberedUpTo DEF SetSame
<1> QED
  BY <1>2, <1>3, <1>4, <1>5, ClocksKeep DEF SetSame

\* insert and its loop carry what was carried; what is recorded and what is
\* delivered has been sent.
LEMMA InsertClocks ==
  ASSUME Inv, Inv', OneClock, OwnClock, Copying, GrowingClocks, NEW p \in Proc, NEW t \in Thread,
         Insert(p, t) \/ Deliver(p, t) \/ InsertReturn(p, t)
  PROVE  (OneClock /\ OwnClock /\ Copying /\ GrowingClocks)'
<1>1. TypeOK /\ NoExtraCount /\ CounterMatchesAcks
  BY DEF Inv
<1>2. UNCHANGED <<payload, net, enqueued_messages>> /\ pc[p][t] \notin {"idle", "copy"}
  BY DEF Insert, Deliver, InsertReturn
<1>3. PICK l : pc' = [pc EXCEPT ![p][t] = l] /\ l \notin {"idle", "copy"}
  <2> DEFINE x == IF pc[p][t] = "insert" THEN "inserting" ELSE "marking"
             y == IF pc[p][t] = "inserting" THEN "check" ELSE "send"
  <2>1. CASE Insert(p, t)
    <3>1. pc' = [pc EXCEPT ![p][t] = x] /\ x \notin {"idle", "copy"}
      BY <2>1 DEF Insert
    <3> QED
      BY <3>1
  <2>3. CASE InsertReturn(p, t)
    <3>1. pc' = [pc EXCEPT ![p][t] = y] /\ y \notin {"idle", "copy"}
      BY <2>3 DEF InsertReturn
    <3> QED
      BY <3>1
  <2>2. CASE Deliver(p, t)
    <3>1. pc' = pc /\ pc \in [Proc -> [Thread -> Label]]
      BY <1>1, <2>2 DEF Deliver, TypeOK
    <3>2. pc' = [pc EXCEPT ![p][t] = pc[p][t]]
      BY <3>1
    <3> QED
      BY <1>2, <3>2
  <2> QED
    BY <2>1, <2>2, <2>3
<1>4. \A q \in Proc, r \in Thread : pc'[q][r] = IF q = p /\ r = t THEN l ELSE pc[q][r]
  BY <1>1, <1>3 DEF TypeOK
<1>5. \A q \in Proc, r \in Thread :
        /\ pc'[q][r] \notin {"idle", "copy"} <=> pc[q][r] \notin {"idle", "copy"}
        /\ pc'[q][r] = "copy" => pc[q][r] = "copy"
  BY <1>2, <1>3, <1>4
<1>6. \A m : m \in Carried' <=> m \in Carried
  BY <1>2, <1>5, CarriedIs, CarriedIsNext
<1>7. \A h \in Carried' : \E g \in Carried :
        IsPacket(g, h.owner_id, h.packet_uid) /\ g.vector_clock = h.vector_clock
  BY <1>6 DEF IsPacket
<1>8. \A q \in Proc : pc'[q]["enqueuer"] = "copy" =>
        pc[q]["enqueuer"] = "copy" /\ payload'[q]["enqueuer"] = payload[q]["enqueuer"]
  BY <1>2, <1>5 DEF Thread
<1>9. \A q, s, o \in Proc : \A v \in acked'[q][s][o] :
        v \in acked[q][s][o] \/ \E n \in Carried : IsPacket(n, o, v)
  <2>1. CASE Insert(p, t)
    <3>1. PICK s \in Proc, o \in Proc, u \in Uid : InHand(p, t, s, o, u)
      BY <1>1, <1>2, PayloadInHand DEF InHand
    <3>2. payload[p][t] \in Carried /\ IsPacket(payload[p][t], o, u)
      BY <1>2, <3>1, CarriedIs DEF InHand, IsPacket
    <3>3. \A q, r, x \in Proc : \A v :
            v \in acked'[q][r][x] <=>
              v \in acked[q][r][x] \/ (q = p /\ r = s /\ x = o /\ v = u)
      BY <1>1, <2>1, <3>1, InsertEffect
    <3> QED
      BY <3>2, <3>3
  <2>2. CASE Deliver(p, t) \/ InsertReturn(p, t)
    BY <2>2 DEF Deliver, InsertReturn, setVars
  <2> QED
    BY <2>1, <2>2
<1>10. \A q \in Proc :
         \/ received_up_to'[q][q] = received_up_to[q][q]
         \/ /\ received_up_to'[q][q] = received_up_to[q][q] + 1
            /\ \E s \in Proc : received_up_to[q][q] \in acked[q][s][q]
  <2>1. CASE Insert(p, t) \/ InsertReturn(p, t)
    BY <2>1 DEF Insert, InsertReturn, setVars
  <2>2. CASE Deliver(p, t)
    <3>1. PICK a \in Proc :
            /\ received_up_to[p][a] \in Uid
            /\ acked_counter[p][a][received_up_to[p][a]] > N \div 2
            /\ \A q, x \in Proc :
                 received_up_to'[q][x] = IF q = p /\ x = a
                   THEN received_up_to[q][x] + 1 ELSE received_up_to[q][x]
      BY <1>1, <2>2, DeliverEffect
    <3> DEFINE u == received_up_to[p][a]
               K == {s \in Proc : u \in acked[p][s][a]}
    <3>2. acked_counter[p][a][u] = Cardinality(K)
      <4>1. u >= received_up_to[p][a]
        BY <3>1 DEF Uid
      <4> QED
        BY <1>1, <3>1, <4>1 DEF CounterMatchesAcks
    <3>3. K # {}
      <4>1. N \div 2 \in Nat
        BY NAssumption
      <4>2. Cardinality({}) = 0
        BY FS_EmptySet
      <4>3. Cardinality(K) > N \div 2
        BY <3>1, <3>2
      <4> HIDE DEF K
      <4> QED
        BY <4>1, <4>2, <4>3
    <3> QED
      BY <3>1, <3>3
  <2> QED
    BY <2>1, <2>2
<1>11. \A q, r \in Proc : received_up_to[q][r] <= received_up_to'[q][r]
  <2>1. CASE Insert(p, t) \/ InsertReturn(p, t)
    <3>1. received_up_to' = received_up_to
      BY <2>1 DEF Insert, InsertReturn, setVars
    <3> QED
      BY <3>1, NumberedUpTo
  <2>2. CASE Deliver(p, t)
    <3>1. PICK a \in Proc :
            \A q, x \in Proc :
              received_up_to'[q][x] = IF q = p /\ x = a
                THEN received_up_to[q][x] + 1 ELSE received_up_to[q][x]
      BY <1>1, <2>2, DeliverEffect
    <3>2. \A q, r \in Proc : received_up_to[q][r] \in Nat
      BY NumberedUpTo
    <3> QED
      BY <3>1, <3>2
  <2> QED
    BY <2>1, <2>2
<1> QED
  BY <1>2, <1>7, <1>8, <1>9, <1>10, <1>11, ClocksKeep

\* The actions of the receiver and of uniform_reliable_broadcast only pass on
\* what was carried.
LEMMA PassOnClocks ==
  ASSUME Inv, Inv', OneClock, OwnClock, Copying, GrowingClocks, NEW p \in Proc, NEW t \in Thread,
         \/ t = "receiver" /\ \E k \in net : Receive(p, k.payload)
         \/ SkipSeen(p, t)
         \/ RelayUnseen(p, t)
         \/ BestEffortBroadcast(p, t)
  PROVE  (OneClock /\ OwnClock /\ Copying /\ GrowingClocks)'
<1>1. CASE t = "receiver" /\ \E k \in net : Receive(p, k.payload)
  <2>1. PICK k \in net : Receive(p, k.payload)
    BY <1>1
  <2> DEFINE m == k.payload
  <2>2. m \in Carried
    BY CarriedIs
  <2>3. m \in Payload
    BY <2>2, CarriedType
  <2>4. /\ Moves(p, t, "insert", m)
        /\ pc[p][t] # "copy"
        /\ enqueued_messages' = enqueued_messages
    BY <1>1, <2>1 DEF Receive, Moves
  <2>5. \A h \in net' : h \in net \/ h = Ack(p, m)
    BY <2>1 DEF Receive
  <2>6. /\ Ack(p, m).payload.owner_id = m.owner_id
        /\ Ack(p, m).payload.packet_uid = m.packet_uid
        /\ Ack(p, m).payload.vector_clock = m.vector_clock
    BY <2>3 DEF Ack, Payload
  <2> HIDE DEF m
  <2> QED
    BY <2>2, <2>4, <2>5, <2>6, MovesClocks DEF IsPacket
<1>2. CASE SkipSeen(p, t) \/ RelayUnseen(p, t) \/ BestEffortBroadcast(p, t)
  <2> DEFINE m == payload[p][t]
  <2>1. pc[p][t] \in {"check", "send"} /\ enqueued_messages' = enqueued_messages
    BY <1>2 DEF SkipSeen, RelayUnseen, BestEffortBroadcast
  <2>2. m \in Carried
    BY <2>1, CarriedIs
  <2>3. m \in Payload
    BY <2>2, CarriedType
  <2>4. CASE SkipSeen(p, t)
    <3>1. Moves(p, t, "idle", NoPayload) /\ net' = net
      BY <2>4 DEF SkipSeen, Finish, Moves
    <3> HIDE DEF m
    <3> QED
      BY <2>1, <2>2, <3>1, MovesClocks
  <2>5. CASE RelayUnseen(p, t)
    <3> DEFINE h == [m EXCEPT !.sender_id = p]
    <3>1. Moves(p, t, "mark", h) /\ net' = net
      BY <2>5 DEF RelayUnseen, Moves
    <3>2. h.owner_id = m.owner_id /\ h.packet_uid = m.packet_uid /\ h.vector_clock = m.vector_clock
      BY <2>3 DEF Payload
    <3> HIDE DEF h
    <3> QED
      BY <2>1, <2>2, <3>1, <3>2, MovesClocks DEF IsPacket
  <2>6. CASE BestEffortBroadcast(p, t)
    <3>1. Moves(p, t, "idle", NoPayload) /\ net' = net \cup Copies(p, m)
      BY <2>6 DEF BestEffortBroadcast, Finish, Moves
    <3>2. \A k \in Copies(p, m) : k.payload = m
      BY DEF Copies
    <3> HIDE DEF m
    <3> QED
      BY <2>1, <2>2, <3>1, <3>2, MovesClocks DEF IsPacket
  <2> QED
    BY <1>2, <2>4, <2>5, <2>6
<1> QED
  BY <1>1, <1>2

\* A packet just started is new to everybody; its owner has delivered at most
\* the earlier ones.
LEMMA ConstructBeginClocks ==
  ASSUME Inv, OneClock, OwnClock, Copying, GrowingClocks, NEW p \in Proc, ConstructBegin(p)
  PROVE  (OneClock /\ OwnClock /\ Copying /\ GrowingClocks)'
<1> DEFINE v == enqueued_messages[p] + 1
           m == [sender_id |-> p, owner_id |-> p, packet_uid |-> v,
                 vector_clock |-> vector_clock[p], is_ack |-> FALSE]
<1>1. TypeOK
  BY DEF Inv
<1>2. /\ Moves(p, "enqueuer", "copy", m)
      /\ net' = net
      /\ pc[p]["enqueuer"] = "idle"
      /\ enqueued_messages' = [enqueued_messages EXCEPT ![p] = @ + 1]
      /\ acked' = acked
      /\ received_up_to' = received_up_to
  BY DEF ConstructBegin, Moves, setVars
<1>3. m.packet_uid = v
  OBVIOUS
<1> HIDE DEF m
<1>4. \A q \in Proc, r \in Thread :
        /\ pc'[q][r] = IF q = p /\ r = "enqueuer" THEN "copy" ELSE pc[q][r]
        /\ payload'[q][r] = IF q = p /\ r = "enqueuer" THEN m ELSE payload[q][r]
  BY <1>1, <1>2, MovesEffect DEF Thread
<1>5. \A h : h \in Carried' <=> h \in Carried
  BY <1>2, <1>4, CarriedIs, CarriedIsNext
<1>6. \A q \in Proc : /\ enqueued_messages[q] \in 0..MaxMsgs
                      /\ enqueued_messages'[q] = IF q = p THEN v ELSE enqueued_messages[q]
  BY <1>1, <1>2 DEF TypeOK
<1>7. OneClock' /\ OwnClock'
  BY <1>5 DEF OneClock, OwnClock, IsPacket
<1>8. /\ \A h \in Carried : ~IsPacket(h, p, v)
      /\ \A q, s \in Proc : v \notin acked[q][s][p]
  BY <1>6, CarriedType, AckedWasSent DEF IsPacket
<1>9. received_up_to[p][p] <= v
  <2> DEFINE u == received_up_to[p][p] - 1
  <2>1. received_up_to[p][p] \in 1..(MaxMsgs + 1)
    BY <1>1 DEF TypeOK, PacketID
  <2>2. CASE received_up_to[p][p] = 1
    BY <1>6, <2>2
  <2>3. CASE received_up_to[p][p] # 1
    <3>1. u \in Uid /\ u \in 1..(received_up_to[p][p] - 1)
      BY <2>1, <2>3, CountAssumption DEF Uid
    <3>2. Cardinality(Holders(p, u)) > N \div 2
      BY <3>1 DEF Inv, DeliveredHeld
    <3>3. Holders(p, u) # {}
      <4>1. N \div 2 \in Nat
        BY NAssumption
      <4>2. Cardinality({}) = 0
        BY FS_EmptySet
      <4> HIDE DEF u
      <4> QED
        BY <3>2, <4>1, <4>2
    <3>4. u <= enqueued_messages[p]
      BY <3>1, <3>3 DEF Holders, Inv, HeldWasSent
    <3> QED
      BY <1>6, <2>1, <3>4
  <2> QED
    BY <2>2, <2>3
<1>10. Copying'
  <2> SUFFICES ASSUME NEW q \in Proc, pc'[q]["enqueuer"] = "copy"
               PROVE  /\ payload'[q]["enqueuer"].packet_uid = enqueued_messages'[q]
                      /\ \A h \in Carried' : ~IsPacket(h, q, enqueued_messages'[q])
                      /\ \A r, s \in Proc : enqueued_messages'[q] \notin acked'[r][s][q]
                      /\ received_up_to'[q][q] <= enqueued_messages'[q]
    BY DEF Copying, IsPacket
  <2>1. CASE q = p
    BY <1>2, <1>3, <1>4, <1>5, <1>6, <1>8, <1>9, <2>1 DEF Thread
  <2>2. CASE q # p
    <3>1. pc[q]["enqueuer"] = "copy" /\ payload'[q]["enqueuer"] = payload[q]["enqueuer"]
      BY <1>4, <2>2 DEF Thread
    <3> QED
      BY <1>2, <1>5, <1>6, <2>2, <3>1 DEF Copying
  <2> QED
    BY <2>1, <2>2
<1>11. GrowingClocks'
  <2>1. vector_clock' = vector_clock /\ m.vector_clock = vector_clock[p]
    BY DEF ConstructBegin, setVars, m
  <2>2. NotAfter(vector_clock[p], vector_clock[p])
    <3>1. \A q \in Proc : vector_clock[p][q] \in 0..MaxMsgs
      BY <1>1 DEF TypeOK, Clock
    <3>2. \A q \in Proc : vector_clock[p][q] <= vector_clock[p][q]
      BY <3>1, CountAssumption
    <3> QED
      BY <3>2 DEF NotAfter
  <2>3. \A h \in Carried : h.owner_id = p => NotAfter(h.vector_clock, vector_clock[p])
    BY DEF GrowingClocks
  <2>4. \A q \in Proc \ {p} : /\ pc'[q]["enqueuer"] = pc[q]["enqueuer"]
                               /\ payload'[q]["enqueuer"] = payload[q]["enqueuer"]
    BY <1>4 DEF Thread
  <2>5. payload'[p]["enqueuer"] = m
    BY <1>4 DEF Thread
  <2> QED
    BY <1>5, <2>1, <2>2, <2>3, <2>4, <2>5 DEF GrowingClocks, NotAfter
<1> QED
  BY <1>7, <1>10, <1>11

\* The clock copied is at most what the owner has delivered; from now on the
\* packet is carried, with this clock.
LEMMA ConstructEndClocks ==
  ASSUME Inv, OneClock, OwnClock, Copying, GrowingClocks, NEW p \in Proc, ConstructEnd(p)
  PROVE  (OneClock /\ OwnClock /\ Copying /\ GrowingClocks)'
<1> DEFINE old == payload[p]["enqueuer"]
           v   == enqueued_messages[p]
<1>1. TypeOK
  BY DEF Inv
<1>2. pc[p]["enqueuer"] = "copy" /\ UNCHANGED <<net, enqueued_messages, acked, received_up_to>>
  BY DEF ConstructEnd, setVars
<1>3. PICK c \in Clock : /\ NotAfter(old.vector_clock, c) /\ NotAfter(c, vector_clock[p])
                         /\ payload' = [payload EXCEPT ![p]["enqueuer"].vector_clock = c]
  BY DEF ConstructEnd, Copied
<1> DEFINE m == [old EXCEPT !.vector_clock = c]
<1>4. Moves(p, "enqueuer", "check", m)
  BY <1>3 DEF ConstructEnd, Moves
<1>5. old \in Payload /\ old.owner_id = p
  <2>1. old \in Payload
    BY <1>1, <1>2, PayloadInHand DEF Thread
  <2>2. old.owner_id = p
    BY <1>2 DEF Inv, ThreadWork, Thread
  <2> QED
    BY <2>1, <2>2
<1>6. /\ old.packet_uid = v
      /\ \A h \in Carried : ~IsPacket(h, p, v)
      /\ received_up_to[p][p] <= v
  BY <1>2 DEF Copying
<1>7. m.owner_id = p /\ m.packet_uid = v /\ m.vector_clock = c
  BY <1>5, <1>6 DEF Payload
<1> HIDE DEF m
<1>8. \A q \in Proc, r \in Thread :
        /\ pc'[q][r] = IF q = p /\ r = "enqueuer" THEN "check" ELSE pc[q][r]
        /\ payload'[q][r] = IF q = p /\ r = "enqueuer" THEN m ELSE payload[q][r]
  BY <1>1, <1>4, MovesEffect DEF Thread
<1>9. \A h \in Carried' : h \in Carried \/ h = m
  BY <1>2, <1>8, CarriedIs, CarriedIsNext
<1>10. c[p] < v
  <2>1. vector_clock[p][p] = received_up_to[p][p] - 1
    BY DEF Inv, ClockCounts
  <2>2. received_up_to[p][p] \in 1..(MaxMsgs + 1) /\ v \in 0..MaxMsgs /\ c[p] \in 0..MaxMsgs
    BY <1>1 DEF TypeOK, PacketID, Clock
  <2> QED
    BY <1>3, <1>6, <2>1, <2>2, CountAssumption DEF NotAfter
<1>11. OneClock'
  <2> SUFFICES ASSUME NEW h \in Carried', NEW g \in Carried',
                      IsPacket(h, g.owner_id, g.packet_uid)
               PROVE  h.vector_clock = g.vector_clock
    BY DEF OneClock, IsPacket
  <2>1. CASE h \in Carried /\ g \in Carried
    BY <2>1 DEF OneClock
  <2>2. CASE h = m \/ g = m
    BY <1>6, <1>7, <1>9, <2>2 DEF IsPacket
  <2> QED
    BY <1>9, <2>1, <2>2
<1>12. OwnClock'
  BY <1>7, <1>9, <1>10 DEF OwnClock
<1>13. Copying'
  <2> SUFFICES ASSUME NEW q \in Proc, pc'[q]["enqueuer"] = "copy"
               PROVE  /\ payload'[q]["enqueuer"].packet_uid = enqueued_messages'[q]
                      /\ \A h \in Carried' : ~IsPacket(h, q, enqueued_messages'[q])
                      /\ \A r, s \in Proc : enqueued_messages'[q] \notin acked'[r][s][q]
                      /\ received_up_to'[q][q] <= enqueued_messages'[q]
    BY DEF Copying, IsPacket
  <2>1. q # p
    BY <1>8 DEF Thread
  <2>2. pc[q]["enqueuer"] = "copy" /\ payload'[q]["enqueuer"] = payload[q]["enqueuer"]
    BY <1>8, <2>1 DEF Thread
  <2>3. \A h \in Carried' : ~IsPacket(h, q, enqueued_messages[q])
    BY <1>7, <1>9, <2>1, <2>2 DEF Copying, IsPacket
  <2> QED
    BY <1>2, <2>2, <2>3 DEF Copying
<1>14. GrowingClocks'
  <2>1. vector_clock' = vector_clock /\ vector_clock[p] \in Clock /\ old.vector_clock \in Clock
    BY <1>1, <1>5 DEF ConstructEnd, setVars, TypeOK, Payload
  <2>2. /\ NotAfter(old.vector_clock, vector_clock[p])
        /\ \A h \in Carried : h.owner_id = p => NotAfter(h.vector_clock, old.vector_clock)
    BY <1>2 DEF GrowingClocks
  <2>3. \A h \in Carried : h.owner_id = p => NotAfter(h.vector_clock, c)
    <3> SUFFICES ASSUME NEW h \in Carried, h.owner_id = p
                 PROVE  NotAfter(h.vector_clock, c)
      OBVIOUS
    <3>1. h.vector_clock \in Clock
      BY CarriedType
    <3> QED
      BY <1>3, <2>1, <2>2, <3>1, NotAfterTransitive
  <2>4. \A h \in Carried : h.owner_id = p => ~(v <= h.packet_uid)
    <3> SUFFICES ASSUME NEW h \in Carried, h.owner_id = p
                 PROVE  ~(v <= h.packet_uid)
      OBVIOUS
    <3>1. h.packet_uid \in Uid /\ h.packet_uid <= v /\ v \in 0..MaxMsgs
      BY <1>1, CarriedType DEF TypeOK
    <3>2. h.packet_uid # v
      BY <1>6 DEF IsPacket
    <3> QED
      BY <3>1, <3>2, CountAssumption DEF Uid
  <2>5. NotAfter(c, c)
    <3>1. \A q \in Proc : c[q] \in 0..MaxMsgs
      BY DEF Clock
    <3>2. \A q \in Proc : c[q] <= c[q]
      BY <3>1, CountAssumption
    <3> QED
      BY <3>2 DEF NotAfter
  <2>6. \A h \in Carried' : NotAfter(h.vector_clock, vector_clock[h.owner_id])
    BY <1>3, <1>7, <1>9 DEF GrowingClocks
  <2>7. ASSUME NEW h \in Carried', NEW g \in Carried',
               h.owner_id = g.owner_id, h.packet_uid <= g.packet_uid
        PROVE  NotAfter(h.vector_clock, g.vector_clock)
    <3>1. CASE h \in Carried /\ g \in Carried
      BY <2>7, <3>1 DEF GrowingClocks
    <3>2. CASE g = m
      BY <1>7, <1>9, <2>3, <2>5, <2>7, <3>2
    <3>3. CASE h = m /\ g \in Carried
      BY <1>7, <2>4, <2>7, <3>3
    <3> QED
      BY <1>9, <3>1, <3>2, <3>3
  <2>8. ASSUME NEW q \in Proc, pc'[q]["enqueuer"] = "copy"
        PROVE  /\ NotAfter(payload'[q]["enqueuer"].vector_clock, vector_clock[q])
               /\ \A h \in Carried' : h.owner_id = q =>
                    NotAfter(h.vector_clock, payload'[q]["enqueuer"].vector_clock)
    <3>1. q # p
      BY <1>8, <2>8 DEF Thread
    <3>2. pc[q]["enqueuer"] = "copy" /\ payload'[q]["enqueuer"] = payload[q]["enqueuer"]
      BY <1>8, <2>8, <3>1 DEF Thread
    <3>3. \A h \in Carried' : h.owner_id = q => h \in Carried
      BY <1>7, <1>9, <3>1
    <3> QED
      BY <3>2, <3>3 DEF GrowingClocks
  <2> QED
    BY <2>1, <2>6, <2>7, <2>8 DEF GrowingClocks, NotAfter
<1> QED
  BY <1>11, <1>12, <1>13, <1>14

----------------------------------------------------------------------------
(* The end of insert's loop. *)

\* The loop delivers the next packet of o only when it is at a majority, and
\* whenever it is, as far as the counter is concerned.
LEMMA WaitingIsCounted ==
  ASSUME Inv, NEW p \in Proc, NEW o \in Proc
  PROVE  NextIsWaiting(p, o) <=> ~CanUrbDeliver(p, o, received_up_to[p][o])
<1> DEFINE u == received_up_to[p][o]
           K == {s \in Proc : u \in acked[p][s][o]}
<1>1. TypeOK /\ NoExtraCount /\ CounterMatchesAcks
  BY DEF Inv
<1>2. u \in 1..(MaxMsgs + 1) /\ acked_counter[p][o][u] \in 0..N
  <2>1. u \in PacketID /\ acked_counter[p][o][u] \in 0..N
    BY <1>1 DEF TypeOK
  <2> QED
    BY <2>1 DEF PacketID
<1>3. N \div 2 \in Nat
  BY NAssumption
<1>4. CASE u \in Uid
  <2>1. acked_counter[p][o][u] = Cardinality(K)
    <3>1. u >= received_up_to[p][o]
      BY <1>2
    <3> QED
      BY <1>1, <1>4, <3>1 DEF CounterMatchesAcks
  <2>2. CanUrbDeliver(p, o, u) <=> acked_counter[p][o][u] > N \div 2
    BY <1>2 DEF CanUrbDeliver
  <2>3. NextIsWaiting(p, o) <=> Cardinality(K) <= N \div 2
    BY DEF NextIsWaiting
  <2> HIDE DEF u, K
  <2> QED
    BY <1>2, <1>3, <2>1, <2>2, <2>3 DEF u
<1>5. CASE u \notin Uid
  <2>1. u = MaxMsgs + 1
    BY <1>2, <1>5, CountAssumption DEF Uid
  <2>2. acked_counter[p][o][u] = 0
    BY <1>1, <2>1 DEF NoExtraCount
  <2>3. ~CanUrbDeliver(p, o, u)
    BY <1>2, <1>3, <2>2, CountAssumption DEF CanUrbDeliver
  <2>4. K = {}
    BY <1>1, <1>5, AckedUid
  <2>5. NextIsWaiting(p, o)
    <3>1. Cardinality({}) = 0
      BY FS_EmptySet
    <3>2. NextIsWaiting(p, o) <=> Cardinality(K) <= N \div 2
      BY DEF NextIsWaiting
    <3> HIDE DEF K
    <3> QED
      BY <1>3, <2>4, <3>1, <3>2
  <2> QED
    BY <2>3, <2>5
<1> QED
  BY <1>4, <1>5

\* What waits goes on waiting when neither received_up_to nor the packets'
\* being acknowledged changes.
LEMMA WaitingKeeps ==
  ASSUME NEW p \in Proc, NEW o \in Proc,
         received_up_to'[p][o] = received_up_to[p][o],
         \A s \in Proc :
           received_up_to[p][o] \in acked'[p][s][o] <=> received_up_to[p][o] \in acked[p][s][o]
  PROVE  NextIsWaiting(p, o)' <=> NextIsWaiting(p, o)
<1> DEFINE K == {s \in Proc : received_up_to[p][o] \in acked[p][s][o]}
           L == {s \in Proc : received_up_to'[p][o] \in acked'[p][s][o]}
<1>1. L = K
  OBVIOUS
<1>2. NextIsWaiting(p, o) <=> Cardinality(K) <= N \div 2
  BY DEF NextIsWaiting
<1>3. NextIsWaiting(p, o)' <=> Cardinality(L) <= N \div 2
  BY DEF NextIsWaiting
<1> HIDE DEF K, L
<1> QED
  BY <1>1, <1>2, <1>3

\* Thread t of p is in a loop that has still to look at packets of o.
AtWork(p, t, o) ==
  /\ mtx[p] = t
  /\ payload[p][t].owner_id = o
  /\ payload[p][t].packet_uid <= received_up_to[p][o]
  /\ cursor[p] \in DOMAIN causality[o]

\* A step that leaves the DeliveredSets, the mutexes and the threads inside
\* insert alone.
LEMMA OutsideLoop ==
  ASSUME Inv, LoopUnfinished, UNCHANGED <<acked, received_up_to, mtx, cursor>>,
         \A p \in Proc, t \in Thread :
           pc[p][t] \in {"inserting", "marking"} => payload'[p][t] = payload[p][t]
  PROVE  LoopUnfinished'
<1> SUFFICES ASSUME NEW p \in Proc, NEW o \in Proc, Dependencies(o) = {o}
             PROVE  NextIsWaiting(p, o)' \/ \E t \in Thread : AtWork(p, t, o)'
  BY DEF LoopUnfinished, AtWork, Dependencies
<1>1. NextIsWaiting(p, o)' <=> NextIsWaiting(p, o)
  BY WaitingKeeps
<1>2. ASSUME NEW t \in Thread, AtWork(p, t, o)
      PROVE  AtWork(p, t, o)'
  <2>1. payload'[p][t] = payload[p][t]
    BY <1>2 DEF AtWork, Inv, MutexOwner
  <2> QED
    BY <1>2, <2>1 DEF AtWork
<1>3. NextIsWaiting(p, o) \/ \E t \in Thread : AtWork(p, t, o)
  BY DEF LoopUnfinished, AtWork
<1> QED
  BY <1>1, <1>2, <1>3

\* insert records a packet: if it is the next one its loop begins, otherwise
\* nothing changes for the next one.
LEMMA InsertLoop ==
  ASSUME Inv, LoopUnfinished, NEW p \in Proc, NEW t \in Thread, Insert(p, t)
  PROVE  LoopUnfinished'
<1>1. TypeOK
  BY DEF Inv
<1>2. PICK s \in Proc, x \in Proc, u \in Uid : InHand(p, t, s, x, u)
  BY <1>1, PayloadInHand DEF Insert, InHand
<1>3. payload[p][t].owner_id = x /\ payload[p][t].packet_uid = u
  BY <1>2 DEF InHand
<1>4. /\ mtx[p] = "free"
      /\ mtx' = [mtx EXCEPT ![p] = t]
      /\ cursor' = [cursor EXCEPT ![p] =
           IF u = received_up_to[p][x] THEN 1 ELSE Len(causality[x]) + 1]
      /\ UNCHANGED <<received_up_to, payload>>
  BY <1>3 DEF Insert
<1>5. \A q, r, y \in Proc : \A v :
        v \in acked'[q][r][y] <=>
          v \in acked[q][r][y] \/ (q = p /\ r = s /\ y = x /\ v = u)
  BY <1>1, <1>2, InsertEffect
<1>6. \A q \in Proc :
        /\ mtx'[q] = IF q = p THEN t ELSE mtx[q]
        /\ q # p => cursor'[q] = cursor[q]
  BY <1>1, <1>4 DEF TypeOK
<1> SUFFICES ASSUME NEW q \in Proc, NEW o \in Proc, Dependencies(o) = {o}
             PROVE  NextIsWaiting(q, o)' \/ \E r \in Thread : AtWork(q, r, o)'
  BY DEF LoopUnfinished, AtWork, Dependencies
<1>7. NextIsWaiting(q, o) \/ \E r \in Thread : AtWork(q, r, o)
  BY DEF LoopUnfinished, AtWork
<1>8. CASE q # p
  <2>1. NextIsWaiting(q, o)' <=> NextIsWaiting(q, o)
    BY <1>4, <1>5, <1>8, WaitingKeeps
  <2>2. \A r \in Thread : AtWork(q, r, o) => AtWork(q, r, o)'
    BY <1>4, <1>6, <1>8 DEF AtWork
  <2> QED
    BY <1>7, <2>1, <2>2
<1>9. CASE q = p /\ o = x /\ u = received_up_to[p][x]
  <2>1. cursor'[p] = 1
    BY <1>1, <1>4, <1>9 DEF TypeOK
  <2>2. causality[o] \in Seq(Proc)
    BY CausalityAssumption DEF Proc
  <2>3. 1 \in DOMAIN causality[o]
    <3>1. DOMAIN causality[o] = 1..Len(causality[o]) /\ Len(causality[o]) \in Nat
      BY <2>2
    <3>2. DOMAIN causality[o] # {}
      BY DEF Dependencies
    <3> QED
      BY <3>1, <3>2
  <2>4. u <= received_up_to'[p][o]
    BY <1>4, <1>9 DEF Uid
  <2>5. AtWork(p, t, o)'
    BY <1>3, <1>4, <1>6, <1>9, <2>1, <2>3, <2>4 DEF AtWork
  <2> QED
    BY <1>9, <2>5
<1>10. CASE q = p /\ ~(o = x /\ u = received_up_to[p][x])
  <2>1. NextIsWaiting(p, o)' <=> NextIsWaiting(p, o)
    BY <1>4, <1>5, <1>10, WaitingKeeps
  <2>2. \A r \in Thread : ~AtWork(p, r, o)
    BY <1>4 DEF AtWork, Thread
  <2> QED
    BY <1>7, <1>10, <2>1, <2>2
<1> QED
  BY <1>8, <1>9, <1>10

\* The loop delivers a packet: of an owner that nobody else affects only in a
\* loop that one of its own packets started.
LEMMA DeliverLoop ==
  ASSUME Inv, LoopUnfinished, NEW p \in Proc, NEW t \in Thread, Deliver(p, t)
  PROVE  LoopUnfinished'
<1> DEFINE m == payload[p][t]
<1>1. TypeOK /\ MutexOwner
  BY DEF Inv
<1>2. mtx[p] = t
  BY <1>1 DEF MutexOwner, Deliver
<1>3. m.owner_id \in Proc
  BY <1>1, PayloadInHand DEF Deliver
<1>4. causality[m.owner_id] \in Seq(Proc)
  BY <1>3, CausalityAssumption DEF Proc
<1>5. PICK i \in Remaining(p, t) :
        /\ CanDeliverAt(p, t, i)
        /\ received_up_to' = [received_up_to EXCEPT ![p][Affected(p, t, i)] = @ + 1]
        /\ cursor' = [cursor EXCEPT ![p] = i]
  BY DEF Deliver
<1> DEFINE a == Affected(p, t, i)
<1>6. cursor[p] \in Nat \ {0}
  BY <1>1 DEF TypeOK
<1>7. i \in 1..Len(causality[m.owner_id])
  BY <1>4, <1>5, <1>6 DEF Remaining
<1>8. a \in Proc /\ a \in Dependencies(m.owner_id)
  <2>1. i \in DOMAIN causality[m.owner_id]
    BY <1>4, <1>7
  <2> QED
    BY <1>4, <2>1 DEF Affected, Dependencies
<1>9. CanUrbDeliver(p, a, received_up_to[p][a])
  BY <1>5 DEF CanDeliverAt, CanLcbDeliver
<1>10. ~NextIsWaiting(p, a)
  BY <1>8, <1>9, WaitingIsCounted
<1> HIDE DEF a
<1>11. /\ UNCHANGED <<acked, mtx, payload>>
       /\ \A q \in Proc : q # p => cursor'[q] = cursor[q]
       /\ cursor'[p] = i
  BY <1>1, <1>5 DEF Deliver, TypeOK
<1>12. \A q, x \in Proc :
         received_up_to'[q][x] = IF q = p /\ x = a THEN received_up_to[q][x] + 1
                                                    ELSE received_up_to[q][x]
  BY <1>1, <1>5, <1>8 DEF TypeOK, a
<1>13. \A q, x \in Proc : /\ received_up_to[q][x] \in Nat
                          /\ received_up_to'[q][x] \in Nat
                          /\ received_up_to'[q][x] >= received_up_to[q][x]
  <2>1. \A q, x \in Proc : received_up_to[q][x] \in 1..(MaxMsgs + 1)
    BY <1>1 DEF TypeOK, PacketID
  <2> QED
    BY <1>12, <2>1, CountAssumption
<1> SUFFICES ASSUME NEW q \in Proc, NEW o \in Proc, Dependencies(o) = {o}
             PROVE  NextIsWaiting(q, o)' \/ \E r \in Thread : AtWork(q, r, o)'
  BY DEF LoopUnfinished, AtWork, Dependencies
<1>14. NextIsWaiting(q, o) \/ \E r \in Thread : AtWork(q, r, o)
  BY DEF LoopUnfinished, AtWork
<1>15. CASE ~(q = p /\ o = a) /\ NextIsWaiting(q, o)
  BY <1>11, <1>12, <1>15, WaitingKeeps
<1>16. ASSUME NEW r \in Thread, AtWork(q, r, o)
       PROVE  AtWork(q, r, o)'
  <2>1. payload[q][r].packet_uid <= received_up_to'[q][o]
    <3>1. pc[q][r] # "idle"
      BY <1>1, <1>16 DEF AtWork, MutexOwner
    <3>2. payload[q][r].packet_uid \in Uid
      BY <1>1, <3>1, PayloadInHand
    <3> QED
      BY <1>13, <1>16, <3>2 DEF AtWork, Uid
  <2>2. cursor'[q] \in DOMAIN causality[o]
    <3>1. CASE q # p
      BY <1>11, <1>16, <3>1 DEF AtWork
    <3>2. CASE q = p
      <4>1. r = t /\ m.owner_id = o
        BY <1>2, <1>16, <3>2 DEF AtWork
      <4> QED
        BY <1>4, <1>7, <1>11, <3>2, <4>1
    <3> QED
      BY <3>1, <3>2
  <2> QED
    BY <1>11, <1>16, <2>1, <2>2 DEF AtWork
<1> QED
  BY <1>10, <1>14, <1>15, <1>16

\* insert returns: its loop has looked at all nodes, and the clock it compares
\* with never keeps it from a packet of an owner that nobody else affects.
LEMMA ReturnLoop ==
  ASSUME Inv, OwnClock, LoopUnfinished, NEW p \in Proc, NEW t \in Thread, InsertReturn(p, t)
  PROVE  LoopUnfinished'
<1> DEFINE m == payload[p][t]
<1>1. TypeOK /\ MutexOwner /\ ClockCounts
  BY DEF Inv
<1>2. /\ pc[p][t] \in {"inserting", "marking"}
      /\ \A i \in Remaining(p, t) : ~CanDeliverAt(p, t, i)
      /\ mtx' = [mtx EXCEPT ![p] = "free"]
      /\ UNCHANGED <<acked, received_up_to, cursor, payload>>
  BY DEF InsertReturn, setVars
<1>3. mtx[p] = t /\ m \in Carried
  BY <1>1, <1>2, CarriedIs DEF MutexOwner
<1>4. \A q \in Proc : q # p => mtx'[q] = mtx[q]
  BY <1>1, <1>2 DEF TypeOK
<1> SUFFICES ASSUME NEW q \in Proc, NEW o \in Proc, Dependencies(o) = {o}
             PROVE  NextIsWaiting(q, o)' \/ \E r \in Thread : AtWork(q, r, o)'
  BY DEF LoopUnfinished, AtWork, Dependencies
<1>5. NextIsWaiting(q, o) \/ \E r \in Thread : AtWork(q, r, o)
  BY DEF LoopUnfinished, AtWork
<1>6. NextIsWaiting(q, o)' <=> NextIsWaiting(q, o)
  BY <1>2, WaitingKeeps
<1>7. ASSUME NEW r \in Thread, AtWork(q, r, o), q # p
      PROVE  AtWork(q, r, o)'
  BY <1>2, <1>4, <1>7 DEF AtWork
<1>8. ASSUME NEW r \in Thread, AtWork(q, r, o), q = p
      PROVE  NextIsWaiting(q, o)
  <2>1. /\ m.owner_id = o
        /\ m.packet_uid <= received_up_to[p][o]
        /\ cursor[p] \in DOMAIN causality[o]
    BY <1>3, <1>8 DEF AtWork
  <2>2. causality[o] \in Seq(Proc)
    BY CausalityAssumption DEF Proc
  <2>3. cursor[p] \in Remaining(p, t)
    BY <2>1, <2>2 DEF Remaining
  <2>4. Affected(p, t, cursor[p]) = o
    <3>1. causality[o][cursor[p]] \in Dependencies(o)
      BY <2>1 DEF Dependencies
    <3> QED
      BY <2>1, <3>1 DEF Affected
  <2>5. ~CanLcbDeliver(p, m.vector_clock, o)
    BY <1>2, <2>3, <2>4 DEF CanDeliverAt
  <2>6. vector_clock[p][o] >= m.vector_clock[o]
    <3>1. m.vector_clock[o] < m.packet_uid
      BY <1>3, <2>1 DEF OwnClock
    <3>2. vector_clock[p][o] = received_up_to[p][o] - 1
      BY <1>1 DEF ClockCounts
    <3>3. /\ m.packet_uid \in Uid
          /\ m.vector_clock[o] \in 0..MaxMsgs
          /\ received_up_to[p][o] \in 1..(MaxMsgs + 1)
      BY <1>1, <1>3, CarriedType DEF TypeOK, PacketID, Clock
    <3> QED
      BY <2>1, <3>1, <3>2, <3>3, CountAssumption DEF Uid
  <2>7. ~CanUrbDeliver(p, o, received_up_to[p][o])
    BY <2>5, <2>6 DEF CanLcbDeliver
  <2> QED
    BY <1>8, <2>7, WaitingIsCounted
<1> QED
  BY <1>5, <1>6, <1>7, <1>8

----------------------------------------------------------------------------
\* A thread outside insert leaves the payloads of those inside alone.
LEMMA InsertersKeep ==
  ASSUME TypeOK, NEW p \in Proc, NEW t \in Thread, NEW m,
         payload' = [payload EXCEPT ![p][t] = m], pc[p][t] \notin {"inserting", "marking"}
  PROVE  \A q \in Proc, r \in Thread :
           pc[q][r] \in {"inserting", "marking"} => payload'[q][r] = payload[q][r]
BY DEF TypeOK

\* Every step of either thread of any process keeps ClockInv.
LEMMA NextClockInv ==
  ASSUME Inv, ClockInv, [Next]_vars
  PROVE  ClockInv'
<1>1. Inv'
  BY NextInv
<1>2. OneClock /\ OwnClock /\ Copying /\ GrowingClocks /\ LoopUnfinished
  BY DEF ClockInv
<1>3. CASE UNCHANGED vars
  <2>1. UNCHANGED <<acked, received_up_to, mtx, cursor, pc, payload, enqueued_messages, net>>
    BY <1>3 DEF vars, setVars
  <2>2. \A h \in Carried' : h \in Carried
    BY <2>1, CarriedIs, CarriedIsNext
  <2>3. \A h \in Carried' : \E g \in Carried :
          IsPacket(g, h.owner_id, h.packet_uid) /\ g.vector_clock = h.vector_clock
    BY <2>2 DEF IsPacket
  <2>4. (OneClock /\ OwnClock /\ Copying /\ GrowingClocks)'
    BY <1>1, <1>2, <2>1, <2>3, NumberedUpTo, ClocksKeep
  <2>5. LoopUnfinished'
    BY <1>2, <2>1, OutsideLoop
  <2> QED
    BY <2>4, <2>5 DEF ClockInv
<1>4. CASE Next
  <2>1. PICK p \in Proc : \/ \E k \in net : Receive(p, k.payload)
                          \/ ConstructBegin(p)
                          \/ ConstructEnd(p)
                          \/ \E t \in Thread : ThreadStep(p, t)
    BY <1>4 DEF Next
  <2>2. CASE \E k \in net : Receive(p, k.payload)
    <3>1. (OneClock /\ OwnClock /\ Copying /\ GrowingClocks)'
      BY <1>1, <1>2, <2>2, PassOnClocks DEF Thread
    <3>2. PICK k \in net : Receive(p, k.payload)
      BY <2>2
    <3>3. Moves(p, "receiver", "insert", k.payload) /\ pc[p]["receiver"] = "idle"
      BY <3>2 DEF Receive, Moves
    <3>4. LoopUnfinished'
      <4>1. \A q \in Proc, r \in Thread :
              payload'[q][r] = IF q = p /\ r = "receiver" THEN k.payload ELSE payload[q][r]
        BY <3>3, MovesEffect DEF Inv, Thread
      <4> QED
        BY <1>2, <3>3, <4>1, OutsideLoop DEF Moves, setVars
    <3> QED
      BY <3>1, <3>4 DEF ClockInv
  <2>3. CASE ConstructBegin(p) \/ ConstructEnd(p)
    <3>1. (OneClock /\ OwnClock /\ Copying /\ GrowingClocks)'
      BY <1>2, <2>3, ConstructBeginClocks, ConstructEndClocks
    <3>2. LoopUnfinished'
      <4>1. \A q \in Proc, r \in Thread :
              pc[q][r] \in {"inserting", "marking"} => payload'[q][r] = payload[q][r]
        <5>1. PICK m : payload' = [payload EXCEPT ![p]["enqueuer"] = m]
          BY <2>3 DEF ConstructBegin, ConstructEnd
        <5>2. TypeOK /\ pc[p]["enqueuer"] \notin {"inserting", "marking"}
          BY <2>3 DEF Inv, ConstructBegin, ConstructEnd
        <5> QED
          BY <5>1, <5>2, InsertersKeep DEF Thread
      <4> QED
        BY <1>2, <2>3, <4>1, OutsideLoop DEF ConstructBegin, ConstructEnd, setVars
    <3> QED
      BY <3>1, <3>2 DEF ClockInv
  <2>4. ASSUME NEW t \in Thread, ThreadStep(p, t)
        PROVE  ClockInv'
    <3>1. CASE Insert(p, t) \/ Deliver(p, t) \/ InsertReturn(p, t)
      <4>1. (OneClock /\ OwnClock /\ Copying /\ GrowingClocks)'
        BY <1>1, <1>2, <3>1, InsertClocks
      <4>2. LoopUnfinished'
        BY <1>2, <3>1, InsertLoop, DeliverLoop, ReturnLoop
      <4> QED
        BY <4>1, <4>2 DEF ClockInv
    <3>2. CASE SkipSeen(p, t) \/ RelayUnseen(p, t) \/ BestEffortBroadcast(p, t)
      <4>1. (OneClock /\ OwnClock /\ Copying /\ GrowingClocks)'
        BY <1>1, <1>2, <3>2, PassOnClocks
      <4>2. \A q \in Proc, r \in Thread :
              pc[q][r] \in {"inserting", "marking"} => payload'[q][r] = payload[q][r]
        <5>1. PICK m : payload' = [payload EXCEPT ![p][t] = m]
          BY <3>2 DEF SkipSeen, RelayUnseen, BestEffortBroadcast, Finish
        <5>2. TypeOK /\ pc[p][t] \notin {"inserting", "marking"}
          BY <3>2 DEF Inv, SkipSeen, RelayUnseen, BestEffortBroadcast
        <5> QED
          BY <5>1, <5>2, InsertersKeep
      <4>3. LoopUnfinished'
        BY <1>2, <3>2, <4>2, OutsideLoop
           DEF SkipSeen, RelayUnseen, BestEffortBroadcast, setVars
      <4> QED
        BY <4>1, <4>3 DEF ClockInv
    <3> QED
      BY <2>4, <3>1, <3>2 DEF ThreadStep
  <2> QED
    BY <2>1, <2>2, <2>3, <2>4
<1> QED
  BY <1>3, <1>4

\* Initially nothing is carried and nobody has acknowledged anything.
LEMMA InitClockInv ==
  ASSUME Init
  PROVE  ClockInv
<1>1. \A h : h \notin Carried
  BY CarriedIs DEF Init
<1>2. OneClock /\ OwnClock
  BY <1>1 DEF OneClock, OwnClock
<1>3. Copying
  BY DEF Copying, Init, Thread
<1>4. GrowingClocks
  BY <1>1 DEF GrowingClocks, Init, Thread
<1>5. LoopUnfinished
  <2> SUFFICES ASSUME NEW p \in Proc, NEW o \in Proc
               PROVE  NextIsWaiting(p, o)
    BY DEF LoopUnfinished
  <2> DEFINE K == {s \in Proc : received_up_to[p][o] \in acked[p][s][o]}
  <2>1. K = {}
    BY DEF Init
  <2>2. NextIsWaiting(p, o) <=> Cardinality(K) <= N \div 2
    BY DEF NextIsWaiting
  <2>3. Cardinality({}) = 0 /\ N \div 2 \in Nat
    BY FS_EmptySet, NAssumption
  <2> HIDE DEF K
  <2> QED
    BY <2>1, <2>2, <2>3
<1> QED
  BY <1>2, <1>3, <1>4, <1>5 DEF ClockInv

\* ClockInv holds in every execution.
THEOREM ClockInvHolds == Spec => []ClockInv
<1>1. Init => ClockInv
  BY InitClockInv
<1>2. Inv /\ ClockInv /\ [Next]_vars => ClockInv'
  BY NextClockInv
<1> QED
  BY <1>1, <1>2, InvHolds, PTL DEF Spec

\* Whatever mixture of two clocks construct_payload copies, later packets of an
\* owner count what earlier ones do, never more than the owner has delivered, and
\* all copies of a packet agree.
THEOREM ClocksGrowHolds == Spec => []ClocksGrow
<1>1. Inv /\ ClockInv => ClocksGrow
  <2> SUFFICES ASSUME Inv, ClockInv, NEW k \in net
               PROVE  /\ NotAfter(k.payload.vector_clock, vector_clock[k.payload.owner_id])
                      /\ \A l \in net :
                           /\ l.payload.owner_id = k.payload.owner_id
                           /\ l.payload.packet_uid >= k.payload.packet_uid
                           => NotAfter(k.payload.vector_clock, l.payload.vector_clock)
    BY DEF ClocksGrow
  <2>1. \A l \in net : l.payload \in Carried
    BY CarriedIs
  <2>2. \A l \in net : l.payload.packet_uid \in Uid
    BY <2>1, CarriedType
  <2>3. \A u, v \in Uid : u >= v => v <= u
    BY CountAssumption DEF Uid
  <2> QED
    BY <2>1, <2>2, <2>3 DEF ClockInv, GrowingClocks
<1> QED
  BY <1>1, InvHolds, ClockInvHolds, PTL

\* insert never returns and leaves a packet at a majority undelivered whose
\* owner nobody else affects.
THEOREM NothingLeftWaitingHolds == Spec => []NothingLeftWaiting
<1>1. ClockInv => NothingLeftWaiting
  <2> SUFFICES ASSUME ClockInv, NEW p \in Proc, NEW o \in Proc,
                      mtx[p] = "free", Dependencies(o) = {o}
               PROVE  NextIsWaiting(p, o)
    BY DEF NothingLeftWaiting, NextIsWaiting
  <2>1. \A t \in Thread : mtx[p] # t
    BY DEF Thread
  <2> QED
    BY <2>1 DEF ClockInv, LoopUnfinished
<1> QED
  BY <1>1, ClockInvHolds, PTL

----------------------------------------------------------------------------
(* Causal order, where can_lcb_deliver compares the right clock. *)

\* Nothing is taken off the network.
LEMMA OnNetKeeps ==
  ASSUME net \subseteq net', NEW o, NEW u, OnNet(o, u)
  PROVE  OnNet(o, u)'
BY DEF OnNet, IsPacket

\* JudgedByOwnClock is about the configuration only.
LEMMA JudgedKeeps == JudgedByOwnClock' <=> JudgedByOwnClock
BY DEF JudgedByOwnClock, Dependencies, Proc

\* Nor do new copies on the network undo what was respected.
LEMMA LogCausalKeeps ==
  ASSUME LogCausal, net \subseteq net', UNCHANGED deliverable
  PROVE  LogCausal'
<1>1. ASSUME NEW p \in Proc, NEW i \in DOMAIN deliverable'[p]
      PROVE  \E k \in net' :
               /\ IsPacket(k.payload, deliverable'[p][i].owner_id,
                           deliverable'[p][i].packet_uid)
               /\ CausesLogged(p, i, deliverable[p][i].owner_id, k.payload.vector_clock)'
  <2>1. PICK k \in net :
          /\ IsPacket(k.payload, deliverable[p][i].owner_id, deliverable[p][i].packet_uid)
          /\ CausesLogged(p, i, deliverable[p][i].owner_id, k.payload.vector_clock)
    BY <1>1 DEF LogCausal
  <2>2. CausesLogged(p, i, deliverable[p][i].owner_id, k.payload.vector_clock)'
    BY <2>1 DEF CausesLogged, Dependencies
  <2> QED
    BY <2>1, <2>2
<1> QED
  BY <1>1 DEF LogCausal, IsPacket

\* A step that neither records nor delivers anything.
LEMMA CausalKeeps ==
  ASSUME OthersOnNet, JudgedByOwnClock => LogCausal,
         net \subseteq net', UNCHANGED <<acked, deliverable>>,
         \A p \in Proc : pc'[p]["receiver"] = "insert" =>
           \/ pc[p]["receiver"] = "insert" /\ payload'[p]["receiver"] = payload[p]["receiver"]
           \/ \E k \in net' : k.payload = payload'[p]["receiver"]
  PROVE  OthersOnNet' /\ (JudgedByOwnClock => LogCausal)'
<1>1. ASSUME NEW p \in Proc, pc'[p]["receiver"] = "insert"
      PROVE  OnNet(payload[p]["receiver"].owner_id, payload[p]["receiver"].packet_uid)'
  <2>1. CASE pc[p]["receiver"] = "insert" /\ payload'[p]["receiver"] = payload[p]["receiver"]
    <3>1. OnNet(payload[p]["receiver"].owner_id, payload[p]["receiver"].packet_uid)
      BY <2>1 DEF OthersOnNet
    <3> QED
      BY <2>1, <3>1 DEF OnNet, IsPacket
  <2>2. CASE \E k \in net' : k.payload = payload'[p]["receiver"]
    BY <2>2 DEF OnNet, IsPacket
  <2> QED
    BY <1>1, <2>1, <2>2
<1>2. ASSUME NEW p \in Proc, NEW s \in Proc \ {p}, NEW o \in Proc, NEW u \in acked'[p][s][o]
      PROVE  OnNet(o, u)'
  BY <1>2, OnNetKeeps DEF OthersOnNet
<1>3. OthersOnNet'
  BY <1>1, <1>2 DEF OthersOnNet
<1>4. (JudgedByOwnClock => LogCausal)'
  <2>1. LogCausal => LogCausal'
    BY LogCausalKeeps
  <2> QED
    BY <2>1, JudgedKeeps
<1> QED
  BY <1>3, <1>4

\* A thread that goes on elsewhere than to insert.
LEMMA PassOnCausal ==
  ASSUME TypeOK, OthersOnNet, JudgedByOwnClock => LogCausal,
         NEW p \in Proc, NEW t \in Thread, NEW l, NEW m, l # "insert",
         Moves(p, t, l, m), net \subseteq net'
  PROVE  OthersOnNet' /\ (JudgedByOwnClock => LogCausal)'
<1>1. \A q \in Proc, r \in Thread :
        /\ pc'[q][r] = IF q = p /\ r = t THEN l ELSE pc[q][r]
        /\ payload'[q][r] = IF q = p /\ r = t THEN m ELSE payload[q][r]
  BY MovesEffect
<1>2. \A q \in Proc : pc'[q]["receiver"] = "insert" =>
        pc[q]["receiver"] = "insert" /\ payload'[q]["receiver"] = payload[q]["receiver"]
  BY <1>1 DEF Thread
<1>3. UNCHANGED <<acked, deliverable>>
  BY DEF Moves, setVars
<1> QED
  BY <1>2, <1>3, CausalKeeps

\* insert records a packet as another's only when it came from the network.
LEMMA InsertCausal ==
  ASSUME Inv, OthersOnNet, JudgedByOwnClock => LogCausal,
         NEW p \in Proc, NEW t \in Thread, Insert(p, t)
  PROVE  OthersOnNet' /\ (JudgedByOwnClock => LogCausal)'
<1> DEFINE m == payload[p][t]
<1>1. TypeOK /\ ThreadWork
  BY DEF Inv
<1>2. m.sender_id \in Proc /\ m.owner_id \in Proc /\ m.packet_uid \in Uid
  BY <1>1, PayloadInHand DEF Insert
<1>3. UNCHANGED <<net, payload, deliverable>>
  BY DEF Insert
<1>4. /\ \A q, r, x \in Proc : \A v :
           v \in acked'[q][r][x] <=>
             \/ v \in acked[q][r][x]
             \/ q = p /\ r = m.sender_id /\ x = m.owner_id /\ v = m.packet_uid
      /\ \A q \in Proc, r \in Thread :
           pc'[q][r] = IF q = p /\ r = t
                       THEN IF pc[p][t] = "insert" THEN "inserting" ELSE "marking"
                       ELSE pc[q][r]
  <2>1. InHand(p, t, m.sender_id, m.owner_id, m.packet_uid)
    BY DEF InHand
  <2> HIDE DEF m
  <2> QED
    BY <1>1, <1>2, <2>1, InsertEffect
<1>5. m.sender_id # p => OnNet(m.owner_id, m.packet_uid)
  <2> SUFFICES ASSUME m.sender_id # p
               PROVE  OnNet(m.owner_id, m.packet_uid)
    OBVIOUS
  <2>1. pc[p][t] = "insert" /\ t = "receiver"
    BY <1>1 DEF ThreadWork, Insert, Thread
  <2> QED
    BY <2>1 DEF OthersOnNet
<1>6. ASSUME NEW q \in Proc, NEW s \in Proc \ {q}, NEW o \in Proc, NEW u \in acked'[q][s][o]
      PROVE  OnNet(o, u)'
  <2>1. OnNet(o, u)
    <3>1. CASE u \in acked[q][s][o]
      BY <3>1 DEF OthersOnNet
    <3>2. CASE u \notin acked[q][s][o]
      BY <1>4, <1>5, <1>6, <3>2
    <3> QED
      BY <3>1, <3>2
  <2> QED
    BY <1>3, <2>1, OnNetKeeps
<1>7. ASSUME NEW q \in Proc, pc'[q]["receiver"] = "insert"
      PROVE  OnNet(payload[q]["receiver"].owner_id, payload[q]["receiver"].packet_uid)'
  <2>1. pc[q]["receiver"] = "insert"
    BY <1>4, <1>7 DEF Thread
  <2>2. OnNet(payload[q]["receiver"].owner_id, payload[q]["receiver"].packet_uid)
    BY <2>1 DEF OthersOnNet
  <2> QED
    BY <1>3, <2>2 DEF OnNet, IsPacket
<1>8. OthersOnNet'
  BY <1>6, <1>7 DEF OthersOnNet
<1>9. (JudgedByOwnClock => LogCausal)'
  <2>1. LogCausal => LogCausal'
    BY <1>3, LogCausalKeeps
  <2> QED
    BY <2>1, JudgedKeeps
<1> QED
  BY <1>8, <1>9

\* A majority of two or more processes has a member other than p.
LEMMA MajorityHasOther ==
  ASSUME N > 1, NEW p \in Proc, NEW K \in SUBSET Proc, Cardinality(K) > N \div 2
  PROVE  \E s \in K : s # p
<1>1. N \div 2 \in Nat /\ N \div 2 >= 1
  BY NAssumption
<1>2. ASSUME K \subseteq {p}
      PROVE  FALSE
  <2>1. IsFiniteSet({p}) /\ Cardinality({p}) = 1
    BY FS_Singleton
  <2>2. Cardinality(K) <= 1 /\ Cardinality(K) \in Nat
    <3>1. Cardinality(K) \in 0..N
      BY ProcFinite
    <3>2. Cardinality(K) <= Cardinality({p})
      BY <1>2, <2>1, FS_Subset
    <3> QED
      BY <2>1, <3>1, <3>2, NAssumption
  <2> QED
    BY <1>1, <2>2
<1> QED
  BY <1>2

\* The packet that insert's loop delivers has a copy on the network: a majority
\* acknowledged it, so another process did.
LEMMA DeliveredOnNet ==
  ASSUME Inv, OthersOnNet, N > 1, NEW p \in Proc, NEW a \in Proc,
         CanUrbDeliver(p, a, received_up_to[p][a])
  PROVE  OnNet(a, received_up_to[p][a])
<1> DEFINE u == received_up_to[p][a]
           K == {s \in Proc : u \in acked[p][s][a]}
<1>1. ~NextIsWaiting(p, a)
  BY WaitingIsCounted
<1>2. Cardinality(K) > N \div 2
  <2>1. ~(Cardinality(K) <= N \div 2)
    BY <1>1 DEF NextIsWaiting
  <2>2. Cardinality(K) \in 0..N /\ N \div 2 \in Nat
    BY ProcFinite, NAssumption
  <2> HIDE DEF K
  <2> QED
    BY <2>1, <2>2, NAssumption
<1>3. PICK s \in K : s # p
  <2>1. K \in SUBSET Proc
    OBVIOUS
  <2> HIDE DEF K
  <2> QED
    BY <1>2, <2>1, MajorityHasOther
<1> QED
  BY <1>3 DEF OthersOnNet

\* Nodes are affected by nodes.
LEMMA DependenciesInProc ==
  ASSUME NEW o \in Proc
  PROVE  Dependencies(o) \subseteq Proc
<1>1. causality[o] \in Seq(Proc)
  BY CausalityAssumption DEF Proc
<1>2. \A i \in DOMAIN causality[o] : causality[o][i] \in Proc
  BY <1>1
<1> QED
  BY <1>2 DEF Dependencies

\* Where every packet is judged by its own clock, the packet that insert's loop
\* delivers comes after what the clock of any copy counts.
LEMMA DeliverJudged ==
  ASSUME Inv, OneClock, OwnClock, SendsAsAsked, OthersOnNet, JudgedByOwnClock,
         NEW p \in Proc, NEW t \in Thread,
         pc[p][t] \in {"inserting", "marking"},
         NEW i \in Remaining(p, t), CanDeliverAt(p, t, i)
  PROVE  LET a == Affected(p, t, i)
         IN  \E k \in net :
               /\ IsPacket(k.payload, a, received_up_to[p][a])
               /\ CausesLogged(p, Len(deliverable[p]) + 1, a, k.payload.vector_clock)
<1> DEFINE m == payload[p][t]
           o == m.owner_id
           a == Affected(p, t, i)
           u == received_up_to[p][a]
<1>1. TypeOK /\ ClockCounts /\ LogMatches
  BY DEF Inv
<1>2. m \in Carried
  BY CarriedIs
<1>3. /\ o \in Proc
      /\ m.packet_uid \in Uid
      /\ m.packet_uid <= enqueued_messages[o]
      /\ m.vector_clock \in Clock
  BY <1>2, CarriedType
<1>4. a \in Proc /\ a \in Dependencies(o)
  <2>1. causality[o] \in Seq(Proc)
    BY <1>3, CausalityAssumption DEF Proc
  <2>2. cursor[p] \in Nat \ {0}
    BY <1>1 DEF TypeOK
  <2>3. i \in DOMAIN causality[o]
    BY <2>1, <2>2 DEF Remaining
  <2> QED
    BY <2>1, <2>3 DEF Affected, Dependencies
<1>5. /\ CanUrbDeliver(p, a, u)
      /\ \A d \in Dependencies(a) : vector_clock[p][d] >= m.vector_clock[d]
  BY DEF CanDeliverAt, CanLcbDeliver
<1>6. PICK k \in net : IsPacket(k.payload, a, u)
  BY <1>4, <1>5, DeliveredOnNet DEF OnNet, JudgedByOwnClock
<1> DEFINE c == k.payload.vector_clock
<1>7. k.payload \in Carried
  BY CarriedIs
<1>8. k.payload.owner_id = a /\ k.payload.packet_uid = u /\ u \in Uid
  BY <1>6, <1>7, CarriedType DEF IsPacket
<1>9. \A d \in Proc : /\ c[d] \in 0..MaxMsgs
                      /\ vector_clock[p][d] \in 0..MaxMsgs
                      /\ received_up_to[p][d] \in 1..(MaxMsgs + 1)
                      /\ vector_clock[p][d] = received_up_to[p][d] - 1
  <2>1. c \in [Proc -> 0..MaxMsgs]
    BY <1>7, CarriedType DEF Clock
  <2>2. /\ vector_clock \in [Proc -> [Proc -> 0..MaxMsgs]]
        /\ received_up_to \in [Proc -> [Proc -> 1..(MaxMsgs + 1)]]
    BY <1>1 DEF TypeOK, Clock, PacketID
  <2> HIDE DEF c
  <2> QED
    BY <1>1, <2>1, <2>2 DEF ClockCounts
<1>10. Dependencies(a) \subseteq Proc
  BY <1>4, DependenciesInProc
<1> HIDE DEF m, o, a, u, c
<1>11. \A d \in Dependencies(a) : c[d] <= vector_clock[p][d]
  <2>1. CASE Dependencies(a) \subseteq {a}
    <3>1. c[a] < u
      BY <1>7, <1>8 DEF OwnClock, c
    <3> QED
      BY <1>4, <1>8, <1>9, <2>1, <3>1, CountAssumption DEF u, Uid
  <2>2. CASE /\ msgs_to_send_count[a] <= 1
             /\ \A x \in Proc \ {a} : a \notin Dependencies(x)
    <3>1. o = a
      BY <1>3, <1>4, <2>2
    <3>2. m.packet_uid = 1 /\ u = 1
      <4>1. k.payload.packet_uid <= enqueued_messages[a]
        BY <1>7, <1>8, CarriedType
      <4>2. /\ enqueued_messages[a] <= msgs_to_send_count[a]
            /\ enqueued_messages[a] \in 0..MaxMsgs
            /\ msgs_to_send_count[a] \in 0..MaxMsgs
        BY <1>1, <1>4, CountAssumption DEF SendsAsAsked, TypeOK, Proc
      <4> QED
        BY <1>3, <1>8, <2>2, <3>1, <4>1, <4>2, CountAssumption DEF Uid
    <3>3. m.vector_clock = c
      BY <1>2, <1>7, <1>8, <3>1, <3>2 DEF OneClock, IsPacket, m, o, c
    <3> QED
      BY <1>5, <1>9, <1>10, <3>3
  <2> QED
    BY <1>4, <2>1, <2>2 DEF JudgedByOwnClock
<1>12. CausesLogged(p, Len(deliverable[p]) + 1, a, c)
  <2> SUFFICES ASSUME NEW d \in Dependencies(a), NEW v \in 1..c[d]
               PROVE  \E j \in 1..Len(deliverable[p]) :
                        deliverable[p][j] = [owner_id |-> d, packet_uid |-> v]
    <3>1. Len(deliverable[p]) \in Nat
      BY <1>1 DEF TypeOK
    <3>2. Len(deliverable[p]) + 1 - 1 = Len(deliverable[p])
      BY <3>1
    <3> QED
      BY <3>2 DEF CausesLogged
  <2>1. d \in Proc /\ v \in 1..(received_up_to[p][d] - 1)
    BY <1>9, <1>10, <1>11, CountAssumption
  <2>2. DOMAIN deliverable[p] = 1..Len(deliverable[p])
    BY <1>1 DEF TypeOK
  <2> QED
    BY <1>1, <2>1, <2>2 DEF LogMatches
<1> QED
  BY <1>6, <1>12 DEF a, u, c

\* One more delivery: what came before an earlier one still does, and the new
\* one comes after what its clock counts.
LEMMA DeliverCausal ==
  ASSUME Inv, OneClock, OwnClock, SendsAsAsked, OthersOnNet,
         JudgedByOwnClock => LogCausal,
         NEW p \in Proc, NEW t \in Thread, Deliver(p, t)
  PROVE  OthersOnNet' /\ (JudgedByOwnClock => LogCausal)'
<1>1. UNCHANGED <<acked, pc, payload, net>>
  BY DEF Deliver
<1>2. OthersOnNet'
  BY <1>1 DEF OthersOnNet, OnNet, IsPacket
<1>3. ASSUME JudgedByOwnClock
      PROVE  LogCausal'
  <2>1. PICK i \in Remaining(p, t) :
          /\ CanDeliverAt(p, t, i)
          /\ deliverable' = [deliverable EXCEPT ![p] =
               Append(@, Delivered(p, t, Affected(p, t, i)))]
    BY DEF Deliver
  <2> DEFINE a == Affected(p, t, i)
             e == [owner_id |-> a, packet_uid |-> received_up_to[p][a]]
             L == Len(deliverable[p])
  <2>2. PICK h \in net : /\ IsPacket(h.payload, a, received_up_to[p][a])
                         /\ CausesLogged(p, L + 1, a, h.payload.vector_clock)
    BY <1>3, <2>1, DeliverJudged DEF Deliver
  <2>3. deliverable \in [Proc -> Seq(Delivery)]
    BY DEF Inv, TypeOK
  <2>4. /\ deliverable'[p] = Append(deliverable[p], e)
        /\ \A q \in Proc : q # p => deliverable'[q] = deliverable[q]
    BY <2>1, <2>3 DEF Delivered
  <2> HIDE DEF a, e
  <2>5. /\ L \in Nat
        /\ DOMAIN deliverable[p] = 1..L
        /\ DOMAIN deliverable'[p] = 1..(L + 1)
        /\ deliverable'[p][L + 1] = e
        /\ \A j \in 1..L : deliverable'[p][j] = deliverable[p][j]
    <3>1. deliverable[p] \in Seq(Delivery)
      BY <2>3
    <3> QED
      BY <2>4, <3>1
  <2>6. ASSUME NEW q \in Proc, NEW j \in DOMAIN deliverable'[q], ~(q = p /\ j = L + 1)
        PROVE  /\ j \in DOMAIN deliverable[q]
               /\ deliverable'[q][j] = deliverable[q][j]
               /\ \A x \in 1..(j - 1) : deliverable'[q][x] = deliverable[q][x]
    <3>1. CASE q = p
      <4>1. j \in 1..L
        BY <2>5, <2>6, <3>1
      <4> QED
        BY <2>5, <3>1, <4>1
    <3>2. CASE q # p
      BY <2>4, <2>6, <3>2
    <3> QED
      BY <3>1, <3>2
  <2> DEFINE After(q, n, o, c) ==
               \A d \in Dependencies(o) : \A v \in 1..c[d] : \E x \in 1..(n - 1) :
                 deliverable'[q][x] = [owner_id |-> d, packet_uid |-> v]
  <2>7. ASSUME NEW q \in Proc, NEW j \in DOMAIN deliverable'[q]
        PROVE  \E k \in net :
                 /\ IsPacket(k.payload, deliverable'[q][j].owner_id,
                             deliverable'[q][j].packet_uid)
                 /\ After(q, j, deliverable'[q][j].owner_id, k.payload.vector_clock)
    <3>1. CASE q = p /\ j = L + 1
      <4>1. /\ deliverable'[q][j].owner_id = a
            /\ deliverable'[q][j].packet_uid = received_up_to[p][a]
        BY <2>5, <3>1 DEF e
      <4>2. After(p, L + 1, a, h.payload.vector_clock)
        <5>1. \A x \in 1..(L + 1 - 1) : deliverable'[p][x] = deliverable[p][x]
          BY <2>5
        <5> QED
          BY <2>2, <5>1 DEF CausesLogged
      <4> HIDE DEF L, After
      <4> QED
        BY <2>2, <3>1, <4>1, <4>2
    <3>2. CASE ~(q = p /\ j = L + 1)
      <4>1. /\ j \in DOMAIN deliverable[q]
            /\ deliverable'[q][j] = deliverable[q][j]
            /\ \A x \in 1..(j - 1) : deliverable'[q][x] = deliverable[q][x]
        BY <2>6, <3>2
      <4>2. LogCausal
        BY <1>3
      <4>3. PICK k \in net :
              /\ IsPacket(k.payload, deliverable[q][j].owner_id, deliverable[q][j].packet_uid)
              /\ CausesLogged(q, j, deliverable[q][j].owner_id, k.payload.vector_clock)
        BY <4>1, <4>2 DEF LogCausal
      <4>4. After(q, j, deliverable[q][j].owner_id, k.payload.vector_clock)
        BY <4>1, <4>3 DEF CausesLogged
      <4> HIDE DEF After
      <4> QED
        BY <4>1, <4>3, <4>4
    <3> QED
      BY <3>1, <3>2
  <2> QED
    BY <1>1, <2>7 DEF LogCausal, IsPacket, CausesLogged, Dependencies
<1> QED
  BY <1>2, <1>3, JudgedKeeps

\* Every step of either thread of any process keeps CausalInv.
LEMMA NextCausalInv ==
  ASSUME Inv, CausalInv, [Next]_vars
  PROVE  CausalInv'
<1>1. ClockInv'
  BY NextClockInv DEF CausalInv
<1>2. /\ TypeOK
      /\ OneClock /\ OwnClock
      /\ SendsAsAsked /\ OthersOnNet /\ (JudgedByOwnClock => LogCausal)
  BY DEF Inv, CausalInv, ClockInv
<1>3. SendsAsAsked'
  <2>1. CASE enqueued_messages' = enqueued_messages
    BY <1>2, <2>1 DEF SendsAsAsked
  <2>2. ASSUME NEW p \in Proc, ConstructBegin(p)
        PROVE  SendsAsAsked'
    <3>1. /\ enqueued_messages \in [Proc -> 0..MaxMsgs]
          /\ msgs_to_send_count \in [Proc -> 0..MaxMsgs]
      BY <1>2, CountAssumption DEF TypeOK, Proc
    <3>2. /\ enqueued_messages[p] < msgs_to_send_count[p]
          /\ enqueued_messages' = [enqueued_messages EXCEPT ![p] = @ + 1]
      BY <2>2 DEF ConstructBegin
    <3> QED
      BY <1>2, <3>1, <3>2, CountAssumption DEF SendsAsAsked
  <2>3. ASSUME Next
        PROVE  enqueued_messages' = enqueued_messages \/ \E p \in Proc : ConstructBegin(p)
    <3>1. \A p \in Proc : \A t \in Thread :
            ThreadStep(p, t) => enqueued_messages' = enqueued_messages
      <4> SUFFICES ASSUME NEW p \in Proc, NEW t \in Thread, ThreadStep(p, t)
                   PROVE  enqueued_messages' = enqueued_messages
        OBVIOUS
      <4>1. CASE Insert(p, t)
        BY <4>1 DEF Insert
      <4>2. CASE Deliver(p, t)
        BY <4>2 DEF Deliver
      <4>3. CASE InsertReturn(p, t)
        BY <4>3 DEF InsertReturn
      <4>4. CASE SkipSeen(p, t) \/ RelayUnseen(p, t) \/ BestEffortBroadcast(p, t)
        BY <4>4 DEF SkipSeen, RelayUnseen, BestEffortBroadcast
      <4> QED
        BY <4>1, <4>2, <4>3, <4>4 DEF ThreadStep
    <3>2. \A p \in Proc : \A k \in net :
            Receive(p, k.payload) => enqueued_messages' = enqueued_messages
      BY DEF Receive
    <3>3. \A p \in Proc : ConstructEnd(p) => enqueued_messages' = enqueued_messages
      BY DEF ConstructEnd
    <3>4. PICK p \in Proc : \/ \E k \in net : Receive(p, k.payload)
                            \/ ConstructBegin(p)
                            \/ ConstructEnd(p)
                            \/ \E t \in Thread : ThreadStep(p, t)
      BY <2>3 DEF Next
    <3> QED
      BY <3>1, <3>2, <3>3, <3>4
  <2> QED
    BY <2>1, <2>2, <2>3 DEF vars
<1>4. OthersOnNet' /\ (JudgedByOwnClock => LogCausal)'
  <2>1. CASE UNCHANGED vars
    BY <1>2, <2>1, CausalKeeps DEF vars, setVars
  <2>2. CASE Next
    <3>1. PICK p \in Proc : \/ \E k \in net : Receive(p, k.payload)
                            \/ ConstructBegin(p)
                            \/ ConstructEnd(p)
                            \/ \E t \in Thread : ThreadStep(p, t)
      BY <2>2 DEF Next
    <3>2. CASE \E k \in net : Receive(p, k.payload)
      <4>1. PICK k \in net : Receive(p, k.payload)
        BY <3>2
      <4>2. Moves(p, "receiver", "insert", k.payload)
        BY <4>1 DEF Receive, Moves
      <4>3. \A q \in Proc, r \in Thread :
              /\ pc'[q][r] = IF q = p /\ r = "receiver" THEN "insert" ELSE pc[q][r]
              /\ payload'[q][r] = IF q = p /\ r = "receiver" THEN k.payload
                                                             ELSE payload[q][r]
        BY <1>2, <4>2, MovesEffect DEF Thread
      <4>4. net \subseteq net' /\ UNCHANGED <<acked, deliverable>>
        BY <4>1 DEF Receive, setVars
      <4>5. \A q \in Proc : pc'[q]["receiver"] = "insert" =>
              \/ pc[q]["receiver"] = "insert" /\ payload'[q]["receiver"] = payload[q]["receiver"]
              \/ \E h \in net' : h.payload = payload'[q]["receiver"]
        BY <4>3, <4>4 DEF Thread
      <4> QED
        BY <1>2, <4>4, <4>5, CausalKeeps
    <3>3. CASE ConstructBegin(p) \/ ConstructEnd(p)
      <4>1. PICK l, m : /\ l # "insert"
                        /\ Moves(p, "enqueuer", l, m)
                        /\ net' = net
        BY <3>3 DEF ConstructBegin, ConstructEnd, Moves
      <4> QED
        BY <1>2, <4>1, PassOnCausal DEF Thread
    <3>4. ASSUME NEW t \in Thread, ThreadStep(p, t)
          PROVE  OthersOnNet' /\ (JudgedByOwnClock => LogCausal)'
      <4>1. CASE Insert(p, t)
        BY <1>2, <4>1, InsertCausal
      <4>2. CASE Deliver(p, t)
        BY <1>2, <4>2, DeliverCausal
      <4>3. CASE InsertReturn(p, t)
        <5>1. \A q \in Proc : pc'[q]["receiver"] = "insert" => pc[q]["receiver"] = "insert"
          BY <1>2, <4>3 DEF InsertReturn, TypeOK, Thread
        <5> QED
          BY <1>2, <4>3, <5>1, CausalKeeps DEF InsertReturn, setVars
      <4>4. CASE SkipSeen(p, t) \/ RelayUnseen(p, t) \/ BestEffortBroadcast(p, t)
        <5>1. PICK l, m : /\ l # "insert"
                          /\ Moves(p, t, l, m)
                          /\ net \subseteq net'
          BY <4>4 DEF SkipSeen, RelayUnseen, BestEffortBroadcast, Finish, Moves
        <5> QED
          BY <1>2, <5>1, PassOnCausal
      <4> QED
        BY <3>4, <4>1, <4>2, <4>3, <4>4 DEF ThreadStep
    <3> QED
      BY <3>1, <3>2, <3>3, <3>4
  <2> QED
    BY <2>1, <2>2
<1> QED
  BY <1>1, <1>3, <1>4 DEF CausalInv

\* CausalInv holds in every execution.
THEOREM CausalInvHolds == Spec => []CausalInv
<1>1. Init => CausalInv
  <2> SUFFICES ASSUME Init
               PROVE  CausalInv
    OBVIOUS
  <2>1. ClockInv
    BY InitClockInv
  <2>2. SendsAsAsked
    BY CountAssumption DEF Init, SendsAsAsked, Proc
  <2>3. OthersOnNet
    BY DEF Init, OthersOnNet, Thread
  <2>4. LogCausal
    BY DEF Init, LogCausal
  <2> QED
    BY <2>1, <2>2, <2>3, <2>4 DEF CausalInv
<1>2. Inv /\ CausalInv /\ [Next]_vars => CausalInv'
  BY NextCausalInv
<1> QED
  BY <1>1, <1>2, InvHolds, PTL DEF Spec

\* The deliveries are in causal order in every configuration in which the clock
\* that can_lcb_deliver compares speaks for the packet that insert delivers.
THEOREM CausalDeliveryHolds == Spec => [](JudgedByOwnClock => CausalDelivery)
<1>1. CausalInv => (JudgedByOwnClock => CausalDelivery)
  <2> SUFFICES ASSUME CausalInv, JudgedByOwnClock,
                      NEW p \in Proc, NEW i \in DOMAIN deliverable[p]
               PROVE  LET o == deliverable[p][i].owner_id
                          c == PacketClock(o, deliverable[p][i].packet_uid)
                      IN  CausesLogged(p, i, o, c)
    BY DEF CausalDelivery, CausesLogged
  <2> DEFINE o == deliverable[p][i].owner_id
             u == deliverable[p][i].packet_uid
  <2>1. PICK k \in net : /\ IsPacket(k.payload, o, u)
                         /\ CausesLogged(p, i, o, k.payload.vector_clock)
    BY DEF CausalInv, LogCausal
  <2> DEFINE h == CHOOSE g \in net : g.payload.owner_id = o /\ g.payload.packet_uid = u
  <2>2. h \in net /\ IsPacket(h.payload, o, u)
    BY <2>1 DEF IsPacket
  <2>3. h.payload.vector_clock = PacketClock(o, u)
    BY DEF PacketClock
  <2>4. h.payload.vector_clock = k.payload.vector_clock
    <3>1. h.payload \in Carried /\ k.payload \in Carried
      BY <2>2, CarriedIs
    <3> HIDE DEF h
    <3> QED
      BY <2>1, <2>2, <3>1 DEF CausalInv, ClockInv, OneClock, IsPacket
  <2> QED
    BY <2>1, <2>3, <2>4
<1> QED
  BY <1>1, CausalInvHolds, PTL
=============================================================================
