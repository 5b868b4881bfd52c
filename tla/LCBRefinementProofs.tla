------------------------ MODULE LCBRefinementProofs ------------------------
(* LCBroadcast implements FifoUrb: every step of a thread is a step of the *)
(* abstract broadcast or changes nothing there.                            *)
EXTENDS LCBroadcastProofs

\* The abstract variable holders.
AllHolders == [o \in Proc |-> [u \in Uid |-> Holders(o, u)]]

\* A step after which everybody holds what he held is a stutter for holders.
LEMMA HoldersSame ==
  ASSUME \A s, o \in Proc, u \in Uid : Holds(s, o, u)' <=> Holds(s, o, u)
  PROVE  AllHolders' = AllHolders
<1>1. \A o \in Proc, u \in Uid : Holders(o, u)' = Holders(o, u)
  BY DEF Holders
<1> QED
  BY <1>1 DEF AllHolders

\* A step after which one more process holds one packet.
LEMMA HoldersOneMore ==
  ASSUME NEW p \in Proc, NEW x \in Proc, NEW v \in Uid,
         \A s, o \in Proc, u \in Uid :
           Holds(s, o, u)' <=> Holds(s, o, u) \/ (s = p /\ o = x /\ u = v)
  PROVE  AllHolders' = [AllHolders EXCEPT ![x][v] = @ \cup {p}]
<1> DEFINE new == AllHolders[x][v] \cup {p}
           F   == [AllHolders EXCEPT ![x][v] = new]
<1>1. \A o \in Proc, u \in Uid :
        Holders(o, u)' = IF o = x /\ u = v THEN Holders(o, u) \cup {p} ELSE Holders(o, u)
  <2> SUFFICES ASSUME NEW o \in Proc, NEW u \in Uid
               PROVE  Holders(o, u)' =
                        IF o = x /\ u = v THEN Holders(o, u) \cup {p} ELSE Holders(o, u)
    OBVIOUS
  <2>1. CASE o = x /\ u = v
    BY <2>1 DEF Holders
  <2>2. CASE ~(o = x /\ u = v)
    BY <2>2 DEF Holders
  <2> QED
    BY <2>1, <2>2
<1>2. new = Holders(x, v) \cup {p}
  BY DEF AllHolders
<1>3. /\ AllHolders \in [Proc -> [Uid -> SUBSET Proc]]
      /\ AllHolders' \in [Proc -> [Uid -> SUBSET Proc]]
  BY DEF AllHolders, Holders
<1>4. new \in SUBSET Proc
  BY <1>2 DEF Holders
<1>5. \A o \in Proc, u \in Uid :
        AllHolders'[o][u] = IF o = x /\ u = v THEN new ELSE AllHolders[o][u]
  BY <1>1, <1>2 DEF AllHolders
<1> HIDE DEF new
<1>6. F \in [Proc -> [Uid -> SUBSET Proc]]
  BY <1>3, <1>4
<1>7. \A o \in Proc, u \in Uid :
        F[o][u] = IF o = x /\ u = v THEN new ELSE AllHolders[o][u]
  BY <1>3
<1> HIDE DEF F
<1>8. \A o \in Proc : AllHolders'[o] = F[o]
  <2> SUFFICES ASSUME NEW o \in Proc
               PROVE  AllHolders'[o] = F[o]
    OBVIOUS
  <2>1. AllHolders'[o] \in [Uid -> SUBSET Proc] /\ F[o] \in [Uid -> SUBSET Proc]
    BY <1>3, <1>6
  <2>2. \A u \in Uid : AllHolders'[o][u] = F[o][u]
    BY <1>5, <1>7
  <2> QED
    BY <2>1, <2>2
<1>9. AllHolders' = F
  BY <1>3, <1>6, <1>8
<1> QED
  BY <1>9 DEF F, new

----------------------------------------------------------------------------
(* Steps that change nothing in the abstract specification. *)

\* A thread goes on with the same packet, or drops one that is marked.
LEMMA MovesHolds ==
  ASSUME TypeOK, NEW p \in Proc, NEW t \in Thread, NEW l, NEW m, Moves(p, t, l, m),
         pc[p][t] # "idle",
         \/ /\ l # "idle"
            /\ m.owner_id = payload[p][t].owner_id
            /\ m.packet_uid = payload[p][t].packet_uid
         \/ l = "idle" /\ WasSeen(p, payload[p][t])
  PROVE  AllHolders' = AllHolders
<1>1. \A q \in Proc, r \in Thread :
        /\ pc'[q][r] = IF q = p /\ r = t THEN l ELSE pc[q][r]
        /\ payload'[q][r] = IF q = p /\ r = t THEN m ELSE payload[q][r]
  BY MovesEffect
<1>2. acked' = acked
  BY DEF Moves, setVars
<1>3. \A s, o \in Proc, u \in Uid : Holds(s, o, u)' <=> Holds(s, o, u)
  <2>1. CASE l # "idle"
    BY <1>1, <1>2, <2>1 DEF Holds
  <2>2. CASE l = "idle"
    BY <1>1, <1>2, <2>2 DEF Holds, WasSeen
  <2> QED
    BY <2>1, <2>2
<1> QED
  BY <1>3, HoldersSame

\* construct_payload, was_seen and best_effort_broadcast.
LEMMA WorkStutters ==
  ASSUME Inv, NEW p \in Proc, NEW t \in Thread,
         \/ t = "enqueuer" /\ ConstructEnd(p)
         \/ SkipSeen(p, t)
         \/ RelayUnseen(p, t)
         \/ BestEffortBroadcast(p, t)
  PROVE  UNCHANGED <<enqueued_messages, AllHolders, deliverable>>
<1> DEFINE old == payload[p][t]
<1>1. TypeOK
  BY DEF Inv
<1>2. CASE t = "enqueuer" /\ ConstructEnd(p)
  <2>1. PICK c \in Clock :
          payload' = [payload EXCEPT ![p]["enqueuer"].vector_clock = c]
    BY <1>2 DEF ConstructEnd
  <2> DEFINE m == [old EXCEPT !.vector_clock = c]
  <2>2. pc[p][t] = "copy" /\ UNCHANGED <<enqueued_messages, deliverable>>
    BY <1>2 DEF ConstructEnd, setVars
  <2>3. old \in Payload
    BY <1>1, <2>2, PayloadInHand
  <2>4. m.owner_id = old.owner_id /\ m.packet_uid = old.packet_uid
    BY <2>3 DEF Payload
  <2>5. Moves(p, t, "check", m)
    BY <1>2, <2>1 DEF Moves, ConstructEnd
  <2> HIDE DEF m
  <2>6. AllHolders' = AllHolders
    BY <1>1, <2>2, <2>4, <2>5, MovesHolds
  <2> QED
    BY <2>2, <2>6
<1>3. CASE SkipSeen(p, t)
  <2>1. /\ Moves(p, t, "idle", NoPayload)
        /\ pc[p][t] # "idle"
        /\ WasSeen(p, old)
        /\ UNCHANGED <<enqueued_messages, deliverable>>
    BY <1>3 DEF Moves, SkipSeen, Finish, setVars
  <2>2. AllHolders' = AllHolders
    BY <1>1, <2>1, MovesHolds
  <2> QED
    BY <2>1, <2>2
<1>4. CASE RelayUnseen(p, t)
  <2> DEFINE m == [old EXCEPT !.sender_id = p]
  <2>1. pc[p][t] = "check" /\ UNCHANGED <<enqueued_messages, deliverable>>
    BY <1>4 DEF RelayUnseen, setVars
  <2>2. old \in Payload
    BY <1>1, <2>1, PayloadInHand
  <2>3. m.owner_id = old.owner_id /\ m.packet_uid = old.packet_uid
    BY <2>2 DEF Payload
  <2>4. Moves(p, t, "mark", m)
    BY <1>4 DEF Moves, RelayUnseen
  <2> HIDE DEF m
  <2>5. AllHolders' = AllHolders
    BY <1>1, <2>1, <2>3, <2>4, MovesHolds
  <2> QED
    BY <2>1, <2>5
<1>5. CASE BestEffortBroadcast(p, t)
  <2>1. /\ Moves(p, t, "idle", NoPayload)
        /\ pc[p][t] = "send"
        /\ UNCHANGED <<enqueued_messages, deliverable>>
    BY <1>5 DEF Moves, BestEffortBroadcast, Finish, setVars
  <2>2. WasSeen(p, old)
    BY <2>1 DEF Inv, ThreadWork
  <2>3. AllHolders' = AllHolders
    BY <1>1, <2>1, <2>2, MovesHolds
  <2> QED
    BY <2>1, <2>3
<1> QED
  BY <1>2, <1>3, <1>4, <1>5

\* insert up to its loop, and its return: the packet recorded was in hand.
LEMMA InsertStutters ==
  ASSUME Inv, NEW p \in Proc, NEW t \in Thread, Insert(p, t) \/ InsertReturn(p, t)
  PROVE  UNCHANGED <<enqueued_messages, AllHolders, deliverable>>
<1>1. TypeOK
  BY DEF Inv
<1>2. UNCHANGED <<enqueued_messages, deliverable, payload>>
  BY DEF Insert, InsertReturn, setVars
<1>3. \A q \in Proc, r \in Thread : pc'[q][r] = "idle" <=> pc[q][r] = "idle"
  <2>1. pc \in [Proc -> [Thread -> Label]]
    BY <1>1 DEF TypeOK
  <2>2. PICK l : pc' = [pc EXCEPT ![p][t] = l] /\ l # "idle" /\ pc[p][t] # "idle"
    BY DEF Insert, InsertReturn
  <2> QED
    BY <2>1, <2>2
<1>4. \A s, o \in Proc, u \in Uid : Holds(s, o, u)' <=> Holds(s, o, u)
  <2>1. CASE Insert(p, t)
    BY <1>1, <2>1, InsertHolds
  <2>2. CASE InsertReturn(p, t)
    <3>1. acked' = acked
      BY <2>2 DEF InsertReturn, setVars
    <3> QED
      BY <1>2, <1>3, <3>1 DEF Holds
  <2> QED
    BY <2>1, <2>2
<1> QED
  BY <1>2, <1>4, HoldersSame

----------------------------------------------------------------------------
(* Steps of the abstract specification. *)

\* Starting a packet is an abstract broadcast.
LEMMA ConstructBeginBroadcasts ==
  ASSUME Inv, NEW p \in Proc, ConstructBegin(p)
  PROVE  FU!Broadcast(p)
<1> DEFINE v == enqueued_messages[p] + 1
           m == [sender_id |-> p, owner_id |-> p, packet_uid |-> v,
                 vector_clock |-> vector_clock[p], is_ack |-> FALSE]
<1>1. TypeOK
  BY DEF Inv
<1>2. /\ enqueued_messages[p] < MaxMsgs
      /\ v \in Uid
  BY <1>1, CountAssumption DEF ConstructBegin, TypeOK, Uid, Proc
<1>3. /\ enqueued_messages' = [enqueued_messages EXCEPT ![p] = @ + 1]
      /\ pc[p]["enqueuer"] = "idle"
      /\ acked' = acked
      /\ deliverable' = deliverable
      /\ Moves(p, "enqueuer", "copy", m)
  BY DEF ConstructBegin, setVars, Moves
<1>4. m.owner_id = p /\ m.packet_uid = v
  OBVIOUS
<1> HIDE DEF m
<1>5. \A q \in Proc, r \in Thread :
        /\ pc'[q][r] = IF q = p /\ r = "enqueuer" THEN "copy" ELSE pc[q][r]
        /\ payload'[q][r] = IF q = p /\ r = "enqueuer" THEN m ELSE payload[q][r]
  BY <1>1, <1>3, MovesEffect DEF Thread
<1>6. \A s, o \in Proc, u \in Uid :
        Holds(s, o, u)' <=> Holds(s, o, u) \/ (s = p /\ o = p /\ u = v)
  BY <1>3, <1>4, <1>5 DEF Holds, Thread
<1>7. AllHolders' = [AllHolders EXCEPT ![p][v] = @ \cup {p}]
  BY <1>2, <1>6, HoldersOneMore
<1> QED
  BY <1>2, <1>3, <1>7 DEF FU!Broadcast, AllHolders

\* Receiving a packet spreads it: its sender holds it.
LEMMA ReceiveSpreads ==
  ASSUME Inv, NEW p \in Proc, NEW m, Receive(p, m)
  PROVE  /\ m.owner_id \in Proc
         /\ m.packet_uid \in Uid
         /\ FU!Spread(p, m.owner_id, m.packet_uid)
<1> DEFINE x == m.owner_id
           v == m.packet_uid
           k == [recipient |-> p, payload |-> m]
<1>1. TypeOK
  BY DEF Inv
<1>2. k \in net /\ k.payload = m
  BY DEF Receive
<1>3. m.sender_id \in Proc /\ x \in Proc /\ v \in Uid
  BY <1>1, <1>2 DEF TypeOK, Message, Payload
<1>4. /\ pc[p]["receiver"] = "idle"
      /\ acked' = acked
      /\ UNCHANGED <<enqueued_messages, deliverable>>
      /\ Moves(p, "receiver", "insert", m)
  BY DEF Receive, setVars, Moves
<1>5. \A q \in Proc, r \in Thread :
        /\ pc'[q][r] = IF q = p /\ r = "receiver" THEN "insert" ELSE pc[q][r]
        /\ payload'[q][r] = IF q = p /\ r = "receiver" THEN m ELSE payload[q][r]
  BY <1>1, <1>4, MovesEffect DEF Thread
<1>6. Holds(m.sender_id, x, v)
  BY <1>2 DEF Inv, SenderHolds
<1>7. AllHolders[x][v] # {}
  BY <1>3, <1>6 DEF AllHolders, Holders
<1>8. \A s, o \in Proc, u \in Uid :
        Holds(s, o, u)' <=> Holds(s, o, u) \/ (s = p /\ o = x /\ u = v)
  BY <1>4, <1>5 DEF Holds, Thread
<1>9. AllHolders' = [AllHolders EXCEPT ![x][v] = @ \cup {p}]
  BY <1>3, <1>8, HoldersOneMore
<1> QED
  BY <1>3, <1>4, <1>7, <1>9 DEF FU!Spread, AllHolders

\* One iteration of insert's loop is one abstract delivery.
LEMMA DeliverDelivers ==
  ASSUME Inv, NEW p \in Proc, NEW t \in Thread, Deliver(p, t)
  PROVE  \E a \in Proc, u \in Uid : FU!Deliver(p, a, u)
<1>1. TypeOK /\ NoExtraCount
  BY DEF Inv
<1>2. PICK a \in Proc :
        /\ received_up_to[p][a] \in Uid
        /\ acked_counter[p][a][received_up_to[p][a]] > N \div 2
        /\ deliverable' = [deliverable EXCEPT ![p] =
             Append(@, [owner_id |-> a, packet_uid |-> received_up_to[p][a]])]
  BY <1>1, DeliverEffect
<1> DEFINE u == received_up_to[p][a]
<1>3. Cardinality(Holders(a, u)) > N \div 2
  BY <1>2, CountedIsHeld
<1>4. Cardinality(AllHolders[a][u]) > N \div 2
  BY <1>2, <1>3 DEF AllHolders
<1>5. \A v \in 1..(u - 1) : FU!InLog(p, a, v)
  BY DEF Inv, LogMatches, FU!InLog
<1>6. ~FU!InLog(p, a, u)
  <2>1. \A i \in DOMAIN deliverable[p] :
          deliverable[p][i].packet_uid
            < received_up_to[p][deliverable[p][i].owner_id]
    BY DEF Inv, LogMatches
  <2>2. u \in Nat
    BY <1>2, CountAssumption DEF Uid
  <2> QED
    BY <2>1, <2>2 DEF FU!InLog
<1>7. UNCHANGED <<enqueued_messages, acked, pc, payload>>
  BY DEF Deliver
<1>8. AllHolders' = AllHolders
  <2>1. \A s, o \in Proc, v \in Uid : Holds(s, o, v)' <=> Holds(s, o, v)
    BY <1>7 DEF Holds
  <2> QED
    BY <2>1, HoldersSame
<1>9. FU!Deliver(p, a, u)
  <2> HIDE DEF u
  <2>1. FU!Cardinality([o \in Proc |-> [w \in Uid |-> Holders(o, w)]][a][u]) > N \div 2
    <3>1. \A S : FU!Cardinality(S) = Cardinality(S)
      BY Zenon DEF FU!Cardinality, Cardinality
    <3> QED
      BY <1>4, <3>1 DEF AllHolders
  <2>2. deliverable' = [deliverable EXCEPT ![p] =
          Append(@, [owner_id |-> a, packet_uid |-> u])]
    BY <1>2 DEF u
  <2>3. UNCHANGED <<enqueued_messages, [o \in Proc |-> [w \in Uid |-> Holders(o, w)]]>>
    BY <1>7, <1>8 DEF AllHolders
  <2> QED
    BY <1>5, <1>6, <2>1, <2>2, <2>3 DEF FU!Deliver
<1> QED
  BY <1>2, <1>9

----------------------------------------------------------------------------
\* Every step of either thread is an abstract step or an abstract stutter.
LEMMA StepSimulates ==
  ASSUME Inv, [Next]_vars
  PROVE  [FU!Next]_<<enqueued_messages, AllHolders, deliverable>>
<1>1. CASE UNCHANGED vars
  <2>1. UNCHANGED <<enqueued_messages, deliverable, acked, pc, payload>>
    BY <1>1 DEF vars, setVars
  <2>2. \A s, o \in Proc, v \in Uid : Holds(s, o, v)' <=> Holds(s, o, v)
    BY <2>1 DEF Holds
  <2> QED
    BY <2>1, <2>2, HoldersSame
<1>2. CASE Next
  <2>1. PICK p \in Proc : \/ \E k \in net : Receive(p, k.payload)
                          \/ ConstructBegin(p)
                          \/ ConstructEnd(p)
                          \/ \E t \in Thread : ThreadStep(p, t)
    BY <1>2 DEF Next
  <2>2. CASE \E k \in net : Receive(p, k.payload)
    <3>1. PICK k \in net : Receive(p, k.payload)
      BY <2>2
    <3>2. \E o \in Proc, u \in Uid : FU!Spread(p, o, u)
      BY <3>1, ReceiveSpreads
    <3> QED
      BY <3>2 DEF FU!Next, Proc, Uid
  <2>3. CASE ConstructBegin(p)
    <3>1. FU!Broadcast(p)
      BY <2>3, ConstructBeginBroadcasts
    <3> QED
      BY <3>1 DEF FU!Next, Proc
  <2>4. CASE ConstructEnd(p)
    BY <2>4, WorkStutters DEF Thread
  <2>5. ASSUME NEW t \in Thread, ThreadStep(p, t)
        PROVE  [FU!Next]_<<enqueued_messages, AllHolders, deliverable>>
    <3>1. CASE Insert(p, t) \/ InsertReturn(p, t)
      BY <3>1, InsertStutters
    <3>2. CASE SkipSeen(p, t) \/ RelayUnseen(p, t) \/ BestEffortBroadcast(p, t)
      BY <3>2, WorkStutters
    <3>3. CASE Deliver(p, t)
      <4>1. \E a \in Proc, u \in Uid : FU!Deliver(p, a, u)
        BY <3>3, DeliverDelivers
      <4> QED
        BY <4>1 DEF FU!Next, Proc, Uid
    <3> QED
      BY <2>5, <3>1, <3>2, <3>3 DEF ThreadStep
  <2> QED
    BY <2>1, <2>2, <2>3, <2>4, <2>5
<1> QED
  BY <1>1, <1>2

\* The threads, counters, acknowledgements and network of the C++ program
\* implement FIFO uniform reliable broadcast, for any number of processes and
\* any configuration.
THEOREM Refinement == Spec => ImplementsFifoUrb
<1>1. Init => FU!Init
  <2> SUFFICES ASSUME Init
               PROVE  FU!Init
    OBVIOUS
  <2>1. \A p \in Proc, t \in Thread : pc[p][t] = "idle"
    BY DEF Init
  <2>2. \A p, s, o \in Proc : acked[p][s][o] = {}
    BY DEF Init
  <2>3. \A o \in Proc, u \in Uid : Holders(o, u) = {}
    BY <2>1, <2>2 DEF Holders, Holds
  <2>4. [o \in Proc |-> [u \in Uid |-> Holders(o, u)]]
          = [o \in Proc |-> [u \in Uid |-> {}]]
    BY <2>3
  <2> QED
    BY <2>4 DEF Init, FU!Init, Proc, Uid
<1>2. Inv /\ [Next]_vars
        => [FU!Next]_<<enqueued_messages,
                       [o \in Proc |-> [u \in Uid |-> Holders(o, u)]], deliverable>>
  BY StepSimulates DEF AllHolders
<1> QED
  BY <1>1, <1>2, InvHolds, PTL DEF Spec, ImplementsFifoUrb, FU!Spec
=============================================================================
