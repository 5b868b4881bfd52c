---------------------------- MODULE LCBInvariant ----------------------------
(* The inductive invariant of LCBroadcast, as a conjunction of named parts. *)
EXTENDS LCBroadcast

\* mtx belongs to the thread that is inside insert, if there is one.
MutexOwner ==
  \A p \in Proc, t \in Thread :
    pc[p][t] \in {"inserting", "marking"} <=> mtx[p] = t

\* The enqueuer only handles packets of its own process. What a thread is about
\* to relay is not an acknowledgement, bears the name of this process, and was
\* marked as seen before it is sent.
ThreadWork ==
  \A p \in Proc, t \in Thread :
    LET m == payload[p][t]
    IN  /\ t = "enqueuer" /\ pc[p][t] # "idle" =>
             /\ pc[p][t] \notin {"insert", "inserting"}
             /\ m.owner_id = p
             /\ m.sender_id = p
             /\ ~m.is_ack
        /\ pc[p][t] # "idle" /\ m.is_ack => WasSeen(p, m)
        /\ pc[p][t] \in {"mark", "marking", "send"} => m.sender_id = p /\ ~m.is_ack
        /\ pc[p][t] \in {"marking", "send"} => WasSeen(p, m)

\* Nobody holds a packet that its owner has not started to broadcast.
HeldWasSent ==
  \A s, o \in Proc, u \in Uid : Holds(s, o, u) => u <= enqueued_messages[o]

\* Thread t of p is handling packet u of o, received from s.
InHand(p, t, s, o, u) ==
  /\ payload[p][t].sender_id = s
  /\ payload[p][t].owner_id = o
  /\ payload[p][t].packet_uid = u

\* Whoever is named as the sender of a packet, on the network, in the hands of
\* a thread or in acked, holds that packet.
SenderHolds ==
  /\ \A k \in net :
       Holds(k.payload.sender_id, k.payload.owner_id, k.payload.packet_uid)
  /\ \A p \in Proc, t \in Thread : \A s, o \in Proc, u \in Uid :
       pc[p][t] # "idle" /\ InHand(p, t, s, o, u) => Holds(s, o, u)
  /\ \A p, s, o \in Proc : \A u \in acked[p][s][o] : Holds(s, o, u)

\* A packet is only sent by a process that has marked it as seen.
SentAfterSeen ==
  \A k \in net :
    LET m == k.payload
    IN  ~m.is_ack => m.packet_uid \in acked[m.sender_id][m.sender_id][m.owner_id]

\* vector_clock and received_up_to count the same deliveries.
ClockCounts ==
  \A p, o \in Proc : vector_clock[p][o] = received_up_to[p][o] - 1

\* No packet beyond the last one is ever counted.
NoExtraCount ==
  \A p, o \in Proc : acked_counter[p][o][MaxMsgs + 1] = 0

\* The packets of o that p has delivered are those below received_up_to, each
\* after the earlier ones.
LogMatches ==
  \A p \in Proc :
    /\ \A i \in DOMAIN deliverable[p] :
         deliverable[p][i].packet_uid
           < received_up_to[p][deliverable[p][i].owner_id]
    /\ \A o \in Proc : \A u \in 1..(received_up_to[p][o] - 1) :
         \E i \in DOMAIN deliverable[p] :
           deliverable[p][i] = [owner_id |-> o, packet_uid |-> u]
    /\ \A i, j \in DOMAIN deliverable[p] :
         i < j /\ deliverable[p][i].owner_id = deliverable[p][j].owner_id
           => deliverable[p][i].packet_uid < deliverable[p][j].packet_uid

\* Everything below received_up_to is held by a majority.
DeliveredHeld ==
  \A p, o \in Proc : \A u \in 1..(received_up_to[p][o] - 1) :
    Cardinality(Holders(o, u)) > N \div 2

\* What every step of Next preserves.
Inv ==
  /\ TypeOK
  /\ MutexOwner
  /\ ThreadWork
  /\ HeldWasSent
  /\ SenderHolds
  /\ SentAfterSeen
  /\ AckAfterSeen
  /\ CounterMatchesAcks
  /\ NoExtraCount
  /\ ClockCounts
  /\ LogMatches
  /\ DeliveredHeld

----------------------------------------------------------------------------
(* The inductive invariant for the clocks and for the end of insert's loop. *)

\* The payloads on the network and in the hands of threads, except one that
\* construct_payload is still copying the clock into.
Carried ==
  {k.payload : k \in net} \cup
    UNION {{payload[p][t] : t \in {r \in Thread : pc[p][r] \notin {"idle", "copy"}}} :
             p \in Proc}

IsPacket(m, o, u) == m.owner_id = o /\ m.packet_uid = u

\* All payloads of a packet carry the same clock.
OneClock ==
  \A m, n \in Carried : IsPacket(m, n.owner_id, n.packet_uid) => m.vector_clock = n.vector_clock

\* A packet comes after fewer packets of its owner than its number says.
OwnClock == \A m \in Carried : m.vector_clock[m.owner_id] < m.packet_uid

\* While construct_payload copies the clock nobody else has the packet, so that
\* it is not delivered meanwhile, by its owner neither.
Copying ==
  \A p \in Proc :
    pc[p]["enqueuer"] = "copy" =>
      /\ payload[p]["enqueuer"].packet_uid = enqueued_messages[p]
      /\ \A m \in Carried : ~IsPacket(m, p, enqueued_messages[p])
      /\ \A q, s \in Proc : enqueued_messages[p] \notin acked[q][s][p]
      /\ received_up_to[p][p] <= enqueued_messages[p]

\* The clocks of an owner's packets grow with their numbers, up to what the owner
\* has delivered; the one being copied began after those of its earlier packets.
GrowingClocks ==
  /\ \A m \in Carried : NotAfter(m.vector_clock, vector_clock[m.owner_id])
  /\ \A m, n \in Carried :
       m.owner_id = n.owner_id /\ m.packet_uid <= n.packet_uid
         => NotAfter(m.vector_clock, n.vector_clock)
  /\ \A p \in Proc :
       pc[p]["enqueuer"] = "copy" =>
         LET c == payload[p]["enqueuer"].vector_clock
         IN  /\ NotAfter(c, vector_clock[p])
             /\ \A m \in Carried : m.owner_id = p => NotAfter(m.vector_clock, c)

\* The next packet of o is not known to be at a majority.
NextIsWaiting(p, o) ==
  Cardinality({s \in Proc : received_up_to[p][o] \in acked[p][s][o]}) <= N \div 2

\* For an owner that nobody else affects: its next packet is at a majority only
\* while insert's loop, started by one of its packets, has still to look at it.
LoopUnfinished ==
  \A p, o \in Proc :
    Dependencies(o) = {o} =>
      \/ NextIsWaiting(p, o)
      \/ \E t \in Thread : /\ mtx[p] = t
                           /\ payload[p][t].owner_id = o
                           /\ payload[p][t].packet_uid <= received_up_to[p][o]
                           /\ cursor[p] \in DOMAIN causality[o]

ClockInv == OneClock /\ OwnClock /\ Copying /\ GrowingClocks /\ LoopUnfinished

----------------------------------------------------------------------------
(* The inductive invariant for causal order. *)

\* Some copy of packet u of o has been sent to another process.
OnNet(o, u) == \E k \in net : IsPacket(k.payload, o, u)

\* What a process has in hand from others, or has recorded that others have, is
\* on the network.
OthersOnNet ==
  \A p \in Proc :
    /\ pc[p]["receiver"] = "insert" =>
         OnNet(payload[p]["receiver"].owner_id, payload[p]["receiver"].packet_uid)
    /\ \A s \in Proc \ {p}, o \in Proc : \A u \in acked[p][s][o] : OnNet(o, u)

\* Configurations in which can_lcb_deliver, which compares the clock of the
\* payload being inserted, judges every packet by a clock that is its own or as
\* good: the packet's owner is affected by nobody else; or it broadcasts one
\* packet only and affects nobody else, so that insert's loop delivers that packet
\* when it is itself the payload. A majority of two or more hosts needs an
\* acknowledgement from another process, hence a copy of the packet on the network.
JudgedByOwnClock ==
  /\ N > 1
  /\ \A o \in Proc :
       \/ Dependencies(o) \subseteq {o}
       \/ /\ msgs_to_send_count[o] <= 1
          /\ \A x \in Proc \ {o} : o \notin Dependencies(x)

\* Before position n of p's deliveries come the packets that the clock c of a
\* packet of o counts for the processes that affect o.
CausesLogged(p, n, o, c) ==
  \A d \in Dependencies(o) : \A v \in 1..c[d] :
    \E j \in 1..(n - 1) : deliverable[p][j] = [owner_id |-> d, packet_uid |-> v]

\* Each packet delivered has a copy on the network whose clock was respected.
LogCausal ==
  \A p \in Proc : \A i \in DOMAIN deliverable[p] : \E k \in net :
    /\ IsPacket(k.payload, deliverable[p][i].owner_id, deliverable[p][i].packet_uid)
    /\ CausesLogged(p, i, deliverable[p][i].owner_id, k.payload.vector_clock)

\* broadcast_messages stops at the number in the configuration.
SendsAsAsked == \A p \in Proc : enqueued_messages[p] <= msgs_to_send_count[p]

CausalInv ==
  /\ ClockInv
  /\ SendsAsAsked
  /\ OthersOnNet
  /\ JudgedByOwnClock => LogCausal
=============================================================================
