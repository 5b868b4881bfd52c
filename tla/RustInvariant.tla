--------------------------- MODULE RustInvariant ---------------------------
(* The inductive invariant of RustBroadcast, as a conjunction of named     *)
(* parts.                                                                  *)
EXTENDS RustBroadcast

\* The kinds that deliver the packets of an owner in order.
InOrder == kind \in {"Fifob", "Lcb"}

\* The lock belongs to the thread that is inside insert, if there is one.
LockOwner ==
  \A p \in Proc, t \in Thread :
    pc[p][t] \in {"inserting", "marking"} <=> lock[p] = t

\* The enqueuer only handles packets of its own process, and only the enqueuer
\* logs a broadcast. Once mark_as_seen has recorded a packet it is seen. What the
\* receiver handles is still on the network, which forgets nothing.
ThreadWork ==
  \A p \in Proc :
    /\ pc[p]["enqueuer"] # "idle" =>
         /\ pc[p]["enqueuer"] \notin {"insert", "inserting"}
         /\ payload[p]["enqueuer"].owner_id = p
    /\ pc[p]["receiver"] # "dispatch"
    /\ pc[p]["receiver"] # "idle" =>
         [destination |-> p, payload |-> payload[p]["receiver"]] \in net
    /\ \A t \in Thread :
         /\ pc[p][t] # "idle" => payload[p][t] \in Payload
         /\ pc[p][t] = "marking" => WasSeen(p, payload[p][t])

\* acked_counter is the number of processes known to have the packet.
CounterMatchesAcks ==
  \A p, o \in Proc, u \in Uid :
    acked_counter[p][o][u] = Cardinality({s \in Proc : u \in acked[p][s][o]})

\* A payload is stored exactly while its packet is known and not delivered.
Stored ==
  \A p, o \in Proc, u \in Uid :
    undelivered[p][o][u] # NoClock <=> acked_counter[p][o][u] > 0 /\ u \notin set[p][o]

\* vector_clock counts deliveries with kind Lcb, and nothing otherwise.
ClockCounts ==
  \A p, o \in Proc :
    vector_clock[p][o] = IF kind = "Lcb" THEN received_up_to[p][o] - 1 ELSE 0

\* With kind Fifob the work list is the one packet that can be delivered now, if
\* there is such a packet, and it is empty when no thread is in insert.
OneTried ==
  kind = "Fifob" =>
    \A p \in Proc :
      /\ lock[p] = "free" => deliverable[p] = <<>>
      /\ Len(deliverable[p]) <= 1
      /\ \A o \in Proc, u \in Uid :
           undelivered[p][o][u] # NoClock /\ CanFifobDeliver(p, o, u)
             => deliverable[p] = <<[owner_id |-> o, packet_uid |-> u]>>

\* The log has the deliveries of set, and when packets are delivered in order
\* those are the packets below received_up_to, each after the earlier ones.
LogMatches ==
  \A p \in Proc :
    /\ \A o \in Proc, u \in Uid : u \in set[p][o] <=> HasDelivered(p, o, u)
    /\ InOrder =>
         /\ \A o \in Proc : set[p][o] = 1..(received_up_to[p][o] - 1)
         /\ \A i, j \in DOMAIN log[p] :
              /\ i < j
              /\ log[p][i].event = "Delivery" /\ log[p][j].event = "Delivery"
              /\ log[p][i].owner_id = log[p][j].owner_id
              => log[p][i].packet_uid < log[p][j].packet_uid

\* Whoever is named as the sender of a packet, on the network, in the hands of
\* a thread or in acked, holds that packet. (With kind Beb packets are dropped.)
SenderHolds ==
  kind # "Beb" =>
    /\ \A k \in net :
         Holds(k.payload.sender_id, k.payload.owner_id, k.payload.packet_uid)
    /\ \A p \in Proc, t \in Thread :
         pc[p][t] # "idle" =>
           Holds(payload[p][t].sender_id, payload[p][t].owner_id, payload[p][t].packet_uid)
    /\ \A p, s, o \in Proc : \A u \in acked[p][s][o] : Holds(s, o, u)

\* What is delivered after counting is held by a majority.
DeliveredHeld ==
  kind \notin {"Beb", "Rb"} =>
    \A p, o \in Proc : \A u \in set[p][o] : Cardinality(Holders(o, u)) > N \div 2

\* Packet u of o has been logged by o as broadcast.
Dispatched(o, u) ==
  LoggedBefore(o, [event |-> "Dispatch", owner_id |-> o, packet_uid |-> u], Len(log[o]))

\* Every packet on the network, in the hands of a thread or in acked has been
\* logged by its owner, unless the owner's enqueuer is just about to.
CarriedDispatched ==
  /\ \A k \in net : Dispatched(k.payload.owner_id, k.payload.packet_uid)
  /\ \A p \in Proc, t \in Thread :
       pc[p][t] \notin {"idle", "dispatch"} =>
         Dispatched(payload[p][t].owner_id, payload[p][t].packet_uid)
  /\ \A p, s, o \in Proc : \A u \in acked[p][s][o] : Dispatched(o, u)

\* Packet u of o is on the network, in the hands of a thread or in undelivered
\* with clock c.
Carries(o, u, c) ==
  \/ \E k \in net : /\ k.payload.owner_id = o
                    /\ k.payload.packet_uid = u
                    /\ k.payload.vector_clock = c
  \/ \E p \in Proc, t \in Thread : /\ pc[p][t] # "idle"
                                   /\ payload[p][t].owner_id = o
                                   /\ payload[p][t].packet_uid = u
                                   /\ payload[p][t].vector_clock = c
  \/ \E p \in Proc : undelivered[p][o][u] = c /\ c # NoClock

\* Nobody has a packet that its owner has not constructed, and all copies of a
\* packet have one clock.
OneClock ==
  \A o \in Proc, u \in Uid, c \in Clock :
    Carries(o, u, c) =>
      /\ u <= enqueued[o]
      /\ \A d \in Clock : Carries(o, u, d) => d = c

\* Only what has been constructed is acknowledged; and what somebody else has
\* is on the network.
AckedSent ==
  \A p, s, o \in Proc : \A u \in acked[p][s][o] :
    /\ u <= enqueued[o]
    /\ s # p => \E k \in net : k.payload.owner_id = o /\ k.payload.packet_uid = u

\* With kind Lcb a delivery comes after what the clock of its packet counts, and
\* its packet is on the network, if there is anybody to send it to.
ClockDelivered ==
  kind = "Lcb" =>
    \A p, o \in Proc, u \in Uid :
      \A i \in DOMAIN log[p] :
        log[p][i] = Delivery(o, u) =>
          /\ N > 1 => \E k \in net : k.payload.owner_id = o /\ k.payload.packet_uid = u
          /\ \A c \in Clock :
               Carries(o, u, c) =>
                 \A d \in Dependencies(o) : \A v \in 1..c[d] :
                   LoggedBefore(p, Delivery(d, v), i - 1)

\* What every step of Next preserves.
Inv ==
  /\ TypeOK
  /\ LockOwner
  /\ ThreadWork
  /\ CounterMatchesAcks
  /\ Stored
  /\ ClockCounts
  /\ OneTried
  /\ LogMatches
  /\ SenderHolds
  /\ DeliveredHeld
  /\ CarriedDispatched
  /\ DispatchLogged
  /\ OneClock
  /\ AckedSent
  /\ ClockDelivered
=============================================================================
