--------------------------- MODULE RustBroadcast ---------------------------
(***************************************************************************)
(* The Rust program of rust_src/: N processes, each with a receiver thread *)
(* (keep_receiving_messages) and an enqueuer thread                        *)
(* (enqueue_broadcast_messages) that share a DeliveredSet behind a Mutex.  *)
(* Sender and retransmitter threads and UDP are the set net: a message in  *)
(* it may be received at any time, in any order, again and again or never. *)
(*                                                                         *)
(* Unlike the C++ program, best_effort_broadcast sends before it marks the *)
(* packet as seen, insert keeps a work list of packets to try, and every   *)
(* packet is judged by the clock it carries.                               *)
(***************************************************************************)
EXTENDS Integers, FiniteSets, SequencesExt, SequenceParts

CONSTANTS
  N,               \* number of hosts; their ids are 1..N
  MaxMsgs,         \* bound on the packets of one process
  messages_count,  \* first line of the configuration file of each process
  kinds,           \* the PayloadKinds to broadcast with
  lines            \* the other lines of the configuration file, lines[1]...

ASSUME NAssumption == N \in Nat /\ N >= 1
ASSUME CountAssumption == /\ MaxMsgs \in Nat
                          /\ messages_count \in [1..N -> 0..MaxMsgs]
ASSUME KindsAssumption == kinds \subseteq {"Beb", "Rb", "Urb", "Fifob", "Lcb"}
ASSUME LinesAssumption == lines \in [1..N -> Seq(1..N)]

Proc     == 1..N
Uid      == 1..MaxMsgs
PacketID == 1..(MaxMsgs + 1)
Clock    == [Proc -> 0..MaxMsgs]
NoClock  == <<>>
Thread   == {"receiver", "enqueuer"}

VARIABLES
  kind,            \* PayloadKind of all packets; enqueue_messages has "Fifob"
  acked,           \* acked[p][s][o]: packets of o that p knows s to have
  acked_counter,   \* acked_counter[p][o][u]; 0 also stands for no entry
  received_up_to,  \* received_up_to[p][o]: first packet of o not delivered
  undelivered,     \* undelivered[p][o][u]: the clock of the payload stored,
                   \*   NoClock if there is none
  set,             \* set[p][o]: the packets of o that p has delivered
  vector_clock,    \* vector_clock[p][o]
  lock,            \* lock[p]: the thread of p inside insert, or "free"
  deliverable,     \* deliverable[p]: the work list of try_delivering
  pc,              \* pc[p][t]: where thread t of p is
  payload,         \* payload[p][t]: the payload that thread is handling
  enqueued,        \* enqueued[p]: packets p has started to send
  log,             \* log[p]: the events sent to the writer, in order
  net              \* every message handed to some tx_sending_channel

setVars == <<acked, acked_counter, received_up_to, undelivered, set, vector_clock>>
vars == <<kind, setVars, lock, deliverable, pc, payload, enqueued, log, net>>

----------------------------------------------------------------------------
(* Data. *)

Payload == [sender_id : Proc, owner_id : Proc, packet_uid : Uid,
            vector_clock : Clock, is_ack : BOOLEAN]

NoPayload == [sender_id |-> 0, owner_id |-> 0, packet_uid |-> 0,
              vector_clock |-> [q \in Proc |-> 0], is_ack |-> FALSE]

Message == [destination : Proc, payload : Payload]

\* An entry of the work list. Owner 0 comes from the first line of the
\* configuration, which enumerate gives the number 0.
Deliverable == [owner_id : 0..N, packet_uid : PacketID]

LogEvent == [event : {"Dispatch", "Delivery"}, owner_id : Proc, packet_uid : Uid]

\* Where a thread is: waiting for work ("idle"); about to log the packet
\* ("dispatch"); about to lock for insert ("insert") or for mark_as_seen
\* ("mark"), and holding the lock ("inserting", "marking"); about to call
\* was_seen ("check"); about to hand its copies to the sender ("send").
Label == {"idle", "dispatch", "insert", "inserting", "check", "send", "mark", "marking"}

TypeOK ==
  /\ kind \in kinds
  /\ acked \in [Proc -> [Proc -> [Proc -> SUBSET Uid]]]
  /\ acked_counter \in [Proc -> [Proc -> [Uid -> 0..N]]]
  /\ received_up_to \in [Proc -> [Proc -> PacketID]]
  /\ undelivered \in [Proc -> [Proc -> [Uid -> Clock \cup {NoClock}]]]
  /\ set \in [Proc -> [Proc -> SUBSET Uid]]
  /\ vector_clock \in [Proc -> Clock]
  /\ lock \in [Proc -> Thread \cup {"free"}]
  /\ deliverable \in [Proc -> Seq(Deliverable)]
  /\ pc \in [Proc -> [Thread -> Label]]
  /\ payload \in [Proc -> [Thread -> Payload \cup {NoPayload}]]
  /\ enqueued \in [Proc -> 0..MaxMsgs]
  /\ log \in [Proc -> Seq(LogEvent)]
  /\ net \in SUBSET Message

Init ==
  /\ kind \in kinds
  /\ acked = [p \in Proc |-> [s \in Proc |-> [o \in Proc |-> {}]]]
  /\ acked_counter = [p \in Proc |-> [o \in Proc |-> [u \in Uid |-> 0]]]
  /\ received_up_to = [p \in Proc |-> [o \in Proc |-> 1]]
  /\ undelivered = [p \in Proc |-> [o \in Proc |-> [u \in Uid |-> NoClock]]]
  /\ set = [p \in Proc |-> [o \in Proc |-> {}]]
  /\ vector_clock = [p \in Proc |-> [o \in Proc |-> 0]]
  /\ lock = [p \in Proc |-> "free"]
  /\ deliverable = [p \in Proc |-> <<>>]
  /\ pc = [p \in Proc |-> [t \in Thread |-> "idle"]]
  /\ payload = [p \in Proc |-> [t \in Thread |-> NoPayload]]
  /\ enqueued = [p \in Proc |-> 0]
  /\ log = [p \in Proc |-> <<>>]
  /\ net = {}

----------------------------------------------------------------------------
(* ConfigLcb::read. *)

\* causality_map.get(o): lines are numbered from 0, so o finds the line of the
\* process after it, and the last process finds none.
Dependencies(o) == IF o < N THEN ToSet(lines[o + 1]) ELSE {}

\* inverted_causality_map.get(d), in the order of the lines.
AffectedNodes(d) ==
  Kept([i \in 1..N |-> i - 1], {o \in 0..(N - 1) : d \in ToSet(lines[o + 1])})

----------------------------------------------------------------------------
(* DeliveredSet. *)

\* Fault: half of the processes taken for a majority.
MajorityHalf == N \div 2

Majority == (N \div 2) + 1

CanUrbDeliver(p, o, u) == acked_counter[p][o][u] >= Majority

\* Fault: order ignored.
CanFifobDeliverAnyOrder(p, o, u) == CanUrbDeliver(p, o, u)

CanFifobDeliver(p, o, u) ==
  CanUrbDeliver(p, o, u) /\ u = received_up_to[p][o]

\* Fault: dependencies ignored.
CanLcbDeliverAnyClock(p, o, u) == CanFifobDeliver(p, o, u)

CanLcbDeliver(p, o, u) ==
  /\ CanFifobDeliver(p, o, u)
  /\ \A d \in Dependencies(o) : vector_clock[p][d] >= undelivered[p][o][u][d]

CanDeliver(p, o, u) ==
  CASE kind \in {"Beb", "Rb"} -> TRUE
    [] kind = "Urb"   -> CanUrbDeliver(p, o, u)
    [] kind = "Fifob" -> CanFifobDeliver(p, o, u)
    [] kind = "Lcb"   -> CanLcbDeliver(p, o, u)

\* The last entry of the work list has a stored payload that can be delivered.
CanDeliverLast(p) ==
  LET o == Last(deliverable[p]).owner_id
      u == Last(deliverable[p]).packet_uid
  IN  /\ deliverable[p] # <<>>
      /\ o \in Proc
      /\ u \in Uid
      /\ undelivered[p][o][u] # NoClock
      /\ CanDeliver(p, o, u)

\* Fault: duplicates counted again.
AlreadyAckedNever(p, s, o, u) == FALSE

\* Fault: a packet counted once, whoever has it.
AlreadyAckedByAny(p, s, o, u) == \E r \in Proc : u \in acked[p][r][o]

AlreadyAcked(p, s, o, u) == u \in acked[p][s][o]

\* insert up to try_delivering. mark_as_seen is insert in the name of p.
Insert(p, t) ==
  LET m == payload[p][t]
      s == IF pc[p][t] = "mark" THEN p ELSE m.sender_id
      o == m.owner_id
      u == m.packet_uid
  IN  /\ pc[p][t] \in {"insert", "mark"}
      /\ lock[p] = "free"
      /\ lock' = [lock EXCEPT ![p] = t]
      /\ acked' = [acked EXCEPT ![p][s][o] = @ \cup {u}]
      /\ acked_counter' = [acked_counter EXCEPT ![p][o][u] =
           IF AlreadyAcked(p, s, o, u) THEN @ ELSE @ + 1]
      /\ undelivered' = [undelivered EXCEPT ![p][o][u] =
           IF u \in set[p][o] THEN @ ELSE m.vector_clock]
      /\ deliverable' = [deliverable EXCEPT ![p] =
           IF u \in set[p][o] THEN <<>>
           ELSE <<[owner_id |-> o, packet_uid |-> u]>>]
      /\ pc' = [pc EXCEPT ![p][t] = IF @ = "mark" THEN "marking" ELSE "inserting"]
      /\ UNCHANGED <<kind, received_up_to, set, vector_clock, payload, enqueued, log,
                     net>>

\* Fault: the next packet of the owner not tried.
NextTriedNone(o, u) == <<>>

\* What fifob_deliver asks to try after packet u of o.
NextTried(o, u) == <<[owner_id |-> o, packet_uid |-> u + 1]>>

\* What lcb_deliver adds: the next packet of each process affected by o.
AffectedTried(p, o, u) ==
  LET upTo(a) == CASE a = o -> u + 1
                   [] a \in Proc \ {o} -> received_up_to[p][a]
                   [] OTHER -> 1
      nodes == AffectedNodes(o)
  IN  [i \in DOMAIN nodes |-> [owner_id |-> nodes[i], packet_uid |-> upTo(nodes[i])]]

\* One round of the loop of try_delivering that delivers.
Deliver(p, t) ==
  LET o == Last(deliverable[p]).owner_id
      u == Last(deliverable[p]).packet_uid
  IN  /\ pc[p][t] \in {"inserting", "marking"}
      /\ CanDeliverLast(p)
      /\ undelivered' = [undelivered EXCEPT ![p][o][u] = NoClock]
      /\ set' = [set EXCEPT ![p][o] = @ \cup {u}]
      /\ log' = [log EXCEPT ![p] =
           Append(@, [event |-> "Delivery", owner_id |-> o, packet_uid |-> u])]
      /\ received_up_to' = [received_up_to EXCEPT ![p][o] =
           IF kind \in {"Fifob", "Lcb"} THEN u + 1 ELSE @]
      /\ vector_clock' = [vector_clock EXCEPT ![p][o] =
           IF kind = "Lcb" THEN @ + 1 ELSE @]
      /\ deliverable' = [deliverable EXCEPT ![p] =
           Front(@) \o (IF kind \in {"Fifob", "Lcb"} THEN NextTried(o, u) ELSE <<>>)
                    \o (IF kind = "Lcb" THEN AffectedTried(p, o, u) ELSE <<>>)]
      /\ UNCHANGED <<kind, acked, acked_counter, lock, pc, payload, enqueued, net>>

\* try_delivering returns at the end of the work list, or at the first entry it
\* cannot deliver, whatever is left in the list. insert unlocks.
InsertReturn(p, t) ==
  /\ pc[p][t] \in {"inserting", "marking"}
  /\ ~CanDeliverLast(p)
  /\ deliverable' = [deliverable EXCEPT ![p] = <<>>]
  /\ lock' = [lock EXCEPT ![p] = "free"]
  /\ IF pc[p][t] = "inserting" /\ kind # "Beb"
       THEN /\ pc' = [pc EXCEPT ![p][t] = "check"]
            /\ UNCHANGED payload
       ELSE /\ pc' = [pc EXCEPT ![p][t] = "idle"]
            /\ payload' = [payload EXCEPT ![p][t] = NoPayload]
  /\ UNCHANGED <<kind, setVars, enqueued, log, net>>

----------------------------------------------------------------------------
(* keep_receiving_messages. *)

\* The acknowledgement of m; the sender thread makes p its sender.
Ack(p, m) ==
  [destination |-> m.sender_id,
   payload     |-> [m EXCEPT !.sender_id = p, !.is_ack = TRUE]]

Receive(p, m) ==
  /\ pc[p]["receiver"] = "idle"
  /\ [destination |-> p, payload |-> m] \in net
  /\ net' = net \cup (IF m.is_ack THEN {} ELSE {Ack(p, m)})
  /\ payload' = [payload EXCEPT ![p]["receiver"] = m]
  /\ pc' = [pc EXCEPT ![p]["receiver"] = "insert"]
  /\ UNCHANGED <<kind, setVars, lock, deliverable, enqueued, log>>

----------------------------------------------------------------------------
(* enqueue_broadcast_messages. *)

\* The next payload, with a copy of vector_clock made under the lock.
Construct(p) ==
  /\ pc[p]["enqueuer"] = "idle"
  /\ enqueued[p] < messages_count[p]
  /\ lock[p] = "free"
  /\ enqueued' = [enqueued EXCEPT ![p] = @ + 1]
  /\ payload' = [payload EXCEPT ![p]["enqueuer"] =
       [sender_id |-> p, owner_id |-> p, packet_uid |-> enqueued[p] + 1,
        vector_clock |-> vector_clock[p], is_ack |-> FALSE]]
  /\ pc' = [pc EXCEPT ![p]["enqueuer"] = "dispatch"]
  /\ UNCHANGED <<kind, setVars, lock, deliverable, log, net>>

AfterDispatch == IF kind = "Beb" THEN "send" ELSE "check"

\* Fault: the broadcast not logged.
DispatchUnlogged(p) ==
  /\ pc[p]["enqueuer"] = "dispatch"
  /\ pc' = [pc EXCEPT ![p]["enqueuer"] = AfterDispatch]
  /\ UNCHANGED <<kind, setVars, lock, deliverable, payload, enqueued, log, net>>

\* The broadcast is logged before it begins.
Dispatch(p) ==
  /\ pc[p]["enqueuer"] = "dispatch"
  /\ log' = [log EXCEPT ![p] =
       Append(@, [event |-> "Dispatch", owner_id |-> p,
                  packet_uid |-> payload[p]["enqueuer"].packet_uid])]
  /\ pc' = [pc EXCEPT ![p]["enqueuer"] = AfterDispatch]
  /\ UNCHANGED <<kind, setVars, lock, deliverable, payload, enqueued, net>>

----------------------------------------------------------------------------
(* reliable_broadcast and best_effort_broadcast, called by both threads. *)

\* Fault: was_seen asks about the sender instead of this process.
WasSeenBySender(p, m) == m.packet_uid \in acked[p][m.sender_id][m.owner_id]

WasSeen(p, m) == m.packet_uid \in acked[p][p][m.owner_id]

\* was_seen answers true: nothing to relay.
SkipSeen(p, t) ==
  /\ pc[p][t] = "check"
  /\ lock[p] = "free"
  /\ WasSeen(p, payload[p][t])
  /\ pc' = [pc EXCEPT ![p][t] = "idle"]
  /\ payload' = [payload EXCEPT ![p][t] = NoPayload]
  /\ UNCHANGED <<kind, setVars, lock, deliverable, enqueued, log, net>>

\* was_seen answers false; the lock is free again until mark_as_seen.
RelayUnseen(p, t) ==
  /\ pc[p][t] = "check"
  /\ lock[p] = "free"
  /\ ~WasSeen(p, payload[p][t])
  /\ pc' = [pc EXCEPT ![p][t] = "send"]
  /\ UNCHANGED <<kind, setVars, lock, deliverable, payload, enqueued, log, net>>

\* Fault: packets of other owners not relayed.
CopiesOwnOnly(p, m) ==
  {[destination |-> q, payload |-> [m EXCEPT !.sender_id = p]] :
     q \in {r \in Proc \ {p} : m.owner_id = p}}

\* A copy of m for each other host, its is_ack flag included; the sender thread
\* makes p its sender.
Copies(p, m) ==
  {[destination |-> q, payload |-> [m EXCEPT !.sender_id = p]] : q \in Proc \ {p}}

\* best_effort_broadcast up to mark_as_seen.
SendCopies(p, t) ==
  /\ pc[p][t] = "send"
  /\ net' = net \cup Copies(p, payload[p][t])
  /\ pc' = [pc EXCEPT ![p][t] = "mark"]
  /\ UNCHANGED <<kind, setVars, lock, deliverable, payload, enqueued, log>>

----------------------------------------------------------------------------
ThreadStep(p, t) ==
  \/ Insert(p, t)
  \/ Deliver(p, t)
  \/ InsertReturn(p, t)
  \/ SkipSeen(p, t)
  \/ RelayUnseen(p, t)
  \/ SendCopies(p, t)

Next ==
  \E p \in Proc :
    \/ \E k \in net : Receive(p, k.payload)
    \/ Construct(p)
    \/ Dispatch(p)
    \/ \E t \in Thread : ThreadStep(p, t)

Spec == Init /\ [][Next]_vars

----------------------------------------------------------------------------
(* Properties. *)

Delivery(o, u) == [event |-> "Delivery", owner_id |-> o, packet_uid |-> u]

\* Event e is among the first n of the log of p.
LoggedBefore(p, e, n) == \E i \in 1..n : log[p][i] = e

HasDelivered(p, o, u) == LoggedBefore(p, Delivery(o, u), Len(log[p]))

\* Process s has packet u of o: marked as seen, or in the hands of a thread.
Holds(s, o, u) ==
  \/ u \in acked[s][s][o]
  \/ \E t \in Thread : /\ pc[s][t] # "idle"
                       /\ payload[s][t].owner_id = o
                       /\ payload[s][t].packet_uid = u

Holders(o, u) == {s \in Proc : Holds(s, o, u)}

\* The work list of try_delivering, whatever order packets and acknowledgements
\* come in, delivers the packets of each owner in order, without gaps and once.
FifoDelivery ==
  \A p \in Proc :
    \A i \in DOMAIN log[p] :
      LET e == log[p][i]
      IN  e.event = "Delivery" =>
            /\ \A v \in 1..(e.packet_uid - 1) :
                 LoggedBefore(p, Delivery(e.owner_id, v), i - 1)
            /\ ~LoggedBefore(p, e, i - 1)

\* A packet delivered by anybody is in the log of its owner as broadcast, and
\* in the owner's own log before the delivery: enqueue_broadcast_messages sends
\* the Dispatch event before it broadcasts.
DispatchLogged ==
  \A p, o \in Proc, u \in Uid :
    LET dispatch == [event |-> "Dispatch", owner_id |-> o, packet_uid |-> u]
    IN  \A i \in DOMAIN log[p] :
          log[p][i] = Delivery(o, u) =>
            LoggedBefore(o, dispatch, IF o = p THEN i - 1 ELSE Len(log[o]))

\* Whatever a process delivers is held by a majority of all processes, although
\* it is counted when it acknowledges, before it has recorded anything, and
\* marks a packet only after sending its copies.
UniformDelivery ==
  \A p, o \in Proc, u \in Uid :
    HasDelivered(p, o, u) => Cardinality(Holders(o, u)) > N \div 2

\* A payload is stored exactly while its packet is known and not delivered. With
\* kind Fifob the next packet of an owner never waits with a majority when no
\* thread is in insert: the work list has not stopped too early.
NothingLeftWaiting ==
  \A p, o \in Proc, u \in Uid :
    lock[p] = "free" =>
      /\ undelivered[p][o][u] # NoClock
           <=> acked_counter[p][o][u] > 0 /\ u \notin set[p][o]
      /\ ~(kind = "Fifob" /\ undelivered[p][o][u] # NoClock /\ CanFifobDeliver(p, o, u))

\* The clock its owner gave to packet u of o, on any copy of it.
PacketClock(o, u) ==
  (CHOOSE k \in net : k.payload.owner_id = o /\ k.payload.packet_uid = u)
    .payload.vector_clock

\* With kind Lcb: what the clock of a packet counts, for the processes that
\* causality_map gives for its owner, is delivered before it everywhere, the
\* packets delivered from the work list included.
ClockRespected ==
  kind = "Lcb" => \A p \in Proc :
    \A i \in DOMAIN log[p] :
      LET e == log[p][i]
      IN  e.event = "Delivery" =>
            \A d \in Dependencies(e.owner_id) :
              \A v \in 1..PacketClock(e.owner_id, e.packet_uid)[d] :
                LoggedBefore(p, Delivery(d, v), i - 1)

\* What FifoUrb logs for a delivery.
Delivered ==
  [e \in [event : {"Delivery"}, owner_id : Proc, packet_uid : Uid]
     |-> [owner_id |-> e.owner_id, packet_uid |-> e.packet_uid]]

\* The deliveries in the log of p.
Deliveries(p) == KeptImages(log[p], Delivered)

FU == INSTANCE FifoUrb WITH
        sent    <- enqueued,
        holders <- [o \in Proc |-> [u \in Uid |-> Holders(o, u)]],
        log     <- [p \in Proc |-> Deliveries(p)]

\* With kind Fifob or Lcb the Rust program implements the same abstract broadcast as
\* the C++ program: a step of a thread is a broadcast, the spread of one packet
\* to one process, one delivery, or nothing.
ImplementsFifoUrb == FU!Spec
=============================================================================
