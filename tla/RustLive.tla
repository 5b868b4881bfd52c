------------------------------ MODULE RustLive ------------------------------
(***************************************************************************)
(* RustBroadcast with the fairness of processes that do not crash. Which   *)
(* ones do is chosen at the start. The others have no fairness: they may   *)
(* stop for good at any step, or go on receiving and delivering while      *)
(* nothing they send arrives, as when the sender thread has panicked.      *)
(***************************************************************************)
EXTENDS RustBroadcast

CONSTANT CorrectSets   \* the sets of processes that may be the correct ones

ASSUME CorrectAssumption ==
  \A S \in CorrectSets : S \subseteq Proc /\ Cardinality(S) > N \div 2

VARIABLE correct       \* the processes that never crash

liveVars == <<vars, correct>>

\* Packet u of o is in retransmission from s to q: s has sent it as a packet
\* (acknowledgements are not retransmitted) and does not know that q has it.
Retransmitting(s, q, o, u) ==
  /\ u \notin acked[s][q][o]
  /\ \E k \in net : /\ k.destination = q
                    /\ k.payload.sender_id = s
                    /\ k.payload.owner_id = o
                    /\ k.payload.packet_uid = u
                    /\ ~k.payload.is_ack

\* The copies of m for p keep coming: a packet while it is retransmitted, an
\* acknowledgement while the packet it answers is. An acknowledgement that was
\* relayed answers nothing and is sent once.
Repeated(p, m) ==
  IF m.is_ack THEN Retransmitting(p, m.sender_id, m.owner_id, m.packet_uid)
              ELSE Retransmitting(m.sender_id, p, m.owner_id, m.packet_uid)

\* Receiving m once more would add no acknowledgement, leave acked alone and
\* deliver nothing.
Repetition(p, m) ==
  /\ m.is_ack \/ Ack(p, m) \in net
  /\ m.packet_uid \in acked[p][m.sender_id][m.owner_id]
  /\ WasSeen(p, m)
  /\ \/ m.packet_uid \in set[p][m.owner_id]
     \/ ~CanDeliver(p, m.owner_id, m.packet_uid)

ReceiveRepeated(p) ==
  /\ pc[p]["receiver"] = "idle"
  /\ \E k \in net : /\ k.destination = p
                    /\ k.payload.sender_id \in correct
                    /\ ~Repetition(p, k.payload)
                    /\ Repeated(p, k.payload)
                    /\ Receive(p, k.payload)

Enqueuer(p) == Construct(p) \/ Dispatch(p) \/ ThreadStep(p, "enqueuer")

\* The threads of a correct process go on, the enqueuer also when the receiver
\* keeps locking before it, and what correct processes repeat for ever arrives.
Fairness ==
  \A p \in Proc :
    /\ WF_liveVars(p \in correct /\ ThreadStep(p, "receiver") /\ UNCHANGED correct)
    /\ SF_liveVars(p \in correct /\ Enqueuer(p) /\ UNCHANGED correct)
    /\ SF_liveVars(p \in correct /\ ReceiveRepeated(p) /\ UNCHANGED correct)

LiveInit == Init /\ correct \in CorrectSets

LiveNext == Next /\ UNCHANGED correct

LiveSpec == LiveInit /\ [][LiveNext]_liveVars /\ Fairness

----------------------------------------------------------------------------
\* Every packet that a correct process is configured to send is delivered by
\* every correct process, although best_effort_broadcast sends it before it
\* marks it and the other processes may be silent. (Deliveries stay in the log:
\* to have all again and again is to have each some day.)
Validity ==
  []<>(\A p, o \in correct : \A u \in 1..messages_count[o] : HasDelivered(p, o, u))

\* What any process delivers, one that then crashes or is silent included, every
\* correct process delivers. (What is delivered stays delivered, so this is
\* "delivered by one leads to delivered by all".)
UniformAgreement ==
  \A o \in Proc : \A u \in 1..messages_count[o] :
    []<>((\E p \in Proc : HasDelivered(p, o, u)) => \A q \in correct : HasDelivered(q, o, u))
=============================================================================
