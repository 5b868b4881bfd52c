------------------------------ MODULE LCBLive ------------------------------
(***************************************************************************)
(* LCBroadcast with the fairness of processes that do not crash. Which     *)
(* ones do is chosen at the start. The others have no fairness: they may   *)
(* stop for good at any step.                                              *)
(***************************************************************************)
EXTENDS LCBroadcast

CONSTANT CorrectSets   \* the sets of processes that may be the correct ones

ASSUME CorrectAssumption ==
  \A S \in CorrectSets : S \subseteq Proc /\ Cardinality(S) > N \div 2

VARIABLE correct       \* the processes that never crash

liveVars == <<vars, correct>>

\* Link layer, as seen from above: keep_retransmitting_messages sends a packet
\* again until contains(recipient, packet), and each copy that arrives is
\* acknowledged again.
Retransmitted(p, m) ==
  IF m.is_ack THEN m.packet_uid \notin acked[p][m.sender_id][m.owner_id]
              ELSE m.packet_uid \notin acked[m.sender_id][p][m.owner_id]

\* Receiving m once more would add no acknowledgement, leave acked alone and
\* deliver nothing.
Repetition(p, m) ==
  /\ m.is_ack \/ Ack(p, m) \in net
  /\ m.packet_uid \in acked[p][m.sender_id][m.owner_id]
  /\ \/ m.packet_uid # received_up_to[p][m.owner_id]
     \/ \A i \in DOMAIN causality[m.owner_id] :
          ~CanLcbDeliver(p, m.vector_clock, causality[m.owner_id][i])

\* p receives, from a correct process, a message that the link layer still
\* repeats and that makes a difference to p.
ReceiveRepeated(p) ==
  \E k \in net : /\ k.payload.sender_id \in correct
                 /\ Retransmitted(p, k.payload)
                 /\ ~Repetition(p, k.payload)
                 /\ Receive(p, k.payload)

Enqueuer(p) ==
  ConstructBegin(p) \/ ConstructEnd(p) \/ ThreadStep(p, "enqueuer")

\* The threads of a correct process go on, the enqueuer also when the receiver
\* keeps locking mtx before it, and what correct processes repeat for ever
\* arrives. (Each such arrival adds to net or to acked or delivers, so there are
\* finitely many: fairness to all of them together is fairness to each.)
Fairness ==
  \A p \in Proc :
    /\ WF_liveVars(p \in correct /\ ThreadStep(p, "receiver") /\ UNCHANGED correct)
    /\ SF_liveVars(p \in correct /\ Enqueuer(p) /\ UNCHANGED correct)
    /\ SF_liveVars(p \in correct /\ ReceiveRepeated(p) /\ UNCHANGED correct)

LiveInit == Init /\ correct \in CorrectSets

LiveNext == Next /\ UNCHANGED correct

LiveSpec == LiveInit /\ [][LiveNext]_liveVars /\ Fairness

----------------------------------------------------------------------------
HasDelivered(p, o, u) ==
  \E i \in DOMAIN deliverable[p] :
    deliverable[p][i] = [owner_id |-> o, packet_uid |-> u]

\* Every packet that broadcast_messages of a correct process is asked to send
\* is delivered by every correct process, whatever the others do. (What is
\* delivered stays so: to have each some day is to have all some day.)
Validity ==
  <>(\A p, o \in correct : \A u \in 1..msgs_to_send_count[o] : HasDelivered(p, o, u))

\* A packet delivered by any process, one that then crashes included, is
\* delivered by every correct process (relaying by uniform_reliable_broadcast).
UniformAgreement ==
  \A o \in Proc : \A u \in 1..msgs_to_send_count[o] :
    (\E p \in Proc : HasDelivered(p, o, u)) ~> (\A q \in correct : HasDelivered(q, o, u))
=============================================================================
