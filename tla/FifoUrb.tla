------------------------------ MODULE FifoUrb ------------------------------
(***************************************************************************)
(* What FIFO uniform reliable broadcast promises, without threads, locks,  *)
(* counters, acknowledgements or a network. A message is known by its      *)
(* owner and its number. It spreads from process to process, and a process *)
(* may deliver it once a majority of all processes holds it and every      *)
(* earlier message of its owner has been delivered.                        *)
(***************************************************************************)
EXTENDS Integers, Sequences, FiniteSets

CONSTANTS N, MaxMsgs

VARIABLES
  sent,     \* sent[o]: number of messages o has broadcast
  holders,  \* holders[o][u]: the processes that have message u of o
  log       \* log[p]: what p has delivered, in order

Init ==
  /\ sent = [o \in 1..N |-> 0]
  /\ holders = [o \in 1..N |-> [u \in 1..MaxMsgs |-> {}]]
  /\ log = [p \in 1..N |-> <<>>]

InLog(p, o, u) ==
  LET l == log[p]
  IN  \E i \in DOMAIN l : l[i] = [owner_id |-> o, packet_uid |-> u]

Broadcast(o) ==
  /\ sent[o] < MaxMsgs
  /\ sent' = [sent EXCEPT ![o] = @ + 1]
  /\ holders' = [holders EXCEPT ![o][sent[o] + 1] = @ \cup {o}]
  /\ UNCHANGED log

\* Nobody holds a message that was never broadcast: it comes from a holder.
Spread(p, o, u) ==
  /\ holders[o][u] # {}
  /\ holders' = [holders EXCEPT ![o][u] = @ \cup {p}]
  /\ UNCHANGED <<sent, log>>

Deliver(p, o, u) ==
  /\ ~InLog(p, o, u)
  /\ \A v \in 1..(u - 1) : InLog(p, o, v)
  /\ Cardinality(holders[o][u]) > N \div 2
  /\ log' = [log EXCEPT ![p] = Append(@, [owner_id |-> o, packet_uid |-> u])]
  /\ UNCHANGED <<sent, holders>>

Next ==
  \E o \in 1..N :
    \/ Broadcast(o)
    \/ \E p \in 1..N, u \in 1..MaxMsgs : Spread(p, o, u) \/ Deliver(p, o, u)

Spec == Init /\ [][Next]_<<sent, holders, log>>
=============================================================================
