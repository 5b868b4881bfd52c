--------------------------- MODULE MCLCBroadcast ---------------------------
(* LCBroadcast for TLC: configuration files and packets as constants. *)
EXTENDS LCBInvariant

\* Each process is affected by all the earlier ones.
ChainLines == [p \in Proc |-> <<p>> \o [i \in 1..(p - 1) |-> i]]

OnlyFirstSends == [p \in Proc |-> IF p = 1 THEN MaxMsgs ELSE 0]

AllSend == [p \in Proc |-> MaxMsgs]

\* The first process sends one packet, the others as many as they can.
FirstSendsOne == [p \in Proc |-> IF p = 1 THEN 1 ELSE MaxMsgs]

\* The last process sends one packet, the others as many as they can.
LastSendsOne == [p \in Proc |-> IF p = N THEN 1 ELSE MaxMsgs]
----------------------------------------------------------------------------
\* Where the next step of a thread touches nothing but the DeliveredSet of its
\* own process. (The step from "mark" is not counted: AckAfterSeen looks at what
\* it records from another process.)
OwnWork == {"insert", "inserting", "check", "marking"}

\* The receiver, the thread that meets other processes, has such a step to take,
\* or the enqueuer is inside insert.
Busy(p) == pc[p]["receiver"] \in OwnWork \/ mtx[p] = "enqueuer"

\* While a process of S is busy only its own threads go on: no step of another
\* process changes what they can do, and all steps of one commute with all steps
\* of the other.
OwnWorkBefore(S) ==
  \A p \in S : Busy(p) => pc'[p] # pc[p] \/ deliverable'[p] # deliverable[p]
=============================================================================
