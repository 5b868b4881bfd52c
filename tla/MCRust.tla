------------------------------- MODULE MCRust -------------------------------
(* RustBroadcast for TLC: configuration files as constants. *)
EXTENDS RustLive, RustInvariant

\* No process affected by another.
OwnLines == [p \in Proc |-> <<p>>]

\* Each process affected by all.
FullLines == [p \in Proc |-> [i \in 1..N |-> i]]

OnlyFirstSends == [p \in Proc |-> IF p = 1 THEN MaxMsgs ELSE 0]

LastSendsOne == [p \in Proc |-> IF p = N THEN 1 ELSE MaxMsgs]

\* The first process may crash, which sends, or the last, which only relays.
FirstOrLastCrashes == {Proc \ {1}, Proc \ {N}}

NobodyCrashes == {Proc}

LastThree == {{p \in Proc : p > N - 3}}

\* Receptions that would change nothing are left out.
NoRepetition ==
  \A p \in Proc :
    pc[p]["receiver"] = "idle" /\ pc'[p]["receiver"] = "insert"
      => ~Repetition(p, payload'[p]["receiver"])

\* Where the next step of a thread touches nothing but the DeliveredSet and the
\* log of its own process.
OwnWork == {"insert", "inserting", "check", "mark", "marking"}

\* The receiver, the thread that meets other processes, has such a step to take,
\* or the enqueuer is inside insert.
Busy(p) == pc[p]["receiver"] \in OwnWork \/ lock[p] = "enqueuer"

\* While a process that does not crash is busy only its own threads go on: no step
\* of another process changes what they can do, and all steps of one commute with
\* all steps of the other. A process that may crash still stops anywhere.
OwnWorkFirst ==
  \A p \in correct :
    Busy(p) => pc'[p] # pc[p] \/ deliverable'[p] # deliverable[p]

\* Only the first three processes receive anything.
FirstThreeReceive ==
  \A p \in Proc : p > 3 => pc'[p] = pc[p]
=============================================================================
