----------------------------- MODULE MCLCBLive -----------------------------
(* LCBLive for TLC: which processes may crash, and a reduction. *)
EXTENDS LCBLive, MCLCBroadcast

\* Any minority may crash.
Majorities == {S \in SUBSET Proc : Cardinality(S) > N \div 2}

NobodyCrashes == {Proc}

----------------------------------------------------------------------------
\* Receptions that would change nothing are left out.
NoRepetition ==
  \A p \in Proc :
    pc[p]["receiver"] = "idle" /\ pc'[p]["receiver"] = "insert"
      => ~Repetition(p, payload'[p]["receiver"])

\* A process that may crash still stops anywhere.
CorrectWorkFirst == OwnWorkBefore(correct)
=============================================================================
