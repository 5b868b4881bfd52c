-------------------------- MODULE SafeQueueProofs --------------------------
(***************************************************************************)
(* SafeQueue for any number of producers, consumers and items: the queue   *)
(* is first in, first out, size() is at most one off, and no wakeup is     *)
(* lost.                                                                   *)
(***************************************************************************)
EXTENDS SafeQueue, FiniteSetTheorems, TLAPS

\* A thread inside enqueue or dequeue, and not in wait, holds the mutex.
MutexHeld ==
  \A t \in Thread : pc[t] \notin {"lock", "wait"} <=> mtx = t

\* Between push and increment q_size is one short, between pop and decrement
\* one ahead; otherwise it is the length.
SizeExact ==
  q_size = Len(q) + (IF mtx = "none" THEN 0
                     ELSE IF pc[mtx] = "grow" THEN -1
                     ELSE IF pc[mtx] = "shrink" THEN 1 ELSE 0)

\* front() and pop() are only reached with an item in the queue, and push()
\* leaves one.
NotEmpty == \A t \in Thread : pc[t] \in {"pop", "grow", "notify"} => q # <<>>

\* The bound on the items of a producer still holds when it pushes.
MayPush == \A p \in Producer : pc[p] = "push" => Pushed(p) < MaxItems

\* The waiting consumers are the ones in wait.
Asleep == \A c \in Consumer : c \in waiting <=> pc[c] = "wait"

\* The inductive invariant.
QueueInv ==
  /\ TypeOK
  /\ Asleep
  /\ MutexHeld
  /\ SizeExact
  /\ NotEmpty
  /\ MayPush
  /\ FirstInFirstOut
  /\ NoLostWakeup

----------------------------------------------------------------------------
\* The number of items a producer has pushed is a number.
LEMMA PushedNat ==
  ASSUME TypeOK, NEW p \in Producer
  PROVE  Pushed(p) \in Nat
<1> DEFINE S == {i \in DOMAIN put : put[i][1] = p}
<1>1. S \subseteq 1..Len(put) /\ Len(put) \in Nat
  BY DEF TypeOK
<1>2. IsFiniteSet(1..Len(put))
  BY <1>1, FS_Interval
<1>3. IsFiniteSet(S)
  BY <1>1, <1>2, FS_Subset
<1>4. Cardinality(S) \in Nat
  BY <1>3, FS_CardinalityType
<1> QED BY <1>4 DEF Pushed

\* Pushing after concatenating is concatenating after pushing.
LEMMA AppendConcat ==
  ASSUME NEW s \in Seq(Item), NEW r \in Seq(Item), NEW x \in Item
  PROVE  Append(s \o r, x) = s \o Append(r, x)
OBVIOUS

\* Moving the head of the second sequence to the end of the first.
LEMMA HeadConcat ==
  ASSUME NEW s \in Seq(Item), NEW r \in Seq(Item), r # <<>>
  PROVE  s \o r = Append(s, Head(r)) \o Tail(r)
OBVIOUS

\* The initial state.
LEMMA InitQueueInv == Init => QueueInv
BY ThreadsAssumption, ItemsAssumption
   DEF Init, QueueInv, TypeOK, MutexHeld, SizeExact, NotEmpty, MayPush,
       Asleep, FirstInFirstOut, NoLostWakeup, Thread, Label

\* lock_guard, unique_lock or the return from wait.
LEMMA LockQueueInv ==
  ASSUME QueueInv, NEW t \in Thread, Lock(t)
  PROVE  QueueInv'
<1> USE DEF QueueInv
<1>1. TypeOK'
  BY ThreadsAssumption DEF Lock, TypeOK, Thread, Label
<1>2. MutexHeld'
  BY ThreadsAssumption DEF Lock, TypeOK, MutexHeld, Thread, Label
<1>3. SizeExact'
  BY ThreadsAssumption DEF Lock, TypeOK, SizeExact, Thread, Label
<1>4. NotEmpty'
  BY DEF Lock, TypeOK, NotEmpty
<1>5. MayPush'
  BY ThreadsAssumption DEF Lock, TypeOK, MayPush, Pushed, Thread
<1>6. FirstInFirstOut'
  BY DEF Lock, FirstInFirstOut
<1>7. NoLostWakeup'
  BY ThreadsAssumption DEF Lock, TypeOK, NoLostWakeup, Thread
<1>10. Asleep'
  BY ThreadsAssumption DEF Lock, TypeOK, Asleep, Thread
<1> QED BY <1>1, <1>2, <1>3, <1>4, <1>5, <1>6, <1>7, <1>10

\* push().
LEMMA PushQueueInv ==
  ASSUME QueueInv, NEW p \in Producer, Push(p)
  PROVE  QueueInv'
<1> DEFINE x == <<p, Pushed(p) + 1>>
<1> USE DEF QueueInv
<1>0. x \in Item
  BY PushedNat, ItemsAssumption DEF Push, MayPush, Item
<1>1. TypeOK'
  <2>1. q' \in Seq(Item) /\ put' \in Seq(Item)
    BY <1>0 DEF Push, TypeOK
  <2> QED BY <2>1, ThreadsAssumption DEF Push, TypeOK, Thread, Label
<1>2. mtx = p /\ mtx' = p
  BY DEF Push, MutexHeld, Thread
<1>3. MutexHeld'
  BY <1>2 DEF Push, TypeOK, MutexHeld, Thread
<1>4. SizeExact'
  <2>1. q_size = Len(q)
    BY <1>2, ThreadsAssumption DEF Push, TypeOK, SizeExact, Thread
  <2>2. Len(q') = Len(q) + 1 /\ Len(q) \in Nat
    BY <1>0 DEF Push, TypeOK
  <2>3. pc'[p] = "grow"
    BY DEF Push, TypeOK, Thread
  <2> QED BY <1>2, <2>1, <2>2, <2>3, ThreadsAssumption DEF Push, SizeExact, Thread
<1>5. q' # <<>>
  BY <1>0 DEF Push, TypeOK
<1>6. NotEmpty'
  BY <1>5 DEF NotEmpty
<1>7. MayPush'
  <2>1. \A r \in Producer : pc'[r] # "push"
    BY <1>2, <1>3 DEF Push, TypeOK, MutexHeld, Thread
  <2> QED BY <2>1 DEF MayPush
<1>8. FirstInFirstOut'
  <2>1. Append(got \o q, x) = got \o Append(q, x)
    BY <1>0, AppendConcat DEF TypeOK
  <2> QED BY <2>1 DEF Push, FirstInFirstOut
<1>9. NoLostWakeup'
  BY DEF Push, TypeOK, NoLostWakeup, Thread
<1>10. Asleep'
  BY ThreadsAssumption DEF Push, TypeOK, Asleep, Thread
<1> QED BY <1>1, <1>3, <1>4, <1>6, <1>7, <1>8, <1>9, <1>10

\* q_size++.
LEMMA GrowQueueInv ==
  ASSUME QueueInv, NEW p \in Producer, Grow(p)
  PROVE  QueueInv'
<1> USE DEF QueueInv
<1>1. TypeOK'
  BY ThreadsAssumption DEF Grow, TypeOK, Thread, Label
<1>2. mtx = p /\ mtx' = p
  BY DEF Grow, MutexHeld, Thread
<1>3. MutexHeld'
  BY <1>2 DEF Grow, TypeOK, MutexHeld, Thread
<1>4. SizeExact'
  BY <1>2, ThreadsAssumption DEF Grow, TypeOK, SizeExact, Thread
<1>5. NotEmpty'
  BY DEF Grow, TypeOK, NotEmpty, Thread
<1>6. MayPush'
  BY DEF Grow, TypeOK, MayPush, Pushed, Thread
<1>7. FirstInFirstOut'
  BY DEF Grow, FirstInFirstOut
<1>8. NoLostWakeup'
  BY DEF Grow, TypeOK, NoLostWakeup, Thread
<1>10. Asleep'
  BY ThreadsAssumption DEF Grow, TypeOK, Asleep, Thread
<1> QED BY <1>1, <1>3, <1>4, <1>5, <1>6, <1>7, <1>8, <1>10

\* notify_one() and the release of the mutex.
LEMMA NotifyQueueInv ==
  ASSUME QueueInv, NEW p \in Producer, Notify(p)
  PROVE  QueueInv'
<1> USE DEF QueueInv
<1>0. \/ waiting = {} /\ waiting' = waiting /\ pc' = [pc EXCEPT ![p] = "lock"]
      \/ \E c \in waiting : /\ waiting' = waiting \ {c}
                            /\ pc' = [pc EXCEPT ![p] = "lock", ![c] = "lock"]
  BY DEF Notify
<1>1. TypeOK'
  BY <1>0, ThreadsAssumption DEF Notify, TypeOK, Thread, Label
<1>2. mtx = p /\ mtx' = "none"
  BY DEF Notify, MutexHeld, Thread
<1>3. \A t \in Thread : pc'[t] = pc[t] \/ pc'[t] = "lock"
  BY <1>0 DEF TypeOK, Thread
<1>4. MutexHeld'
  <2>1. pc'[p] = "lock"
    BY <1>0 DEF TypeOK, Thread
  <2> QED BY <1>2, <1>3, <2>1, ThreadsAssumption DEF MutexHeld, Thread
<1>5. SizeExact'
  BY <1>2, ThreadsAssumption DEF Notify, TypeOK, SizeExact, Thread
<1>6. NotEmpty'
  BY <1>3 DEF Notify, NotEmpty
<1>7. MayPush'
  BY <1>3 DEF Notify, MayPush, Pushed, Thread
<1>8. FirstInFirstOut'
  BY DEF Notify, FirstInFirstOut
<1>9. NoLostWakeup'
  BY <1>0, ThreadsAssumption DEF TypeOK, NoLostWakeup
<1>10. Asleep'
  BY <1>0, ThreadsAssumption DEF Notify, TypeOK, Asleep, Thread
<1> QED BY <1>1, <1>4, <1>5, <1>6, <1>7, <1>8, <1>9, <1>10

\* empty() answers false.
LEMMA TestFullQueueInv ==
  ASSUME QueueInv, NEW c \in Consumer, TestFull(c)
  PROVE  QueueInv'
<1> USE DEF QueueInv
<1>1. TypeOK'
  BY ThreadsAssumption DEF TestFull, TypeOK, Thread, Label
<1>2. mtx = c /\ mtx' = c
  BY DEF TestFull, MutexHeld, Thread
<1>3. MutexHeld'
  BY <1>2 DEF TestFull, TypeOK, MutexHeld, Thread
<1>4. SizeExact'
  BY <1>2, ThreadsAssumption DEF TestFull, TypeOK, SizeExact, Thread
<1>5. NotEmpty'
  BY DEF TestFull, TypeOK, NotEmpty, Thread
<1>6. MayPush'
  BY ThreadsAssumption DEF TestFull, TypeOK, MayPush, Pushed, Thread
<1>7. FirstInFirstOut'
  BY DEF TestFull, FirstInFirstOut
<1>8. NoLostWakeup'
  BY ThreadsAssumption DEF TestFull, TypeOK, NoLostWakeup, Thread
<1>10. Asleep'
  BY ThreadsAssumption DEF TestFull, TypeOK, Asleep, Thread
<1> QED BY <1>1, <1>3, <1>4, <1>5, <1>6, <1>7, <1>8, <1>10

\* empty() answers true, and wait releases the mutex.
LEMMA TestEmptyQueueInv ==
  ASSUME QueueInv, NEW c \in Consumer, TestEmpty(c)
  PROVE  QueueInv'
<1> USE DEF QueueInv
<1>1. TypeOK'
  BY ThreadsAssumption DEF TestEmpty, TypeOK, Thread, Label
<1>2. mtx = c /\ mtx' = "none"
  BY DEF TestEmpty, MutexHeld, Thread
<1>3. MutexHeld'
  BY <1>2, ThreadsAssumption DEF TestEmpty, TypeOK, MutexHeld, Thread
<1>4. SizeExact'
  BY <1>2, ThreadsAssumption DEF TestEmpty, TypeOK, SizeExact, Thread
<1>5. NotEmpty'
  BY DEF TestEmpty, TypeOK, NotEmpty, Thread
<1>6. MayPush'
  BY ThreadsAssumption DEF TestEmpty, TypeOK, MayPush, Pushed, Thread
<1>7. FirstInFirstOut'
  BY DEF TestEmpty, FirstInFirstOut
<1>8. NoLostWakeup'
  BY DEF TestEmpty, NoLostWakeup
<1>10. Asleep'
  BY ThreadsAssumption DEF TestEmpty, TypeOK, Asleep, Thread
<1> QED BY <1>1, <1>3, <1>4, <1>5, <1>6, <1>7, <1>8, <1>10

\* wait returns without a notification.
LEMMA SpuriousWakeupQueueInv ==
  ASSUME QueueInv, NEW c \in Consumer, SpuriousWakeup(c)
  PROVE  QueueInv'
<1> USE DEF QueueInv
<1>0. pc[c] = "wait" /\ mtx # c
  BY DEF SpuriousWakeup, Asleep, MutexHeld, Thread
<1>1. TypeOK'
  BY ThreadsAssumption DEF SpuriousWakeup, TypeOK, Thread, Label
<1>2. MutexHeld'
  BY <1>0 DEF SpuriousWakeup, TypeOK, MutexHeld, Thread
<1>3. SizeExact'
  BY <1>0, ThreadsAssumption DEF SpuriousWakeup, TypeOK, SizeExact, Thread
<1>4. NotEmpty'
  BY DEF SpuriousWakeup, TypeOK, NotEmpty, Thread
<1>5. MayPush'
  BY ThreadsAssumption DEF SpuriousWakeup, TypeOK, MayPush, Pushed, Thread
<1>6. FirstInFirstOut'
  BY DEF SpuriousWakeup, FirstInFirstOut
<1>7. NoLostWakeup'
  BY DEF SpuriousWakeup, NoLostWakeup
<1>8. Asleep'
  BY ThreadsAssumption DEF SpuriousWakeup, TypeOK, Asleep, Thread
<1> QED BY <1>1, <1>2, <1>3, <1>4, <1>5, <1>6, <1>7, <1>8

\* front() and pop().
LEMMA PopQueueInv ==
  ASSUME QueueInv, NEW c \in Consumer, Pop(c)
  PROVE  QueueInv'
<1> USE DEF QueueInv
<1>0. q \in Seq(Item) /\ q # <<>>
  BY DEF Pop, TypeOK, NotEmpty, Thread
<1>1. TypeOK'
  <2>1. q' \in Seq(Item) /\ got' \in Seq(Item)
    BY <1>0 DEF Pop, TypeOK
  <2> QED BY <2>1, ThreadsAssumption DEF Pop, TypeOK, Thread, Label
<1>2. mtx = c /\ mtx' = c
  BY DEF Pop, MutexHeld, Thread
<1>3. MutexHeld'
  BY <1>2 DEF Pop, TypeOK, MutexHeld, Thread
<1>4. SizeExact'
  <2>1. q_size = Len(q)
    BY <1>2, ThreadsAssumption DEF Pop, TypeOK, SizeExact, Thread
  <2>2. Len(q') = Len(q) - 1 /\ Len(q) \in Nat
    BY <1>0 DEF Pop
  <2>3. pc'[c] = "shrink"
    BY DEF Pop, TypeOK, Thread
  <2>4. mtx' # "none" /\ q_size' = Len(q') + 1 /\ pc'[mtx'] = "shrink"
    BY <1>2, <2>1, <2>2, <2>3, ThreadsAssumption DEF Pop, Thread
  <2> QED BY <2>4 DEF SizeExact
<1>5. NotEmpty'
  <2>1. \A t \in Thread : pc'[t] \notin {"pop", "grow", "notify"}
    BY <1>2, <1>3 DEF Pop, TypeOK, MutexHeld, Thread
  <2> QED BY <2>1 DEF NotEmpty
<1>6. MayPush'
  BY ThreadsAssumption DEF Pop, TypeOK, MayPush, Pushed, Thread
<1>7. FirstInFirstOut'
  <2>1. got \o q = Append(got, Head(q)) \o Tail(q)
    BY <1>0, HeadConcat DEF TypeOK
  <2> QED BY <2>1 DEF Pop, FirstInFirstOut
<1>8. Asleep'
  BY ThreadsAssumption DEF Pop, TypeOK, Asleep, Thread
<1>9. NoLostWakeup'
  <2>1. pc'[c] = "shrink"
    BY DEF Pop, TypeOK, Thread
  <2>2. c \notin waiting'
    BY <1>8, <2>1 DEF Asleep
  <2> QED BY <2>2 DEF NoLostWakeup
<1> QED BY <1>1, <1>3, <1>4, <1>5, <1>6, <1>7, <1>8, <1>9

\* q_size-- and the return of dequeue.
LEMMA ShrinkQueueInv ==
  ASSUME QueueInv, NEW c \in Consumer, Shrink(c)
  PROVE  QueueInv'
<1> USE DEF QueueInv
<1>2. mtx = c /\ mtx' = "none"
  BY DEF Shrink, MutexHeld, Thread
<1>0. q_size = Len(q) + 1 /\ Len(q) \in Nat
  BY <1>2, ThreadsAssumption DEF Shrink, TypeOK, SizeExact, Thread
<1>1. TypeOK'
  BY <1>0, ThreadsAssumption DEF Shrink, TypeOK, Thread, Label
<1>3. MutexHeld'
  BY <1>2, ThreadsAssumption DEF Shrink, TypeOK, MutexHeld, Thread
<1>4. SizeExact'
  BY <1>0, <1>2 DEF Shrink, SizeExact
<1>5. NotEmpty'
  BY DEF Shrink, TypeOK, NotEmpty, Thread
<1>6. MayPush'
  BY ThreadsAssumption DEF Shrink, TypeOK, MayPush, Pushed, Thread
<1>7. FirstInFirstOut'
  BY DEF Shrink, FirstInFirstOut
<1>8. Asleep'
  BY ThreadsAssumption DEF Shrink, TypeOK, Asleep, Thread
<1>9. NoLostWakeup'
  <2>1. c \notin waiting'
    BY DEF Shrink, Asleep
  <2> QED BY <2>1 DEF NoLostWakeup
<1> QED BY <1>1, <1>3, <1>4, <1>5, <1>6, <1>7, <1>8, <1>9

----------------------------------------------------------------------------
\* Every step of every thread keeps the invariant.
LEMMA NextQueueInv == QueueInv /\ [Next]_vars => QueueInv'
<1> SUFFICES ASSUME QueueInv, [Next]_vars PROVE QueueInv'
  OBVIOUS
<1>1. CASE UNCHANGED vars
  BY <1>1 DEF vars, QueueInv, TypeOK, Asleep, MutexHeld, SizeExact, NotEmpty,
              MayPush, Pushed, FirstInFirstOut, NoLostWakeup
<1>2. ASSUME NEW p \in Producer, Enqueue(p) PROVE QueueInv'
  <2>1. CASE Lock(p)
    BY <2>1, LockQueueInv DEF Thread
  <2>2. CASE Push(p)
    BY <2>2, PushQueueInv
  <2>3. CASE Grow(p)
    BY <2>3, GrowQueueInv
  <2>4. CASE Notify(p)
    BY <2>4, NotifyQueueInv
  <2> QED BY <1>2, <2>1, <2>2, <2>3, <2>4 DEF Enqueue
<1>3. ASSUME NEW c \in Consumer, Dequeue(c) \/ SpuriousWakeup(c) PROVE QueueInv'
  <2>1. CASE Lock(c)
    BY <2>1, LockQueueInv DEF Thread
  <2>2. CASE TestFull(c)
    BY <2>2, TestFullQueueInv
  <2>3. CASE TestEmpty(c)
    BY <2>3, TestEmptyQueueInv
  <2>4. CASE Pop(c)
    BY <2>4, PopQueueInv
  <2>5. CASE Shrink(c)
    BY <2>5, ShrinkQueueInv
  <2>6. CASE SpuriousWakeup(c)
    BY <2>6, SpuriousWakeupQueueInv
  <2> QED BY <1>3, <2>1, <2>2, <2>3, <2>4, <2>5, <2>6 DEF Dequeue
<1> QED BY <1>1, <1>2, <1>3 DEF Next

\* The invariant holds in every reachable state.
LEMMA QueueInvHolds == Spec => []QueueInv
BY InitQueueInv, NextQueueInv, PTL DEF Spec

\* Every thread is where its code can be, and the queue holds items.
THEOREM QueueTypeCorrect == Spec => []TypeOK
<1>1. QueueInv => TypeOK
  BY DEF QueueInv
<1> QED BY <1>1, QueueInvHolds, PTL

\* Whatever the producers and consumers, the items come out in the order in
\* which enqueue put them in, none lost and none twice.
THEOREM QueueIsFifo == Spec => []FirstInFirstOut
<1>1. QueueInv => FirstInFirstOut
  BY DEF QueueInv
<1> QED BY <1>1, QueueInvHolds, PTL

\* size(), which takes no lock, is never more than one off and never wraps
\* below zero.
THEOREM QueueSizeMatches == Spec => []SizeMatches
<1>1. QueueInv => SizeMatches
  <2> SUFFICES ASSUME QueueInv PROVE SizeMatches
    OBVIOUS
  <2>1. Len(q) \in Nat /\ q_size \in Nat
    BY DEF QueueInv, TypeOK
  <2> QED BY <2>1 DEF QueueInv, SizeExact, SizeMatches
<1> QED BY <1>1, QueueInvHolds, PTL

\* dequeue never sleeps through an item: when all consumers wait and the queue
\* is not empty, an enqueue is still to notify.
THEOREM QueueNoLostWakeup == Spec => []NoLostWakeup
<1>1. QueueInv => NoLostWakeup
  BY DEF QueueInv
<1> QED BY <1>1, QueueInvHolds, PTL
=============================================================================
