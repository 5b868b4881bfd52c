----------------------------- MODULE SafeQueue -----------------------------
(***************************************************************************)
(* SafeQueue<T> of ts_queue.hpp: a queue under a mutex, with a condition   *)
(* variable for consumers and an atomic q_size that size() reads without   *)
(* the mutex. Each producer calls enqueue MaxItems times; consumers call   *)
(* dequeue for ever.                                                       *)
(***************************************************************************)
EXTENDS Integers, Sequences, FiniteSets

CONSTANTS Producer, Consumer, MaxItems

ASSUME ThreadsAssumption ==
  /\ Producer \cap Consumer = {}
  /\ Consumer # {}
  /\ "none" \notin Producer \cup Consumer
ASSUME ItemsAssumption == MaxItems \in Nat

Thread == Producer \cup Consumer
Item   == Producer \X (1..MaxItems)

VARIABLES
  q,        \* the std::queue
  q_size,
  mtx,      \* the thread that holds the mutex, or "none"
  waiting,  \* the threads blocked in cond_var.wait
  pc,       \* pc[t]: where thread t is
  put,      \* put: the items pushed so far, in order
  got       \* got: the items popped so far, in order

vars == <<q, q_size, mtx, waiting, pc, put, got>>

\* "lock": about to lock the mutex; "push", "grow", "notify": in enqueue;
\* "test", "pop", "shrink": in dequeue; "wait": in cond_var.wait.
Label == {"lock", "push", "grow", "notify", "test", "pop", "shrink", "wait"}

TypeOK ==
  /\ q \in Seq(Item)
  /\ q_size \in Nat
  /\ mtx \in Thread \cup {"none"}
  /\ waiting \in SUBSET Consumer
  /\ pc \in [Thread -> Label]
  /\ \A p \in Producer : pc[p] \in {"lock", "push", "grow", "notify"}
  /\ \A c \in Consumer : pc[c] \in {"lock", "test", "pop", "shrink", "wait"}
  /\ put \in Seq(Item)
  /\ got \in Seq(Item)

Init ==
  /\ q = <<>>
  /\ q_size = 0
  /\ mtx = "none"
  /\ waiting = {}
  /\ pc = [t \in Thread |-> "lock"]
  /\ put = <<>>
  /\ got = <<>>

\* The number of items of p pushed so far.
Pushed(p) == Cardinality({i \in DOMAIN put : put[i][1] = p})

----------------------------------------------------------------------------
\* lock_guard, unique_lock, or the end of cond_var.wait.
Lock(t) ==
  /\ pc[t] = "lock"
  /\ mtx = "none"
  /\ t \in Producer => Pushed(t) < MaxItems
  /\ mtx' = t
  /\ pc' = [pc EXCEPT ![t] = IF t \in Producer THEN "push" ELSE "test"]
  /\ UNCHANGED <<q, q_size, waiting, put, got>>

Push(p) ==
  /\ pc[p] = "push"
  /\ q' = Append(q, <<p, Pushed(p) + 1>>)
  /\ put' = Append(put, <<p, Pushed(p) + 1>>)
  /\ pc' = [pc EXCEPT ![p] = "grow"]
  /\ UNCHANGED <<q_size, mtx, waiting, got>>

\* Fault: q_size not incremented.
GrowForgotten(p) ==
  /\ pc[p] = "grow"
  /\ pc' = [pc EXCEPT ![p] = "notify"]
  /\ UNCHANGED <<q, q_size, mtx, waiting, put, got>>

Grow(p) ==
  /\ pc[p] = "grow"
  /\ q_size' = q_size + 1
  /\ pc' = [pc EXCEPT ![p] = "notify"]
  /\ UNCHANGED <<q, mtx, waiting, put, got>>

\* Fault: nobody notified.
NotifyForgotten(p) ==
  /\ pc[p] = "notify"
  /\ mtx' = "none"
  /\ pc' = [pc EXCEPT ![p] = "lock"]
  /\ UNCHANGED <<q, q_size, waiting, put, got>>

\* notify_one wakes one of the threads that wait, and the mutex is released.
Notify(p) ==
  /\ pc[p] = "notify"
  /\ mtx' = "none"
  /\ IF waiting = {}
       THEN /\ pc' = [pc EXCEPT ![p] = "lock"]
            /\ UNCHANGED waiting
       ELSE \E c \in waiting :
              /\ waiting' = waiting \ {c}
              /\ pc' = [pc EXCEPT ![p] = "lock", ![c] = "lock"]
  /\ UNCHANGED <<q, q_size, put, got>>

\* The queue is not empty.
TestFull(c) ==
  /\ pc[c] = "test"
  /\ q # <<>>
  /\ pc' = [pc EXCEPT ![c] = "pop"]
  /\ UNCHANGED <<q, q_size, mtx, waiting, put, got>>

\* The queue is empty: wait releases the mutex.
TestEmpty(c) ==
  /\ pc[c] = "test"
  /\ q = <<>>
  /\ pc' = [pc EXCEPT ![c] = "wait"]
  /\ waiting' = waiting \cup {c}
  /\ mtx' = "none"
  /\ UNCHANGED <<q, q_size, put, got>>

\* wait may return without a notification.
SpuriousWakeup(c) ==
  /\ c \in waiting
  /\ waiting' = waiting \ {c}
  /\ pc' = [pc EXCEPT ![c] = "lock"]
  /\ UNCHANGED <<q, q_size, mtx, put, got>>

\* Fault: the front not popped.
PopForgotten(c) ==
  /\ pc[c] = "pop"
  /\ got' = Append(got, Head(q))
  /\ pc' = [pc EXCEPT ![c] = "shrink"]
  /\ UNCHANGED <<q, q_size, mtx, waiting, put>>

Pop(c) ==
  /\ pc[c] = "pop"
  /\ got' = Append(got, Head(q))
  /\ q' = Tail(q)
  /\ pc' = [pc EXCEPT ![c] = "shrink"]
  /\ UNCHANGED <<q_size, mtx, waiting, put>>

\* Fault: q_size not decremented.
ShrinkForgotten(c) ==
  /\ pc[c] = "shrink"
  /\ mtx' = "none"
  /\ pc' = [pc EXCEPT ![c] = "lock"]
  /\ UNCHANGED <<q, q_size, waiting, put, got>>

\* q_size is decremented, and the mutex released when dequeue returns.
Shrink(c) ==
  /\ pc[c] = "shrink"
  /\ q_size' = q_size - 1
  /\ mtx' = "none"
  /\ pc' = [pc EXCEPT ![c] = "lock"]
  /\ UNCHANGED <<q, waiting, put, got>>

----------------------------------------------------------------------------
Enqueue(p) == Lock(p) \/ Push(p) \/ Grow(p) \/ Notify(p)

Dequeue(c) == Lock(c) \/ TestFull(c) \/ TestEmpty(c) \/ Pop(c) \/ Shrink(c)

Next ==
  \/ \E p \in Producer : Enqueue(p)
  \/ \E c \in Consumer : Dequeue(c) \/ SpuriousWakeup(c)

Spec == Init /\ [][Next]_vars

\* Threads that can go on do; no thread is kept from the mutex for ever.
Fairness ==
  /\ \A p \in Producer : SF_vars(Enqueue(p))
  /\ \A c \in Consumer : SF_vars(Dequeue(c))

LiveSpec == Spec /\ Fairness

----------------------------------------------------------------------------
(* Properties. *)

\* Consumers take the items in the order in which producers put them, none
\* twice and none lost, whichever threads they are.
FirstInFirstOut == put = got \o q

\* What size() reads without the mutex: while no thread is inside enqueue or
\* dequeue it is the length, otherwise a length the queue had or is about to
\* have, and never below zero, where it would wrap.
SizeMatches ==
  /\ mtx = "none" => q_size = Len(q)
  /\ q_size \in {Len(q), Len(q) - 1, Len(q) + 1}
  /\ q_size >= 0

\* An item never lies in the queue with all consumers asleep, unless a producer
\* is about to notify one.
NoLostWakeup ==
  q # <<>> => \/ \E c \in Consumer : c \notin waiting
              \/ \E p \in Producer : pc[p] \in {"grow", "notify"}

\* Everything that is enqueued is dequeued, also when several items come
\* before the first waiting consumer runs.
AllTaken ==
  \A x \in Item : (\E i \in DOMAIN put : put[i] = x) ~> (\E i \in DOMAIN got : got[i] = x)
=============================================================================
