---------------------------- MODULE BoundedQueue ----------------------------
(***************************************************************************)
(* lez7/es7/boundedqueue.c: a ring buffer shared by threads, protected by  *)
(* one mutex m and two condition variables, cfull (producers wait for a    *)
(* free slot) and cempty (consumers wait for an element).                  *)
(*                                                                         *)
(* The callers are arbitrary: any thread may call push or pop at any time, *)
(* so what holds here holds for every program that uses the queue.         *)
(* TestBQueue composes this module with the program that tests it.         *)
(*                                                                         *)
(* A thread's program counter is "idle" outside the queue; "push"/"pop"    *)
(* when it must acquire m (at entry, and again after a wait); "push_in"/   *)
(* "pop_in" when it holds m in front of the while test; "push_wait"/       *)
(* "pop_wait" when it is blocked in pthread_cond_wait.  No other thread    *)
(* can act on the queue while m is held, so what follows a successful      *)
(* test, down to UNLOCK, is one step.                                      *)
(***************************************************************************)
EXTENDS Integers, Sequences, FiniteSets

CONSTANTS Threads,      \* threads of the program
          Data,         \* non-null pointers the program pushes
          NULL,         \* the null pointer; also "nobody" as owner of m
          qsize,        \* number of slots, the argument of initBQueue
          SizeRange     \* number of values of size_t, 2^64 on the target

ASSUME QueueAssumption ==
    /\ NULL \notin Threads \cup Data
    /\ qsize \in Nat \ {0}
    /\ SizeRange \in Nat
    /\ qsize < SizeRange

ASSUME FiniteThreads == IsFiniteSet(Threads)

VARIABLES buf,    \* the slots
          head,   \* index of the oldest element
          tail,   \* index of the next free slot
          qlen,   \* number of elements
          m,      \* owner of the mutex, NULL when free
          pc,     \* program counter of each thread
          data    \* data[t]: the argument of t's push, the result of t's pop

vars == <<buf, head, tail, qlen, m, pc, data>>

Slots == 0 .. qsize - 1

\* The threads blocked on cfull and on cempty.
WaitingProducers == {t \in Threads : pc[t] = "push_wait"}
WaitingConsumers == {t \in Threads : pc[t] = "pop_wait"}

\* Faults for the mutation runs: no wrap, wrap one slot too early.
AdvanceNoWrap(i) == i + 1
AdvanceEarly(i) == IF i + 2 >= qsize THEN 0 ELSE i + 1

(* head and tail advance in size_t arithmetic: at the last slot the code   *)
(* adds 1-qsize, which wraps, and relies on the sum wrapping back to 0.    *)
Advance(i) ==
    LET step == IF i + 1 >= qsize THEN (1 - qsize) % SizeRange ELSE 1
    IN  (i + step) % SizeRange

Init == /\ buf = [i \in Slots |-> NULL]
        /\ head = 0
        /\ tail = 0
        /\ qlen = 0
        /\ m = NULL
        /\ pc = [t \in Threads |-> "idle"]
        /\ data = [t \in Threads |-> NULL]

\* Fault: push does not look at its argument.
PushCallUnchecked(t, d) ==
    /\ pc[t] = "idle"
    /\ pc' = [pc EXCEPT ![t] = "push"]
    /\ data' = [data EXCEPT ![t] = d]
    /\ UNCHANGED <<buf, head, tail, qlen, m>>

\* push(q, d) is called; with a null d it returns -1 at once and does nothing.
PushCall(t, d) ==
    /\ pc[t] = "idle"
    /\ d # NULL
    /\ pc' = [pc EXCEPT ![t] = "push"]
    /\ data' = [data EXCEPT ![t] = d]
    /\ UNCHANGED <<buf, head, tail, qlen, m>>

PopCall(t) ==
    /\ pc[t] = "idle"
    /\ pc' = [pc EXCEPT ![t] = "pop"]
    /\ data' = [data EXCEPT ![t] = NULL]
    /\ UNCHANGED <<buf, head, tail, qlen, m>>

\* LOCK(&q->m), at entry or on the way out of pthread_cond_wait.
LockQueue(t) ==
    /\ pc[t] \in {"push", "pop"}
    /\ m = NULL
    /\ m' = t
    /\ pc' = [pc EXCEPT ![t] = IF pc[t] = "push" THEN "push_in" ELSE "pop_in"]
    /\ UNCHANGED <<buf, head, tail, qlen, data>>

\* while (q->qlen == q->qsize) WAIT(&q->cfull, &q->m)
WaitToProduce(t) ==
    /\ pc[t] = "push_in"
    /\ qlen = qsize
    /\ m' = NULL
    /\ pc' = [pc EXCEPT ![t] = "push_wait"]
    /\ UNCHANGED <<buf, head, tail, qlen, data>>

\* while (q->qlen == 0) WAIT(&q->cempty, &q->m)
WaitToConsume(t) ==
    /\ pc[t] = "pop_in"
    /\ qlen = 0
    /\ m' = NULL
    /\ pc' = [pc EXCEPT ![t] = "pop_wait"]
    /\ UNCHANGED <<buf, head, tail, qlen, data>>

\* Faults: a signal only when the queue was empty, or only when it was full.
Wake(t, waiting, resume) ==
    \/ waiting = {} /\ pc' = [pc EXCEPT ![t] = "idle"]
    \/ \E w \in waiting : pc' = [pc EXCEPT ![t] = "idle", ![w] = resume]
SignalIfEmpty(t, waiting, resume) ==
    Wake(t, IF resume = "pop" /\ qlen # 0 THEN {} ELSE waiting, resume)
SignalIfFull(t, waiting, resume) ==
    Wake(t, IF resume = "push" /\ qlen # qsize THEN {} ELSE waiting, resume)

(* SIGNAL(&q->cempty) / SIGNAL(&q->cfull) and the return of t: the signal  *)
(* wakes one of the threads that wait, which then competes for m; it is    *)
(* lost when nobody waits.                                                 *)
SignalAndReturn(t, waiting, resume) ==
    \/ /\ waiting = {}
       /\ pc' = [pc EXCEPT ![t] = "idle"]
    \/ \E w \in waiting : pc' = [pc EXCEPT ![t] = "idle", ![w] = resume]

\* The rest of push once there is a free slot.
Put(t) ==
    /\ pc[t] = "push_in"
    /\ qlen # qsize
    /\ buf' = [buf EXCEPT ![tail] = data[t]]
    /\ tail' = Advance(tail)
    /\ qlen' = qlen + 1
    /\ SignalAndReturn(t, WaitingConsumers, "pop")
    /\ m' = NULL
    /\ UNCHANGED <<head, data>>

\* The rest of pop once there is an element.
Take(t) ==
    /\ pc[t] = "pop_in"
    /\ qlen # 0
    /\ data' = [data EXCEPT ![t] = buf[head]]
    /\ buf' = [buf EXCEPT ![head] = NULL]
    /\ head' = Advance(head)
    /\ qlen' = qlen - 1
    /\ SignalAndReturn(t, WaitingProducers, "push")
    /\ m' = NULL
    /\ UNCHANGED tail

\* pthread_cond_wait may return although nobody signalled.
SpuriousWakeup(t) ==
    /\ pc[t] \in {"push_wait", "pop_wait"}
    /\ pc' = [pc EXCEPT ![t] = IF pc[t] = "push_wait" THEN "push" ELSE "pop"]
    /\ UNCHANGED <<buf, head, tail, qlen, m, data>>

\* What a thread does inside push and pop, once called.
Inside(t) == \/ LockQueue(t)
             \/ WaitToProduce(t)
             \/ WaitToConsume(t)
             \/ Put(t)
             \/ Take(t)

Next == \E t \in Threads : \/ \E d \in Data \cup {NULL} : PushCall(t, d)
                           \/ PopCall(t)
                           \/ Inside(t)
                           \/ SpuriousWakeup(t)

Spec == Init /\ [][Next]_vars
-----------------------------------------------------------------------------
\* Types of the queue's fields and of the threads' locals.
TypeOK ==
    /\ buf \in [Slots -> Data \cup {NULL}]
    /\ head \in Slots
    /\ tail \in Slots
    /\ qlen \in 0 .. qsize
    /\ m \in Threads \cup {NULL}
    /\ pc \in [Threads -> {"idle", "push", "push_in", "push_wait",
                           "pop", "pop_in", "pop_wait"}]
    /\ data \in [Threads -> Data \cup {NULL}]

(* Mutual exclusion: the fields of the queue are touched by one thread at  *)
(* a time, the owner of m, also when threads come back from a wait.        *)
MutualExclusion ==
    \A t \in Threads : pc[t] \in {"push_in", "pop_in"} <=> m = t

\* The k-th slot from head, wrapping at the end of the array.
Slot(k) == IF head + k >= qsize THEN head + k - qsize ELSE head + k

(* The ring is coherent: tail is qlen slots after head, the slots between  *)
(* them and no others hold an element.  It is why assert(q->buf[q->tail]   *)
(* == NULL) in push holds (the Makefile compiles it out with -DNDEBUG) and *)
(* why pop never returns NULL; it rests on push refusing a null pointer.   *)
RingInv ==
    /\ tail = Slot(qlen)
    /\ \A k \in Slots : buf[Slot(k)] = NULL <=> k >= qlen
    /\ \A t \in Threads :
          pc[t] \in {"push", "push_in", "push_wait"} => data[t] # NULL

\* The threads that are about to test the queue again, woken or arriving.
Producing == {t \in Threads : pc[t] \in {"push", "push_in"}}
Consuming == {t \in Threads : pc[t] \in {"pop", "pop_in"}}

\* While a consumer waits, at least as many consumers are awake as there are
\* elements; while a producer waits, as many producers as free slots.
ConsumersAwake == WaitingConsumers # {} => Cardinality(Consuming) >= qlen
ProducersAwake == WaitingProducers # {} => Cardinality(Producing) >= qsize - qlen

(* One signal per operation, sent whatever the state, is enough: there is  *)
(* always an awake thread for each element or slot that waiters could use. *)
WakeupInv == ConsumersAwake /\ ProducersAwake

(* No lost wakeup: a thread that waits while the queue could serve it is   *)
(* never left alone with it, another thread of its kind is awake; so       *)
(* producers and consumers never all wait for one another.                 *)
NoLostWakeup ==
    /\ WaitingConsumers # {} /\ qlen > 0 => Consuming # {}
    /\ WaitingProducers # {} /\ qlen < qsize => Producing # {}
    /\ WaitingConsumers # {} /\ WaitingProducers # {}
          => Consuming \cup Producing # {}

\* The elements of the queue, oldest first, and the operation t is in.
Items == [k \in 1 .. qlen |-> buf[Slot(k - 1)]]
Op == [t \in Threads |->
         IF pc[t] = "idle" THEN "idle"
         ELSE IF pc[t] \in {"push", "push_in", "push_wait"} THEN "push"
         ELSE "pop"]

(* The ring buffer implements the blocking FIFO queue of BoundedFifo: each *)
(* operation takes effect at once, in its critical section.                *)
Fifo == INSTANCE BoundedFifo WITH
    Capacity <- qsize, items <- Items, op <- Op, val <- data

\* Every behaviour of boundedqueue.c is one of the abstract queue.
ImplementsFifo == Fifo!Spec
=============================================================================
