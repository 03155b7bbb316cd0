------------------------- MODULE BoundedQueueProofs -------------------------
(***************************************************************************)
(* Theorems about BoundedQueue, for any finite or infinite set of threads  *)
(* unless cardinalities are counted, any data and any number of slots;     *)
(* their proofs use QueueAssumption and FiniteThreads only.  The inductive *)
(* invariant is built in layers: types, then the owner of the mutex, then  *)
(* the shape of the ring, then the number of threads that are awake.       *)
(*                                                                         *)
(* Then testBQueue.c, for any number of producers, consumers and messages, *)
(* and any size of the queue.  First the intervals of the producers, a     *)
(* recursive function: it exists, has a closed form, and partitions the    *)
(* messages.  Then the program seen on the abstract queue of BoundedFifo:  *)
(* every step calls an operation, appends, removes the oldest element or   *)
(* does not touch the queue (ViewStep, from the lemmas of the first part). *)
(* The inductive invariant TestInv speaks of that sequence of elements:    *)
(* Control says where the threads are, EndsAreLast that the EOS are behind *)
(* the messages, Ordered that the messages of a producer are in order,     *)
(* consumed ones first.  The properties of TestBQueue follow, those that   *)
(* count slots by a bijection between slots and positions (SlotCount).     *)
(***************************************************************************)
EXTENDS TestBQueue, TLAPS, FiniteSetTheorems

(* q->head and q->tail stay inside the array: the two wrapping additions   *)
(* of size_t amount to "next slot, or back to 0".                          *)
LEMMA AdvanceValue ==
    ASSUME NEW k \in Slots
    PROVE  Advance(k) = IF k + 1 = qsize THEN 0 ELSE k + 1
<1>1. CASE k + 1 < qsize
  <2>1. Advance(k) = (k + 1) % SizeRange
    BY <1>1, QueueAssumption DEF Advance, Slots
  <2>2. k + 1 \in 0 .. SizeRange - 1
    BY <1>1, QueueAssumption DEF Slots
  <2> QED BY <1>1, <2>1, <2>2, QueueAssumption DEF Slots
<1>2. CASE k + 1 = qsize
  <2>1. Advance(k) = (k + ((1 - qsize) % SizeRange)) % SizeRange
    BY <1>2, QueueAssumption DEF Advance, Slots
  <2>2. CASE qsize = 1
    BY <1>2, <2>1, <2>2, QueueAssumption DEF Slots
  <2>3. CASE qsize > 1
    <3>1. (1 - qsize) % SizeRange = SizeRange + 1 - qsize
      BY <2>3, QueueAssumption
    <3> QED BY <1>2, <2>1, <3>1, QueueAssumption DEF Slots
  <2> QED BY <2>2, <2>3, QueueAssumption
<1> QED BY <1>1, <1>2, QueueAssumption DEF Slots

LEMMA TypeStep == TypeOK /\ [Next]_vars => TypeOK'
<1> SUFFICES ASSUME TypeOK, [Next]_vars PROVE TypeOK'
  OBVIOUS
<1> USE DEF TypeOK
<1>1. ASSUME NEW t \in Threads, NEW d \in Data \cup {NULL}, PushCall(t, d)
      PROVE  TypeOK'
  BY <1>1 DEF PushCall
<1>2. ASSUME NEW t \in Threads, PopCall(t) PROVE TypeOK'
  BY <1>2 DEF PopCall
<1>3. ASSUME NEW t \in Threads, LockQueue(t) PROVE TypeOK'
  BY <1>3 DEF LockQueue
<1>4. ASSUME NEW t \in Threads, WaitToProduce(t) PROVE TypeOK'
  BY <1>4 DEF WaitToProduce
<1>5. ASSUME NEW t \in Threads, WaitToConsume(t) PROVE TypeOK'
  BY <1>5 DEF WaitToConsume
<1>6. ASSUME NEW t \in Threads, Put(t) PROVE TypeOK'
  <2>1. tail' \in Slots
    BY <1>6, AdvanceValue, QueueAssumption DEF Put, Slots
  <2>2. qlen' \in 0 .. qsize
    BY <1>6, QueueAssumption DEF Put
  <2>3. pc' \in [Threads -> {"idle", "push", "push_in", "push_wait",
                             "pop", "pop_in", "pop_wait"}]
    BY <1>6 DEF Put, SignalAndReturn, WaitingConsumers
  <2> QED BY <1>6, <2>1, <2>2, <2>3 DEF Put
<1>7. ASSUME NEW t \in Threads, Take(t) PROVE TypeOK'
  <2>1. head' \in Slots
    BY <1>7, AdvanceValue, QueueAssumption DEF Take, Slots
  <2>2. qlen' \in 0 .. qsize
    BY <1>7, QueueAssumption DEF Take
  <2>3. pc' \in [Threads -> {"idle", "push", "push_in", "push_wait",
                             "pop", "pop_in", "pop_wait"}]
    BY <1>7 DEF Take, SignalAndReturn, WaitingProducers
  <2> QED BY <1>7, <2>1, <2>2, <2>3 DEF Take
<1>8. ASSUME NEW t \in Threads, SpuriousWakeup(t) PROVE TypeOK'
  BY <1>8 DEF SpuriousWakeup
<1>9. CASE UNCHANGED vars
  BY <1>9 DEF vars
<1> QED
  BY <1>1, <1>2, <1>3, <1>4, <1>5, <1>6, <1>7, <1>8, <1>9 DEF Next, Inside

(* The fields of the queue keep their types, in particular both indices    *)
(* stay in the array and qlen between 0 and qsize.                         *)
THEOREM TypeCorrect == Spec => []TypeOK
<1>1. Init => TypeOK
  BY QueueAssumption DEF Init, TypeOK, Slots
<1> QED BY <1>1, TypeStep, PTL DEF Spec

LEMMA MutexStep ==
    TypeOK /\ MutualExclusion /\ [Next]_vars => MutualExclusion'
<1> SUFFICES ASSUME TypeOK, MutualExclusion, [Next]_vars
             PROVE  MutualExclusion'
  OBVIOUS
<1> USE QueueAssumption DEF TypeOK, MutualExclusion
<1>1. ASSUME NEW t \in Threads, NEW d \in Data \cup {NULL}, PushCall(t, d)
      PROVE  MutualExclusion'
  BY <1>1 DEF PushCall
<1>2. ASSUME NEW t \in Threads, PopCall(t) PROVE MutualExclusion'
  BY <1>2 DEF PopCall
<1>3. ASSUME NEW t \in Threads, LockQueue(t) PROVE MutualExclusion'
  BY <1>3 DEF LockQueue
<1>4. ASSUME NEW t \in Threads, WaitToProduce(t) PROVE MutualExclusion'
  BY <1>4 DEF WaitToProduce
<1>5. ASSUME NEW t \in Threads, WaitToConsume(t) PROVE MutualExclusion'
  BY <1>5 DEF WaitToConsume
<1>6. ASSUME NEW t \in Threads, Put(t) PROVE MutualExclusion'
  BY <1>6 DEF Put, SignalAndReturn, WaitingConsumers
<1>7. ASSUME NEW t \in Threads, Take(t) PROVE MutualExclusion'
  BY <1>7 DEF Take, SignalAndReturn, WaitingProducers
<1>8. ASSUME NEW t \in Threads, SpuriousWakeup(t) PROVE MutualExclusion'
  BY <1>8 DEF SpuriousWakeup
<1>9. CASE UNCHANGED vars
  BY <1>9 DEF vars
<1> QED
  BY <1>1, <1>2, <1>3, <1>4, <1>5, <1>6, <1>7, <1>8, <1>9 DEF Next, Inside

(* Only the owner of m is between LOCK and UNLOCK, whatever the waits and  *)
(* spurious wakeups in between.                                            *)
THEOREM MutexCorrect == Spec => []MutualExclusion
<1>1. Init => MutualExclusion
  BY QueueAssumption DEF Init, MutualExclusion
<1> QED BY <1>1, TypeCorrect, MutexStep, PTL DEF Spec

\* Slot is injective and follows the indices as they advance.
LEMMA SlotFacts ==
    ASSUME head \in Slots, NEW k \in Slots
    PROVE  /\ Slot(k) \in Slots
           /\ \A j \in Slots : Slot(j) = Slot(k) => j = k
           /\ Slot(k + 1) = Advance(Slot(k))
<1>1. Slot(k) \in Slots
  BY QueueAssumption DEF Slot, Slots
<1>2. ASSUME NEW j \in Slots, Slot(j) = Slot(k) PROVE j = k
  BY <1>2, QueueAssumption DEF Slot, Slots
<1>3. Slot(k + 1) = Advance(Slot(k))
  BY <1>1, AdvanceValue, QueueAssumption DEF Slot, Slots
<1> QED BY <1>1, <1>2, <1>3

LEMMA RingStep ==
    TypeOK /\ TypeOK' /\ RingInv /\ [Next]_vars => RingInv'
<1> SUFFICES ASSUME TypeOK, TypeOK', RingInv, [Next]_vars
             PROVE  RingInv'
  OBVIOUS
<1> USE QueueAssumption DEF TypeOK, RingInv
<1>1. ASSUME NEW t \in Threads, NEW d \in Data \cup {NULL}, PushCall(t, d)
      PROVE  RingInv'
  BY <1>1 DEF PushCall, Slot
<1>2. ASSUME NEW t \in Threads, PopCall(t) PROVE RingInv'
  BY <1>2 DEF PopCall, Slot
<1>3. ASSUME NEW t \in Threads, LockQueue(t) PROVE RingInv'
  BY <1>3 DEF LockQueue, Slot
<1>4. ASSUME NEW t \in Threads, WaitToProduce(t) PROVE RingInv'
  BY <1>4 DEF WaitToProduce, Slot
<1>5. ASSUME NEW t \in Threads, WaitToConsume(t) PROVE RingInv'
  BY <1>5 DEF WaitToConsume, Slot
<1>6. ASSUME NEW t \in Threads, Put(t) PROVE RingInv'
  <2>1. qlen \in Slots /\ qlen' = qlen + 1 /\ head' = head
    BY <1>6 DEF Put, Slots
  <2>2. \A k \in Slots : Slot(k)' = Slot(k)
    BY <2>1 DEF Slot
  <2>3. tail' = Slot(qlen)'
    BY <1>6, <2>1, SlotFacts DEF Put, Slot
  <2>4. ASSUME NEW k \in Slots PROVE buf'[Slot(k)] = NULL <=> k >= qlen'
    <3>1. Slot(k) \in Slots /\ tail \in Slots
      BY SlotFacts
    <3>2. CASE k = qlen
      BY <1>6, <2>1, <3>1, <3>2 DEF Put, Slots
    <3>3. CASE k # qlen
      <4>1. Slot(k) # tail
        BY <2>1, <3>3, SlotFacts DEF Slots
      <4> QED BY <1>6, <2>1, <3>1, <3>3, <4>1 DEF Put, Slots
    <3> QED BY <3>2, <3>3
  <2>5. \A s \in Threads :
           pc'[s] \in {"push", "push_in", "push_wait"} => data'[s] # NULL
    BY <1>6 DEF Put, SignalAndReturn, WaitingConsumers
  <2> QED BY <2>2, <2>3, <2>4, <2>5
<1>7. ASSUME NEW t \in Threads, Take(t) PROVE RingInv'
  <2>1. qlen \in 1 .. qsize /\ qlen' = qlen - 1 /\ head' = Advance(head)
    BY <1>7 DEF Take
  <2>a. /\ head \in Slots /\ qlen \in Nat /\ tail' = tail
        /\ head' = IF head + 1 = qsize THEN 0 ELSE head + 1
    BY <1>7, <2>1, AdvanceValue DEF Take
  <2>2. \A k \in Slots : Slot(k)' = IF k = qsize - 1 THEN head ELSE Slot(k + 1)
    BY <2>a, QueueAssumption DEF Slot, Slots
  <2>3. tail' = Slot(qlen)'
    <3>1. tail = Slot(qlen)
      OBVIOUS
    <3> QED BY <2>1, <2>a, <3>1, QueueAssumption DEF Slot, Slots
  <2>4. ASSUME NEW k \in Slots PROVE buf'[Slot(k)'] = NULL <=> k >= qlen'
    <3>1. CASE k = qsize - 1
      BY <1>7, <2>1, <2>2, <3>1 DEF Take, Slots
    <3>2. CASE k # qsize - 1
      <4>1. k + 1 \in Slots
        BY <3>2 DEF Slots
      <4>2. Slot(k + 1) \in Slots /\ Slot(k + 1) # head
        BY <4>1 DEF Slot, Slots
      <4> QED BY <1>7, <2>1, <2>2, <3>2, <4>1, <4>2 DEF Take, Slots
    <3> QED BY <3>1, <3>2
  <2>5. \A s \in Threads :
           pc'[s] \in {"push", "push_in", "push_wait"} => data'[s] # NULL
    BY <1>7 DEF Take, SignalAndReturn, WaitingProducers
  <2> QED BY <2>3, <2>4, <2>5
<1>8. ASSUME NEW t \in Threads, SpuriousWakeup(t) PROVE RingInv'
  BY <1>8 DEF SpuriousWakeup, Slot
<1>9. CASE UNCHANGED vars
  BY <1>9 DEF vars, Slot
<1> QED
  BY <1>1, <1>2, <1>3, <1>4, <1>5, <1>6, <1>7, <1>8, <1>9 DEF Next, Inside

(* The queue always holds exactly the qlen elements between head and tail: *)
(* push never overwrites one and pop never returns an empty slot.          *)
THEOREM RingCorrect == Spec => []RingInv
<1>1. Init => RingInv
  BY QueueAssumption DEF Init, RingInv, Slot, Slots
<1> QED BY <1>1, TypeCorrect, RingStep, PTL DEF Spec

\* The sets that WakeupInv counts are finite.
LEMMA AwakeFinite ==
    ASSUME TypeOK
    PROVE  /\ IsFiniteSet(Consuming) /\ Cardinality(Consuming) \in Nat
           /\ IsFiniteSet(Producing) /\ Cardinality(Producing) \in Nat
BY FiniteThreads, FS_Subset, FS_CardinalityType DEF Consuming, Producing

\* A step that wakes or adds consumers, and adds no element, keeps its part.
LEMMA MoreConsumers ==
    ASSUME TypeOK, TypeOK', ConsumersAwake, qlen' = qlen,
           WaitingConsumers' \subseteq WaitingConsumers,
           Consuming \subseteq Consuming'
    PROVE  ConsumersAwake'
<1>1. IsFiniteSet(Consuming') /\ Cardinality(Consuming)' \in Nat
  BY FiniteThreads, FS_Subset, FS_CardinalityType DEF Consuming, Producing
<1>2. Cardinality(Consuming) \in Nat
  BY AwakeFinite
<1>3. Cardinality(Consuming) <= Cardinality(Consuming')
  BY <1>1, FS_Subset
<1> QED BY <1>1, <1>2, <1>3 DEF ConsumersAwake, TypeOK

\* The same for producers.
LEMMA MoreProducers ==
    ASSUME TypeOK, TypeOK', ProducersAwake, qlen' = qlen,
           WaitingProducers' \subseteq WaitingProducers,
           Producing \subseteq Producing'
    PROVE  ProducersAwake'
<1>1. IsFiniteSet(Producing') /\ Cardinality(Producing)' \in Nat
  BY FiniteThreads, FS_Subset, FS_CardinalityType DEF Producing
<1>2. Cardinality(Producing) \in Nat
  BY AwakeFinite
<1>3. Cardinality(Producing) <= Cardinality(Producing')
  BY <1>1, FS_Subset
<1> QED BY <1>1, <1>2, <1>3, QueueAssumption DEF ProducersAwake, TypeOK

LEMMA WakeupStep ==
    TypeOK /\ TypeOK' /\ WakeupInv /\ [Next]_vars => WakeupInv'
<1> SUFFICES ASSUME TypeOK, TypeOK', ConsumersAwake, ProducersAwake,
                    [Next]_vars
             PROVE  ConsumersAwake' /\ ProducersAwake'
  BY DEF WakeupInv
<1> DEFINE Calm == /\ qlen' = qlen
                   /\ WaitingConsumers' \subseteq WaitingConsumers
                   /\ Consuming \subseteq Consuming'
                   /\ WaitingProducers' \subseteq WaitingProducers
                   /\ Producing \subseteq Producing'
<1>0. ASSUME Calm PROVE ConsumersAwake' /\ ProducersAwake'
  BY <1>0, MoreConsumers, MoreProducers
<1> USE DEF TypeOK, WaitingConsumers, WaitingProducers, Consuming, Producing
<1>1. ASSUME NEW t \in Threads, NEW d \in Data \cup {NULL}, PushCall(t, d)
      PROVE  Calm
  BY <1>1 DEF PushCall
<1>2. ASSUME NEW t \in Threads, PopCall(t) PROVE Calm
  BY <1>2 DEF PopCall
<1>3. ASSUME NEW t \in Threads, LockQueue(t) PROVE Calm
  BY <1>3 DEF LockQueue
<1>4. ASSUME NEW t \in Threads, WaitToProduce(t)
      PROVE  ConsumersAwake' /\ ProducersAwake'
  <2>1. ConsumersAwake'
    BY <1>4, MoreConsumers DEF WaitToProduce
  <2>2. Cardinality(Producing)' \in Nat
    BY FiniteThreads, FS_Subset, FS_CardinalityType
  <2>3. ProducersAwake'
    BY <1>4, <2>2, QueueAssumption DEF WaitToProduce, ProducersAwake
  <2> QED BY <2>1, <2>3
<1>5. ASSUME NEW t \in Threads, WaitToConsume(t)
      PROVE  ConsumersAwake' /\ ProducersAwake'
  <2>1. ProducersAwake'
    BY <1>5, MoreProducers DEF WaitToConsume
  <2>2. Cardinality(Consuming)' \in Nat
    BY FiniteThreads, FS_Subset, FS_CardinalityType
  <2>3. ConsumersAwake'
    BY <1>5, <2>2 DEF WaitToConsume, ConsumersAwake
  <2> QED BY <2>1, <2>3
<1>6. ASSUME NEW t \in Threads, Put(t)
      PROVE  ConsumersAwake' /\ ProducersAwake'
  <2>1. qlen \in Nat /\ qlen' = qlen + 1 /\ pc[t] = "push_in"
    BY <1>6, QueueAssumption DEF Put
  <2>2. ConsumersAwake'
    <3>1. CASE WaitingConsumers = {}
      BY <1>6, <3>1 DEF Put, SignalAndReturn, ConsumersAwake
    <3>2. CASE WaitingConsumers # {}
      <4>1. PICK w \in WaitingConsumers :
                   pc' = [pc EXCEPT ![t] = "idle", ![w] = "pop"]
        BY <1>6, <3>2 DEF Put, SignalAndReturn
      <4>2. Consuming' = Consuming \cup {w} /\ w \notin Consuming
        BY <2>1, <4>1
      <4>3. Cardinality(Consuming') = Cardinality(Consuming) + 1
        BY <4>2, AwakeFinite, FS_AddElement
      <4> QED
        BY <2>1, <3>2, <4>3, AwakeFinite DEF ConsumersAwake
    <3> QED BY <3>1, <3>2
  <2>3. ProducersAwake'
    <3>1. WaitingProducers' = WaitingProducers
      BY <1>6, <2>1 DEF Put, SignalAndReturn
    <3>2. Producing' = Producing \ {t} /\ t \in Producing
      BY <1>6, <2>1 DEF Put, SignalAndReturn
    <3>3. Cardinality(Producing') = Cardinality(Producing) - 1
      <4> HIDE DEF Producing
      <4> QED BY <3>2, AwakeFinite, FS_RemoveElement
    <3> QED
      BY <2>1, <3>1, <3>3, AwakeFinite, QueueAssumption DEF ProducersAwake
  <2> QED BY <2>2, <2>3
<1>7. ASSUME NEW t \in Threads, Take(t)
      PROVE  ConsumersAwake' /\ ProducersAwake'
  <2>1. qlen \in Nat /\ qlen' = qlen - 1 /\ pc[t] = "pop_in"
    BY <1>7, QueueAssumption DEF Take
  <2>2. ProducersAwake'
    <3>1. CASE WaitingProducers = {}
      BY <1>7, <3>1 DEF Take, SignalAndReturn, ProducersAwake
    <3>2. CASE WaitingProducers # {}
      <4>1. PICK w \in WaitingProducers :
                   pc' = [pc EXCEPT ![t] = "idle", ![w] = "push"]
        BY <1>7, <3>2 DEF Take, SignalAndReturn
      <4>2. Producing' = Producing \cup {w} /\ w \notin Producing
        BY <2>1, <4>1
      <4>3. Cardinality(Producing') = Cardinality(Producing) + 1
        BY <4>2, AwakeFinite, FS_AddElement
      <4> QED
        BY <2>1, <3>2, <4>3, AwakeFinite, QueueAssumption DEF ProducersAwake
    <3> QED BY <3>1, <3>2
  <2>3. ConsumersAwake'
    <3>1. WaitingConsumers' = WaitingConsumers
      BY <1>7, <2>1 DEF Take, SignalAndReturn
    <3>2. Consuming' = Consuming \ {t} /\ t \in Consuming
      BY <1>7, <2>1 DEF Take, SignalAndReturn
    <3>3. Cardinality(Consuming') = Cardinality(Consuming) - 1
      <4> HIDE DEF Consuming
      <4> QED BY <3>2, AwakeFinite, FS_RemoveElement
    <3> QED
      BY <2>1, <3>1, <3>3, AwakeFinite DEF ConsumersAwake
  <2> QED BY <2>2, <2>3
<1>8. ASSUME NEW t \in Threads, SpuriousWakeup(t) PROVE Calm
  BY <1>8 DEF SpuriousWakeup
<1>9. CASE UNCHANGED vars
  <2> Calm
    BY <1>9 DEF vars
  <2> QED BY <1>0
<1> QED
  BY <1>0, <1>1, <1>2, <1>3, <1>4, <1>5, <1>6, <1>7, <1>8, <1>9
  DEF Next, Inside

(* One pthread_cond_signal per push and per pop keeps enough threads awake *)
(* for the elements and the free slots, for any number of threads.         *)
THEOREM WakeupCorrect == Spec => []WakeupInv
<1>1. Init => WakeupInv
  BY DEF Init, WakeupInv, ConsumersAwake, ProducersAwake,
         WaitingConsumers, WaitingProducers
<1> QED BY <1>1, TypeCorrect, WakeupStep, PTL DEF Spec

(* No wakeup is lost: nobody is left waiting for something the queue has   *)
(* unless another thread of the same kind is about to take it.             *)
THEOREM NoWakeupIsLost == Spec => []NoLostWakeup
<1>1. TypeOK /\ WakeupInv => NoLostWakeup
  <2> SUFFICES ASSUME TypeOK, WakeupInv PROVE NoLostWakeup
    OBVIOUS
  <2>1. ASSUME Consuming = {} PROVE Cardinality(Consuming) = 0
    BY <2>1, FS_EmptySet
  <2>2. ASSUME Producing = {} PROVE Cardinality(Producing) = 0
    BY <2>2, FS_EmptySet
  <2> QED
    BY <2>1, <2>2, QueueAssumption
    DEF NoLostWakeup, WakeupInv, ConsumersAwake, ProducersAwake, TypeOK
<1> QED BY <1>1, TypeCorrect, WakeupCorrect, PTL

\* Items is a sequence of qlen elements.
LEMMA ItemsSequence ==
    TypeOK => /\ Items \in Seq(Data \cup {NULL})
              /\ Len(Items) = qlen
              /\ \A k \in 1 .. qlen : Items[k] = buf[Slot(k - 1)]
<1> SUFFICES ASSUME TypeOK
             PROVE  /\ Items \in Seq(Data \cup {NULL})
                    /\ Len(Items) = qlen
                    /\ \A k \in 1 .. qlen : Items[k] = buf[Slot(k - 1)]
  OBVIOUS
<1>1. ASSUME NEW k \in 1 .. qlen PROVE buf[Slot(k - 1)] \in Data \cup {NULL}
  <2>1. k - 1 \in Slots
    BY QueueAssumption DEF TypeOK, Slots
  <2> QED BY <2>1, SlotFacts DEF TypeOK
<1>2. qlen \in Nat
  BY QueueAssumption DEF TypeOK
<1> QED BY <1>1, <1>2 DEF Items

LEMMA PutAppends ==
    ASSUME TypeOK, TypeOK', RingInv, NEW t \in Threads, Put(t)
    PROVE  Items' = Append(Items, data[t])
<1>1. /\ qlen \in Slots /\ qlen \in Nat /\ qlen' = qlen + 1 /\ head' = head
      /\ buf' = [buf EXCEPT ![tail] = data[t]] /\ data[t] \in Data \cup {NULL}
      /\ tail = Slot(qlen)
  BY QueueAssumption DEF Put, TypeOK, Slots, RingInv
<1>2. ASSUME NEW k \in 1 .. qlen + 1
      PROVE  /\ Items'[k] = buf'[Slot(k - 1)]
             /\ k - 1 \in Slots
  BY <1>1, QueueAssumption DEF Items, Slot, Slots
<1>3. Items' \in Seq(Data \cup {NULL}) /\ Len(Items') = qlen + 1
  <2>1. (TypeOK => /\ Items \in Seq(Data \cup {NULL})
                   /\ Len(Items) = qlen)'
    BY ItemsSequence, PTL
  <2> QED BY <1>1, <2>1
<1>4. ASSUME NEW k \in 1 .. qlen + 1
      PROVE  Items'[k] = Append(Items, data[t])[k]
  <2>1. Items'[k] = buf'[Slot(k - 1)] /\ Slot(k - 1) \in Slots
    BY <1>2, SlotFacts DEF TypeOK
  <2>2. CASE k = qlen + 1
    BY <1>1, <2>1, <2>2, ItemsSequence DEF TypeOK
  <2>3. CASE k # qlen + 1
    <3>1. Slot(k - 1) # tail
      BY <1>1, <1>2, <2>3, SlotFacts DEF TypeOK
    <3> QED BY <1>1, <2>1, <2>3, <3>1, ItemsSequence DEF TypeOK
  <2> QED BY <2>2, <2>3
<1> QED BY <1>1, <1>3, <1>4, ItemsSequence

LEMMA TakeRemovesHead ==
    ASSUME TypeOK, TypeOK', RingInv, NEW t \in Threads, Take(t)
    PROVE  /\ Items # << >>
           /\ buf[head] = Head(Items)
           /\ Items' = Tail(Items)
<1>1. /\ qlen \in 1 .. qsize /\ qlen' = qlen - 1 /\ head' = Advance(head)
      /\ buf' = [buf EXCEPT ![head] = NULL]
  BY QueueAssumption DEF Take, TypeOK
<1>2. Items # << >> /\ buf[head] = Head(Items)
  BY <1>1, ItemsSequence, QueueAssumption DEF TypeOK, Slot, Slots
<1>3. ASSUME NEW k \in 1 .. qlen - 1 PROVE Items'[k] = buf[Slot(k)]
  <2>1. Slot(k - 1)' = Slot(k) /\ Slot(k) \in Slots /\ Slot(k) # head
    BY <1>1, AdvanceValue, QueueAssumption DEF Slot, Slots, TypeOK
  <2>2. Items'[k] = buf'[Slot(k - 1)']
    BY <1>1 DEF Items
  <2> QED BY <1>1, <2>1, <2>2 DEF TypeOK
<1>4. Items' \in Seq(Data \cup {NULL}) /\ Len(Items') = qlen - 1
  <2>1. (TypeOK => /\ Items \in Seq(Data \cup {NULL})
                   /\ Len(Items) = qlen)'
    BY ItemsSequence, PTL
  <2> QED BY <1>1, <2>1
<1>5. ASSUME NEW k \in 1 .. qlen - 1 PROVE Items'[k] = Tail(Items)[k]
  BY <1>1, <1>2, <1>3, ItemsSequence, QueueAssumption
<1> QED BY <1>1, <1>2, <1>4, <1>5, ItemsSequence, QueueAssumption

\* A step that leaves the ring alone leaves the abstract queue alone.
LEMMA SameItems ==
    ASSUME UNCHANGED <<buf, head, qlen>>
    PROVE  Items' = Items
BY DEF Items, Slot

(* Every step of boundedqueue.c is a step of the abstract queue or leaves  *)
(* it unchanged: calls are calls, Put is Push, Take is Pop, and waiting,   *)
(* locking and waking up are invisible.                                    *)
LEMMA FifoStep ==
    TypeOK /\ TypeOK' /\ RingInv /\ [Next]_vars => [Fifo!Next]_(Fifo!vars)
<1> SUFFICES ASSUME TypeOK, TypeOK', RingInv, [Next]_vars
             PROVE  Fifo!Next \/ UNCHANGED <<Items, Op, data>>
  BY DEF Fifo!vars
<1>1. ASSUME NEW t \in Threads, NEW d \in Data \cup {NULL}, PushCall(t, d)
      PROVE  Fifo!Next
  <2>1. Op' = [Op EXCEPT ![t] = "push"] /\ Op[t] = "idle"
    BY <1>1 DEF PushCall, Op, TypeOK
  <2>2. Items' = Items
    BY <1>1, SameItems DEF PushCall
  <2>3. d \in Data /\ Fifo!CallPush(t, d)
    BY <1>1, <2>1, <2>2 DEF PushCall, Fifo!CallPush
  <2> QED BY <2>3 DEF Fifo!Next
<1>2. ASSUME NEW t \in Threads, PopCall(t) PROVE Fifo!Next
  <2>1. Op' = [Op EXCEPT ![t] = "pop"] /\ Op[t] = "idle"
    BY <1>2 DEF PopCall, Op, TypeOK
  <2>2. Items' = Items
    BY <1>2, SameItems DEF PopCall
  <2>3. Fifo!CallPop(t)
    BY <1>2, <2>1, <2>2 DEF PopCall, Fifo!CallPop
  <2> QED BY <2>3 DEF Fifo!Next
<1>3. ASSUME NEW t \in Threads, LockQueue(t)
      PROVE  UNCHANGED <<Items, Op, data>>
  BY <1>3, SameItems DEF LockQueue, Op, TypeOK
<1>4. ASSUME NEW t \in Threads, WaitToProduce(t)
      PROVE  UNCHANGED <<Items, Op, data>>
  BY <1>4, SameItems DEF WaitToProduce, Op, TypeOK
<1>5. ASSUME NEW t \in Threads, WaitToConsume(t)
      PROVE  UNCHANGED <<Items, Op, data>>
  BY <1>5, SameItems DEF WaitToConsume, Op, TypeOK
<1>6. ASSUME NEW t \in Threads, Put(t) PROVE Fifo!Next
  <2>1. Op' = [Op EXCEPT ![t] = "idle"] /\ Op[t] = "push"
    BY <1>6 DEF Put, SignalAndReturn, WaitingConsumers, Op, TypeOK
  <2>2. Len(Items) < qsize
    BY <1>6, ItemsSequence, QueueAssumption DEF Put, TypeOK
  <2>3. Items' = Append(Items, data[t])
    BY <1>6, PutAppends
  <2>4. Fifo!Push(t)
    BY <1>6, <2>1, <2>2, <2>3 DEF Put, Fifo!Push
  <2> QED BY <2>4 DEF Fifo!Next
<1>7. ASSUME NEW t \in Threads, Take(t) PROVE Fifo!Next
  <2>1. Op' = [Op EXCEPT ![t] = "idle"] /\ Op[t] = "pop"
    BY <1>7 DEF Take, SignalAndReturn, WaitingProducers, Op, TypeOK
  <2>2. Items # << >> /\ buf[head] = Head(Items) /\ Items' = Tail(Items)
    BY <1>7, TakeRemovesHead
  <2>3. Fifo!Pop(t)
    BY <1>7, <2>1, <2>2 DEF Take, Fifo!Pop
  <2> QED BY <2>3 DEF Fifo!Next
<1>8. ASSUME NEW t \in Threads, SpuriousWakeup(t)
      PROVE  UNCHANGED <<Items, Op, data>>
  BY <1>8, SameItems DEF SpuriousWakeup, Op, TypeOK
<1>9. CASE UNCHANGED vars
  BY <1>9, SameItems DEF vars, Op
<1> QED
  BY <1>1, <1>2, <1>3, <1>4, <1>5, <1>6, <1>7, <1>8, <1>9 DEF Next, Inside

(* boundedqueue.c implements the blocking FIFO queue: whatever threads use *)
(* it, their pushes and pops behave as if each took effect at one instant  *)
(* on a sequence of at most qsize elements.                                *)
THEOREM QueueImplementsFifo == Spec => ImplementsFifo
<1>1. Init => Fifo!Init
  <2> SUFFICES ASSUME Init PROVE Fifo!Init
    OBVIOUS
  <2>1. Items = << >>
    BY DEF Init, Items
  <2> QED BY <2>1 DEF Init, Op, Fifo!Init
<1> QED
  BY <1>1, TypeCorrect, RingCorrect, FifoStep, PTL
  DEF Spec, ImplementsFifo, Fifo!Spec
-----------------------------------------------------------------------------
(* testBQueue.c.                                                           *)

(* A set of numbers that is not empty has a smallest element: induction,   *)
(* stated without an operator as parameter.                                *)
LEMMA Smallest ==
  ASSUME NEW T \in SUBSET Nat, T # {}
  PROVE  \E x \in T : \A y \in T : x <= y
<1>1. PICK x \in T : \A y \in T : ~(<<y, x>> \in OpToRel(<, Nat))
  BY NatLessThanWellFounded, WFMin
<1>2. \A y \in T : ~(y < x)
  BY <1>1 DEF OpToRel
<1> QED BY <1>2

-----------------------------------------------------------------------------
(* The recursive definition of the intervals has a solution.               *)
Step(f, t) == LET start == IF t = 0 THEN 0 ELSE f[t - 1].stop
              IN  [start |-> start,
                   stop  |-> start + (n \div p) + (IF t < n % p THEN 1 ELSE 0)]

LEMMA IntervalExists ==
    \E f : f = [t \in Producers |-> Step(f, t)]
<1> DEFINE Bad == {k \in Nat : ~\E f : f = [t \in 0 .. k - 1 |-> Step(f, t)]}
<1>1. ASSUME NEW k \in Bad, \A j \in Bad : k <= j PROVE FALSE
  <2>1. CASE k = 0
    <3> DEFINE f == [t \in 0 .. k - 1 |-> Step(0, t)]
    <3>1. f = [t \in 0 .. k - 1 |-> Step(f, t)]
      BY <2>1
    <3> QED BY <3>1
  <2>2. CASE k > 0
    <3>1. k - 1 \in Nat /\ k - 1 \notin Bad
      BY <1>1, <2>2
    <3>2. PICK g : g = [t \in 0 .. (k - 1) - 1 |-> Step(g, t)]
      BY <3>1
    <3> DEFINE f == [t \in 0 .. k - 1 |-> Step(g, t)]
    <3>3. ASSUME NEW t \in 0 .. k - 1, t # 0 PROVE f[t - 1] = g[t - 1]
      BY <3>2, <3>3, <1>1, <2>2
    <3>4. f = [t \in 0 .. k - 1 |-> Step(g, t)]
      OBVIOUS
    <3> HIDE DEF f
    <3>5. \A t \in 0 .. k - 1 : Step(f, t) = Step(g, t)
      BY <3>3 DEF Step
    <3>6. f = [t \in 0 .. k - 1 |-> Step(f, t)]
      BY <3>4, <3>5, Zenon
    <3> QED BY <3>6
  <2> QED BY <1>1, <2>1, <2>2
<1>2. Bad = {}
  BY <1>1, Smallest
<1> QED BY <1>2, OptionsAssumption DEF Producers

\* interval is the function that its recursive definition describes.
LEMMA IntervalDef ==
    ASSUME NEW t \in Producers
    PROVE  /\ interval[t].start = IF t = 0 THEN 0 ELSE interval[t - 1].stop
           /\ interval[t].stop = interval[t].start + (n \div p)
                                 + (IF t < n % p THEN 1 ELSE 0)
<1>1. interval = CHOOSE f : f = [u \in Producers |-> Step(f, u)]
  BY Zenon DEF interval, Step
<1>2. interval = [u \in Producers |-> Step(interval, u)]
  BY <1>1, IntervalExists, Zenon
<1>3. interval[t] = Step(interval, t)
  BY <1>2
<1> QED BY <1>3 DEF Step

\* The first n % p intervals are one longer: where an interval ends.
LEMMA IntervalStop ==
    \A t \in Producers :
       interval[t].stop = (t + 1) * (n \div p) + (IF t < n % p THEN t + 1 ELSE n % p)
<1> DEFINE q == n \div p
           r == n % p
           Bad == {t \in Producers : interval[t].stop # (t + 1) * q + (IF t < r THEN t + 1 ELSE r)}
<1>0. q \in Nat /\ r \in Nat
  BY OptionsAssumption
<1>1. ASSUME NEW t \in Bad, \A s \in Bad : t <= s PROVE FALSE
  <2>0. t \in Producers /\ t \in Nat
    BY DEF Producers
  <2>1. CASE t = 0
    <3>1. interval[t].stop = q + (IF t < r THEN 1 ELSE 0)
      BY <2>0, <2>1, <1>0, IntervalDef
    <3> QED BY <3>1, <2>1, <1>0
  <2>2. CASE t > 0
    <3>1. t - 1 \in Producers /\ t - 1 \notin Bad
      BY <1>1, <2>0, <2>2, OptionsAssumption DEF Producers
    <3>2. interval[t - 1].stop = t * q + (IF t - 1 < r THEN t ELSE r)
      BY <3>1, <2>0
    <3>3. interval[t].stop = interval[t - 1].stop + q + (IF t < r THEN 1 ELSE 0)
      BY <2>0, <2>2, IntervalDef
    <3> HIDE DEF q, r
    <3>4. (t + 1) * q = t * q + q /\ t * q \in Nat
      BY <1>0, <2>0
    <3>5. interval[t].stop = (t + 1) * q + (IF t < r THEN t + 1 ELSE r)
      BY <3>2, <3>3, <3>4, <2>0, <1>0
    <3> QED BY <3>5 DEF q, r
  <2> QED BY <2>0, <2>1, <2>2
<1>2. Bad \subseteq Nat
  BY OptionsAssumption DEF Producers
<1>3. Bad = {}
  BY <1>1, <1>2, Smallest
<1> QED BY <1>3

\* The intervals follow one another and end at n.
LEMMA IntervalFacts ==
    /\ \A t \in Producers : /\ interval[t].start \in Nat
                            /\ interval[t].stop \in 0 .. n
                            /\ interval[t].start <= interval[t].stop
    /\ \A s, t \in Producers : s < t => interval[s].stop <= interval[t].start
    /\ interval[p - 1].stop = n
<1> DEFINE q == n \div p
           r == n % p
           stop(t) == (t + 1) * q + (IF t < r THEN t + 1 ELSE r)
<1>0. /\ q \in Nat /\ r \in Nat /\ r < p /\ n = p * q + r
      /\ p \in Nat \ {0} /\ n \in Nat
      /\ \A t \in Producers : t \in Nat /\ t < p
  BY OptionsAssumption DEF Producers
<1>1. \A t \in Producers : interval[t].stop = stop(t)
  BY IntervalStop
<1>2. ASSUME NEW t \in Producers
      PROVE  /\ interval[t].start = IF t = 0 THEN 0 ELSE interval[t - 1].stop
             /\ interval[t].stop = interval[t].start + q + (IF t < r THEN 1 ELSE 0)
             /\ t # 0 => t - 1 \in Producers
  BY <1>0, IntervalDef DEF Producers
<1> HIDE DEF q, r
<1>3. \A t \in Nat : stop(t) \in Nat
  BY <1>0
<1>4. \A s, t \in Nat : s <= t => stop(s) <= stop(t)
  <2> SUFFICES ASSUME NEW s \in Nat, NEW t \in Nat, s <= t PROVE stop(s) <= stop(t)
    OBVIOUS
  <2>1. (s + 1) * q <= (t + 1) * q
    BY <1>0
  <2> QED BY <2>1, <1>0
<1>5. stop(p - 1) = n /\ p - 1 \in Producers
  BY <1>0 DEF Producers
<1> HIDE DEF stop
<1>6. ASSUME NEW t \in Producers
      PROVE  /\ interval[t].start \in Nat
             /\ interval[t].stop \in 0 .. n
             /\ interval[t].start <= interval[t].stop
  <2>1. interval[t].start \in Nat
    BY <1>0, <1>1, <1>2, <1>3
  <2>2. interval[t].stop <= n
    BY <1>0, <1>1, <1>3, <1>4, <1>5
  <2> QED BY <2>1, <2>2, <1>0, <1>1, <1>2, <1>3
<1>7. ASSUME NEW s \in Producers, NEW t \in Producers, s < t
      PROVE  interval[s].stop <= interval[t].start
  BY <1>0, <1>1, <1>2, <1>4, <1>7
<1> QED BY <1>1, <1>5, <1>6, <1>7

\* Every message belongs to one producer.
LEMMA ProducerFacts ==
    ASSUME NEW msg \in Messages
    PROVE  /\ ProducerOf(msg) \in Producers
           /\ interval[ProducerOf(msg)].start <= msg
           /\ msg < interval[ProducerOf(msg)].stop
           /\ \A t \in Producers :
                 interval[t].start <= msg /\ msg < interval[t].stop => t = ProducerOf(msg)
<1>0. \A t \in Producers : t \in Nat
  BY OptionsAssumption DEF Producers
<1>1. \E t \in Producers : interval[t].start <= msg /\ msg < interval[t].stop
  <2> DEFINE T == {t \in Producers : msg < interval[t].stop}
  <2>1. p - 1 \in T
    BY IntervalFacts, OptionsAssumption DEF Messages, Producers
  <2>2. PICK t \in T : \A s \in T : t <= s
    BY <1>0, <2>1, Smallest
  <2>3. CASE t = 0
    BY <2>2, <2>3, IntervalDef DEF Messages
  <2>4. CASE t > 0
    <3>1. t - 1 \in Producers /\ t - 1 \notin T
      BY <1>0, <2>2, <2>4, OptionsAssumption DEF Producers
    <3> QED BY <3>1, <2>2, <2>4, IntervalDef, IntervalFacts DEF Messages
  <2> QED BY <1>0, <2>2, <2>3, <2>4
<1>2. ASSUME NEW s \in Producers, NEW t \in Producers,
             interval[s].start <= msg, msg < interval[s].stop,
             interval[t].start <= msg, msg < interval[t].stop
      PROVE  s = t
  BY <1>0, <1>2, IntervalFacts DEF Messages
<1> QED BY <1>1, <1>2 DEF ProducerOf

-----------------------------------------------------------------------------
\* What the proofs need of the queue.
QueueInv == TypeOK /\ MutualExclusion /\ RingInv

\* Where main and the threads are.
Control ==
    /\ alive \in [Threads -> {"new", "running", "exited"}]
    /\ step \in {"create", "join_producers", "eos", "delete"}
    /\ freed \in BOOLEAN
    /\ spurious \in 0 .. MaxSpurious
    /\ i \in [Producers \cup {Main} -> Nat]
    /\ \A t \in Producers : i[t] \in interval[t].start .. interval[t].stop
    /\ \A t \in Threads : alive[t] # "running" => Op[t] = "idle"
    /\ \A t \in Producers : Op[t] = "push" => i[t] < interval[t].stop /\ data[t] = i[t]
    /\ \A t \in Producers : Op[t] # "pop"
    /\ \A t \in Consumers : Op[t] # "push"
    /\ Op[Main] # "pop"
    /\ Op[Main] = "push" => step = "eos" /\ i[Main] < c /\ data[Main] = EOS
    /\ alive[Main] # "new"
    /\ freed => step = "delete" /\ alive[Main] = "exited"
    /\ step = "create" => i[Main] < p + c
    /\ step = "join_producers" => i[Main] = 0
    /\ step \in {"eos", "delete"} => /\ i[Main] <= c
                                    /\ \A t \in Producers : alive[t] = "exited"
    /\ step = "delete" => /\ i[Main] = c
                          /\ \A t \in Consumers : alive[t] = "exited"

\* The EOS pushed and not popped are the last elements of the queue.
Left == {t \in Consumers : alive[t] = "exited"}
Ends == IF step \in {"eos", "delete"} THEN i[Main] - Cardinality(Left) ELSE 0
EndsAreLast ==
    /\ step \in {"create", "join_producers"} => Left = {}
    /\ Ends \in 0 .. Len(Items)
    /\ \A k \in 1 .. Len(Items) : Items[k] = EOS <=> k > Len(Items) - Ends
    /\ Left # {} => Len(Items) = Ends

(* The messages of a producer are in the queue in the order in which they  *)
(* were pushed, those already consumed come before, those not yet pushed   *)
(* come after.                                                             *)
Ordered ==
    /\ got \in [Consumers -> SUBSET Messages]
    /\ \A k \in 1 .. Len(Items) : Items[k] \in Data
    /\ \A j, k \in 1 .. Len(Items) :
          /\ j < k /\ Items[j] \in Messages /\ Items[k] \in Messages
          /\ ProducerOf(Items[j]) = ProducerOf(Items[k])
          => Items[j] < Items[k]
    /\ \A k \in 1 .. Len(Items) : Items[k] \in Messages =>
          /\ Items[k] < i[ProducerOf(Items[k])]
          /\ \A t \in Consumers : \A msg \in got[t] :
                ProducerOf(msg) = ProducerOf(Items[k]) => msg < Items[k]
    /\ \A t \in Consumers : \A msg \in got[t] : msg < i[ProducerOf(msg)]
    /\ \A s, t \in Consumers : \A msg \in Messages : msg \in got[s] /\ msg \in got[t] => s = t
    /\ \A msg \in Pushed : \/ \E k \in 1 .. Len(Items) : Items[k] = msg
                           \/ \E t \in Consumers : msg \in got[t]

TestInv == Control /\ EndsAreLast /\ Ordered

-----------------------------------------------------------------------------
\* Who is who: producers, consumers and main are different threads.
LEMMA ThreadFacts ==
    /\ \A t \in Producers : t \in Threads /\ t # Main /\ t \notin Consumers
    /\ \A t \in Consumers : t \in Threads /\ t # Main /\ t \notin Producers
    /\ Main \in Threads
    /\ \A t \in Threads : t \in Producers \/ t \in Consumers \/ t = Main
    /\ EOS \in Data /\ NULL \notin Data
    /\ p \in Nat \ {0} /\ c \in Nat \ {0} /\ n \in Nat \ {0}
BY OptionsAssumption, NamesAssumption, QueueAssumption DEF Producers, Consumers

\* Every message that a producer is about to push is one of its interval.
LEMMA NextMessage ==
    ASSUME NEW t \in Producers, NEW k \in interval[t].start .. interval[t].stop,
           k < interval[t].stop
    PROVE  k \in Messages /\ ProducerOf(k) = t
<1>1. k \in Messages
  BY IntervalFacts, ThreadFacts DEF Messages
<1> QED BY <1>1, IntervalFacts, ProducerFacts

(* The calls that producers, consumers and main make are calls that a      *)
(* client of the queue may make.                                           *)
LEMMA QueueStep == Control /\ [TestNext]_testVars => [Next]_vars
<1> SUFFICES ASSUME Control, [TestNext]_testVars PROVE Next \/ UNCHANGED vars
  BY DEF vars
<1>1. ASSUME NEW t \in Threads, Inside(t) PROVE Next
  BY <1>1 DEF Next
<1>2. ASSUME NEW t \in Threads, NEW d \in Data, PushCall(t, d) PROVE Next
  BY <1>2 DEF Next
<1>3. ASSUME NEW t \in Producers, ProducerPush(t) PROVE Next
  <2>1. i[t] \in Data
    BY <1>3, NextMessage, NamesAssumption, QueueAssumption DEF ProducerPush, Control
  <2> QED BY <1>2, <1>3, <2>1, ThreadFacts DEF ProducerPush
<1>4. ASSUME NEW t \in Producers, ProducerInPush(t) PROVE Next
  BY <1>1, <1>4, ThreadFacts DEF ProducerInPush
<1>5. ASSUME NEW t \in Consumers, ConsumerInPop(t) PROVE Next
  BY <1>1, <1>5, ThreadFacts DEF ConsumerInPop
<1>6. ASSUME NEW t \in Consumers, ConsumerPop(t) PROVE Next
  BY <1>6, ThreadFacts DEF ConsumerPop, Next
<1>7. ASSUME NEW t \in Threads, Spurious(t) PROVE Next
  BY <1>7 DEF Spurious, Next
<1>8. CASE MainPushEOS
  BY <1>2, <1>8, ThreadFacts DEF MainPushEOS
<1>9. CASE MainInPush
  BY <1>1, <1>9, ThreadFacts DEF MainInPush
<1>10. ASSUME NEW t \in Producers, ProducerExit(t) PROVE UNCHANGED vars
  BY <1>10 DEF ProducerExit
<1>11. CASE \/ MainCreate \/ MainCreateFails \/ MainJoinProducers \/ MainJoinConsumers
            \/ MainDelete \/ Terminated \/ UNCHANGED testVars
  BY <1>11 DEF MainCreate, MainCreateFails, MainJoinProducers, MainJoinConsumers,
               MainDelete, Terminated, testVars
<1> QED
  BY <1>3, <1>4, <1>5, <1>6, <1>7, <1>8, <1>9, <1>10, <1>11 DEF TestNext

\* Every step keeps the ring coherent and the mutex with its owner.
LEMMA QueueInvStep ==
    QueueInv /\ [Next]_vars => QueueInv'
<1> SUFFICES ASSUME QueueInv, [Next]_vars PROVE QueueInv'
  OBVIOUS
<1>2. TypeOK'
  BY TypeStep DEF QueueInv
<1>3. RingInv'
  BY <1>2, RingStep DEF QueueInv
<1>4. MutualExclusion'
  BY MutexStep DEF QueueInv
<1> QED BY <1>2, <1>3, <1>4 DEF QueueInv

(* What a step inside the queue does: a push appends, a pop removes the    *)
(* oldest element, the other steps are not visible.                        *)
Visible == <<Items, Op, data>>
LEMMA InsideStep ==
    ASSUME QueueInv, QueueInv', NEW t \in Threads, Inside(t)
    PROVE  \/ /\ Op[t] = "push" /\ Op' = [Op EXCEPT ![t] = "idle"]
              /\ Items' = Append(Items, data[t]) /\ data' = data
           \/ /\ Op[t] = "pop" /\ Op' = [Op EXCEPT ![t] = "idle"]
              /\ Items # <<>> /\ Items' = Tail(Items)
              /\ data' = [data EXCEPT ![t] = Head(Items)]
           \/ Op[t] # "idle" /\ UNCHANGED Visible
<1> USE DEF QueueInv
<1>2. CASE Put(t)
  <2>1. Items' = Append(Items, data[t])
    BY <1>2, PutAppends
  <2>2. Op[t] = "push" /\ Op' = [Op EXCEPT ![t] = "idle"] /\ data' = data
    BY <1>2 DEF Put, Op, SignalAndReturn,
                WaitingConsumers, TypeOK
  <2> QED BY <2>1, <2>2
<1>3. CASE Take(t)
  <2>1. Items # <<>> /\ Items' = Tail(Items) /\ buf[head] = Head(Items)
    BY <1>3, TakeRemovesHead
  <2>2. Op[t] = "pop" /\ Op' = [Op EXCEPT ![t] = "idle"] /\ data' = [data EXCEPT ![t] = buf[head]]
    BY <1>3 DEF Take, Op, SignalAndReturn,
                WaitingProducers, TypeOK
  <2> QED BY <2>1, <2>2
<1>4. CASE LockQueue(t) \/ WaitToProduce(t)
           \/ WaitToConsume(t)
  <2>1. UNCHANGED <<buf, head, qlen, data>>
    BY <1>4 DEF LockQueue, WaitToProduce, WaitToConsume
  <2>2. Items' = Items
    BY <2>1, SameItems
  <2>3. Op[t] # "idle" /\ Op' = Op
    BY <1>4 DEF LockQueue, WaitToProduce, WaitToConsume,
                Op, TypeOK
  <2> QED BY <2>1, <2>2, <2>3 DEF Visible
<1> QED BY <1>2, <1>3, <1>4 DEF Inside

\* A thread is outside the queue when the abstract queue says it is idle.
LEMMA IdleOp ==
    ASSUME QueueInv, QueueInv', NEW t \in Threads
    PROVE  /\ pc[t] = "idle" <=> Op[t] = "idle"
           /\ pc'[t] = "idle" <=> Op'[t] = "idle"
           /\ Op \in [Threads -> {"idle", "push", "pop"}]
           /\ Op' \in [Threads -> {"idle", "push", "pop"}]
           /\ Items \in Seq(Data \cup {NULL})
           /\ data \in [Threads -> Data \cup {NULL}]
<1>1. Items \in Seq(Data \cup {NULL})
  BY ItemsSequence DEF QueueInv
<1> QED BY <1>1 DEF QueueInv, Op, TypeOK

\* The steps of the program on the abstract queue.
Calls(t, operation, d) ==
    /\ alive[t] = "running"
    /\ Op[t] = "idle" /\ Op' = [Op EXCEPT ![t] = operation]
    /\ data' = [data EXCEPT ![t] = d]
    /\ Items' = Items
    /\ UNCHANGED locals
Pushes(t) ==
    /\ Op[t] = "push" /\ Op' = [Op EXCEPT ![t] = "idle"]
    /\ Items' = Append(Items, data[t])
    /\ i' = [i EXCEPT ![t] = @ + 1]
    /\ UNCHANGED <<data, alive, step, freed, got, spurious>>
Pops(t) ==
    /\ Op[t] = "pop" /\ Op' = [Op EXCEPT ![t] = "idle"]
    /\ Items # <<>> /\ Items' = Tail(Items)
    /\ data' = [data EXCEPT ![t] = Head(Items)]
    /\ IF Head(Items) = EOS
       THEN alive' = [alive EXCEPT ![t] = "exited"] /\ got' = got
       ELSE got' = [got EXCEPT ![t] = @ \cup {Head(Items)}] /\ alive' = alive
    /\ UNCHANGED <<i, step, freed, spurious>>
Nothing == /\ UNCHANGED Visible
           /\ UNCHANGED <<i, alive, step, freed, got>>
           /\ spurious' \in 0 .. MaxSpurious
MainSteps == /\ UNCHANGED Visible
             /\ \/ MainCreate \/ MainCreateFails \/ MainJoinProducers
                \/ MainJoinConsumers \/ MainDelete

\* Each step of the program is one of those, seen on the abstract queue.
LEMMA ViewStep ==
    ASSUME Control, QueueInv, QueueInv', [TestNext]_testVars
    PROVE  \/ \E t \in Producers : \/ Calls(t, "push", i[t]) /\ i[t] < interval[t].stop
                                   \/ Pushes(t)
                                   \/ ProducerExit(t) /\ UNCHANGED Visible
           \/ \E t \in Consumers : Calls(t, "pop", NULL) \/ Pops(t)
           \/ Calls(Main, "push", EOS) /\ step = "eos" /\ i[Main] < c
           \/ Pushes(Main)
           \/ MainSteps
           \/ Nothing
<1>0. ASSUME UNCHANGED vars PROVE UNCHANGED Visible
  BY <1>0 DEF vars, Visible, Items, Slot, Op
<1>1. ASSUME NEW t \in Threads, NEW d, PushCall(t, d), UNCHANGED locals, Idle(t)
      PROVE  Calls(t, "push", d)
  <2>1. PushCall(t, d)
    BY <1>1
  <2> QED
    BY <1>1, <2>1 DEF PushCall, Calls, Idle, Items, Slot, Op, QueueInv, TypeOK
<1>2. ASSUME NEW t \in Consumers, ConsumerPop(t) PROVE Calls(t, "pop", NULL)
  <2>1. PopCall(t) /\ t \in Threads
    BY <1>2, ThreadFacts DEF ConsumerPop
  <2> QED
    BY <1>2, <2>1 DEF ConsumerPop, PopCall, Calls, Idle, Items, Slot, Op, QueueInv, TypeOK
<1>3. ASSUME NEW t \in Producers, ProducerPush(t)
      PROVE  Calls(t, "push", i[t]) /\ i[t] < interval[t].stop
  BY <1>1, <1>3, ThreadFacts DEF ProducerPush
<1>4. ASSUME NEW t \in Producers \cup {Main}, ProducerInPush(t) \/ (t = Main /\ MainInPush)
      PROVE  Pushes(t) \/ Nothing
  <2>1. t \in Threads /\ Inside(t) /\ Op[t] # "pop"
    BY <1>4, ThreadFacts DEF ProducerInPush, MainInPush, Control
  <2>2. /\ i' = [i EXCEPT ![t] = IF pc'[t] = "idle" THEN @ + 1 ELSE @]
        /\ UNCHANGED <<alive, step, freed, got, spurious>>
    BY <1>4 DEF ProducerInPush, MainInPush
  <2>3. pc'[t] = "idle" <=> Op'[t] = "idle"
    BY <2>1, IdleOp
  <2>4. Op \in [Threads -> {"idle", "push", "pop"}]
    BY <2>1, IdleOp
  <2>5. CASE /\ Op[t] = "push" /\ Op' = [Op EXCEPT ![t] = "idle"]
             /\ Items' = Append(Items, data[t]) /\ data' = data
    BY <2>1, <2>2, <2>3, <2>4, <2>5 DEF Pushes
  <2>6. CASE Op[t] # "idle" /\ UNCHANGED Visible
    <3>1. i' = i
      BY <2>1, <2>2, <2>3, <2>6, <1>4 DEF Visible, Control
    <3> QED BY <2>2, <2>6, <3>1 DEF Nothing, Control
  <2> QED BY <2>1, <2>5, <2>6, InsideStep
<1>5. ASSUME NEW t \in Consumers, ConsumerInPop(t) PROVE Pops(t) \/ Nothing
  <2>1. t \in Threads /\ Inside(t) /\ Op[t] # "push"
    BY <1>5, ThreadFacts DEF ConsumerInPop, Control
  <2>2. /\ pc'[t] = "idle" <=> Op'[t] = "idle"
        /\ Op \in [Threads -> {"idle", "push", "pop"}]
        /\ data \in [Threads -> Data \cup {NULL}]
    BY <2>1, IdleOp
  <2>3. CASE /\ Op[t] = "pop" /\ Op' = [Op EXCEPT ![t] = "idle"]
             /\ Items # <<>> /\ Items' = Tail(Items)
             /\ data' = [data EXCEPT ![t] = Head(Items)]
    <3>1. pc'[t] = "idle" /\ data'[t] = Head(Items)
      BY <2>1, <2>2, <2>3
    <3> QED BY <1>5, <2>3, <3>1 DEF ConsumerInPop, Pops
  <2>4. CASE Op[t] # "idle" /\ UNCHANGED Visible
    <3>1. pc'[t] # "idle"
      BY <2>1, <2>2, <2>4 DEF Visible
    <3> QED BY <1>5, <2>4, <3>1 DEF ConsumerInPop, Nothing, Control
  <2> QED BY <2>1, <2>3, <2>4, InsideStep
<1>6. ASSUME NEW t \in Threads, Spurious(t) PROVE Nothing
  <2>1. SpuriousWakeup(t)
    BY <1>6 DEF Spurious
  <2>2. UNCHANGED Visible
    BY <2>1 DEF SpuriousWakeup, Visible, Items, Slot, Op, QueueInv, TypeOK
  <2> QED BY <1>6, <2>2, OptionsAssumption DEF Spurious, Nothing, Control
<1>7. CASE MainPushEOS
  BY <1>1, <1>7, ThreadFacts DEF MainPushEOS
<1>8. ASSUME NEW t \in Producers, ProducerExit(t) PROVE UNCHANGED Visible
  BY <1>0, <1>8 DEF ProducerExit
<1>9. CASE \/ MainCreate \/ MainCreateFails \/ MainJoinProducers \/ MainJoinConsumers
           \/ MainDelete
  BY <1>0, <1>9 DEF MainSteps, MainCreate, MainCreateFails, MainJoinProducers,
                    MainJoinConsumers, MainDelete
<1>10. CASE Terminated \/ UNCHANGED testVars
  BY <1>0, <1>10 DEF Terminated, testVars, Nothing, locals, Control
<1> QED
  BY <1>2, <1>3, <1>4, <1>5, <1>6, <1>7, <1>8, <1>9, <1>10 DEF TestNext

\* Loop counters, thread states and calls in progress stay consistent.
LEMMA ControlStep ==
    ASSUME QueueInv, QueueInv', Control, EndsAreLast, Ordered, [TestNext]_testVars
    PROVE  Control'
<1> USE ThreadFacts, IntervalFacts
<1>0. /\ Op \in [Threads -> {"idle", "push", "pop"}]
      /\ data \in [Threads -> Data \cup {NULL}]
  BY IdleOp
<1>1. ASSUME NEW t \in Producers, Calls(t, "push", i[t]), i[t] < interval[t].stop
      PROVE  Control'
  BY <1>0, <1>1 DEF Calls, Control, locals
<1>2. ASSUME NEW t \in Producers, Pushes(t) PROVE Control'
  BY <1>0, <1>2 DEF Pushes, Control
<1>3. ASSUME NEW t \in Producers, ProducerExit(t), UNCHANGED Visible PROVE Control'
  BY <1>0, <1>3, IdleOp DEF ProducerExit, Idle, Visible, Control
<1>4. ASSUME NEW t \in Consumers, Calls(t, "pop", NULL) PROVE Control'
  BY <1>0, <1>4 DEF Calls, Control, locals
<1>5. ASSUME NEW t \in Consumers, Pops(t) PROVE Control'
  BY <1>0, <1>5 DEF Pops, Control
<1>6. ASSUME Calls(Main, "push", EOS), step = "eos", i[Main] < c PROVE Control'
  BY <1>0, <1>6 DEF Calls, Control, locals
<1>7. ASSUME Pushes(Main) PROVE Control'
  BY <1>0, <1>7 DEF Pushes, Control
<1>8. CASE MainSteps
  <2>1. CASE MainCreate
    <3>1. i[Main] \in Nat /\ i[Main] < p + c /\ step = "create"
      BY <2>1 DEF MainCreate, Control
    <3>2. CreationOrder(i[Main]) \in Threads \ {Main}
      BY <3>1 DEF CreationOrder, Producers, Consumers
    <3> QED BY <1>0, <1>8, <2>1, <3>1, <3>2 DEF MainSteps, MainCreate, Visible, Control, Idle, Running
  <2>2. CASE MainCreateFails
    BY <1>0, <1>8, <2>2, IdleOp DEF MainSteps, MainCreateFails, Visible, Control, Idle, Running
  <2>3. CASE MainJoinProducers
    BY <1>0, <1>8, <2>3 DEF MainSteps, MainJoinProducers, Visible, Control, Idle, Running
  <2>4. CASE MainJoinConsumers
    BY <1>0, <1>8, <2>4, IdleOp DEF MainSteps, MainJoinConsumers, Visible, Control, Idle, Running
  <2>5. CASE MainDelete
    BY <1>0, <1>8, <2>5, IdleOp DEF MainSteps, MainDelete, Visible, Control, Idle, Running
  <2> QED BY <1>8, <2>1, <2>2, <2>3, <2>4, <2>5 DEF MainSteps
<1>9. CASE Nothing
  BY <1>9 DEF Nothing, Visible, Control
<1> QED BY <1>1, <1>2, <1>3, <1>4, <1>5, <1>6, <1>7, <1>8, <1>9, ViewStep

\* The consumers that have left are finitely many, so they can be counted.
LEMMA LeftFinite == IsFiniteSet(Left) /\ Cardinality(Left) \in Nat
<1>1. p \in Int /\ p + c - 1 \in Int
  BY ThreadFacts
<1>2. IsFiniteSet(Consumers)
  BY <1>1, FS_Interval DEF Consumers
<1>3. IsFiniteSet(Left)
  BY <1>2, FS_Subset DEF Left
<1> QED BY <1>3, FS_CardinalityType

(* The elements behind the last message are the EOS that main has pushed   *)
(* and nobody has popped; a consumer leaves only when nothing else is left. *)
LEMMA EndsAreLastStep ==
    ASSUME QueueInv, QueueInv', Control, Control', EndsAreLast, Ordered, [TestNext]_testVars
    PROVE  EndsAreLast'
<1> USE ThreadFacts
<1>0. /\ Items \in Seq(Data \cup {NULL})
      /\ data \in [Threads -> Data \cup {NULL}]
      /\ Op \in [Threads -> {"idle", "push", "pop"}]
  BY IdleOp
<1>a. IsFiniteSet(Left) /\ Cardinality(Left) \in Nat
  BY LeftFinite
<1>b. i[Main] \in Nat /\ Ends \in Nat
  BY DEF Control, EndsAreLast
<1>c. ASSUME Items' = Items, Left' = Left, Ends' = Ends,
             step' = step \/ step' \in {"eos", "delete"}
      PROVE  EndsAreLast'
  BY <1>c DEF EndsAreLast
<1>1. ASSUME NEW t \in Producers, Calls(t, "push", i[t]), i[t] < interval[t].stop
      PROVE  EndsAreLast'
  BY <1>c, <1>1 DEF Calls, locals, Left, Ends
<1>2. ASSUME NEW t \in Producers, Pushes(t) PROVE EndsAreLast'
  <2>1. data[t] # EOS /\ step \notin {"eos", "delete"}
    BY <1>2, NextMessage, NamesAssumption, QueueAssumption DEF Pushes, Control
  <2>2. /\ Left' = Left /\ Left = {} /\ Ends = 0 /\ Ends' = 0 /\ step' = step
        /\ Items' = Append(Items, data[t]) /\ data[t] \in Data \cup {NULL}
    BY <1>0, <1>2, <2>1 DEF Pushes, Left, Ends, Control, EndsAreLast
  <2> QED BY <1>0, <2>1, <2>2 DEF EndsAreLast
<1>3. ASSUME NEW t \in Producers, ProducerExit(t), UNCHANGED Visible PROVE EndsAreLast'
  <2>1. Left' = Left
    BY <1>3 DEF ProducerExit, Left, Control
  <2> QED BY <1>c, <1>3, <2>1 DEF ProducerExit, Visible, Ends
<1>4. ASSUME NEW t \in Consumers, Calls(t, "pop", NULL) PROVE EndsAreLast'
  BY <1>c, <1>4 DEF Calls, locals, Left, Ends
<1>5. ASSUME NEW t \in Consumers, Pops(t) PROVE EndsAreLast'
  <2>1. /\ Len(Items) \in Nat \ {0} /\ Head(Items) = Items[1] /\ Len(Items') = Len(Items) - 1
        /\ \A k \in 1 .. Len(Items) - 1 : Items'[k] = Items[k + 1]
    BY <1>0, <1>5 DEF Pops
  <2>2. CASE Head(Items) = EOS
    <3>1. Ends = Len(Items) /\ step \in {"eos", "delete"}
      BY <1>b, <2>1, <2>2 DEF EndsAreLast, Ends, Control
    <3>2. t \notin Left /\ Left' = Left \cup {t}
      BY <1>5, <2>2 DEF Pops, Left, Control
    <3>3. Cardinality(Left') = Cardinality(Left) + 1
      BY <1>a, <3>2, FS_AddElement
    <3>4. Ends' = Ends - 1 /\ step' = step
      BY <1>a, <1>b, <1>5, <3>1, <3>3 DEF Ends, Pops
    <3> QED BY <1>b, <2>1, <3>1, <3>4 DEF EndsAreLast
  <2>3. CASE Head(Items) # EOS
    <3>1. Ends' = Ends /\ Left' = Left /\ step' = step
      BY <1>5, <2>3 DEF Pops, Ends, Left
    <3>2. Ends <= Len(Items) - 1
      BY <1>b, <2>1, <2>3 DEF EndsAreLast
    <3> QED BY <1>b, <2>1, <2>3, <3>1, <3>2 DEF EndsAreLast
  <2> QED BY <2>2, <2>3
<1>6. ASSUME Calls(Main, "push", EOS), step = "eos", i[Main] < c PROVE EndsAreLast'
  BY <1>c, <1>6 DEF Calls, locals, Left, Ends
<1>7. ASSUME Pushes(Main) PROVE EndsAreLast'
  <2>1. /\ step = "eos" /\ step' = step /\ Left' = Left /\ i'[Main] = i[Main] + 1
        /\ Items' = Append(Items, EOS) /\ EOS \in Data
    BY <1>7 DEF Pushes, Control, Left
  <2>2. Ends' = Ends + 1
    BY <1>a, <1>b, <2>1 DEF Ends
  <2>3. /\ Len(Items') = Len(Items) + 1
        /\ \A k \in 1 .. Len(Items) : Items'[k] = Items[k]
        /\ Items'[Len(Items) + 1] = EOS
    BY <1>0, <2>1
  <2> QED BY <1>0, <1>b, <2>1, <2>2, <2>3 DEF EndsAreLast
<1>8. CASE MainSteps
  <2>1. CASE MainCreate
    <3>1. step = "create" /\ step' \in {"create", "join_producers"}
      BY <2>1 DEF MainCreate
    <3>2. Left = {} /\ Left' = {}
      BY <2>1, <3>1 DEF MainCreate, EndsAreLast, Left, Control
    <3> QED BY <1>8, <3>1, <3>2 DEF MainSteps, Visible, Ends, EndsAreLast
  <2>2. CASE MainCreateFails
    <3>1. Left' = Left
      BY <2>2 DEF MainCreateFails, Left, Control
    <3> QED BY <1>c, <1>8, <2>2, <3>1 DEF MainSteps, Visible, MainCreateFails, Ends
  <2>3. CASE MainJoinProducers
    <3>1. Left = {} /\ Left' = {} /\ i[Main] = 0
      BY <2>3 DEF MainJoinProducers, EndsAreLast, Left, Control
    <3>2. Ends' = 0 /\ Ends = 0
      BY <2>3, <3>1, FS_EmptySet DEF MainJoinProducers, Ends
    <3> QED BY <1>c, <1>8, <2>3, <3>1, <3>2 DEF MainSteps, Visible, MainJoinProducers
  <2>4. CASE MainJoinConsumers
    BY <1>c, <1>8, <2>4 DEF MainSteps, Visible, MainJoinConsumers, Left, Ends
  <2>5. CASE MainDelete
    <3>1. Left' = Left
      BY <2>5 DEF MainDelete, Left, Control
    <3> QED BY <1>c, <1>8, <2>5, <3>1 DEF MainSteps, Visible, MainDelete, Ends
  <2> QED BY <1>8, <2>1, <2>2, <2>3, <2>4, <2>5 DEF MainSteps
<1>9. CASE Nothing
  BY <1>c, <1>9 DEF Nothing, Visible, Left, Ends
<1> QED BY <1>1, <1>2, <1>3, <1>4, <1>5, <1>6, <1>7, <1>8, <1>9, ViewStep

\* The order and the uniqueness of the messages are kept by every step.
LEMMA OrderedStep ==
    ASSUME QueueInv, QueueInv', Control, Control', EndsAreLast, Ordered, [TestNext]_testVars
    PROVE  Ordered'
<1> USE ThreadFacts
<1>0. /\ Items \in Seq(Data \cup {NULL}) /\ Len(Items) \in Nat
      /\ Op \in [Threads -> {"idle", "push", "pop"}]
      /\ i \in [Producers \cup {Main} -> Nat]
  BY IdleOp DEF Control
<1>a. \A msg \in Messages : /\ msg \in Int /\ msg \in Data /\ msg # EOS
                            /\ ProducerOf(msg) \in Producers
  BY NamesAssumption, QueueAssumption, ProducerFacts DEF Messages
<1>b. ASSUME Items' = Items, got' = got, \A t \in Producers : i'[t] = i[t] PROVE Ordered'
  <2>1. Pushed' = Pushed
    BY <1>a, <1>b DEF Pushed
  <2> QED BY <1>0, <1>a, <1>b, <2>1 DEF Ordered
<1>1. ASSUME NEW t \in Producers, Calls(t, "push", i[t]) PROVE Ordered'
  BY <1>b, <1>1 DEF Calls, locals
<1>2. ASSUME NEW t \in Producers, Pushes(t) PROVE Ordered'
  <2> DEFINE x == data[t]
  <2>1. x = i[t] /\ x \in Messages /\ ProducerOf(x) = t /\ x \in Data
    BY <1>2, <1>a, NextMessage DEF Pushes, Control
  <2>2. /\ Len(Items') = Len(Items) + 1
        /\ \A k \in 1 .. Len(Items) : Items'[k] = Items[k]
        /\ Items'[Len(Items) + 1] = x
        /\ got' = got
    BY <1>0, <1>2, <2>1 DEF Pushes
  <2>3. \A s \in Producers : i'[s] = IF s = t THEN i[t] + 1 ELSE i[s]
    BY <1>0, <1>2 DEF Pushes
  <2>4. Pushed' \subseteq Pushed \cup {x}
    BY <1>0, <1>a, <2>1, <2>3, ProducerFacts DEF Pushed
  <2> HIDE DEF x
  <2>5. /\ got' \in [Consumers -> SUBSET Messages]
        /\ \A k \in 1 .. Len(Items') : Items'[k] \in Data
    BY <2>1, <2>2, <1>0 DEF Ordered
  <2>6. ASSUME NEW j \in 1 .. Len(Items'), NEW k \in 1 .. Len(Items'), j < k,
               Items'[j] \in Messages, Items'[k] \in Messages,
               ProducerOf(Items'[j]) = ProducerOf(Items'[k])
        PROVE  Items'[j] < Items'[k]
    <3>1. j \in 1 .. Len(Items) /\ Items'[j] = Items[j]
      BY <1>0, <2>2, <2>6
    <3>2. CASE k \in 1 .. Len(Items)
      BY <2>2, <2>6, <3>1, <3>2 DEF Ordered
    <3>3. CASE k = Len(Items) + 1
      <4>1. Items'[k] = x /\ ProducerOf(Items[j]) = t
        BY <2>1, <2>2, <2>6, <3>1, <3>3
      <4>2. Items[j] < i[t]
        BY <2>6, <3>1, <4>1 DEF Ordered
      <4> QED BY <2>1, <3>1, <4>1, <4>2
    <3> QED BY <1>0, <2>2, <3>2, <3>3
  <2>7. ASSUME NEW k \in 1 .. Len(Items'), Items'[k] \in Messages
        PROVE  /\ Items'[k] < i'[ProducerOf(Items'[k])]
               /\ \A s \in Consumers : \A msg \in got'[s] :
                     ProducerOf(msg) = ProducerOf(Items'[k]) => msg < Items'[k]
    <3>1. CASE k \in 1 .. Len(Items)
      <4>1. Items'[k] = Items[k] /\ Items[k] \in Messages
        BY <2>2, <2>7, <3>1
      <4>2. ProducerOf(Items[k]) \in Producers /\ Items[k] < i[ProducerOf(Items[k])]
        BY <1>a, <3>1, <4>1 DEF Ordered
      <4>3. Items[k] < i'[ProducerOf(Items[k])]
        BY <1>0, <1>a, <2>1, <2>3, <4>1, <4>2
      <4> QED BY <2>2, <3>1, <4>1, <4>3 DEF Ordered
    <3>2. CASE k = Len(Items) + 1
      <4>1. Items'[k] = x
        BY <2>2, <3>2
      <4>2. x < i'[ProducerOf(x)]
        BY <1>0, <1>a, <2>1, <2>3
      <4>3. \A s \in Consumers : \A msg \in got[s] : msg < i[ProducerOf(msg)]
        BY DEF Ordered
      <4> QED BY <2>1, <2>2, <4>1, <4>2, <4>3
    <3> QED BY <1>0, <2>2, <3>1, <3>2
  <2>8. \A s \in Consumers : \A msg \in got'[s] : msg < i'[ProducerOf(msg)]
    BY <1>0, <1>a, <2>2, <2>3 DEF Ordered
  <2>9. \A msg \in Pushed' : \/ \E k \in 1 .. Len(Items') : Items'[k] = msg
                            \/ \E s \in Consumers : msg \in got'[s]
    BY <1>0, <2>2, <2>4 DEF Ordered
  <2> QED BY <2>2, <2>5, <2>6, <2>7, <2>8, <2>9 DEF Ordered
<1>3. ASSUME NEW t \in Producers, ProducerExit(t), UNCHANGED Visible PROVE Ordered'
  BY <1>b, <1>3 DEF ProducerExit, Visible
<1>4. ASSUME NEW t \in Consumers, Calls(t, "pop", NULL) PROVE Ordered'
  BY <1>b, <1>4 DEF Calls, locals
<1>5. ASSUME NEW t \in Consumers, Pops(t) PROVE Ordered'
  <2> DEFINE x == Head(Items)
  <2>1. /\ Len(Items) \in Nat \ {0} /\ x = Items[1] /\ Len(Items') = Len(Items) - 1
        /\ \A k \in 1 .. Len(Items) - 1 : Items'[k] = Items[k + 1]
    BY <1>0, <1>5 DEF Pops
  <2>2. i' = i /\ Pushed' = Pushed
    BY <1>5 DEF Pops, Pushed
  <2>3. \A k \in 1 .. Len(Items') : k + 1 \in 1 .. Len(Items) /\ Items'[k] = Items[k + 1]
    BY <2>1
  <2>4. CASE x = EOS
    <3>1. got' = got
      BY <1>5, <2>4 DEF Pops
    <3>2. ASSUME NEW msg \in Pushed'
          PROVE  \/ \E k \in 1 .. Len(Items') : Items'[k] = msg
                 \/ \E s \in Consumers : msg \in got'[s]
      <4>1. msg # EOS
        BY <1>a, <2>2 DEF Pushed
      <4>2. CASE \E s \in Consumers : msg \in got[s]
        BY <3>1, <4>2
      <4>3. CASE \E k \in 1 .. Len(Items) : Items[k] = msg
        <5>1. PICK k \in 1 .. Len(Items) : Items[k] = msg
          BY <4>3
        <5>2. Items[1] = EOS
          BY <2>1, <2>4
        <5>3. k # 1
          BY <4>1, <5>1, <5>2
        <5>4. k - 1 \in 1 .. Len(Items') /\ (k - 1) + 1 = k
          BY <2>1, <5>3
        <5> QED BY <2>3, <5>1, <5>4
      <4> QED BY <2>2, <4>2, <4>3 DEF Ordered
    <3> HIDE DEF x
    <3>3. \A j, k \in 1 .. Len(Items') :
            /\ j < k /\ Items'[j] \in Messages /\ Items'[k] \in Messages
            /\ ProducerOf(Items'[j]) = ProducerOf(Items'[k])
            => Items'[j] < Items'[k]
      BY <2>1, <2>3 DEF Ordered
    <3>4. \A k \in 1 .. Len(Items') : Items'[k] \in Data
      BY <2>3 DEF Ordered
    <3>5. ASSUME NEW k \in 1 .. Len(Items'), Items'[k] \in Messages
          PROVE  /\ Items'[k] < i'[ProducerOf(Items'[k])]
                 /\ \A s \in Consumers : \A msg \in got'[s] :
                       ProducerOf(msg) = ProducerOf(Items'[k]) => msg < Items'[k]
      BY <2>2, <2>3, <3>1, <3>5 DEF Ordered
    <3> QED BY <2>2, <3>1, <3>2, <3>3, <3>4, <3>5 DEF Ordered
  <2>5. CASE x # EOS
    <3>1. x \in Messages
      BY <1>0, <2>1, <2>5, NamesAssumption, QueueAssumption DEF Ordered
    <3>2. got' = [got EXCEPT ![t] = @ \cup {x}] /\ got \in [Consumers -> SUBSET Messages]
      BY <1>5, <2>5 DEF Pops, Ordered
    <3>3. \A s \in Consumers : got'[s] = IF s = t THEN got[s] \cup {x} ELSE got[s]
      BY <3>2
    <3>4. \A s \in Consumers : x \notin got[s]
      BY <1>a, <2>1, <3>1 DEF Ordered
    <3> HIDE DEF x
    <3>5. got' \in [Consumers -> SUBSET Messages]
      BY <3>1, <3>2
    <3>6. \A j, k \in 1 .. Len(Items') :
            /\ j < k /\ Items'[j] \in Messages /\ Items'[k] \in Messages
            /\ ProducerOf(Items'[j]) = ProducerOf(Items'[k])
            => Items'[j] < Items'[k]
      BY <1>0, <2>1, <2>3 DEF Ordered
    <3>7. ASSUME NEW k \in 1 .. Len(Items'), Items'[k] \in Messages
          PROVE  /\ Items'[k] < i'[ProducerOf(Items'[k])]
                 /\ \A s \in Consumers : \A msg \in got'[s] :
                       ProducerOf(msg) = ProducerOf(Items'[k]) => msg < Items'[k]
      <4>1. 1 < k + 1 /\ k + 1 \in 1 .. Len(Items) /\ 1 \in 1 .. Len(Items)
            /\ Items'[k] = Items[k + 1]
        BY <2>1, <2>3
      <4>2. ProducerOf(x) = ProducerOf(Items'[k]) => x < Items'[k]
        BY <2>1, <3>1, <3>7, <4>1 DEF Ordered
      <4> QED BY <2>2, <3>3, <3>7, <4>1, <4>2 DEF Ordered
    <3>8. \A s \in Consumers : \A msg \in got'[s] : msg < i'[ProducerOf(msg)]
      <4>1. x < i[ProducerOf(x)]
        <5>1. 1 \in 1 .. Len(Items) /\ Items[1] = x
          BY <2>1
        <5> QED BY <3>1, <5>1 DEF Ordered
      <4> QED BY <2>2, <3>3, <4>1 DEF Ordered
    <3>9. \A r, s \in Consumers : \A msg \in Messages : msg \in got'[r] /\ msg \in got'[s] => r = s
      <4>1. \A r, s \in Consumers : \A msg \in Messages : msg \in got[r] /\ msg \in got[s] => r = s
        BY DEF Ordered
      <4> QED BY <3>3, <3>4, <4>1
    <3>10. ASSUME NEW msg \in Pushed'
           PROVE  \/ \E k \in 1 .. Len(Items') : Items'[k] = msg
                  \/ \E s \in Consumers : msg \in got'[s]
      <4>1. CASE \E s \in Consumers : msg \in got[s]
        BY <3>3, <4>1
      <4>2. CASE \E k \in 1 .. Len(Items) : Items[k] = msg
        <5>1. PICK k \in 1 .. Len(Items) : Items[k] = msg
          BY <4>2
        <5>2. CASE k = 1
          <6>1. msg = x
            BY <2>1, <5>1, <5>2
          <6> QED BY <3>3, <6>1
        <5>3. CASE k # 1
          <6>1. k - 1 \in 1 .. Len(Items') /\ (k - 1) + 1 = k
            BY <2>1, <5>3
          <6>2. Items'[k - 1] = msg
            BY <2>3, <5>1, <6>1
          <6> QED BY <6>1, <6>2
        <5> QED BY <5>2, <5>3
      <4> QED BY <2>2, <4>1, <4>2 DEF Ordered
    <3>11. \A k \in 1 .. Len(Items') : Items'[k] \in Data
      BY <2>3 DEF Ordered
    <3> QED BY <3>5, <3>6, <3>7, <3>8, <3>9, <3>10, <3>11 DEF Ordered
  <2> QED BY <2>4, <2>5
<1>6. ASSUME Calls(Main, "push", EOS) PROVE Ordered'
  BY <1>b, <1>6 DEF Calls, locals
<1>7. ASSUME Pushes(Main) PROVE Ordered'
  <2>1. /\ Len(Items') = Len(Items) + 1
        /\ \A k \in 1 .. Len(Items) : Items'[k] = Items[k]
        /\ Items'[Len(Items) + 1] = EOS
        /\ got' = got /\ \A t \in Producers : i'[t] = i[t]
    BY <1>0, <1>7 DEF Pushes, Control
  <2>2. Pushed' = Pushed
    BY <1>a, <2>1 DEF Pushed
  <2>3. \A k \in 1 .. Len(Items') :
           \/ k \in 1 .. Len(Items) /\ Items'[k] = Items[k]
           \/ Items'[k] = EOS
    BY <1>0, <2>1
  <2>4. EOS \in Data /\ EOS \notin Messages
    BY <1>a
  <2>5. \A j, k \in 1 .. Len(Items') :
           /\ j < k /\ Items'[j] \in Messages /\ Items'[k] \in Messages
           /\ ProducerOf(Items'[j]) = ProducerOf(Items'[k])
           => Items'[j] < Items'[k]
    BY <2>3, <2>4 DEF Ordered
  <2>6. \A k \in 1 .. Len(Items') : Items'[k] \in Messages =>
           /\ Items'[k] < i'[ProducerOf(Items'[k])]
           /\ \A t \in Consumers : \A msg \in got'[t] :
                 ProducerOf(msg) = ProducerOf(Items'[k]) => msg < Items'[k]
    BY <1>a, <2>1, <2>3, <2>4 DEF Ordered
  <2>7. \A msg \in Pushed' : \/ \E k \in 1 .. Len(Items') : Items'[k] = msg
                              \/ \E t \in Consumers : msg \in got'[t]
    BY <1>0, <2>1, <2>2 DEF Ordered
  <2>8. \A k \in 1 .. Len(Items') : Items'[k] \in Data
    BY <2>3, <2>4 DEF Ordered
  <2>9. \A t \in Consumers : \A msg \in got'[t] : msg < i'[ProducerOf(msg)]
    BY <1>a, <2>1 DEF Ordered
  <2> HIDE <1>a
  <2> QED BY <2>1, <2>5, <2>6, <2>7, <2>8, <2>9 DEF Ordered
<1>8. CASE MainSteps
  <2>1. Items' = Items /\ got' = got
    BY <1>8 DEF MainSteps, Visible, MainCreate, MainCreateFails, MainJoinProducers,
                MainJoinConsumers, MainDelete
  <2>2. \A t \in Producers : i'[t] = i[t]
    BY <1>0, <1>8 DEF MainSteps, MainCreate, MainCreateFails, MainJoinProducers,
                MainJoinConsumers, MainDelete
  <2> QED BY <1>b, <2>1, <2>2
<1>9. CASE Nothing
  BY <1>b, <1>9 DEF Nothing, Visible
<1> QED BY <1>1, <1>2, <1>3, <1>4, <1>5, <1>6, <1>7, <1>8, <1>9, ViewStep

\* The invariant holds when main starts.
LEMMA InitHolds == TestInit => QueueInv /\ TestInv
<1> SUFFICES ASSUME TestInit PROVE QueueInv /\ TestInv
  OBVIOUS
<1> USE ThreadFacts
<1>1. Init
  BY DEF TestInit
<1>2. QueueInv
  BY <1>1, NamesAssumption, QueueAssumption
  DEF QueueInv, Init, TypeOK, RingInv,
      MutualExclusion, Slots, Slot
<1>3. Items = <<>> /\ Op = [t \in Threads |-> "idle"]
  BY <1>1 DEF Init, Items, Op
<1>4. Left = {} /\ Ends = 0 /\ Pushed = {}
  BY IntervalFacts, ProducerFacts DEF TestInit, Left, Ends, Pushed, Messages
<1>5. Control
  <2>1. \A t \in Threads : Op[t] = "idle"
    BY <1>3
  <2>2. \A t \in Producers : /\ i[t] = interval[t].start
                             /\ interval[t].start \in Nat
                             /\ interval[t].stop \in Nat
                             /\ interval[t].start <= interval[t].stop
    BY IntervalFacts DEF TestInit
  <2>3. i[Main] = 0 /\ i \in [Producers \cup {Main} -> Nat]
    BY <2>2 DEF TestInit
  <2>4. alive \in [Threads -> {"new", "running", "exited"}] /\ alive[Main] = "running"
    BY DEF TestInit
  <2>5. step = "create" /\ freed = FALSE /\ spurious \in 0 .. MaxSpurious
    BY OptionsAssumption DEF TestInit
  <2>6. \A t \in Producers : i[t] \in interval[t].start .. interval[t].stop
    BY <2>2
  <2>7. i[Main] < p + c
    BY <2>3
  <2>8. Main \in Threads /\ Producers \subseteq Threads /\ Consumers \subseteq Threads
    OBVIOUS
  <2> HIDE ThreadFacts
  <2> QED BY <2>1, <2>3, <2>4, <2>5, <2>6, <2>7, <2>8 DEF Control
<1>6. EndsAreLast /\ Ordered
  BY <1>3, <1>4 DEF TestInit, EndsAreLast, Ordered
<1> QED BY <1>2, <1>5, <1>6 DEF TestInv

(* The inductive invariant of testBQueue.c: the queue is sound, and where   *)
(* the threads are, what is in the queue and what was consumed agree.      *)
THEOREM TestInvCorrect == TestSpec => [](QueueInv /\ TestInv)
<1>1. QueueInv /\ TestInv /\ [TestNext]_testVars => QueueInv' /\ TestInv'
  BY QueueStep, QueueInvStep, ControlStep, EndsAreLastStep, OrderedStep DEF TestInv
<1> QED BY InitHolds, <1>1, PTL DEF TestSpec

-----------------------------------------------------------------------------
(* The producers, the consumers and main only do to the queue what a       *)
(* client of it may do, so all that is proved of boundedqueue.c holds of   *)
(* testBQueue.c.                                                           *)
THEOREM TestUsesQueue == TestSpec => Spec
<1>1. TestInit => Init
  BY DEF TestInit
<1>2. TestInv /\ [TestNext]_testVars => [Next]_vars
  BY QueueStep DEF TestInv
<1> QED BY <1>1, <1>2, TestInvCorrect, PTL DEF TestSpec, Spec

(* So no producer or consumer of testBQueue.c is left waiting for what the *)
(* queue has, unless another thread is about to take it.                    *)
THEOREM TestWakeups == TestSpec => [](WakeupInv /\ NoLostWakeup)
BY TestUsesQueue, WakeupCorrect, NoWakeupIsLost, PTL

\* So testBQueue.c, whose queue it is, uses the abstract FIFO queue.
THEOREM TestImplementsFifo == TestSpec => ImplementsFifo
BY TestUsesQueue, QueueImplementsFifo

(* What the program's variables hold in every execution: the counters stay *)
(* within their loops, what consumers take out of the queue are messages.  *)
THEOREM TestTypes == TestSpec => []TestTypeOK
<1>1. QueueInv /\ TestInv => TestTypeOK
  <2> SUFFICES ASSUME QueueInv, TestInv PROVE TestTypeOK
    OBVIOUS
  <2>1. TypeOK
    BY DEF QueueInv
  <2>2. i[Main] \in 0 .. p + c - 1
    <3>1. i[Main] \in Nat /\ i[Main] < p + c
      BY ThreadFacts DEF TestInv, Control
    <3> QED BY <3>1, ThreadFacts
  <2> QED BY <2>1, <2>2 DEF TestTypeOK, TestInv, Control, Ordered
<1> QED BY <1>1, TestInvCorrect, PTL

(* What the pops of consumer t return, compared with what it has: the      *)
(* messages of one producer reach it in the order they were pushed.        *)
THEOREM TestInOrder == TestSpec => InOrder
<1> DEFINE A == \A t \in Consumers : \A new \in got'[t] \ got[t], old \in got[t] :
                   ProducerOf(new) = ProducerOf(old) => old < new
<1>1. QueueInv /\ QueueInv' /\ TestInv /\ [TestNext]_testVars => A
  <2> SUFFICES ASSUME QueueInv, QueueInv', TestInv, [TestNext]_testVars PROVE A
    OBVIOUS
  <2>1. CASE got' = got
    BY <2>1
  <2>2. ASSUME NEW t \in Consumers, Pops(t) PROVE A
    <3>1. Items # <<>> /\ Items \in Seq(Data \cup {NULL}) /\ 1 \in 1 .. Len(Items)
      BY <2>2, IdleOp, ThreadFacts DEF Pops
    <3>2. Items[1] \in Data /\ Head(Items) = Items[1]
      BY <3>1 DEF TestInv, Ordered
    <3>3. CASE Head(Items) = EOS
      BY <2>2, <3>3 DEF Pops
    <3>4. CASE Head(Items) # EOS
      <4>1. Items[1] \in Messages
        BY <3>2, <3>4, NamesAssumption, QueueAssumption
      <4>2. \A s \in Consumers : got'[s] = IF s = t THEN got[s] \cup {Items[1]} ELSE got[s]
        BY <2>2, <3>2, <3>4 DEF Pops, TestInv, Ordered
      <4>3. \A s \in Consumers : \A msg \in got[s] :
               ProducerOf(msg) = ProducerOf(Items[1]) => msg < Items[1]
        BY <3>1, <4>1 DEF TestInv, Ordered
      <4> QED BY <4>2, <4>3
    <3> QED BY <3>3, <3>4
  <2>3. got' = got \/ \E t \in Consumers : Pops(t)
    BY ViewStep DEF TestInv, Calls, Pushes, ProducerExit, MainSteps, MainCreate, MainCreateFails,
       MainJoinProducers, MainJoinConsumers, MainDelete, Nothing, locals
  <2> QED BY <2>1, <2>2, <2>3
<1>2. [TestNext]_testVars /\ QueueInv /\ QueueInv' /\ TestInv => [A]_testVars
  BY <1>1
<1> QED BY <1>2, TestInvCorrect, PTL DEF TestSpec, InOrder

(* The slots that hold a value are as many as the elements that are equal  *)
(* to it: Slot is a bijection from the positions of one to the other.      *)
LEMMA SlotCount ==
    ASSUME QueueInv, NEW v \in Data
    PROVE  /\ IsFiniteSet({k \in DOMAIN buf : buf[k] = v})
           /\ Cardinality({k \in DOMAIN buf : buf[k] = v})
                = Cardinality({j \in 1 .. Len(Items) : Items[j] = v})
           /\ \A k \in DOMAIN buf : buf[k] = v => \E j \in 1 .. Len(Items) : Items[j] = v
<1> DEFINE S == {j \in 1 .. Len(Items) : Items[j] = v}
           T == {k \in DOMAIN buf : buf[k] = v}
           f == [j \in S |-> Slot(j - 1)]
<1>0. TypeOK /\ RingInv /\ v # NULL /\ qsize \in Nat \ {0}
  BY NamesAssumption, QueueAssumption, ThreadFacts DEF QueueInv
<1>1. /\ Len(Items) = qlen /\ qlen \in 0 .. qsize /\ head \in 0 .. qsize - 1
      /\ \A j \in 1 .. Len(Items) : Items[j] = buf[Slot(j - 1)]
      /\ DOMAIN buf = 0 .. qsize - 1
  BY <1>0, ItemsSequence
  DEF TypeOK, Slots
<1>2. \A j \in S : Slot(j - 1) \in T
  BY <1>0, <1>1 DEF Slot
<1>3. f \in [S -> T]
  BY <1>2
<1>4. \A a, b \in S : f[a] = f[b] => a = b
  BY <1>0, <1>1 DEF Slot
<1>5. ASSUME NEW k \in T PROVE \E j \in S : f[j] = k
  <2> DEFINE d == IF k >= head THEN k - head ELSE k - head + qsize
  <2>0. k \in 0 .. qsize - 1
    BY <1>1
  <2>1. d \in 0 .. qsize - 1 /\ Slot(d) = k
    <3>1. qsize \in Nat \ {0} /\ head \in 0 .. qsize - 1
      BY <1>0, <1>1
    <3> HIDE DEF S, T, f
    <3> QED BY <2>0, <3>1 DEF Slot
  <2>2. d < qlen
    BY <1>0, <1>1, <2>1 DEF RingInv, Slots
  <2> HIDE DEF d
  <2>3. d + 1 \in 1 .. Len(Items) /\ (d + 1) - 1 = d
    BY <1>1, <2>1, <2>2
  <2>4. d + 1 \in S
    BY <1>1, <2>1, <2>3
  <2> QED BY <2>1, <2>3, <2>4
<1>6. ExistsBijection(S, T)
  <2>1. f \in Bijection(S, T)
    BY <1>3, <1>4, <1>5 DEF Bijection, Injection, Surjection, IsInjective
  <2> QED BY <2>1 DEF ExistsBijection
<1>7. IsFiniteSet(S)
  <2>1. 1 \in Int /\ Len(Items) \in Int
    BY <1>1
  <2>2. IsFiniteSet(1 .. Len(Items))
    BY <2>1, FS_Interval
  <2> QED BY <2>2, FS_Subset
<1> HIDE DEF S, T, f
<1>8. IsFiniteSet(T) /\ Cardinality(T) = Cardinality(S)
  BY <1>6, <1>7, FS_Bijection
<1> QED BY <1>5, <1>8 DEF S, T

(* When main frees the queue every thread has left it, it is empty and     *)
(* unlocked, and what was pushed has been consumed.                        *)
THEOREM TestSafeDelete == TestSpec => []SafeDelete
<1>1. QueueInv /\ TestInv => SafeDelete
  <2> SUFFICES ASSUME QueueInv, TestInv, freed PROVE
         /\ \A t \in Threads : pc[t] = "idle" /\ alive[t] = "exited"
         /\ m = NULL
         /\ \A k \in DOMAIN buf : buf[k] = NULL
         /\ Pushed = UNION {got[t] : t \in Consumers}
    BY DEF SafeDelete
  <2>1. step = "delete" /\ \A t \in Threads : alive[t] = "exited"
    BY ThreadFacts DEF TestInv, Control
  <2>2. \A t \in Threads : Op[t] = "idle"
    BY <2>1 DEF TestInv, Control
  <2>3. \A t \in Threads : pc[t] = "idle"
    BY <2>2 DEF Op
  <2>4. m = NULL
    BY <2>3 DEF QueueInv, TypeOK, MutualExclusion
  <2>5. Left = Consumers /\ Cardinality(Consumers) = c
    <3>1. Left = Consumers
      BY <2>1, ThreadFacts DEF Left
    <3> DEFINE last == p + c - 1
    <3>2. p \in Int /\ last \in Int /\ ~(p > last) /\ last - p + 1 = c
      BY ThreadFacts
    <3>3. Consumers = p .. last
      BY DEF Consumers
    <3> HIDE DEF last
    <3>4. Cardinality(p .. last) = IF p > last THEN 0 ELSE last - p + 1
      BY <3>2, FS_Interval
    <3> QED BY <3>1, <3>2, <3>3, <3>4
  <2>6. Ends = 0 /\ Left # {}
    <3>1. i[Main] = c /\ c \in Nat \ {0}
      BY <2>1, ThreadFacts DEF TestInv, Control
    <3>2. p \in Consumers
      BY ThreadFacts DEF Consumers
    <3> QED BY <2>1, <2>5, <3>1, <3>2 DEF Ends
  <2>7. Len(Items) = 0
    BY <2>6 DEF TestInv, EndsAreLast
  <2>8. \A k \in DOMAIN buf : buf[k] = NULL
    <3>1. \A k \in DOMAIN buf : buf[k] \in Data \cup {NULL}
      BY DEF QueueInv, TypeOK
    <3>2. ASSUME NEW v \in Data PROVE \A k \in DOMAIN buf : buf[k] # v
      <4>1. \A k \in DOMAIN buf : buf[k] = v => \E j \in 1 .. Len(Items) : Items[j] = v
        BY SlotCount
      <4> QED BY <2>7, <4>1
    <3> QED BY <3>1, <3>2
  <2>9. Pushed \subseteq UNION {got[t] : t \in Consumers}
    BY <2>7 DEF TestInv, Ordered
  <2>10. UNION {got[t] : t \in Consumers} \subseteq Pushed
    BY DEF TestInv, Ordered, Pushed
  <2> QED BY <2>1, <2>3, <2>4, <2>8, <2>9, <2>10
<1> QED BY <1>1, TestInvCorrect, PTL

(* A consumer leaves on an EOS only when the producers have ended and only *)
(* EOS are left in the queue, one for each consumer still there once main  *)
(* has pushed them all.                                                    *)
THEOREM TestEOSIsLast == TestSpec => []EOSIsLast
<1>1. QueueInv /\ TestInv => EOSIsLast
  <2> SUFFICES ASSUME QueueInv, TestInv PROVE EOSIsLast
    OBVIOUS
  <2>0. /\ \A k \in 1 .. Len(Items) : Items[k] = EOS <=> k > Len(Items) - Ends
        /\ Left # {} => Len(Items) = Ends
        /\ step \in {"create", "join_producers"} => Left = {}
        /\ Ends \in 0 .. Len(Items)
        /\ Len(Items) \in Nat
    <3>1. Len(Items) \in Nat
      BY IdleOp, ThreadFacts
    <3> QED BY <3>1 DEF TestInv, EndsAreLast
  <2>1. ASSUME NEW t \in Consumers, alive[t] = "exited"
        PROVE  /\ \A s \in Producers : alive[s] = "exited"
               /\ \A k \in DOMAIN buf : buf[k] \notin Messages
    <3>1. t \in Left
      BY <2>1 DEF Left
    <3>2. step \in {"eos", "delete"} /\ Len(Items) = Ends
      BY <2>0, <3>1 DEF TestInv, Control
    <3>3. \A k \in 1 .. Len(Items) : Items[k] = EOS
      BY <2>0, <3>2
    <3>4. \A msg \in Messages : msg \in Data /\ msg # EOS
      BY NamesAssumption, QueueAssumption
    <3>5. ASSUME NEW k \in DOMAIN buf, buf[k] \in Messages PROVE FALSE
      <4>1. PICK j \in 1 .. Len(Items) : Items[j] = buf[k]
        BY <3>4, <3>5, SlotCount
      <4> QED BY <3>3, <3>4, <3>5, <4>1
    <3> QED BY <3>2, <3>5 DEF TestInv, Control
  <2>2. ASSUME step = "eos"
        PROVE  i[Main] = Cardinality({k \in DOMAIN buf : buf[k] = EOS}) + Cardinality(Left)
    <3>1. {j \in 1 .. Len(Items) : Items[j] = EOS} = Len(Items) - Ends + 1 .. Len(Items)
      BY <2>0
    <3>2. Cardinality(Len(Items) - Ends + 1 .. Len(Items)) = Ends
      <4>1. Len(Items) - Ends + 1 \in Int /\ Len(Items) \in Int
        BY <2>0
      <4>2. Cardinality(Len(Items) - Ends + 1 .. Len(Items))
              = IF Len(Items) - Ends + 1 > Len(Items) THEN 0
                ELSE Len(Items) - (Len(Items) - Ends + 1) + 1
        BY <4>1, FS_Interval
      <4> QED BY <2>0, <4>2
    <3>3. Cardinality({k \in DOMAIN buf : buf[k] = EOS}) = Ends
      BY <3>1, <3>2, SlotCount, ThreadFacts
    <3>4. i[Main] \in Nat
      BY DEF TestInv, Control
    <3> QED BY <2>2, <3>3, <3>4, LeftFinite DEF Ends
  <2> QED BY <2>1, <2>2 DEF EOSIsLast, Left
<1> QED BY <1>1, TestInvCorrect, PTL

(* Whatever the interleaving, each message pushed is in one slot or has    *)
(* been taken by one consumer, never both, and no other is anywhere.       *)
THEOREM TestExactlyOnce == TestSpec => []ExactlyOnce
<1>1. ASSUME QueueInv, TestInv, NEW msg \in Messages
      PROVE  Cardinality({k \in DOMAIN buf : buf[k] = msg})
               + Cardinality({t \in Consumers : msg \in got[t]})
             = IF msg \in Pushed THEN 1 ELSE 0
  <2> DEFINE K == {k \in 1 .. Len(Items) : Items[k] = msg}
             C == {t \in Consumers : msg \in got[t]}
  <2>1. Cardinality({k \in DOMAIN buf : buf[k] = msg}) = Cardinality(K)
    BY SlotCount, <1>1, NamesAssumption, QueueAssumption
  <2>2. msg \in Int /\ Len(Items) \in Nat /\ ProducerOf(msg) \in Producers
    <3>1. Len(Items) \in Nat
      BY <1>1, IdleOp, ThreadFacts
    <3> QED BY <3>1, ProducerFacts DEF Messages
  <2>3. ASSUME NEW j \in K, NEW k \in K PROVE j = k
    <3>1. ~(j < k) /\ ~(k < j)
      BY <1>1, <2>2 DEF TestInv, Ordered
    <3> QED BY <2>2, <3>1
  <2>4. ASSUME NEW s \in C, NEW t \in C PROVE s = t
    BY <1>1 DEF TestInv, Ordered
  <2>5. ASSUME NEW k \in K, NEW t \in C PROVE FALSE
    BY <1>1, <2>2 DEF TestInv, Ordered
  <2>6. K # {} \/ C # {} => msg \in Pushed
    BY <1>1 DEF TestInv, Ordered, Pushed
  <2>7. msg \in Pushed => K # {} \/ C # {}
    BY <1>1 DEF TestInv, Ordered
  <2> HIDE DEF K, C
  <2>8. K = {} \/ \E x : K = {x}
    BY <2>3
  <2>9. C = {} \/ \E x : C = {x}
    BY <2>4
  <2>10. Cardinality(K) = (IF K = {} THEN 0 ELSE 1) /\ Cardinality(C) = (IF C = {} THEN 0 ELSE 1)
    BY <2>8, <2>9, FS_EmptySet, FS_Singleton
  <2>11. Cardinality(K) + Cardinality(C) = IF msg \in Pushed THEN 1 ELSE 0
    BY <2>5, <2>6, <2>7, <2>10
  <2> QED BY <2>1, <2>11 DEF C
<1>2. QueueInv /\ TestInv /\ TestTypeOK => ExactlyOnce
  BY <1>1 DEF ExactlyOnce
<1> QED BY <1>2, TestInvCorrect, TestTypes, PTL
=============================================================================
