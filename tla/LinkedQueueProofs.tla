------------------------- MODULE LinkedQueueProofs -------------------------
(***************************************************************************)
(* Theorems about LinkedQueue for any finite set of threads, any finite    *)
(* memory and any data, then about testQueue.c for any number of           *)
(* producers, consumers and messages.                                      *)
(*                                                                         *)
(* The inductive invariant of the queue is Inv: the types, the shape of    *)
(* the list and the ownership of the blocks.  The first two say nothing    *)
(* without the third: that the tail of the list is not the node that a pop *)
(* is about to free is a fact about owners.                                *)
(*                                                                         *)
(* The program deletes the queue, so its invariant TestInv says Inv until  *)
(* then (Sound).  Whoever deletes must know that the list is empty and no  *)
(* block is held: Control says where the threads are, EndsAreLast that a   *)
(* consumer that has had an EOS left only others behind it, so that at the *)
(* delete, when c of at most c EOS have been had, nothing is left.  Places *)
(* says that a message pushed is in one place, Memory that every number in *)
(* use is in the list, in the hands of a thread or abandoned by a push     *)
(* that failed.  A step is seen on the elements of the list and on the     *)
(* phases of the threads (ViewStep).                                       *)
(***************************************************************************)
EXTENDS TestQueue, TLAPS, FiniteSetTheorems

LEMMA TypeStep == TypeOK /\ Linked /\ Owned /\ [Next]_vars => TypeOK'
<1> SUFFICES ASSUME TypeOK, Linked, Owned, [Next]_vars PROVE TypeOK'
  OBVIOUS
<1> USE DEF TypeOK
<1>1. ASSUME NEW t \in Threads, NEW d \in Data \cup {NULL}, NEW b \in Nodes,
             PushCall(t, d, b)
      PROVE  TypeOK'
  BY <1>1 DEF PushCall
<1>2. ASSUME NEW t \in Threads, PopCall(t) PROVE TypeOK'
  BY <1>2 DEF PopCall, queueVars
<1>3. ASSUME NEW t \in Threads, Wait(t) PROVE TypeOK'
  BY <1>3 DEF Wait, queueVars
<1>4. ASSUME NEW t \in Threads, Put(t) PROVE TypeOK'
  <2>0. node[t] \in Nodes
    BY <1>4 DEF Put, Owned, Holders
  <2>2. list' \in Seq(Nodes)
    BY <1>4, <2>0 DEF Put
  <2>1. pc' \in [Threads -> {"idle", "push", "pop", "wait", "free"}]
    BY <1>4 DEF Put, SignalAndReturn, Waiting
  <2>3. next' \in [Nodes -> Nodes \cup {NULL}] /\ tail' \in Nodes
    BY <1>4, <2>0 DEF Put
  <2>4. node' \in [Threads -> Nodes \cup {NULL}] /\ qlen' \in Nat
    BY <1>4 DEF Put
  <2>5. UNCHANGED <<head, item, allocated, data>>
    BY <1>4 DEF Put
  <2> QED BY <2>1, <2>2, <2>3, <2>4, <2>5
<1>5. ASSUME NEW t \in Threads, Take(t) PROVE TypeOK'
  <2>1. qlen >= 1 /\ next[head] = list[2] /\ list[2] \in Nodes /\ list # <<>>
    BY <1>5 DEF Take, Linked
  <2>2. Tail(list) \in Seq(Nodes)
    BY <2>1
  <2> QED BY <1>5, <2>1, <2>2 DEF Take
<1>6. ASSUME NEW t \in Threads, FreeNode(t) PROVE TypeOK'
  BY <1>6 DEF FreeNode, queueVars
<1>7. ASSUME NEW t \in Threads, SpuriousWakeup(t) PROVE TypeOK'
  BY <1>7 DEF SpuriousWakeup, queueVars
<1>8. CASE UNCHANGED vars
  BY <1>8 DEF vars
<1> QED
  BY <1>1, <1>2, <1>3, <1>4, <1>5, <1>6, <1>7, <1>8 DEF Next, Inside

\* The blocks of the list and the blocks held are in use, and distinct.
LEMMA InUse ==
    ASSUME TypeOK, Linked, Owned
    PROVE  /\ Len(list) = qlen + 1 /\ qlen \in Nat
           /\ \A k \in 1 .. qlen + 1 : list[k] \in Nodes /\ list[k] \in allocated
           /\ \A t \in Holders : node[t] \in Nodes /\ node[t] \in allocated
           /\ head \in InList /\ tail \in InList
<1>1. Len(list) = qlen + 1 /\ qlen \in Nat /\ 1 \in 1 .. qlen + 1
      /\ qlen + 1 \in 1 .. qlen + 1
  BY DEF TypeOK, Linked
<1>2. \A k \in 1 .. qlen + 1 : list[k] \in Nodes /\ list[k] \in InList
  BY <1>1 DEF TypeOK, InList
<1>3. head \in InList /\ tail \in InList
  BY <1>1, <1>2 DEF Linked
<1>4. \A t \in Holders : node[t] \in allocated
  BY DEF Owned
<1>5. \A b \in InList : b \in allocated
  BY DEF Owned
<1> QED BY <1>1, <1>2, <1>3, <1>4, <1>5 DEF TypeOK

LEMMA LinkedStep ==
    TypeOK /\ Linked /\ Owned /\ [Next]_vars => Linked'
<1> SUFFICES ASSUME TypeOK, Linked, Owned, [Next]_vars PROVE Linked'
  OBVIOUS
<1>0. ASSUME UNCHANGED queueVars PROVE Linked'
  BY <1>0 DEF queueVars, Linked
<1>1. ASSUME NEW t \in Threads, NEW d \in Data \cup {NULL}, NEW b \in Nodes,
             PushCall(t, d, b)
      PROVE  Linked'
  <2>1. \A k \in 1 .. qlen + 1 : list[k] # b
    BY <1>1, InUse DEF PushCall
  <2>2. \A k \in 1 .. qlen + 1 : next'[list[k]] = next[list[k]]
                               /\ item'[list[k]] = item[list[k]]
    BY <1>1, <2>1, InUse DEF PushCall, TypeOK
  <2> QED BY <1>1, <2>2, InUse DEF PushCall, Linked
<1>2. ASSUME NEW t \in Threads, Put(t) PROVE Linked'
  <2>1. /\ node[t] \in Nodes /\ node[t] \notin InList
        /\ item[node[t]] # NULL /\ next[node[t]] = NULL
    BY <1>2, InUse DEF Put, Owned, Holders
  <2>2. /\ list' = Append(list, node[t]) /\ qlen' = qlen + 1 /\ tail' = node[t]
        /\ next' = [next EXCEPT ![tail] = node[t]] /\ UNCHANGED <<head, item>>
    BY <1>2 DEF Put
  <2>3. /\ Len(list') = qlen + 2
        /\ \A k \in 1 .. qlen + 1 : list'[k] = list[k] /\ list[k] # node[t]
        /\ list'[qlen + 2] = node[t]
    BY <2>1, <2>2, InUse DEF TypeOK, InList
  <2>4. \A j, k \in 1 .. qlen + 2 : list'[j] = list'[k] => j = k
    BY <2>3, InUse DEF Linked
  <2>5. ASSUME NEW k \in 1 .. qlen + 1 PROVE next'[list'[k]] = list'[k + 1]
    <3>1. CASE k = qlen + 1
      BY <2>2, <2>3, <3>1, InUse DEF Linked, TypeOK
    <3>2. CASE k # qlen + 1
      <4>1. list[k] # tail
        BY <3>2, InUse DEF Linked
      <4> QED BY <2>2, <2>3, <3>2, <4>1, InUse DEF Linked, TypeOK
    <3> QED BY <3>1, <3>2
  <2>6. next'[tail'] = NULL
    BY <2>1, <2>2, InUse DEF TypeOK
  <2>7. \A k \in 2 .. qlen + 2 : item'[list'[k]] # NULL
    BY <2>1, <2>2, <2>3, InUse DEF Linked
  <2>8. head' = list'[1] /\ tail' = list'[qlen' + 1]
    BY <2>2, <2>3, InUse DEF Linked
  <2> QED BY <2>2, <2>3, <2>4, <2>5, <2>6, <2>7, <2>8, InUse DEF Linked
<1>3. ASSUME NEW t \in Threads, Take(t) PROVE Linked'
  <2>1. qlen >= 1 /\ next[head] = list[2]
    BY <1>3, InUse DEF Take, Linked
  <2>2. /\ list' = Tail(list) /\ qlen' = qlen - 1 /\ head' = list[2]
        /\ UNCHANGED <<tail, next, item>>
    BY <1>3, <2>1 DEF Take
  <2>3. /\ Len(list') = qlen
        /\ \A k \in 1 .. qlen : list'[k] = list[k + 1]
    BY <2>1, <2>2, InUse DEF TypeOK
  <2> QED BY <2>1, <2>2, <2>3, InUse DEF Linked
<1>4. ASSUME NEW t \in Threads,
             PopCall(t) \/ Wait(t) \/ FreeNode(t) \/ SpuriousWakeup(t)
      PROVE  Linked'
  BY <1>0, <1>4 DEF PopCall, Wait, FreeNode, SpuriousWakeup
<1>5. CASE UNCHANGED vars
  BY <1>0, <1>5 DEF vars, queueVars
<1> QED
  BY <1>1, <1>2, <1>3, <1>4, <1>5 DEF Next, Inside

LEMMA OwnedStep ==
    TypeOK /\ Linked /\ Owned /\ [Next]_vars => Owned'
<1> SUFFICES ASSUME TypeOK, Linked, Owned, [Next]_vars PROVE Owned'
  OBVIOUS
<1>1. ASSUME NEW t \in Threads, NEW d \in Data \cup {NULL}, NEW b \in Nodes,
             PushCall(t, d, b)
      PROVE  Owned'
  <2>1. /\ b \notin allocated /\ allocated' = allocated \cup {b}
        /\ t \notin Holders /\ Holders' = Holders \cup {t}
        /\ node' = [node EXCEPT ![t] = b]
        /\ InList' = InList
    BY <1>1 DEF PushCall, Holders, InList, TypeOK
  <2>2. \A s \in Holders : node'[s] = node[s] /\ node[s] # b
    BY <2>1, InUse DEF TypeOK, Holders
  <2>3. b \notin InList /\ node'[t] = b
    BY <2>1 DEF Owned, TypeOK
  <2>4. allocated' = InList' \cup {node'[s] : s \in Holders'}
    BY <2>1, <2>2, <2>3 DEF Owned
  <2>5. \A s \in Holders' : node'[s] \notin InList'
    BY <2>1, <2>2, <2>3 DEF Owned
  <2>6. \A r, s \in Holders' : node'[r] = node'[s] => r = s
    BY <2>1, <2>2, <2>3 DEF Owned
  <2>7. ASSUME NEW s \in Threads, pc'[s] = "push"
        PROVE  data'[s] # NULL /\ item'[node'[s]] = data'[s] /\ next'[node'[s]] = NULL
    <3>1. CASE s = t
      BY <1>1, <2>3, <3>1 DEF PushCall, TypeOK
    <3>2. CASE s # t
      <4>1. pc[s] = "push" /\ s \in Holders
        BY <1>1, <2>7, <3>2 DEF PushCall, TypeOK, Holders
      <4> QED BY <1>1, <2>2, <3>2, <4>1 DEF PushCall, TypeOK, Owned
    <3> QED BY <3>1, <3>2
  <2> QED BY <2>4, <2>5, <2>6, <2>7 DEF Owned
<1>2. ASSUME NEW t \in Threads, Put(t) PROVE Owned'
  <2>1. /\ allocated' = allocated /\ t \in Holders
        /\ Holders' = Holders \ {t}
        /\ node' = [node EXCEPT ![t] = NULL]
        /\ \A s \in Threads : pc'[s] = "push" => pc[s] = "push" /\ s # t
    BY <1>2 DEF Put, SignalAndReturn, Waiting, Holders, TypeOK
  <2>2. InList' = InList \cup {node[t]}
    <3>1. list' = Append(list, node[t]) /\ node[t] \in Nodes
      BY <1>2, <2>1, InUse DEF Put
    <3> QED BY <3>1, InUse DEF InList, TypeOK
  <2>3. \A s \in Holders' : node'[s] = node[s] /\ node[s] # node[t]
    BY <2>1 DEF TypeOK, Owned, Holders
  <2>4. allocated' = InList' \cup {node'[s] : s \in Holders'}
    BY <2>1, <2>2, <2>3 DEF Owned
  <2>5. \A s \in Holders' : node'[s] \notin InList'
    BY <2>1, <2>2, <2>3 DEF Owned
  <2>6. \A r, s \in Holders' : node'[r] = node'[s] => r = s
    BY <2>1, <2>3 DEF Owned
  <2>7. ASSUME NEW s \in Threads, pc'[s] = "push"
        PROVE  data'[s] # NULL /\ item'[node'[s]] = data'[s] /\ next'[node'[s]] = NULL
    <3>1. pc[s] = "push" /\ s \in Holders /\ s # t /\ node'[s] = node[s]
      BY <2>1, <2>7 DEF TypeOK, Holders
    <3>2. node[s] # tail /\ node[s] \in Nodes
      BY <3>1, InUse DEF Owned
    <3> QED BY <1>2, <3>1, <3>2 DEF Put, TypeOK, Owned
  <2> QED BY <2>4, <2>5, <2>6, <2>7 DEF Owned
<1>3. ASSUME NEW t \in Threads, Take(t) PROVE Owned'
  <2>1. /\ allocated' = allocated /\ t \notin Holders
        /\ Holders' = Holders \cup {t}
        /\ node' = [node EXCEPT ![t] = head]
        /\ \A s \in Threads : pc'[s] = "push" => pc[s] = "push" /\ s # t
    BY <1>3 DEF Take, Holders, TypeOK
  <2>2. InList' = InList \ {head}
    <3>1. list' = Tail(list) /\ qlen >= 1
      BY <1>3, InUse DEF Take, Linked
    <3>2. /\ Len(list') = qlen
          /\ \A k \in 1 .. qlen : list'[k] = list[k + 1]
      BY <3>1, InUse DEF TypeOK
    <3>3. InList' = {list'[k] : k \in 1 .. qlen}
      BY <3>2 DEF InList
    <3>4. InList = {list[k] : k \in 1 .. qlen + 1}
      BY InUse DEF InList
    <3>5. \A k \in 1 .. qlen : list'[k] \in InList /\ list'[k] # head
      BY <3>1, <3>2, <3>4, InUse DEF Linked
    <3>6. ASSUME NEW b \in InList, b # head PROVE b \in InList'
      <4>1. PICK k \in 1 .. qlen + 1 : b = list[k]
        BY <3>4
      <4>2. k - 1 \in 1 .. qlen /\ list'[k - 1] = b
        BY <3>2, <3>6, <4>1, InUse DEF Linked
      <4> QED BY <3>3, <4>2
    <3> QED BY <3>3, <3>5, <3>6
  <2>3. /\ \A s \in Holders : node'[s] = node[s] /\ node[s] # head
        /\ node'[t] = head
    BY <2>1, InUse DEF TypeOK, Owned, Holders
  <2>4. allocated' = InList' \cup {node'[s] : s \in Holders'}
    BY <2>1, <2>2, <2>3, InUse DEF Owned
  <2>5. \A s \in Holders' : node'[s] \notin InList'
    BY <2>1, <2>2, <2>3 DEF Owned
  <2>6. \A r, s \in Holders' : node'[r] = node'[s] => r = s
    BY <2>1, <2>3 DEF Owned
  <2>7. ASSUME NEW s \in Threads, pc'[s] = "push"
        PROVE  data'[s] # NULL /\ item'[node'[s]] = data'[s] /\ next'[node'[s]] = NULL
    BY <1>3, <2>1, <2>7 DEF Take, TypeOK, Owned
  <2> QED BY <2>4, <2>5, <2>6, <2>7 DEF Owned
<1>4. ASSUME NEW t \in Threads, FreeNode(t) PROVE Owned'
  <2>1. /\ allocated' = allocated \ {node[t]} /\ t \in Holders
        /\ Holders' = Holders \ {t}
        /\ node' = [node EXCEPT ![t] = NULL]
        /\ InList' = InList
        /\ \A s \in Threads : pc'[s] = "push" => pc[s] = "push" /\ s # t
    BY <1>4 DEF FreeNode, queueVars, Holders, InList, TypeOK
  <2>2. \A s \in Holders' : node'[s] = node[s] /\ node[s] # node[t]
    BY <2>1 DEF TypeOK, Owned, Holders
  <2>3. allocated' = InList' \cup {node'[s] : s \in Holders'}
    BY <2>1, <2>2 DEF Owned
  <2>4. \A s \in Holders' : node'[s] \notin InList'
    BY <2>1, <2>2 DEF Owned
  <2>5. \A r, s \in Holders' : node'[r] = node'[s] => r = s
    BY <2>1, <2>2 DEF Owned
  <2>6. ASSUME NEW s \in Threads, pc'[s] = "push"
        PROVE  data'[s] # NULL /\ item'[node'[s]] = data'[s] /\ next'[node'[s]] = NULL
    BY <1>4, <2>1, <2>6 DEF FreeNode, queueVars, TypeOK, Owned
  <2> QED BY <2>3, <2>4, <2>5, <2>6 DEF Owned
<1>5. ASSUME NEW t \in Threads, PopCall(t) \/ Wait(t) \/ SpuriousWakeup(t)
      PROVE  Owned'
  <2>1. /\ UNCHANGED <<allocated, node, next, item, list>>
        /\ Holders' = Holders
        /\ \A s \in Threads : pc'[s] = "push" => pc[s] = "push" /\ s # t
        /\ \A s \in Threads : s # t => data'[s] = data[s]
    BY <1>5 DEF PopCall, Wait, SpuriousWakeup, queueVars, Holders, TypeOK
  <2> QED BY <2>1 DEF Owned, InList
<1>6. CASE UNCHANGED vars
  BY <1>6 DEF vars, Owned, Holders, InList
<1> QED
  BY <1>1, <1>2, <1>3, <1>4, <1>5, <1>6 DEF Next, Inside

Inv == TypeOK /\ Linked /\ Owned

\* The inductive invariant: types, list and owners together.
LEMMA InvCorrect == Spec => []Inv
<1>1. Init => Inv
  <2> SUFFICES ASSUME NEW dummy \in Nodes,
                      head = dummy, tail = dummy, qlen = 0,
                      next = [b \in Nodes |-> NULL],
                      item = [b \in Nodes |-> NULL],
                      allocated = {dummy},
                      pc = [t \in Threads |-> "idle"],
                      data = [t \in Threads |-> NULL],
                      node = [t \in Threads |-> NULL],
                      list = <<dummy>>
               PROVE  Inv
    BY DEF Init
  <2>1. TypeOK
    BY DEF TypeOK
  <2>2. Linked
    BY DEF Linked
  <2>3. InList = {dummy} /\ Holders = {}
    BY DEF InList, Holders
  <2>4. Owned
    BY <2>3 DEF Owned
  <2> QED BY <2>1, <2>2, <2>4 DEF Inv
<1>2. Inv /\ [Next]_vars => Inv'
  BY TypeStep, LinkedStep, OwnedStep DEF Inv
<1> QED BY <1>1, <1>2, PTL DEF Spec

(* The fields of the queue, the nodes and the locals of the threads keep   *)
(* their types.                                                            *)
THEOREM TypeCorrect == Spec => []TypeOK
<1>1. Inv => TypeOK
  BY DEF Inv
<1> QED BY <1>1, InvCorrect, PTL

(* The list is never broken, no block is used after it is freed, freed     *)
(* twice or lost, although push allocates and pop frees without the lock.  *)
THEOREM ListCorrect == Spec => []ListInv
<1>1. Inv => ListInv
  BY DEF Inv, ListInv
<1> QED BY <1>1, InvCorrect, PTL

LEMMA ConsumingFinite ==
    IsFiniteSet(Consuming) /\ Cardinality(Consuming) \in Nat
BY Finiteness, FS_Subset, FS_CardinalityType DEF Consuming

\* A step that takes nothing from the queue, puts no thread to sleep and
\* stops no consumer is harmless.
LEMMA MoreConsumers ==
    ASSUME TypeOK, WakeupInv, qlen' = qlen, Waiting' \subseteq Waiting,
           Consuming \subseteq Consuming'
    PROVE  WakeupInv'
<1>1. IsFiniteSet(Consuming') /\ Cardinality(Consuming)' \in Nat
  BY Finiteness, FS_Subset, FS_CardinalityType DEF Consuming
<1>2. Cardinality(Consuming) <= Cardinality(Consuming')
  BY <1>1, FS_Subset
<1> QED BY <1>1, <1>2, ConsumingFinite DEF WakeupInv, TypeOK

LEMMA WakeupStep ==
    TypeOK /\ Linked /\ WakeupInv /\ [Next]_vars => WakeupInv'
<1> SUFFICES ASSUME TypeOK, Linked, WakeupInv, [Next]_vars PROVE WakeupInv'
  OBVIOUS
<1> DEFINE Calm == /\ qlen' = qlen
                   /\ Waiting' \subseteq Waiting
                   /\ Consuming \subseteq Consuming'
<1>0. ASSUME Calm PROVE WakeupInv'
  BY <1>0, MoreConsumers
<1>1. ASSUME NEW t \in Threads, NEW d \in Data \cup {NULL}, NEW b \in Nodes,
             PushCall(t, d, b)
      PROVE  Calm
  BY <1>1 DEF PushCall, TypeOK, Waiting, Consuming
<1>2. ASSUME NEW t \in Threads,
             PopCall(t) \/ FreeNode(t) \/ SpuriousWakeup(t)
      PROVE  Calm
  BY <1>2 DEF PopCall, FreeNode, SpuriousWakeup, queueVars, TypeOK, Waiting,
              Consuming
<1>3. ASSUME NEW t \in Threads, Wait(t) PROVE WakeupInv'
  <2>1. qlen' = 0
    <3>1. qlen \in Nat /\ list[1] = list[qlen + 1] /\ qlen' = qlen
      BY <1>3 DEF Wait, queueVars, Linked, TypeOK
    <3> QED BY <3>1 DEF Linked
  <2>2. Cardinality(Consuming)' \in Nat
    BY Finiteness, FS_Subset, FS_CardinalityType DEF Consuming
  <2> QED BY <2>1, <2>2 DEF WakeupInv
<1>4. ASSUME NEW t \in Threads, Put(t) PROVE WakeupInv'
  <2>1. qlen \in Nat /\ qlen' = qlen + 1 /\ pc[t] = "push"
    BY <1>4 DEF Put, TypeOK
  <2>2. CASE Waiting = {}
    BY <1>4, <2>2 DEF Put, SignalAndReturn, TypeOK, WakeupInv, Waiting
  <2>3. CASE Waiting # {}
    <3>1. PICK w \in Waiting : pc' = [pc EXCEPT ![t] = "idle", ![w] = "pop"]
      BY <1>4, <2>3 DEF Put, SignalAndReturn
    <3>2. Consuming' = Consuming \cup {w} /\ w \notin Consuming
      BY <2>1, <3>1 DEF Consuming, Waiting, TypeOK
    <3>3. Cardinality(Consuming') = Cardinality(Consuming) + 1
      BY <3>2, ConsumingFinite, FS_AddElement
    <3> QED BY <2>1, <2>3, <3>3, ConsumingFinite DEF WakeupInv
  <2> QED BY <2>2, <2>3
<1>5. ASSUME NEW t \in Threads, Take(t) PROVE WakeupInv'
  <2>1. qlen \in Nat /\ qlen' = qlen - 1 /\ Waiting' = Waiting
    BY <1>5 DEF Take, TypeOK, Waiting
  <2>2. Consuming' = Consuming \ {t} /\ t \in Consuming
    BY <1>5 DEF Take, TypeOK, Consuming
  <2>3. Cardinality(Consuming') = Cardinality(Consuming) - 1
    BY <2>2, ConsumingFinite, FS_RemoveElement
  <2> QED BY <2>1, <2>3, ConsumingFinite DEF WakeupInv
<1>6. CASE UNCHANGED vars
  BY <1>0, <1>6 DEF vars, Waiting, Consuming
<1> QED
  BY <1>0, <1>1, <1>2, <1>3, <1>4, <1>5, <1>6 DEF Next, Inside

(* One pthread_cond_signal per push, and none from pop, is enough for any  *)
(* number of producers and consumers.                                      *)
THEOREM WakeupCorrect == Spec => []WakeupInv
<1>1. Init => WakeupInv
  BY DEF Init, WakeupInv, Waiting
<1>2. Inv => TypeOK /\ Linked
  BY DEF Inv
<1> QED BY <1>1, <1>2, InvCorrect, WakeupStep, PTL DEF Spec

\* Items is a sequence of qlen elements.
LEMMA ItemsSequence ==
    TypeOK /\ Linked => /\ Items \in Seq(Data \cup {NULL})
                        /\ Len(Items) = qlen /\ qlen \in Nat
                        /\ \A k \in 1 .. qlen : Items[k] = item[list[k + 1]]
<1> SUFFICES ASSUME TypeOK, Linked
             PROVE  /\ Items \in Seq(Data \cup {NULL})
                    /\ Len(Items) = qlen /\ qlen \in Nat
                    /\ \A k \in 1 .. qlen : Items[k] = item[list[k + 1]]
  OBVIOUS
<1>1. qlen \in Nat /\ Len(list) = qlen + 1
  BY DEF TypeOK, Linked
<1>2. \A k \in 1 .. qlen : item[list[k + 1]] \in Data \cup {NULL}
  BY <1>1 DEF TypeOK
<1> QED BY <1>1, <1>2 DEF Items

\* The list never holds all the memory: the node of a push is outside it.
LEMMA RoomToPut ==
    ASSUME TypeOK, Linked, Owned, NEW t \in Threads, Put(t)
    PROVE  Len(Items) < Cardinality(Nodes)
<1> DEFINE f == [k \in 1 .. qlen + 2 |->
                    IF k = qlen + 2 THEN node[t] ELSE list[k]]
<1>1. node[t] \in Nodes /\ node[t] \notin InList
  BY InUse DEF Put, Owned, Holders
<1>2. f \in [1 .. qlen + 2 -> Nodes]
  BY <1>1, InUse
<1>3. ASSUME NEW x \in 1 .. qlen + 2, NEW y \in 1 .. qlen + 2, x # y
      PROVE  f[x] # f[y]
  <2>1. \A k \in 1 .. qlen + 1 : list[k] # node[t]
    BY <1>1, InUse DEF InList
  <2> QED BY <1>3, <2>1, InUse DEF Linked
<1>4. IsFiniteSet(1 .. qlen + 2) /\ Cardinality(1 .. qlen + 2) = qlen + 2
  <2>1. 1 \in Int /\ qlen + 2 \in Int /\ ~(1 > qlen + 2)
    BY InUse
  <2> QED BY <2>1, FS_Interval
<1>5. Cardinality(Nodes) \in Nat
  BY Finiteness, FS_CardinalityType
<1>6. ~(Cardinality(Nodes) < qlen + 2)
  <2> HIDE DEF f
  <2> QED BY <1>2, <1>3, <1>4, Finiteness, FS_PigeonHole
<1> QED BY <1>5, <1>6, InUse, ItemsSequence

LEMMA PutAppends ==
    ASSUME TypeOK, Linked, Owned, (TypeOK /\ Linked)', NEW t \in Threads, Put(t)
    PROVE  Items' = Append(Items, data[t])
<1>1. /\ qlen' = qlen + 1 /\ item' = item /\ list' = Append(list, node[t])
      /\ item[node[t]] = data[t] /\ data[t] \in Data \cup {NULL}
      /\ list \in Seq(Nodes) /\ Len(list) = qlen + 1 /\ node[t] \in Nodes
  BY InUse DEF Put, TypeOK, Owned, Holders
<1>2. Items' \in Seq(Data \cup {NULL}) /\ Len(Items') = qlen + 1
  <2>1. (TypeOK /\ Linked => /\ Items \in Seq(Data \cup {NULL})
                             /\ Len(Items) = qlen)'
    BY ItemsSequence, PTL
  <2> QED BY <1>1, <2>1
<1>3. \A k \in 1 .. qlen + 1 : Items'[k] = item[list'[k + 1]]
  BY <1>1 DEF Items
<1>4. ASSUME NEW k \in 1 .. qlen + 1
      PROVE  Items'[k] = Append(Items, data[t])[k]
  <2>1. CASE k = qlen + 1
    <3>1. list'[k + 1] = node[t] /\ Append(Items, data[t])[k] = data[t]
      BY <1>1, <2>1, ItemsSequence
    <3> QED BY <1>1, <1>3, <3>1
  <2>2. CASE k # qlen + 1
    <3>1. /\ list'[k + 1] = list[k + 1] /\ k \in 1 .. qlen
          /\ Append(Items, data[t])[k] = Items[k]
      BY <1>1, <2>2, ItemsSequence
    <3> QED BY <1>3, <3>1, ItemsSequence
  <2> QED BY <2>1, <2>2
<1> QED BY <1>1, <1>2, <1>4, ItemsSequence

LEMMA TakeRemovesHead ==
    ASSUME TypeOK, Linked, Owned, (TypeOK /\ Linked)', NEW t \in Threads, Take(t)
    PROVE  /\ Items # << >>
           /\ item[next[head]] = Head(Items)
           /\ Items' = Tail(Items)
<1>1. /\ qlen >= 1 /\ qlen' = qlen - 1 /\ item' = item /\ list' = Tail(list)
      /\ list \in Seq(Nodes) /\ Len(list) = qlen + 1 /\ list # << >>
  BY InUse DEF Take, Linked, TypeOK
<1>2. next[head] = list[2]
  BY <1>1, InUse DEF Linked
<1>3. Items # << >> /\ item[next[head]] = Head(Items)
  <2>1. Len(Items) = qlen /\ Items[1] = item[list[2]]
    BY <1>1, ItemsSequence
  <2> QED BY <1>1, <1>2, <2>1, ItemsSequence
<1>4. Items' \in Seq(Data \cup {NULL}) /\ Len(Items') = qlen - 1
  <2>1. (TypeOK /\ Linked => /\ Items \in Seq(Data \cup {NULL})
                             /\ Len(Items) = qlen)'
    BY ItemsSequence, PTL
  <2> QED BY <1>1, <2>1
<1>5. ASSUME NEW k \in 1 .. qlen - 1 PROVE Items'[k] = Tail(Items)[k]
  <2>1. Items'[k] = item[list'[k + 1]] /\ list'[k + 1] = list[k + 2]
    <3>1. k \in 1 .. qlen' /\ Items'[k] = item'[list'[k + 1]]
      BY <1>1 DEF Items
    <3>2. list'[k + 1] = list[k + 2]
      BY <1>1, InUse
    <3> QED BY <1>1, <3>1, <3>2
  <2>2. k + 1 \in 1 .. qlen /\ Items[k + 1] = item[list[k + 2]]
    BY <1>1, ItemsSequence
  <2>3. Tail(Items)[k] = Items[k + 1]
    BY <1>1, <1>3, ItemsSequence
  <2> QED BY <2>1, <2>2, <2>3
<1>6. Tail(Items) \in Seq(Data \cup {NULL}) /\ Len(Tail(Items)) = qlen - 1
  BY <1>1, <1>3, ItemsSequence
<1> QED BY <1>3, <1>4, <1>5, <1>6

LEMMA SameItems ==
    ASSUME UNCHANGED <<qlen, list>>, \A k \in 1 .. qlen : item'[list[k + 1]] = item[list[k + 1]]
    PROVE  Items' = Items
BY DEF Items

(* Every step of queue.c is a step of the abstract queue or leaves it      *)
(* unchanged: a push takes effect when its node is linked, a pop when the  *)
(* dummy is unlinked; allocating, freeing, waiting and waking are not seen.*)
LEMMA FifoStep ==
    Inv /\ Inv' /\ [Next]_vars => [Fifo!Next]_(Fifo!vars)
<1> SUFFICES ASSUME TypeOK, Linked, Owned, (TypeOK /\ Linked)', [Next]_vars
             PROVE  Fifo!Next \/ UNCHANGED <<Items, Op, data>>
  BY DEF Fifo!vars, Inv
<1>1. ASSUME NEW t \in Threads, NEW d \in Data \cup {NULL}, NEW b \in Nodes,
             PushCall(t, d, b)
      PROVE  Fifo!Next
  <2>1. Op' = [Op EXCEPT ![t] = "push"] /\ Op[t] = "idle"
    BY <1>1 DEF PushCall, Op, TypeOK
  <2>2. \A k \in 1 .. qlen : item'[list[k + 1]] = item[list[k + 1]]
    BY <1>1, InUse DEF PushCall, TypeOK
  <2>3. Items' = Items
    BY <1>1, <2>2, SameItems DEF PushCall
  <2>4. d \in Data /\ Fifo!CallPush(t, d)
    BY <1>1, <2>1, <2>3 DEF PushCall, Fifo!CallPush
  <2> QED BY <2>4 DEF Fifo!Next
<1>2. ASSUME NEW t \in Threads, PopCall(t) PROVE Fifo!Next
  <2>1. Op' = [Op EXCEPT ![t] = "pop"] /\ Op[t] = "idle"
    BY <1>2 DEF PopCall, Op, TypeOK
  <2>2. Items' = Items
    BY <1>2, SameItems DEF PopCall, queueVars
  <2>3. data' = [data EXCEPT ![t] = NULL]
    BY <1>2 DEF PopCall
  <2>4. Fifo!CallPop(t)
    BY <2>1, <2>2, <2>3, Zenon DEF Fifo!CallPop
  <2> QED BY <2>4, Zenon DEF Fifo!Next
<1>3. ASSUME NEW t \in Threads, Put(t) PROVE Fifo!Next
  <2>1. Op' = [Op EXCEPT ![t] = "idle"] /\ Op[t] = "push"
    BY <1>3 DEF Put, SignalAndReturn, Waiting, Op, TypeOK
  <2>2. Items' = Append(Items, data[t]) /\ Len(Items) < Cardinality(Nodes)
    BY <1>3, PutAppends, RoomToPut
  <2>3. Fifo!Push(t)
    BY <1>3, <2>1, <2>2 DEF Put, Fifo!Push
  <2> QED BY <2>3 DEF Fifo!Next
<1>4. ASSUME NEW t \in Threads, Take(t) PROVE Fifo!Next
  <2>1. Op' = [Op EXCEPT ![t] = "idle"] /\ Op[t] = "pop"
    BY <1>4 DEF Take, Op, TypeOK
  <2>2. Items # << >> /\ item[next[head]] = Head(Items) /\ Items' = Tail(Items)
    BY <1>4, TakeRemovesHead
  <2>3. Fifo!Pop(t)
    BY <1>4, <2>1, <2>2 DEF Take, Fifo!Pop
  <2> QED BY <2>3 DEF Fifo!Next
<1>5. ASSUME NEW t \in Threads, Wait(t) \/ FreeNode(t) \/ SpuriousWakeup(t)
      PROVE  UNCHANGED <<Items, Op, data>>
  <2>1. Items' = Items
    BY <1>5, SameItems DEF Wait, FreeNode, SpuriousWakeup, queueVars
  <2>2. Op' = Op
    BY <1>5 DEF Wait, FreeNode, SpuriousWakeup, Op, TypeOK
  <2> QED BY <1>5, <2>1, <2>2 DEF Wait, FreeNode, SpuriousWakeup
<1>6. CASE UNCHANGED vars
  BY <1>6, SameItems DEF vars, Op
<1> QED
  BY <1>1, <1>2, <1>3, <1>4, <1>5, <1>6 DEF Next, Inside

(* queue.c implements the FIFO queue, whatever threads use it: each push   *)
(* and each pop takes effect once, in the order of the list.               *)
THEOREM QueueImplementsFifo == Spec => ImplementsFifo
<1>1. Init => Fifo!Init
  <2> SUFFICES ASSUME Init PROVE Fifo!Init
    OBVIOUS
  <2>1. Items = << >>
    BY DEF Init, Items
  <2> QED BY <2>1 DEF Init, Op, Fifo!Init
<1> QED
  BY <1>1, InvCorrect, FifoStep, PTL DEF Spec, ImplementsFifo, Fifo!Spec

-----------------------------------------------------------------------------
(* A set of numbers that is not empty has a smallest element: induction,   *)
(* stated without an operator as parameter.                                *)
LEMMA Smallest ==
  ASSUME NEW T \in SUBSET Nat, T # {}
  PROVE  \E x \in T : \A y \in T : x <= y
<1>1. PICK x \in T : \A y \in T : ~(<<y, x>> \in OpToRel(<, Nat))
  BY NatLessThanWellFounded, WFMin, Zenon
<1>2. \A y \in T : ~(y < x)
  BY <1>1 DEF OpToRel
<1> QED BY <1>2

-----------------------------------------------------------------------------
(* The recursive definition of the intervals has a solution.               *)
IntervalAt(f, t) ==
    LET extra == IF t < n % p THEN 1 ELSE 0
        start == IF t = 0 THEN 0 ELSE f[t - 1].stop
    IN  [start |-> start, stop |-> start + n \div p + extra]

LEMMA IntervalExists ==
    \E f : f = [t \in Producers |-> IntervalAt(f, t)]
<1> DEFINE Bad == {k \in Nat : ~\E f : f = [t \in 0 .. k - 1 |-> IntervalAt(f, t)]}
<1>1. ASSUME NEW k \in Bad, \A j \in Bad : k <= j PROVE FALSE
  <2>1. CASE k = 0
    <3> DEFINE f == [t \in 0 .. k - 1 |-> IntervalAt(0, t)]
    <3>1. f = [t \in 0 .. k - 1 |-> IntervalAt(f, t)]
      BY <2>1
    <3> QED BY <3>1
  <2>2. CASE k > 0
    <3>0. k \in Nat /\ k \in Bad
      OBVIOUS
    <3>1. k - 1 \in Nat /\ k - 1 \notin Bad
      <4> HIDE DEF Bad
      <4> QED BY <1>1, <2>2, <3>0
    <3>2. PICK g : g = [t \in 0 .. (k - 1) - 1 |-> IntervalAt(g, t)]
      BY <3>1
    <3> DEFINE f == [t \in 0 .. k - 1 |-> IntervalAt(g, t)]
    <3>3. ASSUME NEW t \in 0 .. k - 1, t # 0 PROVE f[t - 1] = g[t - 1]
      BY <3>2, <3>3, <1>1, <2>2
    <3>4. f = [t \in 0 .. k - 1 |-> IntervalAt(g, t)]
      OBVIOUS
    <3> HIDE DEF f
    <3>5. \A t \in 0 .. k - 1 : IntervalAt(f, t) = IntervalAt(g, t)
      BY <3>3 DEF IntervalAt
    <3>6. f = [t \in 0 .. k - 1 |-> IntervalAt(f, t)]
      BY <3>4, <3>5, Zenon
    <3> QED BY <3>6
  <2> QED BY <1>1, <2>1, <2>2
<1>2. Bad = {}
  BY <1>1, Smallest
<1> QED BY <1>2, OptionsAssumption DEF Producers

\* interval is the function that its recursive definition describes.
LEMMA IntervalDef ==
    ASSUME NEW t \in Producers
    PROVE  /\ interval[t].start = IF t = 0 THEN 0 ELSE interval[t - 1].stop
           /\ interval[t].stop = interval[t].start + (n \div p)
                                 + (IF t < n % p THEN 1 ELSE 0)
<1>1. interval = CHOOSE f : f = [u \in Producers |-> IntervalAt(f, u)]
  BY Zenon DEF interval, IntervalAt
<1>2. interval = [u \in Producers |-> IntervalAt(interval, u)]
  BY <1>1, IntervalExists, Zenon
<1>3. interval[t] = IntervalAt(interval, t)
  BY <1>2
<1> QED BY <1>3 DEF IntervalAt

\* The first n % p intervals are one longer: where an interval ends.
LEMMA IntervalStop ==
    \A t \in Producers :
       interval[t].stop = (t + 1) * (n \div p) + (IF t < n % p THEN t + 1 ELSE n % p)
<1> DEFINE q == n \div p
           r == n % p
           Bad == {t \in Producers : interval[t].stop # (t + 1) * q + (IF t < r THEN t + 1 ELSE r)}
<1>0. q \in Nat /\ r \in Nat
  BY OptionsAssumption
<1>1. ASSUME NEW t \in Bad, \A s \in Bad : t <= s PROVE FALSE
  <2>0. t \in Producers /\ t \in Nat
    BY DEF Producers
  <2>1. CASE t = 0
    <3>1. interval[t].stop = q + (IF t < r THEN 1 ELSE 0)
      BY <2>0, <2>1, <1>0, IntervalDef
    <3> QED BY <3>1, <2>1, <1>0
  <2>2. CASE t > 0
    <3>1. t - 1 \in Producers /\ t - 1 \notin Bad
      BY <1>1, <2>0, <2>2, OptionsAssumption DEF Producers
    <3>2. interval[t - 1].stop = t * q + (IF t - 1 < r THEN t ELSE r)
      BY <3>1, <2>0
    <3>3. interval[t].stop = interval[t - 1].stop + q + (IF t < r THEN 1 ELSE 0)
      BY <2>0, <2>2, IntervalDef
    <3> HIDE DEF q, r
    <3>4. (t + 1) * q = t * q + q /\ t * q \in Nat
      BY <1>0, <2>0
    <3>5. interval[t].stop = (t + 1) * q + (IF t < r THEN t + 1 ELSE r)
      BY <3>2, <3>3, <3>4, <2>0, <1>0
    <3> QED BY <3>5 DEF q, r
  <2> QED BY <2>0, <2>1, <2>2
<1>2. Bad \subseteq Nat
  BY OptionsAssumption DEF Producers
<1>3. Bad = {}
  BY <1>1, <1>2, Smallest
<1> QED BY <1>3

\* The intervals follow one another and end at n.
LEMMA IntervalFacts ==
    /\ \A t \in Producers : /\ interval[t].start \in Nat
                            /\ interval[t].stop \in 0 .. n
                            /\ interval[t].start <= interval[t].stop
    /\ \A s, t \in Producers : s < t => interval[s].stop <= interval[t].start
    /\ interval[p - 1].stop = n
<1> DEFINE q == n \div p
           r == n % p
           stop(t) == (t + 1) * q + (IF t < r THEN t + 1 ELSE r)
<1>0. /\ q \in Nat /\ r \in Nat /\ r < p /\ n = p * q + r
      /\ p \in Nat \ {0} /\ n \in Nat
      /\ \A t \in Producers : t \in Nat /\ t < p
  <2>1. p \in Nat \ {0} /\ n \in Nat
    BY OptionsAssumption
  <2> QED BY <2>1 DEF Producers
<1>1. \A t \in Producers : interval[t].stop = stop(t)
  BY IntervalStop
<1>2. ASSUME NEW t \in Producers
      PROVE  /\ interval[t].start = IF t = 0 THEN 0 ELSE interval[t - 1].stop
             /\ interval[t].stop = interval[t].start + q + (IF t < r THEN 1 ELSE 0)
             /\ t # 0 => t - 1 \in Producers
  BY <1>0, IntervalDef DEF Producers
<1> HIDE DEF q, r
<1>3. \A t \in Nat : stop(t) \in Nat
  BY <1>0
<1>4. \A s, t \in Nat : s <= t => stop(s) <= stop(t)
  <2> SUFFICES ASSUME NEW s \in Nat, NEW t \in Nat, s <= t PROVE stop(s) <= stop(t)
    OBVIOUS
  <2>1. (s + 1) * q <= (t + 1) * q
    BY <1>0
  <2> QED BY <2>1, <1>0
<1>5. stop(p - 1) = n /\ p - 1 \in Producers
  BY <1>0 DEF Producers
<1> HIDE DEF stop
<1>6. ASSUME NEW t \in Producers
      PROVE  /\ interval[t].start \in Nat
             /\ interval[t].stop \in 0 .. n
             /\ interval[t].start <= interval[t].stop
  <2>1. interval[t].start \in Nat
    BY <1>0, <1>1, <1>2, <1>3
  <2>2. interval[t].stop <= n
    BY <1>0, <1>1, <1>3, <1>4, <1>5
  <2> QED BY <2>1, <2>2, <1>0, <1>1, <1>2, <1>3
<1>7. ASSUME NEW s \in Producers, NEW t \in Producers, s < t
      PROVE  interval[s].stop <= interval[t].start
  BY <1>0, <1>1, <1>2, <1>4, <1>7
<1> QED BY <1>1, <1>5, <1>6, <1>7


-----------------------------------------------------------------------------
(* Where a thread is, but for the difference between waiting on qcond and  *)
(* being about to test the list again.                                     *)
phase == [t \in Threads |-> IF pc[t] \in {"pop", "wait"} THEN "pop" ELSE pc[t]]

\* The queue is sound until main deletes it.
Sound ==
    /\ TypeOK /\ Owned
    /\ step # "deleted" => Linked
    /\ step = "deleted" => qlen = 0 /\ list = <<>> /\ allocated = {}

\* Where main and the threads are.
Control ==
    /\ alive \subseteq Threads
    /\ step \in {"join_producers", "eos", "join_consumers", "deleted"}
    /\ i \in [Producers \cup {Main} -> Nat]
    /\ \A t \in Producers : i[t] \in interval[t].start .. interval[t].stop
    /\ \A t \in Threads \ alive : phase[t] = "idle"
    /\ \A t \in Producers : phase[t] \in {"idle", "push"}
    /\ \A t \in Producers : phase[t] = "push" => i[t] < interval[t].stop /\ data[t] = i[t]
    /\ \A t \in Consumers : phase[t] # "push"
    /\ phase[Main] \in {"idle", "push"}
    /\ phase[Main] = "push" => step = "eos" /\ data[Main] = EOS
    /\ step # "join_producers" => alive \cap Producers = {}
    /\ step = "join_producers" => i[Main] = 0
    /\ i[Main] <= c
    /\ step = "eos" => i[Main] < c
    /\ IF step = "deleted" THEN alive = {} ELSE Main \in alive

(* The EOS are behind the messages, and no more than main has pushed: a    *)
(* consumer that has had one leaves only others behind it.                 *)
Done == {t \in Consumers : t \notin alive \/ (phase[t] = "free" /\ data[t] = EOS)}
EndsAreLast ==
    \E e \in 0 .. Len(Items) :
        /\ e + Cardinality(Done) <= i[Main]
        /\ \A k \in 1 .. Len(Items) : Items[k] = EOS <=> k > Len(Items) - e
        /\ Done # {} => Len(Items) = e

\* The positions in the list, the hands and the lots in which message x is.
Slots(x) == {k \in 1 .. Len(Items) : Items[k] = x}
Hands(x) == {t \in Consumers : phase[t] = "free" /\ data[t] = x}
Had(x) == {t \in Consumers : x \in got[t]}

\* A message pushed is in exactly one place, another in none.
Placed(x) ==
    IF x \in Pushed
    THEN \/ (\E k \in Slots(x) : Slots(x) = {k}) /\ Hands(x) = {} /\ Had(x) = {}
         \/ Slots(x) = {} /\ (\E t \in Hands(x) : Hands(x) = {t}) /\ Had(x) = {}
         \/ Slots(x) = {} /\ Hands(x) = {} /\ (\E t \in Had(x) : Had(x) = {t})
    ELSE Slots(x) = {} /\ Hands(x) = {} /\ Had(x) = {}
Places ==
    /\ got \in [Consumers -> SUBSET Messages]
    /\ \A k \in 1 .. Len(Items) : Items[k] \in Data
    /\ \A t \in Consumers : phase[t] = "free" => data[t] \in Data
    /\ \A x \in Messages : Placed(x)

\* The threads that hold the number x: those that push it or have popped it.
Held(x) == {t \in Threads : phase[t] \in {"push", "free"} /\ data[t] = x}

\* A number in use is in the list, in the hands of a thread, or abandoned.
Memory ==
    /\ memory \in [Data -> Nat]
    /\ refused \in [Data -> Nat]
    /\ \A x \in Data :
          memory[x] = Cardinality(Slots(x)) + Cardinality(Held(x)) + refused[x]

TestInv == Sound /\ Control /\ EndsAreLast /\ Places /\ Memory

-----------------------------------------------------------------------------
\* Who is who: producers, consumers and main are different threads.
LEMMA ThreadFacts ==
    /\ \A t \in Producers : t \in Threads /\ t # Main /\ t \notin Consumers
    /\ \A t \in Consumers : t \in Threads /\ t # Main /\ t \notin Producers
    /\ Main \in Threads /\ Main \notin Producers
    /\ \A t \in Threads : t \in Producers \/ t \in Consumers \/ t = Main
    /\ EOS \in Data /\ NULL \notin Data
    /\ \A x \in Messages : x \in Data /\ x # EOS /\ x \in Nat /\ x < n
    /\ \A x \in Data : x # EOS => x \in Messages
    /\ p \in Nat \ {0} /\ c \in Nat \ {0} /\ n \in Nat \ {0}
    /\ Producers \subseteq Int
<1>1. p \in Nat \ {0} /\ c \in Nat \ {0} /\ n \in Nat \ {0}
  BY OptionsAssumption
<1>2. \A t \in Producers : t \notin Consumers
  BY <1>1 DEF Producers, Consumers
<1>3. /\ Threads = Producers \cup Consumers \cup {Main}
      /\ Main \notin Producers \cup Consumers
      /\ Data = Messages \cup {EOS}
      /\ EOS \notin Messages
  BY OptionsAssumption, Zenon
<1>4. \A x \in Messages : x \in Nat /\ x < n
  BY <1>1 DEF Messages
<1>5. NULL \notin Data
  BY QueueAssumption
<1>6. Producers \subseteq Int
  BY <1>1 DEF Producers
<1> QED BY <1>1, <1>2, <1>3, <1>4, <1>5, <1>6

\* A producer is about to push a message of its interval that nobody pushed.
LEMMA NextMessage ==
    ASSUME Control, NEW t \in Producers, i[t] < interval[t].stop
    PROVE  /\ i[t] \in Messages /\ i[t] \notin Pushed
           /\ i' = [i EXCEPT ![t] = @ + 1] =>
                 \A x \in Messages : x \in Pushed' <=> x \in Pushed \/ x = i[t]
<1>1. /\ \A s \in Producers : /\ interval[s].start \in Nat /\ interval[s].stop \in Nat
                              /\ interval[s].stop <= n
                              /\ i[s] \in Nat /\ interval[s].start <= i[s]
                              /\ i[s] <= interval[s].stop
      /\ n \in Nat
  BY IntervalFacts, ThreadFacts DEF Control
<1>2. i[t] \in Messages
  BY <1>1 DEF Messages
<1>3. ASSUME NEW s \in Producers, interval[s].start <= i[t], i[t] < i[s] PROVE FALSE
  <2>1. CASE s = t
    BY <1>1, <1>3, <2>1
  <2>2. CASE s # t
    <3>1. s < t \/ t < s
      BY <2>2, ThreadFacts
    <3>2. interval[s].stop <= interval[t].start \/ interval[t].stop <= interval[s].start
      BY <3>1, IntervalFacts
    <3> QED BY <1>1, <1>3, <3>2
  <2> QED BY <2>1, <2>2
<1>4. i[t] \notin Pushed
  BY <1>3 DEF Pushed
<1>5. ASSUME i' = [i EXCEPT ![t] = @ + 1], NEW x \in Messages
      PROVE  x \in Pushed' <=> x \in Pushed \/ x = i[t]
  <2>1. /\ \A s \in Producers : s # t => i'[s] = i[s]
        /\ i'[t] = i[t] + 1
    BY <1>5 DEF Control
  <2>2. x < i[t] + 1 <=> x < i[t] \/ x = i[t]
    BY <1>1, ThreadFacts
  <2> QED BY <1>1, <2>1, <2>2 DEF Pushed
<1> QED BY <1>2, <1>4, <1>5

-----------------------------------------------------------------------------
(* The steps seen on the elements of the list.                             *)
Unseen == Items' = Items /\ phase' = phase /\ data' = data
Calls(t, d) == /\ phase[t] = "idle" /\ phase' = [phase EXCEPT ![t] = "push"]
               /\ data' = [data EXCEPT ![t] = d]
               /\ Items' = Items /\ UNCHANGED locals
               /\ NewData(d) /\ UNCHANGED refused
Puts(t) == /\ phase[t] = "push" /\ phase' = [phase EXCEPT ![t] = "idle"]
           /\ data' = data
           /\ Items' = Append(Items, data[t])
Pops(t) == /\ phase[t] = "idle" /\ t \in alive /\ phase' = [phase EXCEPT ![t] = "pop"]
           /\ data' = [data EXCEPT ![t] = NULL]
           /\ Items' = Items /\ UNCHANGED <<locals, heap>>
Takes(t) == /\ phase[t] = "pop" /\ phase' = [phase EXCEPT ![t] = "free"]
            /\ Items # <<>> /\ Items' = Tail(Items)
            /\ data' = [data EXCEPT ![t] = Head(Items)]
            /\ UNCHANGED <<locals, heap>>
Frees(t) == /\ phase[t] = "free" /\ phase' = [phase EXCEPT ![t] = "idle"]
            /\ data' = data /\ Items' = Items
            /\ alive' = IF data[t] = EOS THEN alive \ {t} ELSE alive
            /\ got' = IF data[t] # EOS THEN [got EXCEPT ![t] = @ \cup {data[t]}] ELSE got
            /\ FreeData(data[t])
            /\ UNCHANGED <<i, step, failed, refused>>

\* The phase of a thread tells its program counter.
LEMMA PhaseFacts ==
    ASSUME TypeOK
    PROVE  \A t \in Threads : /\ phase[t] \in {"idle", "push", "pop", "free"}
                              /\ pc[t] = "idle" <=> phase[t] = "idle"
                              /\ pc[t] = "push" <=> phase[t] = "push"
                              /\ pc[t] = "free" <=> phase[t] = "free"
                              /\ pc[t] \in {"pop", "wait"} <=> phase[t] = "pop"
BY DEF TypeOK, phase

\* Once the queue is deleted nobody does anything.
LEMMA AfterDelete ==
    ASSUME Sound, Control, TestNext, step = "deleted"
    PROVE  UNCHANGED testVars
<1>1. \A t \in Threads : t \notin alive /\ pc[t] = "idle"
  BY PhaseFacts DEF Sound, Control
<1> QED
  BY <1>1, ThreadFacts
  DEF TestNext, ProducerPush, ProducerInPush, ProducerExit, ProducerReturn,
      ProducerNoData, ProducerPushFails, GiveUp, ConsumerPop, ConsumerInPop,
      Put, Wait, Take, FreeNode, SpuriousWakeup, MainJoinProducers, MainPushEOS,
      MainInPush, MainPushFails, MainDelete, Rest

\* What the three ways out of a producer have in common.
LEMMA ExitFacts ==
    ASSUME Control, NEW t \in Producers, ProducerExit(t)
    PROVE  /\ t \in alive /\ pc[t] = "idle" /\ alive' = alive \ {t}
           /\ UNCHANGED <<vars, i, step, got>>
           /\ UNCHANGED heap \/ \E d \in Data : NewData(d) /\ Refuse(d)
<1>1. /\ t \in alive /\ pc[t] = "idle" /\ alive' = alive \ {t}
      /\ UNCHANGED <<vars, i, step, got>>
  BY DEF ProducerExit, ProducerReturn, ProducerNoData, ProducerPushFails, GiveUp
<1>2. CASE ProducerPushFails(t)
  <2>1. i[t] \in Data
    BY <1>2, NextMessage, ThreadFacts DEF ProducerPushFails, GiveUp
  <2> QED BY <1>1, <1>2, <2>1 DEF ProducerPushFails
<1> QED BY <1>1, <1>2 DEF ProducerExit, ProducerReturn, ProducerNoData

(* Until main deletes it the queue is used as its functions allow.         *)
LEMMA QueueStep ==
    ASSUME Sound, Control, TestNext, ~MainDelete
    PROVE  [Next]_vars
<1>1. ASSUME NEW t \in Threads, Inside(t) \/ PopCall(t) \/ SpuriousWakeup(t)
      PROVE  Next
  BY <1>1 DEF Next
<1>2. ASSUME NEW t \in Threads, NEW d \in Data, Nodes # allocated, PushCall(t, d, Block)
      PROVE  Next
  <2>1. Block \in Nodes
    BY <1>2 DEF Block, Sound, TypeOK
  <2> QED BY <1>2, <2>1 DEF Next
<1>3. ASSUME NEW t \in Producers, ProducerPush(t) PROVE Next
  <2>1. i[t] \in Data
    BY <1>3, NextMessage, ThreadFacts DEF ProducerPush
  <2> QED BY <1>2, <1>3, <2>1, ThreadFacts DEF ProducerPush
<1>4. ASSUME NEW t \in Producers, ProducerInPush(t) PROVE Next
  BY <1>1, <1>4, ThreadFacts DEF ProducerInPush, Inside
<1>5. ASSUME NEW t \in Consumers, ConsumerPop(t) \/ ConsumerInPop(t) \/ SpuriousWakeup(t)
      PROVE  Next
  BY <1>1, <1>5, ThreadFacts DEF ConsumerPop, ConsumerInPop, Inside
<1>6. CASE MainPushEOS
  BY <1>2, <1>6, ThreadFacts DEF MainPushEOS
<1>7. CASE MainInPush
  BY <1>1, <1>7, ThreadFacts DEF MainInPush, Inside
<1>8. ASSUME NEW t \in Producers, ProducerExit(t) PROVE UNCHANGED vars
  BY <1>8, ExitFacts
<1>9. CASE MainJoinProducers \/ MainPushFails \/ Rest
  BY <1>9 DEF MainJoinProducers, MainPushFails, Rest, testVars
<1> QED BY <1>3, <1>4, <1>5, <1>6, <1>7, <1>8, <1>9 DEF TestNext

\* deleteQueue frees every block that is left, since no thread holds one.
LEMMA DeleteStep ==
    ASSUME Sound, Control, MainDelete
    PROVE  /\ \A t \in Threads : phase[t] = "idle"
           /\ UNCHANGED <<head, tail, qlen, next, item, pc, data, node>>
           /\ step' = "deleted" /\ list' = <<>> /\ allocated' = {}
<1>1. \A t \in Threads : phase[t] = "idle"
  BY ThreadFacts DEF MainDelete, Control
<1>2. Holders = {}
  BY <1>1, PhaseFacts DEF Holders, Sound
<1>3. allocated = InList
  BY <1>2 DEF Sound, Owned
<1>4. allocated' = allocated \ InList /\ list' = <<>>
  BY DEF MainDelete, deleteQueue, InList
<1> QED BY <1>1, <1>3, <1>4 DEF MainDelete, deleteQueue

\* The consumers that have had an EOS are at most all of them.
LEMMA DoneFinite ==
    /\ IsFiniteSet(Consumers) /\ Cardinality(Consumers) = c
    /\ IsFiniteSet(Done) /\ Cardinality(Done) \in Nat
<1>1. IsFiniteSet(Consumers) /\ Cardinality(Consumers) = c
  <2> DEFINE last == p + c - 1
  <2>1. p \in Int /\ last \in Int /\ ~(p > last) /\ last - p + 1 = c
    BY ThreadFacts
  <2>2. Consumers = p .. last
    BY DEF Consumers
  <2> HIDE DEF last
  <2>3. /\ IsFiniteSet(p .. last)
        /\ Cardinality(p .. last) = IF p > last THEN 0 ELSE last - p + 1
    BY <2>1, FS_Interval
  <2> QED BY <2>1, <2>2, <2>3
<1>2. IsFiniteSet(Done)
  BY <1>1, FS_Subset DEF Done
<1> QED BY <1>1, <1>2, FS_CardinalityType

\* When main deletes the queue there is nothing in it.
LEMMA DeleteEmpty ==
    ASSUME Sound, Control, EndsAreLast, MainDelete
    PROVE  qlen = 0
<1>1. step # "deleted"
  BY DEF MainDelete
<1>2. Len(Items) = qlen /\ qlen \in Nat
  BY <1>1, ItemsSequence DEF Sound
<1>3. Done = Consumers
  BY DEF Done, MainDelete
<1>4. Cardinality(Done) = c /\ Done # {} /\ c \in Nat
  <2>1. p \in Consumers
    BY ThreadFacts DEF Consumers
  <2> QED BY <1>3, <2>1, DoneFinite, ThreadFacts
<1>5. PICK e \in 0 .. Len(Items) : e + Cardinality(Done) <= i[Main] /\ Len(Items) = e
  BY <1>4 DEF EndsAreLast
<1>6. i[Main] <= c /\ i[Main] \in Nat
  BY DEF Control
<1> QED BY <1>2, <1>4, <1>5, <1>6

LEMMA SoundStep ==
    ASSUME Sound, Control, EndsAreLast, [TestNext]_testVars
    PROVE  Sound'
<1>1. CASE MainDelete
  <2>1. TypeOK'
    <3>1. <<>> \in Seq(Nodes) /\ {} \subseteq Nodes
      OBVIOUS
    <3> QED BY <1>1, <3>1, DeleteStep DEF Sound, TypeOK
  <2>2. InList' = {} /\ Holders' = {}
    BY <1>1, DeleteStep, PhaseFacts DEF InList, Holders, Sound
  <2>3. \A t \in Threads : pc'[t] # "push"
    BY <1>1, DeleteStep, PhaseFacts DEF Sound
  <2>4. Owned'
    BY <1>1, <2>2, <2>3, DeleteStep DEF Owned
  <2> QED BY <1>1, <2>1, <2>4, DeleteStep, DeleteEmpty DEF Sound
<1>2. CASE UNCHANGED testVars
  BY <1>2 DEF testVars, vars, locals, Sound, TypeOK, Owned, Linked, InList, Holders
<1>3. CASE TestNext /\ ~MainDelete
  <2>1. CASE step = "deleted"
    BY <1>2, <1>3, <2>1, AfterDelete
  <2>2. CASE step # "deleted"
    <3>1. TypeOK' /\ Linked' /\ Owned'
      BY <1>3, <2>2, QueueStep, TypeStep, LinkedStep, OwnedStep DEF Sound
    <3>2. step' # "deleted"
      BY <1>3, <2>2
      DEF TestNext, ProducerPush, ProducerInPush, ProducerExit, ProducerReturn,
      ProducerNoData, ProducerPushFails, GiveUp, ConsumerPop, ConsumerInPop,
          MainJoinProducers, MainPushEOS, MainInPush, MainPushFails, NextEOS, Rest,
          testVars, locals
    <3> QED BY <3>1, <3>2 DEF Sound
  <2> QED BY <2>1, <2>2
<1> QED BY <1>1, <1>2, <1>3

\* What a step of queue.c does to the phases and to the elements.
LEMMA QueueView ==
    ASSUME Sound, Sound', step # "deleted", step' # "deleted", NEW t \in Threads
    PROVE  /\ \A d, b : PushCall(t, d, b) =>
                 /\ phase[t] = "idle" /\ phase' = [phase EXCEPT ![t] = "push"]
                 /\ data' = [data EXCEPT ![t] = d] /\ Items' = Items
           /\ Put(t) => Puts(t)
           /\ PopCall(t) /\ t \in alive /\ UNCHANGED <<locals, heap>> => Pops(t)
           /\ Wait(t) \/ SpuriousWakeup(t) => Unseen
           /\ Take(t) /\ UNCHANGED <<locals, heap>> => Takes(t)
           /\ FreeNode(t) => /\ phase[t] = "free" /\ phase' = [phase EXCEPT ![t] = "idle"]
                             /\ data' = data /\ Items' = Items
<1> USE DEF Sound
<1>1. ASSUME NEW d, NEW b, PushCall(t, d, b)
      PROVE  /\ phase[t] = "idle" /\ phase' = [phase EXCEPT ![t] = "push"]
             /\ data' = [data EXCEPT ![t] = d] /\ Items' = Items
  <2>1. \A k \in 1 .. qlen : item'[list[k + 1]] = item[list[k + 1]]
    BY <1>1, InUse DEF PushCall, TypeOK
  <2>2. Items' = Items
    BY <1>1, <2>1, SameItems DEF PushCall
  <2> QED BY <1>1, <2>2 DEF PushCall, phase, TypeOK
<1>2. ASSUME Put(t) PROVE Puts(t)
  <2>1. Items' = Append(Items, data[t])
    BY <1>2, PutAppends
  <2>2. phase' = [phase EXCEPT ![t] = "idle"] /\ phase[t] = "push"
    BY <1>2 DEF Put, SignalAndReturn, Waiting, phase, TypeOK
  <2> QED BY <1>2, <2>1, <2>2 DEF Put, Puts
<1>3. ASSUME PopCall(t), t \in alive, UNCHANGED <<locals, heap>> PROVE Pops(t)
  <2>1. Items' = Items
    BY <1>3, SameItems DEF PopCall, queueVars
  <2> QED BY <1>3, <2>1 DEF PopCall, Pops, phase, TypeOK
<1>4. ASSUME Wait(t) \/ SpuriousWakeup(t) PROVE Unseen
  <2>1. Items' = Items
    BY <1>4, SameItems DEF Wait, SpuriousWakeup, queueVars
  <2> QED BY <1>4, <2>1 DEF Wait, SpuriousWakeup, Unseen, phase, TypeOK
<1>5. ASSUME Take(t), UNCHANGED <<locals, heap>> PROVE Takes(t)
  <2>1. Items # <<>> /\ item[next[head]] = Head(Items) /\ Items' = Tail(Items)
    BY <1>5, TakeRemovesHead
  <2> QED BY <1>5, <2>1 DEF Take, Takes, phase, TypeOK
<1>6. ASSUME FreeNode(t)
      PROVE  /\ phase[t] = "free" /\ phase' = [phase EXCEPT ![t] = "idle"]
             /\ data' = data /\ Items' = Items
  <2>1. Items' = Items
    BY <1>6, SameItems DEF FreeNode, queueVars
  <2> QED BY <1>6, <2>1 DEF FreeNode, phase, TypeOK
<1> QED BY <1>1, <1>2, <1>3, <1>4, <1>5, <1>6

\* Every step of the program, seen on the elements of the list.
ProducerCalls == \E t \in Producers : t \in alive /\ i[t] < interval[t].stop /\ Calls(t, i[t])
ProducerPuts == \E t \in Producers : /\ Puts(t)
                                     /\ i' = [i EXCEPT ![t] = @ + 1]
                                     /\ UNCHANGED <<alive, step, got, failed, heap>>
ConsumerSteps == \E t \in Consumers : Pops(t) \/ Takes(t) \/ Frees(t)
MainCalls == step = "eos" /\ Calls(Main, EOS)
MainPuts == Puts(Main) /\ NextEOS /\ UNCHANGED <<failed, heap>>
OtherSteps == /\ Unseen
              /\ \/ \E t \in Producers : ProducerExit(t)
                 \/ MainJoinProducers \/ MainPushFails \/ MainDelete
                 \/ UNCHANGED locals
              /\ UNCHANGED heap \/ \E d \in Data : NewData(d) /\ Refuse(d)

LEMMA ViewStep ==
    ASSUME Sound, Sound', Control, EndsAreLast, [TestNext]_testVars
    PROVE  ProducerCalls \/ ProducerPuts \/ ConsumerSteps \/ MainCalls \/ MainPuts \/ OtherSteps
<1>1. CASE UNCHANGED testVars
  BY <1>1 DEF testVars, vars, heap, OtherSteps, Unseen, Items, phase
<1>2. CASE step = "deleted"
  BY <1>1, <1>2, AfterDelete
<1>3. CASE MainDelete
  <2>1. qlen = 0 /\ qlen' = 0 /\ UNCHANGED heap
    BY <1>3, DeleteStep, DeleteEmpty DEF MainDelete
  <2>2. Items' = Items
    BY <2>1 DEF Items
  <2>3. phase' = phase /\ data' = data
    BY <1>3, DeleteStep DEF phase
  <2> QED BY <1>3, <2>1, <2>2, <2>3 DEF OtherSteps, Unseen
<1>4. CASE TestNext /\ ~MainDelete /\ step # "deleted"
  <2>0. step' # "deleted"
    BY <1>4
    DEF TestNext, ProducerPush, ProducerInPush, ProducerExit, ProducerReturn,
      ProducerNoData, ProducerPushFails, GiveUp, ConsumerPop, ConsumerInPop,
        MainJoinProducers, MainPushEOS, MainInPush, MainPushFails, NextEOS, Rest,
        testVars, locals
  <2>1. ASSUME NEW t \in Producers, ProducerPush(t) PROVE ProducerCalls
    BY <1>4, <2>0, <2>1, QueueView, ThreadFacts DEF ProducerPush, ProducerCalls, Calls
  <2>2. ASSUME NEW t \in Producers, ProducerInPush(t) PROVE ProducerPuts
    BY <1>4, <2>0, <2>2, QueueView, ThreadFacts DEF ProducerInPush, ProducerPuts
  <2>3. ASSUME NEW t \in Producers, ProducerExit(t) PROVE OtherSteps
    BY <2>3, ExitFacts DEF vars, OtherSteps, Unseen, Items, phase
  <2>4. ASSUME NEW t \in Consumers, ConsumerPop(t) PROVE ConsumerSteps
    BY <1>4, <2>0, <2>4, QueueView, ThreadFacts DEF ConsumerPop, ConsumerSteps
  <2>5. ASSUME NEW t \in Consumers, ConsumerInPop(t) PROVE ConsumerSteps \/ OtherSteps
    <3>0. t \in Threads /\ UNCHANGED <<i, step, failed, refused>> /\ pc \in [Threads -> {"idle", "push", "pop", "wait", "free"}]
      BY <2>5, ThreadFacts DEF ConsumerInPop, Sound, TypeOK
    <3>1. CASE Wait(t)
      <4>1. pc'[t] = "wait"
        BY <3>0, <3>1 DEF Wait
      <4>2. UNCHANGED <<locals, heap>>
        BY <2>5, <4>1 DEF ConsumerInPop, locals, heap
      <4> QED BY <1>4, <2>0, <3>0, <3>1, <4>2, QueueView DEF OtherSteps
    <3>2. CASE Take(t)
      <4>1. pc'[t] = "free"
        BY <3>0, <3>2 DEF Take
      <4>2. UNCHANGED <<locals, heap>>
        BY <2>5, <4>1 DEF ConsumerInPop, locals, heap
      <4> QED BY <1>4, <2>0, <3>0, <3>2, <4>2, QueueView DEF ConsumerSteps
    <3>3. CASE FreeNode(t)
      <4>1. pc'[t] = "idle"
        BY <3>0, <3>3 DEF FreeNode
      <4>2. Frees(t)
        BY <1>4, <2>0, <2>5, <3>0, <3>3, <4>1, QueueView DEF ConsumerInPop, Frees
      <4> QED BY <4>2 DEF ConsumerSteps
    <3> QED BY <2>5, <3>1, <3>2, <3>3 DEF ConsumerInPop
  <2>6. ASSUME NEW t \in Consumers, SpuriousWakeup(t), UNCHANGED <<locals, heap>> PROVE OtherSteps
    BY <1>4, <2>0, <2>6, QueueView, ThreadFacts DEF OtherSteps
  <2>7. CASE MainPushEOS
    BY <1>4, <2>0, <2>7, QueueView, ThreadFacts DEF MainPushEOS, MainCalls, Calls
  <2>8. CASE MainInPush
    BY <1>4, <2>0, <2>8, QueueView, ThreadFacts DEF MainInPush, MainPuts
  <2>9. CASE MainJoinProducers \/ MainPushFails
    BY <2>9, ThreadFacts
    DEF MainJoinProducers, MainPushFails, vars, OtherSteps, Unseen, Items, phase
  <2> QED BY <1>1, <1>4, <2>1, <2>2, <2>3, <2>4, <2>5, <2>6, <2>7, <2>8, <2>9 DEF TestNext, Rest
<1> QED BY <1>1, <1>2, <1>3, <1>4

LEMMA ViewTypes ==
    ASSUME Sound
    PROVE  /\ phase \in [Threads -> {"idle", "push", "pop", "free"}]
           /\ data \in [Threads -> Data \cup {NULL}]
           /\ Items \in Seq(Data \cup {NULL}) /\ Len(Items) \in Nat
<1>1. phase = [t \in Threads |-> phase[t]]
  BY DEF phase
<1>2. phase \in [Threads -> {"idle", "push", "pop", "free"}]
  BY <1>1, PhaseFacts DEF Sound
<1>3. CASE step # "deleted"
  BY <1>2, <1>3, ItemsSequence DEF Sound, TypeOK
<1>4. CASE step = "deleted"
  <2>1. qlen = 0
    BY <1>4 DEF Sound
  <2>2. Items = <<>>
    BY <2>1 DEF Items
  <2>3. <<>> \in Seq(Data \cup {NULL}) /\ Len(<<>>) = 0
    OBVIOUS
  <2> QED BY <1>2, <2>2, <2>3 DEF Sound, TypeOK
<1> QED BY <1>3, <1>4

LEMMA ControlStep ==
    ASSUME Sound, Sound', Control, EndsAreLast, [TestNext]_testVars
    PROVE  Control'
<1>0. /\ phase \in [Threads -> {"idle", "push", "pop", "free"}]
      /\ data \in [Threads -> Data \cup {NULL}]
      /\ i \in [Producers \cup {Main} -> Nat]
  BY ViewTypes DEF Control
<1>1. /\ Main \in Producers \cup {Main} /\ Main \notin Producers
      /\ \A t \in Producers : t \in Threads /\ t # Main /\ t \notin Consumers
      /\ \A t \in Consumers : t \in Threads /\ t # Main /\ t \notin Producers
      /\ Main \in Threads /\ c \in Nat \ {0}
  BY ThreadFacts
<1>2. ASSUME NEW t \in Producers, t \in alive, i[t] < interval[t].stop, Calls(t, i[t])
      PROVE  Control'
  BY <1>0, <1>1, <1>2 DEF Calls, locals, Control
<1>3. ASSUME NEW t \in Producers, Puts(t), i' = [i EXCEPT ![t] = @ + 1],
             UNCHANGED <<alive, step, got, failed, heap>>
      PROVE  Control'
  <2>1. /\ i[t] < interval[t].stop /\ i[t] \in interval[t].start .. interval[t].stop
        /\ interval[t].start \in Nat /\ interval[t].stop \in Nat
    BY <1>3, IntervalFacts DEF Puts, Control
  <2>2. i'[t] \in interval[t].start .. interval[t].stop /\ i'[t] \in Nat
    BY <1>0, <1>3, <2>1
  <2>3. /\ i' \in [Producers \cup {Main} -> Nat]
        /\ \A s \in Producers : i'[s] \in interval[s].start .. interval[s].stop
        /\ i'[Main] = i[Main]
    BY <1>0, <1>1, <1>3, <2>2 DEF Control
  <2>4. /\ phase'[t] = "idle"
        /\ \A s \in Threads : s # t => phase'[s] = phase[s] /\ (s \in Producers => i'[s] = i[s])
        /\ data' = data
    BY <1>0, <1>1, <1>3 DEF Puts
  <2> QED BY <1>1, <1>3, <2>3, <2>4 DEF Control
<1>4. ASSUME NEW t \in Consumers, Pops(t) \/ Takes(t) PROVE Control'
  <2>1. /\ phase'[t] \in {"pop", "free"} /\ t \in alive
        /\ \A s \in Threads : s # t => phase'[s] = phase[s] /\ data'[s] = data[s]
        /\ UNCHANGED locals
    BY <1>0, <1>1, <1>4 DEF Pops, Takes, Control
  <2> QED BY <1>1, <2>1 DEF locals, Control
<1>5. ASSUME NEW t \in Consumers, Frees(t) PROVE Control'
  <2>1. /\ phase'[t] = "idle"
        /\ \A s \in Threads : s # t => phase'[s] = phase[s]
        /\ data' = data /\ UNCHANGED <<i, step>>
        /\ alive' \subseteq alive /\ alive \subseteq alive' \cup {t}
    BY <1>0, <1>1, <1>5 DEF Frees
  <2> QED BY <1>1, <2>1 DEF Control
<1>6. CASE MainCalls
  <2>1. /\ step = "eos" /\ data'[Main] = EOS
        /\ \A s \in Threads : s # Main => phase'[s] = phase[s] /\ data'[s] = data[s]
        /\ phase'[Main] = "push" /\ UNCHANGED locals
    BY <1>0, <1>1, <1>6 DEF MainCalls, Calls
  <2> QED BY <1>1, <2>1 DEF Control, locals
<1>7. ASSUME NextEOS, phase[Main] = "push" \/ step = "eos",
             \A s \in Threads : s # Main => phase'[s] = phase[s] /\ data'[s] = data[s],
             phase'[Main] = "idle"
      PROVE  Control'
  <2>1. step = "eos" /\ i[Main] < c /\ i[Main] \in Nat
    BY <1>0, <1>7 DEF Control
  <2>2. /\ i' \in [Producers \cup {Main} -> Nat] /\ i'[Main] = i[Main] + 1
        /\ \A s \in Producers : i'[s] = i[s]
        /\ UNCHANGED <<alive, got>>
        /\ step' = IF i[Main] + 1 < c THEN "eos" ELSE "join_consumers"
    BY <1>0, <1>1, <1>7 DEF NextEOS
  <2> QED BY <1>1, <1>7, <2>1, <2>2 DEF Control
<1>8. CASE MainPuts
  <2>1. phase[Main] = "push" /\ phase'[Main] = "idle"
        /\ \A s \in Threads : s # Main => phase'[s] = phase[s] /\ data'[s] = data[s]
    BY <1>0, <1>1, <1>8 DEF MainPuts, Puts
  <2> QED BY <1>7, <1>8, <2>1 DEF MainPuts
<1>9. CASE OtherSteps
  <2>0. phase' = phase /\ data' = data
    BY <1>9 DEF OtherSteps, Unseen
  <2>1. ASSUME NEW t \in Producers, ProducerExit(t) PROVE Control'
    <3>1. phase[t] = "idle"
      BY <1>1, <2>1, ExitFacts, PhaseFacts DEF Sound
    <3> QED BY <1>1, <2>0, <2>1, <3>1, ExitFacts DEF Control
  <2>2. CASE MainJoinProducers
    BY <1>0, <1>1, <2>0, <2>2 DEF MainJoinProducers, Control
  <2>3. CASE MainPushFails
    <3>1. phase[Main] = "idle"
      BY <1>1, <2>3, PhaseFacts DEF MainPushFails, Sound
    <3> QED BY <1>7, <2>0, <2>3, <3>1 DEF MainPushFails
  <2>4. CASE MainDelete
    <3>1. alive' = {}
      BY <2>4, ThreadFacts DEF MainDelete, Control
    <3>2. \A t \in Threads : phase[t] = "idle"
      BY <2>4, DeleteStep
    <3> QED BY <1>1, <2>0, <2>4, <3>1, <3>2 DEF MainDelete, Control
  <2>5. CASE UNCHANGED locals
    BY <2>0, <2>5 DEF locals, Control
  <2> QED BY <1>9, <2>1, <2>2, <2>3, <2>4, <2>5 DEF OtherSteps
<1> QED
  BY <1>2, <1>3, <1>4, <1>5, <1>6, <1>8, <1>9, ViewStep
  DEF ProducerCalls, ProducerPuts, ConsumerSteps

\* What the ends of a queue do to the elements at its positions.
LEMMA AppendFacts ==
    ASSUME NEW S, NEW s \in Seq(S), NEW x \in S
    PROVE  /\ Len(Append(s, x)) = Len(s) + 1 /\ Len(s) \in Nat
           /\ \A k \in 1 .. Len(s) : Append(s, x)[k] = s[k]
           /\ Append(s, x)[Len(s) + 1] = x
OBVIOUS

LEMMA TailFacts ==
    ASSUME NEW S, NEW s \in Seq(S), s # <<>>
    PROVE  /\ Len(Tail(s)) = Len(s) - 1 /\ Len(s) \in Nat \ {0}
           /\ \A k \in 1 .. Len(s) - 1 : Tail(s)[k] = s[k + 1]
           /\ Head(s) = s[1] /\ Head(s) \in S
OBVIOUS

\* What is kept when main does one round of its loop without a push.
LEMMA EndsStay ==
    ASSUME EndsAreLast, Items' = Items, Done' = Done, i[Main] \in Nat,
           i'[Main] \in {i[Main], i[Main] + 1}
    PROVE  EndsAreLast'
<1>1. PICK e \in 0 .. Len(Items) :
        /\ e + Cardinality(Done) <= i[Main]
        /\ \A k \in 1 .. Len(Items) : Items[k] = EOS <=> k > Len(Items) - e
        /\ Done # {} => Len(Items) = e
  BY DEF EndsAreLast
<1>2. e + Cardinality(Done) <= i'[Main]
  BY <1>1, DoneFinite
<1> HIDE DEF Done
<1> QED BY <1>1, <1>2 DEF EndsAreLast

LEMMA EndsStep ==
    ASSUME Sound, Sound', Control, Control', EndsAreLast, Places, [TestNext]_testVars
    PROVE  EndsAreLast'
<1>0. /\ phase \in [Threads -> {"idle", "push", "pop", "free"}]
      /\ data \in [Threads -> Data \cup {NULL}]
      /\ i \in [Producers \cup {Main} -> Nat]
      /\ Items \in Seq(Data \cup {NULL}) /\ Len(Items) \in Nat
  BY ViewTypes DEF Control
<1>1. /\ Main \in Producers \cup {Main} /\ Main \notin Producers
      /\ \A t \in Producers : t \in Threads /\ t # Main /\ t \notin Consumers
      /\ \A t \in Consumers : t \in Threads /\ t # Main /\ t \notin Producers
      /\ Main \in Threads /\ c \in Nat \ {0} /\ i[Main] \in Nat
      /\ IsFiniteSet(Done) /\ Cardinality(Done) \in Nat
  BY <1>0, ThreadFacts, DoneFinite
<1>2. PICK e \in 0 .. Len(Items) :
        /\ e + Cardinality(Done) <= i[Main]
        /\ \A k \in 1 .. Len(Items) : Items[k] = EOS <=> k > Len(Items) - e
        /\ Done # {} => Len(Items) = e
  BY DEF EndsAreLast
<1>3. CASE ProducerCalls
  <2>1. Items' = Items /\ i' = i
    BY <1>3 DEF ProducerCalls, Calls, locals
  <2>2. Done' = Done
    BY <1>0, <1>1, <1>3 DEF ProducerCalls, Calls, locals, Done
  <2> QED BY <1>1, <2>1, <2>2, EndsStay
<1>4. CASE MainCalls
  <2>1. Items' = Items /\ i' = i
    BY <1>4 DEF MainCalls, Calls, locals
  <2>2. Done' = Done
    BY <1>0, <1>1, <1>4 DEF MainCalls, Calls, locals, Done
  <2> QED BY <1>1, <2>1, <2>2, EndsStay
<1>5. ASSUME NEW t \in Producers, Puts(t), i' = [i EXCEPT ![t] = @ + 1],
             UNCHANGED <<alive, step, got, failed, heap>>
      PROVE  EndsAreLast'
  <2>1. /\ step = "join_producers" /\ i[Main] = 0 /\ i'[Main] = 0
        /\ data[t] \in Data /\ data[t] # EOS
    <3>1. t \in alive /\ data[t] = i[t] /\ i[t] < interval[t].stop
      BY <1>1, <1>5 DEF Puts, Control
    <3>2. i[t] \in Messages
      BY <3>1, NextMessage
    <3> QED BY <1>0, <1>1, <1>5, <3>1, <3>2, ThreadFacts DEF Control
  <2>2. e = 0 /\ Done = {}
    <3>1. e = 0 /\ Cardinality(Done) = 0
      BY <1>1, <1>2, <2>1
    <3> QED BY <3>1, <1>1, FS_EmptySet
  <2>3. Done' = {}
    <3>1. Done' = Done
      BY <1>0, <1>1, <1>5 DEF Puts, Done
    <3> QED BY <2>2, <3>1
  <2>4. \A k \in 1 .. Len(Items') : Items'[k] # EOS
    <3>1. /\ Len(Items') = Len(Items) + 1
          /\ \A k \in 1 .. Len(Items) : Items'[k] = Items[k]
          /\ Items'[Len(Items) + 1] = data[t]
      BY <1>0, <1>5, <2>1, AppendFacts DEF Puts
    <3>2. \A k \in 1 .. Len(Items) : Items[k] # EOS
      BY <1>0, <1>2, <2>2
    <3> QED BY <1>0, <2>1, <3>1, <3>2
  <2>5. Len(Items') \in Nat
    BY <1>0, <1>5, <2>1, AppendFacts DEF Puts
  <2>6. /\ 0 \in 0 .. Len(Items')
        /\ 0 + Cardinality(Done') <= i'[Main]
        /\ \A k \in 1 .. Len(Items') : Items'[k] = EOS <=> k > Len(Items') - 0
    BY <2>1, <2>3, <2>4, <2>5, FS_EmptySet
  <2> HIDE DEF Done
  <2> QED BY <2>3, <2>6 DEF EndsAreLast
<1>6. CASE MainPuts
  <2>1. /\ data[Main] = EOS /\ EOS \in Data
        /\ i'[Main] = i[Main] + 1
    BY <1>0, <1>1, <1>6, ThreadFacts DEF MainPuts, Puts, NextEOS, Control
  <2>2. Done' = Done
    BY <1>0, <1>1, <1>6 DEF MainPuts, NextEOS, Puts, Done
  <2>3. /\ Len(Items') = Len(Items) + 1
        /\ \A k \in 1 .. Len(Items) : Items'[k] = Items[k]
        /\ Items'[Len(Items) + 1] = EOS
    BY <1>0, <1>6, <2>1, AppendFacts DEF MainPuts, Puts
  <2>4. \A k \in 1 .. Len(Items') : Items'[k] = EOS <=> k > Len(Items') - (e + 1)
    BY <1>0, <1>2, <2>3
  <2>5. /\ e + 1 \in 0 .. Len(Items')
        /\ (e + 1) + Cardinality(Done') <= i'[Main]
        /\ Done' # {} => Len(Items') = e + 1
    BY <1>0, <1>1, <1>2, <2>1, <2>2, <2>3
  <2> HIDE DEF Done
  <2> QED BY <2>4, <2>5 DEF EndsAreLast
<1>7. ASSUME NEW t \in Consumers, Pops(t) PROVE EndsAreLast'
  <2>1. Done' = Done /\ Items' = Items /\ i' = i
    BY <1>0, <1>1, <1>7 DEF Pops, locals, Done
  <2> QED BY <1>1, <2>1, EndsStay
<1>8. ASSUME NEW t \in Consumers, Frees(t) PROVE EndsAreLast'
  <2>1. Items' = Items /\ i' = i
    BY <1>8 DEF Frees
  <2>2. t \in alive
    BY <1>1, <1>8 DEF Frees, Control
  <2>3. Done' = Done
    BY <1>0, <1>1, <1>8, <2>2 DEF Frees, Done
  <2> QED BY <1>1, <2>1, <2>3, EndsStay
<1>9. ASSUME NEW t \in Consumers, Takes(t) PROVE EndsAreLast'
  <2>0. t \in alive /\ t \notin Done
    BY <1>1, <1>9 DEF Takes, Control, Done
  <2>1. /\ Len(Items') = Len(Items) - 1 /\ Len(Items) \in Nat \ {0}
        /\ \A k \in 1 .. Len(Items) - 1 : Items'[k] = Items[k + 1]
        /\ Head(Items) = Items[1]
    BY <1>0, <1>9, TailFacts DEF Takes
  <2>2. i' = i /\ alive' = alive
    BY <1>9 DEF Takes, locals
  <2>3. CASE Items[1] = EOS
    <3>1. e = Len(Items)
      BY <1>2, <2>1, <2>3
    <3>2. Done' = Done \cup {t}
      BY <1>0, <1>1, <1>9, <2>1, <2>2, <2>3 DEF Takes, Done
    <3>3. Cardinality(Done') = Cardinality(Done) + 1
      BY <1>1, <2>0, <3>2, FS_AddElement
    <3>4. /\ e - 1 \in 0 .. Len(Items')
          /\ (e - 1) + Cardinality(Done') <= i'[Main]
          /\ Len(Items') = e - 1
      BY <1>1, <1>2, <2>1, <2>2, <3>1, <3>3
    <3>5. \A k \in 1 .. Len(Items') : Items'[k] = EOS <=> k > Len(Items') - (e - 1)
      BY <1>2, <2>1, <3>1
    <3> HIDE DEF Done
    <3> QED BY <3>4, <3>5 DEF EndsAreLast
  <2>4. CASE Items[1] # EOS
    <3>1. e <= Len(Items) - 1 /\ Done = {}
      BY <1>2, <2>1, <2>4
    <3>2. Done' = Done
      BY <1>0, <1>1, <1>9, <2>0, <2>1, <2>2, <2>4 DEF Takes, Done
    <3>3. /\ e \in 0 .. Len(Items')
          /\ e + Cardinality(Done') <= i'[Main]
      BY <1>2, <2>1, <2>2, <3>1, <3>2
    <3>4. ASSUME NEW k \in 1 .. Len(Items')
          PROVE  Items'[k] = EOS <=> k > Len(Items') - e
      <4>1. Items'[k] = Items[k + 1] /\ k + 1 \in 1 .. Len(Items)
        BY <2>1
      <4>2. Items[k + 1] = EOS <=> k + 1 > Len(Items) - e
        BY <1>2, <4>1
      <4> QED BY <2>1, <4>1, <4>2
    <3> HIDE DEF Done
    <3> QED BY <3>1, <3>2, <3>3, <3>4 DEF EndsAreLast
  <2> QED BY <2>3, <2>4
<1>10. CASE OtherSteps
  <2>1. Items' = Items /\ phase' = phase /\ data' = data
    BY <1>10 DEF OtherSteps, Unseen
  <2>2. i'[Main] \in {i[Main], i[Main] + 1}
    BY <1>0, <1>1, <1>10, ExitFacts
    DEF OtherSteps, MainJoinProducers, MainPushFails, NextEOS, MainDelete, locals
  <2>3. \A t \in Consumers : t \in alive' <=> t \in alive
    BY <1>1, <1>10, ExitFacts
    DEF OtherSteps, MainJoinProducers, MainPushFails, NextEOS, MainDelete, locals
  <2>4. Done' = Done
    BY <2>1, <2>3 DEF Done
  <2> QED BY <1>1, <2>1, <2>2, <2>4, EndsStay
<1> QED
  BY <1>3, <1>4, <1>5, <1>6, <1>7, <1>8, <1>9, <1>10, ViewStep
  DEF ProducerPuts, ConsumerSteps

\* The messages pushed change only when a producer goes on.
LEMMA PushedStays ==
    ASSUME \A t \in Producers : i'[t] = i[t]
    PROVE  Pushed' = Pushed
BY DEF Pushed

LEMMA PlacesStay ==
    ASSUME Places, Items' = Items, got' = got, Pushed' = Pushed,
           \A t \in Consumers : phase'[t] = "free" <=> phase[t] = "free",
           \A t \in Consumers : phase[t] = "free" => data'[t] = data[t]
    PROVE  Places'
<1>1. ASSUME NEW x \in Messages PROVE Placed(x)'
  <2>1. Slots(x)' = Slots(x) /\ Had(x)' = Had(x)
    BY DEF Slots, Had
  <2>2. Hands(x)' = Hands(x)
    BY DEF Hands
  <2>3. Placed(x)
    BY DEF Places
  <2> QED BY <2>1, <2>2, <2>3 DEF Placed
<1> QED BY <1>1 DEF Places

LEMMA PlacesStep ==
    ASSUME Sound, Sound', Control, EndsAreLast, Places, [TestNext]_testVars
    PROVE  Places'
<1>0. /\ phase \in [Threads -> {"idle", "push", "pop", "free"}]
      /\ data \in [Threads -> Data \cup {NULL}]
      /\ i \in [Producers \cup {Main} -> Nat]
      /\ Items \in Seq(Data \cup {NULL}) /\ Len(Items) \in Nat
  BY ViewTypes DEF Control
<1>1. /\ Main \in Producers \cup {Main} /\ Main \notin Producers
      /\ \A t \in Producers : t \in Threads /\ t # Main /\ t \notin Consumers
      /\ \A t \in Consumers : t \in Threads /\ t # Main /\ t \notin Producers
      /\ Main \in Threads
      /\ EOS \in Data /\ NULL \notin Data
      /\ \A x \in Messages : x \in Data /\ x # EOS
      /\ \A x \in Data : x # EOS => x \in Messages
  BY ThreadFacts
<1>2. /\ got \in [Consumers -> SUBSET Messages]
      /\ \A k \in 1 .. Len(Items) : Items[k] \in Data
      /\ \A t \in Consumers : phase[t] = "free" => data[t] \in Data
  BY DEF Places
<1>3. CASE ProducerCalls \/ MainCalls
  <2>1. PICK t \in Producers \cup {Main} : \E d : Calls(t, d)
    BY <1>3 DEF ProducerCalls, MainCalls
  <2>2. /\ \A s \in Consumers : phase'[s] = phase[s] /\ data'[s] = data[s]
        /\ Items' = Items /\ got' = got /\ i' = i
    BY <1>0, <1>1, <2>1 DEF Calls, locals
  <2> QED BY <2>2, PushedStays, PlacesStay
<1>4. ASSUME NEW t \in Producers, Puts(t), i' = [i EXCEPT ![t] = @ + 1],
             UNCHANGED <<alive, step, got, failed, heap>>
      PROVE  Places'
  <2>1. data[t] = i[t] /\ i[t] < interval[t].stop
    BY <1>1, <1>4 DEF Puts, Control
  <2>2. /\ data[t] \in Messages /\ data[t] \notin Pushed
        /\ \A x \in Messages : x \in Pushed' <=> x \in Pushed \/ x = data[t]
    BY <1>4, <2>1, NextMessage
  <2>3. /\ Len(Items') = Len(Items) + 1
        /\ \A k \in 1 .. Len(Items) : Items'[k] = Items[k]
        /\ Items'[Len(Items) + 1] = data[t]
    BY <1>0, <1>1, <1>4, <2>2, AppendFacts DEF Puts
  <2>4. \A s \in Consumers : phase'[s] = phase[s] /\ data'[s] = data[s]
    BY <1>0, <1>1, <1>4 DEF Puts
  <2>5. ASSUME NEW x \in Messages PROVE Placed(x)'
    <3>1. Hands(x)' = Hands(x) /\ Had(x)' = Had(x)
      BY <1>4, <2>4 DEF Hands, Had
    <3>2. Placed(x)
      BY DEF Places
    <3>3. CASE x = data[t]
      <4>1. Slots(x) = {} /\ Hands(x) = {} /\ Had(x) = {}
        BY <2>2, <3>2, <3>3 DEF Placed
      <4>2. Slots(x)' = {Len(Items) + 1}
        BY <1>0, <2>3, <3>3, <4>1 DEF Slots
      <4> QED BY <2>2, <3>1, <3>3, <4>1, <4>2 DEF Placed
    <3>4. CASE x # data[t]
      <4>1. Slots(x)' = Slots(x)
        BY <1>0, <2>3, <3>4 DEF Slots
      <4>2. x \in Pushed' <=> x \in Pushed
        BY <2>2, <3>4
      <4> QED BY <3>1, <3>2, <4>1, <4>2 DEF Placed
    <3> QED BY <3>3, <3>4
  <2>6. \A k \in 1 .. Len(Items') : Items'[k] \in Data
    BY <1>0, <1>1, <1>2, <2>2, <2>3
  <2> QED BY <1>2, <1>4, <2>4, <2>5, <2>6 DEF Places
<1>5. CASE MainPuts
  <2>1. data[Main] = EOS
    BY <1>5 DEF MainPuts, Puts, Control
  <2>2. Pushed' = Pushed
    <3>1. \A s \in Producers : i'[s] = i[s]
      BY <1>0, <1>1, <1>5 DEF MainPuts, NextEOS
    <3> QED BY <3>1, PushedStays
  <2>3. /\ Len(Items') = Len(Items) + 1
        /\ \A k \in 1 .. Len(Items) : Items'[k] = Items[k]
        /\ Items'[Len(Items) + 1] = EOS
    BY <1>0, <1>1, <1>5, <2>1, AppendFacts DEF MainPuts, Puts
  <2>4. /\ \A s \in Consumers : phase'[s] = phase[s] /\ data'[s] = data[s]
        /\ got' = got
    BY <1>0, <1>1, <1>5 DEF MainPuts, Puts, NextEOS
  <2>5. ASSUME NEW x \in Messages PROVE Placed(x)'
    <3>1. Hands(x)' = Hands(x) /\ Had(x)' = Had(x)
      BY <2>4 DEF Hands, Had
    <3>2. Placed(x) /\ x # EOS
      BY <1>1 DEF Places
    <3>3. Slots(x)' = Slots(x)
      <4>1. \A k : k \in 1 .. Len(Items') /\ Items'[k] = x
                   <=> k \in 1 .. Len(Items) /\ Items[k] = x
        BY <1>0, <2>3, <3>2
      <4> QED BY <4>1 DEF Slots
    <3> QED BY <2>2, <3>1, <3>2, <3>3 DEF Placed
  <2>6. ASSUME NEW k \in 1 .. Len(Items') PROVE Items'[k] \in Data
    <3>1. k \in 1 .. Len(Items) \/ k = Len(Items) + 1
      BY <1>0, <2>3
    <3> QED BY <1>1, <1>2, <2>3, <3>1
  <2> QED BY <1>2, <2>4, <2>5, <2>6 DEF Places
<1>6. ASSUME NEW t \in Consumers, Pops(t) PROVE Places'
  <2>1. /\ \A s \in Consumers : phase'[s] = "free" <=> phase[s] = "free"
        /\ \A s \in Consumers : phase[s] = "free" => data'[s] = data[s]
        /\ Items' = Items /\ got' = got /\ i' = i
    BY <1>0, <1>1, <1>6 DEF Pops, locals
  <2> QED BY <2>1, PushedStays, PlacesStay
<1>7. ASSUME NEW t \in Consumers, Takes(t) PROVE Places'
  <2>1. /\ Len(Items') = Len(Items) - 1 /\ Len(Items) \in Nat \ {0}
        /\ \A k \in 1 .. Len(Items) - 1 : Items'[k] = Items[k + 1]
        /\ Head(Items) = Items[1]
    BY <1>0, <1>7, TailFacts DEF Takes
  <2>2. /\ phase[t] = "pop" /\ phase'[t] = "free" /\ data'[t] = Items[1]
        /\ \A s \in Consumers : s # t => phase'[s] = phase[s] /\ data'[s] = data[s]
        /\ got' = got /\ i' = i
    BY <1>0, <1>1, <1>7, <2>1 DEF Takes, locals
  <2>3. Pushed' = Pushed
    BY <2>2, PushedStays
  <2>4. ASSUME NEW x \in Messages PROVE Placed(x)'
    <3>1. Had(x)' = Had(x)
      BY <2>2 DEF Had
    <3>2. Placed(x)
      BY DEF Places
    <3>3. Slots(x)' = {k \in 1 .. Len(Items) - 1 : Items[k + 1] = x}
      BY <2>1 DEF Slots
    <3>4. CASE x = Items[1]
      <4>1. 1 \in Slots(x)
        BY <2>1, <3>4 DEF Slots
      <4>2. x \in Pushed /\ Slots(x) = {1} /\ Hands(x) = {} /\ Had(x) = {}
        BY <3>2, <4>1 DEF Placed
      <4>3. Slots(x)' = {}
        <5>1. ASSUME NEW k \in 1 .. Len(Items) - 1, Items[k + 1] = x PROVE FALSE
          <6>1. k + 1 \in Slots(x) /\ k + 1 # 1
            BY <2>1, <5>1 DEF Slots
          <6> QED BY <4>2, <6>1
        <5> QED BY <3>3, <5>1
      <4>4. Hands(x)' = {t}
        BY <2>2, <3>4, <4>2 DEF Hands
      <4> QED BY <2>3, <3>1, <4>2, <4>3, <4>4 DEF Placed
    <3>5. CASE x # Items[1]
      <4>1. Hands(x)' = Hands(x)
        BY <2>2, <3>5 DEF Hands
      <4>2. 1 \notin Slots(x) /\ \A k \in Slots(x) : k \in 1 .. Len(Items) /\ Items[k] = x
        BY <3>5 DEF Slots
      <4>3. CASE Slots(x) = {}
        <5>1. ASSUME NEW k \in 1 .. Len(Items) - 1, Items[k + 1] = x PROVE FALSE
          <6>1. k + 1 \in Slots(x)
            BY <2>1, <5>1 DEF Slots
          <6> QED BY <4>3, <6>1
        <5>2. Slots(x)' = {}
          BY <3>3, <5>1
        <5> QED BY <2>3, <3>1, <3>2, <4>1, <4>3, <5>2 DEF Placed
      <4>4. ASSUME NEW k \in Slots(x), Slots(x) = {k} PROVE Placed(x)'
        <5>1. k \in 2 .. Len(Items) /\ Items[k] = x
          BY <2>1, <4>2, <4>4
        <5>2. Slots(x)' = {k - 1}
          <6>1. k - 1 \in Slots(x)'
            BY <2>1, <3>3, <5>1
          <6>2. ASSUME NEW j \in 1 .. Len(Items) - 1, Items[j + 1] = x PROVE j = k - 1
            <7>1. j + 1 \in Slots(x)
              BY <2>1, <6>2 DEF Slots
            <7> QED BY <4>4, <5>1, <7>1
          <6> QED BY <3>3, <6>1, <6>2
        <5>3. x \in Pushed /\ Hands(x) = {} /\ Had(x) = {}
          BY <3>2, <4>4 DEF Placed
        <5> QED BY <2>3, <3>1, <4>1, <5>2, <5>3 DEF Placed
      <4> QED BY <3>2, <4>3, <4>4 DEF Placed
    <3> QED BY <3>4, <3>5
  <2>5. \A k \in 1 .. Len(Items') : Items'[k] \in Data
    BY <1>2, <2>1
  <2>6. \A s \in Consumers : phase'[s] = "free" => data'[s] \in Data
    BY <1>2, <2>1, <2>2
  <2> QED BY <1>2, <2>2, <2>4, <2>5, <2>6 DEF Places
<1>8. ASSUME NEW t \in Consumers, Frees(t) PROVE Places'
  <2>1. /\ phase[t] = "free" /\ phase'[t] = "idle"
        /\ \A s \in Consumers : s # t => phase'[s] = phase[s]
        /\ data' = data /\ Items' = Items /\ i' = i
    BY <1>0, <1>1, <1>8 DEF Frees
  <2>2. Pushed' = Pushed
    BY <2>1, PushedStays
  <2>3. \A s \in Consumers : phase'[s] = "free" => data'[s] \in Data
    BY <1>2, <2>1
  <2>4. \A x \in Messages : Slots(x)' = Slots(x) /\ Placed(x)
    BY <2>1 DEF Slots, Places
  <2>5. CASE data[t] = EOS
    <3>1. got' = got
      BY <1>8, <2>5 DEF Frees
    <3>2. ASSUME NEW x \in Messages PROVE Placed(x)'
      <4>1. Hands(x)' = Hands(x) /\ Had(x)' = Had(x)
        BY <1>1, <2>1, <2>5, <3>1 DEF Hands, Had
      <4> QED BY <2>2, <2>4, <4>1 DEF Placed
    <3> QED BY <1>2, <2>1, <2>3, <3>1, <3>2 DEF Places
  <2>6. CASE data[t] # EOS
    <3>1. data[t] \in Messages
      BY <1>1, <1>2, <2>1, <2>6
    <3>2. /\ got' \in [Consumers -> SUBSET Messages]
          /\ got'[t] = got[t] \cup {data[t]}
          /\ \A s \in Consumers : s # t => got'[s] = got[s]
      BY <1>2, <1>8, <2>6, <3>1 DEF Frees
    <3>3. ASSUME NEW x \in Messages PROVE Placed(x)'
      <4>1. CASE x = data[t]
        <5>1. t \in Hands(x)
          BY <2>1, <4>1 DEF Hands
        <5>2. x \in Pushed /\ Slots(x) = {} /\ Hands(x) = {t} /\ Had(x) = {}
          BY <2>4, <5>1 DEF Placed
        <5>3. Hands(x)' = {}
          BY <2>1, <5>2 DEF Hands
        <5>4. Had(x)' = {t}
          BY <3>2, <4>1, <5>2 DEF Had
        <5> QED BY <2>2, <2>4, <5>2, <5>3, <5>4 DEF Placed
      <4>2. CASE x # data[t]
        <5>1. Hands(x)' = Hands(x) /\ Had(x)' = Had(x)
          BY <2>1, <3>2, <4>2 DEF Hands, Had
        <5> QED BY <2>2, <2>4, <5>1 DEF Placed
      <4> QED BY <4>1, <4>2
    <3> QED BY <1>2, <2>1, <2>3, <3>2, <3>3 DEF Places
  <2> QED BY <2>5, <2>6
<1>9. CASE OtherSteps
  <2>1. Items' = Items /\ phase' = phase /\ data' = data
    BY <1>9 DEF OtherSteps, Unseen
  <2>2. got' = got /\ \A t \in Producers : i'[t] = i[t]
    BY <1>0, <1>1, <1>9, ExitFacts
    DEF OtherSteps, MainJoinProducers, MainPushFails, NextEOS, MainDelete, locals
  <2> QED BY <2>1, <2>2, PushedStays, PlacesStay
<1> QED
  BY <1>3, <1>4, <1>5, <1>6, <1>7, <1>8, <1>9, ViewStep
  DEF ProducerPuts, ConsumerSteps

-----------------------------------------------------------------------------
(* The numbers in use are counted.                                         *)
Positions(s, x) == {k \in 1 .. Len(s) : s[k] = x}
Share(x, y) == IF x = y THEN 1 ELSE 0

LEMMA PositionsFinite ==
    ASSUME NEW S, NEW s \in Seq(S), NEW x
    PROVE  IsFiniteSet(Positions(s, x)) /\ Cardinality(Positions(s, x)) \in Nat
<1>1. Len(s) \in Nat
  OBVIOUS
<1>2. IsFiniteSet(1 .. Len(s))
  BY <1>1, FS_Interval
<1>3. IsFiniteSet(Positions(s, x))
  BY <1>2, FS_Subset DEF Positions
<1> QED BY <1>3, FS_CardinalityType

LEMMA CountAppend ==
    ASSUME NEW S, NEW s \in Seq(S), NEW y \in S, NEW x
    PROVE  Cardinality(Positions(Append(s, y), x))
           = Cardinality(Positions(s, x)) + Share(x, y)
<1>1. /\ Len(Append(s, y)) = Len(s) + 1 /\ Len(s) \in Nat
      /\ \A k \in 1 .. Len(s) : Append(s, y)[k] = s[k]
      /\ Append(s, y)[Len(s) + 1] = y
  BY AppendFacts
<1>2. 1 .. Len(s) + 1 = 1 .. Len(s) \cup {Len(s) + 1} /\ Len(s) + 1 \notin 1 .. Len(s)
  BY <1>1
<1>3. CASE x = y
  <2>1. /\ Positions(Append(s, y), x) = Positions(s, x) \cup {Len(s) + 1}
        /\ Len(s) + 1 \notin Positions(s, x)
    BY <1>1, <1>2, <1>3 DEF Positions
  <2> QED BY <1>3, <2>1, PositionsFinite, FS_AddElement DEF Share
<1>4. CASE x # y
  <2>1. Positions(Append(s, y), x) = Positions(s, x)
    BY <1>1, <1>2, <1>4 DEF Positions
  <2> QED BY <1>4, <2>1, PositionsFinite DEF Share
<1> QED BY <1>3, <1>4

LEMMA CountTail ==
    ASSUME NEW S, NEW s \in Seq(S), s # <<>>, NEW x
    PROVE  Cardinality(Positions(s, x))
           = Cardinality(Positions(Tail(s), x)) + Share(x, Head(s))
<1>1. /\ Len(Tail(s)) = Len(s) - 1 /\ Len(s) \in Nat \ {0}
      /\ \A k \in 1 .. Len(s) - 1 : Tail(s)[k] = s[k + 1]
      /\ Head(s) = s[1]
  BY TailFacts
<1> DEFINE Later == {k \in 2 .. Len(s) : s[k] = x}
           shift == [k \in Positions(Tail(s), x) |-> k + 1]
<1>2. IsFiniteSet(Later)
  <2>1. Later \subseteq Positions(s, x)
    BY <1>1 DEF Positions
  <2> QED BY <2>1, PositionsFinite, FS_Subset
<1>3. Cardinality(Later) = Cardinality(Positions(Tail(s), x))
  <2>1. \A k \in Positions(Tail(s), x) : k \in Nat /\ shift[k] = k + 1 /\ k + 1 \in Later
    BY <1>1 DEF Positions
  <2>2. \A k \in Later : k - 1 \in Positions(Tail(s), x) /\ (k - 1) + 1 = k
    BY <1>1 DEF Positions
  <2>3. shift \in [Positions(Tail(s), x) -> Later]
    BY <2>1
  <2>4. \A j, k \in Positions(Tail(s), x) : shift[j] = shift[k] => j = k
    BY <2>1
  <2>5. \A k \in Later : \E j \in Positions(Tail(s), x) : shift[j] = k
    BY <2>1, <2>2
  <2> HIDE DEF shift, Later
  <2>6. shift \in Bijection(Positions(Tail(s), x), Later)
    BY <2>3, <2>4, <2>5 DEF Bijection, Injection, Surjection, IsInjective
  <2>7. IsFiniteSet(Positions(Tail(s), x))
    <3>1. Tail(s) \in Seq(S)
      OBVIOUS
    <3> QED BY <3>1, PositionsFinite
  <2> QED BY <2>6, <2>7, FS_Bijection DEF ExistsBijection
<1>4. CASE x = Head(s)
  <2>1. Positions(s, x) = Later \cup {1} /\ 1 \notin Later
    BY <1>1, <1>4 DEF Positions
  <2>2. Cardinality(Positions(s, x)) = Cardinality(Later) + 1
    BY <1>2, <2>1, FS_AddElement
  <2> QED BY <1>3, <1>4, <2>2 DEF Share
<1>5. CASE x # Head(s)
  <2>1. Positions(s, x) = Later
    BY <1>1, <1>5 DEF Positions
  <2>2. Cardinality(Later) \in Nat
    BY <1>2, FS_CardinalityType
  <2> HIDE DEF Later
  <2> QED BY <1>3, <1>5, <2>1, <2>2 DEF Share
<1> QED BY <1>4, <1>5

LEMMA HeldFinite ==
    ASSUME NEW x
    PROVE  IsFiniteSet(Held(x)) /\ Cardinality(Held(x)) \in Nat
BY Finiteness, FS_Subset, FS_CardinalityType DEF Held

\* A thread takes a number in hand.
LEMMA HeldMore ==
    ASSUME NEW t \in Threads, NEW y, NEW x,
           phase \in [Threads -> {"idle", "push", "pop", "free"}],
           data \in [Threads -> Data \cup {NULL}],
           phase[t] \notin {"push", "free"},
           \A s \in Threads : s # t => phase'[s] = phase[s] /\ data'[s] = data[s],
           phase'[t] \in {"push", "free"}, data'[t] = y
    PROVE  Cardinality(Held(x)') = Cardinality(Held(x)) + Share(x, y)
<1>1. CASE x = y
  <2>1. Held(x)' = Held(x) \cup {t} /\ t \notin Held(x)
    BY <1>1 DEF Held
  <2>2. IsFiniteSet(Held(x)) /\ Cardinality(Held(x)) \in Nat
    BY HeldFinite
  <2>3. Cardinality(Held(x) \cup {t}) = Cardinality(Held(x)) + 1
    BY <2>1, <2>2, FS_AddElement
  <2>4. Cardinality(Held(x)') = Cardinality(Held(x)) + 1
    BY <2>1, <2>3
  <2> QED BY <1>1, <2>4 DEF Share
<1>2. CASE x # y
  <2>1. Held(x)' = Held(x)
    BY <1>2 DEF Held
  <2> QED BY <1>2, <2>1, HeldFinite DEF Share
<1> QED BY <1>1, <1>2

\* A thread lets go of the number it has in hand.
LEMMA HeldLess ==
    ASSUME NEW t \in Threads, NEW x,
           phase \in [Threads -> {"idle", "push", "pop", "free"}],
           data \in [Threads -> Data \cup {NULL}],
           phase[t] \in {"push", "free"}, data' = data,
           \A s \in Threads : s # t => phase'[s] = phase[s],
           phase'[t] \notin {"push", "free"}
    PROVE  Cardinality(Held(x)) = Cardinality(Held(x)') + Share(x, data[t])
<1>1. CASE x = data[t]
  <2>1. Held(x)' = Held(x) \ {t} /\ t \in Held(x)
    BY <1>1 DEF Held
  <2>2. Cardinality(Held(x)') = Cardinality(Held(x)) - 1
    BY <2>1, HeldFinite, FS_RemoveElement
  <2> QED BY <1>1, <2>2, HeldFinite DEF Share
<1>2. CASE x # data[t]
  <2>1. Held(x)' = Held(x)
    BY <1>2 DEF Held
  <2> QED BY <1>2, <2>1, HeldFinite DEF Share
<1> QED BY <1>1, <1>2

LEMMA MemoryStep ==
    ASSUME Sound, Sound', Control, EndsAreLast, Places, Memory, [TestNext]_testVars
    PROVE  Memory'
<1>0. /\ phase \in [Threads -> {"idle", "push", "pop", "free"}]
      /\ data \in [Threads -> Data \cup {NULL}]
      /\ Items \in Seq(Data \cup {NULL}) /\ Len(Items) \in Nat
  BY ViewTypes
<1>1. /\ \A t \in Producers : t \in Threads
      /\ \A t \in Consumers : t \in Threads
      /\ Main \in Threads /\ EOS \in Data
  BY ThreadFacts
<1>2. \A x \in Data : /\ Slots(x) = Positions(Items, x)
                      /\ Slots(x)' = Positions(Items', x)
                      /\ Cardinality(Slots(x)) \in Nat
                      /\ Cardinality(Held(x)) \in Nat
                      /\ memory[x] = Cardinality(Slots(x)) + Cardinality(Held(x)) + refused[x]
                      /\ refused[x] \in Nat
  <2> SUFFICES ASSUME NEW x \in Data
               PROVE  /\ Slots(x) = Positions(Items, x)
                      /\ Slots(x)' = Positions(Items', x)
                      /\ Cardinality(Slots(x)) \in Nat
                      /\ Cardinality(Held(x)) \in Nat
                      /\ memory[x] = Cardinality(Slots(x)) + Cardinality(Held(x)) + refused[x]
                      /\ refused[x] \in Nat
    OBVIOUS
  <2>1. Slots(x) = Positions(Items, x) /\ Slots(x)' = Positions(Items', x)
    BY DEF Slots, Positions
  <2>2. Cardinality(Slots(x)) \in Nat
    BY <1>0, <2>1, PositionsFinite
  <2>3. Cardinality(Held(x)) \in Nat
    BY HeldFinite
  <2> QED BY <2>1, <2>2, <2>3 DEF Memory
<1>3. ASSUME NEW t \in Threads, NEW d \in Data, Calls(t, d) PROVE Memory'
  <2>1. /\ Items' = Items /\ refused' = refused
        /\ memory' = [memory EXCEPT ![d] = @ + 1]
        /\ phase[t] = "idle" /\ phase'[t] = "push" /\ data'[t] = d
        /\ \A s \in Threads : s # t => phase'[s] = phase[s] /\ data'[s] = data[s]
    BY <1>0, <1>3 DEF Calls, NewData
  <2>2. \A x \in Data : Cardinality(Held(x)') = Cardinality(Held(x)) + Share(x, d)
    BY <1>0, <2>1, HeldMore
  <2>3. \A x \in Data : memory'[x] = memory[x] + Share(x, d)
    BY <2>1 DEF Memory, Share
  <2>4. ASSUME NEW x \in Data
        PROVE  memory'[x] = Cardinality(Slots(x)') + Cardinality(Held(x)') + refused'[x]
    <3>1. Slots(x)' = Slots(x)
      BY <2>1 DEF Slots
    <3> QED BY <1>2, <2>1, <2>2, <2>3, <3>1 DEF Share
  <2>5. memory' \in [Data -> Nat]
    BY <2>1 DEF Memory
  <2> QED BY <2>1, <2>4, <2>5 DEF Memory
<1>4. ASSUME NEW t \in Threads, Puts(t), data[t] \in Data, UNCHANGED heap PROVE Memory'
  <2>1. /\ Items' = Append(Items, data[t]) /\ data' = data
        /\ memory' = memory /\ refused' = refused
        /\ phase[t] = "push" /\ phase'[t] = "idle"
        /\ \A s \in Threads : s # t => phase'[s] = phase[s]
    BY <1>0, <1>4 DEF Puts, heap
  <2>2. \A x \in Data : Cardinality(Held(x)) = Cardinality(Held(x)') + Share(x, data[t])
    BY <1>0, <2>1, HeldLess
  <2>3. \A x \in Data : Cardinality(Slots(x)') = Cardinality(Slots(x)) + Share(x, data[t])
    BY <1>0, <1>2, <1>4, <2>1, CountAppend
  <2>4. ASSUME NEW x \in Data
        PROVE  memory'[x] = Cardinality(Slots(x)') + Cardinality(Held(x)') + refused'[x]
    <3>1. Cardinality(Held(x)') \in Nat
      <4>1. Held(x)' \subseteq Threads
        BY DEF Held
      <4> QED BY <4>1, Finiteness, FS_Subset, FS_CardinalityType
    <3> QED BY <1>2, <2>1, <2>2, <2>3, <3>1 DEF Share
  <2> QED BY <2>1, <2>4 DEF Memory
<1>5. ASSUME NEW t \in Consumers, Pops(t) PROVE Memory'
  <2>1. /\ Items' = Items /\ memory' = memory /\ refused' = refused
        /\ phase[t] = "idle" /\ phase'[t] = "pop" /\ t \in Threads
        /\ \A s \in Threads : s # t => phase'[s] = phase[s] /\ data'[s] = data[s]
    BY <1>0, <1>1, <1>5 DEF Pops, heap
  <2>2. \A x \in Data : Slots(x)' = Slots(x) /\ Held(x)' = Held(x)
    BY <2>1 DEF Slots, Held
  <2> QED BY <2>1, <2>2 DEF Memory
<1>6. ASSUME NEW t \in Consumers, Takes(t) PROVE Memory'
  <2>0. Head(Items) \in Data
    <3>1. Head(Items) = Items[1] /\ 1 \in 1 .. Len(Items)
      BY <1>0, <1>6, TailFacts DEF Takes
    <3> QED BY <3>1 DEF Places
  <2>1. /\ Items # <<>> /\ Items' = Tail(Items) /\ data'[t] = Head(Items)
        /\ memory' = memory /\ refused' = refused
        /\ phase[t] = "pop" /\ phase'[t] = "free" /\ t \in Threads
        /\ \A s \in Threads : s # t => phase'[s] = phase[s] /\ data'[s] = data[s]
    BY <1>0, <1>1, <1>6 DEF Takes, heap
  <2>2. \A x \in Data : Cardinality(Held(x)') = Cardinality(Held(x)) + Share(x, Head(Items))
    BY <1>0, <2>1, HeldMore
  <2>3. \A x \in Data : Cardinality(Slots(x)) = Cardinality(Slots(x)') + Share(x, Head(Items))
    BY <1>0, <1>2, <2>1, CountTail
  <2>4. ASSUME NEW x \in Data
        PROVE  memory'[x] = Cardinality(Slots(x)') + Cardinality(Held(x)') + refused'[x]
    <3>1. Cardinality(Slots(x)') \in Nat
      <4>1. Tail(Items) \in Seq(Data \cup {NULL})
        BY <1>0, <2>1
      <4> QED BY <1>2, <2>1, <4>1, PositionsFinite
    <3> QED BY <1>2, <2>1, <2>2, <2>3, <3>1 DEF Share
  <2> QED BY <2>1, <2>4 DEF Memory
<1>7. ASSUME NEW t \in Consumers, Frees(t) PROVE Memory'
  <2>0. t \in Threads /\ data[t] \in Data
    BY <1>1, <1>7 DEF Frees, Places
  <2>1. /\ Items' = Items /\ data' = data /\ refused' = refused
        /\ memory' = [memory EXCEPT ![data[t]] = @ - 1]
        /\ phase[t] = "free" /\ phase'[t] = "idle"
        /\ \A s \in Threads : s # t => phase'[s] = phase[s]
    BY <1>0, <1>7, <2>0 DEF Frees, FreeData
  <2>2. \A x \in Data : Cardinality(Held(x)) = Cardinality(Held(x)') + Share(x, data[t])
    BY <1>0, <2>0, <2>1, HeldLess
  <2>3. \A x \in Data : memory'[x] = memory[x] - Share(x, data[t]) /\ memory[x] \in Nat
    BY <2>0, <2>1 DEF Memory, Share
  <2>4. ASSUME NEW x \in Data
        PROVE  /\ memory'[x] = Cardinality(Slots(x)') + Cardinality(Held(x)') + refused'[x]
               /\ memory'[x] \in Nat
    <3>1. Cardinality(Held(x)') \in Nat
      <4>1. Held(x)' \subseteq Threads
        BY DEF Held
      <4> QED BY <4>1, Finiteness, FS_Subset, FS_CardinalityType
    <3>2. Slots(x)' = Slots(x)
      BY <2>1 DEF Slots
    <3> QED BY <1>2, <2>1, <2>2, <2>3, <3>1, <3>2 DEF Share
  <2>5. memory' \in [Data -> Nat]
    BY <2>1, <2>4 DEF Memory
  <2> QED BY <2>1, <2>4, <2>5 DEF Memory
<1>8. CASE OtherSteps
  <2>1. \A x \in Data : Slots(x)' = Slots(x) /\ Held(x)' = Held(x)
    BY <1>8 DEF OtherSteps, Unseen, Slots, Held
  <2>2. CASE UNCHANGED heap
    BY <2>1, <2>2 DEF heap, Memory
  <2>3. ASSUME NEW d \in Data, NewData(d), Refuse(d) PROVE Memory'
    <3>1. memory' \in [Data -> Nat] /\ refused' \in [Data -> Nat]
      BY <2>3 DEF NewData, Refuse, Memory
    <3>2. \A x \in Data : /\ memory'[x] = memory[x] + Share(x, d)
                          /\ refused'[x] = refused[x] + Share(x, d)
      BY <2>3 DEF NewData, Refuse, Memory, Share
    <3>3. \A x \in Data : memory'[x] = Cardinality(Slots(x)') + Cardinality(Held(x)') + refused'[x]
      BY <1>2, <2>1, <3>2 DEF Share
    <3> QED BY <3>1, <3>3 DEF Memory
  <2> QED BY <1>8, <2>2, <2>3 DEF OtherSteps
<1>9. ASSUME NEW t \in Producers, i[t] < interval[t].stop, Calls(t, i[t]) PROVE Memory'
  BY <1>1, <1>3, <1>9, NextMessage, ThreadFacts
<1>10. ASSUME NEW t \in Producers, Puts(t), UNCHANGED heap PROVE Memory'
  <2>1. data[t] = i[t] /\ i[t] < interval[t].stop
    BY <1>10 DEF Puts, Control
  <2> QED BY <1>1, <1>4, <1>10, <2>1, NextMessage, ThreadFacts
<1>11. CASE MainPuts
  BY <1>1, <1>4, <1>11 DEF MainPuts, Puts, Control
<1> QED
  BY <1>1, <1>3, <1>5, <1>6, <1>7, <1>8, <1>9, <1>10, <1>11, ViewStep
  DEF ProducerCalls, ProducerPuts, ConsumerSteps, MainCalls, heap

LEMMA TestInitHolds == TestInit => TestInv
<1> SUFFICES ASSUME TestInit PROVE TestInv
  OBVIOUS
<1>0. PICK dummy \in Nodes :
        /\ head = dummy /\ tail = dummy /\ qlen = 0
        /\ next = [b \in Nodes |-> NULL] /\ item = [b \in Nodes |-> NULL]
        /\ allocated = {dummy}
        /\ pc = [t \in Threads |-> "idle"]
        /\ data = [t \in Threads |-> NULL]
        /\ node = [t \in Threads |-> NULL]
        /\ list = <<dummy>>
  BY DEF TestInit, Init
<1>1. Sound
  <2>1. TypeOK
    BY <1>0 DEF TypeOK
  <2>2. Linked
    BY <1>0 DEF Linked
  <2>3. InList = {dummy} /\ Holders = {}
    BY <1>0 DEF InList, Holders
  <2>4. Owned
    BY <1>0, <2>3 DEF Owned
  <2> QED BY <2>1, <2>2, <2>4 DEF Sound, TestInit
<1>2. /\ Items = <<>> /\ Len(<<>>) = 0
      /\ \A t \in Threads : phase[t] = "idle"
  BY <1>0 DEF Items, phase
<1>3. Control
  <2>1. \A t \in Producers : /\ i[t] = interval[t].start
                             /\ interval[t].start \in Nat
                             /\ interval[t].stop \in Nat
                             /\ interval[t].start <= interval[t].stop
    BY IntervalFacts, ThreadFacts DEF TestInit
  <2>2. i[Main] = 0 /\ i \in [Producers \cup {Main} -> Nat]
    BY <2>1 DEF TestInit
  <2>3. \A t \in Producers : i[t] \in interval[t].start .. interval[t].stop
    BY <2>1
  <2> QED BY <1>2, <2>2, <2>3, ThreadFacts DEF TestInit, Control
<1>4. EndsAreLast
  <2>1. Done = {}
    BY <1>2, ThreadFacts DEF TestInit, Done
  <2>2. Cardinality(Done) = 0
    BY <2>1, FS_EmptySet
  <2>3. 0 \in 0 .. Len(Items) /\ 0 + Cardinality(Done) <= i[Main]
    BY <1>2, <2>2 DEF TestInit
  <2> HIDE DEF Done
  <2> QED BY <1>2, <2>1, <2>3 DEF EndsAreLast
<1>5. Places
  <2>1. Pushed = {}
    <3>1. ASSUME NEW x \in Messages, NEW t \in Producers, interval[t].start <= x, x < i[t]
          PROVE  FALSE
      <4>1. i[t] = interval[t].start /\ interval[t].start \in Nat /\ x \in Nat
        BY IntervalFacts, ThreadFacts DEF TestInit
      <4> QED BY <3>1, <4>1
    <3> QED BY <3>1 DEF Pushed
  <2>2. ASSUME NEW x \in Messages PROVE Placed(x)
    <3>1. Slots(x) = {} /\ Hands(x) = {} /\ Had(x) = {}
      BY <1>2, ThreadFacts DEF TestInit, Slots, Hands, Had
    <3> QED BY <2>1, <3>1 DEF Placed
  <2> QED BY <1>2, <2>2, ThreadFacts DEF TestInit, Places
<1>6. Memory
  <2>1. ASSUME NEW x \in Data PROVE Slots(x) = {} /\ Held(x) = {}
    BY <1>2 DEF Slots, Held
  <2>2. ASSUME NEW x \in Data
        PROVE  memory[x] = Cardinality(Slots(x)) + Cardinality(Held(x)) + refused[x]
    <3>1. Cardinality(Slots(x)) = 0 /\ Cardinality(Held(x)) = 0
      BY <2>1, FS_EmptySet
    <3> QED BY <3>1 DEF TestInit
  <2> QED BY <2>2 DEF TestInit, Memory
<1> QED BY <1>1, <1>3, <1>4, <1>5, <1>6 DEF TestInv

(* The inductive invariant of testQueue.c: the queue is sound until it is  *)
(* deleted, the EOS are behind the messages, each message pushed is in one *)
(* place, and the numbers in use are those in the list, in the hands of a  *)
(* thread or abandoned by a failed push.                                   *)
THEOREM TestInvCorrect == TestSpec => []TestInv
<1>1. TestInv /\ [TestNext]_testVars => TestInv'
  BY SoundStep, ControlStep, EndsStep, PlacesStep, MemoryStep DEF TestInv
<1> QED BY TestInitHolds, <1>1, PTL DEF TestSpec

(* Also in the program that ends by deleting the queue no block is used    *)
(* after it is freed, freed twice or lost, and the list is never broken.   *)
THEOREM TestList == TestSpec => []ListInv
<1>1. TestInv => ListInv
  BY DEF TestInv, Sound, ListInv
<1> QED BY <1>1, TestInvCorrect, PTL

(* No consumer of testQueue.c sleeps beside a message.                     *)
THEOREM TestWakeup == TestSpec => []WakeupInv
<1>1. TestInit => WakeupInv
  BY DEF TestInit, Init, WakeupInv, Waiting
<1>2. TestInv /\ TestInv' /\ WakeupInv /\ [TestNext]_testVars => WakeupInv'
  <2> SUFFICES ASSUME TestInv, TestInv', WakeupInv, [TestNext]_testVars PROVE WakeupInv'
    OBVIOUS
  <2>1. CASE MainDelete
    <3>1. \A t \in Threads : pc[t] = "idle" /\ pc' = pc
      BY <2>1, DeleteStep, PhaseFacts DEF TestInv, Sound
    <3> QED BY <3>1 DEF WakeupInv, Waiting
  <2>2. CASE [Next]_vars /\ step # "deleted"
    BY <2>2, WakeupStep DEF TestInv, Sound
  <2>3. CASE UNCHANGED testVars
    BY <2>3 DEF testVars, vars, WakeupInv, Waiting, Consuming
  <2> QED BY <2>1, <2>2, <2>3, QueueStep, AfterDelete DEF TestInv
<1> QED BY <1>1, <1>2, TestInvCorrect, PTL DEF TestSpec

(* testQueue.c, seen from outside, is a use of the abstract FIFO queue:    *)
(* deleting it at the end loses nothing.                                   *)
THEOREM TestImplementsFifo == TestSpec => ImplementsFifo
<1>1. TestInit => Fifo!Init
  <2> SUFFICES ASSUME TestInit PROVE Fifo!Init
    OBVIOUS
  <2>1. Items = << >>
    BY DEF TestInit, Init, Items
  <2> QED BY <2>1 DEF TestInit, Init, Op, Fifo!Init
<1>2. TestInv /\ TestInv' /\ [TestNext]_testVars => [Fifo!Next]_(Fifo!vars)
  <2> SUFFICES ASSUME TestInv, TestInv', [TestNext]_testVars
               PROVE  [Fifo!Next]_(Fifo!vars)
    OBVIOUS
  <2>1. ASSUME UNCHANGED <<Items, Op, data>> PROVE UNCHANGED Fifo!vars
    BY <2>1 DEF Fifo!vars
  <2>2. CASE UNCHANGED testVars
    BY <2>1, <2>2, SameItems DEF testVars, vars, Op
  <2>3. CASE MainDelete
    <3>1. qlen = 0 /\ qlen' = 0 /\ pc' = pc /\ data' = data
      BY <2>3, DeleteStep, DeleteEmpty DEF TestInv
    <3>2. Items' = Items /\ Op' = Op
      BY <3>1 DEF Items, Op
    <3> QED BY <2>1, <3>1, <3>2
  <2>4. CASE TestNext /\ ~MainDelete /\ step # "deleted"
    <3>1. [Next]_vars
      BY <2>4, QueueStep DEF TestInv
    <3>2. Inv
      BY <2>4 DEF TestInv, Sound, Inv
    <3>3. Inv'
      BY <3>1, <3>2, TypeStep, LinkedStep, OwnedStep DEF Inv
    <3> QED BY <3>1, <3>2, <3>3, FifoStep
  <2> QED BY <2>2, <2>3, <2>4, AfterDelete DEF TestInv
<1> QED BY <1>1, <1>2, TestInvCorrect, PTL DEF TestSpec, ImplementsFifo, Fifo!Spec

(* Whatever the interleaving, each message pushed is in the list, in the   *)
(* hands of one consumer or consumed once; when main has deleted the queue *)
(* are consumed, every node has been freed, and the only numbers left are  *)
(* those of the pushes that failed.                                        *)
THEOREM TestExactlyOnce == TestSpec => []ExactlyOnce
<1>1. ASSUME TestInv, NEW x \in Messages
      PROVE  Cardinality({k \in 1 .. qlen : Items[k] = x})
               + Cardinality({t \in Consumers : InHand(t) /\ data[t] = x})
               + Cardinality({t \in Consumers : x \in got[t]})
             = IF x \in Pushed THEN 1 ELSE 0
  <2>1. {k \in 1 .. qlen : Items[k] = x} = Slots(x)
    <3>1. CASE step # "deleted"
      BY <1>1, <3>1, ItemsSequence DEF TestInv, Sound, Slots
    <3>2. CASE step = "deleted"
      <4>1. qlen = 0
        BY <1>1, <3>2 DEF TestInv, Sound
      <4>2. Items = <<>> /\ Len(<<>>) = 0
        BY <4>1 DEF Items
      <4> QED BY <4>1, <4>2 DEF Slots
    <3> QED BY <3>1, <3>2
  <2>2. {t \in Consumers : InHand(t) /\ data[t] = x} = Hands(x)
    BY <1>1, PhaseFacts, ThreadFacts DEF TestInv, Sound, InHand, Hands
  <2>3. {t \in Consumers : x \in got[t]} = Had(x)
    BY DEF Had
  <2>4. Placed(x)
    BY <1>1 DEF TestInv, Places
  <2>5. Cardinality({}) = 0 /\ \A k : Cardinality({k}) = 1
    BY FS_EmptySet, FS_Singleton
  <2>6. Cardinality(Slots(x)) + Cardinality(Hands(x)) + Cardinality(Had(x))
        = IF x \in Pushed THEN 1 ELSE 0
    <3>1. ASSUME NEW S, S = {} \/ \E k \in S : S = {k}
          PROVE  Cardinality(S) = IF S = {} THEN 0 ELSE 1
      <4>1. CASE S = {}
        BY <2>5, <4>1
      <4>2. CASE S # {}
        <5>1. PICK k : S = {k}
          BY <3>1, <4>2
        <5>2. Cardinality(S) = 1
          BY <2>5, <5>1, Zenon
        <5> QED BY <4>2, <5>2
      <4> QED BY <4>1, <4>2
    <3>2. /\ Slots(x) = {} \/ \E k \in Slots(x) : Slots(x) = {k}
          /\ Hands(x) = {} \/ \E k \in Hands(x) : Hands(x) = {k}
          /\ Had(x) = {} \/ \E k \in Had(x) : Had(x) = {k}
      BY <2>4, Zenon DEF Placed
    <3>3. /\ Cardinality(Slots(x)) = IF Slots(x) = {} THEN 0 ELSE 1
          /\ Cardinality(Hands(x)) = IF Hands(x) = {} THEN 0 ELSE 1
          /\ Cardinality(Had(x)) = IF Had(x) = {} THEN 0 ELSE 1
      BY <3>1, <3>2
    <3>4. IF x \in Pushed
          THEN \/ Slots(x) # {} /\ Hands(x) = {} /\ Had(x) = {}
               \/ Slots(x) = {} /\ Hands(x) # {} /\ Had(x) = {}
               \/ Slots(x) = {} /\ Hands(x) = {} /\ Had(x) # {}
          ELSE Slots(x) = {} /\ Hands(x) = {} /\ Had(x) = {}
      BY <2>4, Zenon DEF Placed
    <3> QED BY <3>3, <3>4
  <2> QED BY <2>1, <2>2, <2>3, <2>6
<1>2. ASSUME TestInv, step = "deleted"
      PROVE  Pushed = UNION {got[t] : t \in Consumers} /\ allocated = {} /\ memory = refused
  <2>1. /\ qlen = 0 /\ allocated = {}
        /\ \A t \in Consumers : phase[t] = "idle"
    BY <1>2, ThreadFacts DEF TestInv, Sound, Control
  <2>2. Items = <<>> /\ Len(<<>>) = 0
    BY <2>1 DEF Items
  <2>3. ASSUME NEW x \in Messages
        PROVE  x \in Pushed <=> \E t \in Consumers : x \in got[t]
    <3>1. Slots(x) = {} /\ Hands(x) = {}
      BY <2>1, <2>2 DEF Slots, Hands
    <3>2. Placed(x)
      BY <1>2 DEF TestInv, Places
    <3> QED BY <3>1, <3>2 DEF Placed, Had
  <2>4. Pushed \subseteq Messages /\ \A t \in Consumers : got[t] \subseteq Messages
    BY <1>2 DEF TestInv, Places, Pushed
  <2>5. \A t \in Threads : phase[t] = "idle"
    BY <1>2 DEF TestInv, Control
  <2>6. ASSUME NEW x \in Data PROVE memory[x] = refused[x]
    <3>1. Slots(x) = {} /\ Held(x) = {}
      BY <2>2, <2>5 DEF Slots, Held
    <3>2. Cardinality(Slots(x)) = 0 /\ Cardinality(Held(x)) = 0
      BY <3>1, FS_EmptySet
    <3> QED BY <1>2, <3>2 DEF TestInv, Memory
  <2>7. memory = refused
    BY <1>2, <2>6 DEF TestInv, Memory
  <2> QED BY <2>1, <2>3, <2>4, <2>7
<1>3. TestInv => ExactlyOnce
  BY <1>1, <1>2 DEF ExactlyOnce
<1> QED BY <1>3, TestInvCorrect, PTL
=============================================================================
