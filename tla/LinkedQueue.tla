---------------------------- MODULE LinkedQueue ----------------------------
(***************************************************************************)
(* lez8/es8/queue.c: an unbounded queue, a linked list whose first node is *)
(* a dummy, with one mutex qlock and one condition variable qcond on which *)
(* consumers wait.  Nodes are allocated before qlock is taken by push and  *)
(* freed after it is released by pop.                                      *)
(*                                                                         *)
(* Whatever is done with qlock held is one step: every access to the list  *)
(* takes qlock, and the only way out in between is the wait.  The callers  *)
(* are arbitrary threads; TestQueue is the program that tests the queue.   *)
(***************************************************************************)
EXTENDS Integers, Sequences, FiniteSets

CONSTANTS Threads,      \* threads of the program
          Data,         \* non-null pointers the program pushes
          Nodes,        \* blocks of memory that malloc can give for a Node_t
          NULL          \* the null pointer

ASSUME QueueAssumption == NULL \notin Data \cup Nodes
ASSUME Finiteness == IsFiniteSet(Threads) /\ IsFiniteSet(Nodes)

VARIABLES head, tail, qlen,     \* fields of the queue
          next, item,           \* fields next and data of every node
          allocated,            \* the blocks in use
          pc,                   \* program counter of each thread
          data,                 \* the argument of a push, the result of a pop
          node,                 \* the local n of push and of pop
          list      \* auxiliary: the nodes from head to tail, none once
                                \* the queue is deleted; see Linked

vars == <<head, tail, qlen, next, item, allocated, pc, data, node, list>>
queueVars == <<head, tail, qlen, next, item, list>>

Waiting == {t \in Threads : pc[t] = "wait"}

\* initQueue: an empty list is the dummy alone.
Init == \E dummy \in Nodes :
            /\ head = dummy
            /\ tail = dummy
            /\ qlen = 0
            /\ next = [n \in Nodes |-> NULL]
            /\ item = [n \in Nodes |-> NULL]
            /\ allocated = {dummy}
            /\ pc = [t \in Threads |-> "idle"]
            /\ data = [t \in Threads |-> NULL]
            /\ node = [t \in Threads |-> NULL]
            /\ list = <<dummy>>

\* push(q, d): the node n is allocated and filled; a null d is refused.
PushCall(t, d, n) ==
    /\ pc[t] = "idle"
    /\ d # NULL
    /\ n \notin allocated
    /\ allocated' = allocated \cup {n}
    /\ item' = [item EXCEPT ![n] = d]
    /\ next' = [next EXCEPT ![n] = NULL]
    /\ node' = [node EXCEPT ![t] = n]
    /\ data' = [data EXCEPT ![t] = d]
    /\ pc' = [pc EXCEPT ![t] = "push"]
    /\ UNCHANGED <<head, tail, qlen, list>>

\* Fault: a signal only when the list was empty.
SignalIfEmpty(t) ==
    LET waiting == IF head = tail THEN Waiting ELSE {}
    IN  \/ waiting = {} /\ pc' = [pc EXCEPT ![t] = "idle"]
        \/ \E w \in waiting : pc' = [pc EXCEPT ![t] = "idle", ![w] = "pop"]

\* UnlockQueueAndSignal: one of those who wait goes back to the while test.
SignalAndReturn(t) ==
    \/ Waiting = {} /\ pc' = [pc EXCEPT ![t] = "idle"]
    \/ \E w \in Waiting : pc' = [pc EXCEPT ![t] = "idle", ![w] = "pop"]

\* The node is linked at the tail.
Put(t) ==
    /\ pc[t] = "push"
    /\ next' = [next EXCEPT ![tail] = node[t]]
    /\ tail' = node[t]
    /\ qlen' = qlen + 1
    /\ node' = [node EXCEPT ![t] = NULL]
    /\ list' = Append(list, node[t])
    /\ SignalAndReturn(t)
    /\ UNCHANGED <<head, item, allocated, data>>

PopCall(t) ==
    /\ pc[t] = "idle"
    /\ pc' = [pc EXCEPT ![t] = "pop"]
    /\ data' = [data EXCEPT ![t] = NULL]
    /\ UNCHANGED <<queueVars, allocated, node>>

\* while (q->head == q->tail) UnlockQueueAndWait(q)
Wait(t) ==
    /\ pc[t] = "pop"
    /\ head = tail
    /\ pc' = [pc EXCEPT ![t] = "wait"]
    /\ UNCHANGED <<queueVars, allocated, data, node>>

\* Fault: the new dummy is freed instead of the old one.
TakeNext(t) ==
    /\ pc[t] = "pop"
    /\ head # tail
    /\ node' = [node EXCEPT ![t] = next[head]]
    /\ data' = [data EXCEPT ![t] = item[next[head]]]
    /\ head' = next[head]
    /\ qlen' = qlen - 1
    /\ list' = Tail(list)
    /\ pc' = [pc EXCEPT ![t] = "free"]
    /\ UNCHANGED <<tail, next, item, allocated>>

\* Fault: the element of the dummy is returned.
TakeDummy(t) ==
    /\ pc[t] = "pop" /\ head # tail
    /\ node' = [node EXCEPT ![t] = head]
    /\ data' = [data EXCEPT ![t] = item[head]]
    /\ head' = next[head]
    /\ qlen' = qlen - 1
    /\ list' = Tail(list)
    /\ pc' = [pc EXCEPT ![t] = "free"]
    /\ UNCHANGED <<tail, next, item, allocated>>

\* The first node is unlinked, and the next one becomes the dummy.
Take(t) ==
    /\ pc[t] = "pop"
    /\ head # tail
    /\ node' = [node EXCEPT ![t] = head]
    /\ data' = [data EXCEPT ![t] = item[next[head]]]
    /\ head' = next[head]
    /\ qlen' = qlen - 1
    /\ list' = Tail(list)
    /\ pc' = [pc EXCEPT ![t] = "free"]
    /\ UNCHANGED <<tail, next, item, allocated>>

\* freeNode(n), with qlock released, and the return of pop.
FreeNode(t) ==
    /\ pc[t] = "free"
    /\ allocated' = allocated \ {node[t]}
    /\ node' = [node EXCEPT ![t] = NULL]
    /\ pc' = [pc EXCEPT ![t] = "idle"]
    /\ UNCHANGED <<queueVars, data>>

\* pthread_cond_wait may return although nobody signalled.
SpuriousWakeup(t) ==
    /\ pc[t] = "wait"
    /\ pc' = [pc EXCEPT ![t] = "pop"]
    /\ UNCHANGED <<queueVars, allocated, data, node>>

\* deleteQueue, when no thread uses the queue: the nodes are freed from head
\* to tail.
deleteQueue ==
    /\ allocated' = allocated \ {list[k] : k \in 1 .. Len(list)}
    /\ list' = <<>>
    /\ UNCHANGED <<head, tail, qlen, next, item, pc, data, node>>

\* What a thread does inside push and pop, once called.
Inside(t) == Put(t) \/ Wait(t) \/ Take(t) \/ FreeNode(t)

Next == \E t \in Threads :
            \/ \E d \in Data \cup {NULL}, n \in Nodes : PushCall(t, d, n)
            \/ PopCall(t)
            \/ Inside(t)
            \/ SpuriousWakeup(t)

Spec == Init /\ [][Next]_vars
-----------------------------------------------------------------------------
TypeOK ==
    /\ head \in Nodes /\ tail \in Nodes
    /\ qlen \in Nat
    /\ next \in [Nodes -> Nodes \cup {NULL}]
    /\ item \in [Nodes -> Data \cup {NULL}]
    /\ allocated \subseteq Nodes
    /\ pc \in [Threads -> {"idle", "push", "pop", "wait", "free"}]
    /\ data \in [Threads -> Data \cup {NULL}]
    /\ node \in [Threads -> Nodes \cup {NULL}]
    /\ list \in Seq(Nodes)

\* The list from head to tail has qlen elements after the dummy, and ends.
Linked ==
    /\ Len(list) = qlen + 1
    /\ head = list[1]
    /\ tail = list[qlen + 1]
    /\ \A k \in 1 .. qlen : next[list[k]] = list[k + 1]
    /\ next[tail] = NULL
    /\ \A j, k \in 1 .. qlen + 1 : list[j] = list[k] => j = k
    /\ \A k \in 2 .. qlen + 1 : item[list[k]] # NULL

\* The threads that hold a node outside the list, and the nodes of the list.
Holders == {t \in Threads : pc[t] \in {"push", "free"}}
InList == {list[k] : k \in 1 .. Len(list)}

\* A block in use is in the list or is held by exactly one thread.
Owned ==
    /\ allocated = InList \cup {node[t] : t \in Holders}
    /\ \A t \in Holders : node[t] \notin InList
    /\ \A s, t \in Holders : node[s] = node[t] => s = t
    /\ \A t \in Threads :
          pc[t] = "push" => /\ data[t] # NULL /\ item[node[t]] = data[t]
                            /\ next[node[t]] = NULL

(* The list is never broken and its memory is right: although nodes are    *)
(* allocated and freed without qlock, nobody reaches a freed node, frees   *)
(* one twice or loses one, and the dummy that a pop frees is not the tail  *)
(* that a push is about to link to.  The asserts of pop (head->next, qlen) *)
(* follow.                                                                 *)
ListInv == (list # <<>> => Linked) /\ Owned

\* The consumers that are about to test the list again, woken or arriving.
Consuming == {t \in Threads : pc[t] = "pop"}

(* One signal per push is enough: while a consumer waits, at least as many *)
(* are awake as there are elements, so none sleeps beside a full list.     *)
WakeupInv == Waiting # {} => Cardinality(Consuming) >= qlen

\* The elements of the queue, oldest first, and the operation t is in: a pop
\* has taken effect once its element is taken.
Items == [k \in 1 .. qlen |-> item[list[k + 1]]]
Op == [t \in Threads |-> IF pc[t] = "push" THEN "push"
                         ELSE IF pc[t] \in {"pop", "wait"} THEN "pop"
                         ELSE "idle"]

(* The linked list implements the FIFO queue of BoundedFifo, bounded only  *)
(* by the memory.                                                          *)
Fifo == INSTANCE BoundedFifo WITH
    Capacity <- Cardinality(Nodes), items <- Items, op <- Op, val <- data

ImplementsFifo == Fifo!Spec
=============================================================================
