---------------------------- MODULE BoundedFifo ----------------------------
(***************************************************************************)
(* What a bounded blocking queue promises to the threads that share it,    *)
(* whatever its implementation: a push takes effect once, at one instant   *)
(* between its call and its return, on a queue with a free place; a pop    *)
(* returns the oldest element.  boundedqueue.h documents push and pop in   *)
(* these terms ("Inserisce un dato nella coda", "Estrae un dato dalla      *)
(* coda").                                                                 *)
(***************************************************************************)
EXTENDS Naturals, Sequences

CONSTANTS Threads,    \* the threads that may call push and pop
          Data,       \* the (non-null) pointers that may be pushed
          NULL,       \* the null pointer
          Capacity    \* how many elements the queue holds

VARIABLES items,      \* the elements in the queue, oldest first
          op,         \* op[t]: the operation thread t is in, or "idle"
          val         \* val[t]: the argument of t's push, the result of t's pop

vars == <<items, op, val>>

Init == /\ items = <<>>
        /\ op = [t \in Threads |-> "idle"]
        /\ val = [t \in Threads |-> NULL]

CallPush(t, d) ==
    /\ op[t] = "idle"
    /\ op' = [op EXCEPT ![t] = "push"]
    /\ val' = [val EXCEPT ![t] = d]
    /\ UNCHANGED items

CallPop(t) ==
    /\ op[t] = "idle"
    /\ op' = [op EXCEPT ![t] = "pop"]
    /\ val' = [val EXCEPT ![t] = NULL]
    /\ UNCHANGED items

Push(t) ==
    /\ op[t] = "push"
    /\ Len(items) < Capacity
    /\ items' = Append(items, val[t])
    /\ op' = [op EXCEPT ![t] = "idle"]
    /\ UNCHANGED val

Pop(t) ==
    /\ op[t] = "pop"
    /\ items # <<>>
    /\ items' = Tail(items)
    /\ val' = [val EXCEPT ![t] = Head(items)]
    /\ op' = [op EXCEPT ![t] = "idle"]

Next == \E t \in Threads : \/ \E d \in Data : CallPush(t, d)
                           \/ CallPop(t)
                           \/ Push(t)
                           \/ Pop(t)

Spec == Init /\ [][Next]_vars
=============================================================================
