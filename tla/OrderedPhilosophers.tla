------------------------ MODULE OrderedPhilosophers ------------------------
(***************************************************************************)
(* lez7/es7/filosofi.c: N philosophers and N forks, one mutex per fork.    *)
(* The whole dinner lasts ITER meals, taken from a shared counter by an    *)
(* atomic decrement.  A philosopher locks the fork with the higher index   *)
(* first (the branch of the #if that is compiled).                         *)
(*                                                                         *)
(* main's loops only create the threads and join them: a thread that has   *)
(* not been created yet is one that has not made its first step.           *)
(***************************************************************************)
EXTENDS Integers, FiniteSets, Functions

CONSTANTS N,        \* philosophers, and forks
          ITER      \* durata della cena, 2000 in the source

\* With N = 1 both forks are the same mutex.
ASSUME DinnerAssumption == N \in Nat \ {0} /\ ITER \in Nat \ {0}

Philosophers == 1 .. N
Forks == 0 .. N - 1
NoOne == 0      \* owner of a free fork

VARIABLES iter,     \* the static counter ITER, which goes down to -N
          fork,     \* the philosopher who owns each fork, or NoOne
          pc,       \* program counter of each philosopher
          mangia    \* mangia[id]: the meals id has had

vars == <<iter, fork, pc, mangia>>

left(id) == id % N
right(id) == id - 1

\* Fault: everybody takes the left fork first.
LeftFirst(id) == FALSE

\* if (left < right) destra is locked first, otherwise sinistra.
RightFirst(id) == left(id) < right(id)
First(id) == IF RightFirst(id) THEN right(id) ELSE left(id)
Second(id) == IF RightFirst(id) THEN left(id) ELSE right(id)

\* Fault: mangia is not initialised.
InitGarbage == /\ iter = ITER
               /\ fork = [f \in Forks |-> NoOne]
               /\ pc = [id \in Philosophers |-> "loop"]
               /\ mangia = [id \in Philosophers |-> -1]

Init == /\ iter = ITER
        /\ fork = [f \in Forks |-> NoOne]
        /\ pc = [id \in Philosophers |-> "loop"]
        /\ mangia = [id \in Philosophers |-> 0]

\* Fault: the new value is returned, as in the branch that is not compiled.
DecNewValue(id) ==
    /\ pc[id] = "loop"
    /\ iter' = iter - 1
    /\ pc' = [pc EXCEPT ![id] = IF iter - 1 <= 0 THEN "exit" ELSE "think"]
    /\ UNCHANGED <<fork, mangia>>

\* atomicDec returns the old value: the philosopher stays if it was positive.
atomicDec(id) ==
    /\ pc[id] = "loop"
    /\ iter' = iter - 1
    /\ pc' = [pc EXCEPT ![id] = IF iter <= 0 THEN "exit" ELSE "think"]
    /\ UNCHANGED <<fork, mangia>>

\* Pensa is over: LOCK of the first fork.
TakeFirst(id) ==
    /\ pc[id] = "think"
    /\ fork[First(id)] = NoOne
    /\ fork' = [fork EXCEPT ![First(id)] = id]
    /\ pc' = [pc EXCEPT ![id] = "second"]
    /\ UNCHANGED <<iter, mangia>>

\* LOCK of the second fork, ++mangia, Mangia.
TakeSecond(id) ==
    /\ pc[id] = "second"
    /\ fork[Second(id)] = NoOne
    /\ fork' = [fork EXCEPT ![Second(id)] = id]
    /\ pc' = [pc EXCEPT ![id] = "eat"]
    /\ mangia' = [mangia EXCEPT ![id] = @ + 1]
    /\ UNCHANGED iter

\* Faults: the wrong fork is put down, or none.
DropWrong(id) ==
    /\ pc[id] = "eat"
    /\ fork' = [fork EXCEPT ![First(id)] = NoOne]
    /\ pc' = [pc EXCEPT ![id] = "release"]
    /\ UNCHANGED <<iter, mangia>>
DropNone(id) ==
    /\ pc[id] = "eat"
    /\ pc' = [pc EXCEPT ![id] = "release"]
    /\ UNCHANGED <<iter, fork, mangia>>

\* The forks are unlocked in the opposite order.
DropSecond(id) ==
    /\ pc[id] = "eat"
    /\ fork' = [fork EXCEPT ![Second(id)] = NoOne]
    /\ pc' = [pc EXCEPT ![id] = "release"]
    /\ UNCHANGED <<iter, mangia>>

DropFirst(id) ==
    /\ pc[id] = "release"
    /\ fork' = [fork EXCEPT ![First(id)] = NoOne]
    /\ pc' = [pc EXCEPT ![id] = "loop"]
    /\ UNCHANGED <<iter, mangia>>

\* Every thread has exited and main has joined them.
AllExited == \A id \in Philosophers : pc[id] = "exit"
Terminated == AllExited /\ UNCHANGED vars

Next == \/ \E id \in Philosophers : \/ atomicDec(id)
                                    \/ TakeFirst(id)
                                    \/ TakeSecond(id)
                                    \/ DropSecond(id)
                                    \/ DropFirst(id)
        \/ Terminated

(* The only fairness is that the program runs while some thread can: who   *)
(* gets a free fork, or the processor, is arbitrary.                       *)
Spec == Init /\ [][Next]_vars /\ WF_vars(Next)
-----------------------------------------------------------------------------
TypeOK ==
    /\ iter \in Int
    /\ fork \in [Forks -> Philosophers \cup {NoOne}]
    /\ pc \in [Philosophers -> {"loop", "think", "second", "eat",
                                "release", "exit"}]
    /\ mangia \in [Philosophers -> Nat]

\* The forks that a philosopher holds, by where he is in the loop.
Held(id) == CASE pc[id] \in {"second", "release"} -> {First(id)}
              [] pc[id] = "eat" -> {First(id), Second(id)}
              [] OTHER -> {}

(* A fork is locked by the philosopher who is in the part of the loop in   *)
(* which he uses it, and only then: nobody leaves with a fork and nobody   *)
(* unlocks a fork of another.                                              *)
ForksInv ==
    \A id \in Philosophers, f \in Forks : fork[f] = id <=> f \in Held(id)

\* Two philosophers who share a fork never eat at the same time.
NeighboursDontEat ==
    \A i, j \in Philosophers :
        /\ pc[i] = "eat" /\ pc[j] = "eat" /\ i # j
        => {First(i), Second(i)} \cap {First(j), Second(j)} = {}

\* The philosopher is not blocked in a LOCK.
CanMove(id) == \/ pc[id] \in {"loop", "eat", "release"}
               \/ pc[id] = "think" /\ fork[First(id)] = NoOne
               \/ pc[id] = "second" /\ fork[Second(id)] = NoOne

(* There is no circular wait: until all have left, some philosopher is not *)
(* waiting for a fork.                                                     *)
SomeoneCanMove == AllExited \/ \E id \in Philosophers : CanMove(id)

(* The dinner is exactly ITER meals, whoever eats them: each decrement of  *)
(* a positive counter is a meal had or about to be had, each further one   *)
(* is a philosopher who leaves.                                            *)
MealsAccounting ==
    LET about == {id \in Philosophers : pc[id] \in {"think", "second"}}
        left_table == {id \in Philosophers : pc[id] = "exit"}
        taken == SumFunction(mangia) + Cardinality(about)
    IN  iter = ITER - taken - Cardinality(left_table)
        /\ (iter > 0 => left_table = {})
        /\ (left_table # {} => taken = ITER)

\* The dinner ends, with no assumption on who is scheduled.
DinnerEnds == <>AllExited
=============================================================================
