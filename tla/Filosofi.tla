------------------------------ MODULE Filosofi ------------------------------
(***************************************************************************)
(* lez7/es2_filosofi.c: NF philosophers, one thread each, eat Rounds times *)
(* with two forks of NF, one mutex per fork.  The philosophers with an     *)
(* even id take the fork on their left first, the odd ones the right one.  *)
(*                                                                         *)
(* main passes every thread the address of its own loop counter i, which   *)
(* the thread reads when it first runs: the id it gets is whatever i is    *)
(* then.  prendiForchette returns no value when it takes both forks; all   *)
(* builds of it leave 0, the result of pthread_mutex_lock, in the return   *)
(* register, which is not -1, so the philosopher goes on to eat.           *)
(***************************************************************************)
EXTENDS Integers

CONSTANTS NF,             \* numero filosofi/forchette
          Rounds,         \* iterations of a philosopher, 100 in the source
          MaxErrors,      \* bound: calls to pthread_mutex_lock and to
                          \* pthread_create that fail
          PromptStart     \* assumption on the scheduler, TRUE or FALSE: a new
                          \* thread reads its argument before main goes on

\* main refuses less than five philosophers.
ASSUME DinnerAssumption == /\ NF \in Nat /\ NF >= 5
                           /\ Rounds \in Nat \ {0}
                           /\ MaxErrors \in Nat
                           /\ PromptStart \in BOOLEAN

Threads == 0 .. NF - 1
Forks == 0 .. NF - 1
NoOne == NF         \* owner of a free mutex

VARIABLES i,        \* main's loop counter, shared with every thread
          step,     \* where main is
          pc,       \* program counter of each thread
          id,       \* the id that each thread has read
          round,    \* iterations that each thread has completed
          mtx,      \* owner of each fork, or NoOne
          errors    \* calls that have failed so far

vars == <<i, step, pc, id, round, mtx, errors>>
mainVars == <<i, step>>

destra(k) == IF k = 0 THEN NF - 1 ELSE k - 1
sinistra(k) == (k + 1) % NF

\* Fault: everybody takes the left fork first.
AllLeft(k) == TRUE

\* The mutexes in the order in which prendiForchette locks them.
LeftFirst(k) == k % 2 = 0
First(k) == IF LeftFirst(k) THEN sinistra(k) ELSE destra(k)
Second(k) == IF LeftFirst(k) THEN destra(k) ELSE sinistra(k)

Init == /\ i = 0
        /\ step = "create"
        /\ pc = [t \in Threads |-> "new"]
        /\ id = [t \in Threads |-> 0]
        /\ round = [t \in Threads |-> 0]
        /\ mtx = [f \in Forks |-> NoOne]
        /\ errors = 0

-----------------------------------------------------------------------------
\* main: pthread_create(&t, NULL, &filosofo, (void*)&i)
MainCreate ==
    /\ step = "create"
    /\ pc' = [pc EXCEPT ![i] = "born"]
    /\ step' = "created"
    /\ UNCHANGED <<i, id, round, mtx, errors>>

\* An error is printed, and the loop goes on without the thread.
MainCreateFails ==
    /\ step = "create"
    /\ errors < MaxErrors
    /\ errors' = errors + 1
    /\ step' = "created"
    /\ UNCHANGED <<i, pc, id, round, mtx>>

\* Fault: the loop goes one too far.
NextTooFar ==
    /\ step = "created" /\ (PromptStart => pc[i] # "born")
    /\ i' = i + 1
    /\ step' = IF i + 1 <= NF THEN "create" ELSE "created_all"
    /\ UNCHANGED <<pc, id, round, mtx, errors>>

\* i++; the loop ends with i = NF.
MainNext ==
    /\ step = "created"
    /\ PromptStart => pc[i] # "born"
    /\ i' = i + 1
    /\ step' = IF i + 1 < NF THEN "create" ELSE "created_all"
    /\ UNCHANGED <<pc, id, round, mtx, errors>>

\* The same counter is used for the joins.
MainJoinLoop ==
    /\ step = "created_all"
    /\ i' = 0
    /\ step' = "join"
    /\ UNCHANGED <<pc, id, round, mtx, errors>>

(* After the last join: Cena finita!  For a thread that was not created t  *)
(* was left with what it had: joining that returns, with an error or       *)
(* without, or is the end of the process.                                  *)
MainJoin ==
    /\ step = "join"
    /\ \/ /\ pc[i] \in {"exit", "new"}
          /\ i' = i + 1
          /\ step' = IF i + 1 < NF THEN "join" ELSE "done"
       \/ /\ pc[i] = "new"
          /\ step' = "crashed"
          /\ UNCHANGED i
    /\ UNCHANGED <<pc, id, round, mtx, errors>>

-----------------------------------------------------------------------------
\* int id = *((int*)arg)
Start(t) ==
    /\ pc[t] = "born"
    /\ id' = [id EXCEPT ![t] = i]
    /\ pc' = [pc EXCEPT ![t] = "think"]
    /\ UNCHANGED <<mainVars, round, mtx, errors>>

\* The end of an iteration, also by continue after an error; the locals of a
\* thread that has returned are dead.
NextRound(t) ==
    /\ round' = [round EXCEPT ![t] = @ + 1]
    /\ IF round[t] + 1 < Rounds
       THEN pc' = [pc EXCEPT ![t] = "think"] /\ UNCHANGED id
       ELSE pc' = [pc EXCEPT ![t] = "exit"] /\ id' = [id EXCEPT ![t] = 0]
    /\ UNCHANGED mainVars

TakeFirst(t) ==
    /\ pc[t] = "think"
    /\ mtx[First(id[t])] = NoOne
    /\ mtx' = [mtx EXCEPT ![First(id[t])] = t]
    /\ pc' = [pc EXCEPT ![t] = "second"]
    /\ UNCHANGED <<mainVars, id, round, errors>>

\* The first pthread_mutex_lock fails: prendiForchette returns -1.
FirstFails(t) ==
    /\ pc[t] = "think"
    /\ errors < MaxErrors
    /\ errors' = errors + 1
    /\ NextRound(t)
    /\ UNCHANGED mtx

TakeSecond(t) ==
    /\ pc[t] = "second"
    /\ mtx[Second(id[t])] = NoOne
    /\ mtx' = [mtx EXCEPT ![Second(id[t])] = t]
    /\ pc' = [pc EXCEPT ![t] = "eat"]
    /\ UNCHANGED <<mainVars, id, round, errors>>

\* Fault: the first fork is kept after the error.
KeepFirst(t) ==
    /\ pc[t] = "second" /\ errors < MaxErrors
    /\ errors' = errors + 1
    /\ NextRound(t)
    /\ UNCHANGED mtx

\* The second one fails: the first fork is put back.
SecondFails(t) ==
    /\ pc[t] = "second"
    /\ errors < MaxErrors
    /\ errors' = errors + 1
    /\ mtx' = [mtx EXCEPT ![First(id[t])] = NoOne]
    /\ NextRound(t)

\* rilasciaForchette unlocks the left fork, then the right one.
DropSinistra(t) ==
    /\ pc[t] = "eat"
    /\ mtx' = [mtx EXCEPT ![sinistra(id[t])] = NoOne]
    /\ pc' = [pc EXCEPT ![t] = "release"]
    /\ UNCHANGED <<mainVars, id, round, errors>>

DropDestra(t) ==
    /\ pc[t] = "release"
    /\ mtx' = [mtx EXCEPT ![destra(id[t])] = NoOne]
    /\ NextRound(t)
    /\ UNCHANGED errors

Philosopher(t) == \/ Start(t)
                  \/ TakeFirst(t) \/ FirstFails(t) \/ TakeSecond(t) \/ SecondFails(t)
                  \/ DropSinistra(t) \/ DropDestra(t)

Terminated == step \in {"done", "crashed"} /\ UNCHANGED vars

Next == \/ MainCreate \/ MainCreateFails \/ MainNext \/ MainJoinLoop \/ MainJoin
        \/ step # "crashed" /\ \E t \in Threads : Philosopher(t)
        \/ Terminated

\* The program runs while some thread can run; which one is arbitrary.
Spec == Init /\ [][Next]_vars /\ WF_vars(Next)
-----------------------------------------------------------------------------
TypeOK ==
    /\ i \in 0 .. NF
    /\ step \in {"create", "created", "created_all", "join", "done", "crashed"}
    /\ step \in {"create", "created", "join"} => i < NF
    /\ pc \in [Threads -> {"new", "born", "think", "second", "eat",
                           "release", "exit"}]
    /\ id \in [Threads -> 0 .. NF]
    /\ round \in [Threads -> 0 .. Rounds]
    /\ \A t \in Threads : pc[t] # "exit" => round[t] < Rounds
    /\ mtx \in [Forks -> Threads \cup {NoOne}]
    /\ errors \in 0 .. MaxErrors

\* The forks that a thread holds, by where it is in the loop.
Held(t) == CASE pc[t] = "second" -> {First(id[t])}
             [] pc[t] = "eat" -> {sinistra(id[t]), destra(id[t])}
             [] pc[t] = "release" -> {destra(id[t])}
             [] OTHER -> {}

(* A fork is owned by the thread that is in the part of the loop in which  *)
(* it uses it, whatever ids the race has given: so nobody eats with a fork *)
(* of another, and an iteration ends, also with a lock error, with every   *)
(* fork put back.                                                          *)
ForksInv == \A t \in Threads, f \in Forks : mtx[f] = t <=> f \in Held(t)

(* The dinner ends ("Cena finita!" is printed), whoever is scheduled,      *)
(* unless main dies of the handle of a thread that it could not create.    *)
(* It depends on the parity of NF and on the ids that the threads get: one *)
(* that reads NF when the loop has ended goes for fork NF - 1 and then for *)
(* fork 1, and philosopher 0 for the same two the other way round.         *)
DinnerEnds == <>(step \in {"done", "crashed"})
=============================================================================
