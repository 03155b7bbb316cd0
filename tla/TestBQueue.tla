----------------------------- MODULE TestBQueue -----------------------------
(***************************************************************************)
(* lez7/es7/testBQueue.c: p producers push the messages 0..n-1, each its   *)
(* own interval, c consumers pop until they get EOS.  Main creates the     *)
(* threads, joins the producers, pushes one EOS per consumer, joins the    *)
(* consumers and frees the queue.                                          *)
(*                                                                         *)
(* The queue is BoundedQueue itself, all its steps included.  What a       *)
(* thread does on its own locals when push or pop returns is part of the   *)
(* step in which it returns.                                               *)
(***************************************************************************)
EXTENDS BoundedQueue

CONSTANTS p, c, n,      \* the options -p, -c and -n
          Main,         \* the main thread
          EOS,          \* the end-of-stream pointer
          MaxSpurious   \* bound: spurious wakeups in one execution

\* main calls usage() and exits unless the three options are given.
ASSUME OptionsAssumption == {p, c, n} \subseteq Nat \ {0} /\ MaxSpurious \in Nat

Producers == 0 .. p - 1
Consumers == p .. p + c - 1
Messages == 0 .. n - 1

(* The threads and the pointers that the queue is used with.  The main     *)
(* thread is neither a producer nor a consumer; EOS is an address that     *)
(* malloc never returns.                                                   *)
ASSUME NamesAssumption ==
    /\ Threads = Producers \cup Consumers \cup {Main}
    /\ Main \notin Producers \cup Consumers
    /\ Data = Messages \cup {EOS}
    /\ EOS \notin Messages

VARIABLES i,        \* loop counter of each producer, and of main's loops
          alive,    \* alive[t]: "new", "running" or "exited"
          step,     \* which loop main is in
          freed,    \* the queue has been deleted
          got,      \* history: the messages each consumer has extracted
          spurious  \* spurious wakeups so far

locals == <<i, alive, step, freed, got, spurious>>
testVars == <<vars, locals>>

\* The interval of each producer: the first n % p of them take one more.
interval[t \in Producers] ==
    LET start == IF t = 0 THEN 0 ELSE interval[t - 1].stop
    IN  [start |-> start,
         stop  |-> start + (n \div p) + (IF t < n % p THEN 1 ELSE 0)]

TestInit == /\ Init
            /\ i = [t \in Producers \cup {Main} |->
                      IF t = Main THEN 0 ELSE interval[t].start]
            /\ alive = [t \in Threads |-> IF t = Main THEN "running" ELSE "new"]
            /\ step = "create"
            /\ freed = FALSE
            /\ got = [t \in Consumers |-> {}]
            /\ spurious = 0

\* The process runs: main has neither returned nor called exit.
Running == alive[Main] = "running"

\* Thread t runs its own code, outside the queue.
Idle(t) == Running /\ alive[t] = "running" /\ pc[t] = "idle"

-----------------------------------------------------------------------------
\* Fault: the messages in the opposite order.
PushBackwards(t) ==
    /\ Idle(t) /\ i[t] < interval[t].stop
    /\ PushCall(t, interval[t].stop - 1 - (i[t] - interval[t].start))
    /\ UNCHANGED locals

\* for (i = start; i < stop; ++i): malloc succeeds, push(q, data) is called.
ProducerPush(t) ==
    /\ Idle(t)
    /\ i[t] < interval[t].stop
    /\ PushCall(t, i[t])
    /\ UNCHANGED locals

\* Fault: the loop does not go to the next message.
PushAgain(t) ==
    Running /\ Inside(t) /\ UNCHANGED locals

\* push goes on; when it returns the loop goes to the next message.
ProducerInPush(t) ==
    /\ Running
    /\ Inside(t)
    /\ i' = [i EXCEPT ![t] = IF pc'[t] = "idle" THEN @ + 1 ELSE @]
    /\ UNCHANGED <<alive, step, freed, got, spurious>>

\* The end of the loop, or of the memory: either way pthread_exit(NULL).
ProducerExit(t) ==
    /\ Idle(t)
    /\ \/ i[t] = interval[t].stop
       \/ i[t] < interval[t].stop     \* malloc returned NULL
    /\ alive' = [alive EXCEPT ![t] = "exited"]
    /\ UNCHANGED <<vars, i, step, freed, got, spurious>>

ConsumerPop(t) ==
    /\ Idle(t)
    /\ PopCall(t)
    /\ UNCHANGED locals

\* pop goes on; when it returns, EOS ends the loop, a message is consumed.
ConsumerInPop(t) ==
    /\ Running
    /\ Inside(t)
    /\ LET returned == pc'[t] = "idle"
           eos == data'[t] = EOS
       IN  /\ alive' = IF returned /\ eos THEN [alive EXCEPT ![t] = "exited"]
                                          ELSE alive
           /\ got' = IF returned /\ ~eos
                     THEN [got EXCEPT ![t] = @ \cup {data'[t]}] ELSE got
    /\ UNCHANGED <<i, step, freed, spurious>>

Spurious(t) ==
    /\ Running
    /\ spurious < MaxSpurious
    /\ SpuriousWakeup(t)
    /\ spurious' = spurious + 1
    /\ UNCHANGED <<i, alive, step, freed, got>>

-----------------------------------------------------------------------------
\* Main's loops create the consumers first, then the producers.
CreationOrder(k) == IF k < c THEN p + k ELSE k - c

MainCreate ==
    /\ Idle(Main)
    /\ step = "create"
    /\ alive' = [alive EXCEPT ![CreationOrder(i[Main])] = "running"]
    /\ \/ /\ i[Main] + 1 < p + c
          /\ i' = [i EXCEPT ![Main] = @ + 1]
          /\ UNCHANGED step
       \/ /\ i[Main] + 1 = p + c
          /\ i' = [i EXCEPT ![Main] = 0]
          /\ step' = "join_producers"
    /\ UNCHANGED <<vars, freed, got, spurious>>

\* pthread_create fails: exit(EXIT_FAILURE) ends every thread.
MainCreateFails ==
    /\ Idle(Main)
    /\ step = "create"
    /\ alive' = [alive EXCEPT ![Main] = "exited"]
    /\ UNCHANGED <<vars, i, step, freed, got, spurious>>

\* Fault: the producers are not joined.
NoJoinProducers ==
    /\ Idle(Main) /\ step = "join_producers"
    /\ step' = "eos"
    /\ UNCHANGED <<vars, i, alive, freed, got, spurious>>

\* The joins, in any order of exits, end when all the producers have exited.
MainJoinProducers ==
    /\ Idle(Main)
    /\ step = "join_producers"
    /\ \A t \in Producers : alive[t] = "exited"
    /\ step' = "eos"
    /\ UNCHANGED <<vars, i, alive, freed, got, spurious>>

\* Fault: one EOS is missing.
MissingEOS ==
    /\ Idle(Main) /\ step = "eos" /\ i[Main] + 1 < c
    /\ PushCall(Main, EOS)
    /\ UNCHANGED locals

MainPushEOS ==
    /\ Idle(Main)
    /\ step = "eos"
    /\ i[Main] < c
    /\ PushCall(Main, EOS)
    /\ UNCHANGED locals

MainInPush ==
    /\ Running
    /\ Inside(Main)
    /\ i' = [i EXCEPT ![Main] = IF pc'[Main] = "idle" THEN @ + 1 ELSE @]
    /\ UNCHANGED <<alive, step, freed, got, spurious>>

\* Fault: the consumers are not joined.
NoJoinConsumers ==
    /\ Idle(Main) /\ step = "eos" /\ i[Main] = c
    /\ step' = "delete"
    /\ UNCHANGED <<vars, i, alive, freed, got, spurious>>

\* After the last EOS: the consumers are joined, deleteBQueue(q, NULL).
MainJoinConsumers ==
    /\ Idle(Main)
    /\ step = "eos"
    /\ i[Main] = c
    /\ \A t \in Consumers : alive[t] = "exited"
    /\ step' = "delete"
    /\ UNCHANGED <<vars, i, alive, freed, got, spurious>>

MainDelete ==
    /\ Idle(Main)
    /\ step = "delete"
    /\ freed' = TRUE
    /\ alive' = [alive EXCEPT ![Main] = "exited"]
    /\ UNCHANGED <<vars, i, step, got, spurious>>

\* The process has ended.
Terminated == ~Running /\ UNCHANGED testVars

TestNext == \/ MainCreate \/ MainCreateFails \/ MainJoinProducers \/ MainPushEOS
            \/ MainInPush \/ MainJoinConsumers \/ MainDelete
            \/ \E t \in Producers : \/ ProducerPush(t)
                                    \/ ProducerInPush(t)
                                    \/ ProducerExit(t)
            \/ \E t \in Consumers : ConsumerPop(t) \/ ConsumerInPop(t)
            \/ \E t \in Threads : Spurious(t)
            \/ Terminated

(* Weak fairness of the whole relation: the processor is never idle while  *)
(* some thread can run.  No assumption is made on which thread runs.       *)
TestSpec == TestInit /\ [][TestNext]_testVars /\ WF_testVars(TestNext)
-----------------------------------------------------------------------------
TestTypeOK ==
    /\ TypeOK
    /\ \A t \in Producers : i[t] \in interval[t].start .. interval[t].stop
    /\ i[Main] \in 0 .. p + c - 1
    /\ alive \in [Threads -> {"new", "running", "exited"}]
    /\ step \in {"create", "join_producers", "eos", "delete"}
    /\ freed \in BOOLEAN
    /\ got \in [Consumers -> SUBSET Messages]
    /\ spurious \in 0 .. MaxSpurious

\* The producer of a message, and the messages pushed so far.
ProducerOf(msg) == CHOOSE t \in Producers :
    interval[t].start <= msg /\ msg < interval[t].stop
Pushed == {msg \in Messages : msg < i[ProducerOf(msg)]}

(* Nothing is lost or duplicated: a message that has been pushed is either *)
(* in exactly one slot of the queue or in the hands of exactly one         *)
(* consumer, a message not yet pushed is nowhere; and types are kept.      *)
ExactlyOnce ==
    /\ TestTypeOK
    /\ \A msg \in Messages :
          Cardinality({k \in DOMAIN buf : buf[k] = msg})
            + Cardinality({t \in Consumers : msg \in got[t]})
          = IF msg \in Pushed THEN 1 ELSE 0

(* EOS is behind every message: once a consumer has left on EOS there is   *)
(* no message in the queue and nobody to push one, and the EOS left are as *)
(* many as the consumers still there, once main has pushed them all.       *)
EOSIsLast ==
    /\ \A t \in Consumers : alive[t] = "exited" =>
          /\ \A s \in Producers : alive[s] = "exited"
          /\ \A k \in DOMAIN buf : buf[k] \notin Messages
    /\ step = "eos" =>
          i[Main] = Cardinality({k \in DOMAIN buf : buf[k] = EOS})
                    + Cardinality({t \in Consumers : alive[t] = "exited"})

(* The queue is freed once, when nobody is in it or can come back to it,   *)
(* with nothing left in it and every message pushed already consumed.      *)
SafeDelete ==
    freed => /\ \A t \in Threads : pc[t] = "idle" /\ alive[t] = "exited"
             /\ m = NULL
             /\ \A k \in DOMAIN buf : buf[k] = NULL
             /\ Pushed = UNION {got[t] : t \in Consumers}

(* Each consumer sees the messages of one producer in the order in which   *)
(* they were pushed.                                                       *)
InOrder ==
    [][\A t \in Consumers : \A new \in got'[t] \ got[t], old \in got[t] :
          ProducerOf(new) = ProducerOf(old) => old < new]_testVars

(* The program ends, whatever the scheduler does: no producer, consumer or *)
(* join is left blocked.                                                   *)
Termination == <>~Running
=============================================================================
