----------------------------- MODULE TestQueue -----------------------------
(***************************************************************************)
(* lez8/es8/testQueue.c: p producers push the numbers below n, each those  *)
(* of its interval, and c consumers pop until they read -1.  main joins    *)
(* the producers, pushes a -1 for each consumer, joins the consumers and   *)
(* deletes the queue.  A thread that main has not created yet is one that  *)
(* has not made its first step.                                            *)
(*                                                                         *)
(* A push in which malloc fails returns -1: a producer exits on it, main   *)
(* does not look, and neither of them frees the number it has allocated    *)
(* for it.  (Nor does main look at the malloc of its EOS, which is taken   *)
(* to succeed, as pthread_create is.)  malloc gives the free block that    *)
(* CHOOSE names: a block that has been freed is soon used again.  Of the   *)
(* numbers, which are small blocks too, only those in use are counted.     *)
(***************************************************************************)
EXTENDS LinkedQueue

CONSTANTS p, c, n,      \* the options
          Main, EOS,    \* the main thread; the number -1
          MaxFailures   \* bound: threads that see a malloc fail

Producers == 0 .. p - 1
Consumers == p .. p + c - 1
Messages == 0 .. n - 1

ASSUME OptionsAssumption ==
    /\ {p, c, n} \subseteq Nat \ {0}
    /\ Threads = Producers \cup Consumers \cup {Main}
    /\ Main \notin Producers \cup Consumers
    /\ Data = Messages \cup {EOS}
    /\ EOS \notin Messages
    /\ MaxFailures \in Nat

\* thARGS: the first n % p producers have one message more.
interval[t \in Producers] ==
    LET extra == IF t < n % p THEN 1 ELSE 0
        start == IF t = 0 THEN 0 ELSE interval[t - 1].stop
    IN  [start |-> start, stop |-> start + n \div p + extra]

VARIABLES i,        \* loop counter of each producer, and of main
          alive,    \* the threads that have not returned
          step,     \* "join_producers", "eos", "join_consumers", "deleted"
          got,      \* got[t]: the messages that consumer t has had
          failed,   \* the threads that have seen a malloc fail
          memory,   \* how many ints of each value are allocated
          refused   \* auxiliary: how many of them a failed push has left

locals == <<i, alive, step, got, failed>>
heap == <<memory, refused>>
testVars == <<vars, locals, heap>>

TestInit == /\ Init
            /\ head = CHOOSE b \in Nodes : TRUE
            /\ i = [t \in Producers \cup {Main} |->
                      IF t = Main THEN 0 ELSE interval[t].start]
            /\ alive = Threads
            /\ step = "join_producers"
            /\ got = [t \in Consumers |-> {}]
            /\ failed = {}
            /\ memory = [d \in Data |-> 0]
            /\ refused = [d \in Data |-> 0]

\* int *data = malloc(sizeof(int)), free(data), and a push that fails.
NewData(d) == memory' = [memory EXCEPT ![d] = @ + 1]
FreeData(d) == memory' = [memory EXCEPT ![d] = @ - 1]
Refuse(d) == refused' = [refused EXCEPT ![d] = @ + 1]

Block == CHOOSE b \in Nodes \ allocated : TRUE

\* The loop of a producer: push(q, data), with a malloc that finds a block.
ProducerPush(t) ==
    /\ t \in alive
    /\ i[t] < interval[t].stop
    /\ Nodes # allocated
    /\ PushCall(t, i[t], Block)
    /\ NewData(i[t])
    /\ UNCHANGED <<locals, refused>>

\* Fault: the message is pushed again and again.
PushAgain(t) == Put(t) /\ UNCHANGED <<locals, heap>>

ProducerInPush(t) ==
    /\ Put(t)
    /\ i' = [i EXCEPT ![t] = @ + 1]
    /\ UNCHANGED <<alive, step, got, failed, heap>>

\* A malloc fails in the loop of t: pthread_exit.
GiveUp(t) ==
    /\ t \in alive /\ pc[t] = "idle"
    /\ i[t] < interval[t].stop
    /\ Cardinality(failed) < MaxFailures
    /\ failed' = failed \cup {t}
    /\ alive' = alive \ {t}
    /\ UNCHANGED <<vars, i, step, got>>

ProducerNoData(t) == GiveUp(t) /\ UNCHANGED heap

\* allocNode fails in push: nobody frees the data.
ProducerPushFails(t) == GiveUp(t) /\ NewData(i[t]) /\ Refuse(i[t])

ProducerReturn(t) ==
    /\ t \in alive /\ pc[t] = "idle"
    /\ i[t] = interval[t].stop
    /\ alive' = alive \ {t}
    /\ UNCHANGED <<vars, i, step, got, failed, heap>>

ProducerExit(t) == ProducerReturn(t) \/ ProducerNoData(t) \/ ProducerPushFails(t)

ConsumerPop(t) ==
    /\ t \in alive
    /\ PopCall(t)
    /\ UNCHANGED <<locals, heap>>

\* pop goes on; when it returns, -1 ends the loop, a message is consumed, and
\* the number is freed.
ConsumerInPop(t) ==
    /\ Wait(t) \/ Take(t) \/ FreeNode(t)
    /\ alive' = IF pc'[t] = "idle" /\ data[t] = EOS THEN alive \ {t} ELSE alive
    /\ got' = IF pc'[t] = "idle" /\ data[t] # EOS
              THEN [got EXCEPT ![t] = @ \cup {data[t]}] ELSE got
    /\ IF pc'[t] = "idle" THEN FreeData(data[t]) ELSE UNCHANGED memory
    /\ UNCHANGED <<i, step, failed, refused>>

MainJoinProducers ==
    /\ step = "join_producers"
    /\ alive \cap Producers = {}
    /\ step' = "eos"
    /\ UNCHANGED <<vars, i, alive, got, failed, heap>>

MainPushEOS ==
    /\ step = "eos"
    /\ Nodes # allocated
    /\ PushCall(Main, EOS, Block)
    /\ NewData(EOS)
    /\ UNCHANGED <<locals, refused>>

\* Fault: the loop ends one EOS too early.
NextEOSShort == /\ i' = [i EXCEPT ![Main] = @ + 1]
                /\ step' = IF i[Main] + 2 < c THEN "eos" ELSE "join_consumers"
                /\ UNCHANGED <<alive, got>>

\* The loop counter of main, after a push that succeeded or failed.
NextEOS == /\ i' = [i EXCEPT ![Main] = @ + 1]
           /\ step' = IF i[Main] + 1 < c THEN "eos" ELSE "join_consumers"
           /\ UNCHANGED <<alive, got>>

MainInPush == Put(Main) /\ NextEOS /\ UNCHANGED <<failed, heap>>

\* allocNode fails in push, nobody looks at the -1 it returns or frees eos.
MainPushFails ==
    /\ step = "eos" /\ pc[Main] = "idle"
    /\ Cardinality(failed) < MaxFailures
    /\ failed' = failed \cup {Main}
    /\ NewData(EOS) /\ Refuse(EOS)
    /\ NextEOS
    /\ UNCHANGED vars

\* The consumers are joined, the queue is deleted and main returns.
MainDelete ==
    /\ step = "join_consumers"
    /\ alive \cap Consumers = {}
    /\ deleteQueue
    /\ step' = "deleted"
    /\ alive' = alive \ {Main}
    /\ UNCHANGED <<i, got, failed, heap>>

\* The process has ended, or the consumers wait for an EOS that is lost.
Rest == /\ \/ step = "deleted"
           \/ step = "join_consumers" /\ alive \cap Consumers = Waiting
        /\ UNCHANGED testVars

TestNext ==
    \/ \E t \in Producers : ProducerPush(t) \/ ProducerInPush(t) \/ ProducerExit(t)
    \/ \E t \in Consumers : \/ ConsumerPop(t) \/ ConsumerInPop(t)
                            \/ SpuriousWakeup(t) /\ UNCHANGED <<locals, heap>>
    \/ MainJoinProducers \/ MainPushEOS \/ MainInPush \/ MainPushFails
    \/ MainDelete
    \/ Rest

(* Whoever can run does in the end: the scheduler is fair to main and to   *)
(* the producers and consumers as a whole.                                 *)
TestSpec == /\ TestInit /\ [][TestNext]_testVars
            /\ \A t \in Producers : WF_testVars(ProducerPush(t) \/ ProducerInPush(t)
                                                \/ ProducerExit(t))
            /\ \A t \in Consumers : WF_testVars(ConsumerPop(t) \/ ConsumerInPop(t))
            /\ WF_testVars(MainJoinProducers \/ MainPushEOS \/ MainInPush
                           \/ MainDelete)
-----------------------------------------------------------------------------
Pushed == {m \in Messages : \E t \in Producers : interval[t].start <= m /\ m < i[t]}
InHand(t) == pc[t] = "free" /\ data[t] # EOS

(* At every moment a message pushed is in one place: in the list, in the   *)
(* hands of the consumer that has popped it, or consumed.  Once the queue  *)
(* is deleted all are consumed and every node is freed; of the numbers,    *)
(* those of failed pushes, and no others, are left behind: a leak of one   *)
(* int for each producer that gives up in push.                            *)
ExactlyOnce ==
    /\ \A m \in Messages :
          Cardinality({k \in 1 .. qlen : Items[k] = m})
            + Cardinality({t \in Consumers : InHand(t) /\ data[t] = m})
            + Cardinality({t \in Consumers : m \in got[t]})
          = IF m \in Pushed THEN 1 ELSE 0
    /\ step = "deleted" => /\ Pushed = UNION {got[t] : t \in Consumers}
                           /\ allocated = {}
                           /\ memory = refused

(* The program ends with the queue deleted, also when a producer gives up, *)
(* unless malloc fails in a push of main: then a consumer waits for ever.  *)
Termination == <>(step = "deleted" \/ Main \in failed)
=============================================================================
