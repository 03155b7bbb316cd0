--------------------------- MODULE FilosofiProofs ---------------------------
(***************************************************************************)
(* Theorems about Filosofi, for any number of philosophers that main       *)
(* accepts, any number of iterations and any ids the race may give.        *)
(***************************************************************************)
EXTENDS Filosofi, TLAPS

\* The two forks of an id, NF included, are two different forks of the table.
LEMMA TwoForks ==
    ASSUME NEW k \in 0 .. NF
    PROVE  /\ sinistra(k) \in Forks
           /\ destra(k) \in Forks
           /\ sinistra(k) # destra(k)
<1>1. sinistra(k) = IF k = NF THEN 1 ELSE IF k = NF - 1 THEN 0 ELSE k + 1
  <2>1. CASE k + 1 < NF
    BY <2>1, DinnerAssumption DEF sinistra
  <2>2. CASE k + 1 = NF
    BY <2>2, DinnerAssumption DEF sinistra
  <2>3. CASE k = NF
    <3>1. (NF + 1) % NF = 1
      BY DinnerAssumption
    <3> QED BY <2>3, <3>1, DinnerAssumption DEF sinistra
  <2> QED BY <2>1, <2>2, <2>3, DinnerAssumption
<1> QED BY <1>1, DinnerAssumption DEF destra, Forks

\* They are the two that prendiForchette locks, in some order.
LEMMA SameForks ==
    ASSUME NEW k \in 0 .. NF
    PROVE  \/ First(k) = sinistra(k) /\ Second(k) = destra(k)
           \/ First(k) = destra(k) /\ Second(k) = sinistra(k)
BY DEF First, Second, LeftFirst

\* The end of an iteration keeps the types of what it changes.
LEMMA NextRoundType ==
    ASSUME TypeOK, NEW t \in Threads, pc[t] # "exit", NextRound(t)
    PROVE  /\ id' \in [Threads -> 0 .. NF]
           /\ pc' \in [Threads -> {"new", "born", "think", "second", "eat",
                                  "release", "exit"}]
           /\ round' \in [Threads -> 0 .. Rounds]
           /\ \A s \in Threads : pc'[s] # "exit" => round'[s] < Rounds
<1> USE DinnerAssumption DEF TypeOK, NextRound
<1>1. round[t] + 1 \in 0 .. Rounds
  OBVIOUS
<1>2. round' \in [Threads -> 0 .. Rounds]
  BY <1>1
<1>3. CASE round[t] + 1 < Rounds
  BY <1>2, <1>3
<1>4. CASE ~(round[t] + 1 < Rounds)
  BY <1>2, <1>4
<1> QED BY <1>3, <1>4

\* main creates the threads in order: those it has not come to are new.
Created == \A t \in Threads :
    (step = "create" /\ t >= i) \/ (step = "created" /\ t > i) => pc[t] = "new"

LEMMA CreatedStep == TypeOK /\ Created /\ [Next]_vars => Created'
<1> SUFFICES ASSUME TypeOK, Created, [Next]_vars,
                    NEW s \in Threads,
                    \/ step' = "create" /\ s >= i'
                    \/ step' = "created" /\ s > i'
             PROVE  pc'[s] = "new"
  BY DEF Created
<1> USE DinnerAssumption DEF TypeOK, Created, mainVars, Threads
<1>1. CASE MainCreate \/ MainCreateFails
  BY <1>1 DEF MainCreate, MainCreateFails
<1>2. CASE MainNext
  BY <1>2 DEF MainNext
<1>3. CASE MainJoinLoop
  BY <1>3 DEF MainJoinLoop
<1>4. CASE MainJoin
  BY <1>4 DEF MainJoin
<1>5. ASSUME NEW t \in Threads, Philosopher(t)
      PROVE  pc'[s] = "new"
  <2>1. UNCHANGED mainVars /\ pc[t] # "new"
    BY <1>5 DEF Philosopher, Start, TakeFirst, FirstFails, TakeSecond, SecondFails,
                DropSinistra, DropDestra, NextRound
  <2>2. pc[s] = "new"
    BY <2>1
  <2>3. s # t
    BY <2>1, <2>2
  <2>4. pc'[s] = pc[s]
    BY <1>5, <2>3 DEF Philosopher, Start, TakeFirst, FirstFails, TakeSecond, SecondFails,
                      DropSinistra, DropDestra, NextRound
  <2> QED BY <2>2, <2>4
<1>6. CASE UNCHANGED vars
  BY <1>6 DEF vars
<1> QED
  BY <1>1, <1>2, <1>3, <1>4, <1>5, <1>6 DEF Next, Terminated

LEMMA TypeStep == TypeOK /\ Created /\ [Next]_vars => TypeOK'
<1> SUFFICES ASSUME TypeOK, Created, [Next]_vars PROVE TypeOK'
  OBVIOUS
<1> USE DinnerAssumption DEF TypeOK, mainVars
<1>1. CASE MainCreate \/ MainCreateFails
  <2>1. pc[i] = "new" /\ i \in Threads
    BY <1>1 DEF MainCreate, MainCreateFails, Created, Threads
  <2> QED BY <1>1, <2>1 DEF MainCreate, MainCreateFails
<1>2. CASE MainNext
  BY <1>2 DEF MainNext
<1>3. CASE MainJoinLoop
  BY <1>3 DEF MainJoinLoop
<1>4. CASE MainJoin
  BY <1>4 DEF MainJoin
<1>5. ASSUME NEW t \in Threads, Start(t) PROVE TypeOK'
  BY <1>5 DEF Start
<1>6. ASSUME NEW t \in Threads, TakeFirst(t) PROVE TypeOK'
  BY <1>6 DEF TakeFirst
<1>7. ASSUME NEW t \in Threads, FirstFails(t) PROVE TypeOK'
  <2>1. NextRound(t) /\ pc[t] # "exit"
    BY <1>7 DEF FirstFails
  <2>2. UNCHANGED mainVars
    BY <2>1 DEF NextRound
  <2>3. mtx' \in [Forks -> Threads \cup {NoOne}]
    BY <1>7 DEF FirstFails
  <2>4. errors' \in 0 .. MaxErrors
    BY <1>7 DEF FirstFails
  <2> QED BY <2>1, <2>2, <2>3, <2>4, NextRoundType
<1>8. ASSUME NEW t \in Threads, TakeSecond(t) PROVE TypeOK'
  BY <1>8 DEF TakeSecond
<1>9. ASSUME NEW t \in Threads, SecondFails(t) PROVE TypeOK'
  <2>1. NextRound(t) /\ pc[t] # "exit"
    BY <1>9 DEF SecondFails
  <2>2. UNCHANGED mainVars
    BY <2>1 DEF NextRound
  <2>3. mtx' \in [Forks -> Threads \cup {NoOne}]
    BY <1>9 DEF SecondFails
  <2>4. errors' \in 0 .. MaxErrors
    BY <1>9 DEF SecondFails
  <2> QED BY <2>1, <2>2, <2>3, <2>4, NextRoundType
<1>10. ASSUME NEW t \in Threads, DropSinistra(t) PROVE TypeOK'
  BY <1>10 DEF DropSinistra
<1>11. ASSUME NEW t \in Threads, DropDestra(t) PROVE TypeOK'
  <2>1. NextRound(t) /\ pc[t] # "exit"
    BY <1>11 DEF DropDestra
  <2>2. UNCHANGED mainVars
    BY <2>1 DEF NextRound
  <2>3. mtx' \in [Forks -> Threads \cup {NoOne}]
    BY <1>11 DEF DropDestra
  <2>4. errors' \in 0 .. MaxErrors
    BY <1>11 DEF DropDestra
  <2> QED BY <2>1, <2>2, <2>3, <2>4, NextRoundType
<1>12. CASE UNCHANGED vars
  BY <1>12 DEF vars
<1> QED
  BY <1>1, <1>2, <1>3, <1>4, <1>5, <1>6, <1>7, <1>8, <1>9, <1>10, <1>11,
     <1>12 DEF Next, Philosopher, Terminated

LEMMA Inductive == Spec => [](TypeOK /\ Created)
<1>1. Init => TypeOK /\ Created
  BY DinnerAssumption DEF Init, TypeOK, Created, Threads, Forks, NoOne
<1>2. TypeOK /\ Created /\ [Next]_vars => (TypeOK /\ Created)'
  BY TypeStep, CreatedStep
<1> QED BY <1>1, <1>2, PTL DEF Spec

(* The types, and main's counter with them: an id is at most NF.           *)
THEOREM TypeCorrect == Spec => []TypeOK
BY Inductive, PTL

LEMMA ForksStep == TypeOK /\ Created /\ ForksInv /\ [Next]_vars => ForksInv'
<1> SUFFICES ASSUME TypeOK, Created, ForksInv, [Next]_vars,
                    NEW s \in Threads, NEW f \in Forks
             PROVE  mtx'[f] = s <=> f \in Held(s)'
  BY DEF ForksInv
<1>0. s # NoOne
  BY DinnerAssumption DEF Threads, NoOne
<1> USE DEF TypeOK, ForksInv
<1>1. CASE MainCreate
  <2>1. i \in Threads /\ pc[i] = "new"
    BY <1>1, DinnerAssumption DEF MainCreate, Created, Threads
  <2> QED BY <1>1, <2>1 DEF MainCreate, Held
<1>2. CASE MainCreateFails \/ MainNext \/ MainJoinLoop \/ MainJoin
  BY <1>2 DEF MainCreateFails, MainNext, MainJoinLoop, MainJoin, Held
<1>3. ASSUME NEW t \in Threads, Start(t)
      PROVE  mtx'[f] = s <=> f \in Held(s)'
  BY <1>3 DEF Start, Held
<1>4. ASSUME NEW t \in Threads, TakeFirst(t)
      PROVE  mtx'[f] = s <=> f \in Held(s)'
  BY <1>0, <1>4 DEF TakeFirst, Held
<1>5. ASSUME NEW t \in Threads, FirstFails(t)
      PROVE  mtx'[f] = s <=> f \in Held(s)'
  BY <1>5 DEF FirstFails, NextRound, Held
<1>6. ASSUME NEW t \in Threads, TakeSecond(t)
      PROVE  mtx'[f] = s <=> f \in Held(s)'
  BY <1>0, <1>6, SameForks DEF TakeSecond, Held
<1>7. ASSUME NEW t \in Threads, SecondFails(t)
      PROVE  mtx'[f] = s <=> f \in Held(s)'
  BY <1>0, <1>7 DEF SecondFails, NextRound, Held
<1>8. ASSUME NEW t \in Threads, DropSinistra(t)
      PROVE  mtx'[f] = s <=> f \in Held(s)'
  BY <1>0, <1>8, TwoForks DEF DropSinistra, Held
<1>9. ASSUME NEW t \in Threads, DropDestra(t)
      PROVE  mtx'[f] = s <=> f \in Held(s)'
  BY <1>0, <1>9 DEF DropDestra, NextRound, Held
<1>10. CASE UNCHANGED vars
  BY <1>10 DEF vars, Held
<1> QED
  BY <1>1, <1>2, <1>3, <1>4, <1>5, <1>6, <1>7, <1>8, <1>9, <1>10
  DEF Next, Philosopher, Terminated

(* Whatever ids the threads read, also the same one or NF, a fork is used  *)
(* by one thread at a time and is put back on every path of the loop.      *)
THEOREM ForksCorrect == Spec => []ForksInv
<1>1. Init => ForksInv
  BY DinnerAssumption DEF Init, ForksInv, Held, Threads, NoOne
<1> QED BY <1>1, Inductive, ForksStep, PTL DEF Spec
=============================================================================
