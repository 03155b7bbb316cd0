------------------------- MODULE PhilosophersProofs -------------------------
(***************************************************************************)
(* Theorems about OrderedPhilosophers, for any number of philosophers      *)
(* greater than one and a dinner of any length.                            *)
(*                                                                         *)
(* The forks: each is with who uses it (ForksInv), and the order on the    *)
(* forks excludes a circular wait.  The meals: a sum over the philosophers *)
(* (lemmas on SumFunction) that a decrement of the counter and a meal keep *)
(* in step (MealsInv).                                                     *)
(***************************************************************************)
EXTENDS OrderedPhilosophers, FiniteSetTheorems, TLAPS

\* The two forks of a philosopher: the first one has the higher index.
LEMMA ForkOrder ==
    ASSUME NEW id \in Philosophers, N > 1
    PROVE  /\ First(id) \in Forks
           /\ Second(id) \in Forks
           /\ Second(id) < First(id)
<1>1. left(id) = IF id = N THEN 0 ELSE id
  BY DinnerAssumption DEF left, Philosophers
<1> QED
  BY <1>1, DinnerAssumption DEF First, Second, RightFirst, right, Philosophers, Forks

LEMMA TypeStep ==
    ASSUME N > 1
    PROVE  TypeOK /\ [Next]_vars => TypeOK'
<1> SUFFICES ASSUME TypeOK, [Next]_vars PROVE TypeOK'
  OBVIOUS
<1> USE DEF TypeOK
<1>1. ASSUME NEW id \in Philosophers, atomicDec(id) PROVE TypeOK'
  BY <1>1 DEF atomicDec
<1>2. ASSUME NEW id \in Philosophers, TakeFirst(id) PROVE TypeOK'
  BY <1>2 DEF TakeFirst
<1>3. ASSUME NEW id \in Philosophers, TakeSecond(id) PROVE TypeOK'
  <2>1. mangia[id] + 1 \in Nat
    OBVIOUS
  <2>2. mangia' \in [Philosophers -> Nat]
    BY <1>3, <2>1 DEF TakeSecond
  <2>3. fork' \in [Forks -> Philosophers \cup {NoOne}]
    BY <1>3 DEF TakeSecond
  <2> QED BY <1>3, <2>2, <2>3 DEF TakeSecond
<1>4. ASSUME NEW id \in Philosophers, DropSecond(id) PROVE TypeOK'
  BY <1>4 DEF DropSecond
<1>5. ASSUME NEW id \in Philosophers, DropFirst(id) PROVE TypeOK'
  BY <1>5 DEF DropFirst
<1>6. CASE UNCHANGED vars
  BY <1>6 DEF vars
<1> QED
  BY <1>1, <1>2, <1>3, <1>4, <1>5, <1>6 DEF Next, Terminated

THEOREM TypeCorrect == ASSUME N > 1 PROVE Spec => []TypeOK
<1>1. Init => TypeOK
  BY DinnerAssumption DEF Init, TypeOK
<1>2. TypeOK /\ [Next]_vars => TypeOK'
  BY TypeStep
<1> QED BY <1>1, <1>2, PTL DEF Spec

LEMMA ForksStep ==
    ASSUME N > 1
    PROVE  TypeOK /\ ForksInv /\ [Next]_vars => ForksInv'
<1> SUFFICES ASSUME TypeOK, ForksInv, [Next]_vars,
                    NEW j \in Philosophers, NEW f \in Forks
             PROVE  fork'[f] = j <=> f \in Held(j)'
  BY DEF ForksInv
<1>0. j # NoOne
  BY DEF Philosophers, NoOne
<1> USE DEF TypeOK, ForksInv
<1>1. ASSUME NEW id \in Philosophers, atomicDec(id)
      PROVE  fork'[f] = j <=> f \in Held(j)'
  BY <1>1 DEF atomicDec, Held
<1>2. ASSUME NEW id \in Philosophers, TakeFirst(id)
      PROVE  fork'[f] = j <=> f \in Held(j)'
  BY <1>0, <1>2, ForkOrder DEF TakeFirst, Held
<1>3. ASSUME NEW id \in Philosophers, TakeSecond(id)
      PROVE  fork'[f] = j <=> f \in Held(j)'
  BY <1>0, <1>3, ForkOrder DEF TakeSecond, Held
<1>4. ASSUME NEW id \in Philosophers, DropSecond(id)
      PROVE  fork'[f] = j <=> f \in Held(j)'
  <2>1. First(id) # Second(id) /\ Second(id) \in Forks
    BY ForkOrder, DinnerAssumption DEF Forks
  <2>2. fork' = [fork EXCEPT ![Second(id)] = NoOne]
    BY <1>4 DEF DropSecond
  <2>3. CASE j = id
    <3>1. Held(id) = {First(id), Second(id)} /\ Held(id)' = {First(id)}
      BY <1>4 DEF DropSecond, Held
    <3> QED BY <1>0, <2>1, <2>2, <2>3, <3>1
  <2>4. CASE j # id
    <3>1. Held(j)' = Held(j)
      BY <1>4, <2>4 DEF DropSecond, Held
    <3>2. fork[Second(id)] = id
      BY <1>4, <2>1 DEF DropSecond, Held
    <3> QED BY <1>0, <2>1, <2>2, <2>4, <3>1, <3>2
  <2> QED BY <2>3, <2>4
<1>5. ASSUME NEW id \in Philosophers, DropFirst(id)
      PROVE  fork'[f] = j <=> f \in Held(j)'
  BY <1>0, <1>5, ForkOrder DEF DropFirst, Held
<1>6. CASE UNCHANGED vars
  BY <1>6 DEF vars, Held
<1> QED
  BY <1>1, <1>2, <1>3, <1>4, <1>5, <1>6 DEF Next, Terminated

(* Every fork is locked by exactly the philosopher whose position in the   *)
(* loop says he holds it.                                                  *)
THEOREM ForksCorrect == ASSUME N > 1 PROVE Spec => []ForksInv
<1>1. Init => ForksInv
  BY DEF Init, ForksInv, Held, Philosophers, NoOne
<1>2. TypeOK /\ ForksInv /\ [Next]_vars => ForksInv'
  BY ForksStep
<1>3. Spec => []TypeOK
  BY TypeCorrect
<1> QED BY <1>1, <1>2, <1>3, PTL DEF Spec

(* Two philosophers with a fork in common never eat together.              *)
THEOREM NeighboursCorrect == ASSUME N > 1 PROVE Spec => []NeighboursDontEat
<1>1. ForksInv => NeighboursDontEat
  <2> SUFFICES ASSUME ForksInv, NEW i \in Philosophers, NEW j \in Philosophers,
                      pc[i] = "eat", pc[j] = "eat", i # j,
                      NEW f \in {First(i), Second(i)},
                      f \in {First(j), Second(j)}
               PROVE  FALSE
    BY DEF NeighboursDontEat
  <2>1. f \in Forks
    BY ForkOrder
  <2>2. fork[f] = i /\ fork[f] = j
    BY <2>1 DEF ForksInv, Held
  <2> QED BY <2>2
<1>2. Spec => []ForksInv
  BY ForksCorrect
<1> QED BY <1>1, <1>2, PTL

\* A non-empty set of natural numbers has a least element.
LEMMA Least ==
    ASSUME NEW S, S \subseteq Nat, S # {}
    PROVE  \E x \in S : \A y \in S : ~(y < x)
<1>1. PICK x \in S : \A y \in S : ~(<<y, x>> \in OpToRel(<, Nat))
  BY NatLessThanWellFounded, WFMin
<1> QED BY <1>1 DEF OpToRel

(* The dinner never stops before its end: whatever forks are taken, some   *)
(* philosopher who has not left can take his next step.  Otherwise take    *)
(* the lowest fork that somebody waits for as his second one: its owner    *)
(* holds it as his first, so he waits for a still lower one.               *)
THEOREM NoCircularWait == ASSUME N > 1 PROVE Spec => []SomeoneCanMove
<1>1. TypeOK /\ ForksInv => SomeoneCanMove
  <2> SUFFICES ASSUME TypeOK, ForksInv,
                      \A id \in Philosophers : ~CanMove(id)
               PROVE  AllExited
    BY DEF SomeoneCanMove
  <2> DEFINE Waiting == {id \in Philosophers : pc[id] = "second"}
             Wanted == {Second(id) : id \in Waiting}
  <2>1. ASSUME NEW f \in Forks, fork[f] # NoOne
        PROVE  fork[f] \in Waiting /\ f = First(fork[f])
    <3>1. fork[f] \in Philosophers /\ f \in Held(fork[f])
      BY <2>1 DEF TypeOK, ForksInv
    <3> QED BY <3>1 DEF Held, CanMove
  <2>2. Waiting = {}
    <3> SUFFICES ASSUME Waiting # {} PROVE FALSE
      OBVIOUS
    <3>1. Wanted \subseteq Nat /\ Wanted # {}
      BY ForkOrder DEF Forks
    <3>2. PICK f \in Wanted : \A g \in Wanted : ~(g < f)
      BY <3>1, Least
    <3>3. PICK id \in Waiting : f = Second(id)
      BY <3>2
    <3>4. f \in Forks /\ fork[f] # NoOne
      BY <3>3, ForkOrder DEF CanMove
    <3>5. fork[f] \in Waiting /\ f = First(fork[f])
      BY <2>1, <3>4
    <3>6. Second(fork[f]) \in Wanted /\ Second(fork[f]) < f
      BY <3>5, ForkOrder
    <3> QED BY <3>2, <3>6
  <2>3. ASSUME NEW id \in Philosophers PROVE pc[id] # "think"
    BY <2>1, <2>2, ForkOrder DEF CanMove
  <2> QED BY <2>2, <2>3 DEF AllExited, CanMove, TypeOK
<1>2. Spec => []ForksInv
  BY ForksCorrect
<1>3. Spec => []TypeOK
  BY TypeCorrect
<1> QED BY <1>1, <1>2, <1>3, PTL

-----------------------------------------------------------------------------
(* SumFunction adds the values of a function by recursion on the subsets   *)
(* of its domain, taking out one element at a time.                        *)
Pick(s) == CHOOSE x \in s : TRUE
SumStep(g, f, s) == IF s = {} THEN 0 ELSE f[Pick(s)] + g[s \ {Pick(s)}]
IsSum(g, f) == g = [s \in SUBSET Philosophers |-> SumStep(g, f, s)]

\* The philosophers are finitely many, and so are those in a set of them.
LEMMA PhilosophersFinite ==
    ASSUME NEW s \in SUBSET Philosophers
    PROVE  /\ IsFiniteSet(s)
           /\ Cardinality(s) \in Nat
           /\ Cardinality(s) = 0 <=> s = {}
           /\ s # {} => /\ Pick(s) \in s
                        /\ s \ {Pick(s)} \in SUBSET Philosophers
                        /\ Cardinality(s \ {Pick(s)}) = Cardinality(s) - 1
<1>1. 1 \in Int /\ N \in Int
  BY DinnerAssumption
<1>2. IsFiniteSet(Philosophers)
  BY <1>1, FS_Interval DEF Philosophers
<1>3. IsFiniteSet(s)
  BY <1>2, FS_Subset
<1>4. s # {} => Pick(s) \in s
  BY DEF Pick
<1> QED BY <1>3, <1>4, FS_CardinalityType, FS_EmptySet, FS_RemoveElement

\* The recursion has a solution: one for each size of the subsets, in turn.
LEMMA SumExists ==
    ASSUME NEW f
    PROVE  \E g : IsSum(g, f)
<1> DEFINE Upto(k) == {s \in SUBSET Philosophers : Cardinality(s) <= k}
           Bad == {k \in Nat : ~\E g : g = [s \in Upto(k) |-> SumStep(g, f, s)]}
<1>1. ASSUME NEW k \in Bad, \A j \in Bad : ~(j < k) PROVE FALSE
  <2>1. CASE k = 0
    <3> DEFINE h == [s \in Upto(k) |-> 0]
    <3>1. \A s \in Upto(k) : SumStep(h, f, s) = 0
      BY <2>1, PhilosophersFinite DEF SumStep
    <3>2. h = [s \in Upto(k) |-> SumStep(h, f, s)]
      BY <3>1, Zenon
    <3> QED BY <3>2
  <2>2. CASE k > 0
    <3>1. k - 1 \in Nat /\ k - 1 < k
      BY <2>2
    <3>2. PICK g : g = [s \in Upto(k - 1) |-> SumStep(g, f, s)]
      <4>1. k - 1 \notin Bad
        <5> HIDE DEF Bad
        <5> QED BY <1>1, <3>1
      <4> QED BY <3>1, <4>1
    <3> DEFINE h == [s \in Upto(k) |-> SumStep(g, f, s)]
    <3>3. ASSUME NEW s \in Upto(k), s # {} PROVE h[s \ {Pick(s)}] = g[s \ {Pick(s)}]
      <4>1. s \ {Pick(s)} \in Upto(k - 1) /\ s \ {Pick(s)} \in Upto(k)
        BY <3>3, <3>1, PhilosophersFinite
      <4> HIDE DEF Upto
      <4> QED BY <4>1, <3>2
    <3> HIDE DEF Upto
    <3>4. h = [s \in Upto(k) |-> SumStep(g, f, s)]
      OBVIOUS
    <3> HIDE DEF h
    <3>5. \A s \in Upto(k) : SumStep(h, f, s) = SumStep(g, f, s)
      BY <3>3 DEF SumStep
    <3>6. h = [s \in Upto(k) |-> SumStep(h, f, s)]
      BY <3>4, <3>5, Zenon
    <3> QED BY <3>6
  <2> QED BY <2>1, <2>2
<1>2. Bad = {}
  <2> HIDE DEF Bad
  <2>1. Bad \subseteq Nat
    BY DEF Bad
  <2> QED BY <1>1, <2>1, Least
<1>3. N \in Nat /\ N \notin Bad
  BY <1>2, DinnerAssumption
<1>4. PICK g : g = [s \in Upto(N) |-> SumStep(g, f, s)]
  BY <1>3
<1>5. Upto(N) = SUBSET Philosophers
  <2>1. 1 \in Int /\ N \in Int /\ ~(1 > N) /\ N - 1 + 1 = N
    BY DinnerAssumption
  <2>2. IsFiniteSet(Philosophers) /\ Cardinality(Philosophers) = N
    BY <2>1, FS_Interval DEF Philosophers
  <2> QED BY <2>2, FS_Subset
<1> QED BY <1>4, <1>5 DEF IsSum

\* What SumFunction returns is what that recursion returns.
LEMMA SumDef ==
    ASSUME NEW f, DOMAIN f = Philosophers
    PROVE  \E g : IsSum(g, f) /\ SumFunction(f) = g[Philosophers]
<1>1. SumFunction(f) = (CHOOSE g : IsSum(g, f))[Philosophers]
  BY Zenon DEF SumFunction, SumFunctionOnSet, FoldFunctionOnSet, MapThenFoldSet, SumStep, Pick, IsSum
<1> QED BY <1>1, SumExists, Zenon

\* A set of sets of philosophers that is not empty has one of least size.
LEMMA Smallest ==
    ASSUME NEW B \in SUBSET SUBSET Philosophers, B # {}
    PROVE  \E s \in B : s # {} => s \ {Pick(s)} \notin B
<1> DEFINE Sizes == {Cardinality(s) : s \in B}
<1>1. Sizes \subseteq Nat /\ Sizes # {}
  <2>1. \A s \in B : Cardinality(s) \in Nat
    BY PhilosophersFinite
  <2> QED BY <2>1
<1>2. PICK k \in Sizes : \A j \in Sizes : ~(j < k)
  BY <1>1, Least
<1>3. PICK s \in B : Cardinality(s) = k
  BY <1>2
<1>4. ASSUME s # {}, s \ {Pick(s)} \in B PROVE FALSE
  <2>1. Cardinality(s \ {Pick(s)}) \in Sizes
    BY <1>4
  <2>2. Cardinality(s \ {Pick(s)}) = Cardinality(s) - 1 /\ Cardinality(s) \in Nat
    BY <1>4, PhilosophersFinite
  <2> QED BY <1>2, <1>3, <2>1, <2>2
<1> QED BY <1>3, <1>4

\* The sum of zeros is zero.
LEMMA SumZero ==
    SumFunction([id \in Philosophers |-> 0]) = 0
<1> DEFINE f == [id \in Philosophers |-> 0]
<1>1. PICK g : IsSum(g, f) /\ SumFunction(f) = g[Philosophers]
  BY SumDef
<1> DEFINE B == {s \in SUBSET Philosophers : g[s] # 0}
<1>2. ASSUME NEW s \in B, s # {} => s \ {Pick(s)} \notin B PROVE FALSE
  <2>1. s \in SUBSET Philosophers /\ g[s] # 0
    BY <1>2
  <2>2. s # {} => g[s] = 0 + g[s \ {Pick(s)}] /\ g[s \ {Pick(s)}] = 0
    <3>1. s # {} => Pick(s) \in Philosophers /\ s \ {Pick(s)} \in SUBSET Philosophers
      BY <2>1, PhilosophersFinite
    <3> QED BY <1>1, <1>2, <2>1, <3>1 DEF IsSum, SumStep
  <2>3. s = {} => g[s] = 0
    BY <1>1, <2>1 DEF IsSum, SumStep
  <2> QED BY <2>1, <2>2, <2>3
<1>3. B = {}
  BY <1>2, Smallest
<1> QED BY <1>1, <1>3

\* The sum of natural numbers is one, over any set of philosophers.
LEMMA SumNat ==
    ASSUME NEW f \in [Philosophers -> Nat], NEW g, IsSum(g, f)
    PROVE  \A s \in SUBSET Philosophers : g[s] \in Nat
<1> DEFINE B == {s \in SUBSET Philosophers : g[s] \notin Nat}
<1>1. ASSUME NEW s \in B, s # {} => s \ {Pick(s)} \notin B PROVE FALSE
  <2>1. s \in SUBSET Philosophers /\ g[s] \notin Nat
    BY <1>1
  <2>2. s # {} => /\ g[s] = f[Pick(s)] + g[s \ {Pick(s)}]
                  /\ f[Pick(s)] \in Nat /\ g[s \ {Pick(s)}] \in Nat
    <3>1. s # {} => Pick(s) \in Philosophers /\ s \ {Pick(s)} \in SUBSET Philosophers
      BY <2>1, PhilosophersFinite
    <3> QED BY <1>1, <2>1, <3>1 DEF IsSum, SumStep
  <2>3. s = {} => g[s] = 0
    BY <2>1 DEF IsSum, SumStep
  <2> QED BY <2>1, <2>2, <2>3
<1>2. B = {}
  BY <1>1, Smallest
<1> QED BY <1>2

\* One more at one place is one more in the sum.
LEMMA SumIncrement ==
    ASSUME NEW f \in [Philosophers -> Nat], NEW id \in Philosophers
    PROVE  /\ SumFunction(f) \in Nat
           /\ SumFunction([f EXCEPT ![id] = @ + 1]) = SumFunction(f) + 1
<1> DEFINE h == [f EXCEPT ![id] = @ + 1]
<1>1. PICK g : IsSum(g, f) /\ SumFunction(f) = g[Philosophers]
  BY SumDef
<1>2. PICK k : IsSum(k, h) /\ SumFunction(h) = k[Philosophers]
  BY SumDef
<1>3. \A s \in SUBSET Philosophers : g[s] \in Nat
  BY <1>1, SumNat
<1> DEFINE plus(s) == IF id \in s THEN 1 ELSE 0
           B == {s \in SUBSET Philosophers : k[s] # g[s] + plus(s)}
<1>4. ASSUME NEW s \in B, s # {} => s \ {Pick(s)} \notin B PROVE FALSE
  <2>1. CASE s = {}
    BY <1>1, <1>2, <1>4, <2>1 DEF IsSum, SumStep
  <2>2. CASE s # {}
    <3> DEFINE x == Pick(s)
               r == s \ {x}
    <3>1. x \in s /\ r \in SUBSET Philosophers /\ s \in SUBSET Philosophers
      BY <2>2, PhilosophersFinite
    <3>2. g[s] = f[x] + g[r] /\ k[s] = h[x] + k[r]
      BY <1>1, <1>2, <2>2, <3>1 DEF IsSum, SumStep
    <3>3. k[r] = g[r] + plus(r)
      BY <1>4, <2>2, <3>1
    <3>4. plus(s) = plus(r) + (IF x = id THEN 1 ELSE 0)
      BY <3>1
    <3>5. h[x] = f[x] + (IF x = id THEN 1 ELSE 0) /\ f[x] \in Nat
      BY <3>1
    <3>6. k[s] # g[s] + plus(s)
      BY <1>4
    <3>7. g[r] \in Nat /\ plus(r) \in Nat
      BY <1>3, <3>1
    <3> HIDE DEF x, r, plus, h
    <3> QED BY <3>2, <3>3, <3>4, <3>5, <3>6, <3>7
  <2> QED BY <2>1, <2>2
<1>5. B = {}
  BY <1>4, Smallest
<1> QED BY <1>1, <1>2, <1>3, <1>5

-----------------------------------------------------------------------------
\* The meals had or about to be had, and the philosophers who have left.
About == {id \in Philosophers : pc[id] \in {"think", "second"}}
Gone == {id \in Philosophers : pc[id] = "exit"}
Taken == SumFunction(mangia) + Cardinality(About)

(* The inductive form of MealsAccounting: there are never more meals than  *)
(* ITER, also while nobody has left yet.                                   *)
MealsInv ==
    /\ iter = ITER - Taken - Cardinality(Gone)
    /\ iter > 0 => Gone = {}
    /\ Gone # {} => Taken = ITER
    /\ Taken <= ITER

\* A decrement is a meal about to be had or a departure, a meal had is counted.
LEMMA MealsStep ==
    ASSUME N > 1
    PROVE  TypeOK /\ TypeOK' /\ MealsInv /\ [Next]_vars => MealsInv'
<1> SUFFICES ASSUME TypeOK, TypeOK', MealsInv, [Next]_vars PROVE MealsInv'
  OBVIOUS
<1>0. /\ IsFiniteSet(About) /\ Cardinality(About) \in Nat
      /\ IsFiniteSet(Gone) /\ Cardinality(Gone) \in Nat
      /\ SumFunction(mangia) \in Nat /\ Taken \in Nat
      /\ iter \in Int /\ ITER \in Nat
  <2>1. 1 \in Philosophers
    BY DinnerAssumption DEF Philosophers
  <2>2. SumFunction(mangia) \in Nat
    BY <2>1, SumIncrement DEF TypeOK
  <2>3. About \in SUBSET Philosophers /\ Gone \in SUBSET Philosophers
    BY DEF About, Gone
  <2>4. IsFiniteSet(About) /\ Cardinality(About) \in Nat
    BY <2>3, PhilosophersFinite
  <2>5. IsFiniteSet(Gone) /\ Cardinality(Gone) \in Nat
    BY <2>3, PhilosophersFinite
  <2> QED BY <2>2, <2>4, <2>5, DinnerAssumption DEF Taken, TypeOK
<1>1. ASSUME NEW id \in Philosophers, atomicDec(id) PROVE MealsInv'
  <2>1. mangia' = mangia /\ iter' = iter - 1 /\ id \notin About /\ id \notin Gone
    BY <1>1 DEF atomicDec, About, Gone
  <2>2. CASE iter > 0
    <3>1. About' = About \cup {id} /\ Gone' = Gone
      BY <1>1, <2>2 DEF atomicDec, About, Gone, TypeOK
    <3>2. Cardinality(About') = Cardinality(About) + 1
      BY <1>0, <2>1, <3>1, FS_AddElement
    <3>3. Taken' = Taken + 1
      BY <1>0, <2>1, <3>2 DEF Taken
    <3>4. Gone = {} /\ Cardinality(Gone) = 0
      BY <2>2, FS_EmptySet DEF MealsInv
    <3> QED BY <1>0, <2>1, <2>2, <3>1, <3>3, <3>4 DEF MealsInv
  <2>3. CASE ~(iter > 0)
    <3>1. About' = About /\ Gone' = Gone \cup {id}
      BY <1>0, <1>1, <2>3 DEF atomicDec, About, Gone, TypeOK
    <3>2. Cardinality(Gone') = Cardinality(Gone) + 1
      BY <1>0, <2>1, <3>1, FS_AddElement
    <3>3. Taken' = Taken
      BY <2>1, <3>1 DEF Taken
    <3>4. Taken = ITER
      <4>1. Gone = {} => Cardinality(Gone) = 0
        BY FS_EmptySet
      <4> QED BY <1>0, <2>3, <4>1 DEF MealsInv
    <3> QED BY <1>0, <2>1, <2>3, <3>2, <3>3, <3>4 DEF MealsInv
  <2> QED BY <2>2, <2>3
<1>2. ASSUME About' = About, Gone' = Gone, mangia' = mangia, iter' = iter PROVE MealsInv'
  <2>1. Taken' = Taken
    BY <1>2 DEF Taken
  <2> QED BY <1>2, <2>1 DEF MealsInv
<1>3. ASSUME NEW id \in Philosophers, TakeFirst(id) PROVE MealsInv'
  <2>1. About' = About /\ Gone' = Gone
    BY <1>3 DEF TakeFirst, About, Gone, TypeOK
  <2> QED BY <1>2, <1>3, <2>1 DEF TakeFirst
<1>4. ASSUME NEW id \in Philosophers, TakeSecond(id) PROVE MealsInv'
  <2>1. About' = About \ {id} /\ Gone' = Gone /\ id \in About /\ iter' = iter
    BY <1>4 DEF TakeSecond, About, Gone, TypeOK
  <2>2. Cardinality(About') = Cardinality(About) - 1
    BY <1>0, <2>1, FS_RemoveElement
  <2>3. SumFunction(mangia') = SumFunction(mangia) + 1
    BY <1>4, SumIncrement DEF TakeSecond, TypeOK
  <2>4. Taken' = Taken
    BY <1>0, <2>2, <2>3 DEF Taken
  <2> QED BY <2>1, <2>4 DEF MealsInv
<1>5. ASSUME NEW id \in Philosophers, DropSecond(id) PROVE MealsInv'
  <2>1. About' = About /\ Gone' = Gone
    BY <1>5 DEF DropSecond, About, Gone, TypeOK
  <2> QED BY <1>2, <1>5, <2>1 DEF DropSecond
<1>6. ASSUME NEW id \in Philosophers, DropFirst(id) PROVE MealsInv'
  <2>1. About' = About /\ Gone' = Gone
    BY <1>6 DEF DropFirst, About, Gone, TypeOK
  <2> QED BY <1>2, <1>6, <2>1 DEF DropFirst
<1>7. CASE UNCHANGED vars
  BY <1>2, <1>7 DEF vars, About, Gone
<1> QED BY <1>1, <1>3, <1>4, <1>5, <1>6, <1>7 DEF Next, Terminated

(* The dinner is ITER meals in all, whoever eats them and in whatever      *)
(* order the philosophers decrement the counter; each leaves when it is    *)
(* used up, not before.                                                    *)
THEOREM DinnerIsITERMeals == ASSUME N > 1 PROVE Spec => []MealsAccounting
<1>1. Init => MealsInv
  <2> SUFFICES ASSUME Init PROVE MealsInv
    OBVIOUS
  <2>1. About = {} /\ Gone = {} /\ SumFunction(mangia) = 0
    BY SumZero DEF Init, About, Gone
  <2> QED BY <2>1, FS_EmptySet, DinnerAssumption DEF Init, MealsInv, Taken
<1>2. TypeOK /\ TypeOK' /\ MealsInv /\ [Next]_vars => MealsInv'
  BY MealsStep
<1>3. MealsInv => MealsAccounting
  BY DEF MealsInv, MealsAccounting, Taken, About, Gone
<1>4. Spec => []TypeOK
  BY TypeCorrect
<1> QED BY <1>1, <1>2, <1>3, <1>4, PTL DEF Spec
=============================================================================
