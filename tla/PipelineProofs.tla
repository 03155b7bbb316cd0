--------------------------- MODULE PipelineProofs ---------------------------
(***************************************************************************)
(* Proofs about pipeline.c for any file, any size of the queues and of the *)
(* table, and any number of failing allocations.                           *)
(*                                                                         *)
(* First the two recursive definitions: the words of a line (strtok_r) and *)
(* the entries of the table in the order of icl_hash_foreach.  Then the    *)
(* inductive invariant PipelineInv.  Control says where the stages are;    *)
(* EndsAreLast that EOS is behind everything in both queues, and that who  *)
(* has it finds nothing else; Once that each line, and each word of it, is *)
(* in at most one place; Kept that each word that has left Stage2 is in    *)
(* Q2, in the table (it or an equal one), or was lost; TableSound that     *)
(* equal words meet in one bucket; TableKept that the table is destroyed   *)
(* if it has had a word and only then.  OneOwner is inductive with these,  *)
(* and UniqueWords follows.                                                *)
(***************************************************************************)
EXTENDS Pipeline, TLAPS, FiniteSetTheorems, SequenceTheorems

Strings == DOMAIN hash
LineNumbers == 1 .. Len(file)
\* The words of the file, by line and place.
Places == {t \in Nat \X Nat : t[1] \in LineNumbers /\ t[2] \in 1 .. Len(tokens(t[1]))}

Has(s, x) == \E i \in 1 .. Len(s) : s[i] = x
Distinct(s) == \A i, j \in 1 .. Len(s) : i # j => s[i] # s[j]

\* What the table holds.
InTable == IF table = NULL THEN {} ELSE UNION {ToSet(table[b]) : b \in buckets}

\* The words that Stage2 has pushed, or lost.
Split(t) == /\ t[1] < line /\ ~Has(items1, t[1])
            /\ k > 0 /\ t[1] = InHand => t[2] < k

Types ==
    /\ items1 \in Seq(LineNumbers \cup {EOS})
    /\ op1 \in [{"Stage1", "Stage2"} -> {"idle", "push", "pop"}]
    /\ val1 \in [{"Stage1", "Stage2"} -> LineNumbers \cup {EOS, NULL}]
    /\ items2 \in Seq(Places \cup {EOS})
    /\ op2 \in [{"Stage2", "Stage3"} -> {"idle", "push", "pop"}]
    /\ val2 \in [{"Stage2", "Stage3"} -> Places \cup {EOS, NULL}]
    /\ line \in 1 .. Len(file) + 1
    /\ k \in Nat
    /\ table # NULL => table \in [buckets -> Seq(Places)]
    /\ lost \subseteq Places
    /\ deleted \in BOOLEAN

Control ==
    /\ op1["Stage1"] # "pop" /\ op1["Stage2"] # "push"
    /\ op2["Stage2"] # "pop" /\ op2["Stage3"] # "push"
    /\ op1["Stage1"] = "push" => val1["Stage1"] = EOS \/ (val1["Stage1"] = line /\ line \in LineNumbers)
    /\ val1["Stage1"] = EOS => Buffer \notin heap
    /\ op1["Stage2"] = "pop" => k = 0 /\ op2["Stage2"] = "idle" /\ InHand # EOS
    /\ k > 0 => op1["Stage2"] = "idle" /\ InHand \in LineNumbers \cup {EOS}
    /\ op2["Stage2"] = "push" =>
          /\ k > 0
          /\ \/ InHand = EOS /\ val2["Stage2"] = EOS
             \/ /\ InHand \in LineNumbers /\ k <= Len(tokens(InHand))
                /\ val2["Stage2"] = <<InHand, k>>
    /\ val2["Stage2"] = EOS => InHand = EOS /\ (op2["Stage2"] = "idle" => k = 0)
    /\ printed # NULL => val2["Stage3"] = EOS
    /\ op2["Stage3"] = "pop" => printed = NULL
    /\ val2["Stage3"] = EOS => printed # NULL
    /\ deleted => Ended

Sent1 == op1["Stage1"] = "idle" /\ val1["Stage1"] = EOS
Sent2 == op2["Stage2"] = "idle" /\ val2["Stage2"] = EOS

EndsAreLast ==
    /\ \A i \in 1 .. Len(items1) : items1[i] = EOS => i = Len(items1) /\ Sent1
    /\ InHand = EOS => items1 = <<>> /\ Sent1
    /\ \A i \in 1 .. Len(items2) : items2[i] = EOS => i = Len(items2) /\ Sent2
    /\ printed # NULL => items2 = <<>> /\ Sent2

LinesOnce ==
    /\ Distinct(items1)
    /\ \A i \in 1 .. Len(items1) : items1[i] # EOS => items1[i] < line
    /\ k > 0 /\ InHand # EOS => InHand < line /\ ~Has(items1, InHand)

WordsOnce ==
    /\ Distinct(items2)
    /\ \A t \in Places : Has(items2, t) => Split(t) /\ t \notin lost /\ t \notin InTable
    /\ \A t \in lost : Split(t)
    /\ \A t \in InTable : Split(t) /\ t \notin lost

Once == LinesOnce /\ WordsOnce

Kept ==
    table # NULL =>
       \A t \in Places : Split(t) => \/ t \in lost \/ Has(items2, t)
                                    \/ \E e \in InTable : Word(e) = Word(t)

TableSound ==
    table # NULL =>
       \A b \in buckets : \A i \in 1 .. Len(table[b]) :
          /\ bucket(table[b][i]) = b
          /\ \A j \in 1 .. Len(table[b]) : i # j => Word(table[b][i]) # Word(table[b][j])

Printed ==
    printed # NULL =>
       printed = IF table = NULL THEN <<>>
                 ELSE [e \in DOMAIN icl_hash_foreach(table) |-> Word(icl_hash_foreach(table)[e])]

\* Who owns which blocks.
LinesHeld == {l \in LineNumbers : Has(items1, l) \/ (k > 0 /\ InHand = l)}
WordsHeld == {t \in Places : Has(items2, t) \/ (op2["Stage2"] = "push" /\ val2["Stage2"] = t)}
TableHeld == IF printed # NULL THEN {} ELSE InTable

\* The table is there until it is destroyed, which it is with its words only.
TableKept ==
    /\ inserted \in BOOLEAN
    /\ ~inserted => InTable = {}
    /\ Table \in heap <=> table # NULL /\ (printed = NULL \/ ~inserted)

Owners ==
    /\ \A x \in heap : \/ x = Buffer \/ x = Table \/ x \in WordsHeld \/ x \in TableHeld \/ x \in lost
                       \/ \E l \in LinesHeld : x = <<l, 0>>
    /\ \A l \in LinesHeld : <<l, 0>> \in heap
    /\ WordsHeld \subseteq heap /\ TableHeld \subseteq heap

PipelineInv == Types /\ Control /\ EndsAreLast /\ Once /\ Kept /\ TableSound /\ Printed /\ TableKept
               /\ Owners
-----------------------------------------------------------------------------
(* A set of numbers that is not empty has a smallest element: induction,   *)
(* stated without an operator as parameter.                                *)
LEMMA Smallest ==
    ASSUME NEW T \in SUBSET Nat, T # {}
    PROVE  \E x \in T : \A y \in T : x <= y
<1>1. PICK x \in T : \A y \in T : ~(<<y, x>> \in OpToRel(<, Nat))
  BY NatLessThanWellFounded, WFMin
<1>2. \A y \in T : ~(y < x)
  BY <1>1 DEF OpToRel
<1> QED BY <1>2

\* One more token, or none, for each word or run of blanks of the line s.
Found(f, s, j) == IF j = 0 THEN <<>>
                  ELSE IF s[j] = Blank THEN f[j - 1]
                  ELSE Append(f[j - 1], s[j])

\* The recursive definition in tokens has a solution.
LEMMA FoundExists ==
    ASSUME NEW s, Len(s) \in Nat
    PROVE  \E f : f = [j \in 0 .. Len(s) |-> Found(f, s, j)]
<1> DEFINE Bad == {m \in Nat : ~\E f : f = [j \in 0 .. m |-> Found(f, s, j)]}
<1>1. ASSUME NEW m \in Bad, \A j \in Bad : m <= j PROVE FALSE
  <2>1. CASE m = 0
    <3> DEFINE f == [j \in 0 .. m |-> <<>>]
    <3>1. f = [j \in 0 .. m |-> Found(f, s, j)]
      BY <2>1 DEF Found
    <3> QED BY <3>1
  <2>2. CASE m > 0
    <3>1. m - 1 \in Nat /\ m - 1 \notin Bad
      BY <1>1, <2>2
    <3>2. PICK g : g = [j \in 0 .. m - 1 |-> Found(g, s, j)]
      BY <3>1
    <3> DEFINE f == [j \in 0 .. m |-> Found(g, s, j)]
    <3>3. ASSUME NEW j \in 0 .. m, j # 0 PROVE f[j - 1] = g[j - 1]
      <4>1. j - 1 \in 0 .. m - 1 /\ j - 1 \in 0 .. m
        BY <3>3, <1>1, <2>2
      <4>2. g[j - 1] = Found(g, s, j - 1)
        BY <3>2, <4>1, Zenon
      <4> QED BY <4>1, <4>2
    <3>4. f = [j \in 0 .. m |-> Found(g, s, j)]
      OBVIOUS
    <3> HIDE DEF f
    <3>5. \A j \in 0 .. m : Found(f, s, j) = Found(g, s, j)
      BY <3>3 DEF Found
    <3>6. f = [j \in 0 .. m |-> Found(f, s, j)]
      BY <3>4, <3>5, Zenon
    <3> QED BY <3>6
  <2> QED BY <1>1, <2>1, <2>2
<1>2. Bad = {}
  BY <1>1, Smallest
<1> QED BY <1>2

\* What strtok_r finds in a line are strings, and nothing in an empty one.
LEMMA TokenFacts ==
    ASSUME NEW l \in LineNumbers
    PROVE  tokens(l) \in Seq(Strings) /\ (file[l] = <<>> => tokens(l) = <<>>)
<1> DEFINE s == file[l]
<1>0. s \in Seq(Strings \cup {Blank}) /\ Len(s) \in Nat
  BY PipelineAssumption DEF LineNumbers, Strings
<1>1. PICK f : f = [j \in 0 .. Len(s) |-> Found(f, s, j)]
             /\ tokens(l) = f[Len(s)]
  <2> DEFINE f == CHOOSE f : f = [j \in 0 .. Len(file[l]) |-> Found(f, file[l], j)]
  <2>1. f = [j \in 0 .. Len(file[l]) |-> Found(f, file[l], j)]
    BY <1>0, FoundExists, Zenon
  <2>2. tokens(l) = f[Len(file[l])]
    BY Zenon DEF tokens, Found
  <2> QED BY <2>1, <2>2, Zenon
<1> HIDE DEF s
<1> DEFINE Bad == {j \in 0 .. Len(s) : f[j] \notin Seq(Strings)}
<1>2. ASSUME NEW m \in Bad, \A j \in Bad : m <= j PROVE FALSE
  <2>0. m \in 0 .. Len(s) /\ m \in Nat /\ f[m] = Found(f, s, m) /\ f[m] \notin Seq(Strings)
    BY <1>0, <1>1
  <2>1. CASE m = 0
    BY <2>0, <2>1 DEF Found
  <2>2. CASE m > 0
    <3>1. m - 1 \in 0 .. Len(s) /\ m - 1 \notin Bad
      BY <1>0, <1>2, <2>0, <2>2
    <3>2. f[m - 1] \in Seq(Strings) /\ s[m] \in Strings \cup {Blank}
      BY <1>0, <3>1, <2>0, <2>2
    <3> HIDE DEF Bad
    <3> QED BY <2>0, <2>2, <3>2 DEF Found
  <2> QED BY <2>0, <2>1, <2>2
<1>3. Bad = {}
  <2>1. Bad \subseteq Nat
    BY <1>0
  <2> HIDE DEF Bad
  <2> QED BY <1>2, <2>1, Smallest
<1>4. s = <<>> => f[Len(s)] = <<>>
  BY <1>1 DEF Found
<1>5. Len(s) \in 0 .. Len(s)
  BY <1>0
<1>6. f[Len(s)] \in Seq(Strings)
  BY <1>3, <1>5, Zenon
<1> QED BY <1>1, <1>4, <1>6 DEF s
-----------------------------------------------------------------------------
\* The concatenation of two sequences.
LEMMA ConcatFacts ==
    ASSUME NEW T, NEW u \in Seq(T), NEW v \in Seq(T)
    PROVE  /\ u \o v \in Seq(T) /\ Len(u \o v) = Len(u) + Len(v)
           /\ Len(u) \in Nat /\ Len(v) \in Nat
           /\ \A i \in 1 .. Len(u) : (u \o v)[i] = u[i]
           /\ \A i \in 1 .. Len(v) : (u \o v)[Len(u) + i] = v[i]
           /\ \A x : Has(u \o v, x) <=> Has(u, x) \/ Has(v, x)
<1>1. /\ u \o v \in Seq(T) /\ Len(u \o v) = Len(u) + Len(v)
      /\ Len(u) \in Nat /\ Len(v) \in Nat
  BY ConcatProperties
<1>2. \A i \in 1 .. Len(u) : (u \o v)[i] = u[i] /\ i \in 1 .. Len(u \o v)
  BY <1>1, ConcatProperties
<1>3. \A i \in 1 .. Len(v) : (u \o v)[Len(u) + i] = v[i] /\ Len(u) + i \in 1 .. Len(u \o v)
  BY <1>1, ConcatProperties
<1>4. \A i \in 1 .. Len(u \o v) :
         \/ i \in 1 .. Len(u)
         \/ i - Len(u) \in 1 .. Len(v) /\ i = Len(u) + (i - Len(u))
  BY <1>1
<1>5. ASSUME NEW x PROVE Has(u \o v, x) <=> Has(u, x) \/ Has(v, x)
  <2>1. ASSUME NEW i \in 1 .. Len(u \o v), (u \o v)[i] = x PROVE Has(u, x) \/ Has(v, x)
    BY <1>2, <1>3, <1>4, <2>1 DEF Has
  <2> QED BY <1>2, <1>3, <2>1 DEF Has
<1> QED BY <1>1, <1>2, <1>3, <1>5

\* One bucket after another.
Chained(f, s, i) == IF i = 1 THEN s[i] ELSE f[i - 1] \o s[i]

\* The recursive definition in FlattenSeq has a solution.
LEMMA ChainedExists ==
    ASSUME NEW s, Len(s) \in Nat
    PROVE  \E f : f = [i \in 1 .. Len(s) |-> Chained(f, s, i)]
<1> DEFINE Bad == {m \in Nat : ~\E f : f = [i \in 1 .. m |-> Chained(f, s, i)]}
<1>1. ASSUME NEW m \in Bad, \A j \in Bad : m <= j PROVE FALSE
  <2>1. CASE m = 0
    <3> DEFINE f == [i \in 1 .. m |-> <<>>]
    <3>1. f = [i \in 1 .. m |-> Chained(f, s, i)]
      BY <2>1
    <3> QED BY <3>1
  <2>2. CASE m > 0
    <3>1. m - 1 \in Nat /\ m - 1 \notin Bad
      BY <1>1, <2>2
    <3>2. PICK g : g = [i \in 1 .. m - 1 |-> Chained(g, s, i)]
      BY <3>1
    <3> DEFINE f == [i \in 1 .. m |-> Chained(g, s, i)]
    <3>3. ASSUME NEW i \in 1 .. m, i # 1 PROVE f[i - 1] = g[i - 1]
      <4>1. i - 1 \in 1 .. m - 1 /\ i - 1 \in 1 .. m
        BY <3>3, <1>1, <2>2
      <4>2. g[i - 1] = Chained(g, s, i - 1)
        BY <3>2, <4>1, Zenon
      <4> QED BY <4>1, <4>2
    <3>4. f = [i \in 1 .. m |-> Chained(g, s, i)]
      OBVIOUS
    <3> HIDE DEF f
    <3>5. \A i \in 1 .. m : Chained(f, s, i) = Chained(g, s, i)
      BY <3>3 DEF Chained
    <3>6. f = [i \in 1 .. m |-> Chained(f, s, i)]
      BY <3>4, <3>5, Zenon
    <3> QED BY <3>6
  <2> QED BY <1>1, <2>1, <2>2
<1>2. Bad = {}
  BY <1>1, Smallest
<1> QED BY <1>2

(* FlattenSeq of sequences whose elements are told apart by g, within each *)
(* and between two: a sequence of all their elements, told apart by g.     *)
LEMMA FlattenFacts ==
    ASSUME NEW T, NEW s \in Seq(Seq(T)), s # <<>>, NEW g,
           \A a, b \in 1 .. Len(s) : \A i \in 1 .. Len(s[a]), j \in 1 .. Len(s[b]) :
              a # b \/ i # j => g[s[a][i]] # g[s[b][j]]
    PROVE  /\ FlattenSeq(s) \in Seq(T)
           /\ \A x : Has(FlattenSeq(s), x) <=> \E a \in 1 .. Len(s) : Has(s[a], x)
           /\ \A i, j \in 1 .. Len(FlattenSeq(s)) :
                 i # j => g[FlattenSeq(s)[i]] # g[FlattenSeq(s)[j]]
<1>0. /\ Len(s) \in Nat /\ Len(s) # 0
      /\ \A a \in 1 .. Len(s) : s[a] \in Seq(T) /\ Len(s[a]) \in Nat
  OBVIOUS
<1>1. PICK f : f = [i \in 1 .. Len(s) |-> Chained(f, s, i)]
             /\ FlattenSeq(s) = f[Len(s)]
  <2> DEFINE f == CHOOSE f : f = [i \in 1 .. Len(s) |-> Chained(f, s, i)]
  <2>1. f = [i \in 1 .. Len(s) |-> Chained(f, s, i)]
    <3>1. \E h : h = [i \in 1 .. Len(s) |-> Chained(h, s, i)]
      BY <1>0, ChainedExists
    <3> QED BY <3>1, Zenon
  <2>2. FlattenSeq(s) = f[Len(s)]
    <3>1. Len(s) # 0
      BY <1>0
    <3> QED BY <3>1, Zenon DEF FlattenSeq, Chained
  <2> QED BY <2>1, <2>2, Zenon
<1> DEFINE Good(m) ==
             /\ f[m] \in Seq(T)
             /\ \A x : Has(f[m], x) <=> \E a \in 1 .. m : Has(s[a], x)
             /\ \A i, j \in 1 .. Len(f[m]) : i # j => g[f[m][i]] # g[f[m][j]]
           Bad == {m \in 1 .. Len(s) : ~Good(m)}
<1>2. ASSUME NEW m \in Bad, \A j \in Bad : m <= j PROVE FALSE
  <2>0. m \in 1 .. Len(s) /\ m \in Nat /\ f[m] = Chained(f, s, m) /\ ~Good(m)
    <3> HIDE DEF Good
    <3>1. m \in 1 .. Len(s) /\ m \in Nat /\ ~Good(m)
      BY <1>0
    <3> QED BY <1>1, <3>1, Zenon
  <2>1. CASE m = 1
    <3>1. f[m] = s[1] /\ 1 \in 1 .. Len(s)
      BY <2>0, <2>1 DEF Chained
    <3>2. \A a : a \in 1 .. m <=> a = 1
      BY <2>1
    <3>3. f[m] \in Seq(T)
      BY <3>1, <1>0
    <3>4. \A x : Has(f[m], x) <=> \E a \in 1 .. m : Has(s[a], x)
      BY <3>1, <3>2, Zenon
    <3>5. \A i, j \in 1 .. Len(f[m]) : i # j => g[f[m][i]] # g[f[m][j]]
      BY <3>1
    <3> QED BY <2>0, <3>3, <3>4, <3>5
  <2>2. CASE m > 1
    <3>1. m - 1 \in 1 .. Len(s) /\ m - 1 \notin Bad
      <4> HIDE DEF Good
      <4> QED BY <1>0, <1>2, <2>0, <2>2
    <3>2. Good(m - 1)
      <4> HIDE DEF Good
      <4> QED BY <3>1
    <3> DEFINE u == f[m - 1]
               v == s[m]
    <3>3. f[m] = u \o v
      <4>1. m # 1 /\ f[m] = Chained(f, s, m)
        BY <2>0, <2>2
      <4> QED BY <4>1, Zenon DEF Chained
    <3>4. u \in Seq(T) /\ v \in Seq(T) /\ Len(u) \in Nat /\ Len(v) \in Nat
      BY <3>2, <1>0, <2>0
    <3> HIDE DEF u, v
    <3>5. /\ f[m] \in Seq(T) /\ Len(f[m]) = Len(u) + Len(v)
          /\ \A i \in 1 .. Len(u) : f[m][i] = u[i]
          /\ \A i \in 1 .. Len(v) : f[m][Len(u) + i] = v[i]
      BY <3>3, <3>4, ConcatFacts
    <3>6. \A x : Has(f[m], x) <=> Has(u, x) \/ Has(v, x)
      BY <3>3, <3>4, ConcatFacts
    <3>7. \A a : a \in 1 .. m <=> a \in 1 .. m - 1 \/ a = m
      BY <2>0, <2>2
    <3>8. \A x : Has(f[m], x) <=> \E a \in 1 .. m : Has(s[a], x)
      BY <3>2, <3>6, <3>7, Zenon DEF u, v
    <3>9. ASSUME NEW i \in 1 .. Len(u), NEW j \in 1 .. Len(v) PROVE g[u[i]] # g[v[j]]
      <4>1. Has(u, u[i])
        BY DEF Has
      <4>2. PICK a \in 1 .. m - 1 : Has(s[a], u[i])
        BY <3>2, <4>1 DEF u
      <4>3. PICK d \in 1 .. Len(s[a]) : s[a][d] = u[i]
        BY <4>2 DEF Has
      <4>4. a \in 1 .. Len(s) /\ a # m
        BY <2>0, <1>0
      <4>5. m \in 1 .. Len(s) /\ j \in 1 .. Len(s[m])
        BY <2>0 DEF v
      <4>6. \A x, y : x \in 1 .. Len(s[a]) /\ y \in 1 .. Len(s[m]) => g[s[a][x]] # g[s[m][y]]
        <5> HIDE DEF Good, Bad, u, v
        <5> QED BY <4>4, <4>5
      <4>7. g[s[a][d]] # g[s[m][j]]
        BY <4>3, <4>5, <4>6, Zenon
      <4> QED BY <4>3, <4>7 DEF v
    <3>10. \A i, j \in 1 .. Len(u) : i # j => g[u[i]] # g[u[j]]
      BY <3>2 DEF u
    <3>11. \A i, j \in 1 .. Len(v) : i # j => g[v[i]] # g[v[j]]
      BY <2>0 DEF v
    <3>12. ASSUME NEW i \in 1 .. Len(f[m])
           PROVE  \/ i \in 1 .. Len(u) /\ f[m][i] = u[i]
                  \/ \E d \in 1 .. Len(v) : i = Len(u) + d /\ f[m][i] = v[d]
      <4>1. CASE i <= Len(u)
        BY <3>4, <3>5, <4>1
      <4>2. CASE i > Len(u)
        <5> DEFINE d == i - Len(u)
        <5>1. d \in 1 .. Len(v) /\ i = Len(u) + d
          BY <3>4, <3>5, <4>2
        <5> HIDE DEF d
        <5>2. f[m][i] = v[d]
          BY <3>4, <3>5, <5>1
        <5> QED BY <5>1, <5>2
      <4> QED BY <3>4, <4>1, <4>2
    <3>13. ASSUME NEW i \in 1 .. Len(f[m]), NEW j \in 1 .. Len(f[m]), i # j
           PROVE  g[f[m][i]] # g[f[m][j]]
      <4>1. CASE f[m][i] = u[i] /\ i \in 1 .. Len(u) /\ f[m][j] = u[j] /\ j \in 1 .. Len(u)
        <5>1. g[u[i]] # g[u[j]]
          BY <3>10, <3>13, <4>1, Zenon
        <5> QED BY <4>1, <5>1
      <4>2. ASSUME NEW d \in 1 .. Len(v), f[m][j] = v[d], f[m][i] = u[i], i \in 1 .. Len(u)
            PROVE  g[f[m][i]] # g[f[m][j]]
        BY <3>9, <4>2
      <4>3. ASSUME NEW d \in 1 .. Len(v), f[m][i] = v[d], f[m][j] = u[j], j \in 1 .. Len(u)
            PROVE  g[f[m][i]] # g[f[m][j]]
        BY <3>9, <4>3
      <4>4. ASSUME NEW d \in 1 .. Len(v), f[m][i] = v[d], NEW e \in 1 .. Len(v), f[m][j] = v[e],
                   i = Len(u) + d, j = Len(u) + e
            PROVE  g[f[m][i]] # g[f[m][j]]
        <5>1. d # e
          BY <3>13, <4>4
        <5>2. g[v[d]] # g[v[e]]
          BY <3>11, <5>1, Zenon
        <5> QED BY <4>4, <5>2
      <4> QED BY <3>12, <4>1, <4>2, <4>3, <4>4
    <3> QED BY <2>0, <3>5, <3>8, <3>13
  <2> QED BY <2>0, <2>1, <2>2
<1>3. Bad = {}
  <2>1. Bad \subseteq Nat
    BY <1>0
  <2> HIDE DEF Bad
  <2> QED BY <1>2, <2>1, Smallest
<1>4. Len(s) \in 1 .. Len(s)
  BY <1>0
<1>5. Good(Len(s))
  <2> HIDE DEF Good
  <2> QED BY <1>3, <1>4
<1> QED BY <1>1, <1>5, Zenon

-----------------------------------------------------------------------------
\* Places of words, and the marks that are none.
LEMMA PlaceFacts ==
    /\ EOS \notin LineNumbers /\ EOS \notin Places /\ EOS # NULL
    /\ Len(file) \in Nat /\ NBUCKETS \in Nat \ {0} /\ buckets = 0 .. NBUCKETS - 1
    /\ \A l \in LineNumbers : \A j \in 1 .. Len(tokens(l)) : <<l, j>> \in Places
    /\ \A l \in LineNumbers : Len(tokens(l)) \in Nat
    /\ \A t \in Places : /\ t = <<t[1], t[2]>> /\ t[1] \in LineNumbers
                          /\ t[2] \in 1 .. Len(tokens(t[1])) /\ t[2] \in Nat
                          /\ Word(t) \in Strings /\ bucket(t) \in buckets
<1>1. /\ Len(file) \in Nat /\ NBUCKETS \in Nat \ {0}
      /\ EOS # NULL /\ EOS \notin Nat /\ EOS \notin Nat \X Nat
      /\ LineNumbers \subseteq Nat
  BY PipelineAssumption, MarksAssumption DEF LineNumbers
<1>2. \A l \in LineNumbers : tokens(l) \in Seq(Strings) /\ Len(tokens(l)) \in Nat
  BY TokenFacts
<1>3. ASSUME NEW l \in LineNumbers, NEW j \in 1 .. Len(tokens(l)) PROVE <<l, j>> \in Places
  BY <1>1, <1>2 DEF Places
<1>4. ASSUME NEW t \in Places
      PROVE  /\ t = <<t[1], t[2]>> /\ t[1] \in LineNumbers
             /\ t[2] \in 1 .. Len(tokens(t[1])) /\ t[2] \in Nat
             /\ Word(t) \in Strings /\ bucket(t) \in buckets
  <2>1. /\ t = <<t[1], t[2]>> /\ t[1] \in LineNumbers
        /\ t[2] \in 1 .. Len(tokens(t[1])) /\ t[2] \in Nat
    BY DEF Places
  <2>2. Word(t) \in Strings
    BY <1>2, <2>1 DEF Word
  <2>3. hash[Word(t)] \in Nat
    BY <2>2, PipelineAssumption DEF Strings
  <2>4. bucket(t) \in buckets
    <3> DEFINE h == hash[Word(t)]
    <3>1. h % NBUCKETS \in 0 .. NBUCKETS - 1
      <4>1. h \in Nat /\ NBUCKETS \in Nat \ {0}
        BY <1>1, <2>3
      <4> HIDE DEF h
      <4> QED BY <4>1
    <3> QED BY <3>1 DEF bucket, buckets
  <2> QED BY <2>1, <2>2, <2>4
<1> QED BY <1>1, <1>2, <1>3, <1>4 DEF Places, buckets

\* The table as a set.
LEMMA TableFacts ==
    ASSUME Types, table # NULL
    PROVE  /\ \A b \in buckets : table[b] \in Seq(Places) /\ Len(table[b]) \in Nat
           /\ \A x : x \in InTable <=> \E b \in buckets : Has(table[b], x)
           /\ InTable \subseteq Places
<1>1. \A b \in buckets : table[b] \in Seq(Places) /\ Len(table[b]) \in Nat
  BY DEF Types
<1>2. \A b \in buckets : \A x : x \in ToSet(table[b]) <=> Has(table[b], x)
  BY <1>1 DEF ToSet, Has
<1>3. InTable = UNION {ToSet(table[b]) : b \in buckets}
  BY DEF InTable
<1>4. ASSUME NEW x PROVE x \in InTable <=> \E b \in buckets : Has(table[b], x)
  BY <1>2, <1>3
<1>5. ASSUME NEW x, x \in InTable PROVE x \in Places
  BY <1>1, <1>4, <1>5 DEF Has
<1> QED BY <1>1, <1>4, <1>5

(* What icl_hash_foreach visits: the entries, each once, no two with the   *)
(* same word.                                                              *)
LEMMA ForeachFacts ==
    ASSUME Types, TableSound, table # NULL
    PROVE  /\ icl_hash_foreach(table) \in Seq(Places)
           /\ \A x : Has(icl_hash_foreach(table), x) <=> x \in InTable
           /\ \A i, j \in 1 .. Len(icl_hash_foreach(table)) :
                 i # j => Word(icl_hash_foreach(table)[i]) # Word(icl_hash_foreach(table)[j])
<1> DEFINE s == [b \in 1 .. NBUCKETS |-> table[b - 1]]
           g == [t \in Places |-> Word(t)]
           F == icl_hash_foreach(table)
<1>0. NBUCKETS \in Nat \ {0} /\ buckets = 0 .. NBUCKETS - 1
  BY PlaceFacts
<1>1. F = FlattenSeq(s)
  BY DEF icl_hash_foreach
<1>2. \A b \in 1 .. NBUCKETS : b - 1 \in buckets /\ s[b] = table[b - 1] /\ s[b] \in Seq(Places)
  BY <1>0, TableFacts
<1>3. s \in Seq(Seq(Places)) /\ Len(s) = NBUCKETS /\ s # <<>>
  BY <1>0, <1>2
<1> HIDE DEF s, F
<1>4. ASSUME NEW a \in 1 .. Len(s), NEW b \in 1 .. Len(s),
             NEW i \in 1 .. Len(s[a]), NEW j \in 1 .. Len(s[b]), a # b \/ i # j
      PROVE  g[s[a][i]] # g[s[b][j]]
  <2>1. /\ a - 1 \in buckets /\ s[a] = table[a - 1] /\ s[a][i] \in Places
        /\ b - 1 \in buckets /\ s[b] = table[b - 1] /\ s[b][j] \in Places
    BY <1>2, <1>3
  <2>2. bucket(s[a][i]) = a - 1 /\ bucket(s[b][j]) = b - 1
    BY <2>1 DEF TableSound
  <2>3. CASE a = b
    BY <1>4, <2>1, <2>3 DEF TableSound
  <2>4. CASE a # b
    <3>1. bucket(s[a][i]) # bucket(s[b][j])
      BY <1>0, <1>3, <2>2, <2>4
    <3>2. Word(s[a][i]) # Word(s[b][j])
      BY <3>1 DEF bucket
    <3> QED BY <2>1, <3>2
  <2> QED BY <2>3, <2>4
<1>5. /\ F \in Seq(Places)
      /\ \A x : Has(F, x) <=> \E a \in 1 .. Len(s) : Has(s[a], x)
      /\ \A i, j \in 1 .. Len(F) : i # j => g[F[i]] # g[F[j]]
  <2> HIDE DEF g
  <2>1. \A a, b \in 1 .. Len(s) : \A i \in 1 .. Len(s[a]), j \in 1 .. Len(s[b]) :
           a # b \/ i # j => g[s[a][i]] # g[s[b][j]]
    BY <1>4
  <2>2. /\ FlattenSeq(s) \in Seq(Places)
        /\ \A x : Has(FlattenSeq(s), x) <=> \E a \in 1 .. Len(s) : Has(s[a], x)
        /\ \A i, j \in 1 .. Len(FlattenSeq(s)) :
              i # j => g[FlattenSeq(s)[i]] # g[FlattenSeq(s)[j]]
    BY <1>3, <2>1, FlattenFacts, Zenon
  <2> QED BY <1>1, <2>2, Zenon
<1>6. ASSUME NEW x PROVE Has(F, x) <=> x \in InTable
  <2>1. (\E a \in 1 .. Len(s) : Has(s[a], x)) <=> \E b \in buckets : Has(table[b], x)
    <3>1. \A b \in buckets : b + 1 \in 1 .. NBUCKETS /\ (b + 1) - 1 = b
      BY <1>0
    <3>2. \A b \in buckets : s[b + 1] = table[b]
      BY <1>2, <3>1
    <3> QED BY <1>2, <1>3, <3>1, <3>2
  <2> QED BY <1>5, <2>1, TableFacts
<1>7. ASSUME NEW i \in 1 .. Len(F), NEW j \in 1 .. Len(F), i # j PROVE Word(F[i]) # Word(F[j])
  <2>1. F[i] \in Places /\ F[j] \in Places
    BY <1>5
  <2>2. g[F[i]] = Word(F[i]) /\ g[F[j]] = Word(F[j])
    BY <2>1
  <2> QED BY <1>5, <1>7, <2>2, Zenon
<1> QED BY <1>5, <1>6, <1>7 DEF F

\* What removing the first element of a queue does.
LEMMA TailFacts ==
    ASSUME NEW T, NEW s \in Seq(T), s # <<>>
    PROVE  /\ Len(s) \in Nat \ {0} /\ Head(s) = s[1] /\ s[1] \in T
           /\ Tail(s) \in Seq(T) /\ Len(Tail(s)) = Len(s) - 1
           /\ \A i \in 1 .. Len(Tail(s)) : i + 1 \in 1 .. Len(s) /\ Tail(s)[i] = s[i + 1]
           /\ Len(s) = 1 => Tail(s) = <<>>
           /\ \A x : Has(s, x) <=> x = s[1] \/ Has(Tail(s), x)
           /\ Distinct(s) => Distinct(Tail(s)) /\ ~Has(Tail(s), s[1])
<1>1. /\ Len(s) \in Nat \ {0} /\ Head(s) = s[1] /\ s[1] \in T
      /\ Tail(s) \in Seq(T) /\ Len(Tail(s)) = Len(s) - 1
      /\ \A i \in 1 .. Len(Tail(s)) : i + 1 \in 1 .. Len(s) /\ Tail(s)[i] = s[i + 1]
  OBVIOUS
<1>2. ASSUME NEW i \in 1 .. Len(s), i # 1
      PROVE  i - 1 \in 1 .. Len(Tail(s)) /\ Tail(s)[i - 1] = s[i]
  <2>1. i - 1 \in 1 .. Len(Tail(s)) /\ (i - 1) + 1 = i
    BY <1>1, <1>2
  <2> QED BY <1>1, <2>1
<1>3. 1 \in 1 .. Len(s)
  BY <1>1
<1>4. \A x : Has(s, x) <=> x = s[1] \/ Has(Tail(s), x)
  BY <1>1, <1>2, <1>3 DEF Has
<1>5. ASSUME Distinct(s) PROVE Distinct(Tail(s)) /\ ~Has(Tail(s), s[1])
  BY <1>1, <1>3, <1>5 DEF Distinct, Has
<1>6. Len(s) = 1 => Tail(s) = <<>>
  BY <1>1, EmptySeq
<1> QED BY <1>1, <1>4, <1>5, <1>6

\* What adding an element at the end of a queue does.
LEMMA AppendFacts ==
    ASSUME NEW T, NEW s \in Seq(T), NEW e \in T
    PROVE  /\ Append(s, e) \in Seq(T) /\ Len(s) \in Nat
           /\ Len(Append(s, e)) = Len(s) + 1
           /\ \A i \in 1 .. Len(s) : Append(s, e)[i] = s[i]
           /\ Append(s, e)[Len(s) + 1] = e
           /\ \A x : Has(Append(s, e), x) <=> x = e \/ Has(s, x)
           /\ Distinct(s) /\ ~Has(s, e) => Distinct(Append(s, e))
<1>1. /\ Append(s, e) \in Seq(T) /\ Len(s) \in Nat
      /\ Len(Append(s, e)) = Len(s) + 1
      /\ \A i \in 1 .. Len(s) : Append(s, e)[i] = s[i]
      /\ Append(s, e)[Len(s) + 1] = e
  OBVIOUS
<1>2. \A i \in 1 .. Len(Append(s, e)) : i \in 1 .. Len(s) \/ i = Len(s) + 1
  BY <1>1
<1>3. 1 .. Len(s) \subseteq 1 .. Len(Append(s, e)) /\ Len(s) + 1 \in 1 .. Len(Append(s, e))
  BY <1>1
<1>4. \A x : Has(Append(s, e), x) <=> x = e \/ Has(s, x)
  BY <1>1, <1>2, <1>3 DEF Has
<1>5. ASSUME Distinct(s), ~Has(s, e) PROVE Distinct(Append(s, e))
  BY <1>1, <1>2, <1>5 DEF Distinct, Has
<1> QED BY <1>1, <1>4, <1>5

-----------------------------------------------------------------------------
\* What an insertion of a new word does to the table.
LEMMA InsertFacts ==
    ASSUME Types, TableSound, table # NULL, NEW t \in Places, ~icl_hash_find(table, t),
           NEW new, new = icl_hash_insert(table, t)
    PROVE  /\ new \in [buckets -> Seq(Places)] /\ new # NULL
           /\ \A x : (\E b \in buckets : Has(new[b], x)) <=> x \in InTable \/ x = t
           /\ \A b \in buckets : \A i \in 1 .. Len(new[b]) :
                 /\ bucket(new[b][i]) = b
                 /\ \A j \in 1 .. Len(new[b]) : i # j => Word(new[b][i]) # Word(new[b][j])
<1> DEFINE c == bucket(t)
           u == <<t>>
           v == table[c]
<1>1. new = [table EXCEPT ![c] = u \o v]
  BY DEF icl_hash_insert, bucket
<1>2. c \in buckets /\ v \in Seq(Places) /\ Len(v) \in Nat /\ table \in [buckets -> Seq(Places)]
  BY PlaceFacts, TableFacts DEF Types
<1>3. u \in Seq(Places) /\ Len(u) = 1 /\ u[1] = t
  OBVIOUS
<1>4. \A i \in 1 .. Len(v) : Word(v[i]) # Word(t)
  BY <1>2 DEF icl_hash_find, bucket
<1>5. \A i \in 1 .. Len(v) : /\ bucket(v[i]) = c
                             /\ \A j \in 1 .. Len(v) : i # j => Word(v[i]) # Word(v[j])
  BY <1>2 DEF TableSound
<1>6. bucket(t) = c
  OBVIOUS
<1> HIDE DEF c, u, v
<1>7. /\ new \in [buckets -> Seq(Places)]
      /\ new[c] = u \o v /\ \A b \in buckets : b # c => new[b] = table[b]
  BY <1>1, <1>2, <1>3, ConcatFacts
<1>8. new # NULL
  <2>1. Places \subseteq Nat \X Nat
    BY DEF Places
  <2>2. new \in [0 .. NBUCKETS - 1 -> Seq(Nat \X Nat)]
    BY <1>7, <2>1, PlaceFacts
  <2> QED BY <2>2, MarksAssumption
<1>9. /\ Len(u \o v) = 1 + Len(v) /\ (u \o v)[1] = t
      /\ \A i \in 1 .. Len(v) : (u \o v)[1 + i] = v[i]
      /\ \A x : Has(u \o v, x) <=> x = t \/ Has(v, x)
  <2>1. 1 \in 1 .. Len(u) /\ \A i \in 1 .. Len(u) : i = 1
    BY <1>3
  <2>2. \A x : Has(u, x) <=> x = t
    BY <1>3, <2>1 DEF Has
  <2>3. /\ Len(u \o v) = Len(u) + Len(v)
        /\ \A i \in 1 .. Len(u) : (u \o v)[i] = u[i]
        /\ \A i \in 1 .. Len(v) : (u \o v)[Len(u) + i] = v[i]
        /\ \A x : Has(u \o v, x) <=> Has(u, x) \/ Has(v, x)
    <3>1. u \in Seq(Places) /\ v \in Seq(Places)
      BY <1>2, <1>3
    <3> QED BY <3>1, ConcatFacts
  <2>4. \A x : Has(u \o v, x) <=> x = t \/ Has(v, x)
    BY <2>2, <2>3
  <2>5. \A i \in 1 .. Len(v) : (u \o v)[1 + i] = v[i]
    BY <1>3, <2>3
  <2> QED BY <1>3, <2>1, <2>3, <2>4, <2>5
<1>10. ASSUME NEW x
       PROVE  (\E b \in buckets : Has(new[b], x)) <=> x \in InTable \/ x = t
  <2>1. x \in InTable <=> \E b \in buckets : Has(table[b], x)
    BY TableFacts
  <2>2. \A b \in buckets : b # c => (Has(new[b], x) <=> Has(table[b], x))
    BY <1>7
  <2>3. Has(new[c], x) <=> x = t \/ Has(table[c], x)
    BY <1>7, <1>9 DEF v
  <2> QED BY <1>2, <2>1, <2>2, <2>3, Zenon
<1>11. ASSUME NEW b \in buckets, NEW i \in 1 .. Len(new[b])
       PROVE  /\ bucket(new[b][i]) = b
              /\ \A j \in 1 .. Len(new[b]) : i # j => Word(new[b][i]) # Word(new[b][j])
  <2>1. CASE b # c
    BY <1>7, <2>1 DEF TableSound
  <2>2. CASE b = c
    <3>1. \A j \in 1 .. Len(new[c]) :
             \/ j = 1 /\ new[c][j] = t
             \/ j - 1 \in 1 .. Len(v) /\ new[c][j] = v[j - 1]
      <4>1. ASSUME NEW j \in 1 .. Len(new[c]), j # 1
            PROVE  j - 1 \in 1 .. Len(v) /\ j = 1 + (j - 1)
        BY <1>2, <1>7, <1>9, <4>1
      <4> QED BY <1>7, <1>9, <4>1
    <3>2. \A j \in 1 .. Len(new[c]) : j \in Nat
      OBVIOUS
    <3> QED BY <1>4, <1>5, <1>6, <2>2, <3>1, <3>2
  <2> QED BY <2>1, <2>2
<1> QED BY <1>7, <1>8, <1>10, <1>11

-----------------------------------------------------------------------------
\* The first element of a queue, and of what kind it may be.
LEMMA HeadFacts ==
    ASSUME Types
    PROVE  /\ items1 # <<>> => /\ Head(items1) = items1[1] /\ 1 \in 1 .. Len(items1)
                               /\ Head(items1) \in LineNumbers \cup {EOS}
                               /\ Tail(items1) \in Seq(LineNumbers \cup {EOS})
                               /\ Len(items1) = 1 => Tail(items1) = <<>>
           /\ items2 # <<>> => /\ Head(items2) = items2[1] /\ 1 \in 1 .. Len(items2)
                               /\ Head(items2) \in Places \cup {EOS}
                               /\ Tail(items2) \in Seq(Places \cup {EOS})
                               /\ Len(items2) = 1 => Tail(items2) = <<>>
           /\ Len(items1) \in Nat /\ Len(items2) \in Nat
<1>1. items1 \in Seq(LineNumbers \cup {EOS}) /\ items2 \in Seq(Places \cup {EOS})
  BY DEF Types
<1>2. Len(items1) \in Nat /\ Len(items2) \in Nat
  BY <1>1
<1> QED BY <1>1, <1>2, TailFacts

\* The word that Stage2 is about to push.
LEMMA PushedFacts ==
    ASSUME Types, Control, op2["Stage2"] = "push"
    PROVE  \/ val2["Stage2"] = EOS /\ InHand = EOS
           \/ /\ val2["Stage2"] = <<InHand, k>> /\ InHand \in LineNumbers /\ InHand # EOS
              /\ <<InHand, k>> \in Places
<1>1. \/ val2["Stage2"] = EOS /\ InHand = EOS
      \/ /\ InHand \in LineNumbers /\ k > 0 /\ k <= Len(tokens(InHand))
         /\ val2["Stage2"] = <<InHand, k>>
  BY DEF Control
<1>2. InHand \in LineNumbers => Len(tokens(InHand)) \in Nat /\ InHand # EOS
  BY PlaceFacts
<1>3. InHand \in LineNumbers /\ k > 0 /\ k <= Len(tokens(InHand)) => <<InHand, k>> \in Places
  BY <1>2, PlaceFacts DEF Types
<1> QED BY <1>1, <1>2, <1>3

\* The word that Stage2 has found in its line.
LEMMA FoundFacts ==
    ASSUME Types, Control, Splitting, k <= Len(tokens(InHand))
    PROVE  <<InHand, k>> \in Places /\ InHand \in LineNumbers
BY PlaceFacts DEF Splitting, Types, Control

LEMMA TypesStep == Types /\ Control /\ TableSound /\ [Next]_vars => Types'
<1> SUFFICES ASSUME Types, Control, TableSound, [Next]_vars PROVE Types'
  OBVIOUS
<1>0. Len(file) \in Nat /\ line \in 1 .. Len(file) + 1
  BY PlaceFacts DEF Types
<1>a. line <= Len(file) => line \in LineNumbers /\ line + 1 \in 1 .. Len(file) + 1
  BY <1>0 DEF LineNumbers
<1>b. line \in LineNumbers => line + 1 \in 1 .. Len(file) + 1
  BY <1>0 DEF LineNumbers
<1> USE DEF Types
<1>1. CASE SkipLine
  <2>1. line' \in 1 .. Len(file) + 1
    BY <1>1, <1>a DEF SkipLine
  <2> QED BY <1>1, <2>1 DEF SkipLine, queue1, queue2
<1>2. CASE ReadLine
  <2>1. line \in LineNumbers
    BY <1>2, <1>a DEF ReadLine
  <2> QED BY <1>2, <2>1 DEF ReadLine, queue2, Q1!CallPush
<1>3. CASE PushLine
  <2>1. val1["Stage1"] = line /\ line \in LineNumbers
    BY <1>3 DEF PushLine, Q1!Push, Control
  <2>2. items1' \in Seq(LineNumbers \cup {EOS})
    BY <1>3, <2>1, AppendFacts DEF PushLine, Q1!Push
  <2>3. line + 1 \in 1 .. Len(file) + 1
    BY <2>1, <1>b
  <2>4. /\ op1' \in [{"Stage1", "Stage2"} -> {"idle", "push", "pop"}] /\ line' = line + 1
        /\ UNCHANGED <<val1, items2, op2, val2, k, table, lost, deleted>>
    BY <1>3 DEF PushLine, queue2, Q1!Push
  <2> QED BY <2>2, <2>3, <2>4
<1>4. CASE EndOfFile
  BY <1>4 DEF EndOfFile, queue2, Q1!CallPush
<1>5. CASE PushEOS
  <2>1. items1' \in Seq(LineNumbers \cup {EOS})
    BY <1>5, AppendFacts DEF PushEOS, Q1!Push
  <2> QED BY <1>5, <2>1 DEF PushEOS, queue2, Q1!Push
<1>6. CASE WaitLine
  BY <1>6 DEF WaitLine, queue2, Q1!CallPop
<1>7. CASE PopLine
  BY <1>7, HeadFacts DEF PopLine, queue2, Q1!Pop
<1>8. CASE Token
  <2>1. <<InHand, k>> \in Places
    BY <1>8, FoundFacts DEF Token
  <2> QED BY <1>8, <2>1 DEF Token, queue1, Q2!CallPush
<1>9. CASE TokenFails
  <2>1. <<InHand, k>> \in Places
    BY <1>9, FoundFacts DEF TokenFails
  <2>2. lost' = lost \cup {<<InHand, k>>} /\ k' = k + 1
    BY <1>9 DEF TokenFails
  <2>3. lost' \subseteq Places /\ k' \in Nat
    BY <2>1, <2>2
  <2> QED BY <1>9, <2>3 DEF TokenFails, queue1, queue2
<1>10. CASE PushToken
  <2>1. val2["Stage2"] \in Places \cup {EOS}
    BY <1>10, PushedFacts DEF PushToken, Q2!Push
  <2>2. items2' \in Seq(Places \cup {EOS})
    BY <1>10, <2>1, AppendFacts DEF PushToken, Q2!Push
  <2> QED BY <1>10, <2>2 DEF PushToken, queue1, Q2!Push
<1>11. CASE FreeLine
  BY <1>11 DEF FreeLine, queue1, queue2
<1>12. CASE ForwardEOS
  BY <1>12 DEF ForwardEOS, queue1, Q2!CallPush
<1>13. CASE WaitToken
  BY <1>13 DEF WaitToken, queue1, Q2!CallPop
<1>14. CASE PopToken
  <2>1. Head(items2) \in Places /\ Tail(items2) \in Seq(Places \cup {EOS})
    BY <1>14, HeadFacts DEF PopToken
  <2>2. table' # NULL => table' \in [buckets -> Seq(Places)]
    <3>1. CASE UNCHANGED table
      BY <3>1
    <3>2. CASE /\ table # NULL /\ ~icl_hash_find(table, Head(items2))
               /\ table' = icl_hash_insert(table, Head(items2))
      BY <2>1, <3>2, InsertFacts
    <3> QED BY <1>14, <3>1, <3>2 DEF PopToken
  <2>3. lost' \subseteq Places
    BY <1>14, <2>1 DEF PopToken
  <2> QED BY <1>14, <2>1, <2>2, <2>3 DEF PopToken, queue1, Q2!Pop
<1>15. CASE PrintWords
  BY <1>15, HeadFacts DEF PrintWords, queue1, Q2!Pop
<1>16. CASE Main \/ Terminated \/ UNCHANGED vars
  BY <1>16 DEF Main, Terminated, vars, queue1, queue2
<1> QED
  BY <1>1, <1>2, <1>3, <1>4, <1>5, <1>6, <1>7, <1>8, <1>9, <1>10, <1>11, <1>12, <1>13,
     <1>14, <1>15, <1>16 DEF Next, Stage1, Stage2, Stage3

\* What Stage3 prints is a sequence of strings, in particular not NULL.
LEMMA PrintedFacts ==
    ASSUME Types, TableSound, PrintWords
    PROVE  printed' # NULL
<1>1. CASE ~(table # NULL /\ inserted)
  <2>1. printed' = <<>>
    BY <1>1 DEF PrintWords
  <2>2. printed' \in Seq(DOMAIN hash)
    BY <2>1
  <2> QED BY <2>2, MarksAssumption
<1>2. CASE table # NULL /\ inserted
  <2> DEFINE F == icl_hash_foreach(table)
  <2>1. F \in Seq(Places) /\ DOMAIN F = 1 .. Len(F) /\ Len(F) \in Nat
    BY <1>2, ForeachFacts
  <2>2. printed' = [e \in 1 .. Len(F) |-> Word(F[e])]
    BY <1>2, <2>1 DEF PrintWords
  <2> HIDE DEF F
  <2>3. \A e \in 1 .. Len(F) : Word(F[e]) \in Strings
    BY <2>1, PlaceFacts
  <2>4. printed' \in Seq(Strings)
    BY <2>1, <2>2, <2>3
  <2> QED BY <2>4, MarksAssumption DEF Strings
<1> QED BY <1>1, <1>2

LEMMA ControlStep == Types /\ Control /\ TableSound /\ [Next]_vars => Control'
<1> SUFFICES ASSUME Types, Control, TableSound, [Next]_vars PROVE Control'
  OBVIOUS
<1> USE PlaceFacts DEF Types, Control, InHand
<1>1. CASE SkipLine
  BY <1>1 DEF SkipLine, queue1, queue2, Ended, Reading
<1>2. CASE ReadLine
  BY <1>2 DEF ReadLine, queue2, Q1!CallPush, Ended, Reading, LineNumbers
<1>3. CASE PushLine
  BY <1>3 DEF PushLine, Q1!Push, queue2, Ended
<1>4. CASE EndOfFile
  BY <1>4 DEF EndOfFile, queue2, Q1!CallPush, Ended, Reading
<1>5. CASE PushEOS
  BY <1>5 DEF PushEOS, queue2, Q1!Push, Ended
<1>6. CASE WaitLine
  BY <1>6 DEF WaitLine, queue2, Q1!CallPop, Ended
<1>7. CASE PopLine
  BY <1>7, HeadFacts DEF PopLine, queue2, Q1!Pop, Ended
<1>8. CASE Token
  <2>1. <<InHand, k>> \in Places
    BY <1>8, FoundFacts DEF Token
  <2>2. <<InHand, k>> # EOS /\ <<InHand, k>> # Buffer
    BY <1>8, <2>1 DEF Token, Splitting, Buffer
  <2> QED BY <1>8, <2>1, <2>2 DEF Token, Splitting, queue1, Q2!CallPush, Ended
<1>9. CASE TokenFails
  BY <1>9 DEF TokenFails, Splitting, queue1, queue2, Ended
<1>10. CASE PushToken
  BY <1>10 DEF PushToken, queue1, Q2!Push, Ended
<1>11. CASE FreeLine
  BY <1>11 DEF FreeLine, Splitting, queue1, queue2, Ended
<1>12. CASE ForwardEOS
  BY <1>12 DEF ForwardEOS, queue1, Q2!CallPush, Ended
<1>13. CASE WaitToken
  BY <1>13 DEF WaitToken, queue1, Q2!CallPop, Ended
<1>14. CASE PopToken
  BY <1>14 DEF PopToken, queue1, Q2!Pop, Ended
<1>15. CASE PrintWords
  BY <1>15, PrintedFacts DEF PrintWords, queue1, Q2!Pop, Ended
<1>16. CASE Main \/ Terminated \/ UNCHANGED vars
  BY <1>16 DEF Main, Terminated, vars, queue1, queue2, Ended
<1> QED
  BY <1>1, <1>2, <1>3, <1>4, <1>5, <1>6, <1>7, <1>8, <1>9, <1>10, <1>11, <1>12, <1>13,
     <1>14, <1>15, <1>16 DEF Next, Stage1, Stage2, Stage3

-----------------------------------------------------------------------------
LEMMA EndsStep ==
    Types /\ Control /\ EndsAreLast /\ [Next]_vars => EndsAreLast'
<1> SUFFICES ASSUME Types, Control, EndsAreLast, [Next]_vars PROVE EndsAreLast'
  OBVIOUS
<1> USE PlaceFacts DEF Types, Control, EndsAreLast, InHand, Sent1, Sent2
<1>1. CASE SkipLine
  BY <1>1 DEF SkipLine, queue1, queue2
<1>2. CASE ReadLine
  BY <1>2 DEF ReadLine, queue2, Q1!CallPush, Reading
<1>3. CASE PushLine
  <2>1. /\ items1' = Append(items1, val1["Stage1"]) /\ val1["Stage1"] \in LineNumbers
        /\ val1["Stage1"] # EOS
    BY <1>3 DEF PushLine, Q1!Push
  <2>2. \A i \in 1 .. Len(items1) : items1[i] # EOS
    BY <1>3 DEF PushLine, Q1!Push
  <2>3. \A i \in 1 .. Len(items1') : items1'[i] # EOS
    BY <2>1, <2>2, AppendFacts
  <2>4. InHand # EOS
    BY <1>3 DEF PushLine, Q1!Push
  <2> QED BY <1>3, <2>3, <2>4 DEF PushLine, Q1!Push, queue2
<1>4. CASE EndOfFile
  BY <1>4 DEF EndOfFile, queue2, Q1!CallPush, Reading
<1>5. CASE PushEOS
  <2>1. items1' = Append(items1, EOS)
    BY <1>5 DEF PushEOS, Q1!Push
  <2>2. InHand # EOS /\ \A i \in 1 .. Len(items1) : items1[i] # EOS
    BY <1>5 DEF PushEOS, Q1!Push
  <2>3. \A i \in 1 .. Len(items1') : items1'[i] = EOS => i = Len(items1')
    BY <2>1, <2>2, AppendFacts
  <2> QED BY <1>5, <2>2, <2>3 DEF PushEOS, Q1!Push, queue2
<1>6. CASE WaitLine
  BY <1>6 DEF WaitLine, queue2, Q1!CallPop
<1>7. CASE PopLine
  <2>1. /\ items1 # <<>> /\ items1' = Tail(items1) /\ val1' = [val1 EXCEPT !["Stage2"] = items1[1]]
        /\ op1' = [op1 EXCEPT !["Stage2"] = "idle"]
    BY <1>7, HeadFacts DEF PopLine, Q1!Pop
  <2>2. \A i \in 1 .. Len(items1') : items1'[i] = EOS => i = Len(items1') /\ Sent1'
    BY <2>1, TailFacts
  <2>3. items1[1] = EOS => Len(items1) = 1 /\ Sent1'
    BY <2>1, HeadFacts
  <2>4. Len(items1) = 1 => items1' = <<>>
    BY <2>1
  <2>5. InHand' = EOS => items1' = <<>> /\ Sent1'
    BY <2>1, <2>3, <2>4
  <2>6. UNCHANGED <<items2, op2, val2, printed>>
    BY <1>7 DEF PopLine, queue2
  <2> QED BY <2>2, <2>5, <2>6
<1>8. CASE Token
  <2>1. printed = NULL /\ \A i \in 1 .. Len(items2) : items2[i] # EOS
    BY <1>8 DEF Token, Splitting
  <2> QED BY <1>8, <2>1 DEF Token, queue1, Q2!CallPush
<1>9. CASE TokenFails \/ FreeLine
  BY <1>9 DEF TokenFails, FreeLine, queue1, queue2
<1>10. CASE PushToken
  <2>1. items2' = Append(items2, val2["Stage2"]) /\ val2["Stage2"] \in Places \cup {EOS}
    BY <1>10, PushedFacts DEF PushToken, Q2!Push
  <2>2. printed = NULL /\ \A i \in 1 .. Len(items2) : items2[i] # EOS
    BY <1>10 DEF PushToken, Q2!Push
  <2>3. \A i \in 1 .. Len(items2') : items2'[i] = EOS =>
           i = Len(items2') /\ val2["Stage2"] = EOS
    BY <2>1, <2>2, AppendFacts
  <2> QED BY <1>10, <2>2, <2>3 DEF PushToken, queue1, Q2!Push
<1>11. CASE ForwardEOS
  BY <1>11 DEF ForwardEOS, queue1, Q2!CallPush
<1>12. CASE WaitToken
  BY <1>12 DEF WaitToken, queue1, Q2!CallPop
<1>13. CASE PopToken \/ PrintWords
  <2>1. /\ items2 # <<>> /\ items2' = Tail(items2)
        /\ op2'["Stage2"] = op2["Stage2"] /\ val2'["Stage2"] = val2["Stage2"]
        /\ UNCHANGED queue1
    BY <1>13, HeadFacts DEF PopToken, PrintWords, Q2!Pop
  <2>2. \A i \in 1 .. Len(items2') : items2'[i] = EOS => i = Len(items2') /\ Sent2'
    BY <2>1, TailFacts
  <2>3. PrintWords => Len(items2) = 1 /\ Sent2'
    BY <2>1, HeadFacts DEF PrintWords
  <2>4. Len(items2) = 1 => items2' = <<>>
    BY <2>1, HeadFacts
  <2>5. PopToken => printed' = NULL
    BY DEF PopToken, Q2!Pop
  <2> QED BY <1>13, <2>1, <2>2, <2>3, <2>4, <2>5 DEF queue1
<1>14. CASE Main \/ Terminated \/ UNCHANGED vars
  BY <1>14 DEF Main, Terminated, vars, queue1, queue2
<1> QED
  BY <1>1, <1>2, <1>3, <1>4, <1>5, <1>6, <1>7, <1>8, <1>9, <1>10, <1>11, <1>12, <1>13,
     <1>14 DEF Next, Stage1, Stage2, Stage3

-----------------------------------------------------------------------------
\* What Stage3 does with a word.
LEMMA PopTokenFacts ==
    ASSUME Types, TableSound, PopToken, NEW t, t = Head(items2)
    PROVE  /\ items2 # <<>> /\ items2' = Tail(items2) /\ t \in Places
           /\ UNCHANGED <<queue1, line, k, printed, deleted>>
           /\ op2'["Stage2"] = op2["Stage2"] /\ val2'["Stage2"] = val2["Stage2"]
           /\ \/ /\ table # NULL /\ table' # NULL /\ table' = icl_hash_insert(table, t)
                 /\ ~icl_hash_find(table, t)
                 /\ InTable' = InTable \cup {t} /\ UNCHANGED <<lost, heap>>
              \/ /\ table # NULL /\ lost' = lost \cup {t}
                 /\ InTable' = InTable /\ UNCHANGED <<table, heap>>
              \/ /\ table # NULL => \E e \in InTable : Word(e) = Word(t)
                 /\ InTable' = InTable /\ UNCHANGED <<table, lost>> /\ heap' = heap \ {t}
<1>1. /\ items2 # <<>> /\ items2' = Tail(items2) /\ t \in Places
      /\ UNCHANGED <<queue1, line, k, printed, deleted>>
      /\ op2'["Stage2"] = op2["Stage2"] /\ val2'["Stage2"] = val2["Stage2"]
  BY HeadFacts DEF PopToken, Q2!Pop, Types, queue1
<1>2. UNCHANGED table => InTable' = InTable
  BY DEF InTable
<1>3. CASE table # NULL /\ ~icl_hash_find(table, t) /\ table' = icl_hash_insert(table, t)
           /\ UNCHANGED <<lost, heap>>
  <2>1. /\ table' # NULL /\ table' \in [buckets -> Seq(Places)]
        /\ \A x : (\E b \in buckets : Has(table'[b], x)) <=> x \in InTable \/ x = t
    BY <1>1, <1>3, InsertFacts
  <2>2. \A b \in buckets : \A x : x \in ToSet(table'[b]) <=> Has(table'[b], x)
    BY <2>1 DEF ToSet, Has
  <2>3. InTable' = UNION {ToSet(table'[b]) : b \in buckets}
    BY <2>1 DEF InTable
  <2>4. \A x : x \in InTable' <=> x \in InTable \cup {t}
    BY <2>1, <2>2, <2>3
  <2> QED BY <1>1, <1>3, <2>1, <2>4
<1>4. ASSUME table # NULL, icl_hash_find(table, t) PROVE \E e \in InTable : Word(e) = Word(t)
  <2>1. bucket(t) \in buckets /\ table[bucket(t)] \in Seq(Places)
    BY <1>1, <1>4, PlaceFacts, TableFacts
  <2>2. PICK i \in 1 .. Len(table[bucket(t)]) : Word(table[bucket(t)][i]) = Word(t)
    BY <1>4, <2>1 DEF icl_hash_find, bucket
  <2>3. table[bucket(t)][i] \in InTable
    BY <1>4, <2>1, TableFacts DEF Has
  <2> QED BY <2>2, <2>3
<1>5. \/ /\ table # NULL /\ ~icl_hash_find(table, t) /\ table' = icl_hash_insert(table, t)
         /\ UNCHANGED <<lost, heap>>
      \/ table # NULL /\ lost' = lost \cup {t} /\ UNCHANGED <<table, heap>>
      \/ /\ table = NULL \/ icl_hash_find(table, t)
         /\ UNCHANGED <<table, lost>> /\ heap' = heap \ {t}
  BY DEF PopToken
<1> QED BY <1>1, <1>2, <1>3, <1>4, <1>5

(* The words of a line are split one after another: each step leaves those *)
(* that are split as they are, or adds the one that Stage2 has in hand.    *)
Splits(t) == /\ TokenFails \/ (PushToken /\ val2["Stage2"] # EOS)
             /\ t = <<InHand, k>>

LEMMA SplitStep ==
    ASSUME Types, Control, EndsAreLast, Once, [Next]_vars, NEW t \in Places
    PROVE  /\ Split(t) => Split(t)'
           /\ Split(t)' => Split(t) \/ Splits(t)
<1>0. /\ t = <<t[1], t[2]>> /\ t[1] \in LineNumbers /\ t[1] \in Nat /\ t[1] # EOS
      /\ t[2] \in Nat /\ t[2] > 0 /\ t[2] <= Len(tokens(t[1])) /\ line \in Nat /\ k \in Nat
  <2>1. /\ t = <<t[1], t[2]>> /\ t[1] \in LineNumbers
        /\ t[2] \in 1 .. Len(tokens(t[1])) /\ t[2] \in Nat /\ EOS \notin LineNumbers
        /\ Len(tokens(t[1])) \in Nat
    BY PlaceFacts
  <2>2. line \in Nat /\ k \in Nat /\ t[1] \in Nat
    BY <2>1 DEF Types, LineNumbers
  <2> QED BY <2>1, <2>2
<1>1. CASE SkipLine
  <2>1. line \in LineNumbers /\ Len(tokens(line)) = 0
    <3>1. line \in LineNumbers /\ file[line] = <<>>
      BY <1>1, PlaceFacts DEF SkipLine, Types, LineNumbers
    <3> QED BY <3>1, TokenFacts
  <2>2. t[1] # line
    BY <1>0, <2>1
  <2> QED BY <1>0, <1>1, <2>2 DEF SkipLine, Split, queue1, queue2, InHand
<1>2. CASE ReadLine \/ EndOfFile
  BY <1>0, <1>2 DEF ReadLine, EndOfFile, Split, Q1!CallPush, queue2, InHand, Types
<1>3. CASE PushLine
  <2>1. \A x : Has(items1', x) <=> x = line \/ Has(items1, x)
    BY <1>3, AppendFacts DEF PushLine, Q1!Push, Types, Control
  <2> QED BY <1>0, <1>3, <2>1 DEF PushLine, Q1!Push, Split, InHand
<1>4. CASE PushEOS
  <2>1. \A x : Has(items1', x) <=> x = EOS \/ Has(items1, x)
    BY <1>4, AppendFacts DEF PushEOS, Q1!Push, Types
  <2> QED BY <1>0, <1>4, <2>1 DEF PushEOS, Q1!Push, Split, InHand
<1>5. CASE WaitLine
  BY <1>0, <1>5 DEF WaitLine, Q1!CallPop, Split
<1>6. CASE PopLine
  <2>1. \A x : Has(items1, x) <=> x = Head(items1) \/ Has(items1', x)
    BY <1>6, TailFacts DEF PopLine, Q1!Pop, Types
  <2>2. k = 0 /\ k' = 1 /\ InHand' = Head(items1) /\ line' = line
    BY <1>6 DEF PopLine, Q1!Pop, Control, InHand, Types
  <2>3. Distinct(items1) => ~Has(items1', Head(items1))
    BY <1>6, TailFacts DEF PopLine, Q1!Pop, Types
  <2> QED BY <1>0, <2>1, <2>2, <2>3 DEF Split, Once, LinesOnce
<1>7. CASE Token \/ ForwardEOS
  BY <1>0, <1>7 DEF Token, ForwardEOS, queue1, Q2!CallPush, Split, InHand
<1>b. t[1] \in Nat /\ t[2] \in Nat /\ line \in Nat /\ k \in Nat
  BY <1>0
<1>a. t[1] = InHand /\ t[2] = k => t = <<InHand, k>>
  BY <1>0
<1>8. CASE TokenFails
  <2>1. UNCHANGED <<items1, line>> /\ InHand' = InHand /\ k' = k + 1 /\ k > 0
    BY <1>8 DEF TokenFails, Splitting, queue1, InHand
  <2>2. Splits(t) <=> t = <<InHand, k>>
    BY <1>8 DEF Splits
  <2> QED BY <1>b, <1>a, <2>1, <2>2 DEF Split
<1>9. CASE PushToken
  <2>1. UNCHANGED <<items1, line>> /\ InHand' = InHand
    BY <1>9 DEF PushToken, queue1, InHand
  <2>2. CASE val2["Stage2"] = EOS
    <3>1. InHand = EOS
      BY <2>2 DEF Control
    <3> QED BY <1>0, <2>1, <3>1 DEF Split
  <2>3. CASE val2["Stage2"] # EOS
    <3>1. k' = k + 1 /\ k > 0
      BY <1>9, <2>3 DEF PushToken, Q2!Push, Control
    <3>2. Splits(t) <=> t = <<InHand, k>>
      BY <1>9, <2>3 DEF Splits
    <3> QED BY <1>b, <1>a, <2>1, <3>1, <3>2 DEF Split
  <2> QED BY <2>2, <2>3
<1>10. CASE FreeLine
  <2>1. InHand = t[1] => t[2] < k
    BY <1>0, <1>10 DEF FreeLine
  <2> QED BY <1>0, <1>10, <2>1 DEF FreeLine, queue1, Split, InHand
<1>11. CASE WaitToken \/ PopToken \/ PrintWords \/ Main \/ Terminated \/ UNCHANGED vars
  BY <1>11 DEF WaitToken, PopToken, PrintWords, Main, Terminated, vars, queue1, Split, InHand
<1> QED
  BY <1>1, <1>2, <1>3, <1>4, <1>5, <1>6, <1>7, <1>8, <1>9, <1>10, <1>11
  DEF Next, Stage1, Stage2, Stage3

\* The word in hand was not split before it is pushed or lost.
LEMMA NewlySplit ==
    ASSUME Types, Control, Once, NEW t \in Places, Splits(t)
    PROVE  ~Split(t) /\ Split(t)' /\ t[1] # EOS
<1>1. /\ t[1] = InHand /\ t[2] = k /\ k > 0 /\ k \in Nat /\ k' = k + 1
      /\ UNCHANGED <<items1, line>> /\ InHand' = InHand
  <2>1. /\ t = <<InHand, k>> /\ t[2] > 0 /\ k \in Nat
    BY PlaceFacts DEF Splits, Types
  <2>2. CASE TokenFails
    BY <2>1, <2>2 DEF TokenFails, queue1, InHand
  <2>3. CASE PushToken /\ val2["Stage2"] # EOS
    BY <2>1, <2>3 DEF PushToken, queue1, InHand
  <2> QED BY <2>2, <2>3 DEF Splits
<1>2. InHand # EOS
  BY <1>1, PlaceFacts
<1> QED BY <1>1, <1>2 DEF Once, LinesOnce, Split

-----------------------------------------------------------------------------
LEMMA LinesOnceStep ==
    Types /\ Control /\ EndsAreLast /\ LinesOnce /\ [Next]_vars => LinesOnce'
<1> SUFFICES ASSUME Types, Control, EndsAreLast, LinesOnce, [Next]_vars PROVE LinesOnce'
  OBVIOUS
<1>0. /\ items1 \in Seq(LineNumbers \cup {EOS}) /\ Len(items1) \in Nat
      /\ line \in Nat /\ k \in Nat /\ LineNumbers \subseteq Nat /\ EOS \notin Nat
  BY MarksAssumption DEF Types, LineNumbers
<1>a. /\ \A i \in 1 .. Len(items1) : items1[i] # EOS => items1[i] \in Nat
      /\ k > 0 /\ InHand # EOS => InHand \in Nat
  <2>1. \A i \in 1 .. Len(items1) : items1[i] \in LineNumbers \cup {EOS}
    BY <1>0
  <2> QED BY <1>0, <2>1 DEF Control
<1>1. CASE SkipLine
  <2>1. UNCHANGED <<items1, k, InHand>> /\ line' = line + 1
    BY <1>1 DEF SkipLine, queue1, InHand
  <2> QED BY <1>0, <1>a, <2>1 DEF LinesOnce
<1>2. CASE ReadLine \/ EndOfFile
  BY <1>2 DEF ReadLine, EndOfFile, Q1!CallPush, queue2, LinesOnce, InHand, Types
<1>3. CASE PushLine
  <2>1. /\ items1' = Append(items1, line) /\ line \in LineNumbers /\ line' = line + 1
        /\ UNCHANGED <<k, InHand>>
    BY <1>3 DEF PushLine, Q1!Push, Control, InHand
  <2>2. ~Has(items1, line)
    BY <1>0, <1>a DEF LinesOnce, Has
  <2>3. /\ Distinct(items1')
        /\ \A x : Has(items1', x) <=> x = line \/ Has(items1, x)
        /\ \A i \in 1 .. Len(items1') : items1'[i] = line \/ Has(items1, items1'[i])
    <3>1. Distinct(items1') /\ \A x : Has(items1', x) <=> x = line \/ Has(items1, x)
      BY <2>1, <2>2, AppendFacts DEF Types, LinesOnce
    <3>2. \A i \in 1 .. Len(items1') : Has(items1', items1'[i])
      BY DEF Has
    <3> QED BY <3>1, <3>2
  <2>4. \A x : Has(items1, x) /\ x # EOS => x \in Nat /\ x < line
    BY <1>a DEF LinesOnce, Has
  <2> QED BY <1>0, <1>a, <2>1, <2>2, <2>3, <2>4 DEF LinesOnce
<1>4. CASE PushEOS
  <2>1. items1' = Append(items1, EOS) /\ UNCHANGED <<k, line, InHand>>
    BY <1>4 DEF PushEOS, Q1!Push, InHand
  <2>2. ~Has(items1, EOS)
    BY <1>4 DEF PushEOS, Q1!Push, EndsAreLast, Has, Sent1
  <2>3. Distinct(items1') /\ \A x : Has(items1', x) <=> x = EOS \/ Has(items1, x)
    BY <2>1, <2>2, AppendFacts DEF Types, LinesOnce
  <2>4. \A i \in 1 .. Len(items1') : Has(items1', items1'[i])
    BY DEF Has
  <2>5. \A x : Has(items1, x) /\ x # EOS => x < line
    BY DEF LinesOnce, Has
  <2> QED BY <2>1, <2>3, <2>4, <2>5 DEF LinesOnce
<1>5. CASE WaitLine
  BY <1>0, <1>5 DEF WaitLine, Q1!CallPop, LinesOnce
<1>6. CASE PopLine
  <2>1. /\ items1 # <<>> /\ items1' = Tail(items1) /\ InHand' = Head(items1) /\ line' = line
    BY <1>6 DEF PopLine, Q1!Pop, InHand, Types
  <2>2. /\ Distinct(items1') /\ ~Has(items1', Head(items1))
        /\ \A x : Has(items1, x) <=> x = Head(items1) \/ Has(items1', x)
    BY <2>1, TailFacts DEF Types, LinesOnce
  <2>3. \A x : Has(items1, x) /\ x # EOS => x < line
    BY DEF LinesOnce, Has
  <2>4. \A i \in 1 .. Len(items1') : Has(items1', items1'[i])
    BY DEF Has
  <2> QED BY <2>1, <2>2, <2>3, <2>4 DEF LinesOnce
<1>7. CASE Token \/ ForwardEOS \/ TokenFails \/ PushToken \/ FreeLine
  <2>1. UNCHANGED <<items1, line, InHand>>
    BY <1>7 DEF Token, ForwardEOS, TokenFails, PushToken, FreeLine, queue1, InHand
  <2>2. k' > 0 => k > 0
    BY <1>7 DEF Token, ForwardEOS, TokenFails, PushToken, FreeLine, Splitting, Q2!Push, Control
  <2> QED BY <2>1, <2>2 DEF LinesOnce
<1>8. CASE WaitToken \/ PopToken \/ PrintWords \/ Main \/ Terminated \/ UNCHANGED vars
  BY <1>8 DEF WaitToken, PopToken, PrintWords, Main, Terminated, vars, queue1, LinesOnce, InHand
<1> QED
  BY <1>1, <1>2, <1>3, <1>4, <1>5, <1>6, <1>7, <1>8 DEF Next, Stage1, Stage2, Stage3

\* Steps that leave the words where they are.
LEMMA SameWords ==
    ASSUME Types, Control, EndsAreLast, Once, [Next]_vars, UNCHANGED <<items2, lost, InTable>>
    PROVE  WordsOnce'
<1>1. \A t \in Places : Split(t) => Split(t)'
  BY SplitStep
<1>2. InTable \subseteq Places /\ lost \subseteq Places
  BY TableFacts DEF InTable, Types
<1> QED BY <1>1, <1>2 DEF Once, WordsOnce

LEMMA WordsOnceStep ==
    /\ Types /\ Control /\ EndsAreLast /\ Once /\ TableSound /\ [Next]_vars
    => WordsOnce'
<1> SUFFICES ASSUME Types, Control, EndsAreLast, Once, TableSound, [Next]_vars
             PROVE  WordsOnce'
  OBVIOUS
<1>0. /\ items2 \in Seq(Places \cup {EOS}) /\ InTable \subseteq Places /\ lost \subseteq Places
      /\ EOS \notin Places /\ \A t \in Places : Split(t) => Split(t)'
  BY TableFacts, PlaceFacts, SplitStep DEF InTable, Types
<1>1. CASE Stage1 \/ WaitLine \/ PopLine \/ Token \/ FreeLine \/ ForwardEOS \/ WaitToken
           \/ Main \/ Terminated \/ UNCHANGED vars
  <2>1. UNCHANGED <<items2, lost, table>>
    BY <1>1 DEF Stage1, SkipLine, ReadLine, PushLine, EndOfFile, PushEOS, WaitLine, PopLine, Token,
       FreeLine, ForwardEOS, WaitToken, Main, Terminated, vars, queue2, Q2!CallPush, Q2!CallPop
  <2>2. InTable' = InTable
    BY <2>1 DEF InTable
  <2> QED BY <2>1, <2>2, SameWords
<1>2. CASE TokenFails
  <2>1. PICK t \in Places : t = <<InHand, k>> /\ Splits(t)
    BY <1>2, FoundFacts DEF TokenFails, Splits
  <2>2. ~Split(t) /\ Split(t)'
    BY <2>1, NewlySplit
  <2>3. UNCHANGED <<items2, InTable>> /\ lost' = lost \cup {t}
    BY <1>2, <2>1 DEF TokenFails, queue2, InTable
  <2> QED BY <1>0, <2>1, <2>2, <2>3 DEF Once, WordsOnce
<1>3. CASE PushToken
  <2>1. items2' = Append(items2, val2["Stage2"]) /\ UNCHANGED <<lost, InTable>>
    BY <1>3 DEF PushToken, Q2!Push, InTable
  <2>2. CASE val2["Stage2"] = EOS
    <3>1. ~Has(items2, EOS)
      BY <1>3 DEF PushToken, Q2!Push, EndsAreLast, Has, Sent2
    <3>2. Distinct(items2') /\ \A x : Has(items2', x) <=> x = EOS \/ Has(items2, x)
      BY <2>1, <2>2, <3>1, AppendFacts DEF Types, Once, WordsOnce
    <3> QED BY <1>0, <2>1, <3>2 DEF Once, WordsOnce
  <2>3. CASE val2["Stage2"] # EOS
    <3>1. PICK t \in Places : val2["Stage2"] = t /\ Splits(t)
      BY <1>3, <2>3, PushedFacts DEF PushToken, Q2!Push, Splits
    <3>2. ~Split(t) /\ Split(t)'
      BY <3>1, NewlySplit
    <3>3. ~Has(items2, t) /\ t \notin lost /\ t \notin InTable
      BY <3>1, <3>2 DEF Once, WordsOnce
    <3>4. Distinct(items2') /\ \A x : Has(items2', x) <=> x = t \/ Has(items2, x)
      BY <2>1, <3>1, <3>3, AppendFacts DEF Types, Once, WordsOnce
    <3> QED BY <1>0, <2>1, <3>1, <3>2, <3>3, <3>4 DEF Once, WordsOnce
  <2> QED BY <2>2, <2>3
<1>4. CASE PopToken
  <2> DEFINE t == Head(items2)
  <2>1. /\ items2 # <<>> /\ items2' = Tail(items2) /\ t \in Places
        /\ \/ InTable' = InTable \cup {t} /\ lost' = lost
           \/ lost' = lost \cup {t} /\ InTable' = InTable
           \/ InTable' = InTable /\ lost' = lost
    BY <1>4, PopTokenFacts
  <2>2. /\ Distinct(items2') /\ ~Has(items2', t)
        /\ \A x : Has(items2, x) <=> x = t \/ Has(items2', x)
    BY <2>1, TailFacts DEF Types, Once, WordsOnce
  <2> HIDE DEF t
  <2>3. Split(t) /\ t \notin lost /\ t \notin InTable
    BY <2>1, <2>2 DEF Once, WordsOnce
  <2> QED BY <1>0, <2>1, <2>2, <2>3 DEF Once, WordsOnce
<1>5. CASE PrintWords
  <2>1. items2 # <<>> /\ items2' = Tail(items2) /\ UNCHANGED <<lost, InTable>>
    BY <1>5 DEF PrintWords, Q2!Pop, InTable
  <2>2. Distinct(items2') /\ \A x : Has(items2, x) <=> x = Head(items2) \/ Has(items2', x)
    BY <2>1, TailFacts DEF Types, Once, WordsOnce
  <2> QED BY <1>0, <2>1, <2>2 DEF Once, WordsOnce
<1> QED
  BY <1>1, <1>2, <1>3, <1>4, <1>5 DEF Next, Stage2, Stage3

-----------------------------------------------------------------------------
LEMMA KeptStep ==
    /\ Types /\ Control /\ EndsAreLast /\ Once /\ Kept /\ TableSound /\ [Next]_vars
    => Kept'
<1> SUFFICES ASSUME Types, Control, EndsAreLast, Once, Kept, TableSound, [Next]_vars,
                    table' # NULL, NEW t \in Places, Split(t)'
             PROVE  \/ t \in lost' \/ Has(items2', t)
                    \/ \E e \in InTable' : Word(e) = Word(t)
  BY DEF Kept
<1>0. Split(t) \/ Splits(t)
  BY SplitStep
<1>1. CASE Stage1 \/ WaitLine \/ PopLine \/ Token \/ FreeLine \/ ForwardEOS \/ WaitToken
           \/ Main \/ Terminated \/ UNCHANGED vars
  <2>1. UNCHANGED <<items2, lost, table>>
    BY <1>1 DEF Stage1, SkipLine, ReadLine, PushLine, EndOfFile, PushEOS, WaitLine, PopLine, Token,
       FreeLine, ForwardEOS, WaitToken, Main, Terminated, vars, queue2, Q2!CallPush, Q2!CallPop
  <2>2. InTable' = InTable
    BY <2>1 DEF InTable
  <2>3. Splits(t) => t \in lost' \/ Has(items2', t)
    <3>1. TokenFails => lost' = lost \cup {<<InHand, k>>}
      BY DEF TokenFails
    <3>2. PushToken => val2["Stage2"] = <<InHand, k>> \/ val2["Stage2"] = EOS
      BY PushedFacts DEF PushToken, Q2!Push
    <3>3. PushToken => items2' = Append(items2, val2["Stage2"])
      BY DEF PushToken, Q2!Push
    <3>4. ASSUME PushToken, val2["Stage2"] = t PROVE Has(items2', t)
      <4>1. items2' = Append(items2, t) /\ items2 \in Seq(Places \cup {EOS})
        BY <3>3, <3>4 DEF Types
      <4> QED BY <4>1, AppendFacts
    <3> QED BY <3>1, <3>2, <3>4 DEF Splits
  <2> QED BY <1>0, <2>1, <2>2, <2>3 DEF Kept
<1>2. CASE TokenFails
  <2>1. UNCHANGED <<items2, table, InTable>> /\ lost' = lost \cup {<<InHand, k>>}
    BY <1>2 DEF TokenFails, queue2, InTable
  <2>2. Splits(t) => t \in lost'
    BY <2>1 DEF Splits
  <2> QED BY <1>0, <2>1, <2>2 DEF Kept
<1>3. CASE PushToken
  <2>1. items2' = Append(items2, val2["Stage2"]) /\ UNCHANGED <<lost, table, InTable>>
    BY <1>3 DEF PushToken, Q2!Push, InTable
  <2>2. val2["Stage2"] \in Places \cup {EOS} /\ (Splits(t) => val2["Stage2"] = t)
    <3>1. val2["Stage2"] # EOS => val2["Stage2"] = <<InHand, k>> /\ <<InHand, k>> \in Places
      BY <1>3, PushedFacts DEF PushToken, Q2!Push
    <3>2. ~TokenFails
      BY <1>3 DEF PushToken, TokenFails, Splitting, Q2!Push
    <3> QED BY <3>1, <3>2 DEF Splits
  <2>3. \A x : Has(items2', x) <=> x = val2["Stage2"] \/ Has(items2, x)
    BY <2>1, <2>2, AppendFacts DEF Types
  <2> QED BY <1>0, <2>1, <2>2, <2>3 DEF Kept
<1>4. CASE PopToken
  <2> DEFINE h == Head(items2)
  <2>1. /\ items2 # <<>> /\ items2' = Tail(items2) /\ h \in Places /\ table # NULL
        /\ \/ InTable' = InTable \cup {h} /\ UNCHANGED lost
           \/ InTable' = InTable /\ lost' = lost \cup {h}
           \/ /\ table # NULL => \E e \in InTable : Word(e) = Word(h)
              /\ InTable' = InTable /\ UNCHANGED <<table, lost>>
    BY <1>4, PopTokenFacts
  <2>2. \A x : Has(items2, x) <=> x = h \/ Has(items2', x)
    BY <2>1, TailFacts DEF Types
  <2>3. Split(t)
    <3>1. ~TokenFails /\ ~PushToken
      BY <1>4 DEF PopToken, TokenFails, PushToken, queue2, Q2!Pop, Q2!Push, Types
    <3> QED BY <1>0, <3>1 DEF Splits
  <2> HIDE DEF h
  <2> QED BY <2>1, <2>2, <2>3 DEF Kept
<1>5. CASE PrintWords
  <2>1. items2 # <<>> /\ items2' = Tail(items2) /\ Head(items2) = EOS
        /\ UNCHANGED <<lost, table, InTable>>
    BY <1>5 DEF PrintWords, Q2!Pop, InTable
  <2>2. \A x : Has(items2, x) <=> x = EOS \/ Has(items2', x)
    BY <2>1, TailFacts DEF Types
  <2>3. Split(t)
    <3>1. ~TokenFails /\ ~PushToken
      BY <1>5 DEF PrintWords, TokenFails, PushToken, queue2, Q2!Pop, Q2!Push, Types
    <3> QED BY <1>0, <3>1 DEF Splits
  <2> QED BY <2>1, <2>2, <2>3, PlaceFacts DEF Kept
<1> QED
  BY <1>1, <1>2, <1>3, <1>4, <1>5 DEF Next, Stage2, Stage3

LEMMA TableSoundStep == Types /\ TableSound /\ [Next]_vars => TableSound'
<1> SUFFICES ASSUME Types, TableSound, [Next]_vars PROVE TableSound'
  OBVIOUS
<1>1. CASE UNCHANGED table
  BY <1>1 DEF TableSound
<1>2. CASE PopToken /\ table' # table
  <2>1. /\ table # NULL /\ table' = icl_hash_insert(table, Head(items2))
        /\ ~icl_hash_find(table, Head(items2)) /\ Head(items2) \in Places
    BY <1>2, PopTokenFacts
  <2> QED BY <2>1, InsertFacts DEF TableSound
<1>3. ~PopToken => UNCHANGED table
  BY DEF Next, Stage1, Stage2, Stage3, SkipLine, ReadLine, PushLine, EndOfFile, PushEOS, WaitLine,
     PopLine, Token, TokenFails, PushToken, FreeLine, ForwardEOS, WaitToken, PrintWords, Main,
     Terminated, vars
<1> QED BY <1>1, <1>2, <1>3

\* A table without words has nothing to visit.
LEMMA NothingInserted ==
    ASSUME Types, TableSound, table # NULL, InTable = {}
    PROVE  icl_hash_foreach(table) = <<>>
<1> DEFINE F == icl_hash_foreach(table)
<1>1. F \in Seq(Places) /\ \A x : Has(F, x) <=> x \in InTable
  BY ForeachFacts
<1> HIDE DEF F
<1>2. Len(F) \in Nat
  BY <1>1
<1>3. Len(F) = 0
  <2> SUFFICES ASSUME Len(F) # 0 PROVE FALSE
    OBVIOUS
  <2>1. 1 \in 1 .. Len(F)
    BY <1>2
  <2>2. Has(F, F[1])
    BY <2>1 DEF Has
  <2> QED BY <1>1, <2>2
<1>4. F = <<>>
  BY <1>1, <1>3
<1> QED BY <1>4 DEF F

LEMMA PrintedStep ==
    Types /\ Control /\ TableSound /\ TableKept /\ Printed /\ [Next]_vars => Printed'
<1> SUFFICES ASSUME Types, Control, TableSound, TableKept, Printed, [Next]_vars PROVE Printed'
  OBVIOUS
<1>1. CASE UNCHANGED <<table, printed>>
  BY <1>1 DEF Printed
<1>2. CASE PopToken
  BY <1>2 DEF PopToken, Q2!Pop, Control, Printed
<1>3. CASE PrintWords
  <2>1. table' = table
    BY <1>3 DEF PrintWords
  <2>2. CASE table = NULL
    BY <1>3, <2>1, <2>2 DEF PrintWords, Printed
  <2>3. CASE table # NULL /\ inserted
    BY <1>3, <2>1, <2>3 DEF PrintWords, Printed
  <2>4. CASE table # NULL /\ ~inserted
    <3> DEFINE F == <<>>
    <3>1. icl_hash_foreach(table) = F
      BY <2>4, NothingInserted DEF TableKept
    <3>2. printed' = F
      BY <1>3, <2>4 DEF PrintWords
    <3>3. [e \in DOMAIN F |-> Word(F[e])] = F
      OBVIOUS
    <3> HIDE DEF F
    <3> QED BY <2>1, <2>4, <3>1, <3>2, <3>3 DEF Printed
  <2> QED BY <2>2, <2>3, <2>4
<1>4. ~PopToken /\ ~PrintWords => UNCHANGED <<table, printed>>
  BY DEF Next, Stage1, Stage2, Stage3, SkipLine, ReadLine, PushLine, EndOfFile, PushEOS, WaitLine,
     PopLine, Token, TokenFails, PushToken, FreeLine, ForwardEOS, WaitToken, Main,
     Terminated, vars
<1> QED BY <1>1, <1>2, <1>3, <1>4

-----------------------------------------------------------------------------
\* The blocks of the buffer, the lines and the words are all different.
LEMMA BlockFacts ==
    /\ \A t \in Places : t # Buffer /\ t # Table /\ \A l : t # <<l, 0>>
    /\ \A l \in LineNumbers : <<l, 0>> # Buffer
    /\ Buffer # Table /\ \A l : <<l, 0>> # Table
    /\ \A l, m : <<l, 0>> = <<m, 0>> => l = m
<1>1. \A t \in Places : t = <<t[1], t[2]>> /\ t[2] # 0
  BY PlaceFacts
<1>2. \A l \in LineNumbers : l # 0
  BY DEF LineNumbers
<1>3. \A t \in Places : t # Table
  <2>1. \A t \in Places : t[1] # 0
    BY <1>2, PlaceFacts
  <2> QED BY <1>1, <2>1 DEF Table
<1>4. Buffer # Table /\ \A l : <<l, 0>> # Table
  BY DEF Buffer, Table
<1> QED BY <1>1, <1>2, <1>3, <1>4 DEF Buffer

\* A word on its way is neither in the table nor lost.
LEMMA HeldApart ==
    ASSUME Types, Control, Once
    PROVE  /\ \A t \in WordsHeld : t \in Places /\ t \notin InTable /\ t \notin lost
           /\ \A t \in InTable : t \in Places /\ t \notin lost
           /\ op2["Stage2"] = "push" => ~Has(items2, val2["Stage2"]) \/ val2["Stage2"] = EOS
<1>1. InTable \subseteq Places /\ lost \subseteq Places
  BY TableFacts DEF InTable, Types
<1>2. ASSUME op2["Stage2"] = "push", val2["Stage2"] # EOS
      PROVE  val2["Stage2"] \in Places /\ ~Split(val2["Stage2"])
  <2>1. val2["Stage2"] = <<InHand, k>> /\ <<InHand, k>> \in Places /\ k > 0 /\ k \in Nat
    BY <1>2, PushedFacts DEF Control, Types
  <2> QED BY <2>1 DEF Split
<1>3. ASSUME NEW t \in WordsHeld PROVE t \in Places /\ t \notin InTable /\ t \notin lost
  <2>1. t \in Places /\ t # EOS
    BY PlaceFacts DEF WordsHeld
  <2> QED BY <1>2, <2>1 DEF WordsHeld, Once, WordsOnce
<1> QED BY <1>1, <1>2, <1>3 DEF Once, WordsOnce

\* Which lines change hands.
LEMMA LinesHeldStep ==
    ASSUME Types, Control, Once, [Next]_vars
    PROVE  /\ PushLine => LinesHeld' = LinesHeld \cup {line} /\ line \in LineNumbers
           /\ FreeLine => LinesHeld' = LinesHeld \ {InHand} /\ InHand \in LineNumbers
           /\ ~PushLine /\ ~FreeLine => LinesHeld' = LinesHeld
<1>0. EOS \notin LineNumbers /\ k \in Nat
  BY PlaceFacts DEF Types
<1>1. CASE SkipLine \/ ReadLine \/ EndOfFile
  BY <1>1 DEF SkipLine, ReadLine, EndOfFile, Q1!CallPush, queue1, LinesHeld, InHand, Types, PushLine, FreeLine,
     Q1!Push, Reading
<1>2. CASE PushLine
  <2>1. line \in LineNumbers /\ \A x : Has(items1', x) <=> x = line \/ Has(items1, x)
    BY <1>2, AppendFacts DEF PushLine, Q1!Push, Types, Control
  <2>2. UNCHANGED k /\ InHand' = InHand /\ ~FreeLine
    BY <1>2 DEF PushLine, FreeLine, Q1!Push, InHand, Types, Splitting, queue1
  <2> QED BY <1>2, <2>1, <2>2 DEF LinesHeld
<1>3. CASE PushEOS
  <2>1. \A x : Has(items1', x) <=> x = EOS \/ Has(items1, x)
    BY <1>3, AppendFacts DEF PushEOS, Q1!Push, Types
  <2>2. UNCHANGED k /\ InHand' = InHand /\ ~FreeLine /\ ~PushLine
    BY <1>3 DEF PushEOS, PushLine, FreeLine, Q1!Push, InHand, Types, Splitting, queue1
  <2> QED BY <1>0, <2>1, <2>2 DEF LinesHeld
<1>4. CASE PopLine
  <2>1. \A x : Has(items1, x) <=> x = Head(items1) \/ Has(items1', x)
    BY <1>4, TailFacts DEF PopLine, Q1!Pop, Types
  <2>2. k = 0 /\ k' = 1 /\ InHand' = Head(items1) /\ ~FreeLine /\ ~PushLine
    BY <1>4 DEF PopLine, PushLine, FreeLine, Q1!Pop, Control, InHand, Types, Splitting
  <2> QED BY <2>1, <2>2 DEF LinesHeld
<1>5. CASE FreeLine
  <2>1. InHand # EOS /\ k > 0 /\ k' = 0 /\ UNCHANGED items1 /\ ~PushLine /\ ~Has(items1, InHand)
    BY <1>5 DEF FreeLine, Splitting, queue1, PushLine, Q1!Push, Once, LinesOnce
  <2>2. InHand \in LineNumbers
    BY <2>1 DEF Control
  <2> QED BY <1>5, <2>1, <2>2 DEF LinesHeld
<1>6. CASE PushToken
  <2>1. UNCHANGED items1 /\ InHand' = InHand /\ ~FreeLine /\ ~PushLine /\ k > 0
    BY <1>6 DEF PushToken, PushLine, FreeLine, Splitting, queue1, InHand, Q1!Push, Q2!Push, Control,
       queue2, Types
  <2>2. val2["Stage2"] = EOS => InHand = EOS
    BY <1>6 DEF Control
  <2>3. k' > 0 \/ InHand \notin LineNumbers
    BY <1>0, <1>6, <2>2 DEF PushToken
  <2> QED BY <2>1, <2>3 DEF LinesHeld
<1>7. CASE WaitLine \/ Token \/ TokenFails \/ ForwardEOS
  <2>1. UNCHANGED items1 /\ (k > 0 => InHand' = InHand) /\ (k > 0 <=> k' > 0)
    BY <1>0, <1>7 DEF WaitLine, Token, TokenFails, ForwardEOS, Splitting, queue1, Q1!CallPop, InHand
  <2>2. ~PushLine /\ ~FreeLine
    BY <1>7 DEF WaitLine, Token, TokenFails, ForwardEOS, Splitting, queue1, Q1!CallPop, PushLine,
       FreeLine, queue2, Q2!CallPush, Q1!Push, Types
  <2> QED BY <2>1, <2>2 DEF LinesHeld
<1>8. CASE WaitToken \/ PopToken \/ PrintWords \/ Main \/ Terminated \/ UNCHANGED vars
  BY <1>8 DEF WaitToken, PopToken, PrintWords, Main, Terminated, vars, queue1, queue2, InHand, LinesHeld,
     PushLine, FreeLine, Q1!Push, Q2!Pop, Q2!CallPop, Splitting, Types
<1> QED
  BY <1>1, <1>2, <1>3, <1>4, <1>5, <1>6, <1>7, <1>8 DEF Next, Stage1, Stage2, Stage3

\* Which words change hands.
LEMMA WordsHeldStep ==
    ASSUME Types, Control, Once, TableSound, [Next]_vars
    PROVE  /\ Token => WordsHeld' = WordsHeld \cup {<<InHand, k>>} /\ <<InHand, k>> \in Places
           /\ PopToken => WordsHeld' = WordsHeld \ {Head(items2)} /\ Head(items2) \in WordsHeld
           /\ ~Token /\ ~PopToken => WordsHeld' = WordsHeld
<1>0. EOS \notin Places
  BY PlaceFacts
<1>1. CASE Token
  <2>1. PICK t \in Places : t = <<InHand, k>> /\ UNCHANGED items2 /\ op2["Stage2"] # "push"
           /\ val2'["Stage2"] = t /\ op2'["Stage2"] = "push"
    BY <1>1, FoundFacts DEF Token, Splitting, Q2!CallPush, Types
  <2>2. ~PopToken
    BY <1>1 DEF Token, Splitting, PopToken, Q2!CallPush, Q2!Pop, Types
  <2>3. WordsHeld' = WordsHeld \cup {t}
    BY <2>1 DEF WordsHeld
  <2> QED BY <1>1, <2>1, <2>2, <2>3
<1>2. CASE PopToken
  <2>1. PICK t \in Places : t = Head(items2) /\ items2 # <<>> /\ items2' = Tail(items2)
           /\ op2'["Stage2"] = op2["Stage2"] /\ val2'["Stage2"] = val2["Stage2"]
    BY <1>2, PopTokenFacts
  <2>2. /\ \A x : Has(items2, x) <=> x = t \/ Has(items2', x)
        /\ ~Has(items2', t)
    BY <2>1, TailFacts DEF Types, Once, WordsOnce
  <2>3. op2["Stage2"] = "push" => val2["Stage2"] # t
    BY <2>1, <2>2, HeldApart, PlaceFacts
  <2>4. ~Token
    BY <1>2 DEF Token, Splitting, PopToken, Q2!CallPush, Q2!Pop, Types
  <2>5. WordsHeld' = WordsHeld \ {t} /\ t \in WordsHeld
    BY <2>1, <2>2, <2>3 DEF WordsHeld
  <2> QED BY <1>2, <2>1, <2>4, <2>5
<1>3. CASE PushToken
  <2>1. /\ \A x : Has(items2', x) <=> x = val2["Stage2"] \/ Has(items2, x)
        /\ op2["Stage2"] = "push" /\ op2'["Stage2"] = "idle" /\ UNCHANGED val2
    <3>1. val2["Stage2"] \in Places \cup {EOS}
      BY <1>3, PushedFacts DEF PushToken, Q2!Push
    <3>2. \A x : Has(items2', x) <=> x = val2["Stage2"] \/ Has(items2, x)
      BY <1>3, <3>1, AppendFacts DEF PushToken, Q2!Push, Types
    <3> QED BY <1>3, <3>2 DEF PushToken, Q2!Push, Types
  <2>2. ~PopToken /\ ~Token
    BY <1>3 DEF PushToken, Q2!Push, Token, Splitting, PopToken, Q2!Pop, Types
  <2> QED BY <2>1, <2>2 DEF WordsHeld
<1>4. CASE PrintWords
  <2>1. /\ \A x : Has(items2, x) <=> x = EOS \/ Has(items2', x)
        /\ op2'["Stage2"] = op2["Stage2"] /\ val2'["Stage2"] = val2["Stage2"]
    <3>1. items2' = Tail(items2) /\ items2[1] = EOS /\ items2 # <<>>
      BY <1>4, HeadFacts DEF PrintWords, Q2!Pop
    <3> QED BY <1>4, <3>1, TailFacts DEF PrintWords, Q2!Pop, Types
  <2>2. ~PopToken /\ ~Token
    BY <1>4 DEF PrintWords, PopToken, Token, Splitting, Q2!Pop, Q2!CallPush, Types
  <2> QED BY <1>0, <2>1, <2>2 DEF WordsHeld
<1>5. CASE Stage1 \/ WaitLine \/ PopLine \/ TokenFails \/ FreeLine \/ ForwardEOS \/ WaitToken
           \/ Main \/ Terminated \/ UNCHANGED vars
  <2>1. /\ UNCHANGED items2
        /\ \/ op2'["Stage2"] = op2["Stage2"] /\ val2'["Stage2"] = val2["Stage2"]
           \/ op2["Stage2"] = "idle" /\ val2'["Stage2"] = EOS
    BY <1>5 DEF Stage1, SkipLine, ReadLine, PushLine, EndOfFile, PushEOS, WaitLine, PopLine, TokenFails,
       FreeLine, ForwardEOS, WaitToken, Main, Terminated, vars, queue2, Q2!CallPush, Q2!CallPop, Types
  <2>2. ~PopToken
    BY <2>1, TailFacts DEF PopToken, Q2!Pop, Types
  <2>3. ~Token
    BY <1>5 DEF Stage1, SkipLine, ReadLine, PushLine, EndOfFile, PushEOS, WaitLine, PopLine, TokenFails,
       FreeLine, ForwardEOS, WaitToken, Main, Terminated, vars, queue2, Q2!CallPush, Q2!CallPop, Types,
       Token, Splitting
  <2> QED BY <1>0, <2>1, <2>2, <2>3 DEF WordsHeld
<1> QED
  BY <1>1, <1>2, <1>3, <1>4, <1>5 DEF Next, Stage2, Stage3

\* The entries that Stage3 frees are those of the table.
LEMMA EntryFacts ==
    ASSUME Types, TableSound, table # NULL
    PROVE  \A x : x \in ToSet(icl_hash_foreach(table)) <=> x \in InTable
<1>1. icl_hash_foreach(table) \in Seq(Places)
  BY ForeachFacts
<1>2. \A x : x \in ToSet(icl_hash_foreach(table)) <=> Has(icl_hash_foreach(table), x)
  <2> DEFINE F == icl_hash_foreach(table)
  <2>1. F \in Seq(Places) /\ DOMAIN F = 1 .. Len(F)
    BY <1>1
  <2> HIDE DEF F
  <2>2. \A x : x \in ToSet(F) <=> Has(F, x)
    BY <2>1 DEF ToSet, Has
  <2> QED BY <2>2 DEF F
<1> QED BY <1>2, ForeachFacts

LEMMA OwnersStep ==
    /\ Types /\ Control /\ EndsAreLast /\ Once /\ TableSound /\ TableKept /\ Owners /\ [Next]_vars
    => Owners'
<1> SUFFICES ASSUME Types, Control, EndsAreLast, Once, TableSound, TableKept, Owners, [Next]_vars
             PROVE  Owners'
  OBVIOUS
<1>0. /\ \A t \in WordsHeld : t \in Places /\ t \notin InTable /\ t \notin lost
      /\ \A t \in InTable : t \in Places /\ t \notin lost
      /\ \A t \in TableHeld : t \in InTable
      /\ \A l \in LinesHeld : l \in LineNumbers
      /\ \A t \in lost : t \in Places
  BY HeldApart DEF TableHeld, LinesHeld, Types
<1>1. CASE SkipLine \/ ReadLine \/ PushEOS \/ WaitLine \/ PopLine \/ PushToken \/ ForwardEOS \/ WaitToken
           \/ Main \/ Terminated \/ UNCHANGED vars
  <2>1. UNCHANGED <<heap, lost, table, printed>> /\ ~PushLine /\ ~FreeLine /\ ~Token /\ ~PopToken
    BY <1>1 DEF SkipLine, ReadLine, PushEOS, WaitLine, PopLine, PushToken, ForwardEOS,
       WaitToken, Main, Terminated, vars, PushLine, FreeLine, Token, PopToken, Splitting, queue1, queue2,
       Q1!CallPush, Q1!CallPop, Q1!Push, Q1!Pop, Q2!CallPush, Q2!CallPop, Q2!Push, Q2!Pop, Types, Reading,
       Control
  <2>2. LinesHeld' = LinesHeld /\ WordsHeld' = WordsHeld /\ TableHeld' = TableHeld
    BY <2>1, LinesHeldStep, WordsHeldStep DEF TableHeld, InTable
  <2> QED BY <2>1, <2>2 DEF Owners
<1>2. CASE PushLine
  <2>1. /\ LinesHeld' = LinesHeld \cup {line} /\ WordsHeld' = WordsHeld /\ TableHeld' = TableHeld
        /\ lost' = lost
        /\ heap' \in {heap \cup {<<line, 0>>}, (heap \ {Buffer}) \cup {<<line, 0>>}}
    <3>1. UNCHANGED <<table, lost, printed>> /\ ~Token /\ ~PopToken
      BY <1>2 DEF PushLine, queue2, Q1!Push, Token, PopToken, Q2!CallPush, Q2!Pop, Types
    <3> QED BY <1>2, <3>1, LinesHeldStep, WordsHeldStep DEF TableHeld, InTable, PushLine
  <2> QED BY <1>0, <2>1, BlockFacts DEF Owners
<1>3. CASE EndOfFile
  <2>1. /\ LinesHeld' = LinesHeld /\ WordsHeld' = WordsHeld /\ TableHeld' = TableHeld
        /\ lost' = lost /\ heap' = heap \ {Buffer}
    <3>1. UNCHANGED <<table, lost, printed>> /\ ~Token /\ ~PopToken /\ ~PushLine /\ ~FreeLine
      BY <1>3 DEF EndOfFile, queue2, Q1!CallPush, Token, PopToken, Q2!CallPush, Q2!Pop, Types,
         PushLine, FreeLine, Q1!Push, Reading, queue1
    <3> QED BY <1>3, <3>1, LinesHeldStep, WordsHeldStep DEF TableHeld, InTable, EndOfFile
  <2> QED BY <1>0, <2>1, BlockFacts DEF Owners
<1>4. CASE Token
  <2>1. /\ LinesHeld' = LinesHeld /\ TableHeld' = TableHeld
        /\ lost' = lost /\ heap' = heap \cup {<<InHand, k>>}
        /\ WordsHeld' = WordsHeld \cup {<<InHand, k>>}
    <3>1. UNCHANGED <<table, lost, printed>> /\ ~PushLine /\ ~FreeLine
      BY <1>4 DEF Token, queue1, Q2!CallPush, PushLine, FreeLine, Q1!Push, queue2, Types, Splitting
    <3> QED BY <1>4, <3>1, LinesHeldStep, WordsHeldStep DEF TableHeld, InTable, Token
  <2> QED BY <2>1 DEF Owners
<1>5. CASE TokenFails
  <2>1. /\ LinesHeld' = LinesHeld /\ WordsHeld' = WordsHeld /\ TableHeld' = TableHeld
        /\ lost \subseteq lost' /\ heap' = heap
    <3>1. UNCHANGED <<table, printed>> /\ ~PushLine /\ ~FreeLine /\ ~Token /\ ~PopToken
      BY <1>5 DEF TokenFails, queue1, Q2!CallPush, PushLine, FreeLine, Q1!Push, queue2, Types, Splitting,
         Token, PopToken, Q2!Pop
    <3> QED BY <1>5, <3>1, LinesHeldStep, WordsHeldStep DEF TableHeld, InTable, TokenFails
  <2> QED BY <2>1 DEF Owners
<1>6. CASE FreeLine
  <2>1. /\ LinesHeld' = LinesHeld \ {InHand} /\ WordsHeld' = WordsHeld /\ TableHeld' = TableHeld
        /\ lost' = lost /\ heap' = heap \ {<<InHand, 0>>}
    <3>1. UNCHANGED <<table, lost, printed>> /\ ~Token /\ ~PopToken
      BY <1>6 DEF FreeLine, queue1, Q2!CallPush, queue2, Types, Splitting, Token, PopToken, Q2!Pop
    <3> QED BY <1>6, <3>1, LinesHeldStep, WordsHeldStep DEF TableHeld, InTable, FreeLine
  <2> QED BY <1>0, <2>1, BlockFacts DEF Owners
<1>7. CASE PopToken
  <2>1. PICK t : t = Head(items2)
    OBVIOUS
  <2>2. /\ WordsHeld' = WordsHeld \ {t} /\ t \in WordsHeld
        /\ \/ InTable' = InTable \cup {t} /\ UNCHANGED <<lost, heap>>
           \/ InTable' = InTable /\ lost' = lost \cup {t} /\ UNCHANGED heap
           \/ InTable' = InTable /\ lost' = lost /\ heap' = heap \ {t}
    BY <1>7, <2>1, PopTokenFacts, WordsHeldStep
  <2>3. LinesHeld' = LinesHeld /\ printed = NULL /\ printed' = NULL
    <3>1. ~PushLine /\ ~FreeLine
      BY <1>7 DEF PopToken, PushLine, FreeLine, queue1, queue2, Q1!Push, Q2!Pop, Types, Splitting
    <3> QED BY <1>7, <3>1, LinesHeldStep DEF PopToken, Q2!Pop, Control
  <2>4. TableHeld = InTable /\ TableHeld' = InTable'
    BY <2>3 DEF TableHeld
  <2> QED BY <1>0, <2>2, <2>3, <2>4, BlockFacts DEF Owners
<1>8. CASE PrintWords
  <2>1. LinesHeld' = LinesHeld /\ WordsHeld' = WordsHeld /\ lost' = lost
    <3>1. ~PushLine /\ ~FreeLine /\ ~Token /\ ~PopToken /\ lost' = lost
      BY <1>8 DEF PrintWords, PopToken, PushLine, FreeLine, queue1, queue2, Q1!Push, Q2!Pop, Types, Splitting,
         Token, Q2!CallPush
    <3> QED BY <3>1, LinesHeldStep, WordsHeldStep
  <2>2. TableHeld = InTable /\ TableHeld' = {}
    BY <1>8, PrintedFacts DEF TableHeld, PrintWords, Q2!Pop, Control
  <2>3. \A x : x \in heap' <=> /\ x \in heap /\ x \notin InTable
                              /\ ~(table # NULL /\ inserted /\ x = Table)
    <3>1. CASE ~(table # NULL /\ inserted)
      <4>1. heap' = heap
        BY <1>8, <3>1 DEF PrintWords
      <4>2. InTable = {}
        BY <3>1 DEF InTable, TableKept
      <4> QED BY <3>1, <4>1, <4>2
    <3>2. CASE table # NULL /\ inserted
      <4>1. heap' = heap \ (ToSet(icl_hash_foreach(table)) \cup {Table})
        BY <1>8, <3>2 DEF PrintWords
      <4> QED BY <3>2, <4>1, EntryFacts
    <3> QED BY <3>1, <3>2
  <2> QED BY <1>0, <2>1, <2>2, <2>3, BlockFacts DEF Owners
<1> QED
  BY <1>1, <1>2, <1>3, <1>4, <1>5, <1>6, <1>7, <1>8 DEF Next, Stage1, Stage2, Stage3

LEMMA TableKeptStep ==
    Types /\ Control /\ EndsAreLast /\ TableSound /\ TableKept /\ [Next]_vars => TableKept'
<1> SUFFICES ASSUME Types, Control, EndsAreLast, TableSound, TableKept, [Next]_vars
             PROVE  TableKept'
  OBVIOUS
<1>1. ASSUME UNCHANGED <<table, inserted, printed>>, Table \in heap' <=> Table \in heap
      PROVE  TableKept'
  BY <1>1 DEF TableKept, InTable
<1>2. CASE SkipLine \/ ReadLine \/ PushEOS \/ WaitLine \/ PopLine \/ TokenFails \/ PushToken
           \/ ForwardEOS \/ WaitToken \/ Main \/ Terminated \/ UNCHANGED vars
  <2>1. UNCHANGED <<table, inserted, printed, heap>>
    BY <1>2 DEF SkipLine, ReadLine, PushEOS, WaitLine, PopLine, TokenFails, PushToken, ForwardEOS,
       WaitToken, Main, Terminated, vars
  <2> QED BY <1>1, <2>1
<1>3. CASE PushLine
  <2>1. UNCHANGED <<table, inserted, printed>>
        /\ heap' \in {heap \cup {<<line, 0>>}, (heap \ {Buffer}) \cup {<<line, 0>>}}
    BY <1>3 DEF PushLine
  <2> QED BY <1>1, <2>1, BlockFacts
<1>4. CASE EndOfFile
  <2>1. UNCHANGED <<table, inserted, printed>> /\ heap' = heap \ {Buffer}
    BY <1>4 DEF EndOfFile
  <2> QED BY <1>1, <2>1, BlockFacts
<1>5. CASE Token
  <2>1. /\ UNCHANGED <<table, inserted, printed>> /\ heap' = heap \cup {<<InHand, k>>}
        /\ <<InHand, k>> \in Places
    BY <1>5, FoundFacts DEF Token
  <2> QED BY <1>1, <2>1, BlockFacts
<1>6. CASE FreeLine
  <2>1. UNCHANGED <<table, inserted, printed>> /\ heap' = heap \ {<<InHand, 0>>}
    BY <1>6 DEF FreeLine
  <2> QED BY <1>1, <2>1, BlockFacts
<1>7. CASE PopToken
  <2>1. PICK t : t = Head(items2)
    OBVIOUS
  <2>2. /\ t \in Places /\ printed' = printed /\ items2 # <<>>
        /\ table' # NULL <=> table # NULL
        /\ InTable' = InTable \/ InTable' = InTable \cup {t}
        /\ heap' = heap \/ heap' = heap \ {t}
    BY <1>7, <2>1, PopTokenFacts
  <2>3. printed = NULL
    BY <2>2 DEF EndsAreLast
  <2>4. inserted' = TRUE \/ UNCHANGED <<table, inserted>>
    BY <1>7 DEF PopToken
  <2>5. Table \in heap' <=> Table \in heap
    BY <2>2, BlockFacts
  <2>6. ~inserted' => InTable' = {}
    BY <2>4 DEF TableKept, InTable
  <2> QED BY <2>2, <2>3, <2>4, <2>5, <2>6 DEF TableKept
<1>8. CASE PrintWords
  <2>1. items2 # <<>> /\ UNCHANGED <<table, inserted>>
    BY <1>8 DEF PrintWords
  <2>2. printed = NULL /\ printed' # NULL /\ InTable' = InTable
    BY <1>8, <2>1, PrintedFacts DEF EndsAreLast, InTable
  <2>3. Table \in heap' <=> Table \in heap /\ ~(table # NULL /\ inserted)
    <3>1. CASE table # NULL /\ inserted
      BY <1>8, <3>1 DEF PrintWords
    <3>2. CASE ~(table # NULL /\ inserted)
      BY <1>8, <3>2 DEF PrintWords
    <3> QED BY <3>1, <3>2
  <2> QED BY <2>1, <2>2, <2>3 DEF TableKept
<1> QED
  BY <1>2, <1>3, <1>4, <1>5, <1>6, <1>7, <1>8 DEF Next, Stage1, Stage2, Stage3

-----------------------------------------------------------------------------
LEMMA PipelineInvInit == Init => PipelineInv
<1> SUFFICES ASSUME Init PROVE PipelineInv
  OBVIOUS
<1>1. /\ items1 = <<>> /\ op1 = [t \in {"Stage1", "Stage2"} |-> "idle"]
      /\ val1 = [t \in {"Stage1", "Stage2"} |-> NULL]
      /\ items2 = <<>> /\ op2 = [t \in {"Stage2", "Stage3"} |-> "idle"]
      /\ val2 = [t \in {"Stage2", "Stage3"} |-> NULL]
      /\ line = 1 /\ k = 0 /\ lost = {} /\ printed = NULL /\ deleted = FALSE
      /\ heap \subseteq {Buffer, Table} /\ inserted = FALSE
      /\ Table \in heap <=> table # NULL
      /\ table # NULL => table = [b \in buckets |-> <<>>]
  <2>1. [b \in buckets |-> <<>>] # NULL
    <3> DEFINE none == <<>>
    <3>1. none \in Seq(Nat \X Nat)
      OBVIOUS
    <3> HIDE DEF none
    <3>2. [b \in 0 .. NBUCKETS - 1 |-> none] \in [0 .. NBUCKETS - 1 -> Seq(Nat \X Nat)]
      BY <3>1
    <3>3. [b \in 0 .. NBUCKETS - 1 |-> none] # NULL
      BY <3>2, MarksAssumption
    <3> QED BY <3>3 DEF none, buckets
  <2> QED BY <2>1 DEF Init, Q1!Init, Q2!Init, icl_hash_create
<1>2. /\ EOS # NULL /\ Len(file) \in Nat
      /\ \A t \in Places : t[1] \in LineNumbers
  BY PlaceFacts
<1>3. \A x : ~Has(items1, x) /\ ~Has(items2, x)
  BY <1>1 DEF Has
<1>4. \A t \in Places : ~Split(t)
  <2>1. \A l \in LineNumbers : ~(l < 1)
    BY <1>2 DEF LineNumbers
  <2> QED BY <1>1, <1>2, <2>1 DEF Split
<1>5. InTable = {}
  <2>1. ToSet(<<>>) = {}
    BY DEF ToSet
  <2> QED BY <1>1, <2>1 DEF InTable
<1>6. Types
  <2>1. items1 \in Seq(LineNumbers \cup {EOS}) /\ items2 \in Seq(Places \cup {EOS})
    BY <1>1
  <2>2. /\ op1 \in [{"Stage1", "Stage2"} -> {"idle", "push", "pop"}]
        /\ val1 \in [{"Stage1", "Stage2"} -> LineNumbers \cup {EOS, NULL}]
        /\ op2 \in [{"Stage2", "Stage3"} -> {"idle", "push", "pop"}]
        /\ val2 \in [{"Stage2", "Stage3"} -> Places \cup {EOS, NULL}]
    BY <1>1
  <2>3. ASSUME table # NULL PROVE table \in [buckets -> Seq(Places)]
    <3>1. <<>> \in Seq(Places)
      OBVIOUS
    <3> DEFINE none == <<>>
    <3>2. table = [b \in buckets |-> none]
      BY <1>1, <2>3
    <3> HIDE DEF none
    <3>3. none \in Seq(Places)
      BY <3>1 DEF none
    <3> QED BY <3>2, <3>3
  <2>4. line \in 1 .. Len(file) + 1 /\ k \in Nat
    BY <1>1, <1>2
  <2> QED BY <1>1, <2>1, <2>2, <2>3, <2>4 DEF Types
<1>7. Control
  BY <1>1, <1>2 DEF Control, InHand
<1>8. EndsAreLast
  BY <1>1, <1>2 DEF EndsAreLast, InHand
<1>9. Once
  BY <1>1, <1>3, <1>5 DEF Once, LinesOnce, WordsOnce, Distinct
<1>10. Kept
  BY <1>4 DEF Kept
<1>11. TableSound
  BY <1>1 DEF TableSound
<1>12. Printed
  BY <1>1 DEF Printed
<1>13. Owners
  <2>1. LinesHeld = {} /\ WordsHeld = {} /\ TableHeld = {}
    BY <1>1, <1>3, <1>5 DEF LinesHeld, WordsHeld, TableHeld
  <2> QED BY <1>1, <2>1 DEF Owners
<1>14. TableKept
  BY <1>1, <1>5 DEF TableKept
<1> QED
  BY <1>6, <1>7, <1>8, <1>9, <1>10, <1>11, <1>12, <1>13, <1>14 DEF PipelineInv

(* PipelineInv holds in every state of the pipeline: where the stages are, *)
(* that EOS is last, that each line and each word is in one place only,    *)
(* that no word is missing, and who owns which block.                      *)
THEOREM PipelineInvCorrect == Spec => []PipelineInv
<1>1. PipelineInv /\ [Next]_vars => PipelineInv'
  BY TypesStep, ControlStep, EndsStep, LinesOnceStep, WordsOnceStep, KeptStep, TableSoundStep,
     PrintedStep, TableKeptStep, OwnersStep DEF PipelineInv, Once
<1> QED BY PipelineInvInit, <1>1, PTL DEF Spec

(* Each line that main's stages have read is in Q1 or in Stage2, each word *)
(* on its way or in the table, and has that one owner; when main has       *)
(* joined the stages, nothing is left but what an allocation failed for,   *)
(* and the table if no word has reached it.                                *)
THEOREM PipelineOneOwner == Spec => []OneOwner
<1>1. PipelineInv => OneOwner
  <2> SUFFICES ASSUME PipelineInv PROVE OneOwner
    OBVIOUS
  <2> USE DEF PipelineInv
  <2>0. EOS \notin LineNumbers /\ EOS \notin Places
    BY PlaceFacts
  <2>1. Lines = LinesHeld
    <3>1. \A x : x \in ToSet(items1) <=> Has(items1, x)
      BY DEF ToSet, Has, Types
    <3>2. \A x : Has(items1, x) => x \in LineNumbers \cup {EOS}
      BY DEF Has, Types
    <3>3. k > 0 => InHand \in LineNumbers \cup {EOS}
      BY DEF Control
    <3> QED BY <2>0, <3>1, <3>2, <3>3 DEF Lines, LinesHeld
  <2>2. Tokens = WordsHeld
    <3>1. \A x : x \in ToSet(items2) <=> Has(items2, x)
      BY DEF ToSet, Has, Types
    <3>2. \A x : Has(items2, x) => x \in Places \cup {EOS}
      BY DEF Has, Types
    <3>3. op2["Stage2"] = "push" => val2["Stage2"] \in Places \cup {EOS}
      BY PushedFacts
    <3> QED BY <2>0, <3>1, <3>2, <3>3 DEF Tokens, WordsHeld
  <2>3. Entries = TableHeld
    <3>1. table # NULL => \A x : x \in ToSet(icl_hash_foreach(table)) <=> x \in InTable
      BY EntryFacts
    <3>2. table = NULL => InTable = {}
      BY DEF InTable
    <3> QED BY <3>1, <3>2 DEF Entries, TableHeld
  <2>4. heap = (heap \cap {Buffer, Table}) \cup {<<l, 0>> : l \in LinesHeld}
                  \cup WordsHeld \cup TableHeld \cup (heap \cap lost)
    BY DEF Owners
  <2>5. WordsHeld \cap TableHeld = {} /\ (heap \cap lost) \cap (WordsHeld \cup TableHeld) = {}
    BY HeldApart DEF TableHeld
  <2>6. ASSUME deleted
        PROVE  heap = (heap \cap lost) \cup (IF table # NULL /\ ~inserted THEN {Table} ELSE {})
    <3>1. Ended /\ Buffer \notin heap /\ items1 = <<>> /\ items2 = <<>> /\ k = 0
      BY <2>6 DEF Control, Ended, EndsAreLast
    <3>2. \A x : ~Has(items1, x) /\ ~Has(items2, x)
      BY <3>1 DEF Has
    <3>3. LinesHeld = {} /\ WordsHeld = {} /\ TableHeld = {}
      BY <3>1, <3>2 DEF LinesHeld, WordsHeld, TableHeld, Ended
    <3>4. Table \in heap <=> table # NULL /\ ~inserted
      BY <3>1 DEF TableKept, Ended
    <3>5. \A x \in heap : x = Table \/ x \in lost
      BY <3>1, <3>3 DEF Owners
    <3>6. Table \notin lost
      BY BlockFacts DEF Types
    <3> QED BY <3>4, <3>5, <3>6
  <2> QED BY <2>1, <2>2, <2>3, <2>4, <2>5, <2>6 DEF OneOwner
<1> QED BY PipelineInvCorrect, <1>1, PTL

(* Stage3 prints each word of the lines that were read, once, whatever the *)
(* file, the sizes and the schedule; only words whose allocation failed    *)
(* can be missing.                                                         *)
THEOREM PipelineUniqueWords == Spec => []UniqueWords
<1>1. PipelineInv => UniqueWords
  <2> SUFFICES ASSUME PipelineInv, printed # NULL
               PROVE  /\ Len(printed) = Cardinality(ToSet(printed))
                      /\ ToSet(printed) =
                            IF table = NULL THEN {}
                            ELSE UNION {{Word(t) : t \in {<<l, j>> : j \in DOMAIN tokens(l)} \ lost}
                                          : l \in 1 .. line - 1}
    BY DEF UniqueWords
  <2> USE DEF PipelineInv
  <2>1. items1 = <<>> /\ items2 = <<>> /\ k = 0
    BY DEF EndsAreLast, Control, Sent2
  <2>2. \A x : ~Has(items1, x) /\ ~Has(items2, x)
    BY <2>1 DEF Has
  <2>3. \A t : Split(t) <=> t[1] < line
    BY <2>1, <2>2 DEF Split
  <2>4. CASE table = NULL
    <3>1. printed = <<>> /\ ToSet(printed) = {}
      BY <2>4 DEF Printed, ToSet
    <3> QED BY <2>4, <3>1, FS_EmptySet
  <2>5. CASE table # NULL
    <3>1. PICK F : /\ F \in Seq(Places) /\ Len(F) \in Nat /\ DOMAIN F = 1 .. Len(F)
                   /\ printed = [e \in DOMAIN F |-> Word(F[e])]
                   /\ \A x : Has(F, x) <=> x \in InTable
                   /\ \A i, j \in 1 .. Len(F) : i # j => Word(F[i]) # Word(F[j])
      <4>1. /\ icl_hash_foreach(table) \in Seq(Places)
            /\ \A x : Has(icl_hash_foreach(table), x) <=> x \in InTable
            /\ \A i, j \in 1 .. Len(icl_hash_foreach(table)) :
                  i # j => Word(icl_hash_foreach(table)[i]) # Word(icl_hash_foreach(table)[j])
        BY <2>5, ForeachFacts
      <4>2. printed = [e \in DOMAIN icl_hash_foreach(table) |-> Word(icl_hash_foreach(table)[e])]
        BY <2>5 DEF Printed
      <4>3. \A F \in Seq(Places) : Len(F) \in Nat /\ DOMAIN F = 1 .. Len(F)
        OBVIOUS
      <4> QED BY <4>1, <4>2, <4>3
    <3> DEFINE n == Len(F)
               P == [e \in 1 .. n |-> Word(F[e])]
    <3>2. printed = P
      BY <3>1
    <3>3. P \in Seq(Strings) /\ Len(P) = n
      BY <3>1, PlaceFacts
    <3>4. ToSet(P) = {P[e] : e \in 1 .. n}
      BY <3>3 DEF ToSet
    <3>5. Cardinality(ToSet(P)) = n
      <4>1. P \in Bijection(1 .. n, ToSet(P))
        <5>1. P \in [1 .. n -> ToSet(P)] /\ \A x \in ToSet(P) : \E e \in 1 .. n : P[e] = x
          <6> HIDE DEF n
          <6>1. \A e \in 1 .. n : P[e] \in ToSet(P)
            BY <3>4
          <6>2. P \in [1 .. n -> ToSet(P)]
            BY <6>1
          <6> HIDE DEF P
          <6> QED BY <3>4, <6>2
        <5>2. \A i, j \in 1 .. n : i # j => P[i] # P[j]
          BY <3>1
        <5> HIDE DEF P, n
        <5> QED BY <5>1, <5>2 DEF Bijection, Injection, Surjection, IsInjective
      <4>2. ExistsBijection(1 .. n, ToSet(P)) /\ n \in Nat
        BY <3>1, <4>1 DEF ExistsBijection
      <4> QED BY <4>2, FS_CountingElements
    <3>6. ASSUME NEW w
          PROVE  w \in ToSet(P) <=> \E t \in Places : t[1] < line /\ t \notin lost /\ Word(t) = w
      <4>1. w \in ToSet(P) <=> \E e \in InTable : Word(e) = w
        BY <3>1, <3>4 DEF Has
      <4>2. ASSUME NEW e \in InTable PROVE e \in Places /\ e[1] < line /\ e \notin lost
        BY <2>3, <2>5, TableFacts DEF Once, WordsOnce
      <4>3. ASSUME NEW t \in Places, t[1] < line, t \notin lost
            PROVE  \E e \in InTable : Word(e) = Word(t)
        BY <2>2, <2>3, <2>5, <4>3 DEF Kept
      <4> QED BY <4>1, <4>2, <4>3
    <3> DEFINE R == UNION {{Word(t) : t \in {<<l, j>> : j \in DOMAIN tokens(l)} \ lost}
                             : l \in 1 .. line - 1}
    <3>7. ASSUME NEW w
          PROVE  w \in R <=> \E t \in Places : t[1] < line /\ t \notin lost /\ Word(t) = w
      <4>1. \A l \in LineNumbers : DOMAIN tokens(l) = 1 .. Len(tokens(l))
        BY TokenFacts
      <4>2. \A l : l \in 1 .. line - 1 <=> l \in LineNumbers /\ l < line
        <5>1. line \in 1 .. Len(file) + 1 /\ Len(file) \in Nat
          BY PlaceFacts DEF Types
        <5> HIDE DEF PipelineInv
        <5> QED BY <5>1 DEF LineNumbers
      <4>3. w \in R <=> \E l \in LineNumbers : /\ l < line
                           /\ \E j \in 1 .. Len(tokens(l)) : <<l, j>> \notin lost /\ Word(<<l, j>>) = w
        <5> DEFINE V(l) == {Word(t) : t \in {<<l, j>> : j \in DOMAIN tokens(l)} \ lost}
        <5>1. ASSUME NEW l \in LineNumbers
              PROVE  w \in V(l) <=>
                        \E j \in 1 .. Len(tokens(l)) : <<l, j>> \notin lost /\ Word(<<l, j>>) = w
          <6>1. w \in V(l) <=>
                   \E j \in DOMAIN tokens(l) : <<l, j>> \notin lost /\ Word(<<l, j>>) = w
            BY Zenon
          <6> QED BY <4>1, <6>1, Zenon
        <5>2. w \in R <=> \E l \in 1 .. line - 1 : w \in V(l)
          BY Zenon
        <5> HIDE DEF V, R
        <5> QED BY <4>2, <5>1, <5>2, Zenon
      <4>4. ASSUME NEW l \in LineNumbers, NEW j \in 1 .. Len(tokens(l))
            PROVE  <<l, j>> \in Places /\ <<l, j>>[1] = l
        BY PlaceFacts
      <4>5. ASSUME NEW t \in Places
            PROVE  t = <<t[1], t[2]>> /\ t[1] \in LineNumbers /\ t[2] \in 1 .. Len(tokens(t[1]))
        BY PlaceFacts
      <4> HIDE DEF R
      <4>6. ASSUME w \in R PROVE \E t \in Places : t[1] < line /\ t \notin lost /\ Word(t) = w
        BY <4>3, <4>4, <4>6
      <4>7. ASSUME NEW t \in Places, t[1] < line, t \notin lost, Word(t) = w PROVE w \in R
        BY <4>3, <4>5, <4>7
      <4> QED BY <4>6, <4>7
    <3>8. ToSet(P) = R
      <4> HIDE DEF P, R
      <4> QED BY <3>6, <3>7
    <3> HIDE DEF PipelineInv, P, R
    <3> QED BY <2>5, <3>2, <3>3, <3>5, <3>8 DEF R
  <2> QED BY <2>4, <2>5
<1> QED BY PipelineInvCorrect, <1>1, PTL
=============================================================================
