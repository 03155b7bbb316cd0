---------------------------- MODULE PipesProofs ----------------------------
(***************************************************************************)
(* The programs of Pipes, for any size of the tables of descriptors, any   *)
(* argument of pipedec, and any number of requests.                        *)
(*                                                                         *)
(* At each point of main the two pipes that it has made last are in use,   *)
(* and who has which of their four ends is known: main, a child that was   *)
(* just forked, bc, or the two dec (Connected).  Nobody else has any, and  *)
(* what main has kept of earlier requests are read ends (Leaks).  So a     *)
(* process that waits for the end of its input waits for its peer only,    *)
(* main's write finds a reader, and what is leaked can be counted.         *)
(***************************************************************************)
EXTENDS Pipes, TLAPS, FiniteSetTheorems

Calculator == program # "pipedec"

\* What can be open on a descriptor.
Entry == {None, File} \cup {R(k) : k \in Pipes} \cup {W(k) : k \in Pipes}
Table == [Fds -> Entry]

Types ==
    /\ program \in Programs
    /\ pc \in [Procs -> {"none", "ask", "pipes", "fork", "close", "fork_two", "close_all",
                         "wait", "wait_last", "answer", "end", "failed", "setup", "bc",
                         "dec_write", "dec_read", "exit", "write", "read", "close_in"}]
    /\ table \in [Procs -> Table]
    /\ DOMAIN content = Pipes
    /\ fds \in [{"in0", "in1", "out0", "out1"} -> Fds]
    /\ DOMAIN x = Children
    /\ request \in Requests \cup {"none", "quit"}
    /\ client \in BOOLEAN

(* Where main is in each kind of program, and where the children are.      *)
(* Main is never killed by a write: a bc that has not read its request     *)
(* cannot have ended.                                                      *)
Control ==
    /\ Calculator => pc["main"] \in {"ask", "pipes", "fork", "close", "write", "read",
                                    "close_in", "wait", "answer", "end", "failed"}
    /\ ~Calculator => pc["main"] \in {"pipes", "fork", "close", "fork_two", "close_all",
                                     "wait", "wait_last", "end", "failed"}
    /\ \A p \in Children :
          /\ pc[p] \in {"none", "setup", "exit", "bc", "dec_write", "dec_read"}
          /\ pc[p] = "bc" => Calculator
          /\ pc[p] \in {"dec_write", "dec_read"} => ~Calculator
    /\ \A p \in Children : pc[p] \in {"none", "exit"} => table[p] = Nothing
    /\ Calculator =>
          /\ pc["two"] = "none"
          /\ pc["main"] \in {"ask", "pipes", "fork", "answer", "end", "failed"} =>
                pc["one"] = "none"
          /\ pc["main"] \in {"close", "write", "read", "close_in"} =>
                pc["one"] \in {"setup", "bc"}
    /\ pc["main"] \in {"pipes", "failed"} => \A p \in Children : pc[p] = "none"

Four == {fds.in0, fds.in1, fds.out0, fds.out1}
All == {"in0", "in1", "out0", "out1"}

\* t has the ends named in D of the pipes in and out, and has closed the others.
Holds(t, in, out, D) ==
    /\ t[fds.in0] = IF "in0" \in D THEN R(in) ELSE None
    /\ t[fds.in1] = IF "in1" \in D THEN W(in) ELSE None
    /\ t[fds.out0] = IF "out0" \in D THEN R(out) ELSE None
    /\ t[fds.out1] = IF "out1" \in D THEN W(out) ELSE None

\* t has ends of these pipes on no other descriptors than those of F.
Only(t, in, out, F) == \A f \in Fds \ F : t[f] \notin {R(in), W(in), R(out), W(out)}

\* The two pipes that main has made last are the ones that are in use.
InUse == /\ pc["main"] \notin {"pipes", "failed"}
         /\ Calculator => /\ pc["main"] # "end"
                          /\ pc["main"] = "ask" => program = "server1"

\* What main has not closed yet of its two pipes.
MainEnds ==
    CASE pc["main"] \in {"ask", "fork", "close"} -> All
      [] pc["main"] \in {"write", "read", "close_in"} -> {"in1", "out0"}
      [] pc["main"] \in {"fork_two", "close_all"} -> {"in0", "out1"}
      [] OTHER -> IF Calculator THEN {"out0"} ELSE {}

\* The four descriptors differ, also from the standard ones.
Apart ==
    /\ fds.in0 # fds.in1 /\ fds.in0 # fds.out0 /\ fds.in0 # fds.out1
    /\ fds.in1 # fds.out0 /\ fds.in1 # fds.out1 /\ fds.out0 # fds.out1
    /\ Four \cap Standard = {}

\* A child that has just been forked has what main had then.
Forked(in, out) ==
    /\ pc["one"] = "setup" =>
          Holds(table["one"], in, out, All) /\ Only(table["one"], in, out, Four)
    /\ pc["two"] = "setup" =>
          Holds(table["two"], in, out, {"in0", "out1"}) /\ Only(table["two"], in, out, Four)

\* bc has the two ends it talks through, twice.
BcHas(in, out) ==
    pc["one"] = "bc" =>
        /\ Holds(table["one"], in, out, {"in0", "out1"})
        /\ table["one"][0] = R(in) /\ table["one"][1] = W(out) /\ table["one"][2] = W(out)
        /\ Only(table["one"], in, out, Four \cup {0, 1, 2})

\* A dec reads one pipe and writes the other.
DecHas(p, in, out, i, o) ==
    pc[p] \in {"dec_write", "dec_read"} =>
        /\ table[p][0] = R(i) /\ table[p][1] = W(o)
        /\ Only(table[p], in, out, {0, 1})

(* Who has which end of the pipes in and out: main, a child that has just  *)
(* been forked, bc, and the two dec.                                       *)
Connected(in, out) ==
    /\ in # out
    /\ Apart
    /\ Holds(table["main"], in, out, MainEnds) /\ Only(table["main"], in, out, Four)
    /\ Forked(in, out)
    /\ BcHas(in, out)
    /\ DecHas("one", in, out, out, in)
    /\ DecHas("two", in, out, in, out)

TwoPipes == InUse => \E in, out \in Pipes : Connected(in, out)

StandardOpen == \A f \in Standard : table["main"][f] = File

(* The programs that are not server1.c keep nothing but read ends, and     *)
(* three descriptors at least: those they close in each round.             *)
Leaks ==
    program \in Calculators \ {"server1"} =>
      /\ \A f \in Fds \ Standard :
            (InUse => f \notin Four) =>
               table["main"][f] = None \/ \E k \in Pipes : table["main"][f] = R(k)
      /\ ~InUse => Cardinality(Free) >= 3
      /\ pc["main"] = "failed" => Cardinality(Free) < 4

Inv == Types /\ Control /\ TwoPipes /\ StandardOpen /\ Leaks
-----------------------------------------------------------------------------
(* Ends of pipes, and tables.                                              *)

\* Two ends are the same only when they are the same end of the same pipe.
LEMMA EndFacts ==
    /\ \A k \in Pipes : R(k).pipe = k /\ W(k).pipe = k
    /\ \A j, k \in Pipes : R(j) # W(k)
    /\ \A k \in Pipes : R(k) # None /\ W(k) # None /\ R(k) # File /\ W(k) # File
    /\ File # None
<1>1. \A k \in Pipes : k \in Nat /\ k # 0
  BY PipesAssumption DEF Pipes
<1>2. \A k \in Pipes : {R(k), W(k)} \subseteq [pipe : Nat, end : {"r", "w", "file"}]
  BY <1>1 DEF R, W
<1>3. File \in [pipe : Nat, end : {"r", "w", "file"}]
  BY DEF File
<1>4. \A k \in Pipes : R(k) # None /\ W(k) # None /\ File # None
  BY <1>2, <1>3, PipesAssumption
<1>5. \A k \in Pipes : R(k).pipe = k /\ W(k).pipe = k /\ File.pipe = 0
  BY DEF R, W, File
<1>6. \A j, k \in Pipes : R(j) # W(k)
  <2>1. \A k \in Pipes : R(k).end = "r" /\ W(k).end = "w"
    BY DEF R, W
  <2> QED BY <2>1
<1>7. \A k \in Pipes : R(k) # File /\ W(k) # File
  BY <1>1, <1>5
<1>8. File # None
  BY <1>3, PipesAssumption
<1> QED BY <1>4, <1>5, <1>6, <1>7, <1>8

\* Descriptors are numbers, and the standard ones are among them.
LEMMA FdFacts ==
    /\ Fds \in SUBSET Nat /\ IsFiniteSet(Fds) /\ Cardinality(Fds) = MaxFd
    /\ {0, 1, 2} \subseteq Standard /\ Standard \subseteq Fds
    /\ program # "server1" => Cardinality(Standard) \in Nat /\ Cardinality(Standard) + 4 <= MaxFd
<1>1. Fds \in SUBSET Nat /\ IsFiniteSet(Fds) /\ Cardinality(Fds) = MaxFd
  BY PipesAssumption, FS_Interval DEF Fds
<1>2. {0, 1, 2} \subseteq Standard /\ Standard \subseteq 0 .. 4
  BY DEF Standard
<1>3. Standard \subseteq Fds
  BY <1>2, PipesAssumption DEF Fds
<1>4. IsFiniteSet(0 .. 4) /\ Cardinality(0 .. 4) = 5
  <2>1. \A n \in Nat : IsFiniteSet(0 .. n) /\ Cardinality(0 .. n) = n + 1
    BY FS_Interval
  <2>2. 4 \in Nat
    OBVIOUS
  <2>3. IsFiniteSet(0 .. 4) /\ Cardinality(0 .. 4) = 4 + 1
    BY <2>1, <2>2, Zenon
  <2> QED BY <2>3
<1>5. IsFiniteSet(Standard) /\ Cardinality(Standard) <= 5
  BY <1>2, <1>4, FS_Subset
<1>6. Cardinality(Standard) \in Nat
  BY <1>5, FS_CardinalityType
<1> QED BY <1>1, <1>2, <1>3, <1>5, <1>6, PipesAssumption

\* close of the descriptors F.
LEMMA WithoutFacts ==
    ASSUME NEW t \in Table, NEW F
    PROVE  /\ Without(t, F) \in Table
           /\ \A f \in Fds : Without(t, F)[f] = IF f \in F THEN None ELSE t[f]
BY DEF Without, Table, Entry

\* The dup2 of a child.
LEMMA RedirectFacts ==
    ASSUME NEW t \in Table, NEW a \in Fds, NEW b \in Fds, NEW D
    PROVE  /\ Redirect(t, a, b, D) \in Table
           /\ \A f \in Fds : Redirect(t, a, b, D)[f] =
                                IF f = 0 THEN t[a] ELSE IF f \in D THEN t[b] ELSE t[f]
BY DEF Redirect, Table

LEMMA NothingFacts == Nothing \in Table /\ \A f \in Fds : Nothing[f] = None
BY DEF Nothing, Table, Entry

\* A set of naturals that is not empty has a least element.
LEMMA Smallest ==
    ASSUME NEW S \in SUBSET Nat, S # {}
    PROVE  Min(S) \in S
<1>1. PICK m \in S : \A y \in S : ~(<<y, m>> \in OpToRel(<, Nat))
  BY NatLessThanWellFounded, WFMin
<1>2. \A y \in S : ~(y < m)
  BY <1>1 DEF OpToRel
<1>3. \A y \in S : m =< y
  BY <1>2
<1> QED BY <1>3, Zenon DEF Min

\* A set of n + 1 elements is left with n when its least one is taken out.
LEMMA TakeLeast ==
    ASSUME NEW S \in SUBSET Nat, IsFiniteSet(S), NEW m \in Nat, NEW n \in Nat,
           m = n + 1, Cardinality(S) >= m
    PROVE  /\ Min(S) \in S
           /\ IsFiniteSet(S \ {Min(S)}) /\ Cardinality(S \ {Min(S)}) >= n
<1>1. S # {}
  BY FS_EmptySet
<1>2. Min(S) \in S
  BY <1>1, Smallest
<1>3. Cardinality(S) \in Nat
  BY FS_CardinalityType
<1> QED BY <1>2, <1>3, FS_RemoveElement

\* Two parts are as many as the whole.
LEMMA Disjoint ==
    ASSUME NEW A, NEW B, IsFiniteSet(A), IsFiniteSet(B), A \cap B = {}
    PROVE  /\ Cardinality(A \cup B) = Cardinality(A) + Cardinality(B)
           /\ Cardinality(A) \in Nat /\ Cardinality(B) \in Nat
<1>1. Cardinality(A \cap B) = 0
  BY FS_EmptySet
<1>2. Cardinality(A) \in Nat /\ Cardinality(B) \in Nat
  BY FS_CardinalityType
<1>3. Cardinality(A \cup B) = Cardinality(A) + Cardinality(B) - Cardinality(A \cap B)
  BY FS_Union
<1> QED BY <1>1, <1>2, <1>3

\* There is a free pipe for each free descriptor, as main has all that are open.
LEMMA UnusedPipes ==
    ASSUME Types, \A p \in Children : table[p] = Nothing
    PROVE  LET unused == {k \in Pipes : Readers(k) \cup Writers(k) = {}}
           IN  /\ unused \in SUBSET Nat /\ IsFiniteSet(unused)
               /\ Cardinality(unused) >= Cardinality(Free)
               /\ IsFiniteSet(Free) /\ Cardinality(Free) \in Nat
<1> DEFINE unused == {k \in Pipes : Readers(k) \cup Writers(k) = {}}
           used == Pipes \ unused
           T == table["main"]
           here(k) == {f \in Fds : T[f] \in {R(k), W(k)}}
           g == [k \in used |-> CHOOSE f \in Fds : f \in here(k)]
<1>1. \A k \in used : here(k) # {}
  BY NothingFacts, EndFacts DEF Readers, Writers, Procs, Children
<1>2. \A k \in used : g[k] \in Fds /\ T[g[k]] \in {R(k), W(k)}
  BY <1>1
<1>3. \A k \in used : g[k] \in Fds \ Free
  BY <1>2, EndFacts DEF Free
<1>4. \A j, k \in used : g[j] = g[k] => j = k
  BY <1>2, EndFacts
<1>5. g \in Injection(used, Fds \ Free)
  <2>1. g \in [used -> Fds \ Free]
    BY <1>3
  <2> HIDE DEF g, used
  <2> QED BY <2>1, <1>4 DEF Injection, IsInjective
<1>6. /\ IsFiniteSet(Free) /\ Cardinality(Free) \in Nat
      /\ IsFiniteSet(Fds \ Free) /\ Cardinality(Fds \ Free) = MaxFd - Cardinality(Free)
  <2>1. Free \in SUBSET Fds
    BY DEF Free
  <2>2. IsFiniteSet(Free) /\ IsFiniteSet(Fds \ Free)
    BY <2>1, FdFacts, FS_Subset
  <2>3. Cardinality(Free) \in Nat /\ Cardinality(Fds \ Free) \in Nat
    BY <2>2, FS_CardinalityType
  <2>4. Free \cup (Fds \ Free) = Fds /\ Free \cap (Fds \ Free) = {}
    BY <2>1
  <2>5. Cardinality(Fds) = Cardinality(Free) + Cardinality(Fds \ Free)
    BY <2>2, <2>4, Disjoint
  <2> QED BY <2>2, <2>3, <2>5, FdFacts
<1>7. IsFiniteSet(used) /\ Cardinality(used) <= Cardinality(Fds \ Free)
  BY <1>5, <1>6, FS_Injection
<1>8. Pipes \in SUBSET Nat /\ IsFiniteSet(Pipes) /\ Cardinality(Pipes) = MaxFd
  BY FS_Interval, PipesAssumption DEF Pipes
<1>9. IsFiniteSet(unused)
  BY <1>8, FS_Subset
<1>10. Cardinality(used) \in Nat /\ Cardinality(unused) \in Nat
  BY <1>7, <1>9, FS_CardinalityType
<1>11. Cardinality(Pipes) = Cardinality(used) + Cardinality(unused)
  <2>1. used \cup unused = Pipes /\ used \cap unused = {}
    OBVIOUS
  <2> HIDE DEF used, unused
  <2> QED BY <2>1, <1>7, <1>9, Disjoint
<1> HIDE DEF used, unused, g
<1>12. Cardinality(unused) >= Cardinality(Free)
  BY <1>6, <1>7, <1>8, <1>10, <1>11, PipesAssumption
<1> QED BY <1>6, <1>8, <1>9, <1>12 DEF unused
-----------------------------------------------------------------------------
(* The steps.                                                              *)

\* What two calls of pipe do: four free descriptors, and two free pipes.
Opened(a, b, c, d, in, out) ==
    /\ {a, b, c, d} \subseteq Free
    /\ a # b /\ a # c /\ a # d /\ b # c /\ b # d /\ c # d
    /\ in # out
    /\ Readers(in) = {} /\ Writers(in) = {} /\ Readers(out) = {} /\ Writers(out) = {}
    /\ fds' = [in0 |-> a, in1 |-> b, out0 |-> c, out1 |-> d]
    /\ table' = [table EXCEPT !["main"] = [@ EXCEPT ![a] = R(in), ![b] = W(in),
                                                    ![c] = R(out), ![d] = W(out)]]
    /\ DOMAIN content' = DOMAIN content
    /\ pc' = [pc EXCEPT !["main"] = IF program = "server1" THEN "ask" ELSE "fork"]

LEMMA OpensPipes ==
    ASSUME Types, Control, OpenPipes, ~(Cardinality(Free) < 4)
    PROVE  \E a, b, c, d \in Fds, in, out \in Pipes : Opened(a, b, c, d, in, out)
<1> DEFINE unused == {k \in Pipes : Readers(k) \cup Writers(k) = {}}
           a == Min(Free)
           b == Min(Free \ {a})
           c == Min(Free \ {a, b})
           d == Min(Free \ {a, b, c})
           in == Min(unused)
           out == Min(unused \ {in})
<1>1. \A p \in Children : table[p] = Nothing
  BY DEF OpenPipes, Control
<1>2. /\ unused \in SUBSET Nat /\ IsFiniteSet(unused)
      /\ Cardinality(unused) >= Cardinality(Free)
      /\ IsFiniteSet(Free) /\ Cardinality(Free) \in Nat
  BY <1>1, UnusedPipes, Zenon
<1>3. Free \in SUBSET Nat /\ Free \in SUBSET Fds
  BY FdFacts DEF Free
<1>4. a \in Free /\ IsFiniteSet(Free \ {a}) /\ Cardinality(Free \ {a}) >= 3
  <2>1. Cardinality(Free) >= 4 /\ 4 \in Nat /\ 3 \in Nat /\ 4 = 3 + 1
    BY <1>2
  <2>2. IsFiniteSet(Free \ {a}) /\ Cardinality(Free \ {a}) >= 3 /\ a \in Free
    BY <2>1, <1>2, <1>3, TakeLeast
  <2> HIDE DEF a
  <2> QED BY <2>2
<1>5. b \in Free \ {a} /\ IsFiniteSet(Free \ {a, b}) /\ Cardinality(Free \ {a, b}) >= 2
  <2> HIDE DEF a
  <2>1. Free \ {a} \in SUBSET Nat
    BY <1>3, Zenon
  <2>3. 3 \in Nat /\ 2 \in Nat /\ 3 = 2 + 1
    OBVIOUS
  <2>2. (Free \ {a}) \ {b} = Free \ {a, b}
    OBVIOUS
  <2> QED BY <2>1, <2>2, <2>3, <1>4, TakeLeast, Zenon
<1>6. c \in Free \ {a, b} /\ IsFiniteSet(Free \ {a, b, c}) /\ Cardinality(Free \ {a, b, c}) >= 1
  <2> HIDE DEF a, b
  <2>1. Free \ {a, b} \in SUBSET Nat
    BY <1>3, Zenon
  <2>3. 2 \in Nat /\ 1 \in Nat /\ 2 = 1 + 1
    OBVIOUS
  <2>2. (Free \ {a, b}) \ {c} = Free \ {a, b, c}
    OBVIOUS
  <2> QED BY <2>1, <2>2, <2>3, <1>5, TakeLeast, Zenon
<1>7. d \in Free \ {a, b, c}
  <2> HIDE DEF a, b, c
  <2>1. Free \ {a, b, c} \in SUBSET Nat
    BY <1>3, Zenon
  <2>3. 1 \in Nat /\ 0 \in Nat /\ 1 = 0 + 1
    OBVIOUS
  <2> QED BY <2>1, <2>3, <1>6, TakeLeast, Zenon
<1>8. in \in unused /\ IsFiniteSet(unused \ {in}) /\ Cardinality(unused \ {in}) >= 1
  <2>1. Cardinality(unused) \in Nat
    BY <1>2, FS_CardinalityType
  <2>2. Cardinality(unused) >= 2 /\ 2 \in Nat /\ 1 \in Nat /\ 2 = 1 + 1
    BY <1>2, <2>1
  <2> HIDE DEF unused
  <2> QED BY <2>2, <1>2, TakeLeast
<1>9. out \in unused \ {in}
  <2>1. Cardinality(unused \ {in}) >= 1 /\ 1 \in Nat /\ 0 \in Nat /\ 1 = 0 + 1 /\ unused \ {in} \in SUBSET Nat
    BY <1>2, <1>8
  <2> HIDE DEF unused, in
  <2> QED BY <2>1, <1>8, TakeLeast
<1>10. /\ fds' = [in0 |-> a, in1 |-> b, out0 |-> c, out1 |-> d]
       /\ table' = [table EXCEPT !["main"] = [@ EXCEPT ![a] = R(in), ![b] = W(in),
                                                      ![c] = R(out), ![d] = W(out)]]
       /\ content' = [content EXCEPT ![in] = <<>>, ![out] = <<>>]
       /\ pc' = [pc EXCEPT !["main"] = IF program = "server1" THEN "ask" ELSE "fork"]
  BY Zenon DEF OpenPipes, Goto
<1>11. DOMAIN content' = DOMAIN content
  BY <1>10
<1>12. in \in Pipes /\ out \in Pipes /\ in # out
       /\ Readers(in) = {} /\ Writers(in) = {} /\ Readers(out) = {} /\ Writers(out) = {}
  BY <1>8, <1>9
<1>13. {a, b, c, d} \subseteq Free /\ {a, b, c, d} \subseteq Fds
       /\ a # b /\ a # c /\ a # d /\ b # c /\ b # d /\ c # d
  BY <1>3, <1>4, <1>5, <1>6, <1>7
<1> HIDE DEF a, b, c, d, in, out, unused
<1>14. Opened(a, b, c, d, in, out)
  BY <1>10, <1>11, <1>12, <1>13 DEF Opened
<1> QED BY <1>12, <1>13, <1>14

LEMMA OpenPipesStep ==
    ASSUME Inv, OpenPipes
    PROVE  Inv'
<1> USE DEF Procs, Children
<1>1. CASE Cardinality(Free) < 4
  <2>1. /\ pc' = [pc EXCEPT !["main"] = IF program = "mybc" THEN "end" ELSE "failed"]
        /\ UNCHANGED <<table, content, fds, program, x, request, client>>
        /\ pc["main"] = "pipes"
    BY <1>1, Zenon DEF OpenPipes, Goto
  <2>2. Types'
    BY <2>1 DEF Inv, Types
  <2>3. Control'
    BY <2>1 DEF Inv, Types, Control, Calculator
  <2>4. TwoPipes' /\ StandardOpen'
    BY <2>1 DEF Inv, Types, TwoPipes, InUse, Calculator, StandardOpen, Standard, Calculators
  <2>5. Leaks'
    <3>1. ~InUse /\ (~InUse)' /\ Free' = Free
      BY <2>1 DEF Inv, Types, InUse, Free, Calculator
    <3>2. fds' = fds /\ table' = table /\ program' = program
      BY <2>1
    <3> QED BY <1>1, <3>1, <3>2 DEF Inv, Leaks, Standard
  <2> QED BY <2>2, <2>3, <2>4, <2>5 DEF Inv
<1>2. CASE ~(Cardinality(Free) < 4)
  <2>1. PICK a, b, c, d \in Fds, in, out \in Pipes : Opened(a, b, c, d, in, out)
    BY <1>2, OpensPipes DEF Inv
  <2>2. UNCHANGED <<program, x, request, client>> /\ pc["main"] = "pipes"
    BY DEF OpenPipes
  <2> DEFINE T == table["main"]
             U == [T EXCEPT ![a] = R(in), ![b] = W(in), ![c] = R(out), ![d] = W(out)]
  <2>3. /\ T \in Table /\ T[a] = None /\ T[b] = None /\ T[c] = None /\ T[d] = None
        /\ a # b /\ a # c /\ a # d /\ b # c /\ b # d /\ c # d /\ in # out
    BY <2>1 DEF Opened, Free, Inv, Types
  <2>4. /\ U \in Table
        /\ U[a] = R(in) /\ U[b] = W(in) /\ U[c] = R(out) /\ U[d] = W(out)
        /\ \A f \in Fds \ {a, b, c, d} : U[f] = T[f]
    BY <2>3 DEF Table, Entry
  <2>5. table' = [table EXCEPT !["main"] = U]
    BY <2>1 DEF Opened
  <2>6. /\ fds'.in0 = a /\ fds'.in1 = b /\ fds'.out0 = c /\ fds'.out1 = d
        /\ fds' \in [{"in0", "in1", "out0", "out1"} -> Fds]
        /\ Four' = {a, b, c, d}
    BY <2>1 DEF Opened, Four
  <2>7. pc' = [pc EXCEPT !["main"] = IF program = "server1" THEN "ask" ELSE "fork"]
    BY <2>1 DEF Opened
  <2> HIDE DEF U
  <2>8. table'["main"] = U /\ table'["one"] = table["one"] /\ table'["two"] = table["two"]
    BY <2>5 DEF Inv, Types
  <2>9. Types'
    <3>1. table' \in [Procs -> Table]
      BY <2>4, <2>5 DEF Inv, Types
    <3>2. DOMAIN content' = Pipes
      BY <2>1 DEF Opened, Inv, Types
    <3> QED BY <2>2, <2>6, <2>7, <3>1, <3>2 DEF Inv, Types
  <2>10. Control'
    BY <2>2, <2>7, <2>8 DEF Inv, Types, Control, Calculator
  <2>11. StandardOpen'
    <3>1. \A f \in Standard : f \in Fds \ {a, b, c, d}
      BY <2>3, FdFacts, EndFacts DEF Inv, StandardOpen
    <3> QED BY <2>2, <2>4, <2>8, <3>1 DEF Inv, StandardOpen, Standard
  <2>12. Connected(in, out)'
    <3>1. Apart'
      <4>1. {a, b, c, d} \cap Standard = {}
        BY <2>3, FdFacts, EndFacts DEF Inv, StandardOpen
      <4> QED BY <2>2, <2>3, <2>6, <4>1 DEF Apart, Standard
    <3>2. Holds(table["main"], in, out, MainEnds)'
      <4>1. MainEnds' = All
        BY <2>7 DEF MainEnds, Inv, Types
      <4> QED BY <2>4, <2>6, <2>8, <4>1 DEF Holds, All
    <3>3. Only(table["main"], in, out, Four)'
      <4>1. \A f \in Fds : T[f] \notin {R(in), W(in), R(out), W(out)}
        BY <2>1 DEF Opened, Readers, Writers
      <4> QED BY <2>4, <2>6, <2>8, <4>1 DEF Only
    <3>4. \A p \in Children : pc'[p] = "none"
      BY <2>2, <2>7 DEF Inv, Types, Control
    <3> QED BY <2>3, <3>1, <3>2, <3>3, <3>4
            DEF Connected, Forked, BcHas, DecHas
  <2>13. Leaks'
    <3>1. \A f \in Fds \ {a, b, c, d} : U[f] = T[f]
      BY <2>4
    <3>2. ~InUse /\ (program # "server1" => InUse')
      BY <2>2, <2>7 DEF InUse, Inv, Types, Calculator
    <3> QED BY <2>2, <2>6, <2>7, <2>8, <3>1, <3>2 DEF Inv, Types, Leaks, Standard
  <2> QED BY <2>1, <2>9, <2>10, <2>11, <2>12, <2>13 DEF Inv, TwoPipes
<1> QED BY <1>1, <1>2

LEMMA ForkChildStep ==
    ASSUME Inv, ForkChild
    PROVE  Inv'
<1> USE DEF Procs, Children
<1>1. PICK p \in Children :
          /\ p = "one" => pc["main"] = "fork"
          /\ p = "two" => pc["main"] = "fork_two"
          /\ Fork(p)
  BY DEF ForkChild
<1>2. /\ pc' = [pc EXCEPT ![p] = "setup",
                          !["main"] = IF p = "two" THEN "close_all" ELSE "close"]
      /\ table' = [table EXCEPT ![p] = table["main"]]
      /\ UNCHANGED <<program, content, fds, x, request, client>>
  BY <1>1 DEF ForkChild, Fork
<1>3. /\ table'["main"] = table["main"] /\ table'[p] = table["main"]
      /\ \A q \in Children \ {p} : table'[q] = table[q]
  BY <1>2 DEF Inv, Types
<1>4. /\ pc'[p] = "setup" /\ \A q \in Children \ {p} : pc'[q] = pc[q]
      /\ pc'["main"] = IF p = "two" THEN "close_all" ELSE "close"
  BY <1>2 DEF Inv, Types
<1>5. Types'
  BY <1>2 DEF Inv, Types
<1>6. Control'
  <2>1. pc["main"] \in {"fork", "fork_two"} /\ pc'["main"] \in {"close", "close_all"}
        /\ (pc["main"] = "fork" <=> pc'["main"] = "close")
    BY <1>1, <1>4
  <2>2. \A q \in Children : (pc'[q] = pc[q] /\ table'[q] = table[q]) \/ pc'[q] = "setup"
    BY <1>3, <1>4
  <2>3. p = "two" => ~Calculator
    BY <1>1 DEF Inv, Control
  <2>4. Calculator => pc'["one"] = "setup" /\ pc'["two"] = "none"
    BY <1>4, <2>3 DEF Inv, Control
  <2> QED BY <1>2, <2>1, <2>2, <2>3, <2>4 DEF Inv, Control, Calculator
<1>7. InUse /\ InUse' /\ MainEnds' = MainEnds
      /\ MainEnds = IF p = "two" THEN {"in0", "out1"} ELSE All
  BY <1>1, <1>2, <1>4 DEF InUse, MainEnds, Calculator
<1>8. PICK in, out \in Pipes : Connected(in, out)
  BY <1>7 DEF Inv, TwoPipes
<1>9. Connected(in, out)'
  <2>1. Apart' /\ in # out /\ Holds(table["main"], in, out, MainEnds)'
        /\ Only(table["main"], in, out, Four)'
    BY <1>2, <1>3, <1>7, <1>8 DEF Connected, Apart, Holds, Only, Four, Standard
  <2>2. Forked(in, out)'
    <3>1. Holds(table["main"], in, out, MainEnds) /\ Only(table["main"], in, out, Four)
          /\ Forked(in, out) /\ fds' = fds
      BY <1>2, <1>8 DEF Connected
    <3>2. CASE p = "one"
      <4>1. /\ MainEnds = All /\ table'["one"] = table["main"]
            /\ table'["two"] = table["two"] /\ pc'["two"] = pc["two"]
        BY <1>3, <1>4, <1>7, <3>2
      <4> QED BY <3>1, <4>1 DEF Forked, Holds, Only, Four
    <3>3. CASE p = "two"
      <4>1. /\ MainEnds = {"in0", "out1"} /\ table'["two"] = table["main"]
            /\ table'["one"] = table["one"] /\ pc'["one"] = pc["one"]
        BY <1>3, <1>4, <1>7, <3>3
      <4> QED BY <3>1, <4>1 DEF Forked, Holds, Only, Four
    <3> QED BY <3>2, <3>3
  <2>3. BcHas(in, out)'
    BY <1>2, <1>3, <1>4, <1>8 DEF Connected, BcHas, Holds, Only, Four
  <2>4. DecHas("one", in, out, out, in)' /\ DecHas("two", in, out, in, out)'
    BY <1>2, <1>3, <1>4, <1>8 DEF Connected, DecHas, Only
  <2> QED BY <2>1, <2>2, <2>3, <2>4 DEF Connected
<1>10. StandardOpen'
  BY <1>2, <1>3 DEF Inv, StandardOpen, Standard
<1>11. Leaks'
  BY <1>2, <1>3, <1>4, <1>7 DEF Inv, Leaks, Standard, Free, Four
<1> QED BY <1>5, <1>6, <1>9, <1>10, <1>11 DEF Inv, TwoPipes

LEMMA CloseEndsStep ==
    ASSUME Inv, CloseEnds
    PROVE  Inv'
<1> USE DEF Procs, Children
<1> DEFINE T == table["main"]
           U == Without(T, Closes)
<1>1. /\ pc["main"] \in {"close", "close_all"}
      /\ pc' = [pc EXCEPT !["main"] =
                  IF program # "pipedec" THEN "write"
                  ELSE IF pc["main"] = "close" THEN "fork_two" ELSE "wait"]
      /\ table' = [table EXCEPT !["main"] = U]
      /\ UNCHANGED <<program, content, fds, x, request, client>>
  BY DEF CloseEnds, Goto
<1>2. InUse /\ InUse'
  BY <1>1 DEF InUse, Calculator, Inv, Types, Control
<1>3. PICK in, out \in Pipes : Connected(in, out)
  BY <1>2 DEF Inv, TwoPipes
<1>4. /\ T \in Table /\ U \in Table
      /\ \A f \in Fds : U[f] = IF f \in Closes THEN None ELSE T[f]
  BY WithoutFacts DEF Inv, Types
<1> HIDE DEF U
<1>5. table'["main"] = U /\ table'["one"] = table["one"] /\ table'["two"] = table["two"]
  BY <1>1 DEF Inv, Types
<1>6. /\ pc'["one"] = pc["one"] /\ pc'["two"] = pc["two"]
      /\ pc'["main"] = IF program # "pipedec" THEN "write"
                       ELSE IF pc["main"] = "close" THEN "fork_two" ELSE "wait"
  BY <1>1 DEF Inv, Types
<1>7. Types'
  BY <1>1, <1>4 DEF Inv, Types
<1>8. Control'
  BY <1>1, <1>5, <1>6 DEF Inv, Control, Calculator
<1>9. fds.in0 \in Fds /\ fds.in1 \in Fds /\ fds.out0 \in Fds /\ fds.out1 \in Fds
  BY DEF Inv, Types
<1>10. Connected(in, out)'
  <2>1. Apart' /\ in # out
    BY <1>1, <1>3 DEF Connected, Apart, Four, Standard
  <2>2. Holds(table["main"], in, out, MainEnds)'
    BY <1>1, <1>3, <1>4, <1>5, <1>6, <1>9
       DEF Inv, Control, Connected, Holds, Apart, MainEnds, Closes, Calculator, All
  <2>3. Only(table["main"], in, out, Four)'
    BY <1>1, <1>3, <1>4, <1>5, EndFacts DEF Connected, Only, Four
  <2>4. Forked(in, out)' /\ BcHas(in, out)'
    BY <1>1, <1>3, <1>5, <1>6 DEF Connected, Forked, BcHas, Holds, Only, Four
  <2>5. DecHas("one", in, out, out, in)' /\ DecHas("two", in, out, in, out)'
    BY <1>3, <1>5, <1>6 DEF Connected, DecHas, Only
  <2> QED BY <2>1, <2>2, <2>3, <2>4, <2>5 DEF Connected
<1>11. Closes \subseteq Four
  BY DEF Closes, Four
<1>12. StandardOpen'
  <2>1. \A f \in Standard : f \in Fds /\ f \notin Closes
    BY <1>3, <1>11, FdFacts DEF Connected, Apart
  <2> QED BY <1>1, <1>4, <1>5, <2>1 DEF Inv, StandardOpen, Standard
<1>13. Leaks'
  BY <1>1, <1>2, <1>4, <1>5, <1>6 DEF Inv, Leaks, Standard, Four
<1> QED BY <1>7, <1>8, <1>10, <1>12, <1>13 DEF Inv, TwoPipes

\* A child that goes on, or ends, changes nothing for main and the other child.
LEMMA StaysConnected ==
    ASSUME NEW in, NEW out, Connected(in, out),
           program' = program, fds' = fds,
           table'["main"] = table["main"], MainEnds' = MainEnds,
           \A p \in Children :
              \/ pc'[p] \in {"none", "exit"}
              \/ pc'[p] = pc[p] /\ table'[p] = table[p]
              \/ {pc[p], pc'[p]} \subseteq {"dec_write", "dec_read"} /\ table'[p] = table[p]
    PROVE  Connected(in, out)'
<1> USE DEF Children
<1>1. Apart' /\ in # out /\ Holds(table["main"], in, out, MainEnds)'
      /\ Only(table["main"], in, out, Four)'
  BY DEF Connected, Apart, Holds, Only, Four, Standard
<1>2. Forked(in, out)' /\ BcHas(in, out)'
  BY DEF Connected, Forked, BcHas, Holds, Only, Four
<1>3. DecHas("one", in, out, out, in)' /\ DecHas("two", in, out, in, out)'
  BY DEF Connected, DecHas, Only
<1> QED BY <1>1, <1>2, <1>3 DEF Connected

\* What main keeps is the same when its table is.
LEMMA StaysKept ==
    ASSUME Inv, program' = program, fds' = fds, table'["main"] = table["main"],
           InUse' = InUse, pc'["main"] = "failed" => pc["main"] = "failed"
    PROVE  StandardOpen' /\ Leaks'
BY DEF Inv, StandardOpen, Standard, Leaks, Free, Four

LEMMA WaitStep ==
    ASSUME Inv, NEW p \in Children, Wait(p)
    PROVE  Inv'
<1> USE DEF Procs, Children
<1>1. /\ pc["main"] \in {"wait", "wait_last"} /\ pc[p] = "exit"
      /\ pc' = [pc EXCEPT ![p] = "none",
                          !["main"] = IF program # "pipedec" THEN "answer"
                                      ELSE IF @ = "wait" THEN "wait_last" ELSE "end"]
      /\ UNCHANGED <<program, table, content, fds, x, request, client>>
  BY DEF Wait
<1>2. /\ pc'[p] = "none" /\ \A q \in Children \ {p} : pc'[q] = pc[q]
      /\ pc'["main"] = IF program # "pipedec" THEN "answer"
                       ELSE IF pc["main"] = "wait" THEN "wait_last" ELSE "end"
  BY <1>1 DEF Inv, Types
<1>3. Types'
  BY <1>1 DEF Inv, Types
<1>4. Control'
  <2>1. \A q \in Children : pc'[q] = pc[q] \/ (pc[q] = "exit" /\ pc'[q] = "none")
    BY <1>1, <1>2
  <2>2. Calculator => p = "one"
    BY <1>1 DEF Inv, Control
  <2> QED BY <1>1, <1>2, <2>1, <2>2 DEF Inv, Control, Calculator
<1>5. InUse /\ InUse' /\ MainEnds' = MainEnds
  BY <1>1, <1>2 DEF Inv, Control, InUse, MainEnds, Calculator
<1>6. TwoPipes'
  <2>1. PICK in, out \in Pipes : Connected(in, out)
    BY <1>5 DEF Inv, TwoPipes
  <2>2. Connected(in, out)'
    BY <1>1, <1>2, <1>5, <2>1, StaysConnected
  <2> QED BY <2>2 DEF TwoPipes
<1>7. StandardOpen' /\ Leaks'
  BY <1>1, <1>2, <1>5, StaysKept
<1> QED BY <1>3, <1>4, <1>6, <1>7 DEF Inv

(* main's write finds a reader, the child that it has forked; so it is     *)
(* never killed.                                                           *)
LEMMA MainWrites ==
    ASSUME Inv, Write
    PROVE  /\ pc["main"] = "write" /\ pc' = [pc EXCEPT !["main"] = "read"]
           /\ DOMAIN content' = DOMAIN content
           /\ UNCHANGED <<program, table, fds, x, request, client>>
<1> USE DEF Procs, Children
<1>1. pc["main"] = "write" /\ UNCHANGED <<program, fds, x, request, client>>
      /\ WritePipe("main", fds.in1, request, "read")
  BY DEF Write
<1>2. InUse /\ Calculator /\ pc["one"] \in {"setup", "bc"}
      /\ MainEnds = {"in1", "out0"}
  BY <1>1 DEF Inv, Control, InUse, MainEnds
<1>3. PICK in, out \in Pipes : Connected(in, out)
  BY <1>2 DEF Inv, TwoPipes
<1>4. fds.in0 \in Fds /\ fds.in1 \in Fds
  BY DEF Inv, Types
<1>5. PipeOn("main", fds.in1) = in
  BY <1>2, <1>3, EndFacts DEF PipeOn, Connected, Holds
<1>6. table["one"][fds.in0] = R(in)
  BY <1>2, <1>3 DEF Connected, Forked, BcHas, Holds, All
<1>7. Readers(in) # {}
  BY <1>4, <1>6 DEF Readers
<1>8. /\ content' = [content EXCEPT ![PipeOn("main", fds.in1)] = Append(@, request)]
      /\ Goto("main", "read") /\ UNCHANGED table
  BY <1>1, <1>5, <1>7 DEF WritePipe
<1> QED BY <1>1, <1>8 DEF Goto

LEMMA WriteReadStep ==
    ASSUME Inv, Write \/ Read
    PROVE  Inv'
<1> USE DEF Procs, Children
<1>1. /\ \/ pc["main"] = "write" /\ pc' = [pc EXCEPT !["main"] = "read"]
         \/ pc["main"] = "read" /\ pc' = [pc EXCEPT !["main"] = "close_in"]
      /\ DOMAIN content' = DOMAIN content
      /\ UNCHANGED <<program, table, fds, x, request, client>>
  BY MainWrites DEF Read, Goto
<1>2. /\ pc'["one"] = pc["one"] /\ pc'["two"] = pc["two"]
      /\ \/ pc["main"] = "write" /\ pc'["main"] = "read"
         \/ pc["main"] = "read" /\ pc'["main"] = "close_in"
  BY <1>1 DEF Inv, Types
<1>3. Types'
  BY <1>1 DEF Inv, Types
<1>4. Control'
  BY <1>1, <1>2 DEF Inv, Control, Calculator
<1>5. InUse /\ InUse' /\ MainEnds' = MainEnds
  BY <1>1, <1>2 DEF Inv, Control, InUse, MainEnds, Calculator
<1>6. TwoPipes'
  <2>1. PICK in, out \in Pipes : Connected(in, out)
    BY <1>5 DEF Inv, TwoPipes
  <2>2. Connected(in, out)'
    BY <1>1, <1>2, <1>5, <2>1, StaysConnected
  <2> QED BY <2>2 DEF TwoPipes
<1>7. StandardOpen' /\ Leaks'
  BY <1>1, <1>2, <1>5, StaysKept
<1> QED BY <1>3, <1>4, <1>6, <1>7 DEF Inv

LEMMA CloseInStep ==
    ASSUME Inv, CloseIn
    PROVE  Inv'
<1> USE DEF Procs, Children
<1> DEFINE T == table["main"]
           U == Without(T, {fds.in1})
<1>1. /\ pc["main"] = "close_in" /\ pc' = [pc EXCEPT !["main"] = "wait"]
      /\ table' = [table EXCEPT !["main"] = U]
      /\ UNCHANGED <<program, content, fds, x, request, client>>
  BY DEF CloseIn, Goto
<1>2. InUse /\ InUse' /\ Calculator /\ Calculator'
  BY <1>1 DEF InUse, Calculator, Inv, Types, Control
<1>3. PICK in, out \in Pipes : Connected(in, out)
  BY <1>2 DEF Inv, TwoPipes
<1>4. /\ T \in Table /\ U \in Table
      /\ \A f \in Fds : U[f] = IF f = fds.in1 THEN None ELSE T[f]
  BY WithoutFacts DEF Inv, Types
<1> HIDE DEF U
<1>5. table'["main"] = U /\ table'["one"] = table["one"] /\ table'["two"] = table["two"]
  BY <1>1 DEF Inv, Types
<1>6. /\ pc'["one"] = pc["one"] /\ pc'["two"] = pc["two"] /\ pc'["main"] = "wait"
  BY <1>1 DEF Inv, Types
<1>7. Types'
  BY <1>1, <1>4 DEF Inv, Types
<1>8. Control'
  BY <1>1, <1>2, <1>5, <1>6 DEF Inv, Control
<1>9. fds.in0 \in Fds /\ fds.in1 \in Fds /\ fds.out0 \in Fds /\ fds.out1 \in Fds
  BY DEF Inv, Types
<1>10. Connected(in, out)'
  <2>1. Apart' /\ in # out
    BY <1>1, <1>3 DEF Connected, Apart, Four, Standard
  <2>2. Holds(table["main"], in, out, MainEnds)'
    <3>1. MainEnds = {"in1", "out0"} /\ MainEnds' = {"out0"}
      BY <1>1, <1>2, <1>6 DEF MainEnds
    <3> QED BY <1>1, <1>3, <1>4, <1>5, <1>9, <3>1 DEF Connected, Holds, Apart
  <2>3. Only(table["main"], in, out, Four)'
    BY <1>1, <1>3, <1>4, <1>5, EndFacts DEF Connected, Only, Four
  <2>4. Forked(in, out)' /\ BcHas(in, out)'
    BY <1>1, <1>3, <1>5, <1>6 DEF Connected, Forked, BcHas, Holds, Only, Four
  <2>5. DecHas("one", in, out, out, in)' /\ DecHas("two", in, out, in, out)'
    BY <1>3, <1>5, <1>6 DEF Connected, DecHas, Only
  <2> QED BY <2>1, <2>2, <2>3, <2>4, <2>5 DEF Connected
<1>11. StandardOpen'
  <2>1. \A f \in Standard : f \in Fds /\ f # fds.in1
    BY <1>3, FdFacts DEF Connected, Apart, Four
  <2> QED BY <1>1, <1>4, <1>5, <2>1 DEF Inv, StandardOpen, Standard
<1>12. Leaks'
  BY <1>1, <1>2, <1>4, <1>5, <1>6 DEF Inv, Leaks, Standard, Four
<1> QED BY <1>7, <1>8, <1>10, <1>11, <1>12 DEF Inv, TwoPipes

\* A child in "setup" leaves main, the other child and the pipes in use alone.
LEMMA SetsUp ==
    ASSUME Inv, NEW p \in Children, NEW U \in Table, NEW s \in {"bc", "dec_write", "dec_read"},
           pc[p] = "setup", s = "bc" <=> Calculator,
           pc' = [pc EXCEPT ![p] = s], table' = [table EXCEPT ![p] = U],
           UNCHANGED <<program, content, fds, x, request, client>>
    PROVE  /\ pc'["main"] = pc["main"] /\ table'["main"] = table["main"]
           /\ pc'[p] = s /\ table'[p] = U
           /\ \A q \in Children \ {p} : pc'[q] = pc[q] /\ table'[q] = table[q]
           /\ InUse /\ MainEnds' = MainEnds
           /\ Types' /\ Control' /\ StandardOpen' /\ Leaks'
<1> USE DEF Procs, Children
<1>1. /\ pc'["main"] = pc["main"] /\ table'["main"] = table["main"]
      /\ pc'[p] = s /\ table'[p] = U
      /\ \A q \in Children \ {p} : pc'[q] = pc[q] /\ table'[q] = table[q]
  BY DEF Inv, Types
<1>2. Types'
  BY DEF Inv, Types
<1>3. p = "one" \/ ~Calculator
  BY DEF Inv, Control
<1>4. Control'
  BY <1>1, <1>3 DEF Inv, Control, Calculator
<1>5. InUse /\ InUse' /\ MainEnds' = MainEnds
  BY <1>1 DEF Inv, Control, InUse, MainEnds, Calculator
<1>6. StandardOpen' /\ Leaks'
  BY <1>1, <1>5, StaysKept DEF Inv, Control
<1> QED BY <1>1, <1>2, <1>4, <1>5, <1>6

LEMMA SetupBcStep ==
    ASSUME Inv, NEW p \in Children, Calculator, SetupBc(p)
    PROVE  Inv'
<1> USE DEF Procs, Children
<1> DEFINE t == Without(table[p], {fds.in1, fds.out0})
           U == Redirect(t, fds.in0, fds.out1, {1, 2})
<1>1. /\ pc[p] = "setup" /\ pc' = [pc EXCEPT ![p] = "bc"]
      /\ table' = [table EXCEPT ![p] = U]
      /\ UNCHANGED <<program, content, fds, x, request, client>>
  BY DEF SetupBc, Goto
<1>2. p = "one" /\ pc["two"] = "none"
  BY <1>1 DEF Inv, Control
<1>3. fds.in0 \in Fds /\ fds.in1 \in Fds /\ fds.out0 \in Fds /\ fds.out1 \in Fds
  BY DEF Inv, Types
<1>4. t \in Table /\ \A f \in Fds : t[f] = IF f \in {fds.in1, fds.out0} THEN None ELSE table[p][f]
  BY WithoutFacts DEF Inv, Types
<1> HIDE DEF t
<1>5. /\ U \in Table
      /\ \A f \in Fds : U[f] = IF f = 0 THEN t[fds.in0]
                               ELSE IF f \in {1, 2} THEN t[fds.out1] ELSE t[f]
  BY <1>3, <1>4, RedirectFacts
<1> HIDE DEF U
<1>6. /\ pc'["main"] = pc["main"] /\ table'["main"] = table["main"]
      /\ pc'["one"] = "bc" /\ table'["one"] = U
      /\ pc'["two"] = pc["two"] /\ table'["two"] = table["two"]
      /\ InUse /\ MainEnds' = MainEnds
      /\ Types' /\ Control' /\ StandardOpen' /\ Leaks'
  BY <1>1, <1>2, <1>5, SetsUp
<1>7. PICK in, out \in Pipes : Connected(in, out)
  BY <1>6 DEF Inv, TwoPipes
<1>8. 0 \in Fds \ Four /\ 1 \in Fds \ Four /\ 2 \in Fds \ Four
  BY <1>7, FdFacts DEF Connected, Apart
<1>9. /\ Holds(table["one"], in, out, All) /\ Only(table["one"], in, out, Four)
  BY <1>1, <1>2, <1>7 DEF Connected, Forked
<1>10. /\ U[0] = R(in) /\ U[1] = W(out) /\ U[2] = W(out)
       /\ U[fds.in0] = R(in) /\ U[fds.in1] = None /\ U[fds.out0] = None /\ U[fds.out1] = W(out)
  <2>1. t[fds.in0] = R(in) /\ t[fds.in1] = None /\ t[fds.out0] = None /\ t[fds.out1] = W(out)
    BY <1>2, <1>3, <1>4, <1>7, <1>9 DEF Connected, Apart, Holds, All
  <2>2. fds.in0 \notin {0, 1, 2} /\ fds.in1 \notin {0, 1, 2}
        /\ fds.out0 \notin {0, 1, 2} /\ fds.out1 \notin {0, 1, 2}
    BY <1>8 DEF Four
  <2> QED BY <1>3, <1>5, <1>8, <2>1, <2>2
<1>11. Connected(in, out)'
  <2>1. Apart' /\ in # out /\ Holds(table["main"], in, out, MainEnds)'
        /\ Only(table["main"], in, out, Four)'
    BY <1>1, <1>6, <1>7 DEF Connected, Apart, Holds, Only, Four, Standard
  <2>2. Forked(in, out)' /\ DecHas("one", in, out, out, in)' /\ DecHas("two", in, out, in, out)'
    BY <1>2, <1>6 DEF Forked, DecHas
  <2>3. Holds(table["one"], in, out, {"in0", "out1"})'
    BY <1>1, <1>6, <1>10 DEF Holds
  <2>4. \A f \in Fds \ (Four \cup {0, 1, 2}) : U[f] \notin {R(in), W(in), R(out), W(out)}
    BY <1>2, <1>4, <1>5, <1>9 DEF Only, Four
  <2>5. BcHas(in, out)'
    BY <1>1, <1>6, <1>10, <2>3, <2>4 DEF BcHas, Only, Four
  <2> QED BY <2>1, <2>2, <2>5 DEF Connected
<1> QED BY <1>6, <1>11 DEF Inv, TwoPipes

\* The two dec redirect 0 and 1, and close the four ends that they had.
LEMMA processo1Step ==
    ASSUME Inv, processo1
    PROVE  Inv'
<1> USE DEF Procs, Children
<1> DEFINE t == Without(table["one"], {fds.out1, fds.in0})
           u == Redirect(t, fds.out0, fds.in1, {1})
           U == Without(u, {fds.out0, fds.in1})
<1>1. /\ pc["one"] = "setup" /\ pc' = [pc EXCEPT !["one"] = "dec_write"]
      /\ table' = [table EXCEPT !["one"] = U]
      /\ UNCHANGED <<program, content, fds, x, request, client>>
      /\ ~Calculator
  BY DEF processo1, Goto, Calculator
<1>3. fds.in0 \in Fds /\ fds.in1 \in Fds /\ fds.out0 \in Fds /\ fds.out1 \in Fds
  BY DEF Inv, Types
<1>4. /\ t \in Table
      /\ \A f \in Fds : t[f] = IF f \in {fds.out1, fds.in0} THEN None ELSE table["one"][f]
  BY WithoutFacts DEF Inv, Types
<1> HIDE DEF t
<1>5. /\ u \in Table
      /\ \A f \in Fds : u[f] = IF f = 0 THEN t[fds.out0]
                               ELSE IF f \in {1} THEN t[fds.in1] ELSE t[f]
  BY <1>3, <1>4, RedirectFacts
<1> HIDE DEF u
<1>6. /\ U \in Table
      /\ \A f \in Fds : U[f] = IF f \in {fds.out0, fds.in1} THEN None ELSE u[f]
  BY <1>5, WithoutFacts
<1> HIDE DEF U
<1>7. /\ pc'["main"] = pc["main"] /\ table'["main"] = table["main"]
      /\ pc'["one"] = "dec_write" /\ table'["one"] = U
      /\ pc'["two"] = pc["two"] /\ table'["two"] = table["two"]
      /\ InUse /\ MainEnds' = MainEnds
      /\ Types' /\ Control' /\ StandardOpen' /\ Leaks'
  BY <1>1, <1>6, SetsUp
<1>8. PICK in, out \in Pipes : Connected(in, out)
  BY <1>7 DEF Inv, TwoPipes
<1>9. 0 \in Fds \ Four /\ 1 \in Fds \ Four
  BY <1>8, FdFacts DEF Connected, Apart
<1>10. /\ Holds(table["one"], in, out, All) /\ Only(table["one"], in, out, Four)
  BY <1>1, <1>8 DEF Connected, Forked
<1>11. U[0] = R(out) /\ U[1] = W(in)
  <2>1. t[fds.out0] = R(out) /\ t[fds.in1] = W(in)
    BY <1>3, <1>4, <1>8, <1>10 DEF Connected, Apart, Holds, All
  <2> QED BY <1>3, <1>5, <1>6, <1>9, <2>1 DEF Four
<1>12. \A f \in Fds \ {0, 1} : U[f] \notin {R(in), W(in), R(out), W(out)}
  <2>1. \A f \in Fds \ {0, 1} : U[f] = None \/ (f \notin Four /\ U[f] = table["one"][f])
    BY <1>4, <1>5, <1>6 DEF Four
  <2> QED BY <1>10, <2>1, EndFacts DEF Only
<1>13. Connected(in, out)'
  <2>1. Apart' /\ in # out /\ Holds(table["main"], in, out, MainEnds)'
        /\ Only(table["main"], in, out, Four)'
    BY <1>1, <1>7, <1>8 DEF Connected, Apart, Holds, Only, Four, Standard
  <2>2. Forked(in, out)' /\ BcHas(in, out)' /\ DecHas("two", in, out, in, out)'
    BY <1>1, <1>7, <1>8 DEF Connected, Forked, BcHas, DecHas, Holds, Only, Four
  <2>3. DecHas("one", in, out, out, in)'
    BY <1>7, <1>11, <1>12 DEF DecHas, Only
  <2> QED BY <2>1, <2>2, <2>3 DEF Connected
<1> QED BY <1>7, <1>13 DEF Inv, TwoPipes

LEMMA processo2Step ==
    ASSUME Inv, processo2
    PROVE  Inv'
<1> USE DEF Procs, Children
<1> DEFINE t == table["two"]
           u == Redirect(t, fds.in0, fds.out1, {1})
           U == Without(u, {fds.in0, fds.out1})
<1>1. /\ pc["two"] = "setup" /\ pc' = [pc EXCEPT !["two"] = "dec_read"]
      /\ table' = [table EXCEPT !["two"] = U]
      /\ UNCHANGED <<program, content, fds, x, request, client>>
      /\ ~Calculator
  BY DEF processo2, Goto, Calculator
<1>3. fds.in0 \in Fds /\ fds.in1 \in Fds /\ fds.out0 \in Fds /\ fds.out1 \in Fds
  BY DEF Inv, Types
<1>4. t \in Table
  BY DEF Inv, Types
<1> HIDE DEF t
<1>5. /\ u \in Table
      /\ \A f \in Fds : u[f] = IF f = 0 THEN t[fds.in0]
                               ELSE IF f \in {1} THEN t[fds.out1] ELSE t[f]
  BY <1>3, <1>4, RedirectFacts
<1> HIDE DEF u
<1>6. /\ U \in Table
      /\ \A f \in Fds : U[f] = IF f \in {fds.in0, fds.out1} THEN None ELSE u[f]
  BY <1>5, WithoutFacts
<1> HIDE DEF U
<1>7. /\ pc'["main"] = pc["main"] /\ table'["main"] = table["main"]
      /\ pc'["two"] = "dec_read" /\ table'["two"] = U
      /\ pc'["one"] = pc["one"] /\ table'["one"] = table["one"]
      /\ InUse /\ MainEnds' = MainEnds
      /\ Types' /\ Control' /\ StandardOpen' /\ Leaks'
  BY <1>1, <1>6, SetsUp
<1>8. PICK in, out \in Pipes : Connected(in, out)
  BY <1>7 DEF Inv, TwoPipes
<1>9. 0 \in Fds \ Four /\ 1 \in Fds \ Four
  BY <1>8, FdFacts DEF Connected, Apart
<1>10. Holds(t, in, out, {"in0", "out1"}) /\ Only(t, in, out, Four)
  BY <1>1, <1>8 DEF Connected, Forked, t
<1>11. U[0] = R(in) /\ U[1] = W(out)
  BY <1>3, <1>5, <1>6, <1>9, <1>10 DEF Four, Holds
<1>12. \A f \in Fds \ {0, 1} : U[f] \notin {R(in), W(in), R(out), W(out)}
  <2>1. t[fds.in1] = None /\ t[fds.out0] = None
    BY <1>10 DEF Holds
  <2>2. \A f \in Fds \ {0, 1} : U[f] = None \/ (f \notin Four /\ U[f] = t[f])
    BY <1>5, <1>6, <2>1 DEF Four
  <2> QED BY <1>10, <2>2, EndFacts DEF Only
<1>13. Connected(in, out)'
  <2>1. Apart' /\ in # out /\ Holds(table["main"], in, out, MainEnds)'
        /\ Only(table["main"], in, out, Four)'
    BY <1>1, <1>7, <1>8 DEF Connected, Apart, Holds, Only, Four, Standard
  <2>2. Forked(in, out)' /\ BcHas(in, out)' /\ DecHas("one", in, out, out, in)'
    BY <1>1, <1>7, <1>8 DEF Connected, Forked, BcHas, DecHas, Holds, Only, Four
  <2>3. DecHas("two", in, out, in, out)'
    BY <1>7, <1>11, <1>12 DEF DecHas, Only
  <2> QED BY <2>1, <2>2, <2>3 DEF Connected
<1> QED BY <1>7, <1>13 DEF Inv, TwoPipes

\* A child that runs goes on with the same descriptors, or ends and has none.
LEMMA ChildRuns ==
    ASSUME Inv, NEW p \in Children, pc[p] \in {"bc", "dec_write", "dec_read"},
           \/ /\ pc' = [pc EXCEPT ![p] = "exit"] /\ table' = [table EXCEPT ![p] = Nothing]
              /\ Calculator => pc["main"] = "wait"
           \/ /\ \E s \in {"bc", "dec_write", "dec_read"} :
                    /\ s = "bc" <=> pc[p] = "bc"
                    /\ pc' = [pc EXCEPT ![p] = s]
              /\ table' = table,
           DOMAIN content' = DOMAIN content, DOMAIN x' = DOMAIN x,
           UNCHANGED <<program, fds, request, client>>
    PROVE  Inv'
<1> USE DEF Procs, Children
<1>1. /\ pc'["main"] = pc["main"] /\ table'["main"] = table["main"]
      /\ \A q \in Children \ {p} : pc'[q] = pc[q] /\ table'[q] = table[q]
  BY DEF Inv, Types
<1>2. \/ pc'[p] = "exit" /\ table'[p] = Nothing /\ (Calculator => pc["main"] = "wait")
      \/ pc[p] = "bc" /\ pc'[p] = "bc" /\ table'[p] = table[p]
      \/ {pc[p], pc'[p]} \subseteq {"dec_write", "dec_read"} /\ table'[p] = table[p]
  BY DEF Inv, Types
<1>3. Types'
  BY NothingFacts DEF Inv, Types
<1>4. Control'
  <2>1. pc["main"] \notin {"pipes", "failed"} /\ (Calculator => p = "one")
    BY DEF Inv, Control
  <2>2. Calculator => pc["main"] \in {"close", "write", "read", "close_in", "wait"}
    BY <2>1 DEF Inv, Control
  <2> QED BY <1>1, <1>2, <2>1, <2>2 DEF Inv, Control, Calculator
<1>5. InUse /\ InUse' /\ MainEnds' = MainEnds
  BY <1>1 DEF Inv, Control, InUse, MainEnds, Calculator
<1>6. TwoPipes'
  <2>1. PICK in, out \in Pipes : Connected(in, out)
    BY <1>5 DEF Inv, TwoPipes
  <2>2. Connected(in, out)'
    BY <1>1, <1>2, <1>5, <2>1, StaysConnected
  <2> QED BY <2>2 DEF TwoPipes
<1>7. StandardOpen' /\ Leaks'
  BY <1>1, <1>5, StaysKept
<1> QED BY <1>3, <1>4, <1>6, <1>7 DEF Inv

LEMMA DecStep ==
    ASSUME Inv, NEW p \in Children, dec_main(p)
    PROVE  Inv'
<1>1. ~Calculator /\ (DecWrite(p) \/ DecRead(p))
  BY DEF dec_main, Calculator
<1>2. CASE DecWrite(p)
  <2>1. /\ pc[p] = "dec_write" /\ UNCHANGED <<program, fds, x, request, client>>
        /\ WritePipe(p, 1, x[p], "dec_read")
    BY <1>2 DEF DecWrite
  <2>2. CASE Exit(p, "exit") /\ UNCHANGED content
    BY <1>1, <2>1, <2>2, ChildRuns DEF Exit, Goto
  <2>3. CASE ~(Exit(p, "exit") /\ UNCHANGED content)
    <3>1. DOMAIN content' = DOMAIN content /\ pc' = [pc EXCEPT ![p] = "dec_read"] /\ table' = table
      BY <2>1, <2>3 DEF WritePipe, Goto
    <3> QED BY <1>1, <2>1, <3>1, ChildRuns
  <2> QED BY <2>2, <2>3
<1>3. CASE DecRead(p)
  <2>1. pc[p] = "dec_read" /\ UNCHANGED <<program, fds, request, client>>
    BY <1>3 DEF DecRead
  <2>2. DOMAIN content' = DOMAIN content /\ DOMAIN x' = DOMAIN x
    BY <1>3 DEF DecRead
  <2>3. \/ pc' = [pc EXCEPT ![p] = "exit"] /\ table' = [table EXCEPT ![p] = Nothing]
        \/ pc' = [pc EXCEPT ![p] = "dec_write"] /\ table' = table
    BY <1>3 DEF DecRead, Exit, Goto
  <2> QED BY <1>1, <2>1, <2>2, <2>3, ChildRuns
<1> QED BY <1>1, <1>2, <1>3

(* bc comes to the end of its input only when main has closed it, after it *)
(* has read the result.                                                    *)
LEMMA BcStep ==
    ASSUME Inv, NEW p \in Children, Calculator, Bc(p)
    PROVE  Inv'
<1> USE DEF Procs, Children
<1>1. pc[p] = "bc" /\ UNCHANGED <<program, fds, x, request, client>>
  BY DEF Bc
<1>2. DOMAIN content' = DOMAIN content
  BY DEF Bc
<1>3. CASE AtEof(p, 0) /\ Exit(p, "exit")
  <2>1. p = "one" /\ pc["two"] = "none"
    BY <1>1 DEF Inv, Control
  <2>2. InUse
    BY <1>1, <2>1 DEF Inv, Control, InUse
  <2>3. PICK in, out \in Pipes : Connected(in, out)
    BY <2>2 DEF Inv, TwoPipes
  <2>4. PipeOn(p, 0) = in
    BY <1>1, <2>1, <2>3, EndFacts DEF PipeOn, Connected, BcHas
  <2>5. "in1" \notin MainEnds
    <3>1. SUFFICES ASSUME "in1" \in MainEnds PROVE FALSE
      OBVIOUS
    <3>2. table["main"][fds.in1] = W(in) /\ fds.in1 \in Fds
      BY <2>3, <3>1 DEF Connected, Holds, Inv, Types
    <3> QED BY <1>3, <2>4, <3>2 DEF AtEof, Writers
  <2>6. pc["main"] = "wait"
    BY <1>1, <2>1, <2>5 DEF Inv, Control, MainEnds, All
  <2> QED BY <1>1, <1>2, <1>3, <2>6, ChildRuns DEF Exit, Goto
<1>4. CASE UNCHANGED <<pc, table>>
  <2>1. pc' = [pc EXCEPT ![p] = "bc"]
    BY <1>1, <1>4 DEF Inv, Types
  <2> QED BY <1>1, <1>2, <1>4, <2>1, ChildRuns
<1> QED BY <1>3, <1>4 DEF Bc

(* When the result is out, three of the four descriptors are free again,   *)
(* and the fourth is the read end of the answer.                           *)
LEMMA AnswerStep ==
    ASSUME Inv, Calculator, Answer
    PROVE  Inv'
<1> USE DEF Procs, Children
<1>1. pc["main"] = "answer" /\ UNCHANGED <<program, table, content, fds, x, request, client>>
  BY DEF Answer
<1>2. PICK s \in {"ask", "pipes", "failed"} :
          /\ pc' = [pc EXCEPT !["main"] = s]
          /\ s = "ask" <=> program # "server1"
  BY DEF Answer, Goto
<1>3. pc'["main"] = s /\ pc'["one"] = pc["one"] /\ pc'["two"] = pc["two"]
  BY <1>2 DEF Inv, Types
<1>4. pc["one"] = "none" /\ pc["two"] = "none"
  BY <1>1 DEF Inv, Control
<1>5. Types'
  BY <1>1, <1>2 DEF Inv, Types
<1>6. Control'
  BY <1>1, <1>2, <1>3, <1>4 DEF Inv, Control, Calculator
<1>7. InUse /\ ~InUse'
  BY <1>1, <1>2, <1>3 DEF InUse, Calculator
<1>8. PICK in, out \in Pipes : Connected(in, out)
  BY <1>7 DEF Inv, TwoPipes
<1>9. /\ table["main"][fds.in0] = None /\ table["main"][fds.in1] = None
      /\ table["main"][fds.out0] = R(out) /\ table["main"][fds.out1] = None
  <2>1. MainEnds = {"out0"}
    BY <1>1 DEF MainEnds
  <2> QED BY <1>8, <2>1 DEF Connected, Holds
<1>10. Cardinality(Free) >= 3
  <2> DEFINE i0 == fds.in0
             i1 == fds.in1
             o1 == fds.out1
  <2>1. {i0, i1, o1} \subseteq Free /\ i0 # i1 /\ i0 # o1 /\ i1 # o1
    BY <1>8, <1>9 DEF Free, Inv, Types, Connected, Apart
  <2> HIDE DEF i0, i1, o1
  <2>2. IsFiniteSet(Free) /\ Cardinality(Free) \in Nat
    BY FdFacts, FS_Subset, FS_CardinalityType DEF Free
  <2>3. /\ IsFiniteSet({i0}) /\ Cardinality({i0}) = 1
        /\ IsFiniteSet({i1}) /\ Cardinality({i1}) = 1
        /\ IsFiniteSet({o1}) /\ Cardinality({o1}) = 1
    BY FS_Singleton
  <2>4. /\ IsFiniteSet({i0} \cup {i1}) /\ Cardinality({i0} \cup {i1}) = 2
    <3>1. {i0} \cap {i1} = {}
      BY <2>1
    <3>2. Cardinality({i0} \cup {i1}) = Cardinality({i0}) + Cardinality({i1})
      BY <2>3, <3>1, Disjoint
    <3>3. IsFiniteSet({i0} \cup {i1})
      BY <2>3, FS_Union
    <3> QED BY <2>3, <3>2, <3>3
  <2>5. Cardinality(({i0} \cup {i1}) \cup {o1}) = 3
    BY <2>1, <2>3, <2>4, Disjoint
  <2>6. ({i0} \cup {i1}) \cup {o1} \subseteq Free
    BY <2>1
  <2> QED BY <2>2, <2>5, <2>6, FS_Subset
<1>11. TwoPipes' /\ StandardOpen'
  BY <1>1, <1>7 DEF Inv, TwoPipes, StandardOpen, Standard
<1>12. Leaks'
  <2>1. SUFFICES ASSUME program # "server1", Calculator PROVE Leaks'
    BY <1>1 DEF Leaks, Calculators
  <2>2. pc'["main"] = "ask"
    BY <1>2, <1>3, <2>1
  <2>3. \A f \in Fds \ Standard :
           table["main"][f] = None \/ \E k \in Pipes : table["main"][f] = R(k)
    <3>1. program \in Calculators \ {"server1"}
      BY <2>1, PipesAssumption DEF Inv, Types, Calculator
    <3>2. \A f \in Four : table["main"][f] = None \/ table["main"][f] = R(out)
      BY <1>9 DEF Four
    <3> QED BY <3>1, <3>2 DEF Inv, Leaks
  <2>4. Free' = Free /\ Standard' = Standard
    BY <1>1 DEF Free, Standard
  <2> QED BY <1>1, <1>7, <1>10, <2>2, <2>3, <2>4 DEF Leaks
<1> QED BY <1>5, <1>6, <1>11, <1>12 DEF Inv

LEMMA AskStep ==
    ASSUME Inv, program # "server1", Ask
    PROVE  Inv'
<1> USE DEF Procs, Children
<1>1. /\ pc["main"] = "ask" /\ UNCHANGED <<program, table, content, fds, x, client>>
      /\ request' \in Requests \cup {request}
  BY DEF Ask
<1>2. PICK s \in {"pipes", "end"} : pc' = [pc EXCEPT !["main"] = s]
  BY DEF Ask, Goto
<1>3. pc'["main"] = s /\ pc'["one"] = pc["one"] /\ pc'["two"] = pc["two"]
  BY <1>2 DEF Inv, Types
<1>4. Calculator /\ pc["one"] = "none" /\ pc["two"] = "none"
  BY <1>1 DEF Inv, Control
<1>5. Types'
  BY <1>1, <1>2 DEF Inv, Types
<1>6. Control'
  BY <1>1, <1>2, <1>3, <1>4 DEF Inv, Control, Calculator
<1>7. ~InUse /\ ~InUse' /\ InUse' = InUse
  BY <1>1, <1>2, <1>3, <1>4 DEF InUse, Calculator
<1>8. StandardOpen' /\ Leaks'
  BY <1>1, <1>2, <1>3, <1>7, StaysKept
<1> QED BY <1>5, <1>6, <1>7, <1>8 DEF Inv, TwoPipes

\* The connection takes a free descriptor, so neither one of the pipes nor a standard one.
LEMMA AcceptClientStep ==
    ASSUME Inv, program = "server1", AcceptClient
    PROVE  Inv'
<1> USE DEF Procs, Children
<1> DEFINE m == Min(Free)
           T == table["main"]
           U == [T EXCEPT ![m] = File]
<1>1. pc["main"] = "ask" /\ UNCHANGED <<program, content, fds, x, request>>
  BY DEF AcceptClient
<1>2. /\ Calculator /\ pc["one"] = "none" /\ pc["two"] = "none" /\ InUse
      /\ MainEnds = All
  BY <1>1 DEF Inv, Control, InUse, Calculator, MainEnds
<1>3. CASE Goto("main", "failed") /\ UNCHANGED <<table, client>>
  <2>1. pc' = [pc EXCEPT !["main"] = "failed"]
    BY <1>3 DEF Goto
  <2>2. pc'["main"] = "failed" /\ pc'["one"] = "none" /\ pc'["two"] = "none"
    BY <1>2, <2>1 DEF Inv, Types
  <2>3. Types'
    BY <1>1, <1>3, <2>1 DEF Inv, Types
  <2>4. Control'
    BY <1>1, <1>2, <1>3, <2>2 DEF Inv, Control, Calculator
  <2>5. TwoPipes' /\ StandardOpen' /\ Leaks'
    BY <1>1, <1>3, <2>2 DEF Inv, TwoPipes, InUse, StandardOpen, Standard, Leaks
  <2> QED BY <2>3, <2>4, <2>5 DEF Inv
<1>4. CASE /\ Free # {} /\ table' = [table EXCEPT !["main"][m] = File]
           /\ client' = TRUE /\ UNCHANGED pc
  <2>1. Free \in SUBSET Nat /\ Free \in SUBSET Fds
    BY FdFacts DEF Free
  <2>2. m \in Free
    BY <1>4, <2>1, Smallest
  <2>3. table' = [table EXCEPT !["main"] = U]
    BY <1>4
  <2> HIDE DEF m
  <2>4. m \in Fds /\ T[m] = None /\ T \in Table
    BY <2>1, <2>2 DEF Free, Inv, Types
  <2>5. U \in Table /\ U[m] = File /\ \A f \in Fds \ {m} : U[f] = T[f]
    BY <2>4 DEF Table, Entry
  <2> HIDE DEF U
  <2>6. table'["main"] = U /\ table'["one"] = table["one"] /\ table'["two"] = table["two"]
    BY <2>3 DEF Inv, Types
  <2>7. Types'
    BY <1>1, <1>4, <2>3, <2>5 DEF Inv, Types
  <2>8. Control'
    BY <1>1, <1>4, <2>6 DEF Inv, Control, Calculator
  <2>9. PICK in, out \in Pipes : Connected(in, out)
    BY <1>2 DEF Inv, TwoPipes
  <2>10. m \notin Four
    BY <1>2, <2>4, <2>9, EndFacts DEF Connected, Holds, Four, All
  <2>11. Connected(in, out)'
    <3>1. Apart' /\ in # out /\ MainEnds' = MainEnds
      BY <1>1, <1>4, <2>9 DEF Connected, Apart, Four, Standard, MainEnds, Calculator
    <3>2. Holds(table["main"], in, out, MainEnds)'
      <4>1. fds.in0 \in Fds /\ fds.in1 \in Fds /\ fds.out0 \in Fds /\ fds.out1 \in Fds
        BY DEF Inv, Types
      <4> QED BY <1>1, <2>5, <2>6, <2>9, <2>10, <3>1, <4>1 DEF Connected, Holds, Four
    <3>3. Only(table["main"], in, out, Four)'
      BY <1>1, <2>5, <2>6, <2>9, EndFacts DEF Connected, Only, Four
    <3>4. Forked(in, out)' /\ BcHas(in, out)' 
          /\ DecHas("one", in, out, out, in)' /\ DecHas("two", in, out, in, out)'
      BY <1>1, <1>4, <2>6, <2>9 DEF Connected, Forked, BcHas, DecHas, Holds, Only, Four
    <3> QED BY <3>1, <3>2, <3>3, <3>4 DEF Connected
  <2>12. StandardOpen'
    <3>1. \A f \in Standard : U[f] = File
      BY <2>5, FdFacts DEF Inv, StandardOpen
    <3> QED BY <1>1, <2>6, <3>1 DEF StandardOpen, Standard
  <2>13. Leaks'
    BY <1>1 DEF Leaks
  <2> QED BY <2>7, <2>8, <2>11, <2>12, <2>13 DEF Inv, TwoPipes
<1> QED BY <1>3, <1>4 DEF AcceptClient

LEMMA AskClientStep ==
    ASSUME Inv, program = "server1", AskClient
    PROVE  Inv'
<1> USE DEF Procs, Children
<1>1. /\ pc["main"] = "ask" /\ UNCHANGED <<program, content, fds, x>>
      /\ client' \in BOOLEAN
      /\ request' \in Requests \cup {"none", "quit"}
  <2>1. request' \in IF client' \/ request = "none" THEN Requests \cup {"quit"} ELSE {request}
    BY DEF AskClient
  <2>2. request \in Requests \cup {"none", "quit"}
    BY DEF Inv, Types
  <2> QED BY <2>1, <2>2 DEF AskClient
<1>2. /\ Calculator /\ pc["one"] = "none" /\ pc["two"] = "none" /\ InUse
      /\ MainEnds = All
  BY <1>1 DEF Inv, Control, InUse, Calculator, MainEnds
<1>3. CASE Goto("main", "fork") /\ UNCHANGED table
  <2>1. pc' = [pc EXCEPT !["main"] = "fork"]
    BY <1>3 DEF Goto
  <2>2. pc'["main"] = "fork" /\ pc'["one"] = pc["one"] /\ pc'["two"] = pc["two"]
    BY <2>1 DEF Inv, Types
  <2>3. Types'
    BY <1>1, <1>3, <2>1 DEF Inv, Types
  <2>4. Control'
    BY <1>1, <1>2, <1>3, <2>2 DEF Inv, Control, Calculator
  <2>5. InUse' /\ MainEnds' = MainEnds
    BY <1>1, <1>2, <2>2 DEF InUse, MainEnds, Calculator
  <2>6. TwoPipes'
    <3>1. PICK in, out \in Pipes : Connected(in, out)
      BY <1>2 DEF Inv, TwoPipes
    <3>2. Connected(in, out)'
      BY <1>1, <1>3, <2>2, <2>5, <3>1, StaysConnected
    <3> QED BY <3>2 DEF TwoPipes
  <2>7. StandardOpen' /\ Leaks'
    BY <1>1, <1>2, <1>3, <2>2, <2>5, StaysKept
  <2> QED BY <2>3, <2>4, <2>6, <2>7 DEF Inv
<1>4. CASE /\ Goto("main", "pipes")
           /\ table' = [table EXCEPT !["main"] = Without(@, Connection)]
  <2> DEFINE T == table["main"]
             U == Without(T, Connection)
  <2>1. pc' = [pc EXCEPT !["main"] = "pipes"] /\ table' = [table EXCEPT !["main"] = U]
    BY <1>4 DEF Goto
  <2>2. /\ U \in Table
        /\ \A f \in Fds : U[f] = IF f \in Connection THEN None ELSE T[f]
    BY WithoutFacts DEF Inv, Types
  <2> HIDE DEF U
  <2>3. /\ pc'["main"] = "pipes" /\ pc'["one"] = pc["one"] /\ pc'["two"] = pc["two"]
        /\ table'["main"] = U /\ table'["one"] = table["one"] /\ table'["two"] = table["two"]
    BY <2>1 DEF Inv, Types
  <2>4. Types'
    BY <1>1, <2>1, <2>2 DEF Inv, Types
  <2>5. Control'
    BY <1>1, <1>2, <2>3 DEF Inv, Control, Calculator
  <2>6. TwoPipes' /\ Leaks'
    BY <1>1, <2>3 DEF TwoPipes, InUse, Leaks
  <2>7. StandardOpen'
    <3>1. \A f \in Standard : U[f] = File
      BY <2>2, FdFacts DEF Inv, StandardOpen, Connection
    <3> QED BY <1>1, <2>3, <3>1 DEF StandardOpen, Standard
  <2> QED BY <2>4, <2>5, <2>6, <2>7 DEF Inv
<1> QED BY <1>3, <1>4 DEF AskClient

LEMMA InitInv == Init => Inv
<1> USE DEF Procs, Children
<1> SUFFICES ASSUME Init PROVE Inv
  OBVIOUS
<1>1. /\ pc["main"] = IF program \in {"pipedec", "server1"} THEN "pipes" ELSE "ask"
      /\ pc["one"] = "none" /\ pc["two"] = "none"
      /\ table["one"] = Nothing /\ table["two"] = Nothing
      /\ table["main"] = [f \in Fds |-> IF f \in Standard THEN File ELSE None]
  BY DEF Init
<1>2. Types
  <2>1. 0 \in Fds
    BY FdFacts
  <2>2. table \in [Procs -> Table]
    BY NothingFacts DEF Init, Table, Entry
  <2>3. pc = [p \in Procs |-> IF p # "main" THEN "none"
                             ELSE IF program \in {"pipedec", "server1"} THEN "pipes" ELSE "ask"]
    BY DEF Init
  <2>4. fds = [in0 |-> 0, in1 |-> 0, out0 |-> 0, out1 |-> 0]
        /\ DOMAIN content = Pipes /\ DOMAIN x = Children
    BY DEF Init
  <2>5. program \in Programs /\ request = "none" /\ client = FALSE
    BY DEF Init
  <2>6. pc \in [Procs -> {"none", "pipes", "ask"}]
    BY <2>3
  <2>7. fds \in [{"in0", "in1", "out0", "out1"} -> Fds]
    BY <2>1, <2>4
  <2> QED BY <2>2, <2>4, <2>5, <2>6, <2>7 DEF Types
<1>3. Control
  BY <1>1, PipesAssumption DEF Init, Control, Calculator, Calculators
<1>4. StandardOpen
  BY <1>1, FdFacts DEF StandardOpen
<1>5. ~InUse
  BY <1>1 DEF InUse, Calculator
<1>6. Leaks
  <2>1. SUFFICES ASSUME program # "server1" PROVE Leaks
    BY DEF Leaks
  <2>2. Free = Fds \ Standard
    BY <1>1, EndFacts DEF Free
  <2>3. IsFiniteSet(Standard) /\ IsFiniteSet(Free)
    BY <2>2, FdFacts, FS_Subset
  <2>4. Standard \cup Free = Fds /\ Standard \cap Free = {}
    BY <2>2, FdFacts
  <2>5. /\ Cardinality(Fds) = Cardinality(Standard) + Cardinality(Free)
        /\ Cardinality(Free) \in Nat
    BY <2>3, <2>4, Disjoint
  <2>6. Cardinality(Free) >= 3
    BY <2>1, <2>5, FdFacts, PipesAssumption
  <2>7. \A f \in Fds \ Standard : table["main"][f] = None
    BY <1>1
  <2> QED BY <1>1, <1>5, <2>6, <2>7 DEF Leaks
<1> QED BY <1>2, <1>3, <1>4, <1>5, <1>6 DEF Inv, TwoPipes

LEMMA NextInv == Inv /\ [Next]_vars => Inv'
<1> SUFFICES ASSUME Inv, [Next]_vars PROVE Inv'
  OBVIOUS
<1>1. CASE UNCHANGED vars
  BY <1>1 DEF vars, Inv, Types, Control, Calculator, TwoPipes, InUse, Connected, Apart, Four,
              Standard, Holds, MainEnds, Only, Forked, BcHas, DecHas, StandardOpen, Leaks, Free
<1>2. CASE Main
  <2>1. CASE Calculator /\ Calculate
    BY <2>1, OpenPipesStep, ForkChildStep, CloseEndsStep, WriteReadStep, CloseInStep,
       WaitStep, AnswerStep DEF Calculate
  <2>2. CASE pipedec_main
    BY <2>2, OpenPipesStep, ForkChildStep, CloseEndsStep, WaitStep DEF pipedec_main
  <2> QED BY <1>2, <2>1, <2>2
          DEF Main, es2_main, mybc_cmd, bcserver_cmd, server1_main, Calculator
<1>3. CASE processo1
  BY <1>3, processo1Step
<1>4. CASE processo2
  BY <1>4, processo2Step
<1>5. CASE \E p \in Children : Child(p)
  BY <1>5, DecStep, SetupBcStep, BcStep DEF Child, bc, Calculator
<1>6. CASE User
  BY <1>6, AskStep, AcceptClientStep, AskClientStep DEF User
<1>7. CASE AtRest
  BY <1>1, <1>7 DEF AtRest
<1> QED BY <1>1, <1>2, <1>3, <1>4, <1>5, <1>6, <1>7 DEF Next
-----------------------------------------------------------------------------
(* The theorems.                                                           *)

\* Who has which end of which pipe stays true of every state.
THEOREM PipesInvCorrect == Spec => []Inv
BY InitInv, NextInv, PTL DEF Spec

\* Between a fork and the wait, only the peer can write what a process reads.
LEMMA PeerWrites == Inv => OnlyPeerWrites
<1> USE DEF Procs, Children
<1> SUFFICES ASSUME Inv PROVE OnlyPeerWrites
  OBVIOUS
<1> DEFINE peer(p) == CASE p = "main" -> "one"
                        [] p = "one" -> IF program = "pipedec" THEN "two" ELSE "main"
                        [] p = "two" -> "one"
           reads(p, f) == Writers(PipeOn(p, f)) \subseteq {peer(p)}
<1>1. ASSUME program # "pipedec", pc["main"] \in {"write", "read", "close_in", "wait"}
      PROVE  /\ pc["one"] = "bc" => reads("one", 0)
             /\ pc["one"] # "setup" => reads("main", fds.out0)
  <2>1. InUse /\ Calculator /\ pc["two"] = "none" /\ table["two"] = Nothing
    BY <1>1 DEF Inv, Control, InUse, Calculator
  <2>2. PICK in, out \in Pipes : Connected(in, out)
    BY <2>1 DEF Inv, TwoPipes
  <2>3. MainEnds \in {{"in1", "out0"}, {"out0"}}
    BY <1>1, <2>1 DEF MainEnds
  <2>4. "two" \notin Writers(in) /\ "two" \notin Writers(out)
    BY <2>1, NothingFacts, EndFacts DEF Writers
  <2>5. ASSUME pc["one"] = "bc" PROVE reads("one", 0)
    <3>1. PipeOn("one", 0) = in
      BY <2>2, <2>5, EndFacts DEF Connected, BcHas, PipeOn
    <3>2. \A f \in Fds : table["one"][f] # W(in)
      <4>1. W(in) # W(out) /\ W(in) # R(in) /\ W(in) # None
        BY <2>2, EndFacts DEF Connected
      <4>2. \A f \in Four \cup {0, 1, 2} : table["one"][f] \in {R(in), W(out), None}
        BY <2>2, <2>5 DEF Connected, BcHas, Holds, Four
      <4> QED BY <2>2, <2>5, <4>1, <4>2 DEF Connected, BcHas, Only
    <3>3. "one" \notin Writers(in)
      BY <3>2 DEF Writers
    <3>4. Writers(in) \subseteq {"main"}
      BY <2>4, <3>3 DEF Writers
    <3> QED BY <1>1, <3>1, <3>4
  <2>6. ASSUME pc["one"] # "setup" PROVE reads("main", fds.out0)
    <3>1. PipeOn("main", fds.out0) = out
      BY <2>2, <2>3, EndFacts DEF Connected, Holds, PipeOn
    <3>2. \A f \in Fds : table["main"][f] # W(out)
      <4>1. W(in) # W(out) /\ W(out) # R(out) /\ W(out) # None
        BY <2>2, EndFacts DEF Connected
      <4>2. \A f \in Four : table["main"][f] \in {W(in), R(out), None}
        BY <2>2, <2>3 DEF Connected, Holds, Four
      <4> QED BY <2>2, <4>1, <4>2 DEF Connected, Only
    <3>3. "main" \notin Writers(out)
      BY <3>2 DEF Writers
    <3>4. Writers(out) \subseteq {"one"}
      BY <2>4, <3>3 DEF Writers
    <3> QED BY <3>1, <3>4
  <2> QED BY <2>5, <2>6
<1>2. ASSUME program = "pipedec", pc["main"] \in {"wait", "wait_last", "end"},
             NEW p \in Children, pc[p] = "dec_read"
      PROVE  reads(p, 0)
  <2>1. InUse /\ MainEnds = {}
    BY <1>2 DEF InUse, Calculator, MainEnds
  <2>2. PICK in, out \in Pipes : Connected(in, out)
    BY <2>1 DEF Inv, TwoPipes
  <2>3. W(in) # W(out) /\ W(in) # R(out) /\ W(out) # R(in) /\ W(in) # None /\ W(out) # None
    BY <2>2, EndFacts DEF Connected
  <2>4. \A f \in Fds : table["main"][f] # W(in) /\ table["main"][f] # W(out)
    <3>1. \A f \in Four : table["main"][f] = None
      BY <2>1, <2>2 DEF Connected, Holds, Four
    <3> QED BY <2>2, <2>3, <3>1 DEF Connected, Only
  <2>5. "main" \notin Writers(in) /\ "main" \notin Writers(out)
    BY <2>4 DEF Writers
  <2>6. CASE p = "one"
    <3>1. PipeOn("one", 0) = out
      BY <1>2, <2>2, <2>6, EndFacts DEF Connected, DecHas, PipeOn
    <3>2. \A f \in Fds : table["one"][f] # W(out)
      BY <1>2, <2>2, <2>3, <2>6, EndFacts DEF Connected, DecHas, Only
    <3>3. Writers(out) \subseteq {"two"}
      BY <2>5, <3>2 DEF Writers
    <3> QED BY <1>2, <2>6, <3>1, <3>3
  <2>7. CASE p = "two"
    <3>1. PipeOn("two", 0) = in
      BY <1>2, <2>2, <2>7, EndFacts DEF Connected, DecHas, PipeOn
    <3>2. \A f \in Fds : table["two"][f] # W(in)
      BY <1>2, <2>2, <2>3, <2>7, EndFacts DEF Connected, DecHas, Only
    <3>3. Writers(in) \subseteq {"one"}
      BY <2>5, <3>2 DEF Writers
    <3> QED BY <2>7, <3>1, <3>3
  <2> QED BY <2>6, <2>7
<1> QED BY <1>1, <1>2 DEF OnlyPeerWrites

(* main never keeps a write end of the pipes it reads, nor a child the     *)
(* write end of its own input: the reads come to an end of file when their *)
(* peer has closed or ended.                                               *)
THEOREM PipesOnlyPeerWrites == Spec => []OnlyPeerWrites
BY PipesInvCorrect, PeerWrites, PTL

\* Between two requests only read ends are left, and pipe fails with three free.
LEMMA ReadEndsLeak == Inv => LeaksReadEnds
<1> USE DEF Procs, Children
<1> SUFFICES ASSUME Inv PROVE LeaksReadEnds
  OBVIOUS
<1> DEFINE kept == {f \in Fds \ Standard : table["main"][f] # None}
<1>1. TypeOK
  BY DEF Inv, Types, TypeOK, Table, Entry
<1>2. pc["main"] \in {"ask", "pipes"} => pc["one"] = "none"
  BY DEF Inv, Control
<1>3. ASSUME program \in Calculators \ {"server1"}, pc["main"] \in {"ask", "pipes", "end", "failed"}
      PROVE  /\ \A f \in kept : \E k \in Pipes : table["main"][f] = R(k) /\ Writers(k) = {}
             /\ pc["main"] = "failed" => Cardinality(kept) = MaxFd - 3 - Cardinality(Standard)
  <2>1. ~InUse /\ Calculator
    BY <1>3 DEF InUse, Calculator, Calculators
  <2>2. \A f \in kept : \E k \in Pipes : table["main"][f] = R(k)
    BY <1>3, <2>1 DEF Inv, Leaks
  <2>3. table["one"] = Nothing /\ table["two"] = Nothing
    BY <1>3, <2>1 DEF Inv, Control
  <2>4. \A k \in Pipes : Writers(k) = {}
    <3>1. ASSUME NEW k \in Pipes, NEW f \in Fds PROVE table["main"][f] # W(k)
      <4>1. CASE f \in Standard
        BY <4>1, EndFacts DEF Inv, StandardOpen
      <4>2. CASE f \in kept
        BY <2>2, <4>2, EndFacts
      <4>3. CASE f \notin Standard /\ f \notin kept
        BY <4>3, EndFacts
      <4> QED BY <4>1, <4>2, <4>3
    <3>2. ASSUME NEW k \in Pipes, NEW f \in Fds PROVE Nothing[f] # W(k)
      BY NothingFacts, EndFacts
    <3> QED BY <2>3, <3>1, <3>2 DEF Writers
  <2>5. ASSUME pc["main"] = "failed"
        PROVE  Cardinality(kept) = MaxFd - 3 - Cardinality(Standard)
    <3> HIDE DEF kept
    <3>1. kept \cup Free = Fds \ Standard /\ kept \cap Free = {}
      <4>1. \A f \in Standard : table["main"][f] # None
        BY EndFacts DEF Inv, StandardOpen
      <4> QED BY <4>1 DEF Free, kept
    <3>2. Standard \cup (Fds \ Standard) = Fds /\ Standard \cap (Fds \ Standard) = {}
      BY FdFacts
    <3>3. /\ IsFiniteSet(kept) /\ IsFiniteSet(Free) /\ IsFiniteSet(Standard)
          /\ IsFiniteSet(Fds \ Standard)
      BY FdFacts, FS_Subset, <3>1
    <3>4. /\ Cardinality(Fds \ Standard) = Cardinality(kept) + Cardinality(Free)
          /\ Cardinality(kept) \in Nat /\ Cardinality(Free) \in Nat
      BY <3>1, <3>3, Disjoint
    <3>5. /\ Cardinality(Fds) = Cardinality(Standard) + Cardinality(Fds \ Standard)
          /\ Cardinality(Standard) \in Nat
      BY <3>2, <3>3, Disjoint
    <3>6. Cardinality(Free) >= 3 /\ Cardinality(Free) < 4
      BY <1>3, <2>1, <2>5 DEF Inv, Leaks
    <3> QED BY <3>4, <3>5, <3>6, FdFacts, PipesAssumption
  <2> QED BY <2>2, <2>4, <2>5
<1> QED BY <1>1, <1>2, <1>3 DEF LeaksReadEnds

(* Each request costs es2, mybc and bcserver one descriptor, whose pipe    *)
(* nobody can write any more, whatever the size of the table is.           *)
THEOREM PipesLeaksReadEnds == Spec => []LeaksReadEnds
BY PipesInvCorrect, ReadEndsLeak, PTL

(* SIGPIPE never ends main when it writes a request to bc: the child that  *)
(* it has forked still has the read end.                                   *)
THEOREM MainIsNotKilled == Spec => [](pc["main"] # "exit")
<1>1. Inv => pc["main"] # "exit"
  BY DEF Inv, Control
<1> QED BY <1>1, PipesInvCorrect, PTL
=============================================================================
