------------------------ MODULE SocketServersProofs ------------------------
(***************************************************************************)
(* Proofs about the eight socket servers, for any finite set of clients,   *)
(* any number of workers and any number of units that a transfer is cut    *)
(* into. Clients may be killed, and a signal may come, at any moment.      *)
(*                                                                         *)
(* Core is inductive: what the control points mean in each program         *)
(* (Modes), which connections exist (Conns), and who has each descriptor:  *)
(* main, the queue, a thread (Custody) or the select set (SelectSet). That *)
(* accept always finds a descriptor is a pigeonhole argument (LowestFact). *)
(*                                                                         *)
(* On top of Core, the turns. A client of texts and its server: who has    *)
(* the word, and what lies in the two streams meanwhile (TextTurns). A     *)
(* client of frames and its thread: Meet lists the pairs of places where   *)
(* the two may be, with what is in the streams between them (FrameTurns).  *)
(*                                                                         *)
(* OneKeeper follows from Core, InSync from the turns. For ServerSurvives  *)
(* each step that calls exit is taken in a state that is Doomed.           *)
(***************************************************************************)
EXTENDS SocketServers, TLAPS, FiniteSetTheorems, SequenceTheorems

N == Cardinality(Clients)
Has(s, x) == \E k \in 1 .. Len(s) : s[k] = x

\* No element of s but x is in it twice.
Once(s, x) == \A j, k \in 1 .. Len(s) : s[j] = s[k] /\ s[j] # x => j = k

Types ==
    /\ program \in Programs
    /\ server \in {"up", "ended", "failed"}
    /\ listening \in BOOLEAN /\ raced \in BOOLEAN
    /\ mpc \in {"loop", "accept", "welcome", "hand", "serve", "closing", "return",
                "select", "scan"}
    /\ cfd \in Fds \cup {-1} /\ term \in {0, 1}
    /\ set \subseteq Fds /\ rdset \subseteq Fds /\ fdmax \in Fds
    /\ i \in 0 .. N + 1
    /\ coda \in Seq(Fds \cup {-1})
    /\ tpc \in [Threads -> {"none", "start", "take", "read", "blocked", "reply", "quit",
                           "close", "len", "body", "pipe", "calc", "silent", "wlen", "wbody", "bc", "done"}]
    /\ fd \in [Threads -> Fds \cup {-1}]
    /\ on \in [Threads -> Clients \cup {NoClient}]
    /\ req \in [Threads -> Clients \cup {NoClient, "quit"}]
    /\ left \in [Threads -> 0 .. Units]
    /\ room \in Nat
    /\ conn \in [Fds -> Clients \cup {NoClient}]
    /\ backlog \in Seq(Clients)
    /\ toServer \in [Clients -> Seq({"text", "quit", "len", "body"})]
    /\ toClient \in [Clients -> Seq(Clients \cup {"welcome", "quit", "len", NoClient})]
    /\ cpc \in [Clients -> Gone \cup {"start", "welcome", "prompt", "answer", "len",
                                     "body", "rlen", "rbody"}]
    /\ cleft \in [Clients -> 0 .. Units]
    /\ sent \in 0 .. MaxRequests

(* Where main, the threads and the clients of each program can be; a main  *)
(* that serves its clients itself is thread 1, and there is no other.      *)
Modes ==
    /\ mpc \in {"select", "scan"} => Select
    /\ mpc \in {"loop", "accept", "hand"} => ~Select
    /\ mpc = "serve" => Select \/ OneByOne
    /\ mpc = "welcome" => Text /\ ~Select
    /\ mpc \in {"closing", "return"} => program \in {"server2", "es1"}
    /\ \A t \in Threads :
          /\ tpc[t] = "start" => PerClient
          /\ tpc[t] = "take" => program = "es1"
          /\ tpc[t] \in {"read", "blocked", "reply", "quit"} => Text
          /\ tpc[t] \in {"len", "body", "pipe", "calc", "silent", "wlen", "wbody"} => Frames
          /\ tpc[t] \in {"pipe", "calc", "silent"} => program = "bcserver"
          /\ tpc[t] = "bc" => Direct
          /\ tpc[t] = "close" => PerClient \/ ~Text
          /\ tpc[t] = "blocked" => on[t] \in Clients
    /\ \A c \in Clients :
          /\ cpc[c] \in {"welcome", "quitted"} => Text
          /\ cpc[c] = "answer" => ~Frames
          /\ cpc[c] \in {"len", "body", "rlen", "rbody"} => Frames
    /\ coda # <<>> => program = "es1"
    /\ raced => PerClient
    /\ ~listening => PerClient \/ (program = "es1" /\ mpc = "return")
    /\ mpc \in {"welcome", "hand"} => cfd \in Fds
    /\ Select \/ OneByOne =>
          /\ \A t \in Threads : t # 1 => tpc[t] = "none"
          /\ mpc = "serve" <=> tpc[1] \notin {"none", "done"}
    /\ OneByOne => tpc[1] # "done"

Connected(c) == Has(backlog, c) \/ \E f \in Open : conn[f] = c

(* A client is connected at most once, and one that has not connected, or  *)
(* has been dropped, not at all.                                           *)
Conns ==
    /\ Once(backlog, NoClient)
    /\ \A f, g \in Open : conn[f] = conn[g] => f = g
    /\ \A f \in Open : ~Has(backlog, conn[f])
    /\ \A c \in Clients : cpc[c] = "start" =>
          ~Connected(c) /\ toServer[c] = <<>> /\ toClient[c] = <<>>
    /\ \A c \in Clients : server = "up" /\ cpc[c] = "dropped" => ~Connected(c)

WithMain(f) == mpc \in {"welcome", "hand"} /\ cfd = f

(* OneKeeper, without counting: each open descriptor is with main, in the  *)
(* queue or with a thread, and with one of them only.                      *)
Custody ==
    ~Select /\ ~raced =>
      /\ \A t \in Threads : Serving(t) =>
            fd[t] \in Open /\ ~Has(coda, fd[t]) /\ ~WithMain(fd[t])
      /\ \A t, u \in Threads : Serving(t) /\ Serving(u) /\ fd[t] = fd[u] => t = u
      /\ Once(coda, -1)
      /\ \A f \in Fds : Has(coda, f) => f \in Open /\ ~WithMain(f)
      /\ mpc \in {"welcome", "hand"} => cfd \in Open
      /\ \A f \in Open : \/ Has(coda, f) \/ WithMain(f)
                         \/ \E t \in Threads : Serving(t) /\ fd[t] = f

\* The same for select; what is left of rdset is open, or a client waits.
SelectSet ==
    Select =>
      /\ set = Open \cup {sfd} /\ sfd \notin Open
      /\ \A f \in set : f <= fdmax
      /\ mpc = "serve" => fd[1] \in Open /\ fd[1] < i
      /\ \A f \in rdset : f >= i => f \in set
      /\ mpc = "scan" /\ i = 0 /\ sfd \in rdset => backlog # <<>>

Core == Types /\ Modes /\ Conns /\ Custody /\ SelectSet

ReplyTo(c) == \E t \in Threads : tpc[t] = "reply" /\ conn[fd[t]] = c
QuitOf(c) == \E t \in Threads : tpc[t] = "quit" /\ conn[fd[t]] = c
Awaits(c) == Has(backlog, c) \/ (mpc = "welcome" /\ conn[cfd] = c)
Unwelcomed(c) == cpc[c] \in {"welcome", "killed", "dropped"} /\ toClient[c] = <<>>

(* The turns of a connected client of texts and of its server: which of    *)
(* them has the word.                                                      *)
Turn(c) ==
    /\ cpc[c] \in {"welcome", "prompt"} => toServer[c] = <<>> /\ ~ReplyTo(c) /\ ~QuitOf(c)
    /\ cpc[c] = "prompt" => toClient[c] = <<>>
    /\ cpc[c] = "welcome" => Len(toClient[c]) <= 1
    /\ cpc[c] = "answer" =>
          /\ ~QuitOf(c)
          /\ \/ toServer[c] = <<"text">> /\ toClient[c] = <<>> /\ ~ReplyTo(c)
             \/ toServer[c] = <<>> /\ toClient[c] = <<>> /\ ReplyTo(c)
             \/ toServer[c] = <<>> /\ Len(toClient[c]) = 1 /\ ~ReplyTo(c)
    /\ cpc[c] = "quitted" =>
          ~ReplyTo(c) /\ (toServer[c] = <<"quit">> \/ QuitOf(c))

\* A thread reads from, and answers, the client of its descriptor.
KnowsItsClient(t) ==
    /\ tpc[t] = "blocked" => on[t] = conn[fd[t]]
    /\ tpc[t] = "reply" => req[t] = conn[fd[t]] \/ Closed(conn[fd[t]])

\* No answer to another client is in the stream.
Clean(c) == \A k \in 1 .. Len(toClient[c]) : toClient[c][k] \in {"welcome", c}

TextTurns ==
    Text /\ ~raced =>
      /\ \A c \in Clients : Connected(c) => Turn(c)
      /\ \A c \in Clients : Awaits(c) => Unwelcomed(c)
      /\ \A t \in Threads : KnowsItsClient(t)
      /\ \A c \in Clients : Clean(c)

\* a units u, and then b units v.
Stream(s, a, b, u, v) ==
    /\ a \in Nat /\ b \in Nat
    /\ Len(s) = a + b
    /\ \A k \in 1 .. Len(s) : s[k] = IF k <= a THEN u ELSE v

Serves(t, c) == Serving(t) /\ conn[fd[t]] = c

(* What a client that is gone has left in its stream, when its server has  *)
(* b units to go in the part p of a frame, and the client has not sent the *)
(* last k units of the frame.                                              *)
Unread(in, p, b, k) ==
    \/ p = "len" /\ \E m \in 0 .. b, n \in 0 .. Units - k :
                        Stream(in, m, n, "len", "body") /\ (n > 0 => m = b)
    \/ p = "body" /\ \E n \in 0 .. b - k : Stream(in, 0, n, "len", "body")

(* The client c is at pc and has a units to go; its server is in the part  *)
(* p of a frame, and has b units to go; the streams in and out are between *)
(* them.                                                                   *)
Meet(prog, c, pc, a, in, out, p, b) ==
    /\ b \in 1 .. Units
    /\ pc \in {"prompt", "len", "body", "closed", "killed"} => out = <<>>
    /\ pc \in {"prompt", "rbody", "closed"} => in = <<>>
    /\ pc \in {"len", "body", "rlen", "rbody"} => a \in 1 .. Units
    /\ pc = "prompt" => p = "len" /\ b = Units
    /\ pc = "len" => p = "len" /\ a <= b /\ Stream(in, b - a, 0, "len", "body")
    /\ pc = "body" => \/ p = "len" /\ Stream(in, b, Units - a, "len", "body")
                      \/ p = "body" /\ a <= b /\ Stream(in, 0, b - a, "len", "body")
    /\ pc = "rlen" =>
          \/ p = "len" /\ a = Units /\ Stream(in, b, Units, "len", "body") /\ out = <<>>
          \/ p = "body" /\ a = Units /\ Stream(in, 0, b, "len", "body") /\ out = <<>>
          \/ p = "wlen" /\ b <= a /\ in = <<>> /\ Stream(out, a - b, 0, "len", c)
          \/ p = "wbody" /\ in = <<>> /\ Stream(out, a, Units - b, "len", c)
          \/ p = "len" /\ b = Units /\ in = <<>> /\ Stream(out, a, Units, "len", c)
    /\ pc = "rbody" => \/ p = "wbody" /\ b <= a /\ Stream(out, 0, a - b, "len", c)
                       \/ p = "len" /\ b = Units /\ Stream(out, 0, a, "len", c)
    /\ pc = "closed" => p = "len" \/ (p = "body" /\ prog = "bcserver")
    /\ pc = "killed" => \/ Unread(in, p, b, 1)
                        \/ prog = "toup_server" /\ p \in {"wlen", "wbody"}
    /\ pc = "deserted" => (p \in {"len", "body"} => Unread(in, p, b, 0))

Agree(c, p, b) == Meet(program, c, cpc[c], cleft[c], toServer[c], toClient[c], p, b)

\* For the client, a server that is in cmd is about to write its answer.
Part(p) == IF p \in {"pipe", "calc", "silent"} THEN "wlen" ELSE p

\* A client and the thread that serves it, if there is one.
InTune(c) ==
    /\ \A t \in Threads : Serves(t, c) =>
          IF tpc[t] = "close" THEN Closed(c) ELSE Agree(c, Part(tpc[t]), left[t])
    /\ (\A t \in Threads : ~Serves(t, c)) => Agree(c, "len", Units)

FrameTurns ==
    Frames =>
      \A c \in Clients :
          /\ cpc[c] \notin Gone \cup {"start"} => Connected(c)
          /\ Connected(c) => InTune(c)
-----------------------------------------------------------------------------
(* Lemmas on numbers and sequences.                                        *)

\* A set of naturals that is not empty has a least element.
LEMMA Smallest ==
    ASSUME NEW S \in SUBSET Nat, S # {}
    PROVE  \E x \in S : \A y \in S : x <= y
<1>1. PICK x \in S : \A y \in S : ~(<<y, x>> \in OpToRel(<, Nat))
  BY NatLessThanWellFounded, WFMin
<1>2. \A y \in S : ~(y < x)
  BY <1>1 DEF OpToRel
<1> QED BY <1>2

\* The constants; there is a thread for each worker, and at least one.
LEMMA Constants ==
    /\ N \in Nat /\ Fds = 0 .. N /\ sfd = 0 /\ sfd \in Fds /\ Fds \subseteq Nat /\ -1 \notin Fds
    /\ Threads \subseteq Nat \ {0} /\ 1 \in Threads /\ \A k \in 1 .. nt : k \in Threads
    /\ Units \in Nat \ {0} /\ nt \in Nat \ {0} /\ MaxRequests \in Nat
    /\ IsFiniteSet(Clients) /\ NoClient \notin Clients
<1>1. N \in Nat /\ nt \in Nat \ {0} /\ Units \in Nat \ {0}
  BY SocketsAssumption, FS_CardinalityType DEF N
<1>2. Max({nt, N}) \in {nt, N} /\ \A y \in {nt, N} : Max({nt, N}) >= y
  <2>1. \E x \in {nt, N} : \A y \in {nt, N} : x >= y
    BY <1>1
  <2> QED BY <2>1, Zenon DEF Max
<1>3. Threads \subseteq Nat \ {0} /\ 1 \in Threads /\ \A k \in 1 .. nt : k \in Threads
  BY <1>1, <1>2 DEF Threads, N
<1> QED BY <1>1, <1>3, SocketsAssumption DEF Fds, N, sfd

\* The least and the greatest of some descriptors.
LEMMA MinFact ==
    ASSUME NEW S \in SUBSET Fds, S # {}
    PROVE  Min(S) \in S /\ \A y \in S : Min(S) <= y
<1>1. \E x \in S : \A y \in S : x <= y
  BY Smallest, Constants
<1> QED BY <1>1, Zenon DEF Min

LEMMA MaxFact ==
    ASSUME NEW S \in SUBSET Fds, S # {}
    PROVE  Max(S) \in S /\ \A y \in S : Max(S) >= y
<1> DEFINE B == {b \in Nat : \A y \in S : b >= y}
<1>1. N \in B
  BY Constants
<1>2. PICK b \in B : \A y \in B : b <= y
  <2> B \in SUBSET Nat /\ B # {}
    BY <1>1
  <2> HIDE DEF B
  <2> QED BY Smallest
<1>3. b \in S
  <2>1. SUFFICES ASSUME b \notin S PROVE FALSE
    OBVIOUS
  <2>2. PICK y \in S : TRUE
    OBVIOUS
  <2>3. b - 1 \in B
    BY <2>1, <2>2, Constants
  <2> QED BY <1>2, <2>3
<1>4. \E x \in S : \A y \in S : x >= y
  BY <1>3
<1> QED BY <1>4, Zenon DEF Max

\* The elements of a sequence to which one is appended, or the first taken from.
LEMMA HasAppend ==
    ASSUME NEW T, NEW s \in Seq(T), NEW x \in T
    PROVE  /\ Append(s, x) \in Seq(T)
           /\ \A y : Has(Append(s, x), y) <=> Has(s, y) \/ y = x
<1>1. /\ Append(s, x) \in Seq(T) /\ Len(s) \in Nat /\ Len(Append(s, x)) = Len(s) + 1
      /\ \A k \in 1 .. Len(s) : Append(s, x)[k] = s[k]
      /\ Append(s, x)[Len(s) + 1] = x
  OBVIOUS
<1> DEFINE a == Append(s, x)
<1> HIDE DEF a
<1>2. \A k : k \in 1 .. Len(a) <=> k \in 1 .. Len(s) \/ k = Len(s) + 1
  BY <1>1 DEF a
<1> QED BY <1>1, <1>2, Zenon DEF a, Has

LEMMA OnceAppend ==
    ASSUME NEW T, NEW s \in Seq(T), NEW x \in T, NEW z, Once(s, z), ~Has(s, x) \/ x = z
    PROVE  Once(Append(s, x), z)
<1>1. /\ Len(s) \in Nat /\ Len(Append(s, x)) = Len(s) + 1
      /\ \A k \in 1 .. Len(s) : Append(s, x)[k] = s[k]
      /\ Append(s, x)[Len(s) + 1] = x
  OBVIOUS
<1> DEFINE a == Append(s, x)
<1> HIDE DEF a
<1>2. \A k : k \in 1 .. Len(a) <=> k \in 1 .. Len(s) \/ k = Len(s) + 1
  BY <1>1 DEF a
<1> QED BY <1>1, <1>2, Zenon DEF a, Has, Once

LEMMA TailFacts ==
    ASSUME NEW T, NEW s \in Seq(T), s # <<>>
    PROVE  /\ Head(s) \in T /\ Has(s, Head(s))
           /\ Tail(s) \in Seq(T)
           /\ \A y : Has(s, y) <=> Has(Tail(s), y) \/ y = Head(s)
           /\ \A z : Once(s, z) => Once(Tail(s), z) /\ (Head(s) # z => ~Has(Tail(s), Head(s)))
<1>1. /\ Head(s) \in T /\ Head(s) = s[1] /\ Tail(s) \in Seq(T)
      /\ Len(s) \in Nat \ {0} /\ Len(Tail(s)) = Len(s) - 1
      /\ \A k \in 1 .. Len(Tail(s)) : Tail(s)[k] = s[k + 1]
  OBVIOUS
<1> DEFINE q == Tail(s)
           h == Head(s)
<1> HIDE DEF q, h
<1>2. /\ 1 \in 1 .. Len(s)
      /\ \A k \in 1 .. Len(q) : k + 1 \in 1 .. Len(s) /\ k + 1 # 1 /\ q[k] = s[k + 1]
      /\ \A j, k \in 1 .. Len(q) : j + 1 = k + 1 => j = k
  BY <1>1 DEF q
<1>3. \A k \in 1 .. Len(s) : k = 1 \/ \E j \in 1 .. Len(q) : k = j + 1
  <2>1. \A k \in 1 .. Len(s) : k = 1 \/ (k - 1 \in 1 .. Len(q) /\ k = (k - 1) + 1)
    BY <1>1 DEF q
  <2> QED BY <2>1
<1>4. \A y : Has(s, y) <=> Has(q, y) \/ y = h
  <2>1. ASSUME NEW y PROVE Has(s, y) => Has(q, y) \/ y = h
    BY <1>1, <1>2, <1>3 DEF Has, h
  <2>2. ASSUME NEW y PROVE Has(q, y) \/ y = h => Has(s, y)
    BY <1>1, <1>2 DEF Has, h
  <2> QED BY <2>1, <2>2
<1>5. ASSUME NEW z, Once(s, z) PROVE Once(q, z) /\ (h # z => ~Has(q, h))
  <2>1. Once(q, z)
    BY <1>2, <1>5 DEF Once
  <2>2. h # z => ~Has(q, h)
    BY <1>1, <1>2, <1>5 DEF Once, Has, h
  <2> QED BY <2>1, <2>2
<1>6. Has(s, h)
  BY <1>4
<1> QED BY <1>1, <1>4, <1>5, <1>6 DEF q, h

\* A -1 for each worker behind a queue.
LEMMA HasConcat ==
    ASSUME NEW T, NEW s \in Seq(T), NEW r \in Seq(T), NEW x, \A k \in 1 .. Len(r) : r[k] = x
    PROVE  /\ s \o r \in Seq(T)
           /\ \A y : Has(s \o r, y) => Has(s, y) \/ y = x
           /\ \A y : Has(s, y) => Has(s \o r, y)
           /\ Once(s, x) => Once(s \o r, x)
<1> DEFINE q == s \o r
           n == Len(r)
<1>1. n \in Nat /\ \A k \in 1 .. n : r[k] = x
  OBVIOUS
<1>2. /\ q \in Seq(T) /\ Len(q) = Len(s) + n /\ Len(s) \in Nat
      /\ \A k \in 1 .. Len(s) : q[k] = s[k]
      /\ \A k \in Len(s) + 1 .. Len(s) + n : q[k] = r[k - Len(s)]
  OBVIOUS
<1> HIDE DEF q, n
<1>3. /\ \A k \in 1 .. Len(s) : q[k] = s[k] /\ k \in 1 .. Len(q)
      /\ \A k \in 1 .. Len(q) : k \in 1 .. Len(s) \/ q[k] = x
  <2>1. \A k \in Len(s) + 1 .. Len(s) + n : k - Len(s) \in 1 .. n
    BY <1>1, <1>2
  <2>2. \A k \in Len(s) + 1 .. Len(s) + n : q[k] = x
    BY <1>1, <1>2, <2>1
  <2>3. /\ \A k \in 1 .. Len(s) : k \in 1 .. Len(q)
        /\ \A k \in 1 .. Len(q) : k \in 1 .. Len(s) \/ k \in Len(s) + 1 .. Len(s) + n
    BY <1>1, <1>2
  <2> QED BY <1>2, <2>2, <2>3, Zenon
<1> SUFFICES /\ \A y : Has(q, y) => Has(s, y) \/ y = x
             /\ \A y : Has(s, y) => Has(q, y)
             /\ Once(s, x) => Once(q, x)
  BY <1>2 DEF q
<1>4. \A y : Has(q, y) => Has(s, y) \/ y = x
  BY <1>3 DEF Has
<1>5. \A y : Has(s, y) => Has(q, y)
  BY <1>3 DEF Has
<1>6. Once(s, x) => Once(q, x)
  BY <1>3 DEF Once
<1> QED BY <1>4, <1>5, <1>6
-----------------------------------------------------------------------------
(* What the invariants say of descriptors.                                 *)

\* The classes of the servers.
LEMMA Classes ==
    /\ PerClient => Text /\ ~Select /\ ~OneByOne /\ program # "es1" /\ program # "server3"
    /\ program = "es1" => Text /\ ~Select /\ ~OneByOne /\ ~PerClient
    /\ Direct => ~Text /\ ~Frames /\ ~Select /\ ~PerClient /\ OneByOne
    /\ Text => ~Frames /\ ~OneByOne
    /\ Frames => ~Direct /\ ~PerClient
    /\ program \in Programs => Text \/ Frames \/ Direct
    /\ program \in {"server2", "es3"} <=> PerClient
    /\ Select => ~OneByOne
    /\ program \in Programs => (Text <=> (Select /\ program = "server3") \/ PerClient \/ program = "es1")
BY SocketsAssumption
   DEF PerClient, Select, OneByOne, Text, Frames, Direct, TextPrograms, FramePrograms,
       DirectPrograms

LEMMA OpenFacts ==
    ASSUME Types
    PROVE  /\ Open \subseteq Fds /\ -1 \notin Open
           /\ \A f \in Open : conn[f] \in Clients
           /\ \A f \in Fds : f \in Open <=> conn[f] # NoClient
BY Constants DEF Types, Open

\* The descriptor that accept returns: there are more than clients.
LEMMA LowestFact ==
    ASSUME Types, Conns, backlog # <<>>
    PROVE  Lowest \in Fds /\ Lowest \notin Open /\ (Lowest = sfd => ~listening)
<1> DEFINE D == 1 .. N
           h == Head(backlog)
           E == Clients \ {h}
<1>1. h \in Clients /\ Has(backlog, h)
  BY TailFacts DEF Types
<1>2. IsFiniteSet(E) /\ Cardinality(E) = N - 1
  BY <1>1, FS_RemoveElement, Constants DEF N
<1>3. IsFiniteSet(D) /\ Cardinality(D) = N
  BY FS_Interval, Constants
<1>4. \E f \in D : f \notin Open
  <2> SUFFICES ASSUME \A f \in D : f \in Open PROVE FALSE
    OBVIOUS
  <2> DEFINE m == [f \in D |-> conn[f]]
  <2>1. m \in [D -> E]
    BY <1>1, OpenFacts DEF Conns
  <2> HIDE DEF m, E, D
  <2>2. PICK f, g \in D : f # g /\ m[f] = m[g]
    BY <1>2, <1>3, <2>1, FS_PigeonHole, Constants
  <2> QED BY <2>2 DEF m, D, Conns
<1> DEFINE S == {f \in Fds \ Open : f = sfd => ~listening}
<1>5. S \in SUBSET Fds /\ S # {}
  BY <1>4, Constants
<1>6. Min(S) \in S
  BY <1>5, MinFact, Zenon
<1>7. Lowest = Min(S)
  BY DEF Lowest
<1> QED BY <1>6, <1>7

\* A thread that serves has its connection open, and for itself.
LEMMA Served ==
    ASSUME Core, ~raced, NEW t \in Threads, Serving(t)
    PROVE  /\ fd[t] \in Open /\ fd[t] \in Fds /\ conn[fd[t]] \in Clients /\ Connected(conn[fd[t]])
           /\ \A u \in Threads : Serving(u) /\ fd[u] = fd[t] => u = t
           /\ \A u \in Threads : Serving(u) /\ conn[fd[u]] = conn[fd[t]] => u = t
<1>1. /\ fd[t] \in Open
      /\ \A u \in Threads : Serving(u) => fd[u] \in Open
      /\ \A u \in Threads : Serving(u) /\ fd[u] = fd[t] => u = t
  <2>1. CASE Select
    <3>1. \A u \in Threads : Serving(u) => u = 1
      BY <2>1 DEF Core, Modes, Serving
    <3>2. mpc = "serve"
      BY <2>1, <3>1, Constants DEF Core, Modes, Serving
    <3> QED BY <2>1, <3>1, <3>2 DEF Core, SelectSet
  <2>2. CASE ~Select
    BY <2>2 DEF Core, Custody
  <2> QED BY <2>1, <2>2
<1>2. fd[t] \in Fds /\ conn[fd[t]] \in Clients
  BY <1>1, OpenFacts DEF Core
<1>3. \A u \in Threads : Serving(u) /\ conn[fd[u]] = conn[fd[t]] => u = t
  BY <1>1 DEF Core, Conns
<1> QED BY <1>1, <1>2, <1>3 DEF Connected

\* Threads of these places serve.
LEMMA ServingFacts ==
    ASSUME Types, Modes, NEW t \in Threads
    PROVE  /\ tpc[t] \in {"start", "read", "blocked", "reply", "quit", "len", "body", "pipe",
                          "calc", "silent", "wlen", "wbody", "bc"} => Serving(t)
           /\ tpc[t] \in {"none", "take", "done"} => ~Serving(t)
           /\ tpc[t] = "close" => (Serving(t) <=> ~Text)
BY DEF Serving

-----------------------------------------------------------------------------
(* What a step may change without a word about it.                         *)

LEMMA ConnsFrame ==
    ASSUME Types, Conns, backlog' = backlog,
           \A f \in Fds : conn'[f] \in {conn[f], NoClient},
           server' = "up" => server = "up",
           \A c \in Clients : cpc'[c] = "start" =>
              cpc[c] = "start" /\ toServer'[c] = toServer[c] /\ toClient'[c] = toClient[c],
           \A c \in Clients : server' = "up" /\ cpc'[c] = "dropped" =>
              cpc[c] = "dropped" \/ ~Connected(c)
    PROVE  Conns'
<1>1. \A f \in Open' : f \in Open /\ conn'[f] = conn[f]
  BY DEF Open
<1>2. \A c \in Clients : Connected(c)' => Connected(c)
  BY <1>1 DEF Connected
<1>3. /\ \A f, g \in Open' : conn'[f] = conn'[g] => f = g
      /\ \A f \in Open' : ~Has(backlog', conn'[f])
      /\ Once(backlog', NoClient)
  BY <1>1 DEF Conns
<1>4. \A c \in Clients : cpc'[c] = "start" =>
          ~Connected(c)' /\ toServer'[c] = <<>> /\ toClient'[c] = <<>>
  BY <1>2 DEF Conns
<1>5. \A c \in Clients : server' = "up" /\ cpc'[c] = "dropped" => ~Connected(c)'
  BY <1>2 DEF Conns
<1> QED BY <1>3, <1>4, <1>5, Zenon DEF Conns

LEMMA CustodyFrame ==
    ASSUME Custody, UNCHANGED <<program, fd, coda, conn>>, raced => raced',
           \A t \in Threads : Serving(t)' <=> Serving(t),
           mpc' \in {"welcome", "hand"} <=> mpc \in {"welcome", "hand"},
           mpc \in {"welcome", "hand"} => cfd' = cfd
    PROVE  Custody'
<1>1. \A f : WithMain(f)' <=> WithMain(f)
  BY DEF WithMain
<1>2. Open' = Open /\ (Select' <=> Select)
  BY DEF Open, Select
<1> QED BY <1>1, <1>2 DEF Custody

LEMMA SelectFrame ==
    ASSUME SelectSet, UNCHANGED <<program, set, conn, fdmax, i, rdset>>,
           mpc' = "serve" => mpc = "serve" /\ fd'[1] = fd[1],
           mpc' = "scan" /\ i = 0 => mpc = "scan" /\ (backlog # <<>> => backlog' # <<>>)
    PROVE  SelectSet'
<1>1. Open' = Open /\ (Select' <=> Select)
  BY DEF Open, Select
<1> QED BY <1>1 DEF SelectSet
-----------------------------------------------------------------------------
(* Each step keeps Core: the main of the servers with accept.              *)
USE DEF main, selects, threads, net, clients, serverVars

\* The states of a thread and of main in each class of servers.
LEMMA ModeFacts ==
    ASSUME Types, Modes
    PROVE  /\ mpc \in {"loop", "accept", "welcome", "hand", "closing", "return"} => ~Select
           /\ mpc \in {"loop", "accept", "welcome", "hand", "closing", "return"} /\ OneByOne =>
                \A t \in Threads : tpc[t] = "none"
           /\ Select \/ OneByOne => \A t \in Threads : tpc[t] \notin {"none", "done"} => t = 1
           /\ \A t \in Threads : tpc[t] \in {"close", "bc", "len", "body", "wlen", "wbody"} /\ ~Text => ~raced
BY Classes, Constants DEF Types, Modes, Select, OneByOne

\* What a server writes.
Answers == Clients \cup {"welcome", "quit", "len", NoClient}

LEMMA AppendIn ==
    ASSUME NEW T, NEW s \in [Clients -> Seq(T)], NEW c \in Clients, NEW x \in T
    PROVE  [s EXCEPT ![c] = Append(@, x)] \in [Clients -> Seq(T)]
<1>1. Append(s[c], x) \in Seq(T)
  OBVIOUS
<1> QED BY <1>1

\* What a client writes.
Requests == {"text", "quit", "len", "body"}

LEMMA TailIn ==
    ASSUME NEW T, NEW s \in [Clients -> Seq(T)], NEW c \in Clients, s[c] # <<>>
    PROVE  [s EXCEPT ![c] = Tail(@)] \in [Clients -> Seq(T)]
<1>1. Tail(s[c]) \in Seq(T)
  OBVIOUS
<1> QED BY <1>1

LEMMA CallAcceptCore ==
    ASSUME Core, CallAccept
    PROVE  Core'
<1>1. Types'
  BY DEF Core, Types, CallAccept, Fail
<1>2. Modes'
  BY DEF Core, Modes, CallAccept, Fail, Select, OneByOne, PerClient, Text, Frames, Direct
<1>3. Conns'
  BY ConnsFrame DEF Core, CallAccept, Fail
<1>4. Custody'
  <2>1. \A t \in Threads : Serving(t)' <=> Serving(t)
    BY DEF CallAccept, Serving, Text
  <2> QED BY <2>1, CustodyFrame DEF Core, CallAccept, Fail
<1>5. SelectSet'
  BY SelectFrame DEF Core, CallAccept, Fail
<1> QED BY <1>1, <1>2, <1>3, <1>4, <1>5 DEF Core

LEMMA AcceptCore ==
    ASSUME Core, Accept
    PROVE  Core'
<1> DEFINE f0 == Lowest
           c0 == Head(backlog)
<1>1. f0 \in Fds /\ f0 \notin Open
  BY LowestFact DEF Core, Accept
<1>2. /\ c0 \in Clients /\ Has(backlog, c0) /\ c0 # NoClient
      /\ \A c : Has(backlog, c) <=> Has(backlog', c) \/ c = c0
      /\ backlog' \in Seq(Clients)
      /\ Once(backlog', NoClient) /\ ~Has(backlog', c0)
  BY TailFacts, Constants DEF Core, Types, Conns, Accept
<1>3. /\ conn' = [conn EXCEPT ![f0] = c0] /\ cfd' = f0
      /\ Open' = Open \cup {f0} /\ conn'[f0] = c0
      /\ \A f \in Open : conn'[f] = conn[f] /\ f # f0
  BY <1>1, <1>2 DEF Core, Types, Open, Accept
<1> HIDE DEF f0, c0
<1>4. Types'
  BY <1>1, <1>2, <1>3 DEF Core, Types, Accept
<1>5. Modes'
  BY <1>1, <1>3 DEF Core, Modes, Accept, Select, OneByOne, PerClient, Text, Frames, Direct
<1>6. Conns'
  <2>1. \A f, g \in Open' : conn'[f] = conn'[g] => f = g
    BY <1>2, <1>3 DEF Core, Conns
  <2>2. \A f \in Open' : ~Has(backlog', conn'[f])
    BY <1>2, <1>3 DEF Core, Conns
  <2>3. \A c : Connected(c)' <=> Connected(c)
    BY <1>2, <1>3 DEF Connected
  <2>4. UNCHANGED <<cpc, server, toServer, toClient>>
    BY DEF Accept
  <2> QED BY <1>2, <2>1, <2>2, <2>3, <2>4 DEF Core, Conns
<1>7. Custody'
  <2>1. /\ UNCHANGED <<program, raced, coda, fd>> /\ mpc = "accept"
        /\ \A t \in Threads : Serving(t)' <=> Serving(t)
    BY DEF Accept, Serving, Text
  <2>2. /\ \A f : ~WithMain(f) /\ (WithMain(f)' <=> f = f0)
        /\ Select' <=> Select
    BY <1>3, <2>1 DEF WithMain, Accept, Select
  <2> SUFFICES ASSUME ~Select, ~raced PROVE Custody'
    BY <2>1, <2>2 DEF Custody
  <2> QED BY <1>1, <1>3, <2>1, <2>2 DEF Core, Custody
<1>8. SelectSet'
  BY ModeFacts DEF Core, Accept, SelectSet, Select
<1> QED BY <1>4, <1>5, <1>6, <1>7, <1>8 DEF Core

LEMMA WelcomeCore ==
    ASSUME Core, Welcome
    PROVE  Core'
<1>1. cfd \in Open => conn[cfd] \in Clients /\ cpc[conn[cfd]] # "start"
  BY OpenFacts DEF Core, Conns, Connected
<1>2. Types'
  <2>1. toClient' \in [Clients -> Seq(Answers)]
    <3>1. toClient \in [Clients -> Seq(Answers)] /\ "welcome" \in Answers
      BY DEF Core, Types, Answers
    <3>2. CASE cfd \notin Open \/ Closed(conn[cfd])
      BY <3>1, <3>2 DEF Welcome
    <3>3. CASE ~(cfd \notin Open \/ Closed(conn[cfd]))
      <4>1. toClient' = [toClient EXCEPT ![conn[cfd]] = Append(@, "welcome")] /\ conn[cfd] \in Clients
        BY <1>1, <3>3 DEF Welcome
      <4> QED BY <3>1, <4>1, AppendIn
    <3> QED BY <3>2, <3>3
  <2>2. server' \in {"up", "ended", "failed"} /\ mpc' \in {"welcome", "hand"}
    BY DEF Core, Types, Welcome, Fail
  <2> QED BY <2>1, <2>2 DEF Core, Types, Welcome, Answers
<1>3. Modes'
  BY DEF Core, Modes, Welcome, Fail, Select, OneByOne, PerClient, Text, Frames, Direct
<1>4. Conns'
  <2>1. \A c \in Clients : cpc[c] = "start" => toClient'[c] = toClient[c]
    BY <1>1 DEF Core, Types, Welcome
  <2> QED BY <2>1, ConnsFrame DEF Core, Welcome, Fail
<1>5. Custody'
  <2>1. \A t \in Threads : Serving(t)' <=> Serving(t)
    BY DEF Welcome, Serving, Text
  <2> QED BY <2>1, CustodyFrame DEF Core, Welcome, Fail
<1>6. SelectSet'
  BY SelectFrame DEF Core, Welcome, Fail
<1> QED BY <1>2, <1>3, <1>4, <1>5, <1>6 DEF Core

LEMMA SpawnCore ==
    ASSUME Core, Spawn, program # "es1"
    PROVE  Core'
<1>0. PICK t \in Threads :
         /\ tpc[t] = "none" /\ \A u \in Threads : u < t => tpc[u] # "none"
         /\ Now(t, IF PerClient THEN "start" ELSE IF Direct THEN "bc" ELSE "len")
         /\ fd' = [fd EXCEPT ![t] = cfd]
         /\ left' = [left EXCEPT ![t] = Units]
         /\ mpc = "hand" /\ mpc' = IF OneByOne THEN "serve" ELSE "loop"
         /\ UNCHANGED <<program, server, listening, cfd, term, selects, coda, on, req,
                         raced, room, net, clients>>
  BY DEF Spawn
<1>1. Types'
  <2>1. tpc' \in [Threads -> {"none", "start", "take", "read", "blocked", "reply", "quit",
                              "close", "len", "body", "pipe", "calc", "silent", "wlen", "wbody", "bc", "done"}]
    BY <1>0 DEF Core, Types, Now
  <2>2. fd' \in [Threads -> Fds \cup {-1}] /\ left' \in [Threads -> 0 .. Units]
    BY <1>0, Constants DEF Core, Types
  <2> QED BY <1>0, <2>1, <2>2 DEF Core, Types, selects, net, clients
<1>2. ~Select /\ (OneByOne => t = 1)
  <2>1. OneByOne => tpc[1] = "none"
    BY Constants, ModeFacts DEF Core, Spawn
  <2>2. t \in Nat \ {0} /\ 1 \in Threads
    BY Constants
  <2> QED BY <1>0, <2>1, <2>2, ModeFacts DEF Core, Spawn
<1>3. program \in Programs /\ (PerClient => ~Direct) /\ (~PerClient /\ ~Direct => Frames)
  BY <1>2, Classes DEF Core, Types, Spawn
<1>4. Modes'
  <2>1. UNCHANGED <<program, on, cpc, coda, raced, listening>>
    BY DEF Spawn
  <2>2. /\ Select' <=> Select
        /\ OneByOne' <=> OneByOne
        /\ PerClient' <=> PerClient
        /\ Text' <=> Text
        /\ Frames' <=> Frames
        /\ Direct' <=> Direct
    BY <2>1 DEF Select, OneByOne, PerClient, Text, Frames, Direct
  <2>3. mpc' = IF OneByOne THEN "serve" ELSE "loop"
    BY DEF Spawn
  <2> QED BY <1>0, <1>2, <1>3, <2>1, <2>2, <2>3, Classes, Constants DEF Core, Types, Modes, Now, Spawn
<1>5. Conns'
  BY ConnsFrame DEF Core, Spawn
<1>6. Custody'
  <2>1. /\ UNCHANGED <<program, coda, conn, cfd, raced>> /\ mpc = "hand"
        /\ \A u \in Threads : u # t => (Serving(u)' <=> Serving(u)) /\ fd'[u] = fd[u]
        /\ Serving(t)' /\ ~Serving(t) /\ fd'[t] = cfd
    BY <1>0 DEF Core, Types, Spawn, Now, Serving, Text
  <2>2. /\ \A f : WithMain(f) <=> f = cfd
        /\ \A f : ~WithMain(f)'
        /\ Open' = Open /\ (Select' <=> Select)
    BY <2>1 DEF WithMain, Spawn, Open, Select
  <2> SUFFICES ASSUME ~raced PROVE Custody'
    BY <2>1 DEF Custody
  <2>3. /\ cfd \in Open /\ ~Has(coda, cfd)
        /\ \A u \in Threads : Serving(u) => fd[u] \in Open /\ ~Has(coda, fd[u]) /\ fd[u] # cfd
        /\ \A u, v \in Threads : Serving(u) /\ Serving(v) /\ fd[u] = fd[v] => u = v
        /\ Once(coda, -1)
        /\ \A f \in Fds : Has(coda, f) => f \in Open
        /\ \A f \in Open : Has(coda, f) \/ f = cfd \/ \E u \in Threads : Serving(u) /\ fd[u] = f
    BY <1>2, <2>1, <2>2, OpenFacts DEF Core, Custody
  <2>4. \A u, v \in Threads : Serving(u)' /\ Serving(v)' /\ fd'[u] = fd'[v] => u = v
    BY <2>1, <2>3
  <2>5. \A f \in Open : Has(coda, f) \/ \E u \in Threads : Serving(u)' /\ fd'[u] = f
    BY <2>1, <2>3
  <2>6. mpc' \notin {"welcome", "hand"}
    BY <1>0
  <2> QED BY <2>1, <2>2, <2>3, <2>4, <2>5, <2>6 DEF Custody
<1>7. SelectSet'
  BY <1>2 DEF Spawn, SelectSet, Select
<1> QED BY <1>1, <1>4, <1>5, <1>6, <1>7 DEF Core

LEMMA InsertNodeCore ==
    ASSUME Core, InsertNode, program = "es1"
    PROVE  Core'
<1>0. cfd \in Fds /\ cfd \in Fds \cup {-1} /\ coda \in Seq(Fds \cup {-1}) /\ coda' = Append(coda, cfd)
  BY DEF Core, Types, Modes, InsertNode
<1>1. /\ coda' \in Seq(Fds \cup {-1})
      /\ \A f : Has(coda', f) <=> Has(coda, f) \/ f = cfd
  BY <1>0, HasAppend, Zenon
<1>2. Types'
  BY <1>1 DEF Core, Types, InsertNode
<1>3. Modes'
  BY DEF Core, Modes, InsertNode, Select, OneByOne, PerClient, Text, Frames, Direct
<1>4. Conns'
  BY ConnsFrame DEF Core, InsertNode
<1>5. Custody'
  <2>1. /\ UNCHANGED <<program, conn, fd, raced>> /\ mpc = "hand"
        /\ \A u \in Threads : Serving(u)' <=> Serving(u)
    BY DEF InsertNode, Serving, Text
  <2>2. /\ \A f : WithMain(f) <=> f = cfd
        /\ \A f : ~WithMain(f)'
        /\ Open' = Open /\ (Select' <=> Select)
    BY <2>1 DEF WithMain, InsertNode, Open, Select
  <2> SUFFICES ASSUME ~raced, ~Select PROVE Custody'
    BY <2>1, <2>2 DEF Custody
  <2>3. ~Has(coda, cfd)
    BY <1>0, <2>2 DEF Core, Custody
  <2>4. Once(coda', -1)
    <3>1. Once(coda, -1)
      BY DEF Core, Custody
    <3> QED BY <1>0, <2>3, <3>1, OnceAppend, Zenon
  <2>5. cfd \in Open
    BY <2>1 DEF Core, Custody
  <2>6. \A t \in Threads : Serving(t) => fd[t] \in Open /\ ~Has(coda', fd[t])
    BY <1>1, <2>2 DEF Core, Custody
  <2>7. /\ \A f \in Fds : Has(coda', f) => f \in Open
        /\ \A f \in Open : \/ Has(coda', f)
                           \/ \E t \in Threads : Serving(t) /\ fd[t] = f
    BY <1>1, <2>2, <2>5 DEF Core, Custody
  <2>8. mpc' \notin {"welcome", "hand"}
    BY DEF InsertNode
  <2>9. \A t, u \in Threads : Serving(t) /\ Serving(u) /\ fd[t] = fd[u] => t = u
    BY DEF Core, Custody
  <2> QED BY <2>1, <2>2, <2>4, <2>6, <2>7, <2>8, <2>9 DEF Custody
<1>6. SelectSet'
  BY SelectFrame DEF Core, InsertNode
<1> QED BY <1>2, <1>3, <1>4, <1>5, <1>6 DEF Core
LEMMA SignalCore ==
    ASSUME Core, Signal, program \in {"server2", "es1"}
    PROVE  Core'
<1>1. Types'
  BY DEF Core, Types, Signal
<1>2. Modes'
  BY DEF Core, Modes, Signal, Select, OneByOne, PerClient, Text, Frames, Direct
<1>3. Conns'
  BY ConnsFrame DEF Core, Signal
<1>4. Custody'
  <2>1. \A t \in Threads : Serving(t)' <=> Serving(t)
    BY DEF Signal, Serving, Text
  <2> QED BY <2>1, CustodyFrame DEF Core, Signal
<1>5. SelectSet'
  BY SelectFrame DEF Core, Signal
<1> QED BY <1>1, <1>2, <1>3, <1>4, <1>5 DEF Core

LEMMA CloseListeningCore ==
    ASSUME Core, CloseListening, program = "es3"
    PROVE  Core'
<1>1. Types'
  BY DEF Core, Types, CloseListening
<1>2. Modes'
  BY DEF Core, Modes, CloseListening, Select, OneByOne, PerClient, Text, Frames, Direct
<1>3. Conns'
  BY ConnsFrame DEF Core, CloseListening
<1>4. Custody'
  <2>1. \A t \in Threads : Serving(t)' <=> Serving(t)
    BY DEF CloseListening, Serving, Text
  <2> QED BY <2>1, CustodyFrame DEF Core, CloseListening
<1>5. SelectSet'
  BY SelectFrame DEF Core, CloseListening
<1> QED BY <1>1, <1>2, <1>3, <1>4, <1>5 DEF Core

LEMMA EndsCore ==
    ASSUME Core, ExitSuccess \/ Return
    PROVE  Core'
<1>1. Types'
  BY DEF Core, Types, ExitSuccess, Return
<1>2. Modes'
  BY DEF Core, Modes, ExitSuccess, Return, Select, OneByOne, PerClient, Text, Frames, Direct
<1>3. Conns'
  BY ConnsFrame DEF Core, ExitSuccess, Return
<1>4. Custody'
  <2>1. \A t \in Threads : Serving(t)' <=> Serving(t)
    BY DEF ExitSuccess, Return, Serving, Text
  <2> QED BY <2>1, CustodyFrame DEF Core, ExitSuccess, Return
<1>5. SelectSet'
  BY SelectFrame DEF Core, ExitSuccess, Return
<1> QED BY <1>1, <1>2, <1>3, <1>4, <1>5 DEF Core

LEMMA ClosingCore ==
    ASSUME Core, Closing
    PROVE  Core'
<1>1. /\ coda' \in Seq(Fds \cup {-1})
      /\ \A f \in Fds : Has(coda', f) <=> Has(coda, f)
      /\ Once(coda, -1) => Once(coda', -1)
      /\ program # "es1" => coda' = coda
  <2>1. CASE program = "es1"
    <3>1. coda \in Seq(Fds \cup {-1}) /\ -1 \in Fds \cup {-1} /\ nt \in Nat
      BY Constants DEF Core, Types
    <3>2. coda' = coda \o [k \in 1 .. nt |-> -1]
      BY <2>1 DEF Closing
    <3>3. /\ coda' \in Seq(Fds \cup {-1})
          /\ \A f : Has(coda', f) => Has(coda, f) \/ f = -1
          /\ \A f : Has(coda, f) => Has(coda', f)
          /\ Once(coda, -1) => Once(coda', -1)
      <4>1. -1 \in Fds \cup {-1} /\ nt \in Nat
        BY Constants
      <4> DEFINE r == [k \in 1 .. nt |-> -1]
      <4>2. r \in Seq(Fds \cup {-1}) /\ \A k \in 1 .. Len(r) : r[k] = -1
        BY <4>1
      <4>3. coda' = coda \o r
        BY <3>2
      <4> HIDE DEF r
      <4>4. /\ coda \o r \in Seq(Fds \cup {-1})
            /\ \A f : Has(coda \o r, f) => Has(coda, f) \/ f = -1
            /\ \A f : Has(coda, f) => Has(coda \o r, f)
            /\ Once(coda, -1) => Once(coda \o r, -1)
        BY <3>1, <4>2, HasConcat
      <4> QED BY <4>3, <4>4, Zenon
    <3> QED BY <2>1, <3>3, Constants
  <2>2. CASE program # "es1"
    BY <2>2 DEF Closing, Core, Types
  <2> QED BY <2>1, <2>2
<1>2. Types'
  BY <1>1 DEF Core, Types, Closing
<1>3. Modes'
  BY <1>1 DEF Core, Modes, Closing, Select, OneByOne, PerClient, Text, Frames, Direct
<1>4. Conns'
  BY ConnsFrame DEF Core, Closing
<1>5. Custody'
  <2>1. /\ \A t \in Threads : Serving(t)' <=> Serving(t)
        /\ UNCHANGED <<program, conn, fd, raced>>
    BY DEF Closing, Serving, Text
  <2>2. /\ \A f : ~WithMain(f) /\ ~WithMain(f)'
        /\ Open' = Open /\ (Select' <=> Select) /\ Open \subseteq Fds
        /\ mpc' \notin {"welcome", "hand"}
    BY <2>1, OpenFacts DEF Closing, WithMain, Open, Select, Core
  <2> SUFFICES ASSUME ~raced, ~Select PROVE Custody'
    BY <2>1, <2>2 DEF Custody
  <2>3. /\ \A t \in Threads : Serving(t) => fd[t] \in Open /\ ~Has(coda', fd[t])
        /\ \A t, u \in Threads : Serving(t) /\ Serving(u) /\ fd[t] = fd[u] => t = u
        /\ Once(coda', -1)
    BY <1>1, <2>2 DEF Core, Custody
  <2>4. /\ \A f \in Fds : Has(coda', f) => f \in Open
        /\ \A f \in Open : Has(coda', f) \/ \E t \in Threads : Serving(t) /\ fd[t] = f
    BY <1>1, <2>2 DEF Core, Custody
  <2> QED BY <2>1, <2>2, <2>3, <2>4 DEF Custody
<1>6. SelectSet'
  BY SelectFrame DEF Core, Closing
<1> QED BY <1>2, <1>3, <1>4, <1>5, <1>6 DEF Core

-----------------------------------------------------------------------------
\* The main of the servers with select.
LEMMA CallSelectCore ==
    ASSUME Core, CallSelect
    PROVE  Core'
<1>0. Select /\ mpc = "select" /\ UNCHANGED <<program, set, conn, fdmax, fd, backlog>>
  BY DEF Core, Modes, CallSelect
<1>1. /\ set = Open \cup {sfd} /\ sfd \notin Open /\ \A f \in set : f <= fdmax
      /\ rdset' = {f \in Ready : f <= fdmax} /\ i' = 0 /\ mpc' = "scan" /\ server' = server
  BY <1>0 DEF Core, SelectSet, CallSelect
<1>2. rdset' \subseteq set /\ (sfd \in rdset' => backlog # <<>>)
  BY <1>1 DEF Ready
<1>3. Types'
  <2>1. UNCHANGED <<program, listening, cfd, term, set, fdmax, coda, threads, net, clients>>
    BY DEF CallSelect
  <2>2. rdset' \subseteq Fds /\ i' \in 0 .. N + 1
    <3>1. set \subseteq Fds
      BY DEF Core, Types
    <3>2. 0 \in 0 .. N + 1
      BY Constants
    <3> QED BY <1>1, <1>2, <3>1, <3>2, Zenon
  <2> QED BY <1>1, <2>1, <2>2 DEF Core, Types
<1>4. Modes'
  BY <1>1 DEF Core, Modes, CallSelect, Select, OneByOne, PerClient, Text, Frames, Direct
<1>5. Conns'
  BY <1>1, ConnsFrame DEF Core, CallSelect
<1>6. Custody'
  BY <1>0 DEF Custody, Select
<1>7. SelectSet'
  BY <1>0, <1>1, <1>2 DEF SelectSet, Select, Open
<1> QED BY <1>3, <1>4, <1>5, <1>6, <1>7 DEF Core

LEMMA EndScanCore ==
    ASSUME Core, EndScan
    PROVE  Core'
<1>1. Types'
  BY DEF Core, Types, EndScan
<1>2. Modes'
  BY DEF Core, Modes, EndScan, Select, OneByOne, PerClient, Text, Frames, Direct
<1>3. Conns'
  BY ConnsFrame DEF Core, EndScan
<1>4. Custody'
  BY DEF Core, Modes, EndScan, Custody, Select
<1>5. SelectSet'
  BY SelectFrame DEF Core, EndScan
<1> QED BY <1>1, <1>2, <1>3, <1>4, <1>5 DEF Core

LEMMA FoundFacts ==
    ASSUME Core, NEW f \in Fds, Found(f)
    PROVE  Select /\ f \in rdset /\ i <= f /\ f \in set /\ (f # sfd => f \in Open) /\ f <= fdmax
           /\ (f = sfd => i = 0 /\ backlog # <<>>)
<1>1. Remaining \in SUBSET Fds /\ Remaining # {} /\ f = Min(Remaining) /\ mpc = "scan" /\ Select
  BY DEF Core, Types, Modes, Found, Remaining
<1>2. f \in Remaining
  BY <1>1, MinFact, Zenon
<1>3. f \in rdset /\ i <= f /\ f <= fdmax
  BY <1>2 DEF Remaining
<1>4. f = sfd => i = 0
  BY <1>3, Constants DEF Core, Types
<1> QED BY <1>1, <1>3, <1>4 DEF Core, SelectSet

LEMMA AcceptSelectedCore ==
    ASSUME Core, AcceptSelected
    PROVE  Core'
<1> DEFINE f0 == Lowest
           c0 == Head(backlog)
<1>0. Select /\ sfd \in rdset /\ i = 0 /\ backlog # <<>> /\ mpc = "scan"
  BY FoundFacts, Constants DEF AcceptSelected, Found
<1>1. f0 \in Fds /\ f0 \notin Open /\ f0 # sfd
  <2>1. listening
    BY <1>0, Classes DEF Core, Modes
  <2> QED BY <1>0, <2>1, LowestFact DEF Core
<1>2. /\ c0 \in Clients /\ Has(backlog, c0) /\ c0 # NoClient
      /\ \A c : Has(backlog, c) <=> Has(backlog', c) \/ c = c0
      /\ backlog' \in Seq(Clients)
      /\ Once(backlog', NoClient) /\ ~Has(backlog', c0)
  BY <1>0, TailFacts, Constants DEF Core, Types, Conns, AcceptSelected
<1>3. /\ conn' = [conn EXCEPT ![f0] = c0]
      /\ Open' = Open \cup {f0} /\ conn'[f0] = c0
      /\ \A f \in Open : conn'[f] = conn[f] /\ f # f0
  BY <1>1, <1>2 DEF Core, Types, Open, AcceptSelected
<1>4. fdmax' \in Fds /\ fdmax' >= fdmax /\ fdmax' >= f0 /\ fdmax \in Fds
  <2>1. {fdmax, f0} \in SUBSET Fds /\ {fdmax, f0} # {} /\ fdmax' = Max({fdmax, f0})
    BY <1>1 DEF Core, Types, AcceptSelected
  <2>2. fdmax' \in {fdmax, f0} /\ \A y \in {fdmax, f0} : fdmax' >= y
    BY <2>1, MaxFact, Zenon
  <2> QED BY <2>1, <2>2
<1>5. /\ set' = set \cup {f0} /\ i' = 1 /\ server' \in {server, "failed"}
      /\ UNCHANGED <<program, main, rdset, coda, threads, toServer, clients>>
      /\ toClient' \in {toClient, [toClient EXCEPT ![c0] = Append(@, "welcome")]}
  BY Constants DEF AcceptSelected, Fail
<1> HIDE DEF f0, c0
<1>6. Types'
  <2>1. toClient \in [Clients -> Seq(Answers)] /\ "welcome" \in Answers
    BY DEF Core, Types, Answers
  <2>2. [toClient EXCEPT ![c0] = Append(@, "welcome")] \in [Clients -> Seq(Answers)]
    BY <1>2, <2>1, AppendIn
  <2>3. toClient' \in [Clients -> Seq(Answers)]
    BY <1>5, <2>1, <2>2
  <2>4. 1 \in 0 .. N + 1
    BY Constants
  <2> QED BY <1>1, <1>2, <1>3, <1>4, <1>5, <2>3, <2>4 DEF Core, Types, Answers
<1>7. Modes'
  BY <1>5 DEF Core, Modes, Select, OneByOne, PerClient, Text, Frames, Direct
<1>8. Conns'
  <2>1. \A f, g \in Open' : conn'[f] = conn'[g] => f = g
    BY <1>2, <1>3 DEF Core, Conns
  <2>2. \A f \in Open' : ~Has(backlog', conn'[f])
    BY <1>2, <1>3 DEF Core, Conns
  <2>3. \A c : Connected(c)' <=> Connected(c)
    BY <1>2, <1>3 DEF Connected
  <2>4. cpc[c0] # "start"
    BY <1>2 DEF Core, Conns, Connected
  <2>5. \A c \in Clients : cpc[c] = "start" => toClient'[c] = toClient[c]
    BY <1>5, <2>4 DEF Core, Types
  <2>6. UNCHANGED <<cpc, toServer>> /\ (server' = "up" => server = "up")
    BY <1>5
  <2> QED BY <1>2, <2>1, <2>2, <2>3, <2>5, <2>6 DEF Core, Conns
<1>9. Custody'
  BY <1>0, <1>5 DEF Custody, Select
<1>10. SelectSet'
  <2>1. /\ set' = Open' \cup {sfd} /\ sfd \notin Open'
    BY <1>0, <1>1, <1>3, <1>5 DEF Core, SelectSet
  <2>2. \A f \in set' : f <= fdmax'
    BY <1>0, <1>1, <1>4, <1>5, Constants DEF Core, Types, SelectSet
  <2>3. mpc' = "scan" /\ i' # 0
    BY <1>0, <1>5
  <2>4. \A f \in rdset' : f >= i' => f \in set'
    <3>1. rdset' = rdset /\ i' = 1 /\ set \subseteq set' /\ rdset \subseteq Nat /\ i = 0
      BY <1>0, <1>5, Constants DEF Core, Types
    <3>2. \A f \in rdset : f >= 0 => f \in set
      BY <1>0 DEF Core, SelectSet
    <3> QED BY <3>1, <3>2
  <2> QED BY <2>1, <2>2, <2>3, <2>4 DEF SelectSet
<1> QED BY <1>6, <1>7, <1>8, <1>9, <1>10 DEF Core

LEMMA ServeSelectedCore ==
    ASSUME Core, ServeSelected
    PROVE  Core'
<1>0. PICK f \in Fds : f # sfd /\ Found(f) /\ i' = f + 1 /\ fd' = [fd EXCEPT ![1] = f]
  BY DEF ServeSelected
<1>1. Select /\ f \in Open /\ f \in Nat /\ f \in 0 .. N /\ mpc = "scan" /\ i <= f
  BY <1>0, FoundFacts, Constants DEF Found
<1>2. /\ tpc' = [tpc EXCEPT ![1] = IF Text THEN "read" ELSE "len"]
      /\ left' = [left EXCEPT ![1] = Units]
      /\ mpc' = "serve"
      /\ UNCHANGED <<program, server, listening, cfd, term, set, rdset, fdmax, coda,
                     on, req, raced, room, net, clients>>
  BY DEF ServeSelected, Now
<1>3. Types'
  BY <1>0, <1>1, <1>2, Constants DEF Core, Types
<1>4. Modes'
  <2>1. ~Text => Frames
    BY <1>1, Classes DEF Core, Types
  <2> QED BY <1>1, <1>2, <2>1, Constants
          DEF Core, Types, Modes, Select, OneByOne, PerClient, Text, Frames, Direct
<1>5. Conns'
  BY <1>2, ConnsFrame DEF Core
<1>6. Custody'
  BY <1>1, <1>2 DEF Custody, Select
<1>7. SelectSet'
  <2>1. fd'[1] = f /\ i' = f + 1 /\ Open' = Open
    BY <1>0, <1>2, Constants DEF Core, Types, Open
  <2>2. \A g \in rdset : g >= f + 1 => g >= i
    BY <1>1, Constants DEF Core, Types
  <2> QED BY <1>1, <1>2, <2>1, <2>2 DEF Core, SelectSet, Select
<1> QED BY <1>3, <1>4, <1>5, <1>6, <1>7 DEF Core
-----------------------------------------------------------------------------
\* The threads, with texts.
LEMMA StartCore ==
    ASSUME Core, NEW t \in Threads, Start(t)
    PROVE  Core'
<1>0. PerClient /\ ~Select
  BY Classes DEF Core, Modes, Start
<1>1. Types'
  BY DEF Core, Types, Start, Now
<1>2. Modes'
  BY <1>0, Classes DEF Core, Types, Modes, Start, Now, Select, OneByOne, PerClient, Text, Frames, Direct
<1>3. Conns'
  BY ConnsFrame DEF Core, Start
<1>4. Custody'
  <2> SUFFICES ASSUME ~raced' PROVE Custody'
    BY DEF Custody
  <2>1. fd' = fd /\ UNCHANGED raced
    BY DEF Core, Types, Start
  <2>2. \A u \in Threads : Serving(u)' <=> Serving(u)
    BY DEF Core, Types, Start, Now, Serving, Text
  <2> QED BY <2>1, <2>2, CustodyFrame DEF Core, Start
<1>5. SelectSet'
  BY <1>0 DEF Start, SelectSet, Select
<1> QED BY <1>1, <1>2, <1>3, <1>4, <1>5 DEF Core

LEMMA RemoveNodeCore ==
    ASSUME Core, NEW t \in Threads, RemoveNode(t)
    PROVE  Core'
<1> DEFINE h == Head(coda)
<1>0. program = "es1" /\ ~Select /\ ~OneByOne /\ ~PerClient /\ Text
  BY Classes DEF Core, Modes, RemoveNode
<1>1. /\ h \in Fds \cup {-1} /\ Has(coda, h) /\ coda' \in Seq(Fds \cup {-1})
      /\ \A f : Has(coda, f) <=> Has(coda', f) \/ f = h
      /\ Once(coda, -1) => Once(coda', -1) /\ (h # -1 => ~Has(coda', h))
  <2>1. coda \in Seq(Fds \cup {-1}) /\ coda # <<>> /\ coda' = Tail(coda)
    BY DEF Core, Types, RemoveNode
  <2> QED BY <2>1, TailFacts
<1>2. /\ tpc' = [tpc EXCEPT ![t] = IF h = -1 THEN "done" ELSE "read"]
      /\ fd' = [fd EXCEPT ![t] = h] /\ tpc[t] = "take"
      /\ UNCHANGED <<program, server, main, selects, on, req, left, raced, room, net, clients>>
  BY DEF RemoveNode, Now
<1> HIDE DEF h
<1>3. Types'
  BY <1>1, <1>2 DEF Core, Types
<1>4. Modes'
  BY <1>0, <1>1, <1>2 DEF Core, Types, Modes, Select, OneByOne, PerClient, Text, Frames, Direct
<1>5. Conns'
  BY <1>2, ConnsFrame DEF Core
<1>6. Custody'
  <2>1. /\ \A u \in Threads : u # t => (Serving(u)' <=> Serving(u)) /\ fd'[u] = fd[u]
        /\ (Serving(t)' <=> h # -1) /\ ~Serving(t) /\ fd'[t] = h
    BY <1>2 DEF Core, Types, Serving, Text
  <2>2. /\ \A f : WithMain(f)' <=> WithMain(f)
        /\ Open' = Open /\ (Select' <=> Select)
        /\ mpc' = mpc /\ cfd' = cfd
    BY <1>2 DEF WithMain, Open, Select
  <2> SUFFICES ASSUME ~raced PROVE Custody'
    BY <1>2 DEF Custody
  <2>3. /\ \A u \in Threads : Serving(u) => fd[u] \in Open /\ ~Has(coda, fd[u]) /\ ~WithMain(fd[u])
        /\ \A u, v \in Threads : Serving(u) /\ Serving(v) /\ fd[u] = fd[v] => u = v
        /\ \A f \in Fds : Has(coda, f) => f \in Open /\ ~WithMain(f)
        /\ mpc \in {"welcome", "hand"} => cfd \in Open
    BY <1>0 DEF Core, Custody
  <2>4. h # -1 => h \in Open /\ ~WithMain(h) /\ ~Has(coda', h)
    BY <1>0, <1>1, <2>3 DEF Core, Custody
  <2>5. \A u \in Threads : Serving(u)' => fd'[u] \in Open /\ ~Has(coda', fd'[u]) /\ ~WithMain(fd'[u])
    BY <1>1, <2>1, <2>3, <2>4
  <2>6. \A u, v \in Threads : Serving(u)' /\ Serving(v)' /\ fd'[u] = fd'[v] => u = v
    BY <1>1, <2>1, <2>3, <2>4
  <2>7. Once(coda', -1)
    BY <1>0, <1>1 DEF Core, Custody
  <2>8. ASSUME NEW f \in Open
        PROVE  Has(coda', f) \/ WithMain(f) \/ \E u \in Threads : Serving(u)' /\ fd'[u] = f
    <3>1. f # -1
      BY OpenFacts DEF Core
    <3>2. Has(coda, f) \/ WithMain(f) \/ \E u \in Threads : Serving(u) /\ fd[u] = f
      BY <1>0 DEF Core, Custody
    <3>3. CASE f = h
      BY <2>1, <3>1, <3>3
    <3>4. CASE f # h
      BY <1>1, <2>1, <3>2, <3>4
    <3> QED BY <3>3, <3>4
  <2> QED BY <1>1, <2>2, <2>3, <2>5, <2>6, <2>7, <2>8 DEF Custody
<1>7. SelectSet'
  BY <1>0, <1>2 DEF SelectSet, Select
<1> QED BY <1>3, <1>4, <1>5, <1>6, <1>7 DEF Core

LEMMA CallReadCore ==
    ASSUME Core, NEW t \in Threads, CallRead(t)
    PROVE  Core'
<1>0. Text /\ (fd[t] \in Open => conn[fd[t]] \in Clients)
  BY OpenFacts DEF Core, Modes, CallRead
<1>1. Types'
  BY <1>0 DEF Core, Types, CallRead, Now, Fail
<1>2. Modes'
  <2>1. UNCHANGED <<program, cpc, coda, raced, listening, cfd, mpc>>
    BY DEF CallRead
  <2>2. /\ \A u \in Threads : u # t => tpc'[u] = tpc[u] /\ on'[u] = on[u]
        /\ tpc[t] = "read"
        /\ \/ tpc'[t] = "blocked" /\ on'[t] = conn[fd[t]] /\ fd[t] \in Open
           \/ tpc'[t] = "read"
    BY DEF CallRead, Now, Core, Types
  <2> QED BY <1>0, <2>1, <2>2, Constants DEF Core, Modes, Select, OneByOne, PerClient, Text, Frames, Direct
<1>3. Conns'
  BY ConnsFrame DEF Core, CallRead, Fail
<1>4. Custody'
  <2>1. \A u \in Threads : Serving(u)' <=> Serving(u)
    BY DEF Core, Types, CallRead, Now, Serving, Text
  <2> QED BY <2>1, CustodyFrame DEF Core, CallRead, Now
<1>5. SelectSet'
  BY SelectFrame DEF Core, CallRead
<1> QED BY <1>1, <1>2, <1>3, <1>4, <1>5 DEF Core

LEMMA ReadReturnsCore ==
    ASSUME Core, NEW t \in Threads, ReadReturns(t)
    PROVE  Core'
<1> DEFINE c == on[t]
<1>0. Text /\ c \in Clients /\ tpc[t] = "blocked"
  BY DEF Core, Modes, ReadReturns
<1>1. UNCHANGED <<program, main, selects, coda, fd, on, left, raced, room, backlog, conn, toClient, clients>>
  BY DEF ReadReturns
<1>2. /\ \/ tpc' = tpc
         \/ tpc' = [tpc EXCEPT ![t] = "quit"]
         \/ tpc' = [tpc EXCEPT ![t] = "reply"]
      /\ \/ req' = req
         \/ req' = [req EXCEPT ![t] = "quit"]
         \/ req' = [req EXCEPT ![t] = c]
      /\ \/ toServer' = toServer
         \/ toServer[c] # <<>> /\ toServer' = [toServer EXCEPT ![c] = Tail(@)]
      /\ server' \in {server, "failed"}
  BY DEF ReadReturns, Now, Fail
<1> HIDE DEF c
<1>3. Types'
  <2>1. toServer' \in [Clients -> Seq(Requests)]
    <3>1. toServer \in [Clients -> Seq(Requests)]
      BY DEF Core, Types, Requests
    <3>2. CASE toServer[c] # <<>> /\ toServer' = [toServer EXCEPT ![c] = Tail(@)]
      BY <1>0, <3>1, <3>2, TailIn
    <3> QED BY <1>2, <3>1, <3>2
  <2>2. tpc' \in [Threads -> {"none", "start", "take", "read", "blocked", "reply", "quit",
                             "close", "len", "body", "pipe", "calc", "silent", "wlen", "wbody", "bc", "done"}]
    <3>1. tpc \in [Threads -> {"none", "start", "take", "read", "blocked", "reply", "quit",
                              "close", "len", "body", "pipe", "calc", "silent", "wlen", "wbody", "bc", "done"}]
      BY DEF Core, Types
    <3> QED BY <1>2, <3>1
  <2>3. req' \in [Threads -> Clients \cup {NoClient, "quit"}]
    <3>1. req \in [Threads -> Clients \cup {NoClient, "quit"}]
      BY DEF Core, Types
    <3> QED BY <1>0, <1>2, <3>1
  <2>4. server' \in {"up", "ended", "failed"}
    BY <1>2 DEF Core, Types
  <2> QED BY <1>1, <2>1, <2>2, <2>3, <2>4 DEF Core, Types, Requests
<1>4. Modes'
  <2>1. /\ \A u \in Threads : u # t => tpc'[u] = tpc[u]
        /\ tpc'[t] \in {"blocked", "quit", "reply"}
    BY <1>0, <1>2 DEF Core, Types
  <2> QED BY <1>0, <1>1, <2>1, Constants DEF Core, Modes, Select, OneByOne, PerClient, Text, Frames, Direct
<1>5. Conns'
  <2>1. \A d \in Clients : cpc[d] = "start" => toServer'[d] = toServer[d]
    BY <1>0, <1>2 DEF Core, Types, Conns
  <2> QED BY <1>1, <1>2, <2>1, ConnsFrame DEF Core
<1>6. Custody'
  <2>1. \A u \in Threads : Serving(u)' <=> Serving(u)
    BY <1>0, <1>1, <1>2 DEF Core, Types, Serving, Text
  <2> QED BY <1>1, <2>1, CustodyFrame DEF Core
<1>7. SelectSet'
  BY <1>1, SelectFrame DEF Core
<1> QED BY <1>3, <1>4, <1>5, <1>6, <1>7 DEF Core
\* What keeps Core when thread t has answered.
LEMMA ContinueCore ==
    ASSUME Core, NEW t \in Threads, Serving(t), Text \/ Frames, Continue(t), Types',
           UNCHANGED <<program, listening, cfd, term, selects, coda, fd, on, raced, backlog,
                       conn, clients>>,
           \A c \in Clients : cpc[c] = "start" => toServer'[c] = toServer[c] /\ toClient'[c] = toClient[c],
           server' = "up" => server = "up"
    PROVE  Core'
<1>1. /\ \A u \in Threads : u # t => tpc'[u] = tpc[u]
      /\ tpc'[t] = IF Select THEN "done" ELSE IF Text THEN "read" ELSE "len"
      /\ mpc' = IF Select THEN "scan" ELSE mpc
  BY DEF Continue, Now, Core, Types
<1>2. tpc[t] \notin {"none", "done"} /\ (Select => t = 1 /\ mpc = "serve")
  BY Constants, ModeFacts DEF Serving, Core, Modes
<1>3. Modes'
  BY <1>1, <1>2, Classes, Constants
     DEF Core, Modes, Select, OneByOne, PerClient, Text, Frames, Direct
<1>4. Conns'
  BY ConnsFrame DEF Core
<1>5. Custody'
  <2>1. CASE Select
    BY <2>1 DEF Custody, Select
  <2>2. CASE ~Select
    <3>1. \A u \in Threads : Serving(u)' <=> Serving(u)
      BY <1>1, <2>2 DEF Serving, Text
    <3> QED BY <1>1, <2>2, <3>1, CustodyFrame DEF Core
  <2> QED BY <2>1, <2>2
<1>6. SelectSet'
  <2>1. Select => i # 0
    BY <1>2, OpenFacts, Constants DEF Core, Types, SelectSet
  <2>2. (mpc' = "scan" => Select) /\ (mpc' = "serve" => mpc = "serve")
    BY <1>1 DEF Core, Modes
  <2> QED BY <2>1, <2>2, SelectFrame DEF Core
<1> QED BY <1>3, <1>4, <1>5, <1>6 DEF Core

LEMMA ReplyCore ==
    ASSUME Core, NEW t \in Threads, Reply(t)
    PROVE  Core'
<1> DEFINE c == conn[fd[t]]
<1>0. Text /\ tpc[t] = "reply" /\ (fd[t] \in Open => c \in Clients /\ cpc[c] # "start")
  BY OpenFacts DEF Core, Modes, Reply, Conns, Connected
<1>1. UNCHANGED <<program, listening, cfd, term, selects, coda, fd, on, req, left,
                  raced, room, backlog, conn, toServer, clients>>
  BY DEF Reply
<1>2. CASE fd[t] \notin Open \/ Closed(c)
  <2>1. UNCHANGED <<tpc, mpc, toClient>> /\ server' = "failed"
    BY <1>2 DEF Reply, Fail
  <2>2. Types'
    BY <1>1, <2>1 DEF Core, Types
  <2>3. Modes'
    BY <1>1, <2>1 DEF Core, Modes, Select, OneByOne, PerClient, Text, Frames, Direct
  <2>4. Conns'
    BY <1>1, <2>1, ConnsFrame DEF Core
  <2>5. Custody'
    <3>1. \A u \in Threads : Serving(u)' <=> Serving(u)
      BY <1>1, <2>1 DEF Serving, Text
    <3> QED BY <1>1, <2>1, <3>1, CustodyFrame DEF Core
  <2>6. SelectSet'
    BY <1>1, <2>1, SelectFrame DEF Core
  <2> QED BY <2>2, <2>3, <2>4, <2>5, <2>6 DEF Core
<1>3. CASE ~(fd[t] \notin Open \/ Closed(c))
  <2>1. /\ toClient' = [toClient EXCEPT ![c] = Append(@, req[t])]
        /\ tpc' = [tpc EXCEPT ![t] = IF Select THEN "done" ELSE "read"]
        /\ mpc' = (IF Select THEN "scan" ELSE mpc) /\ server' = server
    BY <1>0, <1>3 DEF Reply, Continue, Now
  <2>2. c \in Clients /\ cpc[c] # "start"
    BY <1>0, <1>3
  <2> HIDE DEF c
  <2>3. Types'
    <3>1. toClient \in [Clients -> Seq(Answers)] /\ req[t] \in Answers
      BY DEF Core, Types, Answers
    <3>2. toClient' \in [Clients -> Seq(Answers)]
      BY <2>1, <2>2, <3>1, AppendIn
    <3> QED BY <1>1, <2>1, <3>2 DEF Core, Types, Answers
  <2>4. \A d \in Clients : cpc[d] = "start" => toServer'[d] = toServer[d] /\ toClient'[d] = toClient[d]
    BY <1>1, <2>1, <2>2 DEF Core, Types
  <2>5. Serving(t) /\ Continue(t)
    BY <1>0, <2>1 DEF Serving, Continue, Now
  <2> QED BY <1>0, <1>1, <2>1, <2>3, <2>4, <2>5, ContinueCore
<1> QED BY <1>2, <1>3

-----------------------------------------------------------------------------
\* A connection is closed.
LEMMA ForgetFacts ==
    ASSUME Core, Select, NEW t \in Threads, tpc[t] \notin {"none", "done"},
           conn' = [conn EXCEPT ![fd[t]] = NoClient], Forget(fd[t]),
           UNCHANGED <<program, rdset, i, backlog>>
    PROVE  t = 1 /\ mpc = "serve" /\ mpc' = "scan" /\ set' \subseteq Fds /\ fdmax' \in Fds /\ SelectSet'
<1> DEFINE f == fd[t]
<1>1. t = 1 /\ mpc = "serve"
  BY Constants, ModeFacts DEF Core, Modes
<1>2. /\ f \in Open /\ f < i /\ set = Open \cup {sfd} /\ sfd \notin Open
      /\ \A g \in set : g <= fdmax
      /\ f \in Fds /\ set \subseteq Fds /\ fdmax \in Fds
  BY <1>1, OpenFacts DEF Core, SelectSet, Types
<1>3. /\ set' = set \ {f} /\ mpc' = "scan"
      /\ fdmax' = IF f = fdmax THEN updatemax(set', fdmax) ELSE fdmax
  BY DEF Forget
<1>4. Open' = Open \ {f}
  BY <1>2 DEF Open, Core, Types
<1>5. set' = Open' \cup {sfd} /\ sfd \notin Open'
  BY <1>2, <1>3, <1>4
<1> HIDE DEF f
<1>6. fdmax' \in Fds /\ \A g \in set' : g <= fdmax'
  <2>1. CASE f = fdmax
    <3> DEFINE S == {g \in set' : g < fdmax}
    <3>0. sfd < fdmax /\ sfd \in set' /\ set' \subseteq Fds
      <4>1. f # sfd /\ f \in Nat /\ sfd = 0 /\ f = fdmax
        BY <1>2, <2>1, Constants
      <4>2. sfd < fdmax
        BY <4>1
      <4> QED BY <1>2, <1>3, <1>5, <4>2
    <3>1. S \in SUBSET Fds /\ sfd \in S
      BY <3>0
    <3>2. fdmax' = Max(S)
      BY <1>3, <2>1 DEF updatemax
    <3>3. \A g \in set' : g \in S
      BY <1>2, <1>3, <2>1, Constants
    <3> HIDE DEF S
    <3>4. Max(S) \in S /\ \A y \in S : Max(S) >= y
      BY <3>1, MaxFact
    <3>5. \A g \in S : g \in Nat
      BY <3>1, Constants
    <3> QED BY <3>1, <3>2, <3>3, <3>4, <3>5
  <2>2. CASE f # fdmax
    BY <1>2, <1>3, <2>2
  <2> QED BY <2>1, <2>2
<1>7. i # 0
  BY <1>2, Constants DEF Core, Types
<1>8. \A g \in rdset' : g >= i' => g \in set'
  <2>1. \A g \in rdset : g >= i => g \in set
    BY DEF Core, SelectSet
  <2>2. f \in Nat /\ i \in Nat
    BY <1>2, Constants DEF Core, Types
  <2> QED BY <1>2, <1>3, <2>1, <2>2
<1>9. SelectSet'
  BY <1>3, <1>5, <1>6, <1>7, <1>8 DEF SelectSet
<1> QED BY <1>1, <1>2, <1>3, <1>6, <1>9

LEMMA CloseFacts ==
    ASSUME Core, ~Select, NEW t \in Threads, Serving(t), ~Serving(t)',
           \A u \in Threads : u # t => (Serving(u)' <=> Serving(u)),
           conn' = [conn EXCEPT ![fd[t]] = NoClient],
           UNCHANGED <<program, raced, coda, fd>>,
           \A f : WithMain(f)' <=> WithMain(f), mpc' \in {"welcome", "hand"} => mpc \in {"welcome", "hand"},
           mpc \in {"welcome", "hand"} => cfd' = cfd
    PROVE  Custody'
<1> SUFFICES ASSUME ~raced PROVE Custody'
  BY DEF Custody
<1>1. fd[t] \in Open /\ Select' = Select /\ \A u \in Threads : Serving(u) /\ fd[u] = fd[t] => u = t
  BY Served DEF Select
<1>2. Open' = Open \ {fd[t]}
  BY <1>1 DEF Open, Core, Types
<1>3. /\ \A u \in Threads : Serving(u) => fd[u] \in Open /\ ~Has(coda, fd[u]) /\ ~WithMain(fd[u])
      /\ \A u, v \in Threads : Serving(u) /\ Serving(v) /\ fd[u] = fd[v] => u = v
      /\ Once(coda, -1)
      /\ \A f \in Fds : Has(coda, f) => f \in Open /\ ~WithMain(f)
      /\ mpc \in {"welcome", "hand"} => cfd \in Open
      /\ \A f \in Open : Has(coda, f) \/ WithMain(f) \/ \E u \in Threads : Serving(u) /\ fd[u] = f
  BY DEF Core, Custody
<1>4. \A u \in Threads : Serving(u)' => fd[u] \in Open' /\ ~Has(coda, fd[u]) /\ ~WithMain(fd[u])
  BY <1>1, <1>2, <1>3
<1>5. \A u, v \in Threads : Serving(u)' /\ Serving(v)' /\ fd[u] = fd[v] => u = v
  BY <1>3
<1>6. \A f \in Fds : Has(coda, f) => f \in Open' /\ ~WithMain(f)
  BY <1>2, <1>3
<1>7. mpc' \in {"welcome", "hand"} => cfd' \in Open'
  <2>1. mpc \in {"welcome", "hand"} => cfd # fd[t]
    BY <1>3 DEF WithMain
  <2> QED BY <1>2, <1>3, <2>1
<1>8. \A f \in Open' : Has(coda, f) \/ WithMain(f) \/ \E u \in Threads : Serving(u)' /\ fd[u] = f
  BY <1>1, <1>2, <1>3
<1> QED BY <1>3, <1>4, <1>5, <1>6, <1>7, <1>8 DEF Custody

LEMMA CloseQuitCore ==
    ASSUME Core, NEW t \in Threads, CloseQuit(t)
    PROVE  Core'
<1>0. Text /\ tpc[t] = "quit" /\ ~OneByOne
  BY Classes DEF Core, Modes, CloseQuit
<1>1. /\ conn' = [conn EXCEPT ![fd[t]] = NoClient]
      /\ tpc' = [tpc EXCEPT ![t] = IF PerClient THEN "close" ELSE IF program = "es1" THEN "take" ELSE "done"]
      /\ Forget(fd[t])
      /\ UNCHANGED <<program, server, listening, cfd, term, rdset, i, coda, fd, on,
                     req, left, raced, room, backlog, toServer, toClient, clients>>
  BY DEF CloseQuit, Now
<1>2. IF Select THEN t = 1 /\ mpc = "serve" /\ mpc' = "scan" /\ set' \subseteq Fds /\ fdmax' \in Fds /\ SelectSet'
                ELSE UNCHANGED <<set, fdmax, mpc>>
  <2>1. CASE Select
    BY <1>0, <1>1, <2>1, ForgetFacts
  <2>2. CASE ~Select
    BY <1>1, <2>2 DEF Forget
  <2> QED BY <2>1, <2>2
<1>3. conn' \in [Fds -> Clients \cup {NoClient}] /\ \A f \in Fds : conn'[f] \in {conn[f], NoClient}
  BY <1>1 DEF Core, Types
<1>4. Types'
  BY <1>1, <1>2, <1>3 DEF Core, Types
<1>5. Modes'
  <2>1. \A u \in Threads : u # t => tpc'[u] = tpc[u]
    BY <1>1 DEF Core, Types
  <2>2. tpc'[t] = IF PerClient THEN "close" ELSE IF program = "es1" THEN "take" ELSE "done"
    BY <1>1 DEF Core, Types
  <2> QED BY <1>0, <1>1, <1>2, <2>1, <2>2, Classes, Constants
          DEF Core, Modes, Select, OneByOne, PerClient, Text, Frames, Direct
<1>6. Conns'
  BY <1>1, <1>3, ConnsFrame DEF Core
<1>7. Custody'
  <2>1. CASE Select
    BY <1>1, <2>1 DEF Custody, Select
  <2>2. CASE ~Select
    <3>1. Serving(t) /\ ~Serving(t)' /\ \A u \in Threads : u # t => (Serving(u)' <=> Serving(u))
      BY <1>0, <1>1 DEF Core, Types, Serving, Text
    <3>2. \A f : WithMain(f)' <=> WithMain(f)
      BY <1>1, <1>2, <2>2 DEF WithMain
    <3> QED BY <1>1, <1>2, <2>2, <3>1, <3>2, CloseFacts
  <2> QED BY <2>1, <2>2
<1>8. SelectSet'
  BY <1>1, <1>2 DEF SelectSet, Select
<1> QED BY <1>4, <1>5, <1>6, <1>7, <1>8 DEF Core

LEMMA CloseAgainCore ==
    ASSUME Core, NEW t \in Threads, CloseAgain(t), PerClient
    PROVE  Core'
<1>0. Text /\ ~Select /\ ~OneByOne /\ tpc[t] = "close"
  BY Classes DEF CloseAgain
<1>1. Types'
  BY DEF Core, Types, CloseAgain, Now
<1>2. Modes'
  BY <1>0 DEF Core, Types, Modes, CloseAgain, Now, Select, OneByOne, PerClient, Text, Frames, Direct
<1>3. Conns'
  <2>1. \A f \in Fds : conn'[f] \in {conn[f], NoClient}
    BY DEF Core, Types, CloseAgain
  <2> QED BY <2>1, ConnsFrame DEF Core, CloseAgain
<1>4. Custody'
  <2> SUFFICES ASSUME ~raced' PROVE Custody'
    BY DEF Custody
  <2>1. conn' = conn /\ ~raced
    <3>1. ~raced /\ fd[t] \notin Open /\ conn' = [conn EXCEPT ![fd[t]] = NoClient]
      BY DEF CloseAgain
    <3> QED BY <3>1, OpenFacts DEF Core, Types
  <2>2. \A u \in Threads : Serving(u)' <=> Serving(u)
    BY <1>0 DEF Core, Types, CloseAgain, Now, Serving, Text
  <2> QED BY <2>1, <2>2, CustodyFrame DEF Core, CloseAgain
<1>5. SelectSet'
  BY <1>0 DEF CloseAgain, SelectSet, Select
<1> QED BY <1>1, <1>2, <1>3, <1>4, <1>5 DEF Core
-----------------------------------------------------------------------------
\* The threads, with frames, and bc.
LEMMA MinPair ==
    ASSUME NEW a \in Nat, NEW b \in Nat
    PROVE  Min({a, b}) \in Nat /\ Min({a, b}) <= a /\ Min({a, b}) <= b
<1>1. \E x \in {a, b} : \A y \in {a, b} : x <= y
  OBVIOUS
<1>2. Min({a, b}) \in {a, b} /\ \A y \in {a, b} : Min({a, b}) <= y
  BY <1>1, Zenon DEF Min
<1> QED BY <1>2

LEMMA DropFacts ==
    ASSUME NEW T, NEW s \in Seq(T), NEW n \in Nat, n <= Len(s)
    PROVE  /\ Drop(n, s) \in Seq(T) /\ Len(Drop(n, s)) = Len(s) - n
           /\ \A k \in 1 .. Len(s) - n : Drop(n, s)[k] = s[n + k]
<1>1. /\ n + 1 \in Int /\ Len(s) \in Int /\ \A k \in n + 1 .. Len(s) : s[k] \in T
      /\ Len(s) - (n + 1) + 1 = Len(s) - n
  OBVIOUS
<1> DEFINE q == SubSeq(s, n + 1, Len(s))
<1>2. /\ q \in Seq(T) /\ Len(q) = IF n + 1 <= Len(s) THEN Len(s) - (n + 1) + 1 ELSE 0
      /\ \A k \in 1 .. Len(s) - (n + 1) + 1 : q[k] = s[n + 1 + k - 1]
  BY <1>1, SubSeqProperties
<1> HIDE DEF q
<1>3. Len(q) = Len(s) - n
  <2>1. Len(s) \in Nat
    OBVIOUS
  <2>2. CASE n + 1 <= Len(s)
    BY <1>1, <1>2, <2>1, <2>2
  <2>3. CASE ~(n + 1 <= Len(s))
    BY <1>2, <2>1, <2>3
  <2> QED BY <2>2, <2>3
<1>4. \A k \in 1 .. Len(s) - n : n + 1 + k - 1 = n + k
  OBVIOUS
<1>5. q = Drop(n, s)
  BY DEF q, Drop
<1> QED BY <1>1, <1>2, <1>3, <1>4, <1>5

\* A stream to which some units x are appended.
LEMMA UnitsAppended ==
    ASSUME NEW T, NEW s \in Seq(T), NEW n \in Nat, NEW x \in T
    PROVE  LET q == s \o [k \in 1 .. n |-> x]
           IN  /\ q \in Seq(T) /\ Len(q) = Len(s) + n
               /\ \A k \in 1 .. Len(s) : q[k] = s[k]
               /\ \A k \in Len(s) + 1 .. Len(s) + n : q[k] = x
<1> DEFINE r == [k \in 1 .. n |-> x]
<1>1. r \in Seq(T) /\ Len(r) = n /\ \A k \in 1 .. n : r[k] = x
  OBVIOUS
<1> HIDE DEF r
<1>2. /\ s \o r \in Seq(T) /\ Len(s \o r) = Len(s) + n /\ Len(s) \in Nat
      /\ \A k \in 1 .. Len(s) : (s \o r)[k] = s[k]
      /\ \A k \in Len(s) + 1 .. Len(s) + n : (s \o r)[k] = r[k - Len(s)]
  BY <1>1
<1>3. \A k \in Len(s) + 1 .. Len(s) + n : k - Len(s) \in 1 .. n
  BY <1>2
<1>4. \A k \in Len(s) + 1 .. Len(s) + n : (s \o r)[k] = x
  BY <1>1, <1>2, <1>3
<1> QED BY <1>2, <1>4 DEF r

(* What a step of a thread in a frame does: the three outcomes of a read.  *)
LEMMA ReadnCases ==
    ASSUME Core, NEW t \in Threads, Readn(t)
    PROVE  LET c == conn[fd[t]]
               next == IF tpc[t] = "len" THEN "body"
                       ELSE IF program = "bcserver" THEN "pipe" ELSE "wlen"
           IN  /\ Frames /\ tpc[t] \in {"len", "body"} /\ c \in Clients /\ fd[t] \in Open
               /\ UNCHANGED <<program, main, selects, coda, fd, on, req, raced, room, backlog,
                              conn, toClient, clients>>
               /\ \/ \E n \in 1 .. left[t] :
                        /\ n <= Len(toServer[c])
                        /\ toServer' = [toServer EXCEPT ![c] = Drop(n, @)]
                        /\ Passed(t, n, next)
                        /\ server' = server
                  \/ /\ Eof(c) /\ server' = server /\ toServer' = toServer
                     /\ tpc' = [tpc EXCEPT ![t] = IF IgnoresEof(t) THEN next ELSE "close"]
                     /\ left' = [left EXCEPT ![t] = Units]
                  \/ /\ Reset(c) /\ ~Select /\ server' = "failed"
                     /\ UNCHANGED <<tpc, left, toServer>>
<1> DEFINE c == conn[fd[t]]
<1>1. Frames /\ tpc[t] \in {"len", "body"} /\ ~raced
  BY Classes DEF Core, Modes, Readn
<1>2. Serving(t)
  BY <1>1 DEF Serving
<1>3. fd[t] \in Open /\ c \in Clients
  BY <1>1, <1>2, Served
<1>4. \A n \in 1 .. Min({left[t], Len(toServer[c])}) : n \in 1 .. left[t] /\ n <= Len(toServer[c])
  <2>1. left[t] \in Nat /\ Len(toServer[c]) \in Nat
    BY <1>3, Constants DEF Core, Types
  <2> HIDE DEF c
  <2> QED BY <2>1, MinPair
<1> QED BY <1>1, <1>3, <1>4 DEF Readn, Now, Fail

\* What keeps Core if only thread t moves, among the places where it serves.
LEMMA ServesOn ==
    ASSUME Core, NEW t \in Threads, ~Text, Serving(t),
           \A u \in Threads : u # t => tpc'[u] = tpc[u],
           \/ tpc'[t] \in {"len", "body", "wlen", "wbody", "close"} /\ Frames
           \/ tpc'[t] \in {"pipe", "calc", "silent"} /\ program = "bcserver" /\ Frames
           \/ tpc'[t] \in {"bc", "close"} /\ Direct,
           Types',
           UNCHANGED <<program, main, selects, coda, fd, on, raced, backlog, conn, clients>>,
           \A c \in Clients : cpc[c] = "start" => toServer'[c] = toServer[c] /\ toClient'[c] = toClient[c],
           server' = "up" => server = "up"
    PROVE  Core'
<1>0. tpc[t] \notin {"none", "done"}
  BY DEF Serving
<1>1. Modes'
  BY <1>0, Constants DEF Core, Modes, Select, OneByOne, PerClient, Text, Frames, Direct
<1>2. Conns'
  BY ConnsFrame DEF Core
<1>3. Custody'
  <2>1. \A u \in Threads : Serving(u)' <=> Serving(u)
    BY DEF Serving, Text
  <2> QED BY <2>1, CustodyFrame DEF Core
<1>4. SelectSet'
  BY SelectFrame DEF Core
<1> QED BY <1>1, <1>2, <1>3, <1>4 DEF Core

LEMMA ReadnCore ==
    ASSUME Core, NEW t \in Threads, Readn(t)
    PROVE  Core'
<1> DEFINE c == conn[fd[t]]
           next == IF tpc[t] = "len" THEN "body"
                   ELSE IF program = "bcserver" THEN "pipe" ELSE "wlen"
<1>1. /\ Frames /\ ~Text /\ tpc[t] \in {"len", "body"} /\ c \in Clients /\ fd[t] \in Open
      /\ UNCHANGED <<program, main, selects, coda, fd, on, req, raced, room, backlog,
                     conn, toClient, clients>>
  BY ReadnCases, Classes DEF Core, Types
<1>2. cpc[c] # "start"
  BY <1>1 DEF Core, Conns, Connected
<1> DEFINE Kept == /\ tpc' \in [Threads -> {"none", "start", "take", "read", "blocked", "reply", "quit",
                                         "close", "len", "body", "pipe", "calc", "silent", "wlen", "wbody", "bc", "done"}]
                   /\ left' \in [Threads -> 0 .. Units]
                   /\ \A u \in Threads : u # t => tpc'[u] = tpc[u]
                   /\ \/ tpc'[t] \in {"len", "body", "wlen", "close"}
                      \/ tpc'[t] = "pipe" /\ program = "bcserver"
                   /\ toServer' \in [Clients -> Seq(Requests)]
                   /\ \A d \in Clients : d # c => toServer'[d] = toServer[d]
                   /\ server' \in {server, "failed"}
<1>3. /\ tpc \in [Threads -> {"none", "start", "take", "read", "blocked", "reply", "quit",
                              "close", "len", "body", "pipe", "calc", "silent", "wlen", "wbody", "bc", "done"}]
      /\ left \in [Threads -> 0 .. Units] /\ left[t] \in 0 .. Units
      /\ toServer \in [Clients -> Seq(Requests)] /\ Units \in Nat /\ Units \in 0 .. Units
      /\ next \in {"body", "wlen", "pipe"} /\ (next = "pipe" => program = "bcserver")
  BY Constants DEF Core, Types, Requests
<1> HIDE DEF next, c
<1>4. ASSUME NEW n \in 1 .. left[t], n <= Len(toServer[c]),
             toServer' = [toServer EXCEPT ![c] = Drop(n, @)], Passed(t, n, next), server' = server
      PROVE  Kept
  <2>1. toServer[c] \in Seq(Requests) /\ n \in Nat
    BY <1>1, <1>3
  <2>2. Drop(n, toServer[c]) \in Seq(Requests)
    BY <1>4, <2>1, DropFacts
  <2>3. toServer' \in [Clients -> Seq(Requests)] /\ \A d \in Clients : d # c => toServer'[d] = toServer[d]
    BY <1>1, <1>3, <1>4, <2>2
  <2>4. left' \in [Threads -> 0 .. Units]
    <3>1. left[t] - n \in 0 .. Units
      BY <1>3
    <3>2. left' = [left EXCEPT ![t] = Units] \/ left' = [left EXCEPT ![t] = left[t] - n]
      BY <1>4 DEF Passed
    <3> QED BY <1>3, <3>1, <3>2
  <2>5. tpc' = [tpc EXCEPT ![t] = next] \/ tpc' = tpc
    BY <1>4 DEF Passed, Now
  <2> QED BY <1>1, <1>3, <1>4, <2>3, <2>4, <2>5
<1>5. ASSUME server' = server, toServer' = toServer,
             tpc' = [tpc EXCEPT ![t] = IF IgnoresEof(t) THEN next ELSE "close"],
             left' = [left EXCEPT ![t] = Units]
      PROVE  Kept
  BY <1>1, <1>3, <1>5
<1>6. ASSUME server' = "failed", UNCHANGED <<tpc, left, toServer>>
      PROVE  Kept
  BY <1>1, <1>3, <1>6
<1>7. Kept
  <2> HIDE DEF Kept
  <2> QED BY <1>4, <1>5, <1>6, ReadnCases DEF c, next
<1>8. Types'
  BY <1>1, <1>7 DEF Core, Types, Requests
<1>9. Serving(t)
  BY <1>1 DEF Serving
<1>10. \A d \in Clients : cpc[d] = "start" => toServer'[d] = toServer[d] /\ toClient'[d] = toClient[d]
  BY <1>1, <1>2, <1>7
<1>11. server' = "up" => server = "up"
  BY <1>7
<1>12. \A u \in Threads : u # t => tpc'[u] = tpc[u]
  BY <1>7
<1>13. /\ \/ tpc'[t] \in {"len", "body", "wlen", "wbody", "close"}
          \/ tpc'[t] \in {"pipe", "calc", "silent"} /\ program = "bcserver"
       /\ Frames
  BY <1>1, <1>7
<1> HIDE DEF Kept
<1> QED BY <1>1, <1>8, <1>9, <1>10, <1>11, <1>12, <1>13, ServesOn

LEMMA WritenCases ==
    ASSUME Core, NEW t \in Threads, Writen(t)
    PROVE  LET c == conn[fd[t]]
               unit == IF tpc[t] = "wlen" THEN "len" ELSE c
           IN  /\ Frames /\ tpc[t] \in {"wlen", "wbody"} /\ c \in Clients /\ fd[t] \in Open
               /\ UNCHANGED <<program, listening, cfd, term, selects, coda, fd, on, req,
                              raced, room, backlog, conn, toServer, clients>>
               /\ \/ Closed(c) /\ server' = "failed" /\ UNCHANGED <<tpc, left, mpc, toClient>>
                  \/ /\ ~Closed(c) /\ server' = server
                     /\ \E n \in 1 .. left[t] :
                           /\ toClient' = [toClient EXCEPT ![c] = @ \o [k \in 1 .. n |-> unit]]
                           /\ \/ /\ n = left[t] /\ tpc[t] = "wbody" /\ Continue(t)
                                 /\ left' = [left EXCEPT ![t] = Units]
                              \/ /\ n = left[t] /\ tpc[t] = "wlen"
                                 /\ tpc' = [tpc EXCEPT ![t] = "wbody"] /\ mpc' = mpc
                                 /\ left' = [left EXCEPT ![t] = Units]
                              \/ /\ n # left[t] /\ left' = [left EXCEPT ![t] = @ - n]
                                 /\ UNCHANGED <<tpc, mpc>>
<1> DEFINE c == conn[fd[t]]
<1>1. Frames /\ tpc[t] \in {"wlen", "wbody"} /\ ~raced
  BY Classes DEF Core, Modes, Writen
<1>2. Serving(t)
  BY <1>1 DEF Serving
<1>3. fd[t] \in Open /\ c \in Clients
  BY <1>1, <1>2, Served
<1> QED BY <1>1, <1>3 DEF Writen, Now, Passed, Fail

LEMMA WritenCore ==
    ASSUME Core, NEW t \in Threads, Writen(t)
    PROVE  Core'
<1> DEFINE c == conn[fd[t]]
           unit == IF tpc[t] = "wlen" THEN "len" ELSE c
<1>1. /\ Frames /\ ~Text /\ tpc[t] \in {"wlen", "wbody"} /\ c \in Clients /\ fd[t] \in Open
      /\ UNCHANGED <<program, listening, cfd, term, selects, coda, fd, on, req,
                     raced, room, backlog, conn, toServer, clients>>
  BY WritenCases, Classes DEF Core, Types
<1>2. cpc[c] # "start" /\ Serving(t)
  BY <1>1 DEF Core, Conns, Connected, Serving
<1>3. /\ tpc \in [Threads -> {"none", "start", "take", "read", "blocked", "reply", "quit",
                              "close", "len", "body", "pipe", "calc", "silent", "wlen", "wbody", "bc", "done"}]
      /\ left \in [Threads -> 0 .. Units] /\ left[t] \in 0 .. Units
      /\ toClient \in [Clients -> Seq(Answers)] /\ Units \in Nat /\ Units \in 0 .. Units
      /\ unit \in Answers
  BY <1>1, Constants DEF Core, Types, Answers
<1>4. CASE Closed(c) /\ server' = "failed" /\ UNCHANGED <<tpc, left, mpc, toClient>>
  <2>1. Types'
    BY <1>1, <1>4 DEF Core, Types
  <2> QED BY <1>1, <1>2, <1>4, <2>1, ServesOn
<1> HIDE DEF unit, c
<1>5. ASSUME NEW n \in 1 .. left[t], server' = server,
             toClient' = [toClient EXCEPT ![c] = @ \o [k \in 1 .. n |-> unit]],
             \/ /\ n = left[t] /\ tpc[t] = "wbody" /\ Continue(t)
                /\ left' = [left EXCEPT ![t] = Units]
             \/ /\ n = left[t] /\ tpc[t] = "wlen"
                /\ tpc' = [tpc EXCEPT ![t] = "wbody"] /\ mpc' = mpc
                /\ left' = [left EXCEPT ![t] = Units]
             \/ /\ n # left[t] /\ left' = [left EXCEPT ![t] = @ - n]
                /\ UNCHANGED <<tpc, mpc>>
      PROVE  Core'
  <2>1. toClient' \in [Clients -> Seq(Answers)] /\ \A d \in Clients : d # c => toClient'[d] = toClient[d]
    <3>1. toClient[c] \in Seq(Answers) /\ n \in Nat
      BY <1>1, <1>3
    <3>2. toClient[c] \o [k \in 1 .. n |-> unit] \in Seq(Answers)
      BY <1>3, <3>1, UnitsAppended
    <3> QED BY <1>1, <1>3, <1>5, <3>2
  <2>2. left' \in [Threads -> 0 .. Units]
    <3>1. left[t] - n \in 0 .. Units
      BY <1>3
    <3> QED BY <1>3, <1>5, <3>1
  <2>3. /\ tpc' \in [Threads -> {"none", "start", "take", "read", "blocked", "reply", "quit",
                               "close", "len", "body", "pipe", "calc", "silent", "wlen", "wbody", "bc", "done"}]
        /\ mpc' \in {mpc, "scan"}
    BY <1>1, <1>3, <1>5 DEF Continue, Now
  <2>4. Types'
    BY <1>1, <1>5, <2>1, <2>2, <2>3 DEF Core, Types, Answers
  <2>5. \A d \in Clients : cpc[d] = "start" => toServer'[d] = toServer[d] /\ toClient'[d] = toClient[d]
    BY <1>1, <1>2, <2>1
  <2>6. CASE Continue(t)
    BY <1>1, <1>2, <1>5, <2>4, <2>5, <2>6, ContinueCore
  <2>7. CASE ~Continue(t)
    <3>1. /\ \A u \in Threads : u # t => tpc'[u] = tpc[u]
          /\ tpc'[t] \in {"wlen", "wbody"} /\ mpc' = mpc
      BY <1>1, <1>3, <1>5, <2>7
    <3> QED BY <1>1, <1>2, <1>5, <2>4, <2>5, <3>1, ServesOn
  <2> QED BY <2>6, <2>7
<1> QED BY <1>4, <1>5, WritenCases DEF c, unit

\* The two pipes of bcserver.c, and what comes out of them.
LEMMA cmdCases ==
    ASSUME Core, NEW t \in Threads, CallPipe(t) \/ Calculate(t)
    PROVE  /\ program = "bcserver" /\ Frames /\ ~Text /\ Serving(t)
           /\ UNCHANGED <<program, main, selects, coda, fd, on, req, left, raced, net, clients>>
           /\ room' \in Nat /\ server' \in {server, "failed"}
           /\ \A u \in Threads : u # t => tpc'[u] = tpc[u]
           /\ tpc' \in [Threads -> {"none", "start", "take", "read", "blocked", "reply", "quit",
                                    "close", "len", "body", "pipe", "calc", "silent", "wlen",
                                    "wbody", "bc", "done"}]
           /\ tpc[t] \in {"pipe", "calc"} /\ tpc'[t] \in {"pipe", "calc", "silent", "wlen"}
<1>1. program = "bcserver" /\ Frames /\ ~Text /\ Serving(t) /\ tpc[t] \in {"pipe", "calc"}
  BY Classes DEF CallPipe, Calculate, Serving, Core, Modes
<1>2. /\ UNCHANGED <<program, main, selects, coda, fd, on, req, left, raced, net, clients>>
      /\ server' \in {server, "failed"}
  BY DEF CallPipe, Calculate, Fail
<1>3. room' \in Nat
  BY DEF CallPipe, Calculate, Core, Types
<1>4. \E p \in {"pipe", "calc", "silent", "wlen"} : tpc' = [tpc EXCEPT ![t] = p] \/ (tpc' = tpc /\ tpc[t] = p)
  BY DEF CallPipe, Calculate, Now
<1>5. tpc \in [Threads -> {"none", "start", "take", "read", "blocked", "reply", "quit",
                           "close", "len", "body", "pipe", "calc", "silent", "wlen",
                           "wbody", "bc", "done"}]
  BY DEF Core, Types
<1> QED BY <1>1, <1>2, <1>3, <1>4, <1>5

LEMMA cmdCore ==
    ASSUME Core, NEW t \in Threads, CallPipe(t) \/ Calculate(t)
    PROVE  Core'
<1>1. Types'
  BY cmdCases DEF Core, Types
<1> QED BY <1>1, cmdCases, ServesOn DEF Core, Types

LEMMA CloseClientCore ==
    ASSUME Core, NEW t \in Threads, CloseClient(t), ~Text
    PROVE  Core'
<1>0. tpc[t] = "close" /\ ~PerClient /\ ~raced /\ program # "es1"
  BY Classes DEF CloseClient, Core, Modes
<1>1. /\ conn' = [conn EXCEPT ![fd[t]] = NoClient]
      /\ tpc' = [tpc EXCEPT ![t] = IF OneByOne THEN "none" ELSE "done"]
      /\ IF OneByOne THEN mpc' = "loop" /\ UNCHANGED <<set, fdmax>> ELSE Forget(fd[t])
      /\ UNCHANGED <<program, server, listening, cfd, term, rdset, i, coda, fd, on,
                     req, left, raced, room, backlog, toServer, toClient, clients>>
  BY DEF CloseClient, Now
<1>2. IF Select THEN t = 1 /\ mpc = "serve" /\ mpc' = "scan" /\ set' \subseteq Fds /\ fdmax' \in Fds /\ SelectSet'
      ELSE IF OneByOne THEN t = 1 /\ mpc = "serve" /\ mpc' = "loop" /\ UNCHANGED <<set, fdmax>>
      ELSE UNCHANGED <<set, fdmax, mpc>>
  <2>1. CASE Select
    BY <1>0, <1>1, <2>1, Classes, ForgetFacts
  <2>2. CASE OneByOne
    <3>1. t = 1 /\ mpc = "serve" /\ ~Select
      BY <1>0, <2>2, Classes, Constants, ModeFacts DEF Core, Modes
    <3> QED BY <1>1, <2>2, <3>1
  <2>3. CASE ~Select /\ ~OneByOne
    BY <1>1, <2>3 DEF Forget
  <2> QED BY <2>1, <2>2, <2>3
<1>3. conn' \in [Fds -> Clients \cup {NoClient}] /\ \A f \in Fds : conn'[f] \in {conn[f], NoClient}
  BY <1>1 DEF Core, Types
<1>4. Types'
  BY <1>1, <1>2, <1>3 DEF Core, Types
<1>5. Modes'
  <2>1. \A u \in Threads : u # t => tpc'[u] = tpc[u]
    BY <1>1 DEF Core, Types
  <2>2. tpc'[t] = IF OneByOne THEN "none" ELSE "done"
    BY <1>1 DEF Core, Types
  <2> QED BY <1>0, <1>1, <1>2, <2>1, <2>2, Classes, Constants
          DEF Core, Modes, Select, OneByOne, PerClient, Text, Frames, Direct
<1>6. Conns'
  BY <1>1, <1>3, ConnsFrame DEF Core
<1>7. Custody'
  <2>1. CASE Select
    BY <1>1, <2>1 DEF Custody, Select
  <2>2. CASE ~Select
    <3>1. Serving(t) /\ ~Serving(t)' /\ \A u \in Threads : u # t => (Serving(u)' <=> Serving(u))
      BY <1>0, <1>1 DEF Core, Types, Serving, Text
    <3>2. \A f : WithMain(f)' <=> WithMain(f)
      BY <1>1, <1>2, <2>2 DEF WithMain
    <3> QED BY <1>1, <1>2, <2>2, <3>1, <3>2, CloseFacts
  <2> QED BY <2>1, <2>2
<1>8. SelectSet'
  BY <1>1, <1>2 DEF SelectSet, Select
<1> QED BY <1>4, <1>5, <1>6, <1>7, <1>8 DEF Core

LEMMA bcCases ==
    ASSUME Core, NEW t \in Threads, bc(t)
    PROVE  LET c == conn[fd[t]]
           IN  /\ Direct /\ tpc[t] = "bc" /\ c \in Clients /\ fd[t] \in Open
               /\ UNCHANGED <<program, server, main, selects, coda, fd, on, left, raced, room,
                              backlog, conn, clients>>
               /\ \/ tpc' = tpc
                  \/ Closed(c) /\ tpc' = [tpc EXCEPT ![t] = "close"]
               /\ \/ toServer' = toServer
                  \/ toServer[c] # <<>> /\ toServer' = [toServer EXCEPT ![c] = Tail(@)]
               /\ \/ req' = req
                  \/ req' = [req EXCEPT ![t] = NoClient]
                  \/ req' = [req EXCEPT ![t] = c]
               /\ \/ toClient' = toClient
                  \/ \E n \in 1 .. 2 : toClient' = [toClient EXCEPT ![c] = @ \o [k \in 1 .. n |-> c]]
<1> DEFINE c == conn[fd[t]]
<1>1. Direct /\ tpc[t] = "bc" /\ ~raced
  BY Classes DEF Core, Modes, bc
<1>2. Serving(t)
  BY <1>1 DEF Serving
<1>3. fd[t] \in Open /\ c \in Clients
  BY <1>1, <1>2, Served
<1> QED BY <1>1, <1>3 DEF bc, Now, Eof

LEMMA bcCore ==
    ASSUME Core, NEW t \in Threads, bc(t)
    PROVE  Core'
<1> DEFINE c == conn[fd[t]]
<1>1. /\ Direct /\ ~Text /\ tpc[t] = "bc" /\ c \in Clients /\ fd[t] \in Open
      /\ UNCHANGED <<program, server, main, selects, coda, fd, on, left, raced, room,
                     backlog, conn, clients>>
  BY bcCases, Classes DEF Core, Types
<1>2. cpc[c] # "start" /\ Serving(t)
  BY <1>1 DEF Core, Conns, Connected, Serving
<1>3. /\ \/ tpc' = tpc
         \/ Closed(c) /\ tpc' = [tpc EXCEPT ![t] = "close"]
      /\ \/ toServer' = toServer
         \/ toServer[c] # <<>> /\ toServer' = [toServer EXCEPT ![c] = Tail(@)]
      /\ \/ req' = req
         \/ req' = [req EXCEPT ![t] = NoClient]
         \/ req' = [req EXCEPT ![t] = c]
      /\ \/ toClient' = toClient
         \/ \E n \in 1 .. 2 : toClient' = [toClient EXCEPT ![c] = @ \o [k \in 1 .. n |-> c]]
  BY bcCases
<1> HIDE DEF c
<1>4. toServer' \in [Clients -> Seq(Requests)] /\ \A d \in Clients : d # c => toServer'[d] = toServer[d]
  <2>1. toServer \in [Clients -> Seq(Requests)]
    BY DEF Core, Types, Requests
  <2>2. CASE toServer[c] # <<>> /\ toServer' = [toServer EXCEPT ![c] = Tail(@)]
    BY <1>1, <2>1, <2>2, TailIn
  <2> QED BY <1>3, <2>1, <2>2
<1>5. toClient' \in [Clients -> Seq(Answers)] /\ \A d \in Clients : d # c => toClient'[d] = toClient[d]
  <2>1. toClient \in [Clients -> Seq(Answers)] /\ c \in Answers
    BY <1>1 DEF Core, Types, Answers
  <2>2. ASSUME NEW n \in 1 .. 2, toClient' = [toClient EXCEPT ![c] = @ \o [k \in 1 .. n |-> c]]
        PROVE  toClient' \in [Clients -> Seq(Answers)] /\ \A d \in Clients : d # c => toClient'[d] = toClient[d]
    <3>1. toClient[c] \in Seq(Answers) /\ n \in Nat
      BY <1>1, <2>1
    <3>2. toClient[c] \o [k \in 1 .. n |-> c] \in Seq(Answers)
      BY <2>1, <3>1, UnitsAppended
    <3> QED BY <1>1, <2>1, <2>2, <3>2
  <2> QED BY <1>3, <2>1, <2>2
<1>6. req' \in [Threads -> Clients \cup {NoClient, "quit"}]
  <2>1. req \in [Threads -> Clients \cup {NoClient, "quit"}]
    BY DEF Core, Types
  <2> QED BY <1>1, <1>3, <2>1
<1>7. /\ tpc' \in [Threads -> {"none", "start", "take", "read", "blocked", "reply", "quit",
                              "close", "len", "body", "pipe", "calc", "silent", "wlen", "wbody", "bc", "done"}]
      /\ tpc'[t] \in {"bc", "close"} /\ \A u \in Threads : u # t => tpc'[u] = tpc[u]
  BY <1>1, <1>3 DEF Core, Types
<1>8. Types'
  BY <1>1, <1>4, <1>5, <1>6, <1>7 DEF Core, Types, Requests, Answers
<1>9. \A d \in Clients : cpc[d] = "start" => toServer'[d] = toServer[d] /\ toClient'[d] = toClient[d]
  BY <1>2, <1>4, <1>5
<1> QED BY <1>1, <1>2, <1>7, <1>8, <1>9, ServesOn

-----------------------------------------------------------------------------
\* The clients.
ClientPlaces == Gone \cup {"start", "welcome", "prompt", "answer", "len", "body", "rlen", "rbody"}

LEMMA ClientCore ==
    ASSUME Core, UNCHANGED <<program, serverVars, backlog, conn>>, NEW c \in Clients,
           cpc[c] # "start", cpc' \in [Clients -> ClientPlaces], cpc'[c] # "start",
           cpc'[c] \in {"welcome", "quitted"} => Text,
           cpc'[c] = "answer" => ~Frames,
           cpc'[c] \in {"len", "body", "rlen", "rbody"} => Frames,
           cpc'[c] = "dropped" => ~Connected(c),
           \A d \in Clients : d # c =>
              cpc'[d] = cpc[d] /\ toServer'[d] = toServer[d] /\ toClient'[d] = toClient[d],
           toServer' \in [Clients -> Seq(Requests)], toClient' \in [Clients -> Seq(Answers)],
           cleft' \in [Clients -> 0 .. Units], sent' \in 0 .. MaxRequests
    PROVE  Core'
<1>1. Types'
  BY DEF Core, Types, Requests, Answers, ClientPlaces
<1>2. Modes'
  BY DEF Core, Modes, Select, OneByOne, PerClient, Text, Frames, Direct
<1>3. Conns'
  BY ConnsFrame DEF Core, Conns
<1>4. Custody'
  <2>1. \A t \in Threads : Serving(t)' <=> Serving(t)
    BY DEF Serving, Text
  <2> QED BY <2>1, CustodyFrame DEF Core
<1>5. SelectSet'
  BY SelectFrame DEF Core
<1> QED BY <1>1, <1>2, <1>3, <1>4, <1>5 DEF Core

LEMMA ClientTypes ==
    ASSUME Core
    PROVE  /\ cpc \in [Clients -> ClientPlaces]
           /\ toServer \in [Clients -> Seq(Requests)] /\ toClient \in [Clients -> Seq(Answers)]
           /\ cleft \in [Clients -> 0 .. Units] /\ sent \in 0 .. MaxRequests
           /\ Units \in Nat \ {0} /\ MaxRequests \in Nat /\ Units \in 0 .. Units
BY Constants DEF Core, Types, Requests, Answers, ClientPlaces

LEMMA ConnectCore ==
    ASSUME Core, NEW c \in Clients, Connect(c)
    PROVE  Core'
<1>1. /\ cpc[c] = "start" /\ cpc' = [cpc EXCEPT ![c] = IF Text THEN "welcome" ELSE "prompt"]
      /\ backlog' = Append(backlog, c)
      /\ UNCHANGED <<program, serverVars, conn, toServer, toClient, cleft, sent>>
  BY DEF Connect, Goto
<1>2. backlog \in Seq(Clients) /\ cpc \in [Clients -> ClientPlaces] /\ ~Connected(c) /\ c # NoClient
  BY <1>1, ClientTypes, Constants DEF Core, Types, Conns
<1>3. /\ backlog' \in Seq(Clients) /\ \A y : Has(backlog', y) <=> Has(backlog, y) \/ y = c
      /\ Once(backlog', NoClient) /\ backlog' # <<>>
  <2>1. Once(backlog, NoClient) /\ ~Has(backlog, c)
    BY <1>2 DEF Core, Conns, Connected
  <2> QED BY <1>1, <1>2, <2>1, HasAppend, OnceAppend
<1>4. cpc' \in [Clients -> ClientPlaces]
  BY <1>1, <1>2 DEF ClientPlaces
<1>5. Types'
  BY <1>1, <1>3, <1>4 DEF Core, Types, ClientPlaces
<1>6. Modes'
  BY <1>1, <1>2 DEF Core, Modes, Select, OneByOne, PerClient, Text, Frames, Direct
<1>7. Conns'
  <2>1. Open' = Open
    BY <1>1 DEF Open
  <2>2. \A d : Connected(d)' <=> Connected(d) \/ d = c
    BY <1>1, <1>3, <2>1 DEF Connected
  <2>3. /\ \A f, g \in Open : conn[f] = conn[g] => f = g
        /\ \A f \in Open : ~Has(backlog', conn[f])
    BY <1>2, <1>3 DEF Core, Conns, Connected
  <2>4. \A d \in Clients : cpc'[d] = IF d = c THEN IF Text THEN "welcome" ELSE "prompt" ELSE cpc[d]
    BY <1>1, <1>2
  <2>5. \A d \in Clients : cpc'[d] = "start" => ~Connected(d)' /\ toServer'[d] = <<>> /\ toClient'[d] = <<>>
    BY <1>1, <2>2, <2>4 DEF Core, Conns
  <2>6. \A d \in Clients : server' = "up" /\ cpc'[d] = "dropped" => ~Connected(d)'
    BY <1>1, <2>2, <2>4 DEF Core, Conns
  <2> QED BY <1>1, <1>3, <2>1, <2>3, <2>5, <2>6 DEF Conns
<1>8. Custody'
  <2>1. \A t \in Threads : Serving(t)' <=> Serving(t)
    BY <1>1 DEF Serving, Text
  <2> QED BY <1>1, <2>1, CustodyFrame DEF Core
<1>9. SelectSet'
  BY <1>1, <1>3, SelectFrame DEF Core
<1> QED BY <1>5, <1>6, <1>7, <1>8, <1>9 DEF Core

\* The steps of a client that moves no more than one unit.
LEMMA TalksCore ==
    ASSUME Core, NEW c \in Clients,
           \/ Receive(c) \/ Request(c) \/ Leave(c) \/ SendQuit(c) \/ Kill(c) \/ HangUp(c)
    PROVE  Core'
<1> USE ClientTypes
<1>1. CASE Receive(c)
  <2>1. /\ cpc[c] \in {"welcome", "answer"} /\ toClient[c] # <<>>
        /\ cpc' = [cpc EXCEPT ![c] = "prompt"]
        /\ toClient' = [toClient EXCEPT ![c] = Tail(@)]
        /\ UNCHANGED <<program, serverVars, backlog, conn, toServer, cleft, sent>>
    BY <1>1 DEF Receive, Goto
  <2>2. toClient' \in [Clients -> Seq(Answers)]
    BY <2>1, TailIn
  <2>3. cpc' \in [Clients -> ClientPlaces] /\ cpc'[c] = "prompt"
    BY <2>1 DEF ClientPlaces
  <2> QED BY <2>1, <2>2, <2>3, ClientCore
<1>2. CASE Request(c)
  <2>1. /\ cpc[c] = "prompt" /\ sent' = sent + 1 /\ sent < MaxRequests
        /\ UNCHANGED <<program, serverVars, backlog, conn, toClient>>
        /\ \/ /\ ~Frames /\ cpc' = [cpc EXCEPT ![c] = "answer"] /\ cleft' = cleft
              /\ toServer' = [toServer EXCEPT ![c] = Append(@, "text")]
           \/ /\ Frames /\ cpc' = [cpc EXCEPT ![c] = "len"] /\ toServer' = toServer
              /\ cleft' = [cleft EXCEPT ![c] = Units]
    BY <1>2 DEF Request, Goto
  <2>2. sent' \in 0 .. MaxRequests
    BY <2>1
  <2>3. CASE Frames
    <3>1. /\ cpc' = [cpc EXCEPT ![c] = "len"] /\ toServer' = toServer
          /\ cleft' = [cleft EXCEPT ![c] = Units]
      BY <2>1, <2>3
    <3>2. cpc' \in [Clients -> ClientPlaces] /\ cpc'[c] = "len" /\ cleft' \in [Clients -> 0 .. Units]
      BY <3>1 DEF ClientPlaces
    <3> QED BY <2>1, <2>2, <2>3, <3>1, <3>2, ClientCore
  <2>4. CASE ~Frames
    <3>1. /\ cpc' = [cpc EXCEPT ![c] = "answer"] /\ cleft' = cleft
          /\ toServer' = [toServer EXCEPT ![c] = Append(@, "text")]
      BY <2>1, <2>4
    <3>2. cpc' \in [Clients -> ClientPlaces] /\ cpc'[c] = "answer"
      BY <3>1 DEF ClientPlaces
    <3>3. toServer' \in [Clients -> Seq(Requests)]
      BY <3>1, AppendIn DEF Requests
    <3> QED BY <2>1, <2>2, <2>4, <3>1, <3>2, <3>3, ClientCore
  <2> QED BY <2>3, <2>4
<1>3. CASE Leave(c)
  <2>1. /\ cpc[c] = "prompt" /\ cpc' = [cpc EXCEPT ![c] = "closed"]
        /\ UNCHANGED <<program, serverVars, net, cleft, sent>>
    BY <1>3 DEF Leave, Goto
  <2>2. cpc' \in [Clients -> ClientPlaces] /\ cpc'[c] = "closed"
    BY <2>1 DEF ClientPlaces, Gone
  <2> QED BY <2>1, <2>2, ClientCore
<1>4. CASE SendQuit(c)
  <2>1. /\ Text /\ cpc[c] = "prompt" /\ cpc' = [cpc EXCEPT ![c] = "quitted"]
        /\ toServer' = [toServer EXCEPT ![c] = Append(@, "quit")]
        /\ UNCHANGED <<program, serverVars, backlog, conn, toClient, cleft, sent>>
    BY <1>4 DEF SendQuit, Goto
  <2>2. cpc' \in [Clients -> ClientPlaces] /\ cpc'[c] = "quitted"
    BY <2>1 DEF ClientPlaces, Gone
  <2>3. toServer' \in [Clients -> Seq(Requests)]
    BY <2>1, AppendIn DEF Requests
  <2> QED BY <2>1, <2>2, <2>3, ClientCore
<1>5. CASE Kill(c)
  <2>1. /\ cpc[c] # "start"
        /\ cpc' = [cpc EXCEPT ![c] = IF cpc[c] \in {"answer", "rlen", "rbody"} THEN "deserted" ELSE "killed"]
        /\ UNCHANGED <<program, serverVars, net, cleft, sent>>
    BY <1>5 DEF Kill, Goto
  <2>2. cpc' \in [Clients -> ClientPlaces] /\ cpc'[c] \in {"deserted", "killed"}
    BY <2>1 DEF ClientPlaces, Gone
  <2> QED BY <2>1, <2>2, ClientCore
<1>6. CASE HangUp(c)
  <2>1. /\ cpc[c] # "start" /\ ~Held(c) /\ cpc' = [cpc EXCEPT ![c] = "dropped"]
        /\ UNCHANGED <<program, serverVars, net, cleft, sent>>
    BY <1>6 DEF HangUp, Goto
  <2>2. cpc' \in [Clients -> ClientPlaces] /\ cpc'[c] = "dropped"
    BY <2>1 DEF ClientPlaces, Gone
  <2>3. ~Connected(c)
    BY <2>1 DEF Held, Connected, Has
  <2> QED BY <2>1, <2>2, <2>3, ClientCore
<1> QED BY <1>1, <1>2, <1>3, <1>4, <1>5, <1>6

\* What Moved does, for a client at p.
AfterMoved(c, n, p, next) ==
    \/ n = cleft[c] /\ cpc' = [cpc EXCEPT ![c] = next] /\ cleft' = [cleft EXCEPT ![c] = Units]
    \/ n # cleft[c] /\ cpc' = cpc /\ cleft' = [cleft EXCEPT ![c] = @ - n]

LEMMA SendCases ==
    ASSUME NEW c \in Clients, Send(c)
    PROVE  /\ server = "up" /\ Held(c) /\ UNCHANGED <<program, serverVars, backlog, conn, toClient, sent>>
           /\ \E n \in 1 .. cleft[c] :
                 /\ toServer' = [toServer EXCEPT ![c] = @ \o [k \in 1 .. n |-> cpc[c]]]
                 /\ \/ cpc[c] = "len" /\ AfterMoved(c, n, "len", "body")
                    \/ cpc[c] = "body" /\ AfterMoved(c, n, "body", "rlen")
<1>1. Following["len"] = "body" /\ Following["body"] = "rlen"
  BY DEF Following
<1>2. CASE cpc[c] = "len"
  BY <1>1, <1>2 DEF Send, Moved, Goto, AfterMoved
<1>3. CASE cpc[c] = "body"
  BY <1>1, <1>3 DEF Send, Moved, Goto, AfterMoved
<1> QED BY <1>2, <1>3 DEF Send

LEMMA ReadCases ==
    ASSUME Core, NEW c \in Clients, Read(c)
    PROVE  /\ server = "up" /\ UNCHANGED <<program, serverVars, backlog, conn, toServer, sent>>
           /\ \E n \in 1 .. cleft[c] :
                 /\ n <= Len(toClient[c])
                 /\ toClient' = [toClient EXCEPT ![c] = Drop(n, @)]
                 /\ \/ cpc[c] = "rlen" /\ AfterMoved(c, n, "rlen", "rbody")
                    \/ cpc[c] = "rbody" /\ AfterMoved(c, n, "rbody", "prompt")
<1>1. Following["rlen"] = "rbody" /\ Following["rbody"] = "prompt"
  BY DEF Following
<1>2. \A n \in 1 .. Min({cleft[c], Len(toClient[c])}) : n \in 1 .. cleft[c] /\ n <= Len(toClient[c])
  <2>1. cleft[c] \in Nat /\ Len(toClient[c]) \in Nat
    BY ClientTypes
  <2> QED BY <2>1, MinPair
<1>3. CASE cpc[c] = "rlen"
  BY <1>1, <1>2, <1>3 DEF Read, Moved, Goto, AfterMoved
<1>4. CASE cpc[c] = "rbody"
  BY <1>1, <1>2, <1>4 DEF Read, Moved, Goto, AfterMoved
<1> QED BY <1>3, <1>4 DEF Read

\* The steps of readn and writen in a client.
LEMMA MovesCore ==
    ASSUME Core, NEW c \in Clients, Send(c) \/ Read(c)
    PROVE  Core'
<1> USE ClientTypes
<1>0. ASSUME NEW n \in 1 .. cleft[c], NEW p, NEW next \in {"body", "rlen", "rbody", "prompt"},
             cpc[c] \in {"len", "body", "rlen", "rbody"}, AfterMoved(c, n, p, next)
      PROVE  /\ cpc' \in [Clients -> ClientPlaces] /\ cleft' \in [Clients -> 0 .. Units]
             /\ cpc'[c] \in {"len", "body", "rlen", "rbody", "prompt"} /\ Frames
             /\ \A d \in Clients : d # c => cpc'[d] = cpc[d]
  <2>1. cleft[c] - n \in 0 .. Units
    OBVIOUS
  <2>2. Frames
    BY <1>0 DEF Core, Modes
  <2> QED BY <1>0, <2>1, <2>2 DEF AfterMoved, ClientPlaces
<1>1. CASE Send(c)
  <2>1. PICK n \in 1 .. cleft[c] :
           /\ toServer' = [toServer EXCEPT ![c] = @ \o [k \in 1 .. n |-> cpc[c]]]
           /\ \/ cpc[c] = "len" /\ AfterMoved(c, n, "len", "body")
              \/ cpc[c] = "body" /\ AfterMoved(c, n, "body", "rlen")
    BY <1>1, SendCases
  <2>2. UNCHANGED <<program, serverVars, backlog, conn, toClient, sent>>
    BY <1>1, SendCases
  <2>3. /\ toServer' \in [Clients -> Seq(Requests)]
        /\ \A d \in Clients : d # c => toServer'[d] = toServer[d]
    <3>1. toServer[c] \in Seq(Requests) /\ n \in Nat /\ cpc[c] \in Requests
      BY <2>1 DEF Requests
    <3>2. toServer[c] \o [k \in 1 .. n |-> cpc[c]] \in Seq(Requests)
      BY <3>1, UnitsAppended
    <3> QED BY <2>1, <3>2
  <2>4. /\ cpc' \in [Clients -> ClientPlaces] /\ cleft' \in [Clients -> 0 .. Units]
        /\ cpc'[c] \in {"len", "body", "rlen", "rbody", "prompt"} /\ Frames
        /\ \A d \in Clients : d # c => cpc'[d] = cpc[d]
    BY <1>0, <2>1
  <2> QED BY <2>1, <2>2, <2>3, <2>4, ClientCore
<1>2. CASE Read(c)
  <2>1. PICK n \in 1 .. cleft[c] :
           /\ n <= Len(toClient[c])
           /\ toClient' = [toClient EXCEPT ![c] = Drop(n, @)]
           /\ \/ cpc[c] = "rlen" /\ AfterMoved(c, n, "rlen", "rbody")
              \/ cpc[c] = "rbody" /\ AfterMoved(c, n, "rbody", "prompt")
    BY <1>2, ReadCases
  <2>2. UNCHANGED <<program, serverVars, backlog, conn, toServer, sent>>
    BY <1>2, ReadCases
  <2>3. /\ toClient' \in [Clients -> Seq(Answers)]
        /\ \A d \in Clients : d # c => toClient'[d] = toClient[d]
    <3>1. toClient[c] \in Seq(Answers) /\ n \in Nat
      OBVIOUS
    <3>2. Drop(n, toClient[c]) \in Seq(Answers)
      BY <2>1, <3>1, DropFacts
    <3> QED BY <2>1, <3>2
  <2>4. /\ cpc' \in [Clients -> ClientPlaces] /\ cleft' \in [Clients -> 0 .. Units]
        /\ cpc'[c] \in {"len", "body", "rlen", "rbody", "prompt"} /\ Frames
        /\ \A d \in Clients : d # c => cpc'[d] = cpc[d]
    BY <1>0, <2>1
  <2> QED BY <2>1, <2>2, <2>3, <2>4, ClientCore
<1> QED BY <1>1, <1>2

LEMMA ServerGoneCore ==
    ASSUME Core, ServerGone
    PROVE  Core'
<1>1. /\ server # "up" /\ UNCHANGED <<program, serverVars, net, cleft, sent>>
      /\ cpc' = [c \in Clients |-> IF Closed(c) \/ Retries(c) THEN cpc[c] ELSE "dropped"]
  BY DEF ServerGone
<1>2. cpc' \in [Clients -> ClientPlaces] /\ \A c \in Clients : cpc'[c] \in {cpc[c], "dropped"}
  <2>1. \A c \in Clients : cpc[c] \in ClientPlaces /\ "dropped" \in ClientPlaces
    BY ClientTypes DEF ClientPlaces, Gone
  <2> QED BY <1>1, <2>1
<1>3. Types'
  BY <1>1, <1>2 DEF Core, Types, ClientPlaces
<1>4. Modes'
  BY <1>1, <1>2 DEF Core, Modes, Select, OneByOne, PerClient, Text, Frames, Direct
<1>5. Conns'
  BY <1>1, <1>2, ConnsFrame DEF Core
<1>6. Custody'
  <2>1. \A t \in Threads : Serving(t)' <=> Serving(t)
    BY <1>1 DEF Serving, Text
  <2> QED BY <1>1, <2>1, CustodyFrame DEF Core
<1>7. SelectSet'
  BY <1>1, SelectFrame DEF Core
<1> QED BY <1>3, <1>4, <1>5, <1>6, <1>7 DEF Core

-----------------------------------------------------------------------------
\* The steps of the servers, each by the programs that have it.
ServerStep ==
    \/ CallAccept \/ Accept \/ Welcome \/ (Spawn /\ program # "es1")
    \/ (InsertNode /\ program = "es1")
    \/ Closing \/ Return
    \/ CallSelect \/ EndScan \/ AcceptSelected \/ ServeSelected
    \/ (Signal /\ program \in {"server2", "es1"})
    \/ (CloseListening /\ program = "es3") \/ ExitSuccess
ThreadStep(t) ==
    \/ Start(t) \/ RemoveNode(t) \/ CallRead(t) \/ ReadReturns(t) \/ Reply(t) \/ CloseQuit(t)
    \/ (CloseAgain(t) /\ PerClient)
    \/ Readn(t) \/ Writen(t) \/ CallPipe(t) \/ Calculate(t) \/ bc(t) \/ (CloseClient(t) /\ ~Text)
ClientStep(c) ==
    \/ Connect(c) \/ Receive(c) \/ Request(c) \/ Leave(c) \/ SendQuit(c) \/ Kill(c) \/ HangUp(c)
    \/ Send(c) \/ Read(c)

LEMMA Steps ==
    ASSUME Next
    PROVE  \/ ServerStep
           \/ \E t \in Threads : ThreadStep(t)
           \/ \E c \in Clients : ClientStep(c)
           \/ ServerGone
           \/ UNCHANGED vars
<1>1. Main \/ Handler => ServerStep
  BY DEF Main, Handler, ServerStep, server2_main, es3_main, es1_main, toup_main,
         bcserver_main, bcserver_v2_main, server3_main, select_main
<1>2. ASSUME NEW t \in Threads, Thread(t) PROVE ThreadStep(t)
  <2>1. server2_thread(t) \/ es3_thread(t) => ThreadStep(t)
    BY DEF server2_thread, es3_thread, ServeText, ThreadStep, PerClient
  <2>2. worker(t) \/ server3_serve(t) => ThreadStep(t)
    BY DEF worker, server3_serve, ServeText, ThreadStep
  <2>3. threadF(t) \/ cmd(t) \/ bcserver_serve(t) \/ bcserver_v2_cmd(t) => ThreadStep(t)
    BY DEF threadF, cmd, bcserver_serve, bcserver_v2_cmd, ServeFrames, ThreadStep, Text, TextPrograms
  <2> QED BY <1>2, <2>1, <2>2, <2>3 DEF Thread
<1>3. ASSUME NEW c \in Clients, Client(c) PROVE ClientStep(c)
  BY <1>3, Zenon DEF Client, client1, toup_client, bcclient, bcclient_v2, Framed, ClientStep
<1> QED BY <1>1, <1>2, <1>3 DEF Next, AtRest

LEMMA CoreStep ==
    ASSUME Core, [Next]_vars
    PROVE  Core'
<1>1. CASE UNCHANGED vars
  <2>0. UNCHANGED <<program, server, listening, mpc, cfd, term, set, rdset, fdmax, i, coda, tpc, fd,
                    on, req, left, raced, room, backlog, conn, toServer, toClient, cpc, cleft, sent>>
    BY <1>1 DEF vars, serverVars, main, selects, threads, net, clients
  <2>1. Types'
    BY <2>0 DEF Core, Types
  <2>2. Modes'
    BY <2>0 DEF Core, Modes, Select, OneByOne, PerClient, Text, Frames, Direct
  <2>3. Conns'
    BY <2>0 DEF Core, Conns, Connected, Open
  <2>4. Custody'
    BY <2>0 DEF Core, Custody, Select, Open, WithMain, Serving, Text
  <2>5. SelectSet'
    BY <2>0 DEF Core, SelectSet, Select, Open
  <2> QED BY <2>1, <2>2, <2>3, <2>4, <2>5 DEF Core
<1>2. CASE ServerStep
  BY <1>2, CallAcceptCore, AcceptCore, WelcomeCore, SpawnCore, InsertNodeCore, ClosingCore,
     EndsCore, CallSelectCore, EndScanCore, AcceptSelectedCore, ServeSelectedCore, SignalCore,
     CloseListeningCore, Zenon DEF ServerStep
<1>3. ASSUME NEW t \in Threads, ThreadStep(t) PROVE Core'
  BY <1>3, StartCore, RemoveNodeCore, CallReadCore, ReadReturnsCore, ReplyCore, CloseQuitCore,
     CloseAgainCore, ReadnCore, WritenCore, cmdCore, bcCore, CloseClientCore, Zenon DEF ThreadStep
<1>4. ASSUME NEW c \in Clients, ClientStep(c) PROVE Core'
  BY <1>4, ConnectCore, TalksCore, MovesCore, Zenon DEF ClientStep
<1>5. CASE ServerGone
  BY <1>5, ServerGoneCore
<1> QED BY <1>1, <1>2, <1>3, <1>4, <1>5, Steps

LEMMA CoreInit ==
    ASSUME Init
    PROVE  Core
<1>0. /\ Open = {} /\ backlog = <<>> /\ coda = <<>>
      /\ \A x : ~Has(backlog, x) /\ ~Has(coda, x)
  BY DEF Init, InitClients, Open, Has
<1>1. Types
  <2> DEFINE none == <<>>
  <2>1. none \in Seq(Clients) /\ none \in Seq(Fds \cup {-1})
        /\ none \in Seq(Requests) /\ none \in Seq(Answers)
    OBVIOUS
  <2>2. backlog = none /\ coda = none /\ toServer = [c \in Clients |-> none]
        /\ toClient = [c \in Clients |-> none]
    BY DEF Init, InitClients
  <2> HIDE DEF none
  <2>3. /\ backlog \in Seq(Clients) /\ coda \in Seq(Fds \cup {-1})
        /\ toServer \in [Clients -> Seq(Requests)] /\ toClient \in [Clients -> Seq(Answers)]
    BY <2>1, <2>2
  <2>4. /\ conn \in [Fds -> Clients \cup {NoClient}]
        /\ cpc \in [Clients -> ClientPlaces]
        /\ cleft \in [Clients -> 0 .. Units]
        /\ sent \in 0 .. MaxRequests
    BY Constants DEF Init, InitClients, ClientPlaces
  <2>5. /\ tpc \in [Threads -> {"none", "start", "take", "read", "blocked", "reply", "quit",
                                "close", "len", "body", "pipe", "calc", "silent", "wlen", "wbody", "bc", "done"}]
        /\ fd \in [Threads -> Fds \cup {-1}]
        /\ on \in [Threads -> Clients \cup {NoClient}]
        /\ req \in [Threads -> Clients \cup {NoClient, "quit"}]
        /\ left \in [Threads -> 0 .. Units]
    BY Constants DEF Init
  <2>6. /\ program \in Programs /\ server = "up" /\ listening = TRUE /\ raced = FALSE
        /\ mpc \in {"select", "loop"} /\ cfd = 0 /\ term = 0
        /\ set = {sfd} /\ rdset = {} /\ fdmax = sfd /\ i = 0
    BY DEF Init
  <2>7. cfd \in Fds /\ set \subseteq Fds /\ rdset \subseteq Fds /\ fdmax \in Fds /\ i \in 0 .. N + 1
    BY <2>6, Constants
  <2>8. room \in Nat
    BY SocketsAssumption DEF Init
  <2> QED BY <2>3, <2>4, <2>5, <2>6, <2>7, <2>8 DEF Types, Requests, Answers, ClientPlaces
<1>2. Modes
  BY Classes, Constants DEF Init, InitClients, Modes, Gone
<1>3. Conns
  BY <1>0 DEF Init, InitClients, Conns, Connected, Once
<1>4. Custody
  BY <1>0 DEF Init, Custody, Serving, Once
<1>5. SelectSet
  BY <1>0, Constants DEF Init, SelectSet
<1> QED BY <1>1, <1>2, <1>3, <1>4, <1>5 DEF Core

-----------------------------------------------------------------------------
(* Core is an invariant, for every number of clients, workers and units.   *)
THEOREM CoreCorrect == Spec => []Core
<1>1. Init => Core
  BY CoreInit
<1>2. Core /\ [Next]_vars => Core'
  BY CoreStep
<1> QED BY <1>1, <1>2, PTL DEF Spec

LEMMA TypesImplyTypeOK ==
    ASSUME Types
    PROVE  TypeOK
<1>1. Max(Fds) = N
  <2>1. Fds = 0 .. N /\ N \in Nat
    BY Constants
  <2>2. N \in Fds /\ Fds \in SUBSET Fds
    BY <2>1
  <2>3. Max(Fds) \in Fds /\ \A y \in Fds : Max(Fds) >= y
    BY <2>2, MaxFact
  <2> QED BY <2>1, <2>2, <2>3
<1>2. \A k \in 1 .. Len(coda) : coda[k] \in Fds \cup {-1}
  BY DEF Types
<1> QED BY <1>1, <1>2 DEF Types, TypeOK

\* A set with one element, and one with none.
LEMMA CountOne ==
    ASSUME NEW S, NEW x \in S, \A y \in S : y = x
    PROVE  Cardinality(S) = 1
<1>1. S = {x}
  OBVIOUS
<1> QED BY <1>1, FS_Singleton

LEMMA CountNone ==
    ASSUME NEW S, \A y \in S : FALSE
    PROVE  Cardinality(S) = 0
<1>1. S = {}
  OBVIOUS
<1> QED BY <1>1, FS_EmptySet

LEMMA KeepersFact ==
    ASSUME Core, ~raced, NEW f \in Fds, f = sfd => ~Select
    PROVE  Keepers(f) = IF f \in Open THEN 1 ELSE 0
<1>1. CASE Select
  <2> DEFINE S == {f} \cap set \cap 0 .. fdmax
  <2>1. Keepers(f) = Cardinality(S)
    BY <1>1 DEF Keepers
  <2>2. f \in S <=> f \in Open
    <3>1. f # sfd /\ f \in Nat /\ fdmax \in Nat
      BY <1>1, Constants DEF Core, Types
    <3> QED BY <1>1, <3>1 DEF Core, SelectSet
  <2>3. \A y \in S : y = f
    OBVIOUS
  <2> HIDE DEF S
  <2>4. CASE f \in Open
    BY <2>1, <2>2, <2>3, <2>4, CountOne
  <2>5. CASE f \notin Open
    BY <2>1, <2>2, <2>3, <2>5, CountNone
  <2> QED BY <2>4, <2>5
<1>2. CASE ~Select
  <2> DEFINE A == {k \in 1 .. Len(coda) : coda[k] = f}
             B == {t \in Threads : Serving(t) /\ fd[t] = f}
             w == IF mpc \in {"welcome", "hand"} /\ cfd = f THEN 1 ELSE 0
  <2>1. Keepers(f) = Cardinality(A) + Cardinality(B) + w
    BY <1>2 DEF Keepers
  <2>2. /\ \A t \in Threads : Serving(t) =>
              fd[t] \in Open /\ ~Has(coda, fd[t]) /\ ~WithMain(fd[t])
        /\ \A t, u \in Threads : Serving(t) /\ Serving(u) /\ fd[t] = fd[u] => t = u
        /\ Once(coda, -1)
        /\ \A g \in Fds : Has(coda, g) => g \in Open /\ ~WithMain(g)
        /\ mpc \in {"welcome", "hand"} => cfd \in Open
        /\ \A g \in Open : Has(coda, g) \/ WithMain(g) \/ \E t \in Threads : Serving(t) /\ fd[t] = g
        /\ f # -1
    BY <1>2, Constants DEF Core, Custody
  <2>3. IF Has(coda, f) THEN Cardinality(A) = 1 ELSE Cardinality(A) = 0
    <3>1. CASE Has(coda, f)
      <4>1. PICK k \in A : TRUE
        BY <3>1 DEF Has
      <4>2. \A j \in A : j = k
        BY <2>2, <4>1 DEF Once
      <4> HIDE DEF A
      <4> QED BY <3>1, <4>1, <4>2, CountOne
    <3>2. CASE ~Has(coda, f)
      <4>1. \A j \in A : FALSE
        BY <3>2 DEF Has
      <4> HIDE DEF A
      <4> QED BY <3>2, <4>1, CountNone
    <3> QED BY <3>1, <3>2
  <2>4. IF \E t \in Threads : Serving(t) /\ fd[t] = f THEN Cardinality(B) = 1 ELSE Cardinality(B) = 0
    <3>1. CASE \E t \in Threads : Serving(t) /\ fd[t] = f
      <4>1. PICK t \in B : TRUE
        BY <3>1
      <4>2. \A u \in B : u = t
        BY <2>2, <4>1
      <4> HIDE DEF B
      <4> QED BY <3>1, <4>1, <4>2, CountOne
    <3>2. CASE ~\E t \in Threads : Serving(t) /\ fd[t] = f
      <4>1. \A u \in B : FALSE
        BY <3>2
      <4> HIDE DEF B
      <4> QED BY <3>2, <4>1, CountNone
    <3> QED BY <3>1, <3>2
  <2>5. w = IF WithMain(f) THEN 1 ELSE 0
    BY DEF WithMain
  <2> HIDE DEF A, B, w
  <2>6. CASE f \in Open
    <3>1. CASE Has(coda, f)
      <4>1. ~WithMain(f) /\ ~\E t \in Threads : Serving(t) /\ fd[t] = f
        BY <2>2, <3>1
      <4> QED BY <2>1, <2>3, <2>4, <2>5, <2>6, <3>1, <4>1
    <3>2. CASE ~Has(coda, f) /\ WithMain(f)
      <4>1. ~\E t \in Threads : Serving(t) /\ fd[t] = f
        BY <2>2, <3>2
      <4> QED BY <2>1, <2>3, <2>4, <2>5, <2>6, <3>2, <4>1
    <3>3. CASE ~Has(coda, f) /\ ~WithMain(f)
      <4>1. \E t \in Threads : Serving(t) /\ fd[t] = f
        BY <2>2, <2>6, <3>3
      <4> QED BY <2>1, <2>3, <2>4, <2>5, <2>6, <3>3, <4>1
    <3> QED BY <3>1, <3>2, <3>3
  <2>7. CASE f \notin Open
    <3>1. ~Has(coda, f) /\ ~WithMain(f) /\ ~\E t \in Threads : Serving(t) /\ fd[t] = f
      BY <2>2, <2>7 DEF WithMain
    <3> QED BY <2>1, <2>3, <2>4, <2>5, <2>7, <3>1
  <2> QED BY <2>6, <2>7
<1> QED BY <1>1, <1>2

(* Each open connection of a server is in the care of exactly one: main,   *)
(* the queue, a thread or the select set; server2.c and es3.c keep to this *)
(* as long as no thread has used the descriptor of another.                *)
THEOREM ServersOneKeeper == Spec => []OneKeeper
<1>1. Core => OneKeeper
  BY TypesImplyTypeOK, KeepersFact DEF Core, Modes, OneKeeper
<1> QED BY <1>1, CoreCorrect, PTL

-----------------------------------------------------------------------------
(* The turns of the servers of texts.                                      *)

LEMMA TurnFrame ==
    ASSUME NEW c \in Clients, Turn(c),
           cpc'[c] = cpc[c], toServer'[c] = toServer[c], toClient'[c] = toClient[c],
           ReplyTo(c)' <=> ReplyTo(c), QuitOf(c)' <=> QuitOf(c)
    PROVE  Turn(c)'
BY DEF Turn

\* A thread that replies, or closes after a "quit", does it for a connected client.
LEMMA Speaks ==
    ASSUME Core, Text, ~raced, NEW t \in Threads, tpc[t] \in {"blocked", "reply", "quit"}
    PROVE  /\ Serving(t) /\ fd[t] \in Open /\ fd[t] \in Fds /\ conn[fd[t]] \in Clients
           /\ Connected(conn[fd[t]])
           /\ \A u \in Threads : tpc[u] \in {"blocked", "reply", "quit"} /\ fd[u] = fd[t] => u = t
           /\ \A u \in Threads : tpc[u] \in {"blocked", "reply", "quit"} /\ conn[fd[u]] = conn[fd[t]] => u = t
<1>1. \A u \in Threads : tpc[u] \in {"blocked", "reply", "quit"} => Serving(u)
  BY DEF Serving
<1> QED BY <1>1, Served

\* A step that is about the client c0 only.
LEMMA TextStep ==
    ASSUME TextTurns, Text, ~raced, NEW c0 \in Clients,
           \A c \in Clients \ {c0} :
              /\ cpc'[c] = cpc[c] /\ toServer'[c] = toServer[c] /\ toClient'[c] = toClient[c]
              /\ (ReplyTo(c)' <=> ReplyTo(c)) /\ (QuitOf(c)' <=> QuitOf(c))
              /\ (Connected(c)' => Connected(c)) /\ (Awaits(c)' => Awaits(c)),
           Connected(c0)' => Turn(c0)', Awaits(c0)' => Unwelcomed(c0)', Clean(c0)',
           \A t \in Threads : KnowsItsClient(t)'
    PROVE  TextTurns'
<1>1. \A c \in Clients : Connected(c)' => Turn(c)'
  BY TurnFrame DEF TextTurns
<1>2. \A c \in Clients : Awaits(c)' => Unwelcomed(c)'
  BY DEF TextTurns, Unwelcomed
<1>3. \A c \in Clients : Clean(c)'
  BY DEF TextTurns, Clean
<1> QED BY <1>1, <1>2, <1>3 DEF TextTurns

\* Steps that are not about texts.
LEMMA TextFrame ==
    ASSUME TextTurns, raced => raced',
           UNCHANGED <<program, backlog, cpc, toServer, toClient, on, req, conn>>,
           \A t \in Threads :
              tpc[t] \in {"blocked", "reply", "quit"} \/ tpc'[t] \in {"blocked", "reply", "quit"}
              => tpc'[t] = tpc[t] /\ fd'[t] = fd[t],
           mpc' = "welcome" => mpc = "welcome" /\ cfd' = cfd
    PROVE  TextTurns'
<1> SUFFICES ASSUME Text, ~raced PROVE TextTurns'
  BY DEF TextTurns, Text
<1>1. Open' = Open /\ \A c : Connected(c)' <=> Connected(c)
  BY DEF Open, Connected
<1>2. \A c \in Clients : (ReplyTo(c)' <=> ReplyTo(c)) /\ (QuitOf(c)' <=> QuitOf(c))
  BY DEF ReplyTo, QuitOf
<1>3. \A c \in Clients : Connected(c)' => Turn(c)'
  BY <1>1, <1>2, TurnFrame DEF TextTurns
<1>4. \A c \in Clients : Awaits(c)' => Unwelcomed(c)'
  BY DEF TextTurns, Unwelcomed, Awaits
<1>6. \A t \in Threads : KnowsItsClient(t)'
  BY DEF TextTurns, KnowsItsClient, Closed
<1>7. \A c \in Clients : Clean(c)'
  BY DEF TextTurns, Clean
<1> QED BY <1>3, <1>4, <1>6, <1>7 DEF TextTurns

LEMMA QuietText ==
    ASSUME Core, TextTurns,
           \/ CallAccept \/ Spawn \/ InsertNode \/ Closing \/ Return
           \/ CallSelect \/ EndScan \/ ServeSelected \/ Signal \/ CloseListening \/ ExitSuccess
    PROVE  TextTurns'
<1>1. CASE \/ CallAccept \/ InsertNode \/ Closing \/ Return \/ CallSelect \/ EndScan
           \/ CloseListening \/ ExitSuccess
  BY <1>1, TextFrame DEF CallAccept, InsertNode, Closing, Return, CallSelect, EndScan,
                         CloseListening, ExitSuccess
<1>2. CASE Spawn
  <2>1. PICK t \in Threads :
           /\ tpc[t] = "none"
           /\ tpc' = [tpc EXCEPT ![t] = IF PerClient THEN "start" ELSE IF Direct THEN "bc" ELSE "len"]
           /\ fd' = [fd EXCEPT ![t] = cfd]
    BY <1>2 DEF Spawn, Now
  <2>2. UNCHANGED <<program, backlog, cpc, toServer, toClient, on, req, conn, raced, cfd>> /\ mpc' # "welcome"
    BY <1>2 DEF Spawn
  <2>3. \A u \in Threads : u # t => tpc'[u] = tpc[u] /\ fd'[u] = fd[u]
    BY <2>1 DEF Core, Types
  <2>4. tpc'[t] \in {"start", "bc", "len"}
    BY <2>1 DEF Core, Types
  <2> QED BY <2>1, <2>2, <2>3, <2>4, TextFrame
<1>3. CASE ServeSelected
  <2>1. /\ UNCHANGED <<program, backlog, cpc, toServer, toClient, on, req, conn, raced, cfd>>
        /\ mpc = "scan" /\ mpc' = "serve" /\ 1 \in Threads
        /\ \A u \in Threads : u # 1 => tpc'[u] = tpc[u] /\ fd'[u] = fd[u]
        /\ tpc'[1] \in {"read", "len"}
    BY <1>3, Constants DEF ServeSelected, Found, Now, Core, Types
  <2>2. tpc[1] \in {"none", "done"}
    BY <2>1 DEF Core, Modes
  <2> QED BY <2>1, <2>2, TextFrame
<1>4. CASE Signal
  BY <1>4, TextFrame DEF Signal
<1> QED BY <1>1, <1>2, <1>3, <1>4

LEMMA QuietThreads ==
    ASSUME Core, TextTurns, NEW t \in Threads, Start(t) \/ RemoveNode(t) \/ CloseAgain(t)
    PROVE  TextTurns'
<1>1. /\ UNCHANGED <<program, backlog, cpc, toServer, toClient, on, req, mpc, cfd>> /\ (raced => raced')
      /\ \A u \in Threads : u # t => tpc'[u] = tpc[u] /\ fd'[u] = fd[u]
      /\ tpc[t] \in {"start", "take", "close"} /\ tpc'[t] \in {"read", "done"}
  BY DEF Start, RemoveNode, CloseAgain, Now, Core, Types
<1>2. conn' = conn \/ raced'
  <2>1. CASE CloseAgain(t) /\ fd[t] \notin Open
    <3>1. conn' = [conn EXCEPT ![fd[t]] = NoClient]
      BY <2>1 DEF CloseAgain
    <3> QED BY <2>1, <3>1, OpenFacts DEF Core, Types
  <2> QED BY <2>1 DEF Start, RemoveNode, CloseAgain
<1>3. CASE raced'
  BY <1>3 DEF TextTurns
<1>4. CASE ~raced'
  BY <1>1, <1>2, <1>4, TextFrame
<1> QED BY <1>3, <1>4

LEMMA TextCallRead ==
    ASSUME Core, TextTurns, NEW t \in Threads, CallRead(t)
    PROVE  TextTurns'
<1> SUFFICES ASSUME ~raced PROVE TextTurns'
  BY DEF CallRead, TextTurns
<1>1. /\ UNCHANGED <<program, backlog, conn, cpc, toServer, toClient, fd, req, mpc, cfd>>
      /\ tpc[t] = "read" /\ Text
  BY DEF CallRead, Core, Modes
<1>2. CASE fd[t] \notin Open
  BY <1>2, TextFrame DEF CallRead
<1>3. CASE fd[t] \in Open
  <2>1. /\ \A u \in Threads : u # t => tpc'[u] = tpc[u] /\ on'[u] = on[u]
        /\ tpc'[t] = "blocked" /\ on'[t] = conn[fd[t]]
    BY <1>3 DEF CallRead, Now, Core, Types
  <2>2. PICK c0 \in Clients : c0 = conn[fd[t]]
    BY <1>3, OpenFacts DEF Core
  <2>3. \A c \in Clients : (ReplyTo(c)' <=> ReplyTo(c)) /\ (QuitOf(c)' <=> QuitOf(c))
    BY <1>1, <2>1 DEF ReplyTo, QuitOf
  <2>4. \A c : (Connected(c)' <=> Connected(c)) /\ (Awaits(c)' <=> Awaits(c))
    BY <1>1 DEF Connected, Open, Awaits
  <2>5. \A u \in Threads : KnowsItsClient(u)'
    BY <1>1, <2>1 DEF TextTurns, KnowsItsClient, Closed
  <2>6. (Connected(c0)' => Turn(c0)') /\ (Awaits(c0)' => Unwelcomed(c0)') /\ Clean(c0)'
    BY <1>1, <2>3, <2>4, TurnFrame DEF TextTurns, Unwelcomed, Clean
  <2> QED BY <1>1, <2>3, <2>4, <2>5, <2>6, TextStep
<1> QED BY <1>2, <1>3

\* A connection that moves from the backlog to a descriptor.
LEMMA AcceptFacts ==
    ASSUME Core, ~raced, backlog # <<>>, NEW f0, f0 = Lowest,
           conn' = [conn EXCEPT ![f0] = Head(backlog)],
           backlog' = Tail(backlog), UNCHANGED <<program, raced, tpc, fd>>
    PROVE  /\ f0 \in Fds /\ f0 \notin Open /\ Head(backlog) \in Clients /\ Has(backlog, Head(backlog))
           /\ conn'[f0] = Head(backlog) /\ \A f \in Open : conn'[f] = conn[f]
           /\ \A c : Connected(c)' <=> Connected(c)
           /\ \A c : Has(backlog', c) => Has(backlog, c) /\ c # Head(backlog)
           /\ \A t \in Threads : Serving(t) => conn'[fd[t]] = conn[fd[t]] /\ conn[fd[t]] # Head(backlog)
<1> DEFINE c0 == Head(backlog)
<1>1. f0 \in Fds /\ f0 \notin Open
  BY LowestFact DEF Core
<1>2. /\ c0 \in Clients /\ Has(backlog, c0) /\ c0 # NoClient
      /\ \A c : Has(backlog, c) <=> Has(backlog', c) \/ c = c0
      /\ ~Has(backlog', c0)
  BY TailFacts, Constants DEF Core, Types, Conns
<1>3. /\ Open' = Open \cup {f0} /\ conn'[f0] = c0
      /\ \A f \in Open : conn'[f] = conn[f] /\ f # f0
  BY <1>1, <1>2 DEF Core, Types, Open
<1> HIDE DEF c0
<1>4. \A c : Connected(c)' <=> Connected(c)
  BY <1>2, <1>3 DEF Connected
<1>5. \A t \in Threads : Serving(t) => conn'[fd[t]] = conn[fd[t]] /\ conn[fd[t]] # c0
  BY <1>2, <1>3, Served DEF Core, Conns
<1> QED BY <1>1, <1>2, <1>3, <1>4, <1>5 DEF c0

\* The same for a server of texts.
LEMMA AcceptText ==
    ASSUME Core, TextTurns, Text, ~raced, backlog # <<>>, NEW f0, f0 = Lowest,
           NEW c0, c0 = Head(backlog),
           conn' = [conn EXCEPT ![f0] = c0],
           backlog' = Tail(backlog), UNCHANGED <<program, raced, tpc, fd, on, req, cpc>>
    PROVE  /\ f0 \in Fds /\ c0 \in Clients /\ Has(backlog, c0) /\ conn'[f0] = c0
           /\ \A c : Connected(c)' <=> Connected(c)
           /\ Connected(c0) /\ Unwelcomed(c0)
           /\ \A c : Has(backlog', c) => Has(backlog, c) /\ c # c0
           /\ \A c \in Clients : (ReplyTo(c)' <=> ReplyTo(c)) /\ (QuitOf(c)' <=> QuitOf(c))
           /\ \A t \in Threads : KnowsItsClient(t)'
<1>1. /\ f0 \in Fds /\ c0 \in Clients /\ Has(backlog, c0) /\ conn'[f0] = c0
      /\ \A c : Connected(c)' <=> Connected(c)
      /\ \A c : Has(backlog', c) => Has(backlog, c) /\ c # c0
      /\ \A t \in Threads : Serving(t) => conn'[fd[t]] = conn[fd[t]]
  BY AcceptFacts
<1>2. \A t \in Threads : tpc[t] \in {"blocked", "reply", "quit"} => conn'[fd[t]] = conn[fd[t]]
  BY <1>1 DEF Serving
<1>3. \A c \in Clients : (ReplyTo(c)' <=> ReplyTo(c)) /\ (QuitOf(c)' <=> QuitOf(c))
  BY <1>2 DEF ReplyTo, QuitOf
<1>4. \A t \in Threads : KnowsItsClient(t)'
  BY <1>2 DEF TextTurns, KnowsItsClient, Closed
<1>5. Connected(c0) /\ Unwelcomed(c0)
  BY <1>1 DEF Connected, Awaits, TextTurns
<1> QED BY <1>1, <1>3, <1>4, <1>5

LEMMA TextAccept ==
    ASSUME Core, TextTurns, Accept
    PROVE  TextTurns'
<1> SUFFICES ASSUME Text, ~raced PROVE TextTurns'
  BY DEF Accept, TextTurns, Text
<1>1. PICK c0 : c0 = Head(backlog)
  OBVIOUS
<1>2. PICK f0 : f0 = Lowest
  OBVIOUS
<1>3. /\ UNCHANGED <<program, raced, tpc, fd, on, req, cpc, toServer, toClient>>
      /\ cfd' = f0 /\ mpc' = "welcome" /\ mpc = "accept" /\ backlog # <<>> /\ backlog' = Tail(backlog)
      /\ conn' = [conn EXCEPT ![f0] = c0]
  BY <1>1, <1>2 DEF Accept
<1>4. /\ f0 \in Fds /\ c0 \in Clients /\ Has(backlog, c0) /\ conn'[f0] = c0
      /\ \A c : Connected(c)' <=> Connected(c)
      /\ Connected(c0) /\ Unwelcomed(c0)
      /\ \A c : Has(backlog', c) => Has(backlog, c) /\ c # c0
      /\ \A c \in Clients : (ReplyTo(c)' <=> ReplyTo(c)) /\ (QuitOf(c)' <=> QuitOf(c))
      /\ \A t \in Threads : KnowsItsClient(t)'
  BY <1>1, <1>2, <1>3, AcceptText
<1>5. \A c \in Clients \ {c0} : Awaits(c)' => Awaits(c)
  BY <1>3, <1>4 DEF Awaits
<1>6. Connected(c0)' => Turn(c0)'
  BY <1>3, <1>4, TurnFrame DEF TextTurns
<1>7. Unwelcomed(c0)' /\ Clean(c0)'
  BY <1>3, <1>4 DEF TextTurns, Unwelcomed, Clean
<1> QED BY <1>3, <1>4, <1>5, <1>6, <1>7, TextStep

\* The welcome message to a client that has none yet.
LEMMA Welcomed ==
    ASSUME Core, Text, NEW c \in Clients, Unwelcomed(c), ~Closed(c), Turn(c), Clean(c),
           toClient' = [toClient EXCEPT ![c] = Append(@, "welcome")], UNCHANGED <<cpc, toServer>>,
           ReplyTo(c)' <=> ReplyTo(c), QuitOf(c)' <=> QuitOf(c)
    PROVE  Turn(c)' /\ Clean(c)'
<1>1. cpc[c] = "welcome" /\ toClient[c] = <<>>
  BY DEF Unwelcomed, Closed, Gone
<1>2. toClient'[c] = <<"welcome">>
  BY <1>1 DEF Core, Types
<1> QED BY <1>1, <1>2 DEF Turn, Clean

LEMMA TextWelcome ==
    ASSUME Core, TextTurns, Welcome
    PROVE  TextTurns'
<1> SUFFICES ASSUME Text, ~raced PROVE TextTurns'
  BY DEF Welcome, TextTurns, Text
<1>1. PICK c0 : c0 = conn[cfd]
  OBVIOUS
<1>2. /\ UNCHANGED <<program, raced, tpc, fd, on, req, cpc, toServer, backlog, conn, cfd>>
      /\ mpc = "welcome" /\ cfd \in Open /\ c0 \in Clients /\ Connected(c0) /\ Awaits(c0)
      /\ ~Has(backlog, c0)
  BY <1>1, OpenFacts DEF Welcome, Core, Custody, Modes, Awaits, Connected, Conns
<1>3. CASE Closed(c0)
  BY <1>1, <1>2, <1>3, TextFrame DEF Welcome
<1>4. CASE ~Closed(c0)
  <2>1. toClient' = [toClient EXCEPT ![c0] = Append(@, "welcome")] /\ mpc' = "hand"
    BY <1>1, <1>2, <1>4 DEF Welcome
  <2>2. \A c \in Clients : (ReplyTo(c)' <=> ReplyTo(c)) /\ (QuitOf(c)' <=> QuitOf(c))
    BY <1>2 DEF ReplyTo, QuitOf
  <2>3. \A c : (Connected(c)' <=> Connected(c)) /\ (Awaits(c)' => Awaits(c)) /\ ~Awaits(c0)'
    BY <1>2, <2>1 DEF Connected, Open, Awaits
  <2>4. \A c \in Clients : c # c0 => toClient'[c] = toClient[c]
    BY <2>1 DEF Core, Types
  <2>5. Turn(c0)' /\ Clean(c0)'
    <3>1. Turn(c0) /\ Clean(c0) /\ Unwelcomed(c0)
      BY <1>2 DEF TextTurns
    <3> QED BY <1>2, <1>4, <2>1, <2>2, <3>1, Welcomed
  <2>6. \A t \in Threads : KnowsItsClient(t)'
    BY <1>2 DEF TextTurns, KnowsItsClient, Closed
  <2> QED BY <1>2, <2>2, <2>3, <2>4, <2>5, <2>6, TextStep
<1> QED BY <1>3, <1>4

LEMMA TextAcceptSelected ==
    ASSUME Core, TextTurns, AcceptSelected
    PROVE  TextTurns'
<1> SUFFICES ASSUME Text, ~raced PROVE TextTurns'
  BY DEF AcceptSelected, TextTurns, Text
<1>0. PICK c0 : c0 = Head(backlog)
  OBVIOUS
<1>1. PICK f0 : f0 = Lowest
  OBVIOUS
<1>2. /\ UNCHANGED <<program, raced, tpc, fd, on, req, cpc, toServer, mpc, cfd>>
      /\ Found(sfd) /\ backlog' = Tail(backlog) /\ conn' = [conn EXCEPT ![f0] = c0]
      /\ IF Closed(c0) THEN toClient' = toClient
         ELSE toClient' = [toClient EXCEPT ![c0] = Append(@, "welcome")]
  BY <1>0, <1>1 DEF AcceptSelected
<1>3. backlog # <<>> /\ mpc # "welcome"
  <2>1. backlog # <<>>
    BY <1>2, FoundFacts, Constants
  <2>2. mpc = "scan"
    BY <1>2 DEF Found
  <2> QED BY <2>1, <2>2
<1>4. /\ f0 \in Fds /\ c0 \in Clients /\ Has(backlog, c0) /\ conn'[f0] = c0
      /\ \A c : Connected(c)' <=> Connected(c)
      /\ Connected(c0) /\ Unwelcomed(c0)
      /\ \A c : Has(backlog', c) => Has(backlog, c) /\ c # c0
      /\ \A c \in Clients : (ReplyTo(c)' <=> ReplyTo(c)) /\ (QuitOf(c)' <=> QuitOf(c))
      /\ \A t \in Threads : KnowsItsClient(t)'
  BY <1>0, <1>1, <1>2, <1>3, AcceptText
<1>5. (\A c \in Clients : Awaits(c)' => Awaits(c)) /\ ~Awaits(c0)'
  BY <1>2, <1>3, <1>4 DEF Awaits
<1>6. \A c \in Clients : c # c0 => toClient'[c] = toClient[c]
  BY <1>2 DEF Core, Types
<1>7. Turn(c0) /\ Clean(c0)
  BY <1>4 DEF TextTurns
<1>8. Turn(c0)' /\ Clean(c0)'
  <2>1. CASE Closed(c0)
    BY <1>2, <1>4, <1>7, <2>1, TurnFrame DEF Clean
  <2>2. CASE ~Closed(c0)
    BY <1>2, <1>4, <1>7, <2>2, Welcomed
  <2> QED BY <2>1, <2>2
<1> QED BY <1>2, <1>4, <1>5, <1>6, <1>8, TextStep

\* A sequence of one item.
LEMMA OneItem ==
    ASSUME NEW x
    PROVE  Tail(<<x>>) = <<>> /\ Head(<<x>>) = x
OBVIOUS

LEMMA LastTail ==
    ASSUME NEW T, NEW s \in Seq(T), Len(s) = 1
    PROVE  Tail(s) = <<>>
<1>1. s # <<>>
  BY EmptySeq
<1>2. Tail(s) \in Seq(T) /\ Len(Tail(s)) = 0
  BY <1>1, HeadTailProperties
<1> QED BY <1>2, EmptySeq

\* A read returns to a thread.
LEMMA TextReadReturns ==
    ASSUME Core, TextTurns, NEW t \in Threads, ReadReturns(t)
    PROVE  TextTurns'
<1> SUFFICES ASSUME ~raced PROVE TextTurns'
  BY DEF ReadReturns, TextTurns
<1>1. PICK c0 : c0 = on[t]
  OBVIOUS
<1>2. /\ UNCHANGED <<program, raced, fd, on, cpc, toClient, backlog, conn, mpc, cfd>>
      /\ tpc[t] = "blocked" /\ Text
  BY DEF ReadReturns, Core, Modes
<1>3. c0 = conn[fd[t]]
  BY <1>1, <1>2 DEF TextTurns, KnowsItsClient
<1>4. /\ c0 \in Clients /\ Connected(c0) /\ ~ReplyTo(c0) /\ ~QuitOf(c0)
      /\ \A u \in Threads : tpc[u] \in {"reply", "quit"} => conn[fd[u]] # c0
  BY <1>2, <1>3, Speaks DEF ReplyTo, QuitOf
<1>5. Turn(c0)
  BY <1>2, <1>4 DEF TextTurns
<1>6. \A c : (Connected(c)' <=> Connected(c)) /\ (Awaits(c)' <=> Awaits(c))
  BY <1>2 DEF Connected, Open, Awaits
<1>7. (Awaits(c0)' => Unwelcomed(c0)') /\ Clean(c0)'
  BY <1>2, <1>4, <1>6 DEF TextTurns, Unwelcomed, Clean
<1>8. CASE toServer[c0] # <<>> /\ toServer' = [toServer EXCEPT ![c0] = Tail(@)] /\ server' = server
  <2>1. /\ IF Head(toServer[c0]) = "quit"
           THEN req' = [req EXCEPT ![t] = "quit"] /\ Now(t, "quit")
           ELSE req' = [req EXCEPT ![t] = c0] /\ Now(t, "reply")
    <3>1. ~(Eof(c0) \/ Reset(c0))
      BY <1>8 DEF Eof, Reset
    <3> QED BY <1>1, <1>8, <3>1 DEF ReadReturns
  <2>2. \A c \in Clients : c # c0 => toServer'[c] = toServer[c]
    BY <1>8 DEF Core, Types
  <2>3. \A u \in Threads : u # t => tpc'[u] = tpc[u] /\ req'[u] = req[u]
    BY <2>1 DEF Now, Core, Types
  <2>4. /\ tpc'[t] \in {"quit", "reply"} /\ (tpc'[t] = "reply" => req'[t] = c0)
        /\ tpc'[t] = "quit" <=> Head(toServer[c0]) = "quit"
    BY <2>1 DEF Now, Core, Types
  <2>5. \A c \in Clients \ {c0} : (ReplyTo(c)' <=> ReplyTo(c)) /\ (QuitOf(c)' <=> QuitOf(c))
    BY <1>2, <1>3, <2>3, <2>4 DEF ReplyTo, QuitOf
  <2>6. /\ ReplyTo(c0)' <=> Head(toServer[c0]) # "quit"
        /\ QuitOf(c0)' <=> Head(toServer[c0]) = "quit"
    BY <1>2, <1>3, <1>4, <2>3, <2>4 DEF ReplyTo, QuitOf
  <2>7. Turn(c0)'
    <3>1. toServer'[c0] = Tail(toServer[c0])
      BY <1>4, <1>8 DEF Core, Types
    <3>2. /\ Tail(<<"text">>) = <<>> /\ Head(<<"text">>) = "text"
          /\ Tail(<<"quit">>) = <<>> /\ Head(<<"quit">>) = "quit"
      BY OneItem
    <3> QED BY <1>2, <1>4, <1>5, <1>8, <2>6, <3>1, <3>2, Zenon DEF Turn
  <2>8. \A u \in Threads : KnowsItsClient(u)'
    BY <1>2, <1>3, <2>3, <2>4 DEF TextTurns, KnowsItsClient, Closed
  <2> QED BY <1>2, <1>4, <1>6, <1>7, <2>2, <2>5, <2>7, <2>8, TextStep
<1>9. CASE /\ Eof(c0) /\ ~Reset(c0)
           /\ Now(t, "quit") \/ Now(t, "reply")
           /\ UNCHANGED <<server, req, toServer>>
  <2>1. Closed(c0) /\ cpc[c0] # "quitted"
    BY <1>4, <1>5, <1>9 DEF Eof, Turn
  <2>2. \A u \in Threads : u # t => tpc'[u] = tpc[u]
    BY <1>9 DEF Now, Core, Types
  <2>3. \A c \in Clients \ {c0} : (ReplyTo(c)' <=> ReplyTo(c)) /\ (QuitOf(c)' <=> QuitOf(c))
    BY <1>2, <1>3, <1>9, <2>2 DEF ReplyTo, QuitOf
  <2>4. Turn(c0)'
    BY <1>2, <2>1 DEF Turn, Closed, Gone
  <2>5. \A u \in Threads : KnowsItsClient(u)'
    <3>1. tpc'[t] # "blocked"
      BY <1>9 DEF Now, Core, Types
    <3> QED BY <1>2, <1>3, <1>9, <2>1, <2>2, <3>1 DEF TextTurns, KnowsItsClient, Closed
  <2> QED BY <1>2, <1>4, <1>6, <1>7, <1>9, <2>3, <2>4, <2>5, TextStep
<1>10. CASE Reset(c0) /\ UNCHANGED <<tpc, req, toServer>>
  BY <1>2, <1>10, TextFrame
<1> QED BY <1>1, <1>8, <1>9, <1>10 DEF ReadReturns

\* A thread answers.
LEMMA TextReply ==
    ASSUME Core, TextTurns, NEW t \in Threads, Reply(t)
    PROVE  TextTurns'
<1> SUFFICES ASSUME ~raced PROVE TextTurns'
  BY DEF Reply, TextTurns
<1>1. PICK c0 : c0 = conn[fd[t]]
  OBVIOUS
<1>2. /\ UNCHANGED <<program, raced, fd, on, req, cpc, toServer, backlog, conn, cfd>>
      /\ tpc[t] = "reply" /\ Text
  BY DEF Reply, Core, Modes
<1>3. /\ c0 \in Clients /\ Connected(c0) /\ ReplyTo(c0) /\ fd[t] \in Open
      /\ \A u \in Threads : u # t /\ tpc[u] \in {"reply", "quit"} => conn[fd[u]] # c0
  BY <1>1, <1>2, Speaks DEF ReplyTo
<1>4. CASE Closed(c0)
  BY <1>1, <1>2, <1>4, TextFrame DEF Reply, Fail
<1>5. CASE ~Closed(c0)
  <2>1. /\ toClient' = [toClient EXCEPT ![c0] = Append(@, req[t])] /\ Continue(t)
    BY <1>1, <1>3, <1>5 DEF Reply
  <2>2. req[t] = c0 /\ Turn(c0) /\ Clean(c0)
    BY <1>1, <1>2, <1>3, <1>5 DEF TextTurns, KnowsItsClient
  <2>3. cpc[c0] = "answer" /\ toServer[c0] = <<>> /\ toClient[c0] = <<>>
    <3>1. cpc[c0] # "start"
      BY <1>3 DEF Core, Conns
    <3>2. cpc[c0] \notin {"len", "body", "rlen", "rbody"}
      BY <1>2, <1>3, Classes DEF Core, Modes
    <3>3. cpc[c0] \in {"welcome", "prompt", "answer"}
      BY <1>3, <1>5, <3>1, <3>2 DEF Core, Types, Closed
    <3> QED BY <1>3, <2>2, <3>3 DEF Turn
  <2>4. toClient'[c0] = <<c0>>
    BY <1>3, <2>1, <2>2, <2>3 DEF Core, Types
  <2>5. \A c \in Clients : c # c0 => toClient'[c] = toClient[c]
    BY <2>1 DEF Core, Types
  <2>6. /\ \A u \in Threads : u # t => tpc'[u] = tpc[u]
        /\ tpc'[t] \in {"done", "read", "len"} /\ mpc' \in {mpc, "scan"}
    BY <2>1 DEF Continue, Now, Core, Types
  <2>7. /\ \A c \in Clients \ {c0} : (ReplyTo(c)' <=> ReplyTo(c)) /\ (QuitOf(c)' <=> QuitOf(c))
        /\ ~ReplyTo(c0)' /\ ~QuitOf(c0)'
    BY <1>1, <1>2, <1>3, <2>6 DEF ReplyTo, QuitOf
  <2>8. \A c : (Connected(c)' <=> Connected(c)) /\ (Awaits(c)' => Awaits(c))
    BY <1>2, <2>6 DEF Connected, Open, Awaits
  <2>9. Turn(c0)' /\ Clean(c0)' /\ ~Awaits(c0)'
    <3>1. ~Awaits(c0)
      BY <1>2, <1>3, <2>3 DEF TextTurns, Unwelcomed
    <3> QED BY <1>2, <2>3, <2>4, <2>7, <2>8, <3>1 DEF Turn, Clean
  <2>10. \A u \in Threads : KnowsItsClient(u)'
    BY <1>2, <2>6 DEF TextTurns, KnowsItsClient, Closed
  <2> QED BY <1>2, <1>3, <2>5, <2>7, <2>8, <2>9, <2>10, TextStep
<1> QED BY <1>4, <1>5

\* A thread closes its connection after a "quit".
LEMMA TextCloseQuit ==
    ASSUME Core, TextTurns, NEW t \in Threads, CloseQuit(t)
    PROVE  TextTurns'
<1> SUFFICES ASSUME ~raced PROVE TextTurns'
  BY DEF CloseQuit, TextTurns
<1>1. PICK c0 : c0 = conn[fd[t]]
  OBVIOUS
<1>2. /\ UNCHANGED <<program, raced, fd, on, req, cpc, toServer, toClient, backlog, cfd>>
      /\ tpc[t] = "quit" /\ Text /\ conn' = [conn EXCEPT ![fd[t]] = NoClient]
  BY DEF CloseQuit, Core, Modes
<1>3. /\ c0 \in Clients /\ Connected(c0) /\ fd[t] \in Open /\ fd[t] \in Fds
      /\ \A u \in Threads : u # t /\ tpc[u] \in {"blocked", "reply", "quit"} => fd[u] # fd[t]
  BY <1>1, <1>2, Speaks
<1>4. /\ Open' = Open \ {fd[t]} /\ \A f \in Fds : f # fd[t] => conn'[f] = conn[f]
  BY <1>2, <1>3, Constants DEF Core, Types, Open
<1>5. /\ \A u \in Threads : u # t => tpc'[u] = tpc[u]
      /\ tpc'[t] \in {"close", "take", "done"}
  BY DEF CloseQuit, Now, Core, Types
<1>6. mpc' \in {mpc, "scan"}
  BY DEF CloseQuit, Forget
<1>7. \A u \in Threads : u # t /\ tpc[u] \in {"blocked", "reply", "quit"} => conn'[fd[u]] = conn[fd[u]]
  BY <1>2, <1>3, <1>4, Speaks
<1>8. \A c \in Clients \ {c0} : (ReplyTo(c)' <=> ReplyTo(c)) /\ (QuitOf(c)' <=> QuitOf(c))
  BY <1>1, <1>2, <1>5, <1>7 DEF ReplyTo, QuitOf
<1>9. \A c : Connected(c)' => Connected(c) /\ c # c0
  BY <1>1, <1>2, <1>3, <1>4 DEF Connected, Core, Conns
<1>10. \A c \in Clients : Awaits(c)' => Awaits(c) /\ c # c0
  <2>1. ASSUME NEW c \in Clients, Awaits(c)' PROVE Awaits(c) /\ c # c0
    <3>1. CASE Has(backlog', c)
      BY <1>1, <1>2, <1>3, <3>1 DEF Awaits, Core, Conns
    <3>2. CASE mpc' = "welcome" /\ conn'[cfd'] = c
      <4>1. mpc = "welcome" /\ cfd \in Fds
        BY <1>6, <3>2 DEF Core, Modes
      <4>2. conn'[fd[t]] = NoClient /\ c # NoClient
        BY <1>2, <1>3, Constants DEF Core, Types
      <4>3. cfd # fd[t] /\ conn[cfd] = c
        BY <1>2, <1>4, <3>2, <4>1, <4>2
      <4>4. cfd \in Open
        BY <4>1, <4>2, <4>3 DEF Open
      <4> QED BY <1>1, <1>3, <4>1, <4>3, <4>4 DEF Awaits, Core, Conns
    <3> QED BY <2>1, <3>1, <3>2 DEF Awaits
  <2> QED BY <2>1
<1>11. \A u \in Threads : KnowsItsClient(u)'
  BY <1>2, <1>5, <1>7 DEF TextTurns, KnowsItsClient, Closed
<1>12. Clean(c0)'
  BY <1>2, <1>3 DEF TextTurns, Clean
<1> QED BY <1>2, <1>3, <1>8, <1>9, <1>10, <1>11, <1>12, TextStep

\* A step of the client c0.
LEMMA TextClient ==
    ASSUME Core, TextTurns, Text, ~raced, NEW c0 \in Clients, ~Closed(c0),
           UNCHANGED <<program, serverVars, backlog, conn>>,
           \A c \in Clients : c # c0 =>
              cpc'[c] = cpc[c] /\ toServer'[c] = toServer[c] /\ toClient'[c] = toClient[c],
           Connected(c0) => Turn(c0)', Awaits(c0) => Unwelcomed(c0)', Clean(c0)'
    PROVE  TextTurns'
<1>1. \A c \in Clients : (ReplyTo(c)' <=> ReplyTo(c)) /\ (QuitOf(c)' <=> QuitOf(c))
  BY DEF ReplyTo, QuitOf
<1>2. \A c : (Connected(c)' <=> Connected(c)) /\ (Awaits(c)' <=> Awaits(c))
  BY DEF Connected, Open, Awaits
<1>3. ASSUME NEW t \in Threads PROVE KnowsItsClient(t)'
  <2>1. tpc[t] = "reply" => conn[fd[t]] \in Clients
    BY Speaks
  <2> QED BY <2>1 DEF TextTurns, KnowsItsClient, Closed
<1> QED BY <1>1, <1>2, <1>3, TextStep

LEMMA TextConnect ==
    ASSUME Core, TextTurns, NEW c0 \in Clients, Connect(c0)
    PROVE  TextTurns'
<1> SUFFICES ASSUME Text, ~raced PROVE TextTurns'
  BY DEF Connect, TextTurns, Text
<1>1. /\ cpc[c0] = "start" /\ cpc' = [cpc EXCEPT ![c0] = "welcome"]
      /\ backlog' = Append(backlog, c0)
      /\ UNCHANGED <<program, serverVars, conn, toServer, toClient>>
  BY DEF Connect, Goto
<1>2. /\ cpc'[c0] = "welcome" /\ \A c \in Clients : c # c0 => cpc'[c] = cpc[c]
      /\ \A c : Has(backlog', c) <=> Has(backlog, c) \/ c = c0
      /\ toServer[c0] = <<>> /\ toClient[c0] = <<>> /\ ~Connected(c0)
  BY <1>1, HasAppend DEF Core, Types, Conns
<1>3. \A t \in Threads : tpc[t] \in {"blocked", "reply", "quit"} =>
         conn[fd[t]] \in Clients /\ conn[fd[t]] # c0
  BY <1>2, Speaks
<1>4. /\ \A c \in Clients : (ReplyTo(c)' <=> ReplyTo(c)) /\ (QuitOf(c)' <=> QuitOf(c))
      /\ ~ReplyTo(c0) /\ ~QuitOf(c0)
  BY <1>1, <1>3 DEF ReplyTo, QuitOf
<1>5. \A c : c # c0 => (Connected(c)' => Connected(c)) /\ (Awaits(c)' => Awaits(c))
  BY <1>1, <1>2 DEF Connected, Open, Awaits
<1>6. Turn(c0)' /\ Unwelcomed(c0)' /\ Clean(c0)'
  BY <1>1, <1>2, <1>4 DEF Turn, Unwelcomed, Clean
<1>7. \A t \in Threads : KnowsItsClient(t)'
  BY <1>1, <1>2, <1>3 DEF TextTurns, KnowsItsClient, Closed
<1> QED BY <1>1, <1>2, <1>4, <1>5, <1>6, <1>7, TextStep

LEMMA TextTalks ==
    ASSUME Core, TextTurns, NEW c0 \in Clients,
           \/ Receive(c0) \/ Request(c0) \/ Leave(c0) \/ SendQuit(c0) \/ Kill(c0) \/ HangUp(c0)
    PROVE  TextTurns'
<1> SUFFICES ASSUME Text, ~raced PROVE TextTurns'
  BY DEF Receive, Request, Leave, SendQuit, Kill, HangUp, TextTurns, Text
<1> USE ClientTypes
<1>0. /\ Connected(c0) => Turn(c0)
      /\ Awaits(c0) => Unwelcomed(c0)
      /\ Clean(c0) /\ (ReplyTo(c0)' <=> ReplyTo(c0)) /\ (QuitOf(c0)' <=> QuitOf(c0))
  BY DEF TextTurns, ReplyTo, QuitOf, Receive, Request, Leave, SendQuit, Kill, HangUp
<1>1. CASE Receive(c0)
  <2>1. /\ cpc[c0] \in {"welcome", "answer"} /\ toClient[c0] # <<>>
        /\ cpc' = [cpc EXCEPT ![c0] = "prompt"]
        /\ toClient' = [toClient EXCEPT ![c0] = Tail(@)]
        /\ UNCHANGED <<program, serverVars, backlog, conn, toServer>>
    BY <1>1 DEF Receive, Goto
  <2>2. /\ cpc'[c0] = "prompt" /\ toClient'[c0] = Tail(toClient[c0]) /\ ~Closed(c0)
        /\ \A c \in Clients : c # c0 => cpc'[c] = cpc[c] /\ toClient'[c] = toClient[c]
    BY <2>1 DEF Closed, Gone
  <2>3. Len(toClient[c0]) = 1 => Tail(toClient[c0]) = <<>>
    BY LastTail
  <2>4. Connected(c0) => Turn(c0)'
    <3>1. Len(toClient[c0]) \in Nat \ {0}
      BY <2>1
    <3>2. ASSUME Connected(c0) PROVE toServer[c0] = <<>> /\ ~ReplyTo(c0) /\ ~QuitOf(c0) /\ Len(toClient[c0]) = 1
      <4>1. CASE cpc[c0] = "welcome"
        <5>1. toServer[c0] = <<>> /\ ~ReplyTo(c0) /\ ~QuitOf(c0)
          BY <1>0, <3>2, <4>1, Zenon DEF Turn
        <5>2. Len(toClient[c0]) <= 1
          BY <1>0, <3>2, <4>1, Zenon DEF Turn
        <5>3. \A k \in Nat \ {0} : k <= 1 => k = 1
          OBVIOUS
        <5>4. Len(toClient[c0]) = 1
          BY <3>1, <5>2, <5>3, Zenon
        <5> QED BY <5>1, <5>4, Zenon
      <4>2. CASE cpc[c0] = "answer"
        BY <1>0, <2>1, <3>2, <4>2, Zenon DEF Turn
      <4> QED BY <2>1, <4>1, <4>2
    <3> QED BY <1>0, <2>1, <2>2, <2>3, <3>2 DEF Turn
  <2>5. Clean(c0)'
    <3>1. /\ Len(Tail(toClient[c0])) = Len(toClient[c0]) - 1
          /\ \A k \in 1 .. Len(toClient[c0]) - 1 : Tail(toClient[c0])[k] = toClient[c0][k + 1]
          /\ Len(toClient[c0]) \in Nat
      BY <2>1
    <3> QED BY <1>0, <2>2, <3>1 DEF Clean
  <2>6. ~Awaits(c0)
    BY <1>0, <2>1 DEF Unwelcomed
  <2> QED BY <2>1, <2>2, <2>4, <2>5, <2>6, TextClient
<1>2. CASE Request(c0)
  <2>1. /\ cpc[c0] = "prompt" /\ cpc' = [cpc EXCEPT ![c0] = "answer"]
        /\ toServer' = [toServer EXCEPT ![c0] = Append(@, "text")]
        /\ UNCHANGED <<program, serverVars, backlog, conn, toClient>>
    BY <1>2, Classes DEF Request, Goto
  <2>2. /\ cpc'[c0] = "answer" /\ toServer'[c0] = Append(toServer[c0], "text") /\ ~Closed(c0)
        /\ \A c \in Clients : c # c0 => cpc'[c] = cpc[c] /\ toServer'[c] = toServer[c]
    BY <2>1 DEF Closed, Gone
  <2>3. toServer[c0] = <<>> => toServer'[c0] = <<"text">>
    BY <2>2
  <2>4. (Connected(c0) => Turn(c0)') /\ Clean(c0)'
    BY <1>0, <2>1, <2>2, <2>3 DEF Turn, Clean
  <2>5. ~Awaits(c0)
    BY <1>0, <2>1 DEF Unwelcomed
  <2> QED BY <2>1, <2>2, <2>4, <2>5, TextClient
<1>3. CASE SendQuit(c0)
  <2>1. /\ cpc[c0] = "prompt" /\ cpc' = [cpc EXCEPT ![c0] = "quitted"]
        /\ toServer' = [toServer EXCEPT ![c0] = Append(@, "quit")]
        /\ UNCHANGED <<program, serverVars, backlog, conn, toClient>>
    BY <1>3 DEF SendQuit, Goto
  <2>2. /\ cpc'[c0] = "quitted" /\ toServer'[c0] = Append(toServer[c0], "quit") /\ ~Closed(c0)
        /\ \A c \in Clients : c # c0 => cpc'[c] = cpc[c] /\ toServer'[c] = toServer[c]
    BY <2>1 DEF Closed, Gone
  <2>3. toServer[c0] = <<>> => toServer'[c0] = <<"quit">>
    BY <2>2
  <2>4. (Connected(c0) => Turn(c0)') /\ Clean(c0)'
    BY <1>0, <2>1, <2>2, <2>3 DEF Turn, Clean
  <2>5. ~Awaits(c0)
    BY <1>0, <2>1 DEF Unwelcomed
  <2> QED BY <2>1, <2>2, <2>4, <2>5, TextClient
<1>4. CASE Leave(c0) \/ Kill(c0) \/ HangUp(c0)
  <2>1. PICK p \in {"closed", "killed", "deserted", "dropped"} :
           /\ cpc' = [cpc EXCEPT ![c0] = p]
           /\ Awaits(c0) => p \in {"killed", "dropped"}
    <3>1. CASE Leave(c0)
      BY <1>0, <3>1 DEF Leave, Goto, Unwelcomed
    <3>2. CASE Kill(c0)
      BY <1>0, <3>2 DEF Kill, Goto, Unwelcomed
    <3>3. CASE HangUp(c0)
      BY <3>3 DEF HangUp, Goto
    <3> QED BY <1>4, <3>1, <3>2, <3>3
  <2>2. UNCHANGED <<program, serverVars, net>> /\ ~Closed(c0)
    BY <1>4 DEF Leave, Kill, HangUp, Closed, Gone
  <2>3. cpc'[c0] = p /\ \A c \in Clients : c # c0 => cpc'[c] = cpc[c]
    BY <2>1
  <2>4. Turn(c0)' /\ Clean(c0)' /\ (Awaits(c0) => Unwelcomed(c0)')
    BY <1>0, <2>1, <2>2, <2>3 DEF Turn, Clean, Unwelcomed
  <2> QED BY <2>2, <2>3, <2>4, TextClient
<1> QED BY <1>1, <1>2, <1>3, <1>4

LEMMA TextServerGone ==
    ASSUME Core, TextTurns, ServerGone
    PROVE  TextTurns'
<1> SUFFICES ASSUME Text, ~raced PROVE TextTurns'
  BY DEF ServerGone, TextTurns, Text
<1>1. /\ UNCHANGED <<program, serverVars, net>>
      /\ \A c \in Clients : cpc'[c] = cpc[c] \/ (~Closed(c) /\ cpc'[c] = "dropped")
  BY DEF ServerGone
<1>2. \A c \in Clients : (ReplyTo(c)' <=> ReplyTo(c)) /\ (QuitOf(c)' <=> QuitOf(c))
  BY <1>1 DEF ReplyTo, QuitOf
<1>3. \A c : (Connected(c)' <=> Connected(c)) /\ (Awaits(c)' <=> Awaits(c))
  BY <1>1 DEF Connected, Open, Awaits
<1>4. ASSUME NEW c \in Clients, Connected(c)' PROVE Turn(c)'
  <2>1. CASE cpc'[c] = cpc[c]
    BY <1>1, <1>2, <1>3, <1>4, <2>1, TurnFrame DEF TextTurns
  <2>2. CASE cpc'[c] = "dropped"
    BY <2>2 DEF Turn
  <2> QED BY <1>1, <2>1, <2>2
<1>5. \A c \in Clients : Awaits(c)' => Unwelcomed(c)'
  BY <1>1, <1>3 DEF TextTurns, Unwelcomed
<1>6. ASSUME NEW t \in Threads PROVE KnowsItsClient(t)'
  <2>1. tpc[t] = "reply" => conn[fd[t]] \in Clients
    BY Speaks
  <2>2. \A c \in Clients : Closed(c) => Closed(c)'
    BY <1>1 DEF Closed
  <2> QED BY <1>1, <2>1, <2>2 DEF TextTurns, KnowsItsClient
<1>7. \A c \in Clients : Clean(c)'
  BY <1>1 DEF TextTurns, Clean
<1> QED BY <1>4, <1>5, <1>6, <1>7 DEF TextTurns

\* The other steps are not those of servers of texts.
LEMMA NotText ==
    ASSUME Core, Text
    PROVE  /\ \A t \in Threads : /\ ~Readn(t) /\ ~Writen(t) /\ ~bc(t)
                                 /\ ~CallPipe(t) /\ ~Calculate(t)
           /\ \A c \in Clients : ~Send(c) /\ ~Read(c)
<1>1. ~Frames /\ ~Direct
  BY Classes
<1> QED BY <1>1 DEF Readn, Writen, CallPipe, Calculate, bc, Send, Read, Core, Modes

LEMMA ProgramStays ==
    ASSUME [Next]_vars
    PROVE  program' = program
BY Steps, Zenon DEF vars, ServerStep, ThreadStep, ClientStep, ServerGone, CallAccept, Accept, Welcome,
   Spawn, InsertNode, Closing, Return, CallSelect, EndScan, AcceptSelected, ServeSelected, Signal,
   CloseListening, ExitSuccess, Start, RemoveNode, CallRead, ReadReturns, Reply, CloseQuit,
   CloseAgain, Readn, Writen, CallPipe, Calculate, bc, CloseClient, Connect, Receive, Request, Leave, SendQuit, Kill,
   HangUp, Send, Read

LEMMA TextStays ==
    ASSUME Core, TextTurns, [Next]_vars
    PROVE  TextTurns'
<1>0. SUFFICES ASSUME Text PROVE TextTurns'
  <2>1. program' = program
    BY ProgramStays
  <2> QED BY <2>1 DEF TextTurns, Text
<1>1. CASE UNCHANGED vars
  BY <1>1, TextFrame DEF vars
<1>2. CASE ServerStep
  BY <1>2, QuietText, TextAccept, TextWelcome, TextAcceptSelected, Zenon DEF ServerStep
<1>3. ASSUME NEW t \in Threads, ThreadStep(t) PROVE TextTurns'
  BY <1>0, <1>3, NotText, QuietThreads, TextCallRead, TextReadReturns, TextReply, TextCloseQuit, Zenon
  DEF ThreadStep
<1>4. ASSUME NEW c \in Clients, ClientStep(c) PROVE TextTurns'
  BY <1>0, <1>4, NotText, TextConnect, TextTalks, Zenon DEF ClientStep
<1>5. CASE ServerGone
  BY <1>5, TextServerGone
<1> QED BY <1>1, <1>2, <1>3, <1>4, <1>5, Steps

LEMMA TextInit ==
    ASSUME Init
    PROVE  TextTurns
<1>1. /\ Open = {} /\ \A c : ~Has(backlog, c)
      /\ mpc # "welcome" /\ \A c \in Clients : toClient[c] = <<>>
      /\ \A t \in Threads : tpc[t] \in {"take", "none"}
  BY DEF Init, InitClients, Open, Has
<1> QED BY <1>1 DEF TextTurns, Connected, Awaits, KnowsItsClient, Clean

(* As long as no descriptor has been mixed up, each client of texts and    *)
(* its server take turns, and no client is sent the answer to another one. *)
THEOREM TextTurnsCorrect == Spec => []TextTurns
<1>1. Init => Core /\ TextTurns
  BY CoreInit, TextInit
<1>2. Core /\ TextTurns /\ [Next]_vars => (Core /\ TextTurns)'
  BY CoreStep, TextStays
<1> QED BY <1>1, <1>2, PTL DEF Spec

-----------------------------------------------------------------------------
(* The streams of the servers of frames.                                   *)

LEMMA StreamLen ==
    ASSUME NEW s, NEW a, NEW b, NEW u, NEW v, Stream(s, a, b, u, v)
    PROVE  a \in Nat /\ b \in Nat /\ Len(s) = a + b
BY DEF Stream

LEMMA StreamEmpty ==
    ASSUME NEW T, NEW s \in Seq(T), NEW u, NEW v
    PROVE  Stream(s, 0, 0, u, v) <=> s = <<>>
<1>1. ASSUME Stream(s, 0, 0, u, v) PROVE s = <<>>
  <2>1. Len(s) = 0
    BY <1>1 DEF Stream
  <2> QED BY <2>1, EmptySeq
<1>2. ASSUME s = <<>> PROVE Stream(s, 0, 0, u, v)
  <2>1. Len(s) = 0
    BY <1>2, EmptySeq
  <2> QED BY <2>1 DEF Stream
<1> QED BY <1>1, <1>2

\* The first n units are read: they are all u, or there are none.
LEMMA StreamDrop ==
    ASSUME NEW T, NEW s \in Seq(T), NEW n \in Nat, n <= Len(s),
           NEW a, NEW b, NEW u, NEW v, Stream(s, a, b, u, v)
    PROVE  /\ n <= a => Stream(Drop(n, s), a - n, b, u, v)
           /\ a = 0 => Stream(Drop(n, s), 0, b - n, u, v)
<1> DEFINE q == Drop(n, s)
<1>1. /\ Len(q) = Len(s) - n /\ \A k \in 1 .. Len(s) - n : q[k] = s[n + k]
      /\ a \in Nat /\ b \in Nat /\ Len(s) = a + b
      /\ \A k \in 1 .. Len(s) : s[k] = IF k <= a THEN u ELSE v
  BY DropFacts DEF Stream
<1> HIDE DEF q
<1>2. ASSUME n <= a PROVE Stream(q, a - n, b, u, v)
  <2>1. a - n \in Nat /\ Len(q) = (a - n) + b
    BY <1>1, <1>2
  <2>2. ASSUME NEW k \in 1 .. Len(q) PROVE q[k] = IF k <= a - n THEN u ELSE v
    <3>1. /\ k \in 1 .. Len(s) - n /\ n + k \in 1 .. Len(s) /\ (n + k <= a <=> k <= a - n)
      BY <1>1
    <3> QED BY <1>1, <3>1
  <2> QED BY <1>1, <2>1, <2>2 DEF Stream
<1>3. ASSUME a = 0 PROVE Stream(q, 0, b - n, u, v)
  <2>1. b - n \in Nat /\ Len(q) = 0 + (b - n)
    BY <1>1, <1>3
  <2>2. ASSUME NEW k \in 1 .. Len(q) PROVE q[k] = IF k <= 0 THEN u ELSE v
    <3>1. /\ k \in 1 .. Len(s) - n /\ n + k \in 1 .. Len(s) /\ ~(n + k <= a) /\ ~(k <= 0)
      BY <1>1, <1>3
    <3> QED BY <1>1, <3>1
  <2> QED BY <1>1, <2>1, <2>2 DEF Stream
<1> QED BY <1>2, <1>3 DEF q

\* n units w have been appended to s.
Appended(q, s, n, w) ==
    /\ Len(q) = Len(s) + n
    /\ \A k \in 1 .. Len(s) : q[k] = s[k]
    /\ \A k \in Len(s) + 1 .. Len(s) + n : q[k] = w

\* n units are written: they are v, or u if there is no v.
LEMMA StreamAppend ==
    ASSUME NEW s, NEW q, NEW n \in Nat, NEW a, NEW b, NEW u, NEW v, NEW w,
           Stream(s, a, b, u, v), Appended(q, s, n, w)
    PROVE  /\ w = u /\ b = 0 => Stream(q, a + n, 0, u, v)
           /\ w = v => Stream(q, a, b + n, u, v)
<1>1. /\ a \in Nat /\ b \in Nat /\ Len(s) = a + b
      /\ \A k \in 1 .. Len(s) : s[k] = IF k <= a THEN u ELSE v
  BY DEF Stream
<1>4. /\ Len(q) = Len(s) + n
      /\ \A k \in 1 .. Len(s) : q[k] = s[k]
      /\ \A k \in Len(s) + 1 .. Len(s) + n : q[k] = w
  BY DEF Appended
<1>2. ASSUME w = u, b = 0 PROVE Stream(q, a + n, 0, u, v)
  <2>1. Len(q) = Len(s) + n
    BY <1>4
  <2>2. a + n \in Nat /\ Len(q) = (a + n) + 0
    BY <1>1, <1>2, <2>1
  <2>3. ASSUME NEW k \in 1 .. Len(q) PROVE q[k] = IF k <= a + n THEN u ELSE v
    <3>1. k <= a + n /\ (k \in 1 .. Len(s) \/ k \in Len(s) + 1 .. Len(s) + n)
      BY <1>1, <1>2, <2>1
    <3>2. k \in 1 .. Len(s) => k <= a
      BY <1>1, <1>2
    <3> QED BY <1>1, <1>2, <1>4, <3>1, <3>2
  <2>4. Stream(q, a + n, 0, u, v)
    BY <2>2, <2>3 DEF Stream
  <2> QED BY <2>4
<1>3. ASSUME w = v PROVE Stream(q, a, b + n, u, v)
  <2>1. Len(q) = Len(s) + n
    BY <1>4
  <2>2. b + n \in Nat /\ Len(q) = a + (b + n)
    BY <1>1, <2>1
  <2>3. ASSUME NEW k \in 1 .. Len(q) PROVE q[k] = IF k <= a THEN u ELSE v
    <3>1. k \in 1 .. Len(s) \/ (k \in Len(s) + 1 .. Len(s) + n /\ ~(k <= a))
      BY <1>1, <2>1
    <3> QED BY <1>1, <1>3, <1>4, <3>1
  <2>4. Stream(q, a, b + n, u, v)
    BY <1>1, <2>2, <2>3 DEF Stream
  <2> QED BY <2>4
<1> QED BY <1>2, <1>3


\* n of the b units to go in the part p of a frame pass; next comes after it.
Passes(n, p, b, next, p1, b1) ==
    /\ n \in 1 .. b
    /\ n # b => p1 = p /\ b1 = b - n
    /\ n = b => p1 = next /\ b1 = Units

\* The server reads n units of its part of a frame.
LEMMA ServerReads ==
    ASSUME NEW c, NEW pc \in ClientPlaces, NEW a, NEW in \in Seq(Requests), NEW out,
           out \in Seq(Answers), NEW p \in {"len", "body"}, NEW b, NEW next,
           p = "len" => next = "body", p = "body" => next = "wlen",
           NEW n, n <= Len(in), NEW q, q = Drop(n, in),
           NEW p1, NEW b1, Passes(n, p, b, next, p1, b1),
           Meet(program, c, pc, a, in, out, p, b)
    PROVE  Meet(program, c, pc, a, q, out, p1, b1)
<1> USE DEF Passes
<1> DEFINE S(s, x, y) == Stream(s, x, y, "len", "body")
<1>1. /\ b \in 1 .. Units /\ n \in Nat \ {0} /\ Units \in Nat \ {0}
      /\ b1 \in 1 .. Units
  BY Constants DEF Meet
<1>2. \A x, y : S(in, x, y) =>
          /\ x \in Nat /\ y \in Nat /\ Len(in) = x + y
          /\ n <= x => S(q, x - n, y)
          /\ x = 0 => S(q, 0, y - n)
  BY <1>1, StreamLen, StreamDrop
<1>3. in # <<>> /\ (S(q, 0, 0) <=> q = <<>>) /\ (Stream(out, 0, 0, "len", c) <=> out = <<>>)
  <2>1. Len(<<>>) = 0
    BY EmptySeq
  <2>2. in # <<>>
    BY <1>1, <2>1
  <2>3. q \in Seq(Requests)
    BY <1>1, DropFacts
  <2> QED BY <2>2, <2>3, StreamEmpty
<1> HIDE DEF S
<1>4. pc \notin {"prompt", "rbody", "closed"}
  BY <1>3 DEF Meet
<1>5. CASE pc = "len"
  <2>1. p = "len" /\ a \in 1 .. Units /\ a <= b /\ S(in, b - a, 0) /\ out = <<>>
    BY <1>5 DEF Meet, S
  <2>2. n < b /\ a <= b - n /\ S(q, (b - a) - n, 0) /\ (b - a) - n = (b - n) - a
    BY <1>1, <1>2, <2>1
  <2>3. p1 = "len" /\ b1 = b - n
    BY <1>1, <2>1, <2>2
  <2>4. Meet(program, c, pc, a, q, out, p1, b1)
    BY <1>1, <1>5, <2>1, <2>2, <2>3 DEF Meet, S
  <2> QED BY <2>4
<1>6. CASE pc = "body"
  <2>1. /\ a \in 1 .. Units /\ out = <<>>
        /\ \/ p = "len" /\ S(in, b, Units - a)
           \/ p = "body" /\ a <= b /\ S(in, 0, b - a)
    BY <1>6 DEF Meet, S
  <2>2. \/ p1 = "len" /\ S(q, b1, Units - a)
        \/ p1 = "body" /\ a <= b1 /\ S(q, 0, b1 - a)
    <3>1. CASE p = "len" /\ S(in, b, Units - a)
      <4>0. n <= b
        BY <1>1
      <4>1. S(q, b - n, Units - a)
        BY <1>2, <3>1, <4>0, Zenon
      <4>2. CASE n # b
        BY <3>1, <4>1, <4>2
      <4>3. CASE n = b
        <5>1. b - n = 0 /\ p1 = "body" /\ b1 = Units
          BY <1>1, <3>1, <4>3
        <5> QED BY <1>1, <2>1, <4>1, <5>1
      <4> QED BY <4>2, <4>3
    <3>2. CASE p = "body" /\ a <= b /\ S(in, 0, b - a)
      <4>1. n < b /\ a <= b - n /\ S(q, 0, (b - a) - n) /\ (b - a) - n = (b - n) - a
        BY <1>1, <1>2, <2>1, <3>2
      <4>2. p1 = "body" /\ b1 = b - n
        BY <1>1, <3>2, <4>1
      <4> QED BY <4>1, <4>2
    <3> QED BY <2>1, <3>1, <3>2
  <2>3. Meet(program, c, pc, a, q, out, p1, b1)
    BY <1>1, <1>6, <2>1, <2>2 DEF Meet, S
  <2> QED BY <2>3
<1>7. CASE pc = "rlen"
  <2>1. /\ a = Units /\ out = <<>>
        /\ \/ p = "len" /\ S(in, b, Units)
           \/ p = "body" /\ S(in, 0, b)
    BY <1>3, <1>7 DEF Meet, S
  <2>2. \/ p1 = "len" /\ S(q, b1, Units)
        \/ p1 = "body" /\ S(q, 0, b1)
        \/ p1 = "wlen" /\ b1 = Units /\ q = <<>>
    <3>1. CASE p = "len" /\ S(in, b, Units)
      <4>0. n <= b
        BY <1>1
      <4>1. S(q, b - n, Units)
        BY <1>2, <3>1, <4>0, Zenon
      <4>2. CASE n # b
        BY <3>1, <4>1, <4>2
      <4>3. CASE n = b
        <5>1. b - n = 0 /\ p1 = "body" /\ b1 = Units
          BY <1>1, <3>1, <4>3
        <5> QED BY <4>1, <5>1
      <4> QED BY <4>2, <4>3
    <3>2. CASE p = "body" /\ S(in, 0, b)
      <4>1. S(q, 0, b - n)
        BY <1>2, <3>2
      <4>2. CASE n # b
        BY <3>2, <4>1, <4>2
      <4>3. CASE n = b
        <5>1. b - n = 0 /\ p1 = "wlen" /\ b1 = Units
          BY <1>1, <3>2, <4>3
        <5> QED BY <1>3, <4>1, <5>1
      <4> QED BY <4>2, <4>3
    <3> QED BY <2>1, <3>1, <3>2
  <2>3. Stream(out, Units - Units, 0, "len", c)
    BY <1>1, <1>3, <2>1
  <2>4. Meet(program, c, pc, a, q, out, p1, b1)
    BY <1>1, <1>7, <2>1, <2>2, <2>3 DEF Meet, S
  <2> QED BY <2>4
<1>8. ASSUME NEW k \in {0, 1}, Unread(in, p, b, k)
      PROVE  Unread(q, p1, b1, k) \/ (k = 0 /\ p1 = "wlen")
  <2>1. CASE p = "len"
    <3>1. PICK x \in 0 .. b, y \in 0 .. Units - k : S(in, x, y) /\ (y > 0 => x = b)
      BY <1>8, <2>1 DEF Unread, S
    <3>2. Len(in) = x + y
      BY <1>2, <3>1, Zenon
    <3>3. n <= x
      BY <1>1, <3>1, <3>2
    <3>4. S(q, x - n, y)
      BY <1>2, <3>1, <3>3, Zenon
    <3>5. CASE n # b
      <4>1. p1 = "len" /\ b1 = b - n /\ x - n \in 0 .. b1 /\ (y > 0 => x - n = b1)
        BY <1>1, <2>1, <3>1, <3>3, <3>5
      <4> QED BY <3>4, <4>1 DEF Unread, S
    <3>6. CASE n = b
      <4>1. p1 = "body" /\ b1 = Units /\ x - n = 0
        BY <1>1, <2>1, <3>1, <3>3, <3>6
      <4> QED BY <3>4, <4>1 DEF Unread, S
    <3> QED BY <3>5, <3>6
  <2>2. CASE p = "body"
    <3>1. PICK y \in 0 .. b - k : S(in, 0, y)
      BY <1>8, <2>2 DEF Unread, S
    <3>2. S(q, 0, y - n) /\ n <= y
      BY <1>2, <3>1
    <3>3. CASE n # b
      <4>1. p1 = "body" /\ b1 = b - n /\ y - n \in 0 .. b1 - k
        BY <1>1, <2>2, <3>1, <3>2, <3>3
      <4> QED BY <3>2, <4>1 DEF Unread, S
    <3>4. CASE n = b
      <4>1. p1 = "wlen" /\ k = 0
        BY <1>1, <2>2, <3>1, <3>2, <3>4
      <4> QED BY <4>1
    <3> QED BY <3>3, <3>4
  <2> QED BY <2>1, <2>2
<1>9. CASE pc = "killed"
  <2>1. Unread(in, p, b, 1) /\ out = <<>>
    BY <1>9 DEF Meet
  <2>2. Unread(q, p1, b1, 1)
    BY <1>8, <2>1
  <2>3. Meet(program, c, pc, a, q, out, p1, b1)
    BY <1>1, <1>9, <2>1, <2>2 DEF Meet
  <2> QED BY <2>3
<1>10. CASE pc = "deserted"
  <2>1. Unread(in, p, b, 0)
    BY <1>10 DEF Meet
  <2>2. Unread(q, p1, b1, 0) \/ p1 = "wlen"
    BY <1>8, <2>1
  <2>3. Meet(program, c, pc, a, q, out, p1, b1)
    BY <1>1, <1>10, <2>2 DEF Meet
  <2> QED BY <2>3
<1>11. CASE pc \notin {"prompt", "len", "body", "rlen", "rbody", "closed", "killed", "deserted"}
  <2>1. Meet(program, c, pc, a, q, out, p1, b1)
    BY <1>1, <1>11 DEF Meet
  <2> QED BY <2>1
<1> QED BY <1>4, <1>5, <1>6, <1>7, <1>9, <1>10, <1>11

\* The server finds an end of file, or a reset.
LEMMA ServerEof ==
    ASSUME NEW c, NEW pc, NEW a, NEW in \in Seq(Requests), NEW out,
           NEW p \in {"len", "body"}, NEW b, in = <<>>, pc \in {"closed", "killed", "deserted"},
           Meet(program, c, pc, a, in, out, p, b),
           p = "body" => program = "toup_server",
           p = "len" => program = "bcserver"
    PROVE  Meet(program, c, pc, a, in, out, IF p = "len" THEN "body" ELSE "wlen", Units)
<1> DEFINE p1 == IF p = "len" THEN "body" ELSE "wlen"
<1>1. Stream(in, 0, 0, "len", "body")
  BY StreamEmpty
<1>2. Units \in Nat \ {0} /\ 0 \in 0 .. Units - 1 /\ 0 \in 0 .. Units - 0 /\ Units \in 1 .. Units
  BY Constants
<1>3. p = "len" => Unread(in, "body", Units, 1) /\ Unread(in, "body", Units, 0)
  BY <1>1, <1>2 DEF Unread
<1>4. pc = "closed" => p = "len"
  BY DEF Meet
<1> QED BY <1>2, <1>3, <1>4 DEF Meet

\* The server writes n units of its part of a frame.
LEMMA ServerWrites ==
    ASSUME NEW c, NEW pc, NEW a, NEW in, NEW out, NEW p, NEW b, NEW next, NEW v, NEW n, NEW q,
           NEW p1, NEW b1, Meet(program, c, pc, a, in, out, p, b),
           Passes(n, p, b, next, p1, b1), Appended(q, out, n, v),
           c \in Clients, pc \in ClientPlaces \ Gone, in \in Seq(Requests), out \in Seq(Answers),
           p \in {"wlen", "wbody"}, p = "wlen" => next = "wbody" /\ v = "len",
           p = "wbody" => next = "len" /\ v = c
    PROVE  Meet(program, c, pc, a, in, q, p1, b1)
<1> USE DEF Passes
<1> DEFINE S(s, x, y) == Stream(s, x, y, "len", c)
<1>1. /\ b \in 1 .. Units /\ n \in Nat \ {0} /\ Units \in Nat \ {0} /\ n <= b
      /\ b1 \in 1 .. Units
  BY Constants DEF Meet
<1> HIDE DEF S
<1>2. \A x, y : S(out, x, y) =>
          /\ x \in Nat /\ y \in Nat
          /\ p = "wlen" /\ y = 0 => S(q, x + n, 0)
          /\ p = "wbody" => S(q, x, y + n)
  <2>1. v \in Answers /\ (p = "wlen" => v = "len") /\ (p = "wbody" => v = c)
    BY DEF Answers
  <2>2. ASSUME NEW x, NEW y, S(out, x, y)
        PROVE  /\ x \in Nat /\ y \in Nat
               /\ p = "wlen" /\ y = 0 => S(q, x + n, 0)
               /\ p = "wbody" => S(q, x, y + n)
    <3>1. x \in Nat /\ y \in Nat
      BY <2>2, StreamLen DEF S
    <3>2. n \in Nat
      BY <1>1
    <3>3. /\ v = "len" /\ y = 0 => S(q, x + n, 0)
          /\ v = c => S(q, x, y + n)
      BY <2>2, <3>2, StreamAppend DEF S
    <3> QED BY <2>1, <3>1, <3>3
  <2> QED BY <2>2
<1>3. CASE pc = "rlen" /\ p = "wlen"
  <2>1. a \in 1 .. Units /\ b <= a /\ in = <<>> /\ S(out, a - b, 0)
    BY <1>3 DEF Meet, S
  <2>2. S(q, (a - b) + n, 0)
    BY <1>2, <1>3, <2>1, Zenon
  <2>3. CASE n # b
    <3>1. p1 = "wlen" /\ b1 = b - n /\ b1 <= a /\ (a - b) + n = a - b1
      BY <1>1, <1>3, <2>1, <2>3
    <3>2. Meet(program, c, pc, a, in, q, p1, b1)
      BY <1>1, <1>3, <2>1, <2>2, <3>1 DEF Meet, S
    <3> QED BY <3>2
  <2>4. CASE n = b
    <3>1. p1 = "wbody" /\ b1 = Units /\ (a - b) + n = a /\ Units - b1 = 0
      BY <1>1, <1>3, <2>1, <2>4
    <3>2. Meet(program, c, pc, a, in, q, p1, b1)
      BY <1>1, <1>3, <2>1, <2>2, <3>1 DEF Meet, S
    <3> QED BY <3>2
  <2> QED BY <2>3, <2>4
<1>4. CASE pc = "rlen" /\ p = "wbody"
  <2>1. a \in 1 .. Units /\ in = <<>> /\ S(out, a, Units - b)
    BY <1>4 DEF Meet, S
  <2>2. S(q, a, (Units - b) + n)
    BY <1>2, <1>4, <2>1, Zenon
  <2>3. CASE n # b
    <3>1. p1 = "wbody" /\ b1 = b - n /\ (Units - b) + n = Units - b1
      BY <1>1, <1>4, <2>3
    <3>2. Meet(program, c, pc, a, in, q, p1, b1)
      BY <1>1, <1>4, <2>1, <2>2, <3>1 DEF Meet, S
    <3> QED BY <3>2
  <2>4. CASE n = b
    <3>1. p1 = "len" /\ b1 = Units /\ (Units - b) + n = Units
      BY <1>1, <1>4, <2>4
    <3>2. Meet(program, c, pc, a, in, q, p1, b1)
      BY <1>1, <1>4, <2>1, <2>2, <3>1 DEF Meet, S
    <3> QED BY <3>2
  <2> QED BY <2>3, <2>4
<1>5. CASE pc = "rbody"
  <2>1. a \in 1 .. Units /\ b <= a /\ in = <<>> /\ S(out, 0, a - b) /\ p = "wbody"
    BY <1>5 DEF Meet, S
  <2>2. S(q, 0, (a - b) + n)
    BY <1>2, <2>1, Zenon
  <2>3. CASE n # b
    <3>1. p1 = "wbody" /\ b1 = b - n /\ b1 <= a /\ (a - b) + n = a - b1
      BY <1>1, <2>1, <2>3
    <3>2. Meet(program, c, pc, a, in, q, p1, b1)
      BY <1>1, <1>5, <2>1, <2>2, <3>1 DEF Meet, S
    <3> QED BY <3>2
  <2>4. CASE n = b
    <3>1. p1 = "len" /\ b1 = Units /\ (a - b) + n = a
      BY <1>1, <2>1, <2>4
    <3>2. Meet(program, c, pc, a, in, q, p1, b1)
      BY <1>1, <1>5, <2>1, <2>2, <3>1 DEF Meet, S
    <3> QED BY <3>2
  <2> QED BY <2>3, <2>4
<1>6. pc \notin {"prompt", "len", "body"}
  BY DEF Meet
<1>7. CASE pc \in {"start", "welcome", "answer"}
  <2>1. Meet(program, c, pc, a, in, q, p1, b1)
    BY <1>1, <1>7 DEF Meet
  <2> QED BY <2>1
<1> QED BY <1>3, <1>4, <1>5, <1>6, <1>7 DEF ClientPlaces

\* The client sends n units of its request.
LEMMA ClientSends ==
    ASSUME NEW c \in Clients, NEW pc \in {"len", "body"}, NEW a, NEW in \in Seq(Requests),
           NEW out \in Seq(Answers), NEW p, NEW b, NEW next,
           pc = "len" => next = "body", pc = "body" => next = "rlen",
           NEW n, NEW q, Appended(q, in, n, pc),
           NEW pc1, NEW a1, Passes(n, pc, a, next, pc1, a1),
           Meet(program, c, pc, a, in, out, p, b)
    PROVE  Meet(program, c, pc1, a1, q, out, p, b)
<1> USE DEF Passes
<1> DEFINE S(s, x, y) == Stream(s, x, y, "len", "body")
<1>1. /\ b \in 1 .. Units /\ a \in 1 .. Units /\ n \in Nat \ {0} /\ Units \in Nat \ {0} /\ n <= a
      /\ a1 \in 1 .. Units /\ out = <<>>
  BY Constants DEF Meet
<1> HIDE DEF S
<1>2. \A x, y : S(in, x, y) =>
          /\ x \in Nat /\ y \in Nat
          /\ pc = "len" /\ y = 0 => S(q, x + n, 0)
          /\ pc = "body" => S(q, x, y + n)
  <2>1. pc \in Requests
    BY DEF Requests
  <2>2. ASSUME NEW x, NEW y, S(in, x, y)
        PROVE  /\ x \in Nat /\ y \in Nat
               /\ pc = "len" /\ y = 0 => S(q, x + n, 0)
               /\ pc = "body" => S(q, x, y + n)
    <3>1. x \in Nat /\ y \in Nat
      BY <2>2, StreamLen DEF S
    <3>2. n \in Nat
      BY <1>1
    <3>3. /\ pc = "len" /\ y = 0 => S(q, x + n, 0)
          /\ pc = "body" => S(q, x, y + n)
      BY <2>2, <3>2, StreamAppend DEF S
    <3> QED BY <2>1, <3>1, <3>3
  <2> QED BY <2>2
<1>3. CASE pc = "len"
  <2>1. p = "len" /\ a <= b /\ S(in, b - a, 0)
    BY <1>3 DEF Meet, S
  <2>2. S(q, (b - a) + n, 0)
    BY <1>2, <1>3, <2>1, Zenon
  <2>3. CASE n # a
    <3>1. pc1 = "len" /\ a1 = a - n /\ a1 <= b /\ (b - a) + n = b - a1
      BY <1>1, <1>3, <2>1, <2>3
    <3>2. Meet(program, c, pc1, a1, q, out, p, b)
      BY <1>1, <2>1, <2>2, <3>1 DEF Meet, S
    <3> QED BY <3>2
  <2>4. CASE n = a
    <3>1. pc1 = "body" /\ a1 = Units /\ (b - a) + n = b /\ Units - a1 = 0
      BY <1>1, <1>3, <2>1, <2>4
    <3>2. Meet(program, c, pc1, a1, q, out, p, b)
      BY <1>1, <2>1, <2>2, <3>1 DEF Meet, S
    <3> QED BY <3>2
  <2> QED BY <2>3, <2>4
<1>4. CASE pc = "body" /\ p = "len"
  <2>1. S(in, b, Units - a)
    BY <1>4 DEF Meet, S
  <2>2. S(q, b, (Units - a) + n)
    BY <1>2, <1>4, <2>1, Zenon
  <2>3. CASE n # a
    <3>1. pc1 = "body" /\ a1 = a - n /\ (Units - a) + n = Units - a1
      BY <1>1, <1>4, <2>3
    <3>2. Meet(program, c, pc1, a1, q, out, p, b)
      BY <1>1, <1>4, <2>2, <3>1 DEF Meet, S
    <3> QED BY <3>2
  <2>4. CASE n = a
    <3>1. pc1 = "rlen" /\ a1 = Units /\ (Units - a) + n = Units
      BY <1>1, <1>4, <2>4
    <3>2. Meet(program, c, pc1, a1, q, out, p, b)
      BY <1>1, <1>4, <2>2, <3>1 DEF Meet, S
    <3> QED BY <3>2
  <2> QED BY <2>3, <2>4
<1>5. CASE pc = "body" /\ p # "len"
  <2>1. p = "body" /\ a <= b /\ S(in, 0, b - a)
    BY <1>5 DEF Meet, S
  <2>2. S(q, 0, (b - a) + n)
    BY <1>2, <1>5, <2>1, Zenon
  <2>3. CASE n # a
    <3>1. pc1 = "body" /\ a1 = a - n /\ a1 <= b /\ (b - a) + n = b - a1
      BY <1>1, <1>5, <2>1, <2>3
    <3>2. Meet(program, c, pc1, a1, q, out, p, b)
      BY <1>1, <2>1, <2>2, <3>1 DEF Meet, S
    <3> QED BY <3>2
  <2>4. CASE n = a
    <3>1. pc1 = "rlen" /\ a1 = Units /\ (b - a) + n = b
      BY <1>1, <1>5, <2>1, <2>4
    <3>2. Meet(program, c, pc1, a1, q, out, p, b)
      BY <1>1, <2>1, <2>2, <3>1 DEF Meet, S
    <3> QED BY <3>2
  <2> QED BY <2>3, <2>4
<1> QED BY <1>3, <1>4, <1>5

\* The client reads n units of its answer.
LEMMA ClientReads ==
    ASSUME NEW c \in Clients, NEW pc \in {"rlen", "rbody"}, NEW a, NEW in \in Seq(Requests),
           NEW out \in Seq(Answers), NEW p, NEW b, NEW next,
           pc = "rlen" => next = "rbody", pc = "rbody" => next = "prompt",
           NEW n, n <= Len(out), NEW q, q = Drop(n, out),
           NEW pc1, NEW a1, Passes(n, pc, a, next, pc1, a1),
           Meet(program, c, pc, a, in, out, p, b)
    PROVE  Meet(program, c, pc1, a1, in, q, p, b)
<1> USE DEF Passes
<1> DEFINE S(s, x, y) == Stream(s, x, y, "len", c)
<1>1. /\ b \in 1 .. Units /\ a \in 1 .. Units /\ n \in Nat \ {0} /\ Units \in Nat \ {0} /\ n <= a
      /\ a1 \in 1 .. Units
  BY Constants DEF Meet
<1>2. ASSUME NEW x, NEW y, S(out, x, y)
      PROVE  /\ x \in Nat /\ y \in Nat /\ Len(out) = x + y
             /\ n <= x => S(q, x - n, y)
             /\ x = 0 => S(q, 0, y - n)
  BY <1>1, <1>2, StreamLen, StreamDrop
<1>3. out # <<>> /\ (S(q, 0, 0) <=> q = <<>>)
  <2>1. Len(<<>>) = 0
    BY EmptySeq
  <2>2. out # <<>>
    BY <1>1, <2>1
  <2>3. q \in Seq(Answers)
    BY <1>1, DropFacts
  <2> QED BY <2>2, <2>3, StreamEmpty
<1> HIDE DEF S
<1>4. CASE pc = "rlen"
  <2>1. /\ in = <<>>
        /\ \/ p = "wlen" /\ b <= a /\ S(out, a - b, 0)
           \/ p = "wbody" /\ S(out, a, Units - b)
           \/ p = "len" /\ b = Units /\ S(out, a, Units)
    BY <1>3, <1>4 DEF Meet, S
  <2>2. CASE p = "wlen" /\ b <= a /\ S(out, a - b, 0)
    <3>1. Len(out) = (a - b) + 0
      BY <1>2, <2>2, Zenon
    <3>2. n <= a - b /\ n # a
      BY <1>1, <2>2, <3>1
    <3>3. S(q, (a - b) - n, 0)
      BY <1>2, <2>2, <3>2, Zenon
    <3>4. pc1 = "rlen" /\ a1 = a - n /\ b <= a1 /\ (a - b) - n = a1 - b
      BY <1>1, <1>4, <2>2, <3>2
    <3>5. Meet(program, c, pc1, a1, in, q, p, b)
      BY <1>1, <2>1, <2>2, <3>3, <3>4 DEF Meet, S
    <3> QED BY <3>5
  <2>3. CASE p = "wbody" /\ S(out, a, Units - b)
    <3>1. S(q, a - n, Units - b)
      BY <1>1, <1>2, <2>3, Zenon
    <3>2. CASE n # a
      <4>1. pc1 = "rlen" /\ a1 = a - n
        BY <1>4, <3>2
      <4>2. Meet(program, c, pc1, a1, in, q, p, b)
        BY <1>1, <2>1, <2>3, <3>1, <4>1 DEF Meet, S
      <4> QED BY <4>2
    <3>3. CASE n = a
      <4>1. pc1 = "rbody" /\ a1 = Units /\ a - n = 0 /\ b <= a1
        BY <1>1, <1>4, <3>3
      <4>2. Meet(program, c, pc1, a1, in, q, p, b)
        BY <1>1, <2>1, <2>3, <3>1, <4>1 DEF Meet, S
      <4> QED BY <4>2
    <3> QED BY <3>2, <3>3
  <2>4. CASE p = "len" /\ b = Units /\ S(out, a, Units)
    <3>1. S(q, a - n, Units)
      BY <1>1, <1>2, <2>4, Zenon
    <3>2. CASE n # a
      <4>1. pc1 = "rlen" /\ a1 = a - n
        BY <1>4, <3>2
      <4>2. Meet(program, c, pc1, a1, in, q, p, b)
        BY <1>1, <2>1, <2>4, <3>1, <4>1 DEF Meet, S
      <4> QED BY <4>2
    <3>3. CASE n = a
      <4>1. pc1 = "rbody" /\ a1 = Units /\ a - n = 0
        BY <1>1, <1>4, <3>3
      <4>2. Meet(program, c, pc1, a1, in, q, p, b)
        BY <1>1, <2>1, <2>4, <3>1, <4>1 DEF Meet, S
      <4> QED BY <4>2
    <3> QED BY <3>2, <3>3
  <2> QED BY <2>1, <2>2, <2>3, <2>4
<1>5. CASE pc = "rbody"
  <2>1. /\ in = <<>>
        /\ \/ p = "wbody" /\ b <= a /\ S(out, 0, a - b)
           \/ p = "len" /\ b = Units /\ S(out, 0, a)
    BY <1>5 DEF Meet, S
  <2>2. CASE p = "wbody" /\ b <= a /\ S(out, 0, a - b)
    <3>1. Len(out) = 0 + (a - b) /\ S(q, 0, (a - b) - n)
      BY <1>2, <2>2, Zenon
    <3>2. n <= a - b /\ n # a
      BY <1>1, <2>2, <3>1
    <3>3. pc1 = "rbody" /\ a1 = a - n /\ b <= a1 /\ (a - b) - n = a1 - b
      BY <1>1, <1>5, <2>2, <3>2
    <3>4. Meet(program, c, pc1, a1, in, q, p, b)
      BY <1>1, <2>1, <2>2, <3>1, <3>3 DEF Meet, S
    <3> QED BY <3>4
  <2>3. CASE p = "len" /\ b = Units /\ S(out, 0, a)
    <3>1. S(q, 0, a - n)
      BY <1>2, <2>3, Zenon
    <3>2. CASE n # a
      <4>1. pc1 = "rbody" /\ a1 = a - n
        BY <1>5, <3>2
      <4>2. Meet(program, c, pc1, a1, in, q, p, b)
        BY <1>1, <2>1, <2>3, <3>1, <4>1 DEF Meet, S
      <4> QED BY <4>2
    <3>3. CASE n = a
      <4>1. pc1 = "prompt" /\ a1 = Units /\ a - n = 0
        BY <1>1, <1>5, <3>3
      <4>2. q = <<>>
        BY <1>3, <3>1, <4>1
      <4>3. Meet(program, c, pc1, a1, in, q, p, b)
        BY <1>1, <2>1, <2>3, <4>1, <4>2 DEF Meet
      <4> QED BY <4>3
    <3> QED BY <3>2, <3>3
  <2> QED BY <2>1, <2>2, <2>3
<1> QED BY <1>4, <1>5

\* The client starts a request, leaves or is killed.
LEMMA ClientTurns ==
    ASSUME NEW c, NEW a, NEW in \in Seq(Requests), NEW out, NEW p, NEW b
    PROVE  /\ Meet(program, c, "prompt", a, in, out, p, b) => Meet(program, c, "len", Units, in, out, p, b)
           /\ Meet(program, c, "prompt", a, in, out, p, b) => Meet(program, c, "closed", a, in, out, p, b)
           /\ \A pc \in {"len", "body"} :
                 Meet(program, c, pc, a, in, out, p, b) => Meet(program, c, "killed", a, in, out, p, b)
           /\ \A pc \in {"rlen", "rbody"} :
                 Meet(program, c, pc, a, in, out, p, b) => Meet(program, c, "deserted", a, in, out, p, b)
<1>1. Units \in Nat \ {0} /\ (Stream(in, 0, 0, "len", "body") <=> in = <<>>)
  BY Constants, StreamEmpty
<1>2. ASSUME Meet(program, c, "prompt", a, in, out, p, b)
      PROVE  Meet(program, c, "len", Units, in, out, p, b) /\ Meet(program, c, "closed", a, in, out, p, b)
  <2>1. Units - Units = 0 /\ Units \in 1 .. Units /\ Units <= Units
    BY <1>1
  <2> QED BY <1>1, <1>2, <2>1 DEF Meet
<1>3. ASSUME Meet(program, c, "len", a, in, out, p, b) PROVE Meet(program, c, "killed", a, in, out, p, b)
  <2>1. /\ b \in 1 .. Units /\ out = <<>> /\ p = "len" /\ a \in 1 .. Units /\ a <= b
        /\ Stream(in, b - a, 0, "len", "body")
    BY <1>3 DEF Meet
  <2>2. b - a \in 0 .. b /\ 0 \in 0 .. Units - 1 /\ ~(0 > 0)
    BY <1>1, <2>1
  <2>3. Unread(in, p, b, 1)
    BY <2>1, <2>2 DEF Unread
  <2> QED BY <2>1, <2>3 DEF Meet
<1>4. ASSUME Meet(program, c, "body", a, in, out, p, b) PROVE Meet(program, c, "killed", a, in, out, p, b)
  <2>1. /\ b \in 1 .. Units /\ out = <<>> /\ a \in 1 .. Units
        /\ \/ p = "len" /\ Stream(in, b, Units - a, "len", "body")
           \/ p = "body" /\ a <= b /\ Stream(in, 0, b - a, "len", "body")
    BY <1>4 DEF Meet
  <2>2. b \in 0 .. b /\ Units - a \in 0 .. Units - 1 /\ (a <= b => b - a \in 0 .. b - 1)
    BY <1>1, <2>1
  <2>3. Unread(in, p, b, 1)
    BY <2>1, <2>2 DEF Unread
  <2> QED BY <2>1, <2>3 DEF Meet
<1>5. ASSUME Meet(program, c, "rlen", a, in, out, p, b) PROVE Meet(program, c, "deserted", a, in, out, p, b)
  <2>1. /\ b \in 1 .. Units
        /\ \/ p = "len" /\ Stream(in, b, Units, "len", "body")
           \/ p = "body" /\ Stream(in, 0, b, "len", "body")
           \/ p \notin {"len", "body"}
           \/ p = "len" /\ Stream(in, 0, 0, "len", "body")
    BY <1>1, <1>5 DEF Meet
  <2>2. b \in 0 .. b - 0 /\ Units \in 0 .. Units - 0 /\ 0 \in 0 .. b /\ 0 \in 0 .. Units - 0 /\ ~(0 > 0)
    BY <1>1, <2>1
  <2>3. p \in {"len", "body"} => Unread(in, p, b, 0)
    BY <2>1, <2>2 DEF Unread
  <2> QED BY <2>1, <2>3 DEF Meet
<1>6. ASSUME Meet(program, c, "rbody", a, in, out, p, b) PROVE Meet(program, c, "deserted", a, in, out, p, b)
  <2>1. b \in 1 .. Units /\ p # "body" /\ Stream(in, 0, 0, "len", "body")
    BY <1>1, <1>6 DEF Meet
  <2>2. 0 \in 0 .. b /\ 0 \in 0 .. Units - 0 /\ ~(0 > 0)
    BY <1>1, <2>1
  <2>3. p \in {"len", "body"} => Unread(in, p, b, 0)
    BY <2>1, <2>2 DEF Unread
  <2> QED BY <2>1, <2>3 DEF Meet
<1> QED BY <1>2, <1>3, <1>4, <1>5, <1>6

-----------------------------------------------------------------------------
(* The turns of the servers of frames.                                     *)

\* A step that is about the client c0 only.
LEMMA FrameStep ==
    ASSUME FrameTurns, Frames, NEW c0 \in Clients, program' = program,
           \A c \in Clients \ {c0} :
              /\ cpc'[c] = cpc[c] /\ cleft'[c] = cleft[c]
              /\ toServer'[c] = toServer[c] /\ toClient'[c] = toClient[c]
              /\ Connected(c)' <=> Connected(c)
              /\ \A t \in Threads :
                    /\ Serves(t, c)' <=> Serves(t, c)
                    /\ Serves(t, c) => tpc'[t] = tpc[t] /\ left'[t] = left[t],
           cpc'[c0] \notin Gone \cup {"start"} => Connected(c0)',
           Connected(c0)' => InTune(c0)'
    PROVE  FrameTurns'
<1>1. ASSUME NEW c \in Clients, c # c0
      PROVE  (cpc'[c] \notin Gone \cup {"start"} => Connected(c)') /\ (Connected(c)' => InTune(c)')
  <2>1. cpc'[c] \notin Gone \cup {"start"} => Connected(c)'
    BY <1>1 DEF FrameTurns
  <2>2. ASSUME Connected(c)' PROVE InTune(c)'
    <3>1. InTune(c)
      BY <1>1, <2>2 DEF FrameTurns
    <3>2. ASSUME NEW t \in Threads, Serves(t, c)'
          PROVE  IF tpc'[t] = "close" THEN Closed(c)' ELSE Agree(c, Part(tpc[t]), left[t])'
      BY <1>1, <3>1, <3>2 DEF InTune, Closed, Agree
    <3>3. (\A t \in Threads : ~Serves(t, c)') => Agree(c, "len", Units)'
      BY <1>1, <3>1 DEF InTune, Agree
    <3> QED BY <3>2, <3>3 DEF InTune
  <2> QED BY <2>1, <2>2
<1> QED BY <1>1 DEF FrameTurns

\* No thread uses the descriptor of another one, and each serves its own client.
LEMMA ServesOne ==
    ASSUME Core, Frames
    PROVE  /\ ~raced /\ ~Text
           /\ \A t \in Threads : Serving(t) =>
                 fd[t] \in Open /\ fd[t] \in Fds /\ conn[fd[t]] \in Clients /\ Connected(conn[fd[t]])
           /\ \A t, u \in Threads : Serving(t) /\ Serving(u) /\ conn[fd[t]] = conn[fd[u]] => t = u
           /\ \A t, u \in Threads : Serving(t) /\ Serving(u) /\ fd[t] = fd[u] => t = u
<1>1. ~raced /\ ~Text
  BY Classes DEF Core, Modes
<1> QED BY <1>1, Served

\* A step that moves neither a client nor a thread that serves one.
LEMMA FrameQuiet ==
    ASSUME FrameTurns,
           UNCHANGED <<program, tpc, fd, left, conn, backlog, cpc, cleft, toServer, toClient>>
    PROVE  FrameTurns'
<1> SUFFICES ASSUME Frames PROVE FrameTurns'
  BY DEF FrameTurns, Frames
<1>1. ASSUME NEW c \in Clients
      PROVE  (cpc'[c] \notin Gone \cup {"start"} => Connected(c)') /\ (Connected(c)' => InTune(c)')
  <2>1. /\ Connected(c)' <=> Connected(c)
        /\ \A t \in Threads : Serves(t, c)' <=> Serves(t, c)
    BY DEF Connected, Open, Serves, Serving, Text
  <2>2. (cpc[c] \notin Gone \cup {"start"} => Connected(c)) /\ (Connected(c) => InTune(c))
    BY DEF FrameTurns
  <2>3. InTune(c) => InTune(c)'
    BY <2>1 DEF InTune, Agree, Closed
  <2> QED BY <2>1, <2>2, <2>3
<1> QED BY <1>1 DEF FrameTurns

\* A thread moves on with its client.
LEMMA FrameThread ==
    ASSUME Core, FrameTurns, Frames, NEW t \in Threads, Serving(t), NEW c0, c0 = conn[fd[t]],
           UNCHANGED <<program, fd, conn, backlog, cpc, cleft>>,
           \A u \in Threads : u # t => tpc'[u] = tpc[u] /\ left'[u] = left[u],
           \A c \in Clients : c # c0 => toServer'[c] = toServer[c] /\ toClient'[c] = toClient[c],
           NEW p, tpc'[t] = p, NEW b, left'[t] = b,
           \/ p = "close" /\ Closed(c0)
           \/ /\ p \in {"len", "body", "pipe", "calc", "silent", "wlen", "wbody"}
              /\ Meet(program, c0, cpc[c0], cleft[c0], toServer'[c0], toClient'[c0], Part(p), b)
           \/ /\ p = "done"
              /\ Meet(program, c0, cpc[c0], cleft[c0], toServer'[c0], toClient'[c0], "len", Units)
    PROVE  FrameTurns'
<1>1. /\ c0 \in Clients /\ Connected(c0) /\ ~Text
      /\ \A u \in Threads : Serving(u) /\ conn[fd[u]] = c0 => u = t
  BY ServesOne
<1>2. \A u \in Threads : u # t => (Serving(u)' <=> Serving(u))
  BY DEF Serving, Text
<1>3. \A c : Connected(c)' <=> Connected(c)
  BY DEF Connected, Open
<1>4. \A c \in Clients : c # c0 => \A u \in Threads :
          /\ Serves(u, c)' <=> Serves(u, c)
          /\ Serves(u, c) => tpc'[u] = tpc[u] /\ left'[u] = left[u]
  BY <1>2 DEF Serves
<1>5. \A u \in Threads : Serves(u, c0)' => u = t
  BY <1>1, <1>2 DEF Serves
<1>6. Serves(t, c0)' <=> p # "done"
  BY <1>1 DEF Serves, Serving, Text
<1>7. InTune(c0)'
  <2>1. CASE p = "close" /\ Closed(c0)
    BY <1>5, <1>6, <2>1 DEF InTune, Closed
  <2>2. CASE /\ p \in {"len", "body", "pipe", "calc", "silent", "wlen", "wbody"}
             /\ Meet(program, c0, cpc[c0], cleft[c0], toServer'[c0], toClient'[c0], Part(p), b)
    BY <1>5, <1>6, <2>2 DEF InTune, Agree
  <2>3. CASE /\ p = "done"
             /\ Meet(program, c0, cpc[c0], cleft[c0], toServer'[c0], toClient'[c0], "len", Units)
    BY <1>5, <1>6, <2>3 DEF InTune, Agree
  <2> QED BY <2>1, <2>2, <2>3
<1> QED BY <1>1, <1>3, <1>4, <1>7, FrameStep

\* A thread takes a connection that no other one serves.
LEMMA FrameTakes ==
    ASSUME Core, FrameTurns, Frames, NEW t \in Threads, ~Serving(t), NEW f \in Open,
           \A u \in Threads : Serving(u) => fd[u] # f,
           UNCHANGED <<program, conn, backlog, cpc, cleft, toServer, toClient>>,
           tpc'[t] = "len", fd'[t] = f, left'[t] = Units,
           \A u \in Threads : u # t => tpc'[u] = tpc[u] /\ fd'[u] = fd[u] /\ left'[u] = left[u]
    PROVE  FrameTurns'
<1>1. PICK c0 \in Clients : c0 = conn[f]
  BY OpenFacts DEF Core
<1>2. \A u \in Threads : ~Serves(u, c0)
  BY <1>1, ServesOne DEF Serves, Core, Conns
<1>3. Connected(c0) /\ Agree(c0, "len", Units)
  BY <1>1, <1>2 DEF Connected, FrameTurns, InTune
<1>4. \A u \in Threads : u # t => (Serving(u)' <=> Serving(u))
  BY DEF Serving, Text
<1>5. \A c : Connected(c)' <=> Connected(c)
  BY DEF Connected, Open
<1>6. \A c \in Clients : c # c0 => \A u \in Threads :
          /\ Serves(u, c)' <=> Serves(u, c)
          /\ Serves(u, c) => tpc'[u] = tpc[u] /\ left'[u] = left[u]
  BY <1>1, <1>4 DEF Serves
<1>7. Serves(t, c0)' /\ \A u \in Threads : Serves(u, c0)' => u = t
  BY <1>1, <1>2, <1>4 DEF Serves, Serving
<1>8. InTune(c0)'
  BY <1>3, <1>7 DEF InTune, Agree, Part
<1> QED BY <1>3, <1>5, <1>6, <1>8, FrameStep

LEMMA FrameSpawn ==
    ASSUME Core, FrameTurns, Frames, Spawn
    PROVE  FrameTurns'
<1>1. PICK t \in Threads :
         /\ tpc[t] = "none" /\ mpc = "hand"
         /\ tpc' = [tpc EXCEPT ![t] = IF PerClient THEN "start" ELSE IF Direct THEN "bc" ELSE "len"]
         /\ fd' = [fd EXCEPT ![t] = cfd]
         /\ left' = [left EXCEPT ![t] = Units]
         /\ UNCHANGED <<program, conn, backlog, cpc, cleft, toServer, toClient>>
  BY DEF Spawn, Now
<1>2. ~PerClient /\ ~Direct /\ ~Serving(t) /\ ~raced /\ ~Select
  BY <1>1, Classes, ServesOne, ModeFacts DEF Serving, Core
<1>3. cfd \in Open /\ \A u \in Threads : Serving(u) => fd[u] # cfd
  BY <1>1, <1>2 DEF Core, Custody, WithMain
<1>4. /\ tpc'[t] = "len" /\ fd'[t] = cfd /\ left'[t] = Units
      /\ \A u \in Threads : u # t => tpc'[u] = tpc[u] /\ fd'[u] = fd[u] /\ left'[u] = left[u]
  BY <1>1, <1>2 DEF Core, Types
<1> QED BY <1>1, <1>2, <1>3, <1>4, FrameTakes

LEMMA FrameServeSelected ==
    ASSUME Core, FrameTurns, Frames, ServeSelected
    PROVE  FrameTurns'
<1>1. PICK f \in Fds \ {sfd} :
         /\ Found(f) /\ fd' = [fd EXCEPT ![1] = f]
         /\ tpc' = [tpc EXCEPT ![1] = IF Text THEN "read" ELSE "len"]
         /\ left' = [left EXCEPT ![1] = Units]
         /\ UNCHANGED <<program, conn, backlog, cpc, cleft, toServer, toClient>>
  BY DEF ServeSelected, Now
<1>2. f \in Open /\ Select /\ mpc = "scan"
  <2>1. f \in Open /\ Select
    BY <1>1, FoundFacts
  <2> QED BY <1>1, <2>1 DEF Found
<1>3. \A u \in Threads : ~Serving(u)
  BY <1>2, Constants DEF Core, Modes, Serving
<1>4. /\ tpc'[1] = "len" /\ fd'[1] = f /\ left'[1] = Units /\ 1 \in Threads
      /\ \A u \in Threads : u # 1 => tpc'[u] = tpc[u] /\ fd'[u] = fd[u] /\ left'[u] = left[u]
  BY <1>1, ServesOne, Constants DEF Core, Types
<1> QED BY <1>1, <1>2, <1>3, <1>4, FrameTakes

\* A connection moves from the backlog to a descriptor.
LEMMA FrameAccepts ==
    ASSUME Core, FrameTurns, Frames, Accept \/ AcceptSelected
    PROVE  FrameTurns'
<1>1. PICK f0 : f0 = Lowest
  OBVIOUS
<1>2. backlog # <<>>
  BY FoundFacts, Constants DEF Accept, AcceptSelected
<1>3. /\ conn' = [conn EXCEPT ![f0] = Head(backlog)] /\ backlog' = Tail(backlog)
      /\ UNCHANGED <<program, raced, tpc, fd, left, cpc, cleft, toServer, toClient>>
  BY <1>1, ServesOne DEF Accept, AcceptSelected
<1>4. /\ \A c : Connected(c)' <=> Connected(c)
      /\ \A t \in Threads : Serving(t) => conn'[fd[t]] = conn[fd[t]]
  BY <1>1, <1>2, <1>3, ServesOne, AcceptFacts
<1>5. \A c, t : t \in Threads => (Serves(t, c)' <=> Serves(t, c))
  BY <1>3, <1>4 DEF Serves, Serving, Text
<1>6. ASSUME NEW c \in Clients
      PROVE  (cpc'[c] \notin Gone \cup {"start"} => Connected(c)') /\ (Connected(c)' => InTune(c)')
  <2>1. (cpc[c] \notin Gone \cup {"start"} => Connected(c)) /\ (Connected(c) => InTune(c))
    BY DEF FrameTurns
  <2>2. InTune(c) => InTune(c)'
    BY <1>3, <1>5 DEF InTune, Agree, Closed
  <2> QED BY <1>3, <1>4, <2>1, <2>2
<1> QED BY <1>6 DEF FrameTurns

\* A connected client that is gone, of a server that is up.
LEMMA GoneHow ==
    ASSUME Core, server = "up", NEW c \in Clients, Connected(c), Closed(c)
    PROVE  cpc[c] \in {"closed", "killed", "deserted"} \/ (cpc[c] = "quitted" /\ Text)
BY DEF Core, Conns, Modes, Closed, Gone

LEMMA FrameReadn ==
    ASSUME Core, FrameTurns, NEW t \in Threads, Readn(t)
    PROVE  FrameTurns'
<1>1. PICK c0 : c0 = conn[fd[t]]
  OBVIOUS
<1>2. PICK p : p = tpc[t]
  OBVIOUS
<1>3. PICK b : b = left[t]
  OBVIOUS
<1>4. PICK next : next = IF p = "len" THEN "body" ELSE "wlen"
  OBVIOUS
<1>0. PICK place : place = IF p = "len" THEN "body"
                           ELSE IF program = "bcserver" THEN "pipe" ELSE "wlen"
  OBVIOUS
<1>5. /\ Frames /\ p \in {"len", "body"} /\ c0 \in Clients /\ server = "up"
      /\ UNCHANGED <<program, main, selects, coda, fd, on, req, raced, backlog,
                     conn, toClient, clients>>
      /\ \/ \E n \in 1 .. b :
               /\ n <= Len(toServer[c0])
               /\ toServer' = [toServer EXCEPT ![c0] = Drop(n, @)]
               /\ Passed(t, n, place)
         \/ /\ Eof(c0) /\ toServer' = toServer
            /\ tpc' = [tpc EXCEPT ![t] = IF IgnoresEof(t) THEN place ELSE "close"]
            /\ left' = [left EXCEPT ![t] = Units]
         \/ UNCHANGED <<tpc, left, toServer>>
  <2>1. server = "up"
    BY DEF Readn
  <2> QED BY <1>0, <1>1, <1>2, <1>3, <2>1, ReadnCases
<1>6. Serving(t) /\ Serves(t, c0)
  BY <1>1, <1>2, <1>5 DEF Serving, Serves
<1>7. Connected(c0) /\ Meet(program, c0, cpc[c0], cleft[c0], toServer[c0], toClient[c0], p, b)
  <2>1. Connected(c0)
    BY <1>1, <1>5, <1>6, ServesOne
  <2>2. Agree(c0, p, b)
    BY <1>2, <1>3, <1>5, <1>6, <2>1 DEF FrameTurns, InTune, Part
  <2> QED BY <2>1, <2>2 DEF Agree
<1>8. \A u \in Threads : u # t => (tpc'[u] = tpc[u] /\ left'[u] = left[u])
  BY <1>5 DEF Passed, Now, Core, Types
<1>9. \A c \in Clients : c # c0 => toServer'[c] = toServer[c] /\ toClient'[c] = toClient[c]
  BY <1>5 DEF Core, Types
<1>10. ASSUME NEW n \in 1 .. b,
              n <= Len(toServer[c0]),
              toServer' = [toServer EXCEPT ![c0] = Drop(n, @)],
              Passed(t, n, place)
       PROVE  FrameTurns'
  <2>1. PICK p1 : p1 = IF n # b THEN p ELSE IF p = "len" THEN "body" ELSE "wlen"
    OBVIOUS
  <2>2. PICK b1 : b1 = IF n # b THEN b - n ELSE Units
    OBVIOUS
  <2>3. /\ tpc'[t] \in {"len", "body", "pipe", "wlen"} /\ Part(tpc'[t]) = p1
        /\ left'[t] = b1
    BY <1>0, <1>2, <1>3, <1>5, <1>10, <2>1, <2>2 DEF Passed, Now, Core, Types, Part
  <2>4. toServer'[c0] = Drop(n, toServer[c0]) /\ toClient'[c0] = toClient[c0]
    BY <1>5, <1>10, ClientTypes
  <2>5. cpc[c0] \in ClientPlaces /\ toServer[c0] \in Seq(Requests) /\ toClient[c0] \in Seq(Answers)
    BY <1>5, ClientTypes
  <2>6. Meet(program, c0, cpc[c0], cleft[c0], toServer'[c0], toClient[c0], p1, b1)
    <3>1. PICK pc : pc = cpc[c0]
      OBVIOUS
    <3>2. PICK a : a = cleft[c0]
      OBVIOUS
    <3>3. PICK in : in = toServer[c0]
      OBVIOUS
    <3>4. PICK out : out = toClient[c0]
      OBVIOUS
    <3>5. PICK q : q = Drop(n, in)
      OBVIOUS
    <3>6. /\ pc \in ClientPlaces /\ in \in Seq(Requests) /\ out \in Seq(Answers)
          /\ n <= Len(in) /\ p \in {"len", "body"}
          /\ Meet(program, c0, pc, a, in, out, p, b)
      BY <1>5, <1>7, <1>10, <2>5, <3>1, <3>2, <3>3, <3>4
    <3>8. /\ (p = "len" => next = "body") /\ (p = "body" => next = "wlen")
          /\ Passes(n, p, b, next, p1, b1)
      BY <1>4, <2>1, <2>2 DEF Passes
    <3>7. Meet(program, c0, pc, a, q, out, p1, b1)
      BY <3>5, <3>6, <3>8, ServerReads
    <3> QED BY <2>4, <3>1, <3>2, <3>3, <3>4, <3>5, <3>7
  <2>7. Meet(program, c0, cpc[c0], cleft[c0], toServer'[c0], toClient'[c0], p1, b1)
    BY <2>4, <2>6
  <2> QED BY <1>1, <1>5, <1>6, <1>8, <1>9, <2>3, <2>7, FrameThread
<1>11. ASSUME Eof(c0), toServer' = toServer,
              tpc' = [tpc EXCEPT ![t] = IF IgnoresEof(t) THEN place ELSE "close"],
              left' = [left EXCEPT ![t] = Units]
       PROVE  FrameTurns'
  <2>1. toServer[c0] = <<>> /\ Closed(c0) /\ toServer[c0] \in Seq(Requests) /\ toClient' = toClient
    BY <1>5, <1>11, ClientTypes DEF Eof
  <2>2. cpc[c0] \in {"closed", "killed", "deserted"}
    BY <1>5, <1>7, <2>1, GoneHow, ServesOne
  <2>3. left'[t] = Units /\ tpc'[t] = IF IgnoresEof(t) THEN place ELSE "close"
    BY <1>11 DEF Core, Types
  <2>4. CASE IgnoresEof(t)
    <3>1. (p = "body" => program = "toup_server") /\ (p = "len" => program = "bcserver")
      BY <1>2, <2>4 DEF IgnoresEof
    <3>2. Meet(program, c0, cpc[c0], cleft[c0], toServer[c0], toClient[c0], next, Units)
      BY <1>4, <1>5, <1>7, <2>1, <2>2, <3>1, ServerEof
    <3>3. tpc'[t] = place /\ place \in {"body", "pipe", "wlen"} /\ Part(place) = next
      BY <1>0, <1>4, <1>5, <2>3, <2>4 DEF Part
    <3>4. Meet(program, c0, cpc[c0], cleft[c0], toServer'[c0], toClient'[c0], next, Units)
      BY <1>11, <2>1, <3>2
    <3> QED BY <1>1, <1>5, <1>6, <1>8, <1>9, <2>3, <3>3, <3>4, FrameThread
  <2>5. CASE ~IgnoresEof(t)
    BY <1>1, <1>5, <1>6, <1>8, <1>9, <2>1, <2>3, <2>5, FrameThread
  <2> QED BY <2>4, <2>5
<1>12. CASE UNCHANGED <<tpc, left, toServer>>
  BY <1>5, <1>12, FrameQuiet
<1> QED BY <1>5, <1>10, <1>11, <1>12

\* What a write of writen adds to the stream.
LEMMA WritenUnits ==
    ASSUME Core, NEW t \in Threads, Writen(t), NEW c0, c0 = conn[fd[t]], NEW p, p = tpc[t],
           NEW b, b = left[t], NEW v, v = IF p = "wlen" THEN "len" ELSE c0
    PROVE  /\ Frames /\ p \in {"wlen", "wbody"} /\ c0 \in Clients
           /\ UNCHANGED <<program, coda, fd, on, req, raced, backlog, conn, toServer, clients>>
           /\ \/ UNCHANGED <<tpc, left, toClient>>
              \/ /\ ~Closed(c0)
                 /\ \E n \in 1 .. b :
                       /\ \A c \in Clients : c # c0 => toClient'[c] = toClient[c]
                       /\ toClient'[c0] \in Seq(Answers)
                       /\ Appended(toClient'[c0], toClient[c0], n, v)
                       /\ \/ n = b /\ p = "wbody" /\ Continue(t) /\ left' = [left EXCEPT ![t] = Units]
                          \/ /\ n = b /\ p = "wlen"
                             /\ tpc' = [tpc EXCEPT ![t] = "wbody"]
                             /\ left' = [left EXCEPT ![t] = Units]
                          \/ n # b /\ left' = [left EXCEPT ![t] = @ - n] /\ tpc' = tpc
<1> DEFINE c == conn[fd[t]]
           unit == IF tpc[t] = "wlen" THEN "len" ELSE c
<1>1. /\ Frames /\ tpc[t] \in {"wlen", "wbody"} /\ c \in Clients /\ c = c0 /\ unit = v
      /\ UNCHANGED <<program, coda, fd, on, req, raced, backlog, conn, toServer, clients>>
  BY WritenCases
<1>2. /\ toClient \in [Clients -> Seq(Answers)] /\ left[t] \in Nat /\ unit \in Answers
  BY <1>1, Constants DEF Core, Types, Answers
<1> HIDE DEF unit, c
<1>3. ASSUME NEW n \in 1 .. left[t],
             toClient' = [toClient EXCEPT ![c] = @ \o [k \in 1 .. n |-> unit]]
      PROVE  /\ \A d \in Clients : d # c0 => toClient'[d] = toClient[d]
             /\ toClient'[c0] \in Seq(Answers)
             /\ Appended(toClient'[c0], toClient[c0], n, v)
  <2>1. toClient[c] \in Seq(Answers) /\ n \in Nat
    BY <1>1, <1>2
  <2>2. /\ toClient[c] \o [k \in 1 .. n |-> unit] \in Seq(Answers)
        /\ Appended(toClient[c] \o [k \in 1 .. n |-> unit], toClient[c], n, unit)
    BY <1>2, <2>1, UnitsAppended DEF Appended
  <2>3. toClient'[c] = toClient[c] \o [k \in 1 .. n |-> unit]
    BY <1>1, <1>2, <1>3
  <2>4. toClient'[c] \in Seq(Answers) /\ Appended(toClient'[c], toClient[c], n, unit)
    BY <2>2, <2>3
  <2>5. \A d \in Clients : d # c => toClient'[d] = toClient[d]
    BY <1>2, <1>3
  <2> QED BY <1>1, <2>4, <2>5
<1>4. \/ Closed(c) /\ UNCHANGED <<tpc, left, toClient>>
      \/ /\ ~Closed(c)
         /\ \E n \in 1 .. left[t] :
               /\ toClient' = [toClient EXCEPT ![c] = @ \o [k \in 1 .. n |-> unit]]
               /\ \/ n = left[t] /\ tpc[t] = "wbody" /\ Continue(t) /\ left' = [left EXCEPT ![t] = Units]
                  \/ /\ n = left[t] /\ tpc[t] = "wlen"
                     /\ tpc' = [tpc EXCEPT ![t] = "wbody"]
                     /\ left' = [left EXCEPT ![t] = Units]
                  \/ n # left[t] /\ left' = [left EXCEPT ![t] = @ - n] /\ tpc' = tpc
  BY WritenCases DEF c, unit
<1>5. CASE ~Closed(c)
  <2>1. PICK n \in 1 .. left[t] :
               /\ toClient' = [toClient EXCEPT ![c] = @ \o [k \in 1 .. n |-> unit]]
               /\ \/ n = left[t] /\ tpc[t] = "wbody" /\ Continue(t) /\ left' = [left EXCEPT ![t] = Units]
                  \/ /\ n = left[t] /\ tpc[t] = "wlen"
                     /\ tpc' = [tpc EXCEPT ![t] = "wbody"]
                     /\ left' = [left EXCEPT ![t] = Units]
                  \/ n # left[t] /\ left' = [left EXCEPT ![t] = @ - n] /\ tpc' = tpc
    BY <1>4, <1>5
  <2>2. /\ \A d \in Clients : d # c0 => toClient'[d] = toClient[d]
        /\ toClient'[c0] \in Seq(Answers)
        /\ Appended(toClient'[c0], toClient[c0], n, v)
    BY <1>3, <2>1
  <2>3. n \in 1 .. b
    BY <2>1
  <2> QED BY <1>1, <1>5, <2>1, <2>2, <2>3
<1> QED BY <1>1, <1>4, <1>5

LEMMA FrameWriten ==
    ASSUME Core, FrameTurns, NEW t \in Threads, Writen(t)
    PROVE  FrameTurns'
<1>1. PICK c0 : c0 = conn[fd[t]]
  OBVIOUS
<1>2. PICK p : p = tpc[t]
  OBVIOUS
<1>3. PICK b : b = left[t]
  OBVIOUS
<1>4. PICK v : v = IF p = "wlen" THEN "len" ELSE c0
  OBVIOUS
<1>5. /\ Frames /\ p \in {"wlen", "wbody"} /\ c0 \in Clients
      /\ UNCHANGED <<program, coda, fd, on, req, raced, backlog, conn, toServer, clients>>
      /\ \/ UNCHANGED <<tpc, left, toClient>>
         \/ /\ ~Closed(c0)
            /\ \E n \in 1 .. b :
                  /\ \A c \in Clients : c # c0 => toClient'[c] = toClient[c]
                  /\ toClient'[c0] \in Seq(Answers)
                  /\ Appended(toClient'[c0], toClient[c0], n, v)
                  /\ \/ n = b /\ p = "wbody" /\ Continue(t) /\ left' = [left EXCEPT ![t] = Units]
                     \/ /\ n = b /\ p = "wlen"
                        /\ tpc' = [tpc EXCEPT ![t] = "wbody"]
                        /\ left' = [left EXCEPT ![t] = Units]
                     \/ n # b /\ left' = [left EXCEPT ![t] = @ - n] /\ tpc' = tpc
  BY <1>1, <1>2, <1>3, <1>4, WritenUnits
<1>6. Serving(t) /\ Serves(t, c0)
  BY <1>1, <1>2, <1>5 DEF Serving, Serves
<1>7. Connected(c0) /\ Meet(program, c0, cpc[c0], cleft[c0], toServer[c0], toClient[c0], p, b)
  <2>1. Connected(c0)
    BY <1>1, <1>5, <1>6, ServesOne
  <2>2. Agree(c0, p, b)
    BY <1>2, <1>3, <1>5, <1>6, <2>1 DEF FrameTurns, InTune, Part
  <2> QED BY <2>1, <2>2 DEF Agree
<1>8. CASE UNCHANGED <<tpc, left, toClient>>
  BY <1>5, <1>8, FrameQuiet
<1>9. ASSUME ~Closed(c0), NEW n \in 1 .. b,
             \A c \in Clients : c # c0 => toClient'[c] = toClient[c],
             toClient'[c0] \in Seq(Answers),
             Appended(toClient'[c0], toClient[c0], n, v),
             \/ n = b /\ p = "wbody" /\ Continue(t) /\ left' = [left EXCEPT ![t] = Units]
             \/ /\ n = b /\ p = "wlen"
                /\ tpc' = [tpc EXCEPT ![t] = "wbody"]
                /\ left' = [left EXCEPT ![t] = Units]
             \/ n # b /\ left' = [left EXCEPT ![t] = @ - n] /\ tpc' = tpc
      PROVE  FrameTurns'
  <2>1. PICK p1 : p1 = IF n # b THEN p ELSE IF p = "wlen" THEN "wbody" ELSE "len"
    OBVIOUS
  <2>2. PICK b1 : b1 = IF n # b THEN b - n ELSE Units
    OBVIOUS
  <2>3. \A u \in Threads : u # t => (tpc'[u] = tpc[u] /\ left'[u] = left[u])
    BY <1>9 DEF Continue, Now, Core, Types
  <2>4. \A c \in Clients : c # c0 => toServer'[c] = toServer[c] /\ toClient'[c] = toClient[c]
    BY <1>5, <1>9 DEF Core, Types
  <2>5. /\ left'[t] = b1
        /\ tpc'[t] = p1 \/ (p1 = "len" /\ b1 = Units /\ tpc'[t] = "done")
        /\ p1 \in {"len", "body", "wlen", "wbody"}
    <3>1. CASE n # b
      BY <1>2, <1>3, <1>5, <1>9, <2>1, <2>2, <3>1 DEF Core, Types
    <3>2. CASE n = b /\ p = "wlen"
      BY <1>2, <1>3, <1>5, <1>9, <2>1, <2>2, <3>2 DEF Core, Types
    <3>3. CASE n = b /\ p = "wbody"
      <4>1. Continue(t) /\ left' = [left EXCEPT ![t] = Units] /\ p1 = "len" /\ b1 = Units
        BY <1>9, <2>1, <2>2, <3>3
      <4>2. tpc'[t] \in {"done", "len"}
        BY <1>5, <4>1, ServesOne DEF Continue, Now, Core, Types
      <4> QED BY <4>1, <4>2 DEF Core, Types
    <3> QED BY <1>5, <3>1, <3>2, <3>3
  <2>6. /\ cpc[c0] \in ClientPlaces \ Gone /\ toServer[c0] \in Seq(Requests)
        /\ toClient[c0] \in Seq(Answers)
    BY <1>5, <1>9, ClientTypes DEF Closed
  <2>7. toServer' = toServer
    BY <1>5
  <2>8. Meet(program, c0, cpc[c0], cleft[c0], toServer[c0], toClient'[c0], p1, b1)
    <3>1. PICK pc : pc = cpc[c0]
      OBVIOUS
    <3>2. PICK a : a = cleft[c0]
      OBVIOUS
    <3>3. PICK in : in = toServer[c0]
      OBVIOUS
    <3>4. PICK out : out = toClient[c0]
      OBVIOUS
    <3>5. PICK q : q = toClient'[c0]
      OBVIOUS
    <3>6. /\ pc \in ClientPlaces \ Gone /\ in \in Seq(Requests) /\ out \in Seq(Answers)
          /\ Appended(q, out, n, v) /\ p \in {"wlen", "wbody"} /\ c0 \in Clients
          /\ Meet(program, c0, pc, a, in, out, p, b)
      BY <1>5, <1>7, <1>9, <2>6, <3>1, <3>2, <3>3, <3>4, <3>5
    <3>9. PICK next : next = IF p = "wlen" THEN "wbody" ELSE "len"
      OBVIOUS
    <3>8. /\ (p = "wlen" => next = "wbody") /\ (p = "wbody" => next = "len")
          /\ (p = "wlen" => v = "len") /\ (p = "wbody" => v = c0)
          /\ Passes(n, p, b, next, p1, b1)
      BY <1>4, <2>1, <2>2, <3>9 DEF Passes
    <3>7. Meet(program, c0, pc, a, in, q, p1, b1)
      BY <3>6, <3>8, ServerWrites
    <3> QED BY <3>1, <3>2, <3>3, <3>5, <3>7
  <2>9. Meet(program, c0, cpc[c0], cleft[c0], toServer'[c0], toClient'[c0], p1, b1)
    BY <2>7, <2>8
  <2>10. CASE tpc'[t] = p1
    <3>1. Part(p1) = p1
      BY <2>5 DEF Part
    <3> QED BY <1>1, <1>5, <1>6, <2>3, <2>4, <2>5, <2>9, <2>10, <3>1, FrameThread
  <2>11. CASE p1 = "len" /\ b1 = Units /\ tpc'[t] = "done"
    BY <1>1, <1>5, <1>6, <2>3, <2>4, <2>5, <2>9, <2>11, FrameThread
  <2> QED BY <2>5, <2>10, <2>11
<1> QED BY <1>5, <1>8, <1>9
\* In cmd nothing goes from or to the client.
LEMMA Framecmd ==
    ASSUME Core, FrameTurns, NEW t \in Threads, CallPipe(t) \/ Calculate(t)
    PROVE  FrameTurns'
<1>1. PICK c0 : c0 = conn[fd[t]]
  OBVIOUS
<1>2. PICK p : p = tpc'[t]
  OBVIOUS
<1>3. PICK b : b = left[t]
  OBVIOUS
<1>4. /\ Frames /\ Serving(t)
      /\ UNCHANGED <<program, main, selects, coda, fd, on, req, left, raced, net, clients>>
      /\ \A u \in Threads : u # t => tpc'[u] = tpc[u]
      /\ tpc[t] \in {"pipe", "calc"} /\ p \in {"pipe", "calc", "silent", "wlen"}
  BY <1>2, cmdCases
<1>5. c0 \in Clients /\ Connected(c0)
  BY <1>1, <1>4, ServesOne
<1>6. Agree(c0, "wlen", b)
  BY <1>1, <1>3, <1>4, <1>5 DEF FrameTurns, InTune, Serves, Part
<1>7. Meet(program, c0, cpc[c0], cleft[c0], toServer'[c0], toClient'[c0], Part(p), b)
  <2>1. Part(p) = "wlen" /\ toServer' = toServer /\ toClient' = toClient
    BY <1>4 DEF Part
  <2> QED BY <1>6, <2>1 DEF Agree
<1> QED BY <1>1, <1>2, <1>3, <1>4, <1>7, FrameThread

LEMMA FrameCloses ==
    ASSUME Core, FrameTurns, Frames, NEW t \in Threads, CloseClient(t)
    PROVE  FrameTurns'
<1>1. PICK f : f = fd[t]
  OBVIOUS
<1>2. PICK c0 : c0 = conn[f]
  OBVIOUS
<1>3. /\ tpc[t] = "close" /\ conn' = [conn EXCEPT ![f] = NoClient]
      /\ tpc' = [tpc EXCEPT ![t] = IF OneByOne THEN "none" ELSE "done"]
      /\ UNCHANGED <<program, fd, left, backlog, toServer, toClient, cpc, cleft>>
  BY <1>1 DEF CloseClient, Now, clients
<1>4. /\ Serving(t) /\ ~Text /\ f \in Open /\ f \in Fds /\ c0 \in Clients /\ Connected(c0)
      /\ \A u \in Threads : Serving(u) /\ fd[u] = f => u = t
  BY <1>1, <1>2, <1>3, ServesOne DEF Serving
<1>5. Closed(c0)
  BY <1>1, <1>2, <1>3, <1>4 DEF FrameTurns, InTune, Serves
<1>6. /\ \A g \in Fds : conn'[g] = IF g = f THEN NoClient ELSE conn[g]
      /\ \A g : g \in Open' <=> g \in Open /\ g # f
  BY <1>3 DEF Core, Types, Open
<1>7. ~Connected(c0)'
  <2>1. ~Has(backlog, c0) /\ \A g \in Open : conn[g] = c0 => g = f
    BY <1>2, <1>4 DEF Core, Conns
  <2>2. \A g \in Open' : conn'[g] # c0
    BY <1>6, <2>1 DEF Open
  <2> QED BY <1>3, <2>1, <2>2 DEF Connected
<1>8. ASSUME NEW c \in Clients, c # c0 PROVE Connected(c)' <=> Connected(c)
  <2>1. \A g \in Open : conn[g] = c => g # f /\ g \in Open' /\ conn'[g] = c
    BY <1>2, <1>6, <1>8 DEF Open
  <2>2. \A g \in Open' : conn'[g] = c => g \in Open /\ conn[g] = c
    BY <1>6 DEF Open
  <2> QED BY <1>3, <2>1, <2>2 DEF Connected
<1>9. /\ ~Serving(t)' /\ \A u \in Threads : u # t => tpc'[u] = tpc[u] /\ (Serving(u)' <=> Serving(u))
  <2>1. tpc'[t] \in {"none", "done"} /\ \A u \in Threads : u # t => tpc'[u] = tpc[u]
    BY <1>3 DEF Core, Types
  <2> QED BY <1>3, <2>1 DEF Serving, Text
<1>10. ASSUME NEW c \in Clients, c # c0, NEW u \in Threads
       PROVE  (Serves(u, c)' <=> Serves(u, c)) /\ (Serves(u, c) => tpc'[u] = tpc[u] /\ left'[u] = left[u])
  <2>1. CASE u = t
    BY <1>1, <1>2, <1>9, <1>10, <2>1 DEF Serves
  <2>2. CASE u # t
    <3>1. Serving(u) => fd[u] # f /\ fd[u] \in Fds
      BY <1>4, <2>2, ServesOne
    <3> QED BY <1>3, <1>6, <1>9, <2>2, <3>1 DEF Serves
  <2> QED BY <2>1, <2>2
<1>11. cpc'[c0] \in Gone
  BY <1>3, <1>5 DEF Closed
<1> QED BY <1>3, <1>4, <1>7, <1>8, <1>10, <1>11, FrameStep

-----------------------------------------------------------------------------
\* A client moves on: whatever its server is at.
LEMMA FrameClient ==
    ASSUME Core, FrameTurns, Frames, NEW c0 \in Clients, ~Closed(c0), cpc[c0] # "start",
           UNCHANGED <<program, serverVars, backlog, conn>>,
           \A c \in Clients : c # c0 =>
              /\ cpc'[c] = cpc[c] /\ cleft'[c] = cleft[c]
              /\ toServer'[c] = toServer[c] /\ toClient'[c] = toClient[c],
           \A p, b : Agree(c0, p, b) =>
              Meet(program, c0, cpc'[c0], cleft'[c0], toServer'[c0], toClient'[c0], p, b)
    PROVE  FrameTurns'
<1>1. /\ \A c : Connected(c)' <=> Connected(c)
      /\ \A t, c : t \in Threads => (Serves(t, c)' <=> Serves(t, c))
      /\ tpc' = tpc /\ left' = left
  BY DEF Connected, Open, Serves, Serving, Text, serverVars, threads
<1>2. Connected(c0) /\ InTune(c0)
  BY DEF FrameTurns, Closed
<1>3. InTune(c0)'
  <2>1. ASSUME NEW t \in Threads, Serves(t, c0)'
        PROVE  IF tpc'[t] = "close" THEN Closed(c0)' ELSE Agree(c0, Part(tpc[t]), left[t])'
    <3>1. tpc'[t] # "close" /\ Agree(c0, Part(tpc[t]), left[t])
      BY <1>1, <1>2, <2>1 DEF InTune
    <3> QED BY <1>1, <3>1 DEF Agree
  <2>2. ASSUME \A t \in Threads : ~Serves(t, c0)' PROVE Agree(c0, "len", Units)'
    <3>1. Agree(c0, "len", Units)
      BY <1>1, <1>2, <2>2 DEF InTune
    <3> QED BY <3>1 DEF Agree
  <2> QED BY <2>1, <2>2 DEF InTune
<1> QED BY <1>1, <1>2, <1>3, FrameStep

\* What Moved does, in the words of Passes.
LEMMA MovedPasses ==
    ASSUME Core, NEW c0 \in Clients, NEW n \in 1 .. cleft[c0], NEW p, NEW next,
           cpc[c0] = p, AfterMoved(c0, n, p, next)
    PROVE  /\ Passes(n, p, cleft[c0], next, cpc'[c0], cleft'[c0])
           /\ \A c \in Clients : c # c0 => cpc'[c] = cpc[c] /\ cleft'[c] = cleft[c]
BY ClientTypes DEF AfterMoved, Passes

LEMMA FrameSends ==
    ASSUME Core, FrameTurns, NEW c0 \in Clients, Send(c0)
    PROVE  FrameTurns'
<1> DEFINE unit == cpc[c0]
<1>1. /\ UNCHANGED <<program, serverVars, backlog, conn, toClient>>
      /\ unit \in {"len", "body"} /\ Frames /\ cpc[c0] = unit
  BY SendCases DEF Core, Modes
<1>2. \E n \in 1 .. cleft[c0] :
         /\ toServer' = [toServer EXCEPT ![c0] = @ \o [k \in 1 .. n |-> unit]]
         /\ \/ unit = "len" /\ AfterMoved(c0, n, "len", "body")
            \/ unit = "body" /\ AfterMoved(c0, n, "body", "rlen")
  BY SendCases
<1> HIDE DEF unit
<1>3. PICK n \in 1 .. cleft[c0] :
         /\ toServer' = [toServer EXCEPT ![c0] = @ \o [k \in 1 .. n |-> unit]]
         /\ \/ unit = "len" /\ AfterMoved(c0, n, "len", "body")
            \/ unit = "body" /\ AfterMoved(c0, n, "body", "rlen")
  BY <1>2
<1>4. /\ toServer[c0] \in Seq(Requests) /\ toClient[c0] \in Seq(Answers) /\ n \in Nat
      /\ unit \in Requests
  BY <1>1, ClientTypes DEF Requests
<1>5. /\ toServer'[c0] = toServer[c0] \o [k \in 1 .. n |-> unit]
      /\ \A c \in Clients : c # c0 => toServer'[c] = toServer[c]
  BY <1>3, ClientTypes
<1>6. Appended(toServer'[c0], toServer[c0], n, unit)
  <2>1. Appended(toServer[c0] \o [k \in 1 .. n |-> unit], toServer[c0], n, unit)
    BY <1>4, UnitsAppended DEF Appended
  <2> QED BY <1>5, <2>1
<1>7. PICK next : (unit = "len" => next = "body") /\ (unit = "body" => next = "rlen")
  OBVIOUS
<1>8. /\ Passes(n, unit, cleft[c0], next, cpc'[c0], cleft'[c0])
      /\ \A c \in Clients : c # c0 => cpc'[c] = cpc[c] /\ cleft'[c] = cleft[c]
  <2>1. AfterMoved(c0, n, unit, next)
    BY <1>3, <1>7
  <2> QED BY <1>1, <2>1, MovedPasses
<1>9. ASSUME NEW p, NEW b, Agree(c0, p, b)
      PROVE  Meet(program, c0, cpc'[c0], cleft'[c0], toServer'[c0], toClient'[c0], p, b)
  <2>1. PICK pc : pc = unit
    OBVIOUS
  <2>2. PICK a : a = cleft[c0]
    OBVIOUS
  <2>3. PICK in : in = toServer[c0]
    OBVIOUS
  <2>4. PICK out : out = toClient[c0]
    OBVIOUS
  <2>5. PICK q : q = toServer'[c0]
    OBVIOUS
  <2>6. PICK pc1 : pc1 = cpc'[c0]
    OBVIOUS
  <2>7. PICK a1 : a1 = cleft'[c0]
    OBVIOUS
  <2>8. /\ pc \in {"len", "body"} /\ in \in Seq(Requests) /\ out \in Seq(Answers)
        /\ (pc = "len" => next = "body") /\ (pc = "body" => next = "rlen")
        /\ Appended(q, in, n, pc) /\ Passes(n, pc, a, next, pc1, a1)
        /\ Meet(program, c0, pc, a, in, out, p, b)
    BY <1>1, <1>4, <1>6, <1>7, <1>8, <1>9, <2>1, <2>2, <2>3, <2>4, <2>5, <2>6, <2>7 DEF Agree
  <2>9. Meet(program, c0, pc1, a1, q, out, p, b)
    BY <2>8, ClientSends
  <2>10. toClient' = toClient
    BY <1>1
  <2> QED BY <2>4, <2>5, <2>6, <2>7, <2>9, <2>10
<1>10. ~Closed(c0) /\ cpc[c0] # "start"
  BY <1>1 DEF Closed, Gone
<1> QED BY <1>1, <1>5, <1>8, <1>9, <1>10, FrameClient

LEMMA FrameReads ==
    ASSUME Core, FrameTurns, NEW c0 \in Clients, Read(c0)
    PROVE  FrameTurns'
<1>1. /\ UNCHANGED <<program, serverVars, backlog, conn, toServer>>
      /\ cpc[c0] \in {"rlen", "rbody"} /\ Frames
  BY ReadCases DEF Core, Modes
<1>2. PICK n \in 1 .. cleft[c0] :
         /\ n <= Len(toClient[c0])
         /\ toClient' = [toClient EXCEPT ![c0] = Drop(n, @)]
         /\ \/ cpc[c0] = "rlen" /\ AfterMoved(c0, n, "rlen", "rbody")
            \/ cpc[c0] = "rbody" /\ AfterMoved(c0, n, "rbody", "prompt")
  BY ReadCases
<1>3. /\ toClient'[c0] = Drop(n, toClient[c0])
      /\ \A c \in Clients : c # c0 => toClient'[c] = toClient[c]
  BY <1>2, ClientTypes
<1>4. PICK next : (cpc[c0] = "rlen" => next = "rbody") /\ (cpc[c0] = "rbody" => next = "prompt")
  OBVIOUS
<1>5. /\ Passes(n, cpc[c0], cleft[c0], next, cpc'[c0], cleft'[c0])
      /\ \A c \in Clients : c # c0 => cpc'[c] = cpc[c] /\ cleft'[c] = cleft[c]
  <2>1. PICK p : p = cpc[c0]
    OBVIOUS
  <2>2. AfterMoved(c0, n, p, next)
    BY <1>2, <1>4, <2>1
  <2>3. /\ Passes(n, p, cleft[c0], next, cpc'[c0], cleft'[c0])
        /\ \A c \in Clients : c # c0 => cpc'[c] = cpc[c] /\ cleft'[c] = cleft[c]
    BY <2>1, <2>2, MovedPasses
  <2> QED BY <2>1, <2>3
<1>6. ASSUME NEW p, NEW b, Agree(c0, p, b)
      PROVE  Meet(program, c0, cpc'[c0], cleft'[c0], toServer'[c0], toClient'[c0], p, b)
  <2>1. PICK pc : pc = cpc[c0]
    OBVIOUS
  <2>2. PICK a : a = cleft[c0]
    OBVIOUS
  <2>3. PICK in : in = toServer[c0]
    OBVIOUS
  <2>4. PICK out : out = toClient[c0]
    OBVIOUS
  <2>5. PICK q : q = toClient'[c0]
    OBVIOUS
  <2>6. PICK pc1 : pc1 = cpc'[c0]
    OBVIOUS
  <2>7. PICK a1 : a1 = cleft'[c0]
    OBVIOUS
  <2>8. /\ pc \in {"rlen", "rbody"} /\ in \in Seq(Requests) /\ out \in Seq(Answers)
        /\ (pc = "rlen" => next = "rbody") /\ (pc = "rbody" => next = "prompt")
        /\ n <= Len(out) /\ q = Drop(n, out) /\ Passes(n, pc, a, next, pc1, a1)
        /\ Meet(program, c0, pc, a, in, out, p, b)
    BY <1>1, <1>2, <1>3, <1>4, <1>5, <1>6, <2>1, <2>2, <2>3, <2>4, <2>5, <2>6, <2>7, ClientTypes
    DEF Agree
  <2>9. Meet(program, c0, pc1, a1, in, q, p, b)
    BY <2>8, ClientReads
  <2>10. toServer' = toServer
    BY <1>1
  <2> QED BY <2>3, <2>5, <2>6, <2>7, <2>9, <2>10
<1>7. ~Closed(c0) /\ cpc[c0] # "start"
  BY <1>1 DEF Closed, Gone
<1> QED BY <1>1, <1>3, <1>5, <1>6, <1>7, FrameClient

LEMMA FrameTalks ==
    ASSUME Core, FrameTurns, Frames, NEW c0 \in Clients,
           \/ Receive(c0) \/ Request(c0) \/ Leave(c0) \/ SendQuit(c0) \/ Kill(c0) \/ HangUp(c0)
    PROVE  FrameTurns'
<1>0. ~Text
  BY Classes
<1>1. CASE Receive(c0) \/ SendQuit(c0)
  BY <1>0, <1>1 DEF Receive, SendQuit, Core, Modes
<1>2. CASE HangUp(c0)
  <2>1. Connected(c0) => Held(c0)
    BY DEF Connected, Held, Has
  <2> QED BY <1>2, <2>1 DEF HangUp, FrameTurns
<1>3. CASE Request(c0)
  <2>1. /\ cpc[c0] = "prompt" /\ cpc' = [cpc EXCEPT ![c0] = "len"]
        /\ cleft' = [cleft EXCEPT ![c0] = Units]
        /\ UNCHANGED <<program, serverVars, backlog, conn, toServer, toClient>>
    BY <1>3 DEF Request, Goto
  <2>2. /\ cpc'[c0] = "len" /\ cleft'[c0] = Units
        /\ \A c \in Clients : c # c0 => cpc'[c] = cpc[c] /\ cleft'[c] = cleft[c]
    BY <2>1, ClientTypes
  <2>3. ASSUME NEW p, NEW b, Agree(c0, p, b)
        PROVE  Meet(program, c0, cpc'[c0], cleft'[c0], toServer'[c0], toClient'[c0], p, b)
    <3>1. Meet(program, c0, "prompt", cleft[c0], toServer[c0], toClient[c0], p, b)
      BY <2>1, <2>3 DEF Agree
    <3>2. toServer[c0] \in Seq(Requests)
      BY ClientTypes
    <3>3. Meet(program, c0, "len", Units, toServer[c0], toClient[c0], p, b)
      BY <3>1, <3>2, ClientTurns
    <3> QED BY <2>1, <2>2, <3>3
  <2>4. ~Closed(c0) /\ cpc[c0] # "start"
    BY <2>1 DEF Closed, Gone
  <2> QED BY <2>1, <2>2, <2>3, <2>4, FrameClient
<1>4. CASE Leave(c0) \/ Kill(c0)
  <2>1. UNCHANGED <<program, serverVars, backlog, conn, toServer, toClient, cleft>>
    BY <1>4 DEF Leave, Kill, net
  <2>2. /\ \/ cpc[c0] = "prompt" /\ cpc'[c0] = "closed"
           \/ cpc[c0] \in {"len", "body"} /\ cpc'[c0] = "killed"
           \/ cpc[c0] \in {"rlen", "rbody"} /\ cpc'[c0] = "deserted"
        /\ \A c \in Clients : c # c0 => cpc'[c] = cpc[c]
    <3>1. CASE Leave(c0)
      BY <3>1, ClientTypes DEF Leave, Goto
    <3>2. CASE Kill(c0)
      <4>1. cpc[c0] \in {"len", "body", "rlen", "rbody"}
        BY <1>0, <3>2, ClientTypes DEF Kill, ClientPlaces, Core, Modes
      <4> QED BY <3>2, <4>1, ClientTypes DEF Kill, Goto
    <3> QED BY <1>4, <3>1, <3>2
  <2>3. ASSUME NEW p, NEW b, Agree(c0, p, b)
        PROVE  Meet(program, c0, cpc'[c0], cleft'[c0], toServer'[c0], toClient'[c0], p, b)
    <3>1. PICK a : a = cleft[c0]
      OBVIOUS
    <3>2. PICK in : in = toServer[c0]
      OBVIOUS
    <3>3. PICK out : out = toClient[c0]
      OBVIOUS
    <3>4. PICK pc : pc = cpc[c0]
      OBVIOUS
    <3>5. PICK pc1 : pc1 = cpc'[c0]
      OBVIOUS
    <3>6. /\ in \in Seq(Requests) /\ Meet(program, c0, pc, a, in, out, p, b)
          /\ \/ pc = "prompt" /\ pc1 = "closed"
             \/ pc \in {"len", "body"} /\ pc1 = "killed"
             \/ pc \in {"rlen", "rbody"} /\ pc1 = "deserted"
      BY <2>2, <2>3, <3>1, <3>2, <3>3, <3>4, <3>5, ClientTypes DEF Agree
    <3>7. Meet(program, c0, pc1, a, in, out, p, b)
      BY <3>6, ClientTurns
    <3> QED BY <2>1, <3>1, <3>2, <3>3, <3>5, <3>7
  <2>4. ~Closed(c0) /\ cpc[c0] # "start"
    BY <2>2 DEF Closed, Gone
  <2> QED BY <2>1, <2>2, <2>3, <2>4, FrameClient
<1> QED BY <1>1, <1>2, <1>3, <1>4

\* A new client has to be accepted first; nothing has been said.
LEMMA FrameConnect ==
    ASSUME Core, FrameTurns, Frames, NEW c0 \in Clients, Connect(c0)
    PROVE  FrameTurns'
<1>1. /\ cpc[c0] = "start" /\ cpc' = [cpc EXCEPT ![c0] = "prompt"]
      /\ backlog' = Append(backlog, c0)
      /\ UNCHANGED <<program, serverVars, conn, toServer, toClient, cleft>>
  BY Classes DEF Connect, Goto
<1>2. /\ cpc'[c0] = "prompt" /\ \A c \in Clients : c # c0 => cpc'[c] = cpc[c]
      /\ \A c : Has(backlog', c) <=> Has(backlog, c) \/ c = c0
      /\ toServer[c0] = <<>> /\ toClient[c0] = <<>> /\ ~Connected(c0)
  BY <1>1, HasAppend DEF Core, Types, Conns
<1>3. /\ \A c : c # c0 => (Connected(c)' <=> Connected(c))
      /\ Connected(c0)'
      /\ \A t, c : t \in Threads => (Serves(t, c)' <=> Serves(t, c))
      /\ tpc' = tpc /\ left' = left
  BY <1>1, <1>2 DEF Connected, Open, Serves, Serving, Text, serverVars, threads
<1>4. \A t \in Threads : ~Serves(t, c0)
  BY <1>2, ServesOne DEF Serves
<1>5. Agree(c0, "len", Units)'
  <2>1. Units \in 1 .. Units
    BY Constants
  <2>2. /\ program' = program /\ cpc'[c0] = "prompt" /\ toServer'[c0] = <<>> /\ toClient'[c0] = <<>>
    BY <1>1, <1>2
  <2> QED BY <2>1, <2>2 DEF Agree, Meet
<1>6. InTune(c0)'
  BY <1>3, <1>4, <1>5 DEF InTune
<1> QED BY <1>1, <1>2, <1>3, <1>6, FrameStep

LEMMA FrameServerGone ==
    ASSUME Core, FrameTurns, Frames, ServerGone
    PROVE  FrameTurns'
<1>1. /\ UNCHANGED <<program, serverVars, net, cleft>>
      /\ \A c \in Clients : (Closed(c) /\ cpc'[c] = cpc[c]) \/ cpc'[c] = "dropped"
  BY Classes DEF ServerGone, Retries
<1>2. /\ \A c : Connected(c)' <=> Connected(c)
      /\ \A t, c : t \in Threads => (Serves(t, c)' <=> Serves(t, c))
      /\ tpc' = tpc /\ left' = left
  BY <1>1 DEF Connected, Open, Serves, Serving, Text, serverVars, threads, net
<1>3. ASSUME NEW c \in Clients, Connected(c) PROVE InTune(c)'
  <2>1. InTune(c)
    BY <1>3 DEF FrameTurns
  <2>2. ASSUME NEW p, NEW b, Agree(c, p, b) PROVE Agree(c, p, b)'
    <3>1. CASE cpc'[c] = cpc[c]
      BY <1>1, <2>2, <3>1 DEF Agree, net
    <3>2. CASE cpc'[c] = "dropped"
      <4>1. b \in 1 .. Units
        BY <2>2 DEF Agree, Meet
      <4> QED BY <3>2, <4>1 DEF Agree, Meet
    <3> QED BY <1>1, <3>1, <3>2
  <2>3. Closed(c)'
    BY <1>1 DEF Closed, Gone
  <2>4. ASSUME NEW t \in Threads, Serves(t, c)'
        PROVE  IF tpc'[t] = "close" THEN Closed(c)' ELSE Agree(c, Part(tpc[t]), left[t])'
    <3>1. CASE tpc[t] = "close"
      BY <1>2, <2>3, <3>1
    <3>2. CASE tpc[t] # "close"
      <4>1. PICK p : p = Part(tpc[t])
        OBVIOUS
      <4>2. PICK b : b = left[t]
        OBVIOUS
      <4>3. Agree(c, p, b)
        BY <1>2, <2>1, <2>4, <3>2, <4>1, <4>2 DEF InTune
      <4>4. Agree(c, p, b)'
        BY <2>2, <4>3
      <4> QED BY <1>2, <3>2, <4>1, <4>2, <4>4 DEF Agree
    <3> QED BY <3>1, <3>2
  <2>5. ASSUME \A t \in Threads : ~Serves(t, c)' PROVE Agree(c, "len", Units)'
    <3>1. Agree(c, "len", Units)
      BY <1>2, <2>1, <2>5 DEF InTune
    <3> QED BY <2>2, <3>1
  <2> QED BY <2>4, <2>5 DEF InTune
<1>4. \A c \in Clients : cpc'[c] \in Gone
  BY <1>1 DEF Closed, Gone
<1> QED BY <1>2, <1>3, <1>4 DEF FrameTurns

\* The other steps are not those of servers of frames, or move no client.
LEMMA NotFrames ==
    ASSUME Core, Frames
    PROVE  /\ ~Welcome
           /\ \A t \in Threads : /\ ~Start(t) /\ ~RemoveNode(t) /\ ~CallRead(t) /\ ~ReadReturns(t)
                                 /\ ~Reply(t) /\ ~CloseQuit(t) /\ ~bc(t)
           /\ ~PerClient
<1>1. ~Text /\ ~Direct /\ ~PerClient /\ program # "es1"
  BY Classes
<1> QED BY <1>1 DEF Welcome, Start, RemoveNode, CallRead, ReadReturns, Reply, CloseQuit, bc,
            Core, Modes

LEMMA QuietFrames ==
    ASSUME FrameTurns,
           \/ CallAccept \/ InsertNode \/ Closing \/ Return \/ CallSelect \/ EndScan \/ Signal
           \/ CloseListening \/ ExitSuccess
    PROVE  FrameTurns'
<1>1. UNCHANGED <<program, tpc, fd, left, conn, backlog, cpc, cleft, toServer, toClient>>
  <2>1. CASE CallAccept \/ InsertNode \/ Closing \/ Return
    BY <2>1 DEF CallAccept, InsertNode, Closing, Return, threads, net, clients
  <2>2. CASE CallSelect \/ EndScan \/ Signal
    BY <2>2 DEF CallSelect, EndScan, Signal, threads, net, clients
  <2>3. CASE CloseListening \/ ExitSuccess
    BY <2>3 DEF CloseListening, ExitSuccess, threads, net, clients
  <2> QED BY <2>1, <2>2, <2>3
<1> QED BY <1>1, FrameQuiet

LEMMA FrameStays ==
    ASSUME Core, FrameTurns, [Next]_vars
    PROVE  FrameTurns'
<1>0. SUFFICES ASSUME Frames PROVE FrameTurns'
  <2>1. program' = program
    BY ProgramStays
  <2> QED BY <2>1 DEF FrameTurns, Frames
<1>1. CASE UNCHANGED vars
  BY <1>1, FrameQuiet DEF vars, serverVars, threads, net, clients
<1>2. CASE ServerStep
  BY <1>0, <1>2, NotFrames, QuietFrames, FrameSpawn, FrameAccepts, FrameServeSelected, Zenon DEF ServerStep
<1>3. ASSUME NEW t \in Threads, ThreadStep(t) PROVE FrameTurns'
  BY <1>0, <1>3, NotFrames, FrameReadn, FrameWriten, Framecmd, FrameCloses, Zenon DEF ThreadStep
<1>4. ASSUME NEW c \in Clients, ClientStep(c) PROVE FrameTurns'
  BY <1>0, <1>4, FrameConnect, FrameTalks, FrameSends, FrameReads, Zenon DEF ClientStep
<1>5. CASE ServerGone
  BY <1>0, <1>5, FrameServerGone
<1> QED BY <1>1, <1>2, <1>3, <1>4, <1>5, Steps

LEMMA FrameInit ==
    ASSUME Init
    PROVE  FrameTurns
<1>1. Open = {} /\ (\A c : ~Has(backlog, c)) /\ \A c \in Clients : cpc[c] = "start"
  BY DEF Init, InitClients, Open, Has
<1> QED BY <1>1 DEF FrameTurns, Connected

(* Each client of frames and the thread that serves it agree on the place  *)
(* in the frame where they are, however their reads and writes are cut.    *)
THEOREM FrameTurnsCorrect == Spec => []FrameTurns
<1>1. Init => Core /\ FrameTurns
  BY CoreInit, FrameInit
<1>2. Core /\ FrameTurns /\ [Next]_vars => (Core /\ FrameTurns)'
  BY CoreStep, FrameStays
<1> QED BY <1>1, <1>2, PTL DEF Spec

-----------------------------------------------------------------------------
(* Each end of a stream finds the part of a frame that it reads.           *)

LEMMA FindsRequest ==
    ASSUME NEW prog, NEW c, NEW pc, NEW a, NEW in, NEW out, NEW p, NEW b,
           Meet(prog, c, pc, a, in, out, p, b), in \in Seq(Requests)
    PROVE  /\ pc \in {"prompt", "len", "body", "rlen", "rbody", "closed", "killed", "deserted"}
           /\ p \in {"len", "body"}
           => \A k \in 1 .. Len(in) : k <= b => in[k] = p
<1> HAVE /\ pc \in {"prompt", "len", "body", "rlen", "rbody", "closed", "killed", "deserted"}
         /\ p \in {"len", "body"}
<1> TAKE k \in 1 .. Len(in)
<1> HAVE k <= b
<1> DEFINE S(x, y) == Stream(in, x, y, "len", "body")
<1>1. /\ b \in 1 .. Units /\ k \in Nat \ {0} /\ Units \in Nat \ {0} /\ Len(in) \in Nat
      /\ in # <<>>
  BY Constants, EmptySeq DEF Meet
<1>2. \A x, y : S(x, y) => /\ x \in Nat /\ y \in Nat /\ Len(in) = x + y
                           /\ in[k] = IF k <= x THEN "len" ELSE "body"
  BY DEF Stream
<1> HIDE DEF S
<1>3. pc \notin {"prompt", "rbody", "closed"}
  BY <1>1 DEF Meet
<1>4. CASE pc = "len"
  <2>1. p = "len" /\ S(b - a, 0)
    BY <1>4 DEF Meet, S
  <2>2. Len(in) = (b - a) + 0 /\ b - a \in Nat /\ in[k] = IF k <= b - a THEN "len" ELSE "body"
    BY <1>2, <2>1, Zenon
  <2>3. k <= b - a
    BY <1>1, <2>2
  <2> QED BY <2>1, <2>2, <2>3
<1>5. CASE pc = "body"
  <2>1. (p = "len" /\ S(b, Units - a)) \/ (p = "body" /\ S(0, b - a))
    BY <1>5 DEF Meet, S
  <2>2. ~(k <= 0)
    BY <1>1
  <2> QED BY <1>2, <2>1, <2>2, Zenon
<1>6. CASE pc = "rlen"
  <2>1. (p = "len" /\ S(b, Units)) \/ (p = "body" /\ S(0, b))
    BY <1>1, <1>6 DEF Meet, S
  <2>2. ~(k <= 0)
    BY <1>1
  <2> QED BY <1>2, <2>1, <2>2, Zenon
<1>7. CASE pc \in {"killed", "deserted"}
  <2>1. PICK j \in {0, 1} : Unread(in, p, b, j)
    BY <1>7 DEF Meet
  <2>2. CASE p = "len"
    <3>1. PICK m \in 0 .. b, n \in 0 .. Units - j : S(m, n) /\ (n > 0 => m = b)
      BY <2>1, <2>2 DEF Unread, S
    <3>2. Len(in) = m + n /\ in[k] = IF k <= m THEN "len" ELSE "body"
      BY <1>2, <3>1, Zenon
    <3>3. k <= m
      BY <1>1, <3>1, <3>2
    <3> QED BY <2>2, <3>2, <3>3
  <2>3. CASE p = "body"
    <3>1. PICK n \in 0 .. b - j : S(0, n)
      BY <2>1, <2>3 DEF Unread, S
    <3>2. ~(k <= 0)
      BY <1>1
    <3> QED BY <1>2, <2>3, <3>1, <3>2, Zenon
  <2> QED BY <2>2, <2>3
<1> QED BY <1>3, <1>4, <1>5, <1>6, <1>7

LEMMA FindsAnswer ==
    ASSUME NEW prog, NEW c, NEW pc, NEW a, NEW in, NEW out, NEW p, NEW b,
           Meet(prog, c, pc, a, in, out, p, b), out \in Seq(Answers)
    PROVE  pc \in {"rlen", "rbody"} =>
              \A k \in 1 .. Len(out) : k <= a => out[k] = IF pc = "rlen" THEN "len" ELSE c
<1> HAVE pc \in {"rlen", "rbody"}
<1> TAKE k \in 1 .. Len(out)
<1> HAVE k <= a
<1> DEFINE S(x, y) == Stream(out, x, y, "len", c)
<1>1. /\ b \in 1 .. Units /\ k \in Nat \ {0} /\ a \in 1 .. Units /\ Units \in Nat \ {0}
      /\ Len(out) \in Nat /\ out # <<>> /\ ~(k <= 0)
  BY Constants, EmptySeq DEF Meet
<1>2. \A x, y : S(x, y) => /\ x \in Nat /\ y \in Nat /\ Len(out) = x + y
                           /\ out[k] = IF k <= x THEN "len" ELSE c
  BY DEF Stream
<1> HIDE DEF S
<1>3. CASE pc = "rlen"
  <2>1. S(a - b, 0) \/ S(a, Units - b) \/ S(a, Units)
    BY <1>1, <1>3 DEF Meet, S
  <2>2. CASE S(a - b, 0)
    <3>1. Len(out) = (a - b) + 0 /\ a - b \in Nat /\ out[k] = IF k <= a - b THEN "len" ELSE c
      BY <1>2, <2>2, Zenon
    <3>2. k <= a - b
      BY <1>1, <3>1
    <3> QED BY <1>3, <3>1, <3>2
  <2>3. CASE S(a, Units - b) \/ S(a, Units)
    BY <1>2, <1>3, <2>3, Zenon
  <2> QED BY <2>1, <2>2, <2>3
<1>4. CASE pc = "rbody"
  <2>1. S(0, a - b) \/ S(0, a)
    BY <1>4 DEF Meet, S
  <2> QED BY <1>1, <1>2, <1>4, <2>1, Zenon
<1> QED BY <1>3, <1>4

LEMMA TurnsInSync ==
    ASSUME Core, TextTurns, FrameTurns
    PROVE  InSync
<1>1. Text /\ ~raced =>
         \A c \in Clients : \A k \in 1 .. Len(toClient[c]) : toClient[c][k] \in {"welcome", c}
  BY DEF TextTurns, Clean
<1>2. ASSUME NEW t \in Threads, NEW c \in Clients,
             tpc[t] \in {"len", "body"}, conn[fd[t]] = c, server = "up",
             NEW k \in 1 .. Min({left[t], Len(toServer[c])})
      PROVE  toServer[c][k] = tpc[t]
  <2>1. Frames /\ Serving(t) /\ Serves(t, c)
    BY <1>2 DEF Core, Modes, Serving, Serves
  <2>2. Connected(c)
    BY <1>2, <2>1, ServesOne
  <2>3. Agree(c, tpc[t], left[t])
    BY <1>2, <2>1, <2>2 DEF FrameTurns, InTune, Part
  <2>4. cpc[c] \in {"prompt", "len", "body", "rlen", "rbody", "closed", "killed", "deserted"}
    <3>1. cpc[c] # "dropped" /\ cpc[c] # "start"
      BY <1>2, <2>2 DEF Core, Conns
    <3>2. cpc[c] \notin {"welcome", "quitted", "answer"}
      BY <2>1, Classes DEF Core, Modes
    <3> QED BY <3>1, <3>2, ClientTypes DEF ClientPlaces, Gone
  <2>5. k \in 1 .. Len(toServer[c]) /\ k <= left[t]
    <3>1. left[t] \in Nat /\ Len(toServer[c]) \in Nat
      BY ClientTypes, Constants DEF Core, Types
    <3>2. /\ Min({left[t], Len(toServer[c])}) \in Nat
          /\ Min({left[t], Len(toServer[c])}) <= left[t]
          /\ Min({left[t], Len(toServer[c])}) <= Len(toServer[c])
      BY <3>1, MinPair
    <3> QED BY <3>1, <3>2
  <2>6. PICK in : in = toServer[c]
    OBVIOUS
  <2>7. PICK p : p = tpc[t]
    OBVIOUS
  <2>8. PICK b : b = left[t]
    OBVIOUS
  <2>9. PICK pc : pc = cpc[c]
    OBVIOUS
  <2>10. PICK a : a = cleft[c]
    OBVIOUS
  <2>11. PICK out : out = toClient[c]
    OBVIOUS
  <2>12. /\ Meet(program, c, pc, a, in, out, p, b) /\ in \in Seq(Requests)
         /\ pc \in {"prompt", "len", "body", "rlen", "rbody", "closed", "killed", "deserted"}
         /\ p \in {"len", "body"} /\ k \in 1 .. Len(in) /\ k <= b
    BY <1>2, <2>3, <2>4, <2>5, <2>6, <2>7, <2>8, <2>9, <2>10, <2>11, ClientTypes DEF Agree
  <2>13. \A j \in 1 .. Len(in) : j <= b => in[j] = p
    BY <2>12, FindsRequest
  <2> QED BY <2>6, <2>7, <2>12, <2>13
<1>3. ASSUME NEW c \in Clients, cpc[c] \in {"rlen", "rbody"},
             NEW k \in 1 .. Min({cleft[c], Len(toClient[c])})
      PROVE  toClient[c][k] = IF cpc[c] = "rlen" THEN "len" ELSE c
  <2>1. Frames /\ ~Closed(c) /\ Connected(c) /\ InTune(c)
    BY <1>3 DEF Core, Modes, FrameTurns, Closed, Gone
  <2>2. \E p, b : Agree(c, p, b)
    <3>1. CASE \E t \in Threads : Serves(t, c)
      BY <2>1, <3>1 DEF InTune
    <3>2. CASE \A t \in Threads : ~Serves(t, c)
      BY <2>1, <3>2 DEF InTune
    <3> QED BY <3>1, <3>2
  <2>3. PICK p, b : Agree(c, p, b)
    BY <2>2
  <2>4. k \in 1 .. Len(toClient[c]) /\ k <= cleft[c]
    <3>1. cleft[c] \in Nat /\ Len(toClient[c]) \in Nat
      BY ClientTypes
    <3>2. /\ Min({cleft[c], Len(toClient[c])}) \in Nat
          /\ Min({cleft[c], Len(toClient[c])}) <= cleft[c]
          /\ Min({cleft[c], Len(toClient[c])}) <= Len(toClient[c])
      BY <3>1, MinPair
    <3> QED BY <3>1, <3>2
  <2>6. PICK in : in = toServer[c]
    OBVIOUS
  <2>9. PICK pc : pc = cpc[c]
    OBVIOUS
  <2>10. PICK a : a = cleft[c]
    OBVIOUS
  <2>11. PICK out : out = toClient[c]
    OBVIOUS
  <2>12. /\ Meet(program, c, pc, a, in, out, p, b) /\ out \in Seq(Answers)
         /\ pc \in {"rlen", "rbody"} /\ k \in 1 .. Len(out) /\ k <= a
    BY <1>3, <2>3, <2>4, <2>6, <2>9, <2>10, <2>11, ClientTypes DEF Agree
  <2>13. \A j \in 1 .. Len(out) : j <= a => out[j] = IF pc = "rlen" THEN "len" ELSE c
    BY <2>12, FindsAnswer
  <2> QED BY <2>9, <2>11, <2>12, <2>13
<1> QED BY <1>1, <1>2, <1>3 DEF InSync

(* No client is sent the answer to another one, and each end of a stream   *)
(* of frames finds a length where it reads one, and then a body.           *)
THEOREM ServersInSync == Spec => []InSync
<1>1. Core /\ TextTurns /\ FrameTurns => InSync
  BY TurnsInSync
<1> QED BY <1>1, CoreCorrect, TextTurnsCorrect, FrameTurnsCorrect, PTL

-----------------------------------------------------------------------------
(* Why a server fails.                                                     *)

(* What ServerSurvives says of a server that has failed: of most of them,  *)
(* and of one that cannot make its pipes.                                  *)
OutOfRoom == program = "bcserver" /\ tpc[1] = "pipe" /\ room < 4
Doomed ==
    \/ ~Direct /\ \E c \in Clients : cpc[c] = "deserted"
    \/ program \in TextPrograms \cup {"toup_server"} /\ \E c \in Clients : cpc[c] = "killed"
    \/ Text /\ \E c \in Clients : cpc[c] = "closed"
    \/ PerClient /\ (raced \/ term = 1 \/ ~listening)

\* A client of texts that is gone, with or without a word.
LEMMA GoneText ==
    ASSUME Core, server = "up", Text, NEW c \in Clients, Connected(c), Closed(c),
           cpc[c] # "quitted"
    PROVE  Doomed
<1>1. cpc[c] \in {"closed", "killed", "deserted"}
  BY GoneHow
<1>2. ~Direct /\ program \in TextPrograms
  BY Classes DEF Text
<1> QED BY <1>1, <1>2 DEF Doomed

LEMMA RacedIsDoomed ==
    ASSUME Core, raced
    PROVE  Doomed
BY DEF Core, Modes, Doomed

\* A client that is gone before it is welcomed has been killed.
LEMMA UnwelcomedIsDoomed ==
    ASSUME Core, TextTurns, server = "up", Text, ~raced, NEW c \in Clients, Connected(c),
           Awaits(c), Closed(c)
    PROVE  Doomed
<1>1. Unwelcomed(c)
  BY DEF TextTurns
<1> QED BY <1>1, GoneText DEF Unwelcomed

\* The steps of main.
LEMMA MainFails ==
    ASSUME Core, TextTurns, server # "failed", server' = "failed",
           CallAccept \/ Welcome \/ CallSelect \/ AcceptSelected
    PROVE  Doomed /\ UNCHANGED <<program, listening, term, raced, cpc>>
<1>1. CASE CallAccept
  <2>1. ~listening /\ mpc = "loop"
    BY <1>1 DEF CallAccept
  <2>2. PerClient
    BY <2>1 DEF Core, Modes
  <2> QED BY <1>1, <2>1, <2>2 DEF CallAccept, Doomed, threads, clients
<1>2. CASE Welcome
  <2>0. Text /\ ~Select /\ server = "up"
    BY <1>2 DEF Welcome, Core, Modes
  <2>1. PICK c : c = conn[cfd]
    OBVIOUS
  <2>2. mpc = "welcome" /\ (cfd \notin Open \/ Closed(c))
    BY <1>2, <2>1 DEF Welcome
  <2>3. CASE ~raced
    <3>1. cfd \in Open
      BY <2>0, <2>2, <2>3 DEF Core, Custody
    <3>2. c \in Clients /\ Connected(c) /\ Awaits(c) /\ Closed(c)
      BY <2>1, <2>2, <3>1, OpenFacts DEF Core, Connected, Awaits
    <3> QED BY <1>2, <2>0, <2>3, <3>2, UnwelcomedIsDoomed DEF Welcome, threads, clients
  <2>4. CASE raced
    BY <1>2, <2>4, RacedIsDoomed DEF Welcome, threads, clients
  <2> QED BY <2>3, <2>4, <1>2
<1>3. CASE CallSelect
  <2>1. mpc = "select" /\ ~(set \subseteq Open \cup {sfd})
    BY <1>3 DEF CallSelect
  <2> QED BY <2>1 DEF Core, Modes, SelectSet
<1>4. CASE AcceptSelected
  <2>1. Found(sfd) /\ Text /\ Closed(Head(backlog)) /\ server = "up"
    BY <1>4 DEF AcceptSelected, Found
  <2>2. backlog # <<>> /\ Select
    <3>1. sfd \in Fds
      BY Constants DEF sfd
    <3> QED BY <2>1, <3>1, FoundFacts
  <2>3. PICK c : c = Head(backlog)
    OBVIOUS
  <2>4. c \in Clients /\ Has(backlog, c)
    BY <2>2, <2>3, TailFacts DEF Core, Types
  <2>5. ~raced
    BY <2>2, Classes DEF Core, Modes
  <2>6. Connected(c) /\ Awaits(c) /\ Closed(c)
    BY <2>1, <2>3, <2>4 DEF Connected, Awaits
  <2> QED BY <1>4, <2>1, <2>4, <2>5, <2>6, UnwelcomedIsDoomed DEF AcceptSelected, main, threads, clients
<1> QED BY <1>1, <1>2, <1>3, <1>4

\* The steps of a thread that serves a client of texts.
LEMMA TextFails ==
    ASSUME Core, TextTurns, server # "failed", server' = "failed", NEW t \in Threads,
           CallRead(t) \/ ReadReturns(t) \/ Reply(t)
    PROVE  Doomed /\ UNCHANGED <<program, listening, term, raced, cpc>>
<1>1. /\ server = "up" /\ tpc[t] \in {"read", "blocked", "reply"} /\ Text
      /\ UNCHANGED <<program, listening, term, raced, cpc>>
  BY DEF CallRead, ReadReturns, Reply, Core, Modes, main, clients
<1> SUFFICES ASSUME ~raced PROVE Doomed
  BY <1>1, RacedIsDoomed
<1>2. Serving(t) /\ fd[t] \in Open
  BY <1>1, Served DEF Serving
<1>3. PICK c : c = conn[fd[t]]
  OBVIOUS
<1>4. /\ c \in Clients /\ Connected(c) /\ Turn(c)
      /\ \A u \in Threads : Serving(u) /\ conn[fd[u]] = c => u = t
  <2>1. /\ c \in Clients /\ Connected(c)
        /\ \A u \in Threads : Serving(u) /\ conn[fd[u]] = c => u = t
    BY <1>2, <1>3, Served
  <2>2. Turn(c)
    BY <1>1, <2>1, Zenon DEF TextTurns
  <2> QED BY <2>1, <2>2
<1>5. CASE CallRead(t)
  BY <1>2, <1>5 DEF CallRead
<1>6. CASE ReadReturns(t)
  <2>1. tpc[t] = "blocked" /\ on[t] = c
    BY <1>1, <1>3, <1>6 DEF ReadReturns, TextTurns, KnowsItsClient
  <2>2. toServer[c] = <<>> /\ Closed(c)
    BY <1>6, <2>1 DEF ReadReturns, Reset, Eof
  <2>3. ~QuitOf(c)
    BY <1>4, <2>1 DEF QuitOf, Serving
  <2>4. toServer[c] # <<"quit">>
    BY <2>2
  <2>5. cpc[c] # "quitted"
    BY <1>4, <2>3, <2>4, Zenon DEF Turn
  <2> QED BY <1>1, <1>4, <2>2, <2>5, GoneText
<1>7. CASE Reply(t)
  <2>1. Closed(c) /\ ReplyTo(c)
    BY <1>2, <1>3, <1>7 DEF Reply, ReplyTo
  <2>2. cpc[c] # "quitted"
    BY <1>4, <2>1, Zenon DEF Turn
  <2> QED BY <1>1, <1>4, <2>1, <2>2, GoneText
<1> QED BY <1>5, <1>6, <1>7

\* And those of a thread that serves a client of frames.
LEMMA FrameFails ==
    ASSUME Core, FrameTurns, server # "failed", server' = "failed", NEW t \in Threads,
           Readn(t) \/ Writen(t)
    PROVE  Doomed /\ UNCHANGED <<program, listening, term, raced, cpc>>
<1>1. PICK c : c = conn[fd[t]]
  OBVIOUS
<1>2. /\ server = "up" /\ tpc[t] \in {"len", "body", "wlen", "wbody"} /\ Frames
      /\ UNCHANGED <<program, listening, term, raced, cpc>>
  BY DEF Readn, Writen, Core, Modes, main, clients
<1>3. Serving(t) /\ Serves(t, c)
  BY <1>1, <1>2 DEF Serving, Serves
<1>4. c \in Clients /\ Connected(c)
  BY <1>1, <1>2, <1>3, ServesOne
<1>5. Agree(c, tpc[t], left[t])
  BY <1>2, <1>3, <1>4 DEF FrameTurns, InTune, Part
<1>6. ~Direct /\ ~Text
  BY <1>2, Classes
<1>7. Closed(c)
  BY <1>1 DEF Readn, Writen, Reset, Eof
<1>8. cpc[c] \in {"closed", "killed", "deserted"}
  BY <1>2, <1>4, <1>6, <1>7, GoneHow
<1>9. CASE cpc[c] = "deserted"
  BY <1>2, <1>4, <1>6, <1>9 DEF Doomed
<1>10. CASE Readn(t)
  <2>1. toClient[c] # <<>>
    BY <1>1, <1>2, <1>10 DEF Readn, Reset
  <2>2. cpc[c] = "deserted"
    BY <1>5, <1>8, <2>1 DEF Agree, Meet
  <2> QED BY <1>9, <2>2
<1>11. CASE Writen(t)
  <2>1. tpc[t] \in {"wlen", "wbody"}
    BY <1>11 DEF Writen
  <2>2. ~Unread(toServer[c], tpc[t], left[t], 1)
    BY <2>1 DEF Unread
  <2>3. cpc[c] # "closed" /\ (cpc[c] = "killed" => program = "toup_server")
    BY <1>5, <2>1, <2>2 DEF Agree, Meet
  <2>4. CASE cpc[c] = "killed"
    BY <1>2, <1>4, <2>3, <2>4 DEF Doomed
  <2> QED BY <1>8, <1>9, <2>3, <2>4
<1> QED BY <1>10, <1>11

\* No other step makes a server fail.
LEMMA Failures ==
    ASSUME [Next]_vars, server # "failed", server' = "failed"
    PROVE  \/ CallAccept \/ Welcome \/ CallSelect \/ AcceptSelected
           \/ \E t \in Threads : \/ CallRead(t) \/ ReadReturns(t) \/ Reply(t)
                                 \/ Readn(t) \/ Writen(t) \/ CallPipe(t)
<1>1. CASE ServerStep
  <2>1. /\ ~Accept /\ ~Spawn /\ ~InsertNode /\ ~Closing /\ ~Return /\ ~EndScan
        /\ ~ServeSelected /\ ~Signal /\ ~CloseListening /\ ~ExitSuccess
    BY DEF Accept, Spawn, InsertNode, Closing, Return, EndScan, ServeSelected, Signal,
       CloseListening, ExitSuccess
  <2> QED BY <1>1, <2>1, Zenon DEF ServerStep
<1>2. ASSUME NEW t \in Threads, ThreadStep(t)
      PROVE  CallRead(t) \/ ReadReturns(t) \/ Reply(t) \/ Readn(t) \/ Writen(t) \/ CallPipe(t)
  <2>1. /\ ~Start(t) /\ ~RemoveNode(t) /\ ~CloseQuit(t) /\ ~CloseAgain(t) /\ ~bc(t)
        /\ ~CloseClient(t) /\ ~Calculate(t)
    BY DEF Start, RemoveNode, CloseQuit, CloseAgain, bc, CloseClient, Calculate
  <2> QED BY <1>2, <2>1, Zenon DEF ThreadStep
<1>3. ASSUME NEW c \in Clients, ClientStep(c) PROVE FALSE
  BY <1>3 DEF ClientStep, Connect, Receive, Request, Leave, SendQuit, Kill, HangUp, Send, Read,
     serverVars
<1>4. ~ServerGone /\ ~UNCHANGED vars
  BY DEF ServerGone, vars, serverVars
<1> QED BY <1>1, <1>2, <1>3, <1>4, Steps

\* Once a server has failed, only its clients go.
LEMMA AfterFailure ==
    ASSUME [Next]_vars, server = "failed"
    PROVE  ServerGone \/ UNCHANGED vars
<1>1. ~ServerStep
  BY DEF ServerStep, CallAccept, Accept, Welcome, Spawn, InsertNode, Closing, Return, CallSelect,
     EndScan, AcceptSelected, ServeSelected, Signal, CloseListening, ExitSuccess, Found
<1>2. ASSUME NEW t \in Threads PROVE ~ThreadStep(t)
  BY DEF ThreadStep, Start, RemoveNode, CallRead, ReadReturns, Reply, CloseQuit, CloseAgain,
     Readn, Writen, CallPipe, Calculate, bc, CloseClient
<1>3. ASSUME NEW c \in Clients PROVE ~ClientStep(c)
  BY DEF ClientStep, Connect, Receive, Request, Leave, SendQuit, Kill, HangUp, Send, Read
<1> QED BY <1>1, <1>2, <1>3, Steps

\* bcserver.c, when it has used up the descriptors.
LEMMA PipeFails ==
    ASSUME Core, server # "failed", server' = "failed", NEW t \in Threads, CallPipe(t)
    PROVE  OutOfRoom'
<1>1. program = "bcserver" /\ Serving(t) /\ program' = program
  BY cmdCases
<1>2. t = 1
  BY <1>1 DEF Core, Modes, OneByOne, Serving
<1> QED BY <1>1, <1>2 DEF CallPipe, OutOfRoom

LEMMA SurvivesStays ==
    ASSUME Core, TextTurns, FrameTurns, ServerSurvives, [Next]_vars
    PROVE  ServerSurvives'
<1>1. SUFFICES ASSUME server' = "failed" PROVE Doomed' \/ OutOfRoom'
  BY DEF ServerSurvives, Doomed, OutOfRoom
<1>2. CASE server # "failed"
  <2>1. CASE \E t \in Threads : CallPipe(t)
    BY <1>1, <1>2, <2>1, PipeFails
  <2>2. CASE ~\E t \in Threads : CallPipe(t)
    <3>1. Doomed /\ UNCHANGED <<program, listening, term, raced, cpc>>
      BY <1>1, <1>2, <2>2, Failures, MainFails, TextFails, FrameFails
    <3> QED BY <3>1 DEF Doomed, Direct, Text, PerClient
  <2> QED BY <2>1, <2>2
<1>3. CASE server = "failed"
  <2>1. Doomed \/ OutOfRoom
    BY <1>3 DEF ServerSurvives, Doomed, OutOfRoom
  <2>2. /\ UNCHANGED <<program, tpc, room, listening, term, raced>>
        /\ \A c \in Clients : cpc[c] \in Gone => cpc'[c] = cpc[c]
    BY <1>3, AfterFailure DEF ServerGone, vars, serverVars, main, threads, clients, Closed
  <2>3. CASE Doomed
    BY <2>2, <2>3 DEF Doomed, Direct, Text, PerClient, Gone
  <2>4. CASE OutOfRoom
    BY <2>2, <2>4 DEF OutOfRoom
  <2> QED BY <2>1, <2>3, <2>4
<1> QED BY <1>2, <1>3

(* A server dies only of a client that went at the wrong moment, of a      *)
(* descriptor that two threads use, of a signal, or, bcserver.c, for want  *)
(* of descriptors for the pipes of one more request.                       *)
THEOREM ServersSurvive == Spec => []ServerSurvives
<1>1. Init => ServerSurvives
  BY DEF Init, ServerSurvives
<1>2. Core /\ TextTurns /\ FrameTurns /\ ServerSurvives /\ [Next]_vars => ServerSurvives'
  BY SurvivesStays
<1> QED BY <1>1, <1>2, CoreCorrect, TextTurnsCorrect, FrameTurnsCorrect, PTL DEF Spec

=============================================================================
