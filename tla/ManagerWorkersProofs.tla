------------------------ MODULE ManagerWorkersProofs ------------------------
(***************************************************************************)
(* Proofs about ManagerWorkers for a pool of any size and any number of    *)
(* clients that may be killed, with a termination signal at any moment.    *)
(* Nothing locks the pipe, so everything below holds until a worker writes *)
(* between the two writes of another (mixed; run TwoWorkers shows what     *)
(* happens then): the workers take turns in any other way.                 *)
(*                                                                         *)
(* The inductive invariant is ServerInv.  Custody is the ring of places    *)
(* that a descriptor goes round, with Pairs for the pipe, where flags and  *)
(* descriptors look alike; Flags says that a -1, in the pipe or about to   *)
(* be written, is about a client that has gone; Scan is what the master's  *)
(* for loop knows of the descriptors that it has not reached yet; Conns    *)
(* says that there is a descriptor left for each connection; Turns that    *)
(* between a client and the server one thing at a time is going on, so     *)
(* that a client that closes by itself leaves nothing behind.              *)
(***************************************************************************)
EXTENDS ManagerWorkers, FiniteSetTheorems, SequenceTheorems, TLAPS

NumClients == Cardinality(Clients)

\* The descriptors that accept returns: 0 stays with the standard input.
ConnFds == ClientFds \ {0}

\* Where a descriptor can be while it is not in the set of the master.
Has(s, x) == \E k \in 1 .. Len(s) : s[k] = x
InCoda(f) == Has(coda, f)
InPipe(f) == Has(pipe, f)
Carries(w) == wpc[w] \in {"serve", "reply", "write_fd"}
WithWorker(f) == \E w \in Workers : cfd[w] = f /\ Carries(w)
WithMaster(f) == mpc = "flag" /\ cfd1 = f

\* The types of the variables, with the descriptors that can be in a queue.
Types ==
    /\ server \in {"up", "ended", "failed"}
    /\ mpc \in {"select", "scan", "flag", "closing", "return"}
    /\ set \subseteq Fds /\ rdset \subseteq Fds
    /\ num_fd \in Fds /\ fd \in 0 .. NumClients + 6
    /\ cfd1 \in Fds \cup {-1}
    /\ term \in {0, 1}
    /\ coda \in Seq(ConnFds \cup {-1})
    /\ pipe \in Seq(ConnFds \cup {0, -1})
    /\ wpc \in [Workers -> {"remove", "serve", "reply", "write_fd",
                            "write_flag", "closed"}]
    /\ cfd \in [Workers -> Fds \cup {-1}]
    /\ fine \in [Workers -> {0, -1}]
    /\ backlog \in Seq(Clients)
    /\ conn \in [ClientFds -> Clients \cup {Stdin, NoClient}]
    /\ cpc \in [Clients -> {"start", "welcome", "prompt", "sent", "closed",
                            "killed"}]
    /\ sent \in 0 .. MaxRequests
    /\ toServer \in [Clients -> {0, 1}]
    /\ toClient \in [Clients -> {0, 1}]

(* The set has the listening socket, the pipe and nothing above num_fd;    *)
(* what the scan has still to look at has not been touched since select.   *)
Scan ==
    /\ {sfd, pip0} \subseteq set
    /\ set \subseteq ConnFds \cup {sfd, pip0}
    /\ \A f \in set : f <= num_fd
    /\ mpc \in {"scan", "flag"} =>
          \A f \in rdset : f >= fd => /\ f \in set
                                      /\ f = sfd => backlog # <<>>
                                      /\ f = pip0 => pipe # <<>>
    /\ mpc = "flag" => fd > pip0

(* The pipe has descriptors and flags in turn; the master is at one end of *)
(* it, and at the other at most one worker between its two writes.         *)
HalfRead == IF mpc = "flag" THEN 1 ELSE 0
HalfWritten == \E w \in Workers : wpc[w] = "write_flag"
Pairs ==
    /\ \A k \in 1 .. Len(pipe) :
          IF (k + HalfRead) % 2 = 1 THEN pipe[k] \in ConnFds ELSE pipe[k] \in {0, -1}
    /\ HalfWritten <=> (Len(pipe) + HalfRead) % 2 = 1
    /\ \A v, w \in Workers : wpc[v] = "write_flag" /\ wpc[w] = "write_flag" => v = w
    /\ mpc = "flag" => cfd1 \in ConnFds
    /\ \A w \in Workers : Carries(w) => cfd[w] \in ConnFds

\* What comes before the k-th int of the pipe: the last that the master
\* has read, or the one before it in the pipe.
Before(k) == IF k = 1 THEN cfd1 ELSE pipe[k - 1]

\* The client behind f has closed or has been killed.
Gone(f) == conn[f] \in Clients /\ Closed(conn[f])

\* A -1 in the pipe, or about to be written to it, is about such a client.
Flags ==
    /\ \A k \in 1 .. Len(pipe) : pipe[k] = -1 => Gone(Before(k))
    /\ \A w \in Workers : wpc[w] \in {"write_fd", "write_flag"} /\ fine[w] = -1
                           => Gone(cfd[w])
    /\ \A w \in Workers : wpc[w] = "write_flag" => cfd[w] = Before(Len(pipe) + 1)

\* A connection has one descriptor, one that waits has none yet.
Conns ==
    /\ conn[0] = Stdin
    /\ \A f \in ConnFds : conn[f] # Stdin
    /\ \A f, g \in ConnFds : conn[f] = conn[g] /\ conn[f] # NoClient => f = g
    /\ \A j, k \in 1 .. Len(backlog) : backlog[j] = backlog[k] => j = k
    /\ \A k \in 1 .. Len(backlog), f \in ConnFds : conn[f] # backlog[k]
    /\ \A c \in Clients : cpc[c] = "start" =>
          /\ \A k \in 1 .. Len(backlog) : backlog[k] # c
          /\ \A f \in ConnFds : conn[f] # c

\* An open descriptor is in one place, a closed one in none.
Custody ==
    /\ \A j, k \in 1 .. Len(coda) : coda[j] = coda[k] /\ coda[j] \in ConnFds => j = k
    /\ \A j, k \in 1 .. Len(pipe) : pipe[j] = pipe[k] /\ pipe[j] \in ConnFds => j = k
    /\ \A f \in ConnFds :
          /\ f \in set => ~InCoda(f) /\ ~InPipe(f) /\ ~WithWorker(f) /\ ~WithMaster(f)
          /\ InCoda(f) => ~InPipe(f) /\ ~WithWorker(f) /\ ~WithMaster(f)
          /\ InPipe(f) => ~WithWorker(f) /\ ~WithMaster(f)
          /\ WithWorker(f) => ~WithMaster(f)
          /\ conn[f] # NoClient <=>
                f \in set \/ InCoda(f) \/ InPipe(f) \/ WithWorker(f) \/ WithMaster(f)
    /\ \A v, w \in Workers : Carries(v) /\ Carries(w) /\ cfd[v] = cfd[w] => v = w

(* What is going on between a client and the server: the connection waits  *)
(* to be accepted, a request or an answer is on its way, or a worker is    *)
(* about to answer.  It is one thing while the client waits, else none.    *)
Waits(c) == Has(backlog, c)
Answers(c) == \E w \in Workers : wpc[w] = "reply" /\ conn[cfd[w]] = c
Going(c) == toServer[c] + toClient[c] + (IF Waits(c) THEN 1 ELSE 0)
                                      + (IF Answers(c) THEN 1 ELSE 0)
Turns ==
    server = "up" => \A c \in Clients :
        /\ Going(c) <= 1
        /\ cpc[c] \in {"start", "prompt", "closed"} => Going(c) = 0
        /\ cpc[c] \in {"welcome", "sent"} => Going(c) = 1

ServerInv ==
    /\ mixed \in BOOLEAN
    /\ ~mixed => /\ Types /\ Scan /\ Pairs /\ Flags /\ Conns /\ Custody /\ Turns
                 /\ ServerSurvivesClients
-----------------------------------------------------------------------------
\* A set of numbers that is not empty has a smallest element.
LEMMA Smallest ==
    ASSUME NEW T \in SUBSET Nat, T # {}
    PROVE  \E x \in T : \A y \in T : x <= y
<1>1. PICK x \in T : \A y \in T : ~(<<y, x>> \in OpToRel(<, Nat))
  BY NatLessThanWellFounded, WFMin
<1>2. \A y \in T : ~(y < x)
  BY <1>1 DEF OpToRel
<1> QED BY <1>2

\* The descriptors: as many for connections as there are clients.
LEMMA Descriptors ==
    /\ NumClients \in Nat
    /\ Fds = 0 .. NumClients + 5
    /\ ConnFds = 6 .. NumClients + 5
    /\ ClientFds = ConnFds \cup {0}
    /\ sfd = 5 /\ pip0 = 3
<1>1. NumClients \in Nat
  BY PoolAssumption, FS_CardinalityType DEF NumClients
<1> QED BY <1>1 DEF NumClients, Fds, ConnFds, ClientFds, sfd, pip0

\* Min and Max are the least and the largest of a set of descriptors.
LEMMA Extremes ==
    ASSUME NEW S \in SUBSET Fds, S # {}
    PROVE  /\ Min(S) \in S /\ \A x \in S : Min(S) <= x
           /\ Max(S) \in S /\ \A x \in S : x <= Max(S)
<1>1. S \subseteq Nat
  BY Descriptors
<1>2. \E x \in S : \A y \in S : x <= y
  BY <1>1, Smallest
<1>3. \E x \in S : \A y \in S : y <= x
  <2> DEFINE T == {NumClients + 5 - x : x \in S}
  <2>1. T \subseteq Nat /\ T # {}
    <3>1. \A x \in S : NumClients + 5 - x \in Nat
      BY Descriptors
    <3> QED BY <3>1
  <2>2. PICK z \in T : \A y \in T : z <= y
    BY <2>1, Smallest
  <2>3. PICK x \in S : z = NumClients + 5 - x
    BY <2>2
  <2>4. ASSUME NEW y \in S PROVE y <= x
    <3>1. z <= NumClients + 5 - y
      BY <2>2
    <3>2. x \in Nat /\ y \in Nat /\ NumClients \in Nat
      BY <1>1, Descriptors
    <3> QED BY <2>3, <3>1, <3>2
  <2> QED BY <2>4
<1> QED BY <1>2, <1>3, Zenon DEF Min, Max

\* What removing the first element of a queue does.
LEMMA TailFacts ==
    ASSUME NEW T, NEW s \in Seq(T), s # <<>>
    PROVE  /\ Len(s) \in Nat \ {0} /\ Head(s) = s[1] /\ s[1] \in T
           /\ Tail(s) \in Seq(T) /\ Len(Tail(s)) = Len(s) - 1
           /\ \A k \in 1 .. Len(Tail(s)) : k + 1 \in 1 .. Len(s) /\ Tail(s)[k] = s[k + 1]
           /\ \A x : Has(s, x) <=> x = s[1] \/ Has(Tail(s), x)
<1>1. /\ Len(s) \in Nat \ {0} /\ Head(s) = s[1] /\ s[1] \in T
      /\ Tail(s) \in Seq(T) /\ Len(Tail(s)) = Len(s) - 1
      /\ \A k \in 1 .. Len(Tail(s)) : k + 1 \in 1 .. Len(s) /\ Tail(s)[k] = s[k + 1]
  OBVIOUS
<1>2. ASSUME NEW k \in 1 .. Len(s), k # 1
      PROVE  k - 1 \in 1 .. Len(Tail(s)) /\ Tail(s)[k - 1] = s[k]
  <2>1. k - 1 \in 1 .. Len(Tail(s)) /\ (k - 1) + 1 = k
    BY <1>1, <1>2
  <2> QED BY <1>1, <2>1
<1>3. 1 \in 1 .. Len(s)
  BY <1>1
<1> QED BY <1>1, <1>2, <1>3 DEF Has

\* What adding an element at the end of a queue does.
LEMMA AppendFacts ==
    ASSUME NEW T, NEW s \in Seq(T), NEW e \in T
    PROVE  /\ Append(s, e) \in Seq(T) /\ Len(s) \in Nat
           /\ Len(Append(s, e)) = Len(s) + 1
           /\ \A k \in 1 .. Len(s) : Append(s, e)[k] = s[k]
           /\ Append(s, e)[Len(s) + 1] = e
           /\ \A x : Has(Append(s, e), x) <=> x = e \/ Has(s, x)
<1>1. /\ Append(s, e) \in Seq(T) /\ Len(s) \in Nat
      /\ Len(Append(s, e)) = Len(s) + 1
      /\ \A k \in 1 .. Len(s) : Append(s, e)[k] = s[k]
      /\ Append(s, e)[Len(s) + 1] = e
  OBVIOUS
<1>2. \A k \in 1 .. Len(Append(s, e)) : k \in 1 .. Len(s) \/ k = Len(s) + 1
  BY <1>1
<1>3. 1 .. Len(s) \subseteq 1 .. Len(Append(s, e)) /\ Len(s) + 1 \in 1 .. Len(Append(s, e))
  BY <1>1
<1> QED BY <1>1, <1>2, <1>3 DEF Has

\* The -1 that the master leaves in the queue for each worker.
LEMMA EndMarks ==
    ASSUME NEW s \in Seq(Int), NEW ends \in Seq(Int),
           \A k \in 1 .. Len(ends) : ends[k] = -1
    PROVE  /\ 1 .. Len(s) \subseteq 1 .. Len(s \o ends)
           /\ \A k \in 1 .. Len(s) : (s \o ends)[k] = s[k]
           /\ \A k \in 1 .. Len(s \o ends) : k \in 1 .. Len(s) \/ (s \o ends)[k] = -1
<1>1. Len(s) \in Nat /\ Len(ends) \in Nat
  OBVIOUS
<1>2. /\ Len(s \o ends) = Len(s) + Len(ends)
      /\ \A k \in 1 .. Len(s) + Len(ends) :
            (s \o ends)[k] = IF k <= Len(s) THEN s[k] ELSE ends[k - Len(s)]
  BY ConcatProperties
<1>3. ASSUME NEW k \in 1 .. Len(s \o ends), k \notin 1 .. Len(s) PROVE (s \o ends)[k] = -1
  <2>1. k - Len(s) \in 1 .. Len(ends) /\ ~(k <= Len(s)) /\ k \in 1 .. Len(s) + Len(ends)
    BY <1>1, <1>2, <1>3
  <2> QED BY <1>2, <2>1
<1> QED BY <1>1, <1>2, <1>3

\* The descriptor that the scan finds is in the set and is ready.
LEMMA FoundFacts ==
    ASSUME Types, Scan, NEW f, Found(f)
    PROVE  /\ f \in set /\ f \in rdset /\ fd <= f /\ f <= num_fd /\ mpc = "scan"
           /\ \A g \in rdset : fd <= g /\ g <= num_fd => f <= g
           /\ f = sfd => backlog # <<>>
           /\ f = pip0 => pipe # <<>>
<1>1. Remaining \in SUBSET Fds /\ Remaining # {} /\ f = Min(Remaining)
  BY DEF Types, Found, Remaining
<1>2. f \in Remaining /\ \A g \in Remaining : f <= g
  BY <1>1, Extremes
<1>3. fd \in Int /\ f \in Int
  BY <1>2, Descriptors DEF Types, Remaining
<1> QED BY <1>2, <1>3 DEF Found, Remaining, Scan

(* While a connection waits to be accepted there is a descriptor for it:   *)
(* each of the others has one client, and this client has none.            *)
LEMMA NewDescriptor ==
    ASSUME Types, Conns, backlog # <<>>
    PROVE  /\ Min(ClientFds \ Open) \in ConnFds
           /\ conn[Min(ClientFds \ Open)] = NoClient
           /\ Head(backlog) \in Clients /\ Head(backlog) # NoClient
<1>1. Head(backlog) = backlog[1] /\ backlog[1] \in Clients /\ 1 \in 1 .. Len(backlog)
  BY TailFacts DEF Types
<1>2. ConnFds \ Open # {}
  <2> SUFFICES ASSUME ConnFds \subseteq Open PROVE FALSE
    OBVIOUS
  <2> DEFINE Others == Clients \ {backlog[1]}
             g == [f \in ConnFds |-> conn[f]]
  <2>1. \A f \in ConnFds : conn[f] \in Others
    BY <1>1, Descriptors DEF Types, Conns, Open
  <2>2. g \in [ConnFds -> Others]
    BY <2>1
  <2>3. IsFiniteSet(Others) /\ Cardinality(Others) = NumClients - 1 /\ NumClients \in Nat
    BY <1>1, PoolAssumption, FS_RemoveElement, Descriptors DEF NumClients
  <2>4. IsFiniteSet(ConnFds) /\ Cardinality(ConnFds) = NumClients
    <3> DEFINE top == NumClients + 5
    <3>1. 6 \in Int /\ top \in Int /\ ConnFds = 6 .. top
      BY Descriptors
    <3>2. top - 6 + 1 = NumClients /\ (6 > top => NumClients = 0)
      BY Descriptors
    <3> HIDE DEF top
    <3>3. IsFiniteSet(6 .. top) /\ Cardinality(6 .. top) = IF 6 > top THEN 0 ELSE top - 6 + 1
      BY <3>1, FS_Interval
    <3> QED BY <3>1, <3>2, <3>3
  <2>5. Cardinality(Others) < Cardinality(ConnFds)
    BY <2>3, <2>4
  <2> HIDE DEF Others, g
  <2>6. \E x, y \in ConnFds : x # y /\ g[x] = g[y]
    BY <2>2, <2>3, <2>4, <2>5, FS_PigeonHole
  <2>7. PICK x \in ConnFds, y \in ConnFds : x # y /\ conn[x] = conn[y]
    BY <2>6 DEF g
  <2> QED BY <2>7 DEF Conns, Open
<1>3. 0 \in Open
  BY PoolAssumption, Descriptors DEF Conns, Open
<1>4. ClientFds \ Open \in SUBSET Fds /\ ClientFds \ Open # {}
  BY <1>2, Descriptors
<1>5. Min(ClientFds \ Open) \in ClientFds \ Open
  BY <1>4, Extremes
<1> QED BY <1>1, <1>3, <1>5, Descriptors, PoolAssumption DEF Open
-----------------------------------------------------------------------------
\* The largest descriptor after one has been closed is in the set.
LEMMA UpdatemaxFacts ==
    ASSUME Types, Scan, NEW s \in SUBSET set, sfd \in s, num_fd > sfd
    PROVE  /\ updatemax(s, num_fd) \in s
           /\ \A f \in s : f # num_fd => f <= updatemax(s, num_fd)
<1> DEFINE S == {f \in s : f < num_fd}
<1>1. S \in SUBSET Fds /\ S # {}
  BY DEF Types
<1>2. Max(S) \in S /\ \A f \in S : f <= Max(S)
  BY <1>1, Extremes
<1>3. \A f \in s : f # num_fd => f \in S
  BY Descriptors DEF Scan, Types
<1> HIDE DEF S
<1>4. updatemax(s, num_fd) = Max(S)
  BY DEF updatemax, S
<1> QED BY <1>2, <1>3, <1>4 DEF S

\* One thing at a time goes on between a client and the server.
LEMMA Alone ==
    ASSUME Types, Turns, server = "up", NEW c \in Clients
    PROVE  /\ toServer[c] \in {0, 1} /\ toClient[c] \in {0, 1}
           /\ toServer[c] = 0 \/ toClient[c] = 0
           /\ Waits(c) => toServer[c] = 0 /\ toClient[c] = 0 /\ ~Answers(c)
           /\ Answers(c) => toServer[c] = 0 /\ toClient[c] = 0
           /\ cpc[c] \in {"start", "prompt", "closed"} =>
                 toServer[c] = 0 /\ toClient[c] = 0 /\ ~Waits(c) /\ ~Answers(c)
<1> DEFINE a == IF Waits(c) THEN 1 ELSE 0
           b == IF Answers(c) THEN 1 ELSE 0
<1>1. /\ Going(c) = toServer[c] + toClient[c] + a + b /\ Going(c) <= 1
      /\ cpc[c] \in {"start", "prompt", "closed"} => Going(c) = 0
  BY DEF Going, Turns
<1>2. toServer[c] \in {0, 1} /\ toClient[c] \in {0, 1}
  BY DEF Types
<1>3. a \in {0, 1} /\ b \in {0, 1} /\ (Waits(c) <=> a = 1) /\ (Answers(c) <=> b = 1)
  OBVIOUS
<1> HIDE DEF a, b
<1> QED BY <1>1, <1>2, <1>3

\* What the types of the variables owe to the rest of the invariant.
LEMMA TypesStep ==
    ASSUME Types, Scan, Pairs, Conns, Custody, Turns, [Next]_vars
    PROVE  Types'
<1> USE Descriptors
<1>1. CASE Select
  <2>1. rdset' \subseteq Fds /\ server' \in {"up", "failed"}
    BY <1>1 DEF Select, Types, Ready, Fail
  <2> QED BY <1>1, <2>1 DEF Select, Types, workers, clients, sockets
<1>2. CASE EndScan
  BY <1>2 DEF EndScan, Types, workers, clients, sockets
<1>3. CASE Accept
  <2>1. backlog # <<>> /\ num_fd \in Fds
    BY <1>3, FoundFacts DEF Accept, Types
  <2> DEFINE c == Head(backlog)
             new == Min(ClientFds \ Open)
  <2>2. new \in ConnFds /\ conn[new] = NoClient /\ c \in Clients
    BY <2>1, NewDescriptor
  <2>3. Tail(backlog) \in Seq(Clients)
    BY <2>1, TailFacts DEF Types
  <2>4. Max({num_fd, new}) \in Fds
    <3>1. {num_fd, new} \in SUBSET Fds
      BY <2>1, <2>2
    <3> QED BY <3>1, Extremes
  <2>5. \/ server' = "failed" /\ toClient' = toClient
        \/ server' = server /\ toClient' = [toClient EXCEPT ![c] = @ + 1]
    BY <1>3 DEF Accept, Fail
  <2>6. server = "up"
    BY <1>3 DEF Accept, Found
  <2>7. toClient[c] = 0
    <3>1. Waits(c)
      BY <2>1, TailFacts DEF Types, Waits
    <3> QED BY <2>2, <2>6, <3>1, Alone
  <2> HIDE DEF c, new
  <2>8. toClient' \in [Clients -> {0, 1}] /\ server' \in {"up", "failed"}
    BY <2>2, <2>5, <2>6, <2>7 DEF Types
  <2>9. /\ conn' = [conn EXCEPT ![new] = c] /\ set' = set \cup {new}
        /\ num_fd' = Max({num_fd, new}) /\ backlog' = Tail(backlog) /\ fd' = sfd + 1
        /\ UNCHANGED <<mpc, rdset, cfd1, term, coda, pipe, workers, clients, toServer>>
    BY <1>3 DEF Accept, c, new
  <2> QED BY <2>2, <2>3, <2>4, <2>8, <2>9 DEF Types, workers, clients
<1>4. CASE Enqueue
  <2>1. PICK f \in Fds \ {sfd, pip0} :
           /\ Found(f) /\ coda' = Append(coda, f) /\ set' = set \ {f} /\ fd' = f + 1
    BY <1>4 DEF Enqueue
  <2>2. f \in ConnFds
    BY <2>1, FoundFacts DEF Scan
  <2>3. coda' \in Seq(ConnFds \cup {-1})
    BY <2>1, <2>2 DEF Types
  <2> QED BY <1>4, <2>1, <2>2, <2>3 DEF Enqueue, Types, workers, clients, sockets
<1>5. CASE ReadPipeFd
  <2>1. pipe # <<>> /\ wpc \in [Workers -> {"remove", "serve", "reply", "write_fd",
                            "write_flag", "closed"}]
    BY <1>5, FoundFacts DEF ReadPipeFd, Types
  <2>2. Head(pipe) \in ConnFds \cup {0, -1} /\ Tail(pipe) \in Seq(ConnFds \cup {0, -1})
    BY <2>1, TailFacts DEF Types
  <2> QED BY <1>5, <2>2 DEF ReadPipeFd, Types, workers, clients, sockets
<1>6. CASE ReadPipeFlag
  <2>1. Head(pipe) \in ConnFds \cup {0, -1} /\ Tail(pipe) \in Seq(ConnFds \cup {0, -1})
    BY <1>6, TailFacts DEF ReadPipeFlag, Types
  <2>2. cfd1 \in ConnFds
    BY <1>6 DEF ReadPipeFlag, Pairs
  <2>3. set' \subseteq Fds
    BY <1>6, <2>2 DEF ReadPipeFlag, Types
  <2>4. num_fd' \in Fds
    <3>1. CASE Head(pipe) = -1
      <4>1. CASE cfd1 = num_fd
        <5>1. updatemax(set \ {cfd1}, num_fd) \in set \ {cfd1}
          BY <2>2, <4>1, UpdatemaxFacts DEF Scan
        <5> QED BY <1>6, <3>1, <4>1, <5>1 DEF ReadPipeFlag, Types
      <4> QED BY <1>6, <3>1, <4>1 DEF ReadPipeFlag, Types
    <3>2. CASE Head(pipe) # -1
      <4>1. {num_fd, cfd1} \in SUBSET Fds /\ {num_fd, cfd1} # {}
        BY <2>2 DEF Types
      <4>2. Max({num_fd, cfd1}) \in Fds
        BY <4>1, Extremes
      <4> QED BY <1>6, <3>2, <4>2 DEF ReadPipeFlag
    <3> QED BY <3>1, <3>2
  <2>5. conn' \in [ClientFds -> Clients \cup {Stdin, NoClient}]
    BY <1>6 DEF ReadPipeFlag, Types
  <2> QED BY <1>6, <2>1, <2>3, <2>4, <2>5 DEF ReadPipeFlag, Types, workers, clients
<1>7. CASE Signal
  BY <1>7 DEF Signal, Types, Fail, workers, clients, sockets
<1>8. CASE Shutdown
  <2>1. coda' \in Seq(ConnFds \cup {-1})
    <3>1. [k \in 1 .. nt |-> -1] \in Seq(ConnFds \cup {-1})
      BY PoolAssumption
    <3> QED BY <1>8, <3>1 DEF Shutdown, Types
  <2> QED BY <1>8, <2>1 DEF Shutdown, Types, workers, clients, sockets
<1>9. CASE Return
  BY <1>9 DEF Return, Types, master, workers, clients, sockets
<1>10. ASSUME NEW w \in Workers, Remove(w) PROVE Types'
  <2>1. Head(coda) \in ConnFds \cup {-1} /\ Tail(coda) \in Seq(ConnFds \cup {-1})
    BY <1>10, TailFacts DEF Remove, Types
  <2> QED BY <1>10, <2>1 DEF Remove, Types, master, clients, sockets
<1>11. ASSUME NEW w \in Workers, Serve(w) PROVE Types'
  <2>1. \A c \in Clients : toServer[c] > 0 => toServer[c] - 1 \in {0, 1}
    BY DEF Types
  <2>2. toServer' \in [Clients -> {0, 1}]
    BY <1>11, <2>1 DEF Serve, Types, Connected, Open
  <2>3. server' \in {"up", "ended", "failed"} /\ fine' \in [Workers -> {0, -1}]
        /\ wpc' \in [Workers -> {"remove", "serve", "reply", "write_fd", "write_flag", "closed"}]
    BY <1>11 DEF Serve, Types, Fail
  <2> QED BY <1>11, <2>2, <2>3 DEF Serve, Types, master, clients
<1>12. ASSUME NEW w \in Workers, Reply(w) PROVE Types'
  <2>1. CASE cfd[w] \notin Connected \/ Closed(conn[cfd[w]])
    BY <1>12, <2>1 DEF Reply, Types, Fail, master, clients
  <2>2. CASE ~(cfd[w] \notin Connected \/ Closed(conn[cfd[w]]))
    <3> DEFINE c == conn[cfd[w]]
    <3>1. c \in Clients /\ Answers(c)
      BY <1>12, <2>2 DEF Reply, Connected, Answers
    <3>2. toClient[c] = 0
      BY <1>12, <3>1, Alone DEF Reply
    <3> HIDE DEF c
    <3>3. toClient' = [toClient EXCEPT ![c] = @ + 1]
      BY <1>12, <2>2 DEF Reply, c
    <3>4. toClient' \in [Clients -> {0, 1}]
      BY <3>1, <3>2, <3>3 DEF Types
    <3> QED BY <1>12, <2>2, <3>4 DEF Reply, Types, master, clients
  <2> QED BY <2>1, <2>2
<1>13. ASSUME NEW w \in Workers, WriteFd(w) PROVE Types'
  <2>1. cfd[w] \in ConnFds
    BY <1>13 DEF WriteFd, Pairs, Carries
  <2>2. pipe' \in Seq(ConnFds \cup {0, -1})
    BY <1>13, <2>1 DEF WriteFd, Types
  <2> QED BY <1>13, <2>2 DEF WriteFd, Types, master, clients, sockets
<1>14. ASSUME NEW w \in Workers, WriteFlag(w) PROVE Types'
  <2>1. pipe' \in Seq(ConnFds \cup {0, -1})
    BY <1>14 DEF WriteFlag, Types
  <2> QED BY <1>14, <2>1 DEF WriteFlag, Types, master, clients, sockets
<1>15. ASSUME NEW c \in Clients, Connect(c) PROVE Types'
  BY <1>15 DEF Connect, Goto, Types, master, workers
<1>16. ASSUME NEW c \in Clients, Receive(c) PROVE Types'
  <2>1. toClient[c] - 1 \in {0, 1}
    BY <1>16 DEF Receive, Types
  <2> QED BY <1>16, <2>1 DEF Receive, Goto, Types, master, workers
<1>17. ASSUME NEW c \in Clients, Request(c) PROVE Types'
  <2>1. toServer[c] = 0
    BY <1>17, Alone DEF Request
  <2>2. sent + 1 \in 0 .. MaxRequests
    BY <1>17, PoolAssumption DEF Request, Types
  <2> QED BY <1>17, <2>1, <2>2 DEF Request, Goto, Types, master, workers
<1>18. ASSUME NEW c \in Clients, Quit(c) \/ Crash(c) \/ ServerGone(c) PROVE Types'
  BY <1>18 DEF Quit, Crash, ServerGone, Goto, Types, master, workers, sockets
<1>19. CASE AtRest \/ UNCHANGED vars
  BY <1>19 DEF AtRest, vars, Types, master, workers, clients, sockets
<1> QED
  BY <1>1, <1>2, <1>3, <1>4, <1>5, <1>6, <1>7, <1>8, <1>9, <1>10, <1>11, <1>12, <1>13,
     <1>14, <1>15, <1>16, <1>17, <1>18, <1>19 DEF Next, Master, Worker, Client

(* The scan: what it has still to find is ready, because only the master   *)
(* accepts and reads the pipe and because what it has already served is    *)
(* below fd.                                                               *)
LEMMA ScanStep ==
    ASSUME Types, Scan, Pairs, Conns, Custody, [Next]_vars
    PROVE  Scan'
<1> USE Descriptors
<1>0. ASSUME UNCHANGED <<mpc, set, rdset, num_fd, fd>>,
             backlog # <<>> => backlog' # <<>>, pipe # <<>> => pipe' # <<>>
      PROVE  Scan'
  BY <1>0 DEF Scan
<1>1. CASE Select
  <2>1. UNCHANGED <<set, num_fd, backlog, pipe>>
    BY <1>1 DEF Select, sockets
  <2>2. CASE set \subseteq Open \cup {pip0, sfd}
    <3>1. mpc' = "scan" /\ rdset' \subseteq Ready
      BY <1>1, <2>2 DEF Select
    <3> QED BY <2>1, <3>1 DEF Scan, Ready, Connected, Open
  <2>3. CASE ~(set \subseteq Open \cup {pip0, sfd})
    BY <1>1, <2>1, <2>3 DEF Select, Scan
  <2> QED BY <2>2, <2>3
<1>2. CASE EndScan
  BY <1>2 DEF EndScan, Scan, sockets
<1>3. CASE Accept
  <2> DEFINE new == Min(ClientFds \ Open)
  <2>1. backlog # <<>>
    BY <1>3, FoundFacts DEF Accept
  <2>2. new \in ConnFds
    BY <2>1, NewDescriptor
  <2>3. num_fd \in Fds /\ {num_fd, new} \in SUBSET Fds
    BY <2>2 DEF Types
  <2>4. Max({num_fd, new}) \in Fds /\ num_fd <= Max({num_fd, new}) /\ new <= Max({num_fd, new})
    BY <2>3, Extremes
  <2> HIDE DEF new
  <2>5. /\ set' = set \cup {new} /\ num_fd' = Max({num_fd, new}) /\ fd' = sfd + 1
        /\ UNCHANGED <<mpc, rdset, pipe>> /\ mpc = "scan" /\ fd <= sfd
    BY <1>3, FoundFacts DEF Accept, new
  <2>6. \A f \in set' : f <= num_fd'
    BY <2>2, <2>3, <2>4, <2>5 DEF Scan, Types
  <2>7. \A f \in rdset : f >= fd' => f \in set' /\ f # sfd /\ f # pip0
    BY <2>5 DEF Scan, Types
  <2> QED BY <2>2, <2>5, <2>6, <2>7 DEF Scan
<1>4. CASE Enqueue
  <2>1. PICK f \in Fds \ {sfd, pip0} :
           /\ Found(f) /\ set' = set \ {f} /\ fd' = f + 1
           /\ UNCHANGED <<mpc, rdset, num_fd, pipe, backlog>>
    BY <1>4 DEF Enqueue, sockets
  <2>2. fd <= f /\ fd \in Nat /\ mpc = "scan"
    BY <2>1, FoundFacts DEF Types
  <2>3. \A g \in rdset : g >= fd' => g >= fd /\ g # f
    BY <2>1, <2>2 DEF Types
  <2> QED BY <2>1, <2>2, <2>3 DEF Scan
<1>5. CASE ReadPipeFd
  <2>1. /\ mpc' = "flag" /\ fd' = pip0 + 1 /\ mpc = "scan" /\ fd <= pip0
        /\ UNCHANGED <<set, rdset, num_fd, backlog>>
    BY <1>5, FoundFacts DEF ReadPipeFd, sockets
  <2>2. \A g \in rdset : g >= fd' => g >= fd /\ g # pip0
    BY <2>1 DEF Types
  <2> QED BY <2>1, <2>2 DEF Scan
<1>6. CASE ReadPipeFlag
  <2>1. /\ mpc = "flag" /\ mpc' = "scan" /\ UNCHANGED <<rdset, fd, backlog>>
        /\ cfd1 \in ConnFds /\ cfd1 \notin set /\ num_fd \in Fds
    BY <1>6 DEF ReadPipeFlag, Pairs, Custody, WithMaster, Types
  <2>2. CASE Head(pipe) = -1
    <3>1. set' = set
      BY <1>6, <2>1, <2>2 DEF ReadPipeFlag
    <3>2. num_fd' = num_fd \/ (cfd1 = num_fd /\ num_fd' = updatemax(set, num_fd))
      BY <1>6, <2>2, <3>1 DEF ReadPipeFlag
    <3>3. \A f \in set : f <= num_fd'
      <4>1. CASE num_fd' = num_fd
        BY <4>1 DEF Scan
      <4>2. CASE cfd1 = num_fd /\ num_fd' = updatemax(set, num_fd)
        BY <2>1, <4>2, UpdatemaxFacts DEF Scan
      <4> QED BY <3>2, <4>1, <4>2
    <3> QED BY <2>1, <3>1, <3>3 DEF Scan, Types
  <2>3. CASE Head(pipe) # -1
    <3>1. set' = set \cup {cfd1} /\ num_fd' = Max({num_fd, cfd1})
      BY <1>6, <2>1, <2>3 DEF ReadPipeFlag
    <3>2. {num_fd, cfd1} \in SUBSET Fds /\ {num_fd, cfd1} # {}
      BY <2>1
    <3>3. num_fd' \in Fds /\ num_fd <= num_fd' /\ cfd1 <= num_fd'
      BY <3>1, <3>2, Extremes
    <3>4. \A f \in set' : f <= num_fd'
      BY <2>1, <3>1, <3>3 DEF Scan, Types
    <3>5. {sfd, pip0} \subseteq set' /\ set' \subseteq ConnFds \cup {sfd, pip0}
      BY <2>1, <3>1 DEF Scan
    <3>6. \A f \in rdset : f >= fd => f \in set /\ (f = sfd => backlog # <<>>) /\ f # pip0
      BY <2>1 DEF Scan, Types
    <3> QED BY <2>1, <3>1, <3>4, <3>5, <3>6 DEF Scan
  <2> QED BY <2>2, <2>3
<1>7. CASE Signal
  BY <1>7 DEF Signal, Scan, Fail, sockets
<1>8. CASE Shutdown \/ Return
  BY <1>8 DEF Shutdown, Return, Scan, master, sockets
<1>9. ASSUME NEW w \in Workers, Remove(w) \/ Serve(w) \/ Reply(w) PROVE Scan'
  BY <1>0, <1>9 DEF Remove, Serve, Reply, master, sockets
<1>10. ASSUME NEW w \in Workers, WriteFd(w) \/ WriteFlag(w) PROVE Scan'
  <2>1. /\ UNCHANGED <<mpc, set, rdset, num_fd, fd, backlog>>
        /\ \E e \in Fds \cup {0, -1} : pipe' = Append(pipe, e)
    BY <1>10 DEF WriteFd, WriteFlag, Types, master, sockets
  <2>2. pipe' # <<>>
    <3>1. PICK e \in Fds \cup {0, -1} : pipe' = Append(pipe, e)
      BY <2>1
    <3>2. pipe \in Seq(Fds \cup {0, -1})
      BY DEF Types
    <3>3. Len(pipe') = Len(pipe) + 1 /\ Len(pipe) \in Nat
      BY <3>1, <3>2, AppendFacts
    <3> QED BY <3>3
  <2> QED BY <1>0, <2>1, <2>2
<1>11. ASSUME NEW c \in Clients, Connect(c) PROVE Scan'
  <2>1. backlog' # <<>>
    BY <1>11 DEF Connect, Types
  <2> QED BY <1>0, <1>11, <2>1 DEF Connect, master
<1>12. ASSUME NEW c \in Clients,
              Receive(c) \/ Request(c) \/ Quit(c) \/ Crash(c) \/ ServerGone(c)
       PROVE  Scan'
  BY <1>0, <1>12 DEF Receive, Request, Quit, Crash, ServerGone, master, sockets
<1>13. CASE AtRest \/ UNCHANGED vars
  BY <1>0, <1>13 DEF AtRest, vars, master, sockets
<1> QED
  BY <1>1, <1>2, <1>3, <1>4, <1>5, <1>6, <1>7, <1>8, <1>9, <1>10, <1>11, <1>12, <1>13
  DEF Next, Master, Worker, Client

(* As long as a worker writes its descriptor when no other is between its  *)
(* two writes, the two halves of a pair are next to each other.            *)
LEMMA PairsStep ==
    ASSUME Types, Scan, Pairs, Conns, Custody, [Next]_vars, ~mixed'
    PROVE  Pairs'
<1> USE Descriptors
<1>0. ASSUME UNCHANGED <<cfd1, pipe, wpc, cfd>>, HalfRead' = HalfRead,
             mpc' = "flag" => mpc = "flag"
      PROVE  Pairs'
  BY <1>0 DEF Pairs, HalfWritten, Carries
<1>1. CASE Select \/ EndScan \/ Accept \/ Enqueue \/ Shutdown \/ Return
  BY <1>0, <1>1 DEF Select, EndScan, Accept, Found, Enqueue, Shutdown, Return, HalfRead,
                    master, workers
<1>2. CASE ReadPipeFd
  <2>1. /\ mpc = "scan" /\ mpc' = "flag" /\ pipe # <<>> /\ cfd1' = Head(pipe)
        /\ pipe' = Tail(pipe) /\ UNCHANGED workers
    BY <1>2, FoundFacts DEF ReadPipeFd
  <2>2. /\ Len(pipe) \in Nat \ {0} /\ Head(pipe) = pipe[1]
        /\ Len(pipe') = Len(pipe) - 1
        /\ \A k \in 1 .. Len(pipe') : k + 1 \in 1 .. Len(pipe) /\ pipe'[k] = pipe[k + 1]
    BY <2>1, TailFacts DEF Types
  <2>3. HalfRead = 0 /\ HalfRead' = 1
    BY <2>1 DEF HalfRead
  <2>4. cfd1' \in ConnFds
    BY <2>1, <2>2, <2>3 DEF Pairs
  <2>5. \A k \in 1 .. Len(pipe') :
           IF (k + 1) % 2 = 1 THEN pipe'[k] \in ConnFds ELSE pipe'[k] \in {0, -1}
    BY <2>2, <2>3 DEF Pairs
  <2>6. Len(pipe') + 1 = Len(pipe) + 0
    BY <2>2
  <2> QED BY <2>1, <2>3, <2>4, <2>5, <2>6 DEF Pairs, HalfWritten, Carries, workers
<1>3. CASE ReadPipeFlag
  <2>1. /\ mpc = "flag" /\ mpc' = "scan" /\ pipe # <<>> /\ cfd1' = cfd1
        /\ pipe' = Tail(pipe) /\ UNCHANGED workers
    BY <1>3 DEF ReadPipeFlag
  <2>2. /\ Len(pipe) \in Nat \ {0}
        /\ Len(pipe') = Len(pipe) - 1
        /\ \A k \in 1 .. Len(pipe') : k + 1 \in 1 .. Len(pipe) /\ pipe'[k] = pipe[k + 1]
    BY <2>1, TailFacts DEF Types
  <2>3. HalfRead = 1 /\ HalfRead' = 0
    BY <2>1 DEF HalfRead
  <2>4. ASSUME NEW k \in 1 .. Len(pipe')
        PROVE  IF (k + 0) % 2 = 1 THEN pipe'[k] \in ConnFds ELSE pipe'[k] \in {0, -1}
    <3>1. (k + 0) % 2 = ((k + 1) + 1) % 2
      OBVIOUS
    <3> QED BY <2>2, <2>3, <3>1 DEF Pairs
  <2>5. (Len(pipe') + 0) % 2 = (Len(pipe) + 1) % 2
    BY <2>2
  <2> QED BY <2>1, <2>3, <2>4, <2>5 DEF Pairs, HalfWritten, Carries, workers
<1>4. CASE Signal
  <2>1. mpc' = mpc \/ (mpc = "select" /\ mpc' = "closing")
    BY <1>4 DEF Signal
  <2> QED BY <1>0, <1>4, <2>1 DEF Signal, HalfRead, workers
<1>5. ASSUME NEW w \in Workers, Remove(w) PROVE Pairs'
  <2>1. coda # <<>> /\ Head(coda) \in ConnFds \cup {-1}
    BY <1>5, TailFacts DEF Remove, Types
  <2>2. /\ cfd' = [cfd EXCEPT ![w] = Head(coda)] /\ wpc[w] = "remove"
        /\ wpc' = [wpc EXCEPT ![w] = IF Head(coda) = -1 THEN "closed" ELSE "serve"]
        /\ UNCHANGED <<mpc, cfd1, pipe>>
    BY <1>5, <2>1 DEF Remove, master
  <2>3. \A v \in Workers : wpc'[v] = "write_flag" <=> wpc[v] = "write_flag"
    BY <2>2 DEF Types
  <2>4. ASSUME NEW v \in Workers, Carries(v)' PROVE cfd'[v] \in ConnFds
    <3>1. CASE v = w
      BY <2>1, <2>2, <2>4, <3>1 DEF Types, Carries
    <3>2. CASE v # w
      BY <2>2, <2>4, <3>2 DEF Types, Pairs, Carries
    <3> QED BY <3>1, <3>2
  <2>5. HalfRead' = HalfRead
    BY <2>2 DEF HalfRead
  <2> QED BY <2>2, <2>3, <2>4, <2>5 DEF Pairs, HalfWritten
<1>6. ASSUME NEW w \in Workers, Serve(w) \/ Reply(w) PROVE Pairs'
  <2>1. /\ UNCHANGED <<mpc, cfd1, pipe, cfd>> /\ wpc[w] \in {"serve", "reply"}
        /\ \/ wpc' = wpc
           \/ wpc' = [wpc EXCEPT ![w] = "reply"]
           \/ wpc' = [wpc EXCEPT ![w] = "write_fd"]
    BY <1>6 DEF Serve, Reply, master
  <2>2. \A v \in Workers : /\ wpc'[v] = "write_flag" <=> wpc[v] = "write_flag"
                           /\ Carries(v)' <=> Carries(v)
    BY <2>1 DEF Types, Carries
  <2> QED BY <2>1, <2>2 DEF Pairs, HalfWritten, HalfRead
<1>7. ASSUME NEW w \in Workers, WriteFd(w) \/ WriteFlag(w) PROVE Pairs'
  <2> DEFINE e == IF wpc[w] = "write_fd" THEN cfd[w] ELSE fine[w]
  <2>1. /\ UNCHANGED <<mpc, cfd1, cfd>> /\ pipe' = Append(pipe, e)
        /\ \/ wpc[w] = "write_fd" /\ wpc' = [wpc EXCEPT ![w] = "write_flag"]
           \/ wpc[w] = "write_flag" /\ wpc' = [wpc EXCEPT ![w] = "remove"]
    BY <1>7 DEF WriteFd, WriteFlag, master
  <2>2. /\ wpc[w] = "write_fd" => e \in ConnFds
        /\ wpc[w] = "write_flag" => e \in {0, -1}
    BY <2>1 DEF Pairs, Types, Carries
  <2>3. /\ Len(pipe) \in Nat /\ Len(pipe') = Len(pipe) + 1
        /\ \A k \in 1 .. Len(pipe) : pipe'[k] = pipe[k]
        /\ pipe'[Len(pipe) + 1] = e
    <3>1. pipe \in Seq(ConnFds \cup {0, -1}) /\ e \in ConnFds \cup {0, -1}
      BY <2>1, <2>2 DEF Types
    <3> QED BY <2>1, <3>1, AppendFacts
  <2> HIDE DEF e
  <2>4. HalfRead' = HalfRead /\ HalfRead \in {0, 1}
    BY <2>1 DEF HalfRead
  <2>5. \A v \in Workers : v # w => wpc[v] # "write_flag" /\ wpc'[v] = wpc[v]
    <3>1. CASE WriteFd(w)
      BY <2>1, <3>1 DEF WriteFd, Mixes, Types
    <3>2. CASE WriteFlag(w)
      BY <2>1, <3>2 DEF WriteFlag, Pairs, Types
    <3> QED BY <1>7, <3>1, <3>2
  <2>6. /\ wpc[w] \in {"write_fd", "write_flag"}
        /\ wpc'[w] \in {"write_flag", "remove"}
        /\ wpc'[w] = "write_flag" <=> wpc[w] # "write_flag"
    BY <2>1 DEF Types
  <2>7. /\ HalfWritten <=> wpc[w] = "write_flag"
        /\ HalfWritten' <=> wpc'[w] = "write_flag"
    BY <2>5 DEF HalfWritten
  <2>8. ASSUME NEW k \in 1 .. Len(pipe')
        PROVE  IF (k + HalfRead) % 2 = 1 THEN pipe'[k] \in ConnFds ELSE pipe'[k] \in {0, -1}
    <3>1. CASE k \in 1 .. Len(pipe)
      BY <2>3, <3>1 DEF Pairs
    <3>2. CASE k = Len(pipe) + 1
      <4>1. (k + HalfRead) % 2 = 1 <=> (Len(pipe) + HalfRead) % 2 # 1
        BY <2>3, <2>4, <3>2
      <4> QED BY <2>2, <2>3, <2>6, <2>7, <3>2, <4>1 DEF Pairs
    <3> QED BY <2>3, <3>1, <3>2
  <2>9. (Len(pipe') + HalfRead) % 2 = 1 <=> (Len(pipe) + HalfRead) % 2 # 1
    BY <2>3, <2>4
  <2>10. HalfWritten' <=> (Len(pipe') + HalfRead') % 2 = 1
    BY <2>4, <2>6, <2>7, <2>9 DEF Pairs
  <2>11. \A v \in Workers : Carries(v)' => Carries(v) /\ v # w
    BY <2>5, <2>6 DEF Carries
  <2>12. \A u, v \in Workers : wpc'[u] = "write_flag" /\ wpc'[v] = "write_flag" => u = v
    BY <2>5
  <2> QED BY <2>1, <2>4, <2>8, <2>10, <2>11, <2>12 DEF Pairs
<1>8. ASSUME NEW c \in Clients, Client(c) PROVE Pairs'
  BY <1>0, <1>8 DEF Client, Connect, Receive, Request, Quit, Crash, ServerGone, HalfRead,
                    master, workers
<1>9. CASE AtRest \/ UNCHANGED vars
  BY <1>0, <1>9 DEF AtRest, vars, HalfRead, master, workers
<1> QED
  BY <1>1, <1>2, <1>3, <1>4, <1>5, <1>6, <1>7, <1>8, <1>9 DEF Next, Master, Worker

(* Only accept gives a descriptor to a connection, and takes the           *)
(* connection out of the backlog as it does.                               *)
LEMMA ConnsStep ==
    ASSUME Types, Scan, Pairs, Conns, Custody, [Next]_vars
    PROVE  Conns'
<1> USE Descriptors
<1>0. ASSUME UNCHANGED <<conn, backlog>>,
             \A c \in Clients : cpc'[c] = "start" => cpc[c] = "start"
      PROVE  Conns'
  BY <1>0 DEF Conns
<1>1. CASE Select \/ EndScan \/ Enqueue \/ ReadPipeFd \/ Signal \/ Shutdown \/ Return
  BY <1>0, <1>1 DEF Select, EndScan, Enqueue, ReadPipeFd, Signal, Shutdown, Return,
                    clients, sockets
<1>2. CASE Accept
  <2> DEFINE c == Head(backlog)
             new == Min(ClientFds \ Open)
  <2>1. backlog # <<>>
    BY <1>2, FoundFacts DEF Accept
  <2>2. new \in ConnFds /\ conn[new] = NoClient /\ c \in Clients /\ c # NoClient
    BY <2>1, NewDescriptor
  <2>3. /\ Len(backlog) \in Nat \ {0} /\ c = backlog[1] /\ 1 \in 1 .. Len(backlog)
        /\ \A k \in 1 .. Len(Tail(backlog)) :
              k + 1 \in 1 .. Len(backlog) /\ Tail(backlog)[k] = backlog[k + 1]
    BY <2>1, TailFacts DEF Types
  <2>4. conn' = [conn EXCEPT ![new] = c] /\ backlog' = Tail(backlog) /\ cpc' = cpc
    BY <1>2 DEF Accept, clients
  <2> HIDE DEF c, new
  <2>5. conn'[new] = c /\ \A f \in ClientFds : f # new => conn'[f] = conn[f]
    BY <2>2, <2>4 DEF Types
  <2>6. conn'[0] = Stdin /\ \A f \in ConnFds : conn'[f] # Stdin
    BY <2>2, <2>5, PoolAssumption DEF Conns
  <2>7. \A f \in ConnFds : conn[f] # c
    BY <2>3 DEF Conns
  <2>8. \A f, g \in ConnFds : conn'[f] = conn'[g] /\ conn'[f] # NoClient => f = g
    BY <2>2, <2>5, <2>7 DEF Conns
  <2>9. \A j, k \in 1 .. Len(backlog') : backlog'[j] = backlog'[k] => j = k
    BY <2>3, <2>4 DEF Conns
  <2>10. ASSUME NEW k \in 1 .. Len(backlog'), NEW f \in ConnFds
         PROVE  conn'[f] # backlog'[k]
    <3>1. k + 1 \in 1 .. Len(backlog) /\ backlog'[k] = backlog[k + 1] /\ k + 1 # 1
      BY <2>3, <2>4
    <3>2. backlog[k + 1] # c /\ conn[f] # backlog[k + 1]
      BY <2>3, <3>1 DEF Conns
    <3> QED BY <2>5, <3>1, <3>2
  <2>11. ASSUME NEW d \in Clients, cpc'[d] = "start"
         PROVE  /\ \A k \in 1 .. Len(backlog') : backlog'[k] # d
                /\ \A f \in ConnFds : conn'[f] # d
    <3>1. /\ \A k \in 1 .. Len(backlog) : backlog[k] # d
          /\ \A f \in ConnFds : conn[f] # d
      BY <2>4, <2>11 DEF Conns
    <3> QED BY <2>3, <2>4, <2>5, <3>1
  <2> QED BY <2>6, <2>8, <2>9, <2>10, <2>11 DEF Conns
<1>3. CASE ReadPipeFlag
  <2>1. /\ cfd1 \in ConnFds
        /\ conn' = conn \/ conn' = [conn EXCEPT ![cfd1] = NoClient]
        /\ UNCHANGED <<backlog, cpc>>
    BY <1>3 DEF ReadPipeFlag, Pairs, clients
  <2>2. \A f \in ClientFds : conn'[f] = conn[f] \/ (conn'[f] = NoClient /\ f # 0)
    <3>1. CASE conn' = conn
      BY <3>1
    <3>2. CASE conn' = [conn EXCEPT ![cfd1] = NoClient]
      BY <2>1, <3>2 DEF Types
    <3> QED BY <2>1, <3>1, <3>2
  <2>3. \A k \in 1 .. Len(backlog) : backlog[k] # NoClient
    BY PoolAssumption DEF Types
  <2> QED BY <2>1, <2>2, <2>3, PoolAssumption DEF Conns
<1>4. ASSUME NEW w \in Workers, Worker(w) PROVE Conns'
  BY <1>0, <1>4 DEF Worker, Remove, Serve, Reply, WriteFd, WriteFlag, clients, sockets
<1>5. ASSUME NEW c \in Clients, Connect(c) PROVE Conns'
  <2>1. /\ cpc[c] = "start" /\ cpc' = [cpc EXCEPT ![c] = "welcome"]
        /\ backlog' = Append(backlog, c) /\ conn' = conn
    BY <1>5 DEF Connect, Goto
  <2>2. /\ Len(backlog) \in Nat /\ Len(backlog') = Len(backlog) + 1
        /\ \A k \in 1 .. Len(backlog) : backlog'[k] = backlog[k]
        /\ backlog'[Len(backlog) + 1] = c
    BY <2>1, AppendFacts DEF Types
  <2>3. \A k \in 1 .. Len(backlog') : k \in 1 .. Len(backlog) \/ k = Len(backlog) + 1
    BY <2>2
  <2>4. /\ \A k \in 1 .. Len(backlog) : backlog[k] # c
        /\ \A f \in ConnFds : conn[f] # c
    BY <2>1 DEF Conns
  <2>5. \A d \in Clients : cpc'[d] = "start" => cpc[d] = "start" /\ d # c
    BY <2>1 DEF Types
  <2>6. \A j, k \in 1 .. Len(backlog') : backlog'[j] = backlog'[k] => j = k
    BY <2>2, <2>3, <2>4 DEF Conns
  <2>7. \A k \in 1 .. Len(backlog'), f \in ConnFds : conn[f] # backlog'[k]
    BY <2>2, <2>3, <2>4 DEF Conns
  <2>8. ASSUME NEW d \in Clients, cpc'[d] = "start"
        PROVE  /\ \A k \in 1 .. Len(backlog') : backlog'[k] # d
               /\ \A f \in ConnFds : conn[f] # d
    <3>1. /\ \A k \in 1 .. Len(backlog) : backlog[k] # d
          /\ \A f \in ConnFds : conn[f] # d
      BY <2>5, <2>8 DEF Conns
    <3> QED BY <2>2, <2>3, <2>5, <2>8, <3>1
  <2> QED BY <2>1, <2>6, <2>7, <2>8 DEF Conns
<1>6. ASSUME NEW c \in Clients,
             Receive(c) \/ Request(c) \/ Quit(c) \/ Crash(c) \/ ServerGone(c)
      PROVE  Conns'
  <2>1. \A d \in Clients : cpc'[d] = "start" => cpc[d] = "start"
    BY <1>6 DEF Receive, Request, Quit, Crash, ServerGone, Goto, Types
  <2> QED BY <1>0, <1>6, <2>1 DEF Receive, Request, Quit, Crash, ServerGone, sockets
<1>7. CASE AtRest \/ UNCHANGED vars
  BY <1>0, <1>7 DEF AtRest, vars, clients, sockets
<1> QED BY <1>1, <1>2, <1>3, <1>4, <1>5, <1>6, <1>7 DEF Next, Master, Client

(* A descriptor goes round: set, queue, worker, pipe, master, set; at each *)
(* step the one place loses it as the next one gets it.                    *)
LEMMA CustodyStep ==
    ASSUME Types, Scan, Pairs, Conns, Custody, [Next]_vars
    PROVE  Custody'
<1> USE Descriptors
<1> DEFINE Moves(f) == /\ f \in set' <=> f \in set
                       /\ InCoda(f)' <=> InCoda(f)
                       /\ InPipe(f)' <=> InPipe(f)
                       /\ WithWorker(f)' <=> WithWorker(f)
                       /\ WithMaster(f)' <=> WithMaster(f)
<1>0. ASSUME UNCHANGED <<coda, pipe, conn, cfd>>, \A f \in ConnFds : Moves(f),
             \A w \in Workers : Carries(w)' => Carries(w)
      PROVE  Custody'
  BY <1>0 DEF Custody
<1>1. CASE Select \/ EndScan \/ Return
  <2>1. UNCHANGED <<set, coda, pipe, conn, cfd, wpc>> /\ mpc # "flag" /\ mpc' # "flag"
    BY <1>1 DEF Select, EndScan, Return, workers, sockets, master
  <2>2. \A f \in ConnFds : Moves(f)
    BY <2>1 DEF InCoda, InPipe, WithWorker, WithMaster, Carries
  <2> QED BY <1>0, <2>1, <2>2 DEF Carries
<1>2. CASE Signal
  <2>1. UNCHANGED <<set, coda, pipe, conn, cfd, wpc, cfd1>>
        /\ (mpc' = "flag" <=> mpc = "flag")
    BY <1>2 DEF Signal, workers, sockets
  <2>2. \A f \in ConnFds : Moves(f)
    BY <2>1 DEF InCoda, InPipe, WithWorker, WithMaster, Carries
  <2> QED BY <1>0, <2>1, <2>2 DEF Carries
<1>3. CASE Accept
  <2> DEFINE c == Head(backlog)
             new == Min(ClientFds \ Open)
  <2>1. backlog # <<>>
    BY <1>3, FoundFacts DEF Accept
  <2>2. new \in ConnFds /\ conn[new] = NoClient /\ c # NoClient
    BY <2>1, NewDescriptor
  <2>3. /\ conn' = [conn EXCEPT ![new] = c] /\ set' = set \cup {new}
        /\ UNCHANGED <<coda, pipe, mpc, cfd1, cfd, wpc>>
    BY <1>3 DEF Accept, workers
  <2> HIDE DEF c, new
  <2>4. \A f \in ConnFds : /\ f \in set' <=> f \in set \/ f = new
                           /\ InCoda(f)' <=> InCoda(f)
                           /\ InPipe(f)' <=> InPipe(f)
                           /\ WithWorker(f)' <=> WithWorker(f)
                           /\ WithMaster(f)' <=> WithMaster(f)
                           /\ conn'[f] = IF f = new THEN c ELSE conn[f]
    BY <2>3 DEF InCoda, InPipe, WithWorker, WithMaster, Carries, Types
  <2> QED BY <2>2, <2>3, <2>4 DEF Custody, Carries
<1>4. CASE Enqueue
  <2>1. PICK g \in Fds \ {sfd, pip0} :
           /\ Found(g) /\ coda' = Append(coda, g) /\ set' = set \ {g}
           /\ UNCHANGED <<pipe, mpc, cfd1, cfd, wpc, conn>>
    BY <1>4 DEF Enqueue, workers, sockets
  <2>2. g \in set /\ g \in ConnFds
    BY <2>1, FoundFacts DEF Scan
  <2>3. /\ Len(coda) \in Nat /\ Len(coda') = Len(coda) + 1
        /\ \A k \in 1 .. Len(coda) : coda'[k] = coda[k]
        /\ coda'[Len(coda) + 1] = g
        /\ \A x : Has(coda', x) <=> x = g \/ Has(coda, x)
    <3>1. coda \in Seq(ConnFds \cup {-1}) /\ g \in ConnFds \cup {-1}
      BY <2>2 DEF Types
    <3> QED BY <2>1, <3>1, AppendFacts
  <2>4. ~InCoda(g)
    BY <2>2 DEF Custody
  <2>5. \A k \in 1 .. Len(coda') : k \in 1 .. Len(coda) \/ k = Len(coda) + 1
    BY <2>3
  <2>6. \A j, k \in 1 .. Len(coda') : coda'[j] = coda'[k] /\ coda'[j] \in ConnFds => j = k
    BY <2>3, <2>4, <2>5 DEF Custody, InCoda, Has
  <2>7. \A f \in ConnFds : /\ f \in set' <=> f \in set /\ f # g
                           /\ InCoda(f)' <=> f = g \/ InCoda(f)
                           /\ InPipe(f)' <=> InPipe(f)
                           /\ WithWorker(f)' <=> WithWorker(f)
                           /\ WithMaster(f)' <=> WithMaster(f)
    BY <2>1, <2>3 DEF InCoda, InPipe, WithWorker, WithMaster, Carries
  <2> QED BY <2>1, <2>2, <2>6, <2>7 DEF Custody, Carries
<1>5. CASE ReadPipeFd
  <2>1. /\ mpc = "scan" /\ mpc' = "flag" /\ pipe # <<>> /\ cfd1' = Head(pipe)
        /\ pipe' = Tail(pipe) /\ UNCHANGED <<set, coda, cfd, wpc, conn>>
    BY <1>5, FoundFacts DEF ReadPipeFd, workers, sockets
  <2>2. /\ Len(pipe) \in Nat \ {0} /\ Head(pipe) = pipe[1]
        /\ \A k \in 1 .. Len(pipe') : k + 1 \in 1 .. Len(pipe) /\ pipe'[k] = pipe[k + 1]
        /\ \A x : Has(pipe, x) <=> x = pipe[1] \/ Has(pipe', x)
    BY <2>1, TailFacts DEF Types
  <2>3. \A j, k \in 1 .. Len(pipe') : pipe'[j] = pipe'[k] /\ pipe'[j] \in ConnFds => j = k
    BY <2>2 DEF Custody
  <2>4. ASSUME NEW f \in ConnFds, f = pipe[1] PROVE ~InPipe(f)'
    <3>1. ASSUME NEW k \in 1 .. Len(pipe') PROVE pipe'[k] # f
      <4>1. 1 \in 1 .. Len(pipe) /\ k + 1 \in 1 .. Len(pipe) /\ k + 1 # 1
        BY <2>2
      <4> QED BY <2>2, <2>4, <4>1 DEF Custody
    <3> QED BY <3>1 DEF InPipe, Has
  <2>5. \A f \in ConnFds : /\ f \in set' <=> f \in set
                           /\ InCoda(f)' <=> InCoda(f)
                           /\ InPipe(f) <=> f = pipe[1] \/ InPipe(f)'
                           /\ WithWorker(f)' <=> WithWorker(f)
                           /\ ~WithMaster(f)
                           /\ WithMaster(f)' <=> f = pipe[1]
    BY <2>1, <2>2 DEF InCoda, InPipe, WithWorker, WithMaster, Carries
  <2> QED BY <2>1, <2>3, <2>4, <2>5 DEF Custody, Carries
<1>6. CASE ReadPipeFlag
  <2>1. /\ mpc = "flag" /\ mpc' = "scan" /\ pipe # <<>> /\ cfd1 \in ConnFds
        /\ pipe' = Tail(pipe) /\ UNCHANGED <<coda, cfd, wpc>>
    BY <1>6 DEF ReadPipeFlag, Pairs, workers
  <2>2. /\ Len(pipe) \in Nat \ {0}
        /\ \A k \in 1 .. Len(pipe') : k + 1 \in 1 .. Len(pipe) /\ pipe'[k] = pipe[k + 1]
        /\ \A x : Has(pipe, x) <=> x = pipe[1] \/ Has(pipe', x)
    <3>1. pipe \in Seq(ConnFds \cup {0, -1}) /\ pipe # <<>>
      BY <2>1 DEF Types
    <3> QED BY <2>1, <3>1, TailFacts
  <2>3. pipe[1] \notin ConnFds
    <3>1. 1 \in 1 .. Len(pipe) /\ HalfRead = 1
      BY <2>1, <2>2 DEF HalfRead
    <3> QED BY <3>1 DEF Pairs
  <2>4. \A j, k \in 1 .. Len(pipe') : pipe'[j] = pipe'[k] /\ pipe'[j] \in ConnFds => j = k
    BY <2>2 DEF Custody
  <2>5. \A f \in ConnFds : /\ InCoda(f)' <=> InCoda(f)
                           /\ InPipe(f)' <=> InPipe(f)
                           /\ WithWorker(f)' <=> WithWorker(f)
                           /\ WithMaster(f) <=> f = cfd1
                           /\ ~WithMaster(f)'
    BY <2>1, <2>2, <2>3 DEF InCoda, InPipe, WithWorker, WithMaster, Carries
  <2>6. /\ cfd1 \notin set
        /\ \/ set' = set /\ conn' = [conn EXCEPT ![cfd1] = NoClient]
           \/ set' = set \cup {cfd1} /\ conn' = conn
    <3>1. cfd1 \notin set
      BY <2>1, <2>5 DEF Custody
    <3>2. cfd1 \in Fds /\ cfd1 \in ClientFds
      BY <2>1
    <3>3. CASE Head(pipe) = -1
      BY <1>6, <3>1, <3>2, <3>3 DEF ReadPipeFlag
    <3>4. CASE Head(pipe) # -1
      BY <1>6, <3>1, <3>2, <3>4 DEF ReadPipeFlag
    <3> QED BY <3>1, <3>3, <3>4
  <2>7. CASE set' = set /\ conn' = [conn EXCEPT ![cfd1] = NoClient]
    <3>1. \A f \in ConnFds : conn'[f] = IF f = cfd1 THEN NoClient ELSE conn[f]
      BY <2>7 DEF Types
    <3> QED BY <2>1, <2>4, <2>5, <2>7, <3>1 DEF Custody, Carries
  <2>8. CASE set' = set \cup {cfd1} /\ conn' = conn
    BY <2>1, <2>4, <2>5, <2>8 DEF Custody, Carries
  <2> QED BY <2>6, <2>7, <2>8
<1>7. CASE Shutdown
  <2>1. /\ coda' = coda \o [k \in 1 .. nt |-> -1] /\ mpc # "flag" /\ mpc' # "flag"
        /\ UNCHANGED <<set, pipe, cfd, wpc, conn>>
    BY <1>7 DEF Shutdown, workers, sockets
  <2>2. /\ 1 .. Len(coda) \subseteq 1 .. Len(coda')
        /\ \A k \in 1 .. Len(coda) : coda'[k] = coda[k]
        /\ \A k \in 1 .. Len(coda') : k \in 1 .. Len(coda) \/ coda'[k] = -1
    <3>1. coda \in Seq(Int)
      BY DEF Types
    <3> DEFINE ends == [k \in 1 .. nt |-> -1]
    <3>2. ends \in Seq(Int) /\ \A k \in 1 .. Len(ends) : ends[k] = -1
      BY PoolAssumption
    <3>3. coda' = coda \o ends
      BY <2>1
    <3> HIDE DEF ends
    <3> QED BY <3>1, <3>2, <3>3, EndMarks
  <2>3. -1 \notin ConnFds
    OBVIOUS
  <2>4. \A j, k \in 1 .. Len(coda') : coda'[j] = coda'[k] /\ coda'[j] \in ConnFds => j = k
    BY <2>2, <2>3 DEF Custody
  <2>5. \A f \in ConnFds : Moves(f)
    BY <2>1, <2>2, <2>3 DEF InCoda, InPipe, WithWorker, WithMaster, Has, Carries
  <2> QED BY <2>1, <2>4, <2>5 DEF Custody, Carries
<1>8. ASSUME NEW w \in Workers, Remove(w) PROVE Custody'
  <2>1. /\ wpc[w] = "remove" /\ coda # <<>> /\ coda' = Tail(coda)
        /\ cfd' = [cfd EXCEPT ![w] = Head(coda)]
        /\ wpc' = [wpc EXCEPT ![w] = IF Head(coda) = -1 THEN "closed" ELSE "serve"]
        /\ UNCHANGED <<set, pipe, mpc, cfd1, conn>>
    BY <1>8 DEF Remove, master, sockets
  <2>2. /\ Len(coda) \in Nat \ {0} /\ Head(coda) = coda[1] /\ coda[1] \in ConnFds \cup {-1}
        /\ \A k \in 1 .. Len(coda') : k + 1 \in 1 .. Len(coda) /\ coda'[k] = coda[k + 1]
        /\ \A x : Has(coda, x) <=> x = coda[1] \/ Has(coda', x)
    BY <2>1, TailFacts DEF Types
  <2>3. \A j, k \in 1 .. Len(coda') : coda'[j] = coda'[k] /\ coda'[j] \in ConnFds => j = k
    BY <2>2 DEF Custody
  <2>4. ASSUME NEW f \in ConnFds, f = coda[1] PROVE ~InCoda(f)'
    <3>1. ASSUME NEW k \in 1 .. Len(coda') PROVE coda'[k] # f
      <4>1. 1 \in 1 .. Len(coda) /\ k + 1 \in 1 .. Len(coda) /\ k + 1 # 1
        BY <2>2
      <4> QED BY <2>2, <2>4, <4>1 DEF Custody
    <3> QED BY <3>1 DEF InCoda, Has
  <2>5. /\ ~Carries(w)
        /\ coda[1] \in ConnFds => Carries(w)' /\ cfd'[w] = coda[1]
        /\ coda[1] \notin ConnFds => ~Carries(w)'
    BY <2>1, <2>2 DEF Types, Carries
  <2>6. \A v \in Workers : v # w => (Carries(v)' <=> Carries(v)) /\ cfd'[v] = cfd[v]
    BY <2>1 DEF Types, Carries
  <2>7. \A f \in ConnFds : /\ f \in set' <=> f \in set
                           /\ InCoda(f) <=> f = coda[1] \/ InCoda(f)'
                           /\ InPipe(f)' <=> InPipe(f)
                           /\ WithMaster(f)' <=> WithMaster(f)
    BY <2>1, <2>2 DEF InCoda, InPipe, WithMaster
  <2>8. \A f \in ConnFds : WithWorker(f)' <=> WithWorker(f) \/ f = coda[1]
    BY <2>5, <2>6 DEF WithWorker
  <2>9. ASSUME NEW u \in Workers, NEW v \in Workers, Carries(u)', Carries(v)',
               cfd'[u] = cfd'[v]
        PROVE  u = v
    <3>1. coda[1] \in ConnFds => ~WithWorker(coda[1])
      BY <2>7 DEF Custody
    <3>2. CASE u # w /\ v # w
      BY <2>6, <2>9, <3>2 DEF Custody
    <3>3. CASE u = w /\ v # w
      BY <2>5, <2>6, <2>9, <3>1, <3>3 DEF WithWorker
    <3>4. CASE u # w /\ v = w
      BY <2>5, <2>6, <2>9, <3>1, <3>4 DEF WithWorker
    <3> QED BY <3>2, <3>3, <3>4
  <2> QED BY <2>1, <2>3, <2>4, <2>7, <2>8, <2>9 DEF Custody
<1>9. ASSUME NEW w \in Workers, Serve(w) \/ Reply(w) PROVE Custody'
  <2>1. /\ UNCHANGED <<set, coda, pipe, mpc, cfd1, conn, cfd>>
        /\ wpc[w] \in {"serve", "reply"}
        /\ wpc' = wpc \/ \E p \in {"reply", "write_fd"} : wpc' = [wpc EXCEPT ![w] = p]
    BY <1>9 DEF Serve, Reply, master
  <2>2. \A v \in Workers : Carries(v)' <=> Carries(v)
    BY <2>1 DEF Types, Carries
  <2>3. \A f \in ConnFds : Moves(f)
    BY <2>1, <2>2 DEF InCoda, InPipe, WithWorker, WithMaster
  <2> QED BY <1>0, <2>1, <2>2, <2>3
<1>10. ASSUME NEW w \in Workers, WriteFd(w) \/ WriteFlag(w) PROVE Custody'
  <2> DEFINE e == IF wpc[w] = "write_fd" THEN cfd[w] ELSE fine[w]
  <2>1. /\ UNCHANGED <<set, coda, mpc, cfd1, conn, cfd>> /\ pipe' = Append(pipe, e)
        /\ \/ wpc[w] = "write_fd" /\ wpc' = [wpc EXCEPT ![w] = "write_flag"]
           \/ wpc[w] = "write_flag" /\ wpc' = [wpc EXCEPT ![w] = "remove"]
    BY <1>10 DEF WriteFd, WriteFlag, master, sockets
  <2>2. /\ wpc[w] = "write_fd" => e = cfd[w] /\ e \in ConnFds
        /\ wpc[w] = "write_flag" => e \in {0, -1}
    BY <2>1 DEF Pairs, Types, Carries
  <2>3. /\ Len(pipe) \in Nat /\ Len(pipe') = Len(pipe) + 1
        /\ \A k \in 1 .. Len(pipe) : pipe'[k] = pipe[k]
        /\ pipe'[Len(pipe) + 1] = e
        /\ \A x : Has(pipe', x) <=> x = e \/ Has(pipe, x)
    <3>1. pipe \in Seq(ConnFds \cup {0, -1}) /\ e \in ConnFds \cup {0, -1}
      BY <2>1, <2>2 DEF Types
    <3> QED BY <2>1, <3>1, AppendFacts
  <2> HIDE DEF e
  <2>4. e \in ConnFds => wpc[w] = "write_fd" /\ WithWorker(e) /\ ~InPipe(e)
    BY <2>1, <2>2 DEF WithWorker, Carries, Custody
  <2>5. \A k \in 1 .. Len(pipe') : k \in 1 .. Len(pipe) \/ k = Len(pipe) + 1
    BY <2>3
  <2>6. \A j, k \in 1 .. Len(pipe') : pipe'[j] = pipe'[k] /\ pipe'[j] \in ConnFds => j = k
    BY <2>3, <2>4, <2>5 DEF Custody, InPipe, Has
  <2>7. /\ ~Carries(w)' /\ (Carries(w) <=> wpc[w] = "write_fd")
        /\ \A v \in Workers : v # w => (Carries(v)' <=> Carries(v))
    BY <2>1 DEF Types, Carries
  <2>8. \A f \in ConnFds : /\ f \in set' <=> f \in set
                           /\ InCoda(f)' <=> InCoda(f)
                           /\ InPipe(f)' <=> f = e \/ InPipe(f)
                           /\ WithMaster(f)' <=> WithMaster(f)
    BY <2>1, <2>3 DEF InCoda, InPipe, WithMaster
  <2>9. ASSUME NEW f \in ConnFds PROVE WithWorker(f)' <=> WithWorker(f) /\ f # e
    <3>1. CASE f = e
      <4>1. f = cfd[w] /\ Carries(w)
        BY <2>2, <2>4, <2>7, <3>1
      <4>2. \A v \in Workers : v # w /\ Carries(v) => cfd[v] # f
        BY <4>1 DEF Custody
      <4> QED BY <2>1, <2>7, <3>1, <4>2 DEF WithWorker
    <3>2. CASE f # e
      <4>1. Carries(w) => cfd[w] # f
        BY <2>2, <2>7, <3>2
      <4> QED BY <2>1, <2>7, <3>2, <4>1 DEF WithWorker
    <3> QED BY <3>1, <3>2
  <2>10. \A v \in Workers : Carries(v)' => Carries(v)
    BY <2>7
  <2> QED BY <2>1, <2>4, <2>6, <2>8, <2>9, <2>10 DEF Custody
<1>11. ASSUME NEW c \in Clients, Client(c) PROVE Custody'
  <2>1. UNCHANGED <<set, coda, pipe, mpc, cfd1, conn, cfd, wpc>>
    BY <1>11 DEF Client, Connect, Receive, Request, Quit, Crash, ServerGone, master,
                 workers, sockets
  <2>2. \A f \in ConnFds : Moves(f)
    BY <2>1 DEF InCoda, InPipe, WithWorker, WithMaster, Carries
  <2> QED BY <1>0, <2>1, <2>2 DEF Carries
<1>12. CASE AtRest \/ UNCHANGED vars
  <2>1. UNCHANGED <<set, coda, pipe, mpc, cfd1, conn, cfd, wpc>>
    BY <1>12 DEF AtRest, vars, master, workers, sockets
  <2>2. \A f \in ConnFds : Moves(f)
    BY <2>1 DEF InCoda, InPipe, WithWorker, WithMaster, Carries
  <2> QED BY <1>0, <2>1, <2>2 DEF Carries
<1> QED
  BY <1>1, <1>2, <1>3, <1>4, <1>5, <1>6, <1>7, <1>8, <1>9, <1>10, <1>11, <1>12
  DEF Next, Master, Worker

(* The answer, the request or the connection under way between a client    *)
(* and the server changes into the next one, and stops with the client.    *)
LEMMA TurnsStep ==
    ASSUME Types, Scan, Pairs, Conns, Custody, Turns, [Next]_vars
    PROVE  Turns'
<1> USE Descriptors
<1> DEFINE Same(d) == /\ toServer'[d] = toServer[d] /\ toClient'[d] = toClient[d]
                      /\ cpc'[d] = cpc[d]
                      /\ Waits(d)' <=> Waits(d)
                      /\ Answers(d)' <=> Answers(d)
           Good(d) == /\ Going(d) <= 1
                      /\ cpc[d] \in {"start", "prompt", "closed"} => Going(d) = 0
                      /\ cpc[d] \in {"welcome", "sent"} => Going(d) = 1
           a(d) == IF Waits(d) THEN 1 ELSE 0
           b(d) == IF Answers(d) THEN 1 ELSE 0
<1>a. \A d \in Clients : Going(d) = toServer[d] + toClient[d] + a(d) + b(d)
  BY DEF Going
<1>b. \A d \in Clients : Going(d)' = toServer'[d] + toClient'[d] + a(d)' + b(d)'
  BY DEF Going
<1>c. \A d \in Clients : toServer[d] \in {0, 1} /\ toClient[d] \in {0, 1}
  BY DEF Types
<1>1. ASSUME server' = "up" => server = "up" /\ \A d \in Clients : Same(d) \/ Good(d)'
      PROVE  Turns'
  <2> SUFFICES ASSUME server' = "up", NEW d \in Clients PROVE Good(d)'
    BY DEF Turns
  <2>1. CASE Same(d)
    <3>1. Good(d)
      BY <1>1 DEF Turns
    <3>2. Going(d)' = Going(d)
      BY <1>a, <1>b, <2>1
    <3> HIDE DEF Same
    <3>3. cpc'[d] = cpc[d]
      BY <2>1 DEF Same
    <3> QED BY <3>1, <3>2, <3>3
  <2> QED BY <1>1, <2>1
<1>2. ASSUME UNCHANGED <<toServer, toClient, cpc, backlog>>,
             \A d \in Clients : Answers(d)' <=> Answers(d),
             server' = "up" => server = "up"
      PROVE  Turns'
  <2>1. \A d \in Clients : Same(d)
    BY <1>2 DEF Waits
  <2> HIDE DEF Same, Good
  <2> QED BY <1>1, <1>2, <2>1
<1>3. CASE Select \/ EndScan \/ Enqueue \/ ReadPipeFd \/ Signal \/ Shutdown \/ Return
  <2>1. UNCHANGED <<toServer, toClient, cpc, backlog, conn, cfd, wpc>> /\ server = "up"
    BY <1>3 DEF Select, EndScan, Enqueue, ReadPipeFd, Signal, Shutdown, Return, Found,
                workers, clients, sockets
  <2>2. \A d \in Clients : Answers(d)' <=> Answers(d)
    BY <2>1 DEF Answers
  <2> QED BY <1>2, <2>1, <2>2
<1>4. CASE Accept
  <2> DEFINE c == Head(backlog)
             new == Min(ClientFds \ Open)
  <2>1. backlog # <<>> /\ server = "up"
    BY <1>4, FoundFacts DEF Accept, Found
  <2>2. new \in ConnFds /\ conn[new] = NoClient /\ c \in Clients /\ c # NoClient
    BY <2>1, NewDescriptor
  <2>3. /\ conn' = [conn EXCEPT ![new] = c] /\ backlog' = Tail(backlog)
        /\ UNCHANGED <<cfd, wpc, cpc, toServer>>
        /\ \/ server' = "failed"
           \/ toClient' = [toClient EXCEPT ![c] = @ + 1]
    BY <1>4 DEF Accept, workers, clients, Fail
  <2>4. /\ Len(backlog) \in Nat \ {0} /\ c = backlog[1]
        /\ \A k \in 1 .. Len(Tail(backlog)) :
              k + 1 \in 1 .. Len(backlog) /\ Tail(backlog)[k] = backlog[k + 1]
        /\ \A x : Has(backlog, x) <=> x = backlog[1] \/ Has(Tail(backlog), x)
    BY <2>1, TailFacts DEF Types
  <2> HIDE DEF c, new
  <2>5. \A k \in 1 .. Len(Tail(backlog)) : Tail(backlog)[k] # c
    <3>1. ASSUME NEW k \in 1 .. Len(Tail(backlog)) PROVE Tail(backlog)[k] # c
      <4>1. 1 \in 1 .. Len(backlog) /\ k + 1 \in 1 .. Len(backlog) /\ k + 1 # 1
        BY <2>4
      <4> QED BY <2>4, <4>1 DEF Conns
    <3> QED BY <3>1
  <2>6. Waits(c) /\ \A d \in Clients : d = c => ~Waits(d)'
    BY <2>3, <2>4, <2>5 DEF Waits, Has
  <2>7. \A d \in Clients : d # c => (Waits(d)' <=> Waits(d))
    BY <2>3, <2>4 DEF Waits
  <2>8. \A d \in Clients : Answers(d)' <=> Answers(d)
    <3>1. ASSUME NEW w \in Workers, wpc[w] = "reply" PROVE conn'[cfd[w]] = conn[cfd[w]]
      <4>1. cfd[w] \in ConnFds /\ WithWorker(cfd[w])
        BY <3>1 DEF Pairs, WithWorker, Carries
      <4>2. cfd[w] # new
        BY <2>2, <4>1 DEF Custody
      <4> QED BY <2>3, <4>1, <4>2 DEF Types
    <3> QED BY <2>3, <3>1 DEF Answers
  <2>9. /\ toServer[c] = 0 /\ toClient[c] = 0 /\ ~Answers(c)
        /\ cpc[c] \notin {"start", "prompt", "closed"}
    BY <2>1, <2>2, <2>6, Alone
  <2>10. CASE server' = "failed"
    BY <1>1, <2>10
  <2>11. CASE toClient' = [toClient EXCEPT ![c] = @ + 1]
    <3>1. \A d \in Clients : toClient'[d] = IF d = c THEN 1 ELSE toClient[d]
      BY <2>2, <2>9, <2>11 DEF Types
    <3>2. ASSUME NEW d \in Clients, d = c PROVE Good(d)'
      <4>1. a(d)' = 0 /\ b(d)' = 0
        BY <2>6, <2>8, <2>9, <3>2
      <4>2. Going(d)' = 0 + 1 + 0 + 0
        BY <1>b, <2>3, <2>9, <3>1, <3>2, <4>1
      <4>3. cpc'[d] \notin {"start", "prompt", "closed"}
        BY <2>3, <2>9, <3>2
      <4> QED BY <4>2, <4>3
    <3>3. \A d \in Clients : d # c => Same(d)
      BY <2>3, <2>7, <2>8, <3>1
    <3> HIDE DEF Same, Good
    <3> QED BY <1>1, <2>1, <3>2, <3>3
  <2> QED BY <2>3, <2>10, <2>11
<1>5. CASE ReadPipeFlag
  <2>1. /\ cfd1 \in ConnFds /\ server = "up" /\ WithMaster(cfd1)
        /\ conn' = conn \/ conn' = [conn EXCEPT ![cfd1] = NoClient]
        /\ UNCHANGED <<toServer, toClient, cpc, backlog, cfd, wpc>>
    BY <1>5 DEF ReadPipeFlag, Pairs, clients, workers, WithMaster
  <2>2. ASSUME NEW w \in Workers, wpc[w] = "reply" PROVE conn'[cfd[w]] = conn[cfd[w]]
    <3>1. cfd[w] \in ConnFds /\ WithWorker(cfd[w])
      BY <2>2 DEF Pairs, WithWorker, Carries
    <3>2. cfd[w] # cfd1
      BY <2>1, <3>1 DEF Custody
    <3> QED BY <2>1, <3>1, <3>2 DEF Types
  <2>3. \A d \in Clients : Answers(d)' <=> Answers(d)
    BY <2>1, <2>2 DEF Answers
  <2> QED BY <1>2, <2>1, <2>3
<1>6. ASSUME NEW w \in Workers, Remove(w) \/ WriteFd(w) \/ WriteFlag(w) PROVE Turns'
  <2>1. /\ UNCHANGED <<toServer, toClient, cpc, backlog>> /\ server = "up"
        /\ wpc[w] \in {"remove", "write_fd", "write_flag"} /\ conn' = conn
        /\ \E p \in {"serve", "closed", "write_flag", "remove"} : wpc' = [wpc EXCEPT ![w] = p]
        /\ cfd' = cfd \/ \E f : cfd' = [cfd EXCEPT ![w] = f]
    BY <1>6 DEF Remove, WriteFd, WriteFlag, clients, sockets
  <2>2. /\ wpc[w] # "reply" /\ wpc'[w] # "reply"
        /\ \A v \in Workers : v # w => wpc'[v] = wpc[v] /\ cfd'[v] = cfd[v]
    BY <2>1 DEF Types
  <2>3. \A d \in Clients : Answers(d)' <=> Answers(d)
    BY <2>1, <2>2 DEF Answers
  <2> QED BY <1>2, <2>1, <2>3
<1>7. ASSUME NEW w \in Workers, Serve(w) PROVE Turns'
  <2> DEFINE c == conn[cfd[w]]
  <2>1. /\ server = "up" /\ wpc[w] = "serve" /\ UNCHANGED <<cfd, conn, backlog, toClient, cpc>>
        /\ \/ /\ c \in Clients /\ toServer[c] > 0
              /\ toServer' = [toServer EXCEPT ![c] = @ - 1]
              /\ wpc' = [wpc EXCEPT ![w] = "reply"]
           \/ wpc' = [wpc EXCEPT ![w] = "write_fd"] /\ UNCHANGED toServer
           \/ server' = "failed"
    BY <1>7 DEF Serve, Connected, Fail, clients
  <2> HIDE DEF c
  <2>2. CASE /\ c \in Clients /\ toServer[c] > 0
             /\ toServer' = [toServer EXCEPT ![c] = @ - 1]
             /\ wpc' = [wpc EXCEPT ![w] = "reply"]
    <3>1. wpc'[w] = "reply" /\ \A v \in Workers : v # w => wpc'[v] = wpc[v]
      BY <2>2 DEF Types
    <3>2. \A d \in Clients : /\ Answers(d)' <=> Answers(d) \/ d = c
                             /\ Waits(d)' <=> Waits(d)
      BY <2>1, <3>1 DEF Answers, Waits, c
    <3>3. /\ toServer[c] = 1 /\ toClient[c] = 0 /\ ~Waits(c)
          /\ cpc[c] \notin {"start", "prompt", "closed"}
      BY <1>c, <2>1, <2>2, Alone
    <3>4. \A d \in Clients : toServer'[d] = IF d = c THEN 0 ELSE toServer[d]
      BY <2>2, <3>3 DEF Types
    <3>5. ASSUME NEW d \in Clients, d = c PROVE Good(d)'
      <4>1. a(d)' = 0 /\ b(d)' = 1
        BY <3>2, <3>3, <3>5
      <4>2. Going(d)' = 0 + 0 + 0 + 1
        BY <1>b, <2>1, <3>3, <3>4, <3>5, <4>1
      <4>3. cpc'[d] \notin {"start", "prompt", "closed"}
        BY <2>1, <3>3, <3>5
      <4> QED BY <4>2, <4>3
    <3>6. \A d \in Clients : d # c => Same(d)
      BY <2>1, <3>2, <3>4
    <3> HIDE DEF Same, Good
    <3> QED BY <1>1, <2>1, <3>5, <3>6
  <2>3. CASE wpc' = [wpc EXCEPT ![w] = "write_fd"] /\ UNCHANGED toServer
    <3>1. wpc'[w] # "reply" /\ \A v \in Workers : v # w => wpc'[v] = wpc[v]
      BY <2>3 DEF Types
    <3>2. \A d \in Clients : Answers(d)' <=> Answers(d)
      BY <2>1, <3>1 DEF Answers
    <3> QED BY <1>2, <2>1, <2>3, <3>2
  <2>4. CASE server' = "failed"
    BY <1>1, <2>4
  <2> QED BY <2>1, <2>2, <2>3, <2>4
<1>8. ASSUME NEW w \in Workers, Reply(w) PROVE Turns'
  <2> DEFINE c == conn[cfd[w]]
  <2>1. /\ server = "up" /\ wpc[w] = "reply" /\ UNCHANGED <<cfd, conn, backlog, toServer, cpc>>
        /\ \/ /\ c \in Clients
              /\ toClient' = [toClient EXCEPT ![c] = @ + 1]
              /\ wpc' = [wpc EXCEPT ![w] = "write_fd"]
           \/ server' = "failed"
    BY <1>8 DEF Reply, Connected, Fail, clients
  <2> HIDE DEF c
  <2>2. CASE /\ c \in Clients
             /\ toClient' = [toClient EXCEPT ![c] = @ + 1]
             /\ wpc' = [wpc EXCEPT ![w] = "write_fd"]
    <3>1. wpc'[w] # "reply" /\ \A v \in Workers : v # w => wpc'[v] = wpc[v]
      BY <2>2 DEF Types
    <3>a. ASSUME NEW v \in Workers, wpc[v] = "reply", conn[cfd[v]] = c PROVE v = w
      <4>1. Carries(v) /\ Carries(w) /\ cfd[v] \in ConnFds /\ cfd[w] \in ConnFds
        BY <2>1, <3>a DEF Pairs, Carries
      <4>2. cfd[v] = cfd[w]
        BY <2>2, <3>a, <4>1, PoolAssumption DEF Conns, c
      <4> QED BY <4>1, <4>2 DEF Custody
    <3>2. \A d \in Clients : /\ Answers(d)' <=> Answers(d) /\ d # c
                             /\ d = c => Answers(d)
                             /\ Waits(d)' <=> Waits(d)
      BY <2>1, <3>1, <3>a DEF Answers, Waits, c
    <3>3. /\ toServer[c] = 0 /\ toClient[c] = 0 /\ ~Waits(c)
          /\ cpc[c] \notin {"start", "prompt", "closed"}
      BY <2>1, <2>2, <3>2, Alone
    <3>4. \A d \in Clients : toClient'[d] = IF d = c THEN 1 ELSE toClient[d]
      BY <2>2, <3>3 DEF Types
    <3>5. ASSUME NEW d \in Clients, d = c PROVE Good(d)'
      <4>1. a(d)' = 0 /\ b(d)' = 0
        BY <3>2, <3>3, <3>5
      <4>2. Going(d)' = 0 + 1 + 0 + 0
        BY <1>b, <2>1, <3>3, <3>4, <3>5, <4>1
      <4>3. cpc'[d] \notin {"start", "prompt", "closed"}
        BY <2>1, <3>3, <3>5
      <4> QED BY <4>2, <4>3
    <3>6. \A d \in Clients : d # c => Same(d)
      BY <2>1, <3>2, <3>4
    <3> HIDE DEF Same, Good
    <3> QED BY <1>1, <2>1, <3>5, <3>6
  <2>3. CASE server' = "failed"
    BY <1>1, <2>3
  <2> QED BY <2>1, <2>2, <2>3
<1>9. ASSUME NEW c \in Clients, Client(c) PROVE Turns'
  <2>1. server' = server /\ UNCHANGED <<conn, cfd, wpc>>
    BY <1>9 DEF Client, Connect, Receive, Request, Quit, Crash, ServerGone, workers, sockets
  <2>2. \A d \in Clients : Answers(d)' <=> Answers(d)
    BY <2>1 DEF Answers
  <2>3. \A d \in Clients : d # c => Same(d)
    <3>1. CASE Connect(c)
      <4>1. /\ backlog' = Append(backlog, c) /\ cpc' = [cpc EXCEPT ![c] = "welcome"]
            /\ UNCHANGED <<toServer, toClient>>
        BY <3>1 DEF Connect, Goto
      <4>2. \A x : Has(backlog', x) <=> x = c \/ Has(backlog, x)
        BY <4>1, AppendFacts DEF Types
      <4> QED BY <2>2, <4>1, <4>2 DEF Waits, Types
    <3>2. CASE Receive(c) \/ Request(c) \/ Quit(c) \/ Crash(c) \/ ServerGone(c)
      <4>1. /\ backlog' = backlog /\ \E p : cpc' = [cpc EXCEPT ![c] = p]
            /\ toServer' = toServer \/ toServer' = [toServer EXCEPT ![c] = @ + 1]
            /\ toClient' = toClient \/ toClient' = [toClient EXCEPT ![c] = @ - 1]
        BY <3>2 DEF Receive, Request, Quit, Crash, ServerGone, Goto, sockets
      <4> QED BY <2>2, <4>1 DEF Waits, Types
    <3> QED BY <1>9, <3>1, <3>2 DEF Client
  <2>4. ASSUME server = "up" PROVE Good(c)'
    <3>0. Going(c) <= 1 /\ a(c) \in {0, 1} /\ b(c)' = b(c) /\ b(c) \in {0, 1}
      BY <2>2, <2>4 DEF Turns
    <3>1. CASE Connect(c)
      <4>1. /\ backlog' = Append(backlog, c) /\ cpc' = [cpc EXCEPT ![c] = "welcome"]
            /\ UNCHANGED <<toServer, toClient>> /\ cpc[c] = "start"
        BY <3>1 DEF Connect, Goto
      <4>2. \A x : Has(backlog', x) <=> x = c \/ Has(backlog, x)
        BY <4>1, AppendFacts DEF Types
      <4>3. toServer[c] = 0 /\ toClient[c] = 0 /\ ~Answers(c) /\ Waits(c)'
        BY <2>4, <4>1, <4>2, Alone DEF Waits
      <4>4. Going(c)' = 0 + 0 + 1 + 0
        BY <1>b, <2>2, <4>1, <4>3
      <4> QED BY <4>1, <4>4 DEF Types
    <3>2. CASE Receive(c)
      <4>1. /\ UNCHANGED <<toServer, backlog>> /\ cpc' = [cpc EXCEPT ![c] = "prompt"]
            /\ toClient' = [toClient EXCEPT ![c] = @ - 1] /\ toClient[c] > 0
        BY <3>2 DEF Receive, Goto
      <4>2. toClient[c] = 1 /\ toServer[c] = 0 /\ ~Waits(c) /\ ~Answers(c)
        BY <1>c, <2>4, <4>1, Alone
      <4>3. toClient'[c] = 0 /\ ~Waits(c)'
        BY <4>1, <4>2 DEF Types, Waits
      <4>4. Going(c)' = 0 + 0 + 0 + 0
        BY <1>b, <2>2, <4>1, <4>2, <4>3
      <4> QED BY <4>1, <4>4 DEF Types
    <3>3. CASE Request(c)
      <4>1. /\ UNCHANGED <<toClient, backlog>> /\ cpc' = [cpc EXCEPT ![c] = "sent"]
            /\ toServer' = [toServer EXCEPT ![c] = @ + 1] /\ cpc[c] = "prompt"
        BY <3>3 DEF Request, Goto
      <4>2. toClient[c] = 0 /\ toServer[c] = 0 /\ ~Waits(c) /\ ~Answers(c)
        BY <2>4, <4>1, Alone
      <4>3. toServer'[c] = 1 /\ ~Waits(c)'
        BY <4>1, <4>2 DEF Types, Waits
      <4>4. Going(c)' = 1 + 0 + 0 + 0
        BY <1>b, <2>2, <4>1, <4>2, <4>3
      <4> QED BY <4>1, <4>4 DEF Types
    <3>4. CASE Quit(c) \/ Crash(c)
      <4>1. /\ UNCHANGED <<toClient, toServer, backlog>>
            /\ \/ cpc[c] = "prompt" /\ cpc' = [cpc EXCEPT ![c] = "closed"]
               \/ cpc' = [cpc EXCEPT ![c] = "killed"]
        BY <3>4 DEF Quit, Crash, Goto, sockets
      <4>2. Going(c)' = Going(c)
        <5>1. a(c)' = a(c)
          BY <4>1 DEF Waits
        <5> HIDE DEF a, b
        <5> QED BY <1>a, <1>b, <3>0, <4>1, <5>1
      <4>3. \/ cpc'[c] = "killed"
            \/ cpc'[c] = "closed" /\ cpc[c] = "prompt"
        BY <4>1 DEF Types
      <4>4. Good(c)
        BY <2>4 DEF Turns
      <4> QED BY <4>2, <4>3, <4>4
    <3>5. CASE ServerGone(c)
      BY <2>4, <3>5 DEF ServerGone
    <3> QED BY <1>9, <3>1, <3>2, <3>3, <3>4, <3>5 DEF Client
  <2> HIDE DEF Same, Good
  <2> QED BY <1>1, <2>1, <2>3, <2>4
<1>10. CASE AtRest \/ UNCHANGED vars
  <2>1. UNCHANGED <<toServer, toClient, cpc, backlog, conn, cfd, wpc, server>>
    BY <1>10 DEF AtRest, vars, workers, clients, sockets
  <2>2. \A d \in Clients : Answers(d)' <=> Answers(d)
    BY <2>1 DEF Answers
  <2> QED BY <1>2, <2>1, <2>2
<1> HIDE DEF Same, Good
<1> QED BY <1>3, <1>4, <1>5, <1>6, <1>7, <1>8, <1>9, <1>10 DEF Next, Master, Worker

(* A worker puts a -1 in the pipe for a client that has gone only, and     *)
(* what the master does to other clients changes nothing for that one.     *)
LEMMA FlagsStep ==
    ASSUME Types, Scan, Pairs, Flags, Conns, Custody, [Next]_vars, ~mixed'
    PROVE  Flags'
<1> USE Descriptors
<1>a. ASSUME NEW f \in ConnFds, conn'[f] = conn[f], Gone(f) PROVE Gone(f)'
  <2>1. ASSUME NEW c \in Clients, Closed(c) PROVE Closed(c)'
    <3>1. CASE cpc' = cpc
      BY <2>1, <3>1 DEF Closed
    <3>2. ASSUME NEW d \in Clients, Client(d) PROVE Closed(c)'
      <4>1. ~Closed(d) /\ \E q : cpc' = [cpc EXCEPT ![d] = q]
        BY <3>2 DEF Client, Connect, Receive, Request, Quit, Crash, ServerGone, Closed, Goto
      <4> QED BY <2>1, <4>1 DEF Types, Closed
    <3>3. (\E d \in Clients : Client(d)) \/ cpc' = cpc
      BY DEF Next, Master, Select, EndScan, Accept, Enqueue, ReadPipeFd, ReadPipeFlag,
             Shutdown, Return, Signal, Worker, Remove, Serve, Reply, WriteFd, WriteFlag,
             AtRest, vars, clients
    <3> QED BY <3>1, <3>2, <3>3
  <2> QED BY <1>a, <2>1 DEF Gone
<1>b. \A k \in 1 .. Len(pipe) : pipe[k] = -1 =>
         /\ Before(k) \in ConnFds
         /\ k = 1 => WithMaster(Before(k))
         /\ k # 1 => InPipe(Before(k)) /\ k - 1 \in 1 .. Len(pipe)
  <2> SUFFICES ASSUME NEW k \in 1 .. Len(pipe), pipe[k] = -1
               PROVE  /\ Before(k) \in ConnFds
                      /\ k = 1 => WithMaster(Before(k))
                      /\ k # 1 => InPipe(Before(k)) /\ k - 1 \in 1 .. Len(pipe)
    OBVIOUS
  <2>1. (k + HalfRead) % 2 # 1 /\ HalfRead \in {0, 1}
    BY DEF Pairs, HalfRead
  <2>2. CASE k = 1
    BY <2>1, <2>2 DEF Pairs, HalfRead, WithMaster, Before
  <2>3. CASE k # 1
    <3>0. Len(pipe) \in Nat
      BY DEF Types
    <3>1. k - 1 \in 1 .. Len(pipe) /\ ((k - 1) + HalfRead) % 2 = 1
      BY <2>1, <2>3, <3>0
    <3>2. pipe[k - 1] \in ConnFds
      BY <3>1 DEF Pairs
    <3> QED BY <2>3, <3>1, <3>2 DEF Before, InPipe, Has
  <2> QED BY <2>2, <2>3
<1>c. \A w \in Workers : wpc[w] = "write_flag" =>
         /\ cfd[w] \in ConnFds
         /\ IF Len(pipe) = 0 THEN WithMaster(cfd[w])
                             ELSE InPipe(cfd[w]) /\ cfd[w] = pipe[Len(pipe)]
  <2> SUFFICES ASSUME NEW w \in Workers, wpc[w] = "write_flag"
               PROVE  /\ cfd[w] \in ConnFds
                      /\ IF Len(pipe) = 0 THEN WithMaster(cfd[w])
                             ELSE InPipe(cfd[w]) /\ cfd[w] = pipe[Len(pipe)]
    OBVIOUS
  <2>0. HalfWritten /\ Len(pipe) \in Nat
    BY DEF HalfWritten, Types
  <2>1. (Len(pipe) + HalfRead) % 2 = 1 /\ Len(pipe) \in Nat /\ HalfRead \in {0, 1}
    BY <2>0 DEF Pairs, HalfRead
  <2>2. cfd[w] = Before(Len(pipe) + 1)
    BY DEF Flags
  <2>3. CASE Len(pipe) = 0
    BY <2>1, <2>2, <2>3 DEF Before, Pairs, HalfRead, WithMaster
  <2>4. CASE Len(pipe) # 0
    <3>1. cfd[w] = pipe[Len(pipe)] /\ Len(pipe) \in 1 .. Len(pipe)
      BY <2>1, <2>2, <2>4 DEF Before
    <3> QED BY <2>1, <2>4, <3>1 DEF Pairs, InPipe, Has
  <2> QED BY <2>3, <2>4
<1>1. ASSUME UNCHANGED <<pipe, cfd1>>,
             \A f \in ConnFds : conn[f] # NoClient => conn'[f] = conn[f],
             \A w \in Workers :
                /\ wpc'[w] = "write_flag" => wpc[w] = "write_flag"
                /\ wpc'[w] \in {"write_fd", "write_flag"} => cfd'[w] = cfd[w]
                /\ wpc'[w] \in {"write_fd", "write_flag"} /\ fine'[w] = -1
                      => \/ fine[w] = -1 /\ wpc'[w] = wpc[w]
                         \/ Gone(cfd[w])'
      PROVE  Flags'
  <2>1. \A f \in ConnFds : Gone(f) => Gone(f)'
    BY <1>a, <1>1, PoolAssumption DEF Gone
  <2>2. \A k \in 1 .. Len(pipe) : pipe[k] = -1 => Gone(Before(k))'
    BY <1>b, <1>1, <2>1 DEF Flags, Before
  <2>3. \A w \in Workers : wpc[w] \in {"write_fd", "write_flag"} => cfd[w] \in ConnFds
    BY <1>c DEF Pairs, Carries
  <2>4. \A w \in Workers : wpc'[w] \in {"write_fd", "write_flag"} /\ fine'[w] = -1
                           => Gone(cfd[w])'
    BY <1>1, <2>1, <2>3 DEF Flags
  <2>5. \A w \in Workers : wpc'[w] = "write_flag" => (cfd[w] = Before(Len(pipe) + 1))'
    BY <1>1 DEF Flags, Before
  <2> QED BY <1>1, <2>2, <2>4, <2>5 DEF Flags
<1>2. CASE Select \/ EndScan \/ Enqueue \/ Signal \/ Shutdown \/ Return
  BY <1>1, <1>2 DEF Select, EndScan, Enqueue, Signal, Shutdown, Return, master, workers, sockets
<1>3. CASE Accept
  <2> DEFINE c == Head(backlog)
             new == Min(ClientFds \ Open)
  <2>1. backlog # <<>>
    BY <1>3, FoundFacts DEF Accept
  <2>2. new \in ConnFds /\ conn[new] = NoClient
    BY <2>1, NewDescriptor
  <2>3. conn' = [conn EXCEPT ![new] = c] /\ UNCHANGED <<pipe, cfd1, workers>>
    BY <1>3 DEF Accept
  <2> HIDE DEF c, new
  <2>4. \A f \in ConnFds : conn[f] # NoClient => conn'[f] = conn[f]
    BY <2>2, <2>3 DEF Types
  <2> QED BY <1>1, <2>3, <2>4 DEF workers
<1>4. CASE ReadPipeFd
  <2>1. /\ pipe # <<>> /\ cfd1' = Head(pipe) /\ pipe' = Tail(pipe)
        /\ UNCHANGED <<workers, conn, cpc>>
    BY <1>4, FoundFacts DEF ReadPipeFd, clients, sockets
  <2>2. /\ Len(pipe) \in Nat \ {0} /\ Head(pipe) = pipe[1]
        /\ Len(pipe') = Len(pipe) - 1
        /\ \A k \in 1 .. Len(pipe') : k + 1 \in 1 .. Len(pipe) /\ pipe'[k] = pipe[k + 1]
    BY <2>1, TailFacts DEF Types
  <2>3. ASSUME NEW k \in 1 .. Len(pipe), k # 0 PROVE Before(k)' = pipe[k]
    <3>1. CASE k = 1
      BY <2>1, <2>2, <3>1 DEF Before
    <3>2. CASE k # 1
      <4>1. k - 1 \in 1 .. Len(pipe') /\ (k - 1) + 1 = k
        BY <2>2, <3>2
      <4> QED BY <2>2, <3>2, <4>1 DEF Before
    <3> QED BY <3>1, <3>2
  <2>4. ASSUME NEW k \in 1 .. Len(pipe), k + 1 \in 1 .. Len(pipe) + 1
        PROVE  Before(k + 1) = pipe[k]
    BY DEF Before
  <2>6. ASSUME NEW k \in 1 .. Len(pipe'), pipe'[k] = -1 PROVE Gone(Before(k))'
    <3>1. k \in 1 .. Len(pipe) /\ k # 0 /\ k + 1 \in 1 .. Len(pipe) /\ pipe[k + 1] = -1
      BY <2>2, <2>6
    <3>2. Gone(Before(k + 1)) /\ Before(k + 1) = pipe[k] /\ Before(k)' = pipe[k]
      BY <2>3, <2>4, <3>1 DEF Flags
    <3> QED BY <2>1, <3>2 DEF Gone, Closed
  <2>7. \A w \in Workers : wpc'[w] \in {"write_fd", "write_flag"} /\ fine'[w] = -1
                           => Gone(cfd[w])'
    BY <2>1 DEF Flags, Gone, Closed, workers
  <2>8. ASSUME NEW w \in Workers, wpc'[w] = "write_flag"
        PROVE  (cfd[w] = Before(Len(pipe) + 1))'
    <3>1. Len(pipe) \in 1 .. Len(pipe) /\ Len(pipe') + 1 = Len(pipe) /\ Len(pipe) # 0
      BY <2>2
    <3>2. cfd[w] = pipe[Len(pipe)]
      BY <1>c, <2>1, <2>2, <2>8 DEF workers
    <3> QED BY <2>1, <2>3, <3>1, <3>2 DEF workers
  <2> QED BY <2>6, <2>7, <2>8 DEF Flags
<1>5. CASE ReadPipeFlag
  <2>1. /\ mpc = "flag" /\ pipe # <<>> /\ cfd1 \in ConnFds /\ cfd1' = cfd1
        /\ pipe' = Tail(pipe) /\ UNCHANGED <<workers, cpc>>
        /\ conn' = conn \/ conn' = [conn EXCEPT ![cfd1] = NoClient]
    BY <1>5 DEF ReadPipeFlag, Pairs, clients
  <2>2. /\ Len(pipe) \in Nat \ {0}
        /\ Len(pipe') = Len(pipe) - 1
        /\ \A k \in 1 .. Len(pipe') : k + 1 \in 1 .. Len(pipe) /\ pipe'[k] = pipe[k + 1]
    BY <2>1, TailFacts DEF Types
  <2>3. WithMaster(cfd1) /\ HalfRead = 1
    BY <2>1 DEF WithMaster, HalfRead
  <2>4. ASSUME NEW f \in ConnFds, InPipe(f) \/ WithWorker(f), Gone(f) PROVE Gone(f)'
    <3>1. f # cfd1
      BY <2>3, <2>4 DEF Custody
    <3>2. conn'[f] = conn[f]
      BY <2>1, <3>1 DEF Types
    <3> QED BY <1>a, <2>4, <3>2
  <2>5. ASSUME NEW k \in 1 .. Len(pipe'), pipe'[k] = -1 PROVE Gone(Before(k))'
    <3>1. /\ k + 1 \in 1 .. Len(pipe) /\ k + 1 # 1 /\ (k + 1) - 1 = k /\ pipe[k + 1] = -1
      BY <2>2, <2>5
    <3>2. Gone(Before(k + 1)) /\ InPipe(Before(k + 1)) /\ Before(k + 1) \in ConnFds
      BY <1>b, <3>1 DEF Flags
    <3>3. Before(k + 1) = pipe[k]
      BY <3>1 DEF Before
    <3>4. k # 1
      <4>1. CASE k = 1
        <5>1. pipe[2] = -1 /\ 2 \in 1 .. Len(pipe) /\ (2 + HalfRead) % 2 = 1
          BY <2>3, <3>1, <4>1
        <5> QED BY <5>1 DEF Pairs
      <4> QED BY <4>1
    <3>5. k - 1 \in 1 .. Len(pipe') /\ (k - 1) + 1 = k
      BY <2>2, <3>4
    <3>6. Before(k)' = pipe[k]
      BY <2>2, <3>4, <3>5 DEF Before
    <3> QED BY <2>4, <3>2, <3>3, <3>6
  <2>6. ASSUME NEW w \in Workers, wpc[w] = "write_flag"
        PROVE  /\ cfd[w] \in ConnFds /\ InPipe(cfd[w])
               /\ (cfd[w] = Before(Len(pipe) + 1))'
    <3>1. cfd[w] \in ConnFds /\ InPipe(cfd[w]) /\ cfd[w] = pipe[Len(pipe)]
      BY <1>c, <2>2, <2>6
    <3>2. Len(pipe) # 1
      <4>1. (Len(pipe) + HalfRead) % 2 = 1
        BY <2>6 DEF Pairs, HalfWritten
      <4>2. ASSUME Len(pipe) = 1 PROVE FALSE
        <5>1. Len(pipe) + HalfRead = 2
          BY <2>3, <4>2
        <5> QED BY <4>1, <5>1
      <4> QED BY <4>2
    <3>3. Len(pipe') \in 1 .. Len(pipe') /\ Len(pipe') + 1 = Len(pipe)
      BY <2>2, <3>2
    <3>4. pipe'[Len(pipe')] = pipe[Len(pipe)]
      BY <2>2, <3>3
    <3>5. Len(pipe') + 1 # 1 /\ Len(pipe') + 1 - 1 = Len(pipe')
      BY <3>3
    <3>6. Before(Len(pipe) + 1)' = pipe'[Len(pipe')]
      BY <3>5 DEF Before
    <3>7. cfd'[w] = cfd[w]
      BY <2>1 DEF workers
    <3> QED BY <3>1, <3>4, <3>6, <3>7
  <2>7. ASSUME NEW w \in Workers, wpc[w] \in {"write_fd", "write_flag"}, fine[w] = -1
        PROVE  Gone(cfd[w])'
    <3>1. cfd[w] \in ConnFds /\ (InPipe(cfd[w]) \/ WithWorker(cfd[w])) /\ Gone(cfd[w])
      BY <2>6, <2>7 DEF Flags, Pairs, Carries, WithWorker
    <3>2. cfd'[w] = cfd[w]
      BY <2>1 DEF workers
    <3> QED BY <2>4, <3>1, <3>2
  <2>8. UNCHANGED <<wpc, cfd, fine>>
    BY <2>1 DEF workers
  <2> QED BY <2>5, <2>6, <2>7, <2>8 DEF Flags
<1>6. ASSUME NEW w \in Workers, Remove(w) PROVE Flags'
  <2>1. /\ UNCHANGED <<pipe, cfd1, conn, fine>> /\ \E f : cfd' = [cfd EXCEPT ![w] = f]
        /\ \E q \in {"serve", "closed"} : wpc' = [wpc EXCEPT ![w] = q]
    BY <1>6 DEF Remove, master, sockets
  <2>2. \A v \in Workers :
           wpc'[v] \in {"write_fd", "write_flag"} => wpc'[v] = wpc[v] /\ cfd'[v] = cfd[v]
    BY <2>1 DEF Types
  <2> QED BY <1>1, <2>1, <2>2
<1>7. ASSUME NEW w \in Workers, Serve(w) PROVE Flags'
  <2>1. /\ UNCHANGED <<pipe, cfd1, conn, cfd, cpc>>
        /\ \/ wpc' = [wpc EXCEPT ![w] = "reply"] /\ fine' = fine
           \/ /\ wpc' = [wpc EXCEPT ![w] = "write_fd"]
              /\ fine' = [fine EXCEPT ![w] = -1]
              /\ conn[cfd[w]] \in Clients /\ Closed(conn[cfd[w]])
           \/ wpc' = wpc /\ fine' = fine
    BY <1>7 DEF Serve, Connected, master, clients
  <2>2. \A v \in Workers : /\ wpc'[v] = "write_flag" => wpc[v] = "write_flag"
                           /\ wpc'[v] \in {"write_fd", "write_flag"} /\ fine'[v] = -1
                                 => \/ fine[v] = -1 /\ wpc'[v] = wpc[v]
                                    \/ Gone(cfd[v])'
    BY <2>1 DEF Types, Gone, Closed
  <2> QED BY <1>1, <2>1, <2>2
<1>8. ASSUME NEW w \in Workers, Reply(w) PROVE Flags'
  <2>1. /\ UNCHANGED <<pipe, cfd1, conn, cfd>>
        /\ \/ wpc' = wpc /\ fine' = fine
           \/ wpc' = [wpc EXCEPT ![w] = "write_fd"] /\ fine' = [fine EXCEPT ![w] = 0]
    BY <1>8 DEF Reply, master
  <2>2. \A v \in Workers : /\ wpc'[v] = "write_flag" => wpc[v] = "write_flag"
                           /\ wpc'[v] \in {"write_fd", "write_flag"} /\ fine'[v] = -1
                                 => fine[v] = -1 /\ wpc'[v] = wpc[v]
    BY <2>1 DEF Types
  <2> QED BY <1>1, <2>1, <2>2
<1>9. ASSUME NEW w \in Workers, WriteFd(w) \/ WriteFlag(w) PROVE Flags'
  <2> DEFINE e == IF wpc[w] = "write_fd" THEN cfd[w] ELSE fine[w]
  <2>1. /\ UNCHANGED <<cfd1, cfd, fine, conn, cpc>> /\ pipe' = Append(pipe, e)
        /\ \/ wpc[w] = "write_fd" /\ wpc' = [wpc EXCEPT ![w] = "write_flag"]
           \/ wpc[w] = "write_flag" /\ wpc' = [wpc EXCEPT ![w] = "remove"]
    BY <1>9 DEF WriteFd, WriteFlag, master, clients, sockets
  <2>2. /\ wpc[w] = "write_fd" => e = cfd[w] /\ e \in ConnFds
        /\ wpc[w] = "write_flag" => e = fine[w] /\ e \in {0, -1}
    BY <2>1 DEF Pairs, Types, Carries
  <2>3. /\ Len(pipe) \in Nat /\ Len(pipe') = Len(pipe) + 1
        /\ \A k \in 1 .. Len(pipe) : pipe'[k] = pipe[k]
        /\ pipe'[Len(pipe) + 1] = e
    <3>1. pipe \in Seq(ConnFds \cup {0, -1}) /\ e \in ConnFds \cup {0, -1}
      BY <2>1, <2>2 DEF Types
    <3> QED BY <2>1, <3>1, AppendFacts
  <2> HIDE DEF e
  <2>4. \A v \in Workers : v # w => wpc[v] # "write_flag" /\ wpc'[v] = wpc[v]
    <3>1. CASE WriteFd(w)
      BY <2>1, <3>1 DEF WriteFd, Mixes, Types
    <3>2. CASE WriteFlag(w)
      BY <2>1, <3>2 DEF WriteFlag, Pairs, Types
    <3> QED BY <1>9, <3>1, <3>2
  <2>5. wpc'[w] = IF wpc[w] = "write_fd" THEN "write_flag" ELSE "remove"
    BY <2>1 DEF Types
  <2>6. \A f : Gone(f) => conn'[f] \in Clients /\ cpc'[conn'[f]] \in {"closed", "killed"}
    BY <2>1 DEF Gone, Closed
  <2>7. \A k \in 1 .. Len(pipe) + 1 : Before(k)' = Before(k)
    <3>1. \A k \in 1 .. Len(pipe) + 1 : k # 1 => k - 1 \in 1 .. Len(pipe)
      BY <2>3
    <3> QED BY <2>1, <2>3, <3>1 DEF Before
  <2>8. ASSUME NEW k \in 1 .. Len(pipe'), pipe'[k] = -1 PROVE Gone(Before(k))'
    <3>1. k \in 1 .. Len(pipe) + 1 /\ Before(k)' = Before(k)
      BY <2>3, <2>7
    <3>2. CASE k \in 1 .. Len(pipe)
      BY <2>3, <2>6, <2>8, <3>1, <3>2 DEF Flags, Gone, Closed
    <3>3. CASE k = Len(pipe) + 1
      <4>1. e = -1 /\ wpc[w] = "write_flag" /\ fine[w] = -1
        BY <2>1, <2>2, <2>3, <2>8, <3>3
      <4>2. Gone(cfd[w]) /\ cfd[w] = Before(k)
        BY <3>3, <4>1 DEF Flags
      <4> QED BY <2>6, <3>1, <4>2 DEF Gone, Closed
    <3> QED BY <3>1, <3>2, <3>3
  <2>9. \A v \in Workers : wpc'[v] \in {"write_fd", "write_flag"} /\ fine'[v] = -1
                           => Gone(cfd[v])'
    <3>1. \A v \in Workers : wpc'[v] \in {"write_fd", "write_flag"}
                             => wpc[v] \in {"write_fd", "write_flag"}
      BY <2>4, <2>5
    <3> QED BY <2>1, <2>6, <3>1 DEF Flags, Gone, Closed
  <2>10. ASSUME NEW v \in Workers, wpc'[v] = "write_flag"
         PROVE  cfd'[v] = IF Len(pipe') + 1 = 1 THEN cfd1' ELSE pipe'[Len(pipe') + 1 - 1]
    <3>1. v = w /\ wpc[w] = "write_fd"
      BY <2>4, <2>5, <2>10
    <3>2. Len(pipe') + 1 # 1 /\ Len(pipe') + 1 - 1 = Len(pipe) + 1
      BY <2>3
    <3> QED BY <2>1, <2>2, <2>3, <3>1, <3>2
  <2> QED BY <2>8, <2>9, <2>10 DEF Flags, Before
<1>10. ASSUME NEW c \in Clients, Client(c) PROVE Flags'
  BY <1>1, <1>10 DEF Client, Connect, Receive, Request, Quit, Crash, ServerGone, master,
                     workers, sockets
<1>11. CASE AtRest \/ UNCHANGED vars
  BY <1>1, <1>11 DEF AtRest, vars, master, workers, sockets
<1> QED
  BY <1>2, <1>3, <1>4, <1>5, <1>6, <1>7, <1>8, <1>9, <1>10, <1>11 DEF Next, Master, Worker

(* exit(EXIT_FAILURE) is called only when a signal has come or a client    *)
(* has been killed: select has open descriptors only, and a client that    *)
(* closes by itself has read its welcome and all its answers.              *)
LEMMA SurvivesStep ==
    ASSUME Types, Scan, Pairs, Conns, Custody, Turns,
           ServerSurvivesClients, ~mixed, [Next]_vars
    PROVE  ServerSurvivesClients'
<1> USE Descriptors
<1>0. ASSUME server' = "failed" =>
                server = "failed" \/ term' = 1 \/ \E c \in Clients : cpc'[c] = "killed"
      PROVE  ServerSurvivesClients'
  <2>1. term = 1 => term' = 1
    BY DEF Next, Master, Select, EndScan, Accept, Enqueue, ReadPipeFd, ReadPipeFlag,
           Shutdown, Return, Signal, Worker, Remove, Serve, Reply, WriteFd, WriteFlag,
           Client, Connect, Receive, Request, Quit, Crash, ServerGone, AtRest, vars, master
  <2>2. ASSUME NEW c \in Clients, cpc[c] = "killed" PROVE cpc'[c] = "killed"
    <3>1. CASE cpc' = cpc
      BY <2>2, <3>1
    <3>2. ASSUME NEW d \in Clients, Client(d) PROVE cpc'[c] = "killed"
      <4>1. cpc[d] # "killed" /\ \E p : cpc' = [cpc EXCEPT ![d] = p]
        BY <3>2 DEF Client, Connect, Receive, Request, Quit, Crash, ServerGone, Closed, Goto
      <4> QED BY <2>2, <4>1 DEF Types
    <3>3. (\E d \in Clients : Client(d)) \/ cpc' = cpc
      BY DEF Next, Master, Select, EndScan, Accept, Enqueue, ReadPipeFd, ReadPipeFlag,
             Shutdown, Return, Signal, Worker, Remove, Serve, Reply, WriteFd, WriteFlag,
             AtRest, vars, clients
    <3> QED BY <3>1, <3>2, <3>3
  <2> QED BY <1>0, <2>1, <2>2 DEF ServerSurvivesClients
<1>1. ASSUME server' = "up" \/ server' = "ended" \/ server' = server
      PROVE  ServerSurvivesClients'
  BY <1>0, <1>1
<1>2. ASSUME NEW c \in Clients, server = "up", Closed(c),
             Waits(c) \/ toServer[c] # 0 \/ toClient[c] # 0 \/ Answers(c)
      PROVE  cpc[c] = "killed"
  BY <1>2, Alone DEF Closed
<1>3. ASSUME NEW f \in ConnFds, conn[f] # NoClient
      PROVE  f \in Connected /\ conn[f] \in Clients
  BY <1>3 DEF Conns, Types, Connected, Open
<1>4. CASE Select
  <2>1. ASSUME NEW f \in set PROVE f \in Open \cup {pip0, sfd}
    <3>1. CASE f \in ConnFds
      BY <2>1, <3>1 DEF Custody, Open
    <3> QED BY <2>1, <3>1 DEF Scan
  <2> QED BY <1>1, <1>4, <2>1 DEF Select
<1>5. CASE Accept
  <2> DEFINE c == Head(backlog)
  <2>1. backlog # <<>> /\ server = "up" /\ cpc' = cpc
    BY <1>5, FoundFacts DEF Accept, Found, clients
  <2>2. c \in Clients /\ Waits(c)
    <3>1. c \in Clients
      BY <2>1, NewDescriptor
    <3>2. Waits(c)
      BY <2>1, TailFacts DEF Types, Waits
    <3> QED BY <3>1, <3>2
  <2>3. CASE Closed(c)
    BY <1>0, <1>2, <2>1, <2>2, <2>3
  <2>4. CASE ~Closed(c)
    BY <1>1, <1>5, <2>4 DEF Accept
  <2> QED BY <2>3, <2>4
<1>6. CASE Signal
  BY <1>0, <1>6 DEF Signal
<1>7. ASSUME NEW w \in Workers, Serve(w) PROVE ServerSurvivesClients'
  <2> DEFINE c == conn[cfd[w]]
  <2>1. server = "up" /\ wpc[w] = "serve" /\ cpc' = cpc
    BY <1>7 DEF Serve, clients
  <2>2. cfd[w] \in Connected /\ c \in Clients
    <3>1. cfd[w] \in ConnFds /\ WithWorker(cfd[w])
      BY <2>1 DEF Pairs, WithWorker, Carries
    <3>2. conn[cfd[w]] # NoClient
      BY <3>1 DEF Custody
    <3> QED BY <1>3, <3>1, <3>2
  <2>3. \/ server' = server
        \/ Closed(c) /\ toClient[c] > 0
    BY <1>7, <2>2 DEF Serve, Connected
  <2>4. CASE Closed(c) /\ toClient[c] > 0
    BY <1>0, <1>2, <2>1, <2>2, <2>4
  <2> QED BY <1>1, <2>3, <2>4
<1>8. ASSUME NEW w \in Workers, Reply(w) PROVE ServerSurvivesClients'
  <2> DEFINE c == conn[cfd[w]]
  <2>1. server = "up" /\ wpc[w] = "reply" /\ cpc' = cpc
    BY <1>8 DEF Reply, clients
  <2>2. cfd[w] \in Connected /\ c \in Clients
    <3>1. cfd[w] \in ConnFds /\ WithWorker(cfd[w])
      BY <2>1 DEF Pairs, WithWorker, Carries
    <3>2. conn[cfd[w]] # NoClient
      BY <3>1 DEF Custody
    <3> QED BY <1>3, <3>1, <3>2
  <2>3. server' = server \/ Closed(c)
    BY <1>8, <2>2 DEF Reply
  <2>4. Answers(c)
    BY <2>1 DEF Answers
  <2>5. CASE Closed(c)
    BY <1>0, <1>2, <2>1, <2>2, <2>4, <2>5
  <2> QED BY <1>1, <2>3, <2>5
<1>9. CASE EndScan \/ Enqueue \/ ReadPipeFd \/ ReadPipeFlag \/ Shutdown \/ Return
  BY <1>1, <1>9 DEF EndScan, Enqueue, ReadPipeFd, ReadPipeFlag, Shutdown, Return
<1>10. ASSUME NEW w \in Workers, Remove(w) \/ WriteFd(w) \/ WriteFlag(w)
       PROVE  ServerSurvivesClients'
  BY <1>1, <1>10 DEF Remove, WriteFd, WriteFlag
<1>11. ASSUME NEW c \in Clients, Client(c) PROVE ServerSurvivesClients'
  BY <1>1, <1>11 DEF Client, Connect, Receive, Request, Quit, Crash, ServerGone
<1>12. CASE AtRest \/ UNCHANGED vars
  BY <1>1, <1>12 DEF AtRest, vars
<1> QED
  BY <1>4, <1>5, <1>6, <1>7, <1>8, <1>9, <1>10, <1>11, <1>12 DEF Next, Master, Worker

\* The server starts with its two descriptors in the set and no client.
LEMMA ServerInit == ASSUME Init PROVE ServerInv
<1> USE Descriptors, PoolAssumption DEF Init
<1>1. Types
  BY DEF Types
<1>2. Scan
  BY DEF Scan
<1>3. Pairs
  BY DEF Pairs, HalfRead, HalfWritten, Carries
<1>4. Flags
  BY DEF Flags
<1>5. Conns
  BY DEF Conns
<1>6. Custody
  BY DEF Custody, InCoda, InPipe, Has, WithWorker, WithMaster, Carries
<1>7. Turns
  BY DEF Turns, Going, Waits, Has, Answers
<1> QED
  BY <1>1, <1>2, <1>3, <1>4, <1>5, <1>6, <1>7 DEF ServerInv, ServerSurvivesClients

\* A pair that has been mixed stays in the history.
LEMMA MixedStays ==
    ASSUME mixed \in BOOLEAN, [Next]_vars
    PROVE  mixed' \in BOOLEAN /\ (mixed => mixed')
<1>1. ASSUME NEW w \in Workers, WriteFd(w) PROVE mixed' = (mixed \/ Mixes(w))
  BY <1>1 DEF WriteFd, Mixes
<1>2. (\E w \in Workers : WriteFd(w)) \/ mixed' = mixed
  BY DEF Next, Master, Select, EndScan, Accept, Enqueue, ReadPipeFd, ReadPipeFlag,
         Shutdown, Return, Signal, Worker, Remove, Serve, Reply, WriteFlag, Client, Connect,
         Receive, Request, Quit, Crash, ServerGone, AtRest, vars, workers
<1>3. CASE \E w \in Workers : WriteFd(w)
  BY <1>1, <1>3
<1>4. CASE mixed' = mixed
  BY <1>4
<1> QED BY <1>2, <1>3, <1>4
-----------------------------------------------------------------------------
(* The inductive invariant of the server, whatever the size of the pool,   *)
(* the number of clients, their requests, their deaths and the signals.    *)
THEOREM ServerInvCorrect == Spec => []ServerInv
<1>1. Init => ServerInv
  BY ServerInit
<1>2. ASSUME ServerInv, [Next]_vars PROVE ServerInv'
  <2>1. mixed' \in BOOLEAN /\ (mixed => mixed')
    BY <1>2, MixedStays DEF ServerInv
  <2>2. ASSUME ~mixed' PROVE ~mixed /\ Types /\ Scan /\ Pairs /\ Flags /\ Conns /\ Custody
                              /\ Turns /\ ServerSurvivesClients
    BY <1>2, <2>1, <2>2 DEF ServerInv
  <2>3. ASSUME ~mixed'
        PROVE  /\ Types' /\ Scan' /\ Pairs' /\ Flags' /\ Conns' /\ Custody' /\ Turns'
               /\ ServerSurvivesClients'
    BY <1>2, <2>2, <2>3, TypesStep, ScanStep, PairsStep, FlagsStep, ConnsStep, CustodyStep,
       TurnsStep, SurvivesStep
  <2> QED BY <2>1, <2>3 DEF ServerInv
<1> QED BY <1>1, <1>2, PTL DEF Spec

\* How many times a queue has an element that it has at most once.
LEMMA CountFacts ==
    ASSUME NEW s, NEW f, Len(s) \in Nat,
           \A j, k \in 1 .. Len(s) : s[j] = f /\ s[k] = f => j = k
    PROVE  Count(f, s) = IF Has(s, f) THEN 1 ELSE 0
<1> DEFINE S == {k \in 1 .. Len(s) : s[k] = f}
<1>1. CASE Has(s, f)
  <2>1. PICK k \in 1 .. Len(s) : s[k] = f
    BY <1>1 DEF Has
  <2>2. S = {k}
    BY <2>1
  <2>3. Cardinality({k}) = 1
    BY FS_Singleton
  <2> QED BY <1>1, <2>2, <2>3 DEF Count
<1>2. CASE ~Has(s, f)
  <2>1. S = {}
    BY <1>2 DEF Has
  <2>2. Cardinality({}) = 0
    BY FS_EmptySet
  <2> QED BY <1>2, <2>1, <2>2 DEF Count
<1> QED BY <1>1, <1>2

\* The places where a descriptor can be, counted one by one.
LEMMA OwnersFacts ==
    ASSUME Types, Pairs, Custody, NEW f \in ConnFds
    PROVE  Owners(f) = IF conn[f] # NoClient THEN 1 ELSE 0
<1> DEFINE W == {w \in Workers : cfd[w] = f /\ wpc[w] \in {"serve", "reply", "write_fd"}}
<1>0. Cardinality({}) = 0 /\ \A x : Cardinality({x}) = 1
  BY FS_EmptySet, FS_Singleton
<1>1. Cardinality({f} \cap set) = IF f \in set THEN 1 ELSE 0
  <2>1. CASE f \in set
    <3>1. {f} \cap set = {f}
      BY <2>1
    <3> QED BY <1>0, <2>1, <3>1
  <2>2. CASE f \notin set
    <3>1. {f} \cap set = {}
      BY <2>2
    <3> QED BY <1>0, <2>2, <3>1
  <2> QED BY <2>1, <2>2
<1>2. Count(f, coda) = IF InCoda(f) THEN 1 ELSE 0
  <2>1. Len(coda) \in Nat
    BY DEF Types
  <2>2. \A j, k \in 1 .. Len(coda) : coda[j] = f /\ coda[k] = f => j = k
    BY DEF Custody
  <2> QED BY <2>1, <2>2, CountFacts DEF InCoda
<1>3. Count(f, pipe) = IF InPipe(f) THEN 1 ELSE 0
  <2>1. Len(pipe) \in Nat
    BY DEF Types
  <2>2. \A j, k \in 1 .. Len(pipe) : pipe[j] = f /\ pipe[k] = f => j = k
    BY DEF Custody
  <2> QED BY <2>1, <2>2, CountFacts DEF InPipe
<1>4. Cardinality(W) = IF WithWorker(f) THEN 1 ELSE 0
  <2>1. CASE WithWorker(f)
    <3>1. PICK w \in Workers : cfd[w] = f /\ Carries(w)
      BY <2>1 DEF WithWorker
    <3>2. W = {w}
      BY <3>1 DEF Custody, Carries
    <3> QED BY <1>0, <2>1, <3>2
  <2>2. CASE ~WithWorker(f)
    <3>1. W = {}
      BY <2>2 DEF WithWorker, Carries
    <3> QED BY <1>0, <2>2, <3>1
  <2> QED BY <2>1, <2>2
<1> DEFINE m == IF mpc = "flag" /\ cfd1 = f THEN 1 ELSE 0
<1>5. m = IF WithMaster(f) THEN 1 ELSE 0
  BY DEF WithMaster
<1>6. Owners(f) = Cardinality({f} \cap set) + Count(f, coda) + Cardinality(W)
                  + Count(f, pipe) + m
  BY DEF Owners
<1> HIDE DEF W, m
<1> QED BY <1>1, <1>2, <1>3, <1>4, <1>5, <1>6 DEF Custody

(* At every moment each connected client is in the care of exactly one of  *)
(* the select set, the queue, a worker, the pipe and the master, and a     *)
(* closed descriptor is nowhere, as long as no pair has been mixed.        *)
THEOREM ServerOneOwner == Spec => []OneOwner
<1>1. ASSUME ServerInv, ~mixed PROVE TypeOK
  <2>1. Types /\ mixed \in BOOLEAN
    BY <1>1 DEF ServerInv
  <2>2. Max(Fds) + 1 = NumClients + 6
    <3>1. Fds \in SUBSET Fds /\ NumClients + 5 \in Fds
      BY Descriptors
    <3>2. Max(Fds) \in Fds /\ NumClients + 5 <= Max(Fds)
      BY <3>1, Extremes
    <3> QED BY <3>2, Descriptors
  <2>3. \A k \in 1 .. Len(coda) : coda[k] \in Fds \cup {-1}
    BY <2>1, Descriptors DEF Types
  <2>4. \A k \in 1 .. Len(pipe) : pipe[k] \in Fds \cup {-1}
    BY <2>1, Descriptors DEF Types
  <2>5. \A k \in 1 .. Len(backlog) : backlog[k] \in Clients
    BY <2>1 DEF Types
  <2> QED BY <2>1, <2>2, <2>3, <2>4, <2>5 DEF TypeOK, Types
<1>2. ASSUME ServerInv, ~mixed, NEW f \in ClientFds \ {0}
      PROVE  Owners(f) = IF f \in Open THEN 1 ELSE 0
  <2>1. f \in ConnFds
    BY DEF ConnFds
  <2> QED BY <1>2, <2>1, OwnersFacts DEF ServerInv, Open
<1>3. ServerInv => OneOwner
  BY <1>1, <1>2 DEF OneOwner
<1> QED BY <1>3, ServerInvCorrect, PTL

(* num_fd covers the set, and the set has open descriptors only, as long   *)
(* as no pair has been mixed.                                              *)
THEOREM ServerSelectSetSound == Spec => []SelectSetSound
<1>1. ServerInv => SelectSetSound
  <2> SUFFICES ASSUME ServerInv, ~mixed, NEW f \in set
               PROVE  f <= num_fd /\ f \in Connected \cup {pip0, sfd}
    BY DEF SelectSetSound
  <2>1. f <= num_fd /\ f \in ConnFds \cup {pip0, sfd}
    BY DEF ServerInv, Scan
  <2>2. CASE f \in ConnFds
    <3>1. f \in ClientFds /\ conn[f] # NoClient /\ conn[f] # Stdin
      BY <2>2, Descriptors DEF ServerInv, Custody, Conns
    <3>2. conn[f] \in Clients
      BY <3>1 DEF ServerInv, Types
    <3> QED BY <2>1, <3>1, <3>2 DEF Connected, Open
  <2> QED BY <2>1, <2>2
<1> QED BY <1>1, ServerInvCorrect, PTL

(* However the workers of the pool take turns, if no one of them writes    *)
(* between the two writes of another then the master reads the descriptor  *)
(* of a client and the flag that belongs to it, and the flag is -1 only    *)
(* when that client has gone.                                              *)
THEOREM ServerReadsPairs == Spec => []OnlyMixingBreaksPairs
<1>1. ServerInv => OnlyMixingBreaksPairs
  <2> SUFFICES ASSUME ServerInv, mpc = "flag", ~mixed
               PROVE  /\ cfd1 \in Connected
                      /\ pipe # <<>> => \/ Head(pipe) = 0
                                        \/ Head(pipe) = -1 /\ Closed(conn[cfd1])
    BY DEF OnlyMixingBreaksPairs
  <2>1. Types /\ Pairs /\ Flags /\ Conns /\ Custody
    BY DEF ServerInv
  <2>2. cfd1 \in ConnFds /\ WithMaster(cfd1)
    BY <2>1 DEF Pairs, WithMaster
  <2>3. conn[cfd1] # NoClient /\ conn[cfd1] # Stdin /\ conn[cfd1] \in Clients \cup {Stdin, NoClient}
    BY <2>1, <2>2, Descriptors DEF Custody, Conns, Types
  <2>4. cfd1 \in Connected
    BY <2>2, <2>3, Descriptors DEF Connected, Open
  <2>5. ASSUME pipe # <<>>
        PROVE  Head(pipe) \in {0, -1} /\ (Head(pipe) = -1 => Closed(conn[cfd1]))
    <3>1. Head(pipe) = pipe[1] /\ 1 \in 1 .. Len(pipe)
      BY <2>1, <2>5, TailFacts DEF Types
    <3>2. pipe[1] \in {0, -1}
      BY <2>1, <3>1 DEF Pairs, HalfRead
    <3>3. pipe[1] = -1 => Gone(cfd1)
      BY <2>1, <3>1 DEF Flags, Before
    <3> QED BY <3>1, <3>2, <3>3 DEF Gone
  <2> QED BY <2>4, <2>5
<1> QED BY <1>1, ServerInvCorrect, PTL

(* main or a worker calls exit only after a kill or a signal, or when a    *)
(* pair has been mixed.                                                    *)
THEOREM ServerSurvives == Spec => []ServerSurvivesClients
<1>1. ServerInv => ServerSurvivesClients
  BY DEF ServerInv, ServerSurvivesClients
<1> QED BY <1>1, ServerInvCorrect, PTL
=============================================================================
