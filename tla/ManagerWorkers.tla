--------------------------- MODULE ManagerWorkers ---------------------------
(***************************************************************************)
(* lez11/es2.c, a server with a pool of nt workers, and its clients        *)
(* (lez11/client.c).  The master waits in select for the listening socket, *)
(* for the clients that nobody serves and for a pipe.  A client ready to   *)
(* be read leaves the master's set and enters the queue (coda); a worker   *)
(* takes it from there, serves one request and sends it back through the   *)
(* pipe with two writes, the descriptor and a flag that is -1 when the     *)
(* client has closed.                                                      *)
(*                                                                         *)
(* insertNode and removeNode run under lock_coda and are one step each; an *)
(* int is less than PIPE_BUF, so each write to the pipe is atomic.  The    *)
(* kernel delivers a signal sent to the process to its main thread.  The   *)
(* server's standard input is a terminal on which nobody types.            *)
(***************************************************************************)
EXTENDS Integers, Sequences, FiniteSets, FiniteSetsExt

CONSTANTS nt,           \* size of the pool, the argument of the server
          Clients,      \* client processes, each connects once
          Stdin,        \* what is open on descriptor 0 at first
          NoClient,     \* marks a descriptor that is not open
          MaxRequests,  \* bound: requests of all the clients
          Crashes,      \* whether clients may be killed
          Signals       \* whether a termination signal may come

ASSUME PoolAssumption == /\ nt \in Nat \ {0}
                         /\ {NoClient, Stdin} \cap Clients = {}
                         /\ Stdin # NoClient
                         /\ IsFiniteSet(Clients)
                         /\ MaxRequests \in Nat
                         /\ {Crashes, Signals} \subseteq BOOLEAN

(* Descriptors: 0..2 are the standard ones, pipe() and socket() come next. *)
(* accept may return 0 too, once the master has closed it by mistake.      *)
pip0 == 3
sfd == 5
Fds == 0 .. 5 + Cardinality(Clients)
ClientFds == {0} \cup {f \in Fds : f > sfd}

Workers == 1 .. nt

VARIABLES
    server,     \* "up", "ended" (main returned), "failed" (exit(EXIT_FAILURE))
    mpc,        \* the master: "select", "scan", "flag", "closing", "return"
    set, rdset, num_fd,     \* the master's fd sets and their maximum
    fd,         \* the next descriptor that the master's for loop tests
    cfd1,       \* the descriptor that the master has read from the pipe
    term,       \* the flag that the signal handler sets
    coda,       \* the queue from the master to the workers, oldest first
    pipe,       \* the ints in the pipe
    wpc, cfd, fine,         \* program counter and locals of each worker
    mixed,      \* history: a worker wrote between the two writes of another
    backlog,    \* connections not yet accepted
    conn,       \* the client behind each open descriptor of the server
    cpc,        \* program counter of each client
    sent,       \* requests sent so far
    toServer, toClient      \* messages on each connection not yet read

master == <<mpc, set, rdset, num_fd, fd, cfd1, term>>
workers == <<wpc, cfd, fine, mixed>>
clients == <<cpc, sent>>
sockets == <<backlog, conn, toServer, toClient>>
vars == <<server, master, coda, pipe, workers, clients, sockets>>

Init == /\ server = "up"
        /\ mpc = "select"
        /\ set = {sfd, pip0}
        /\ rdset = {}
        /\ num_fd = sfd
        /\ fd = 0
        /\ cfd1 = 0
        /\ term = 0
        /\ coda = <<>>
        /\ pipe = <<>>
        /\ wpc = [w \in Workers |-> "remove"]
        /\ cfd = [w \in Workers |-> 0]
        /\ fine = [w \in Workers |-> 0]
        /\ mixed = FALSE
        /\ backlog = <<>>
        /\ conn = [f \in ClientFds |-> IF f = 0 THEN Stdin ELSE NoClient]
        /\ cpc = [c \in Clients |-> "start"]
        /\ sent = 0
        /\ toServer = [c \in Clients |-> 0]
        /\ toClient = [c \in Clients |-> 0]

Open == {f \in ClientFds : conn[f] # NoClient}
Connected == {f \in Open : conn[f] \in Clients}
Closed(c) == cpc[c] \in {"closed", "killed"}
Served(c) == \E f \in Open : conn[f] = c

\* What select finds ready to be read; a closed peer counts as ready.
Ready == {f \in set : \/ f = sfd /\ backlog # <<>>
                      \/ f = pip0 /\ pipe # <<>>
                      \/ f \in Connected /\ (toServer[conn[f]] > 0 \/ Closed(conn[f]))}

\* exit(EXIT_FAILURE), from any thread.
Fail == server' = "failed"

-----------------------------------------------------------------------------
\* select returns when something is ready, or fails on a closed descriptor.
Select ==
    /\ server = "up" /\ mpc = "select"
    /\ IF set \subseteq Open \cup {pip0, sfd}
       THEN /\ rdset' = {f \in Ready : f <= num_fd}
            /\ rdset' # {}
            /\ fd' = 0
            /\ mpc' = "scan"
            /\ UNCHANGED server
       ELSE /\ Fail              \* EBADF
            /\ UNCHANGED <<mpc, rdset, fd>>
    /\ UNCHANGED <<set, num_fd, cfd1, term, coda, pipe, workers, clients, sockets>>

\* The next descriptor of the for loop that is in rdset, if there is one.
Remaining == {f \in rdset : fd <= f /\ f <= num_fd}
Found(f) == /\ server = "up" /\ mpc = "scan"
            /\ Remaining # {}
            /\ f = Min(Remaining)

EndScan ==
    /\ server = "up" /\ mpc = "scan"
    /\ Remaining = {}
    /\ mpc' = "select"
    /\ UNCHANGED <<server, set, rdset, num_fd, fd, cfd1, term, coda, pipe,
                   workers, clients, sockets>>

(* accept takes the lowest free descriptor; the welcome message cannot be  *)
(* written to a client that has already closed (EPIPE).                    *)
Accept ==
    /\ Found(sfd)
    /\ LET c == Head(backlog)
           new == Min(ClientFds \ Open)
       IN  /\ conn' = [conn EXCEPT ![new] = c]
           /\ set' = set \cup {new}
           /\ num_fd' = Max({num_fd, new})
           /\ IF Closed(c) THEN Fail /\ UNCHANGED toClient
              ELSE toClient' = [toClient EXCEPT ![c] = @ + 1] /\ UNCHANGED server
    /\ backlog' = Tail(backlog)
    /\ fd' = sfd + 1
    /\ UNCHANGED <<mpc, rdset, cfd1, term, coda, pipe, workers, clients, toServer>>

\* Fault: the client stays in the set.
EnqueueKeep ==
    /\ \E f \in Fds \ {sfd, pip0} :
          Found(f) /\ coda' = Append(coda, f) /\ fd' = f + 1
    /\ UNCHANGED <<server, mpc, set, rdset, num_fd, cfd1, term, pipe, workers,
                   clients, sockets>>

\* A client is ready: insertNode, FD_CLR.
Enqueue ==
    /\ \E f \in Fds \ {sfd, pip0} :
          /\ Found(f)
          /\ coda' = Append(coda, f)
          /\ set' = set \ {f}
          /\ fd' = f + 1
    /\ UNCHANGED <<server, mpc, rdset, num_fd, cfd1, term, pipe, workers,
                   clients, sockets>>

\* The first read of the pipe: a descriptor.
ReadPipeFd ==
    /\ Found(pip0)
    /\ cfd1' = Head(pipe)
    /\ pipe' = Tail(pipe)
    /\ mpc' = "flag"
    /\ fd' = pip0 + 1
    /\ UNCHANGED <<server, set, rdset, num_fd, term, coda, workers, clients, sockets>>

\* Fault: the search starts one too low.
updatemaxLow(s, fdmax) == Max({f \in s : f < fdmax - 1})

\* The largest descriptor of s below fdmax; s always has sfd.
updatemax(s, fdmax) == Max({f \in s : f < fdmax})

(* The second read: a flag.  The client is closed or goes back to the set. *)
(* (FD_SET and FD_CLR of a -1 touch a bit that is above num_fd.)           *)
ReadPipeFlag ==
    /\ server = "up" /\ mpc = "flag"
    /\ pipe # <<>>
    /\ pipe' = Tail(pipe)
    /\ IF Head(pipe) = -1
       THEN /\ set' = set \ {cfd1}
            /\ num_fd' = IF cfd1 = num_fd THEN updatemax(set', num_fd) ELSE num_fd
            /\ conn' = IF cfd1 \in ClientFds THEN [conn EXCEPT ![cfd1] = NoClient]
                                             ELSE conn
       ELSE /\ set' = set \cup ({cfd1} \cap Fds)
            /\ num_fd' = Max({num_fd, cfd1})
            /\ UNCHANGED conn
    /\ mpc' = "scan"
    /\ UNCHANGED <<server, rdset, fd, cfd1, term, coda, workers, clients,
                   backlog, toServer, toClient>>

(* A termination signal: the handler sets term.  If the master is blocked  *)
(* in select it leaves the loop; if it is blocked on the flag, the read    *)
(* fails (EINTR); otherwise, also just before it blocks, nothing happens.  *)
Signal ==
    /\ server = "up" /\ Signals /\ term = 0
    /\ term' = 1
    /\ \/ mpc = "select" /\ mpc' = "closing" /\ UNCHANGED server
       \/ mpc = "flag" /\ pipe = <<>> /\ Fail /\ UNCHANGED mpc
       \/ UNCHANGED <<mpc, server>>
    /\ UNCHANGED <<set, rdset, num_fd, fd, cfd1, coda, pipe, workers, clients,
                   sockets>>

\* After the loop: a -1 in the queue for each worker, and main returns.
Shutdown ==
    /\ server = "up" /\ mpc = "closing"
    /\ coda' = coda \o [k \in 1 .. nt |-> -1]
    /\ mpc' = "return"
    /\ UNCHANGED <<server, set, rdset, num_fd, fd, cfd1, term, pipe, workers,
                   clients, sockets>>

Return ==
    /\ server = "up" /\ mpc = "return"
    /\ server' = "ended"
    /\ UNCHANGED <<master, coda, pipe, workers, clients, sockets>>

Master == \/ Select \/ EndScan \/ Accept \/ Enqueue
          \/ ReadPipeFd \/ ReadPipeFlag \/ Shutdown \/ Return

-----------------------------------------------------------------------------
\* Fault: the rest of the list is lost with the node.
RemoveAll(w) ==
    /\ server = "up" /\ wpc[w] = "remove"
    /\ coda # <<>>
    /\ cfd' = [cfd EXCEPT ![w] = Head(coda)]
    /\ coda' = <<>>
    /\ wpc' = [wpc EXCEPT ![w] = IF Head(coda) = -1 THEN "closed" ELSE "serve"]
    /\ UNCHANGED <<server, master, pipe, fine, mixed, clients, sockets>>

\* removeNode; a -1 ends the worker.
Remove(w) ==
    /\ server = "up" /\ wpc[w] = "remove"
    /\ coda # <<>>
    /\ cfd' = [cfd EXCEPT ![w] = Head(coda)]
    /\ coda' = Tail(coda)
    /\ wpc' = [wpc EXCEPT ![w] = IF Head(coda) = -1 THEN "closed" ELSE "serve"]
    /\ UNCHANGED <<server, master, pipe, fine, mixed, clients, sockets>>

\* Fault: the end of file is not reported to the master.
ServeForever(w) ==
    /\ server = "up" /\ wpc[w] = "serve"
    /\ LET c == conn[cfd[w]]
       IN  \/ /\ toServer[c] > 0
              /\ toServer' = [toServer EXCEPT ![c] = @ - 1]
              /\ wpc' = [wpc EXCEPT ![w] = "reply"]
           \/ /\ toServer[c] = 0 /\ Closed(c)
              /\ wpc' = [wpc EXCEPT ![w] = "write_fd"]
              /\ UNCHANGED toServer
    /\ UNCHANGED <<server, master, coda, pipe, cfd, fine, mixed, clients, backlog,
                   conn, toClient>>

(* read(cfd, request, N) returns what the client has sent; if there is     *)
(* nothing and the client has closed, 0, or an error (ECONNRESET) when the *)
(* client left something unread; an error too if cfd is not open (EBADF).  *)
Serve(w) ==
    /\ server = "up" /\ wpc[w] = "serve"
    /\ LET c == conn[cfd[w]]
           request == cfd[w] \in Connected /\ toServer[c] > 0
           eof == cfd[w] \in Connected /\ toServer[c] = 0 /\ Closed(c)
           error == cfd[w] \notin Open \/ (eof /\ toClient[c] > 0)
       IN  \/ /\ request
              /\ toServer' = [toServer EXCEPT ![c] = @ - 1]
              /\ wpc' = [wpc EXCEPT ![w] = "reply"]
              /\ UNCHANGED <<server, fine>>
           \/ /\ eof /\ ~error
              /\ fine' = [fine EXCEPT ![w] = -1]
              /\ wpc' = [wpc EXCEPT ![w] = "write_fd"]
              /\ UNCHANGED <<server, toServer>>
           \/ /\ error
              /\ Fail
              /\ UNCHANGED <<wpc, fine, toServer>>
    /\ UNCHANGED <<master, coda, pipe, cfd, mixed, clients, backlog, conn, toClient>>

\* Fault: fine keeps what the worker told of its last client.
ReplyKeepsFlag(w) ==
    /\ server = "up" /\ wpc[w] = "reply"
    /\ IF cfd[w] \notin Connected \/ Closed(conn[cfd[w]])
       THEN Fail /\ UNCHANGED <<wpc, toClient>>
       ELSE /\ toClient' = [toClient EXCEPT ![conn[cfd[w]]] = @ + 1]
            /\ wpc' = [wpc EXCEPT ![w] = "write_fd"]
            /\ UNCHANGED server
    /\ UNCHANGED <<master, coda, pipe, cfd, fine, mixed, clients, backlog, conn, toServer>>

\* write(cfd, request, ...): EPIPE if the client has closed.
Reply(w) ==
    /\ server = "up" /\ wpc[w] = "reply"
    /\ IF cfd[w] \notin Connected \/ Closed(conn[cfd[w]])
       THEN Fail /\ UNCHANGED <<wpc, fine, toClient>>
       ELSE /\ toClient' = [toClient EXCEPT ![conn[cfd[w]]] = @ + 1]
            /\ fine' = [fine EXCEPT ![w] = 0]
            /\ wpc' = [wpc EXCEPT ![w] = "write_fd"]
            /\ UNCHANGED server
    /\ UNCHANGED <<master, coda, pipe, cfd, mixed, clients, backlog, conn, toServer>>

\* Nothing locks the pipe: another worker may be between its two writes.
Mixes(w) == mixed \/ \E v \in Workers \ {w} : wpc[v] = "write_flag"

\* The two writes that give the client back.
WriteFd(w) ==
    /\ server = "up" /\ wpc[w] = "write_fd"
    /\ pipe' = Append(pipe, cfd[w])
    /\ mixed' = Mixes(w)
    /\ wpc' = [wpc EXCEPT ![w] = "write_flag"]
    /\ UNCHANGED <<server, master, coda, cfd, fine, clients, sockets>>

WriteFlag(w) ==
    /\ server = "up" /\ wpc[w] = "write_flag"
    /\ pipe' = Append(pipe, fine[w])
    /\ wpc' = [wpc EXCEPT ![w] = "remove"]
    /\ UNCHANGED <<server, master, coda, cfd, fine, mixed, clients, sockets>>

Worker(w) == \/ Remove(w) \/ Serve(w) \/ Reply(w)
             \/ WriteFd(w) \/ WriteFlag(w)

-----------------------------------------------------------------------------
Goto(c, where) == cpc' = [cpc EXCEPT ![c] = where]

\* connect succeeds as soon as the connection is in the backlog.
Connect(c) ==
    /\ cpc[c] = "start" /\ server = "up"
    /\ Goto(c, "welcome")
    /\ backlog' = Append(backlog, c)
    /\ UNCHANGED <<server, master, coda, pipe, workers, sent, conn, toServer, toClient>>

\* The welcome message, or the answer to a request, is read.
Receive(c) ==
    /\ cpc[c] \in {"welcome", "sent"}
    /\ toClient[c] > 0
    /\ toClient' = [toClient EXCEPT ![c] = @ - 1]
    /\ Goto(c, "prompt")
    /\ UNCHANGED <<server, master, coda, pipe, workers, sent, backlog, conn, toServer>>

Request(c) ==
    /\ cpc[c] = "prompt" /\ server = "up"
    /\ sent < MaxRequests
    /\ sent' = sent + 1
    /\ toServer' = [toServer EXCEPT ![c] = @ + 1]
    /\ Goto(c, "sent")
    /\ UNCHANGED <<server, master, coda, pipe, workers, backlog, conn, toClient>>

\* Fault: the client quits without waiting for its answer.
QuitEarly(c) ==
    /\ cpc[c] \in {"prompt", "sent"}
    /\ Goto(c, "closed")
    /\ UNCHANGED <<server, master, coda, pipe, workers, sent, sockets>>

\* "quit" ends the loop, and nothing is sent; close(sc).
Quit(c) ==
    /\ cpc[c] = "prompt"
    /\ Goto(c, "closed")
    /\ UNCHANGED <<server, master, coda, pipe, workers, sent, sockets>>

\* The client is killed.
Crash(c) ==
    /\ Crashes
    /\ cpc[c] \in {"welcome", "prompt", "sent"}
    /\ Goto(c, "killed")
    /\ UNCHANGED <<server, master, coda, pipe, workers, sent, sockets>>

(* The server is gone: the write after an end of file kills the client;    *)
(* connect is refused, or is tried again for ever if main has removed the  *)
(* socket file.                                                            *)
ServerGone(c) ==
    /\ server # "up"
    /\ ~Closed(c)
    /\ cpc[c] = "start" => server = "failed"
    /\ Goto(c, "closed")
    /\ UNCHANGED <<server, master, coda, pipe, workers, sent, sockets>>

Client(c) == \/ Connect(c) \/ Receive(c) \/ Request(c) \/ Quit(c)
             \/ Crash(c) \/ ServerGone(c)

\* The clients are gone and the server, if up, waits in select.
AtRest ==
    /\ \A c \in Clients : Closed(c) \/ (cpc[c] = "start" /\ server = "ended")
    /\ server = "up" => /\ mpc = "select" /\ Ready = {} /\ coda = <<>>
                        /\ \A w \in Workers : wpc[w] = "remove"
    /\ UNCHANGED vars

Next == \/ Master
        \/ Signal
        \/ \E w \in Workers : Worker(w)
        \/ \E c \in Clients : Client(c)
        \/ AtRest

(* The threads of the server run as long as they are not blocked, and so   *)
(* does the read of a client; a user need not type anything.               *)
Fairness == /\ WF_vars(Master)
            /\ \A w \in Workers : WF_vars(Worker(w))
            /\ \A c \in Clients : WF_vars(Receive(c))

Spec == Init /\ [][Next]_vars /\ Fairness
-----------------------------------------------------------------------------
TypeOK ==
    /\ server \in {"up", "ended", "failed"}
    /\ mpc \in {"select", "scan", "flag", "closing", "return"}
    /\ set \subseteq Fds /\ rdset \subseteq Fds
    /\ num_fd \in Fds /\ fd \in 0 .. Max(Fds) + 1
    /\ cfd1 \in Fds \cup {-1}
    /\ term \in {0, 1}
    /\ \A k \in 1 .. Len(coda) : coda[k] \in Fds \cup {-1}
    /\ \A k \in 1 .. Len(pipe) : pipe[k] \in Fds \cup {-1}
    /\ wpc \in [Workers -> {"remove", "serve", "reply", "write_fd",
                            "write_flag", "closed"}]
    /\ cfd \in [Workers -> Fds \cup {-1}]
    /\ fine \in [Workers -> {0, -1}]
    /\ mixed \in BOOLEAN
    /\ \A k \in 1 .. Len(backlog) : backlog[k] \in Clients
    /\ conn \in [ClientFds -> Clients \cup {Stdin, NoClient}]
    /\ cpc \in [Clients -> {"start", "welcome", "prompt", "sent", "closed",
                      "killed"}]
    /\ sent \in 0 .. MaxRequests
    /\ toServer \in [Clients -> {0, 1}]
    /\ toClient \in [Clients -> {0, 1}]

Count(f, seq) == Cardinality({k \in 1 .. Len(seq) : seq[k] = f})

\* The places where the responsibility for a descriptor can be.
Owners(f) ==
    Cardinality({f} \cap set)
    + Count(f, coda)
    + Cardinality({w \in Workers : /\ cfd[w] = f
                                   /\ wpc[w] \in {"serve", "reply", "write_fd"}})
    + Count(f, pipe)
    + (IF mpc = "flag" /\ cfd1 = f THEN 1 ELSE 0)

(* At every moment each connected client is in the care of exactly one:    *)
(* the select set, the queue, a worker, the pipe or the master that has    *)
(* just read the pipe; a closed descriptor is nowhere.  Without the FD_CLR *)
(* at line 170 ("BUG RISOLTO") a client is queued many times.  It holds    *)
(* until a worker writes between the two writes of another.  Types too.    *)
OneOwner ==
    /\ ~mixed => TypeOK
    /\ server = "up" /\ ~mixed => \A f \in ClientFds \ {0} :
                                    Owners(f) = IF f \in Open THEN 1 ELSE 0

(* num_fd, which select and the scan use as a bound, covers the set, and   *)
(* the set has open descriptors only, also after closing the largest one   *)
(* while others are in the hands of the workers; until a pair is mixed.    *)
SelectSetSound ==
    server = "up" /\ ~mixed => /\ \A f \in set : f <= num_fd
                               /\ set \subseteq Connected \cup {pip0, sfd}

(* What the master reads from the pipe are the pairs that the workers      *)
(* write: the descriptor of a client, then its flag.                       *)
MasterReadsPairs ==
    mpc = "flag" => /\ cfd1 \in Open
                    /\ pipe # <<>> => Head(pipe) \in {0, -1}

(* What goes wrong in the pipe goes wrong in one way only, a worker that   *)
(* writes between the two writes of another: otherwise, however the        *)
(* workers take turns, the master reads a descriptor and then the flag     *)
(* that belongs to it, and closes no client that has not gone.             *)
OnlyMixingBreaksPairs ==
    mpc = "flag" /\ ~mixed =>
        /\ cfd1 \in Connected
        /\ pipe # <<>> => \/ Head(pipe) = 0
                          \/ Head(pipe) = -1 /\ Closed(conn[cfd1])

(* The server does not die because of clients that behave, however their   *)
(* requests, answers and ends cross: main or a worker calls exit only when *)
(* a client has been killed, a signal has come or a pair has been mixed.   *)
(* (It does die then, with EPIPE, EINTR or EBADF, although SIGPIPE is      *)
(* ignored at line 64.)                                                    *)
ServerSurvivesClients ==
    server = "failed" => term = 1 \/ mixed \/ \E c \in Clients : cpc[c] = "killed"

(* Every request is answered as long as the server is up and no pair has   *)
(* been mixed: a client is never forgotten between the queue, the pool,    *)
(* the pipe and the set.                                                   *)
RequestIsAnswered ==
    \A c \in Clients : cpc[c] = "sent" ~> cpc[c] # "sent" \/ server # "up" \/ mixed

(* When a client closes, the server closes its descriptor, whatever else   *)
(* is in the queue and in the pipe, unless a pair is mixed.                *)
DescriptorIsClosed ==
    \A c \in Clients :
        Served(c) /\ Closed(c) ~> ~Served(c) \/ server # "up" \/ mixed
=============================================================================
