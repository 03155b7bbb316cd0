--------------------------- MODULE SocketServers ---------------------------
(***************************************************************************)
(* The servers on a socket that make a thread for each client              *)
(* (lez9/server2.c, lez10/es3.c, lez9/es9/toup_server.c), that have a pool *)
(* of threads (lez11/es1.c), that wait in a select (lez9/server3.c,        *)
(* es9/toup_server_select.c) or that serve one client at a time            *)
(* (es9/bcserver.c, whose cmd makes two pipes and a bc for each request,   *)
(* and bcserver_v2.c, which leaves the connection to a bc).  Of cmd there  *)
(* is what a client sees; the ends of its pipes are modelled in Pipes.     *)
(*                                                                         *)
(* server2.c and es3.c give a thread the address of main's cfd and close a *)
(* connection twice, so that a thread may use the descriptor of another;   *)
(* a read that has begun goes on with the connection it began with.        *)
(* insertNode and removeNode run under lock_coda and are one step each.    *)
(***************************************************************************)
EXTENDS Sockets

PerClient == program \in {"server2", "es3"}
Select == program \in {"server3", "toup_server_select"}
OneByOne == program \in {"bcserver", "bcserver_v2"}

Init ==
    /\ InitClients
    /\ program \in Programs
    /\ server = "up" /\ listening = TRUE
    /\ mpc = (IF Select THEN "select" ELSE "loop")
    /\ cfd = 0 /\ term = 0
    /\ set = {sfd} /\ rdset = {} /\ fdmax = sfd /\ i = 0
    /\ coda = <<>>
    /\ tpc = [t \in Threads |-> IF program = "es1" /\ t <= nt THEN "take" ELSE "none"]
    /\ fd = [t \in Threads |-> 0]
    /\ on = [t \in Threads |-> NoClient]
    /\ req = [t \in Threads |-> NoClient]
    /\ left = [t \in Threads |-> 0]
    /\ raced = FALSE
    /\ room \in IF program = "bcserver" THEN Rooms ELSE {0}

\* perror and exit(EXIT_FAILURE), from any thread, or a SIGPIPE.
Fail == server' = "failed"
Now(t, where) == tpc' = [tpc EXCEPT ![t] = where]

-----------------------------------------------------------------------------
\* main goes into accept; es3's signal thread may have closed sfd.
CallAccept ==
    /\ server = "up" /\ mpc = "loop"
    /\ IF listening THEN mpc' = "accept" /\ UNCHANGED server
                    ELSE Fail /\ UNCHANGED mpc
    /\ UNCHANGED <<program, listening, cfd, term, selects, coda, threads, net, clients>>

\* accept takes the lowest free descriptor.
Accept ==
    /\ server = "up" /\ mpc = "accept"
    /\ backlog # <<>>
    /\ cfd' = Lowest
    /\ conn' = [conn EXCEPT ![Lowest] = Head(backlog)]
    /\ backlog' = Tail(backlog)
    /\ mpc' = IF Text THEN "welcome" ELSE "hand"
    /\ UNCHANGED <<program, server, listening, term, selects, coda, threads,
                   toServer, toClient, clients>>

\* The welcome message cannot be written to a client that is gone (EPIPE).
Welcome ==
    /\ server = "up" /\ mpc = "welcome"
    /\ LET c == conn[cfd]
       IN  IF cfd \notin Open \/ Closed(c)
           THEN Fail /\ UNCHANGED <<mpc, toClient>>
           ELSE /\ toClient' = [toClient EXCEPT ![c] = Append(@, "welcome")]
                /\ mpc' = "hand"
                /\ UNCHANGED server
    /\ UNCHANGED <<program, listening, cfd, term, selects, coda, threads,
                   backlog, conn, toServer, clients>>

(* pthread_create, with the address of cfd or with its value; a new thread *)
(* may find in its buffer what another one left on the stack.  A main that *)
(* serves one client at a time is thread 1 itself, or waits for its child. *)
Spawn ==
    /\ server = "up" /\ mpc = "hand"
    /\ \E t \in Threads :
          /\ tpc[t] = "none" /\ \A u \in Threads : u < t => tpc[u] # "none"
          /\ Now(t, IF PerClient THEN "start" ELSE IF Direct THEN "bc" ELSE "len")
          /\ fd' = [fd EXCEPT ![t] = cfd]
          /\ left' = [left EXCEPT ![t] = Units]
    /\ mpc' = IF OneByOne THEN "serve" ELSE "loop"
    /\ UNCHANGED <<program, server, listening, cfd, term, selects, coda, on, req,
                   raced, room, net, clients>>

\* es1.c: insertNode.
InsertNode ==
    /\ server = "up" /\ mpc = "hand"
    /\ coda' = Append(coda, cfd)
    /\ mpc' = "loop"
    /\ UNCHANGED <<program, server, listening, cfd, term, selects, threads, net, clients>>

(* server2.c, es1.c: a termination signal.  The handler sets term, and     *)
(* accept fails if main is blocked there; otherwise nothing happens, also  *)
(* just before main blocks.                                                *)
Signal ==
    /\ server = "up" /\ Signals /\ term = 0
    /\ term' = 1
    /\ IF mpc = "accept" THEN mpc' = "closing" /\ cfd' = -1 ELSE UNCHANGED <<mpc, cfd>>
    /\ UNCHANGED <<program, server, listening, selects, coda, threads, net, clients>>

\* es3.c: a thread waits for the signal, closes sfd and removes its file.
CloseListening ==
    /\ server = "up" /\ Signals /\ listening
    /\ listening' = FALSE
    /\ UNCHANGED <<program, server, mpc, cfd, term, selects, coda, threads, net, clients>>

\* And calls exit(EXIT_SUCCESS).
ExitSuccess ==
    /\ server = "up" /\ ~listening
    /\ server' = "ended"
    /\ UNCHANGED <<program, main, selects, coda, threads, net, clients>>

(* After the loop: es1.c queues a -1 for each worker; sfd is closed and    *)
(* the socket file removed.                                                *)
Closing ==
    /\ server = "up" /\ mpc = "closing"
    /\ coda' = IF program = "es1" THEN coda \o [k \in 1 .. nt |-> -1] ELSE coda
    /\ listening' = FALSE
    /\ mpc' = "return"
    /\ UNCHANGED <<program, server, cfd, term, selects, threads, net, clients>>

\* main returns, and joins nobody.
Return ==
    /\ server = "up" /\ mpc = "return"
    /\ server' = "ended"
    /\ UNCHANGED <<program, main, selects, coda, threads, net, clients>>

-----------------------------------------------------------------------------
(* What select finds ready to be read; a closed peer counts as ready.      *)
Ready == {f \in set : \/ f = sfd /\ backlog # <<>>
                      \/ f \in Open /\ (toServer[conn[f]] # <<>> \/ Closed(conn[f]))}

CallSelect ==
    /\ server = "up" /\ mpc = "select"
    /\ IF set \subseteq Open \cup {sfd}
       THEN /\ rdset' = {f \in Ready : f <= fdmax}
            /\ rdset' # {}
            /\ i' = 0
            /\ mpc' = "scan"
            /\ UNCHANGED server
       ELSE Fail /\ UNCHANGED <<mpc, rdset, i>>         \* EBADF
    /\ UNCHANGED <<program, listening, cfd, term, set, fdmax, coda, threads, net, clients>>

\* The next descriptor of the for loop that is in rdset.
Remaining == {f \in rdset : i <= f /\ f <= fdmax}
Found(f) == /\ server = "up" /\ mpc = "scan"
            /\ Remaining # {}
            /\ f = Min(Remaining)

EndScan ==
    /\ server = "up" /\ mpc = "scan"
    /\ Remaining = {}
    /\ mpc' = "select"
    /\ UNCHANGED <<program, server, listening, cfd, term, selects, coda, threads,
                   net, clients>>

\* A new client; server3.c writes the welcome message at once.
AcceptSelected ==
    /\ Found(sfd)
    /\ LET c == Head(backlog)
       IN  /\ conn' = [conn EXCEPT ![Lowest] = c]
           /\ IF Text /\ Closed(c)
              THEN Fail /\ UNCHANGED toClient
              ELSE /\ UNCHANGED server
                   /\ toClient' = IF Text THEN [toClient EXCEPT ![c] = Append(@, "welcome")]
                                  ELSE toClient
    /\ set' = set \cup {Lowest}
    /\ fdmax' = Max({fdmax, Lowest})
    /\ backlog' = Tail(backlog)
    /\ i' = sfd + 1
    /\ UNCHANGED <<program, main, rdset, coda, threads, toServer, clients>>

\* A client is ready: main serves one request of it.
ServeSelected ==
    /\ \E f \in Fds \ {sfd} :
          /\ Found(f)
          /\ i' = f + 1
          /\ fd' = [fd EXCEPT ![1] = f]
    /\ Now(1, IF Text THEN "read" ELSE "len")
    /\ left' = [left EXCEPT ![1] = Units]
    /\ mpc' = "serve"
    /\ UNCHANGED <<program, server, listening, cfd, term, set, rdset, fdmax, coda,
                   on, req, raced, room, net, clients>>

\* The largest descriptor of s below m; s always has sfd.
updatemax(s, m) == Max({f \in s : f < m})

(* The main of each server; a main that serves clients itself goes on with *)
(* the steps of thread 1.                                                  *)
server2_main == program = "server2" /\ (\/ CallAccept \/ Accept \/ Welcome \/ Spawn
                                        \/ Closing \/ Return)
es3_main == program = "es3" /\ (CallAccept \/ Accept \/ Welcome \/ Spawn)
es1_main == program = "es1" /\ (\/ CallAccept \/ Accept \/ Welcome \/ InsertNode
                                \/ Closing \/ Return)
toup_main == program = "toup_server" /\ (CallAccept \/ Accept \/ Spawn)
bcserver_main == program = "bcserver" /\ (CallAccept \/ Accept \/ Spawn)
bcserver_v2_main == program = "bcserver_v2" /\ (CallAccept \/ Accept \/ Spawn)
server3_main == program = "server3" /\ (\/ CallSelect \/ EndScan
                                        \/ AcceptSelected \/ ServeSelected)
select_main == program = "toup_server_select" /\ (\/ CallSelect \/ EndScan
                                                  \/ AcceptSelected \/ ServeSelected)

Main == \/ server2_main \/ es3_main \/ es1_main \/ toup_main \/ bcserver_main
        \/ bcserver_v2_main \/ server3_main \/ select_main

(* Signals come to programs that handle them: the kernel delivers one sent *)
(* to the process to its main thread, or to the thread that waits for it.  *)
Handler == \/ program \in {"server2", "es1"} /\ Signal
           \/ program = "es3" /\ (CloseListening \/ ExitSuccess)

-----------------------------------------------------------------------------
\* A new thread reads main's cfd through its address.
Start(t) ==
    /\ server = "up" /\ tpc[t] = "start"
    /\ fd' = [fd EXCEPT ![t] = cfd]
    /\ raced' = (raced \/ cfd # fd[t])
    /\ Now(t, "read")
    /\ UNCHANGED <<program, server, main, selects, coda, on, req, left, room, net,
                   clients>>

\* es1.c: removeNode; a -1 ends the worker.
RemoveNode(t) ==
    /\ server = "up" /\ tpc[t] = "take"
    /\ coda # <<>>
    /\ fd' = [fd EXCEPT ![t] = Head(coda)]
    /\ coda' = Tail(coda)
    /\ Now(t, IF Head(coda) = -1 THEN "done" ELSE "read")
    /\ UNCHANGED <<program, server, main, selects, on, req, left, raced, room,
                   net, clients>>

\* read begins: fd has to be open (EBADF).
CallRead(t) ==
    /\ server = "up" /\ tpc[t] = "read"
    /\ IF fd[t] \in Open
       THEN /\ on' = [on EXCEPT ![t] = conn[fd[t]]]
            /\ Now(t, "blocked")
            /\ UNCHANGED server
       ELSE Fail /\ UNCHANGED <<on, tpc>>
    /\ UNCHANGED <<program, main, selects, coda, fd, req, left, raced, room,
                   net, clients>>

\* An end of file, or an error if the client left something unread.
Eof(c) == toServer[c] = <<>> /\ Closed(c)
Reset(c) == Eof(c) /\ toClient[c] # <<>>

(* read returns a text, or 0: that is not tested, and what is in the       *)
(* buffer is taken for a request again; it can be anything at first.       *)
ReadReturns(t) ==
    /\ server = "up" /\ tpc[t] = "blocked"
    /\ LET c == on[t]
       IN  \/ /\ toServer[c] # <<>>
              /\ toServer' = [toServer EXCEPT ![c] = Tail(@)]
              /\ IF Head(toServer[c]) = "quit"
                 THEN req' = [req EXCEPT ![t] = "quit"] /\ Now(t, "quit")
                 ELSE req' = [req EXCEPT ![t] = c] /\ Now(t, "reply")
              /\ UNCHANGED server
           \/ /\ Eof(c) /\ ~Reset(c)
              /\ \/ req[t] \in {"quit", NoClient} /\ Now(t, "quit")
                 \/ req[t] # "quit" /\ Now(t, "reply")
              /\ UNCHANGED <<server, req, toServer>>
           \/ /\ Reset(c)
              /\ Fail
              /\ UNCHANGED <<tpc, req, toServer>>
    /\ UNCHANGED <<program, main, selects, coda, fd, on, left, raced, room, backlog,
                   conn, toClient, clients>>

\* Where a thread goes on when it has answered.
Continue(t) ==
    /\ Now(t, IF Select THEN "done" ELSE IF Text THEN "read" ELSE "len")
    /\ mpc' = IF Select THEN "scan" ELSE mpc

\* Fault: the answer is not sent.
ReplyNothing(t) ==
    /\ server = "up" /\ tpc[t] = "reply"
    /\ Continue(t)
    /\ UNCHANGED <<program, server, listening, cfd, term, selects, coda, fd, on,
                   req, left, raced, room, net, clients>>

\* The answer is written: EPIPE, or SIGPIPE, if the client is gone.
Reply(t) ==
    /\ server = "up" /\ tpc[t] = "reply"
    /\ LET c == conn[fd[t]]
       IN  IF fd[t] \notin Open \/ Closed(c)
           THEN Fail /\ UNCHANGED <<tpc, mpc, toClient>>
           ELSE /\ toClient' = [toClient EXCEPT ![c] = Append(@, req[t])]
                /\ Continue(t)
                /\ UNCHANGED server
    /\ UNCHANGED <<program, listening, cfd, term, selects, coda, fd, on, req, left,
                   raced, room, backlog, conn, toServer, clients>>

\* The descriptor f is closed by a main with select, which forgets it.
Forget(f) ==
    IF Select
    THEN /\ set' = set \ {f}
         /\ fdmax' = IF f = fdmax THEN updatemax(set', fdmax) ELSE fdmax
         /\ mpc' = "scan"
    ELSE UNCHANGED <<set, fdmax, mpc>>

\* Fault: after a "quit" the worker keeps its client.
CloseAndKeep(t) ==
    /\ server = "up" /\ tpc[t] = "quit"
    /\ conn' = [conn EXCEPT ![fd[t]] = NoClient]
    /\ Forget(fd[t])
    /\ Now(t, IF PerClient THEN "close" ELSE IF Select THEN "done" ELSE "read")
    /\ UNCHANGED <<program, server, listening, cfd, term, rdset, i, coda, fd, on,
                   req, left, raced, room, backlog, toServer, toClient, clients>>

\* "quit": the connection is closed.
CloseQuit(t) ==
    /\ server = "up" /\ tpc[t] = "quit"
    /\ conn' = [conn EXCEPT ![fd[t]] = NoClient]
    /\ Forget(fd[t])
    /\ Now(t, IF PerClient THEN "close" ELSE IF program = "es1" THEN "take" ELSE "done")
    /\ UNCHANGED <<program, server, listening, cfd, term, rdset, i, coda, fd, on,
                   req, left, raced, room, backlog, toServer, toClient, clients>>

\* server2.c, es3.c: and closed again, after the loop.
CloseAgain(t) ==
    /\ server = "up" /\ tpc[t] = "close"
    /\ raced' = (raced \/ fd[t] \in Open)
    /\ conn' = [conn EXCEPT ![fd[t]] = NoClient]
    /\ Now(t, "done")
    /\ UNCHANGED <<program, server, main, selects, coda, fd, on, req, left, room,
                   backlog, toServer, toClient, clients>>

-----------------------------------------------------------------------------
\* Fault: a short read or write is taken for the whole item.
PassedShort(t, n, next) == Now(t, next) /\ left' = [left EXCEPT ![t] = Units]

\* n units of the item at hand have passed; the last one ends its loop.
Passed(t, n, next) ==
    IF n = left[t] THEN Now(t, next) /\ left' = [left EXCEPT ![t] = Units]
                   ELSE left' = [left EXCEPT ![t] = @ - n] /\ UNCHANGED tpc

\* Fault: toup_server.c does not test for the end of file in the length.
IgnoresBoth(t) == \/ program = "toup_server"
                  \/ program = "bcserver" /\ tpc[t] = "len"

\* The end of file that readn reports is not tested after both calls.
IgnoresEof(t) == \/ program = "toup_server" /\ tpc[t] = "body"
                 \/ program = "bcserver" /\ tpc[t] = "len"

\* A read of readn; an error ends the servers without select.
Readn(t) ==
    /\ server = "up" /\ tpc[t] \in {"len", "body"}
    /\ LET c == conn[fd[t]]
           next == IF tpc[t] = "len" THEN "body"
                   ELSE IF program = "bcserver" THEN "pipe" ELSE "wlen"
       IN  \/ /\ \E n \in 1 .. Min({left[t], Len(toServer[c])}) :
                    /\ toServer' = [toServer EXCEPT ![c] = Drop(n, @)]
                    /\ Passed(t, n, next)
              /\ UNCHANGED server
           \/ /\ Eof(c) /\ (~Reset(c) \/ Select)
              /\ Now(t, IF IgnoresEof(t) THEN next ELSE "close")
              /\ left' = [left EXCEPT ![t] = Units]
              /\ UNCHANGED <<server, toServer>>
           \/ /\ Reset(c) /\ ~Select
              /\ Fail
              /\ UNCHANGED <<tpc, left, toServer>>
    /\ UNCHANGED <<program, main, selects, coda, fd, on, req, raced, room, backlog,
                   conn, toClient, clients>>

\* A write of writen: SIGPIPE if the client is gone.
Writen(t) ==
    /\ server = "up" /\ tpc[t] \in {"wlen", "wbody"}
    /\ LET c == conn[fd[t]]
           unit == IF tpc[t] = "wlen" THEN "len" ELSE c
       IN  IF Closed(c)
           THEN Fail /\ UNCHANGED <<tpc, left, mpc, toClient>>
           ELSE /\ \E n \in 1 .. left[t] :
                      /\ toClient' = [toClient EXCEPT ![c] = @ \o [k \in 1 .. n |-> unit]]
                      /\ IF n = left[t] /\ tpc[t] = "wbody"
                         THEN Continue(t) /\ left' = [left EXCEPT ![t] = Units]
                         ELSE Passed(t, n, "wbody") /\ UNCHANGED mpc
                /\ UNCHANGED server
    /\ UNCHANGED <<program, listening, cfd, term, selects, coda, fd, on, req,
                   raced, room, backlog, conn, toServer, clients>>

(* cmd of bcserver.c makes two pipes, which fails without four free        *)
(* descriptors, and a child that becomes bc; of the four, the end from     *)
(* which it reads what bc prints is never closed.                          *)
CallPipe(t) ==
    /\ server = "up" /\ tpc[t] = "pipe"
    /\ IF room < 4
       THEN Fail /\ UNCHANGED <<tpc, room>>
       ELSE Now(t, "calc") /\ room' = room - 1 /\ UNCHANGED server
    /\ UNCHANGED <<program, main, selects, coda, fd, on, req, left, raced, net, clients>>

\* What bc prints is read; if it prints nothing, for ever.
Calculate(t) ==
    /\ server = "up" /\ tpc[t] = "calc"
    /\ Now(t, "wlen") \/ Now(t, "silent")
    /\ UNCHANGED <<program, server, main, selects, coda, fd, on, req, left, raced, room,
                   net, clients>>

\* Fault: main goes on to the next client without closing this one.
ForgetClose(t) ==
    /\ server = "up" /\ tpc[t] = "close"
    /\ IF OneByOne THEN mpc' = "loop" /\ UNCHANGED <<set, fdmax>>
                   ELSE Forget(fd[t])
    /\ Now(t, IF OneByOne THEN "none" ELSE "done")
    /\ UNCHANGED <<program, server, listening, cfd, term, rdset, i, coda, fd, on,
                   req, left, raced, room, net, clients>>

\* The client is gone: close, and main accepts or scans again.
CloseClient(t) ==
    /\ server = "up" /\ tpc[t] = "close"
    /\ conn' = [conn EXCEPT ![fd[t]] = NoClient]
    /\ IF OneByOne THEN mpc' = "loop" /\ UNCHANGED <<set, fdmax>>
                   ELSE Forget(fd[t])
    /\ Now(t, IF OneByOne THEN "none" ELSE "done")
    /\ UNCHANGED <<program, server, listening, cfd, term, rdset, i, coda, fd, on,
                   req, left, raced, room, backlog, toServer, toClient, clients>>

(* bcserver_v2.c: bc reads a line from the connection and prints nothing,   *)
(* or something in one or two writes; it ends at an end of file or on an   *)
(* error, also of its output (SIGPIPE), and main, which waits, goes on.     *)
bc(t) ==
    /\ server = "up" /\ tpc[t] = "bc"
    /\ LET c == conn[fd[t]]
       IN  \/ /\ toServer[c] # <<>>
              /\ toServer' = [toServer EXCEPT ![c] = Tail(@)]
              /\ \/ req' = [req EXCEPT ![t] = NoClient] /\ UNCHANGED <<tpc, toClient>>
                 \/ /\ req' = [req EXCEPT ![t] = c]
                    /\ IF Closed(c)
                       THEN Now(t, "close") /\ UNCHANGED toClient
                       ELSE /\ \E n \in 1 .. 2 :
                                  toClient' = [toClient EXCEPT ![c] = @ \o [k \in 1 .. n |-> c]]
                            /\ UNCHANGED tpc
           \/ /\ Eof(c)
              /\ Now(t, "close")
              /\ UNCHANGED <<req, toServer, toClient>>
    /\ UNCHANGED <<program, server, main, selects, coda, fd, on, left, raced, room,
                   backlog, conn, clients>>

\* What serves a client: the thread, the worker, or main itself.
ServeText(t) == CallRead(t) \/ ReadReturns(t) \/ Reply(t) \/ CloseQuit(t)
ServeFrames(t) == Readn(t) \/ Writen(t) \/ CloseClient(t)

server2_thread(t) == program = "server2" /\ (Start(t) \/ ServeText(t) \/ CloseAgain(t))
es3_thread(t) == program = "es3" /\ (Start(t) \/ ServeText(t) \/ CloseAgain(t))
worker(t) == program = "es1" /\ (RemoveNode(t) \/ ServeText(t))
server3_serve(t) == program = "server3" /\ ServeText(t)
threadF(t) == program = "toup_server" /\ ServeFrames(t)
cmd(t) == program = "toup_server_select" /\ ServeFrames(t)
bcserver_serve(t) == program = "bcserver" /\ (\/ ServeFrames(t) \/ CallPipe(t)
                                              \/ Calculate(t))
bcserver_v2_cmd(t) == program = "bcserver_v2" /\ (bc(t) \/ CloseClient(t))

Thread(t) == \/ server2_thread(t) \/ es3_thread(t) \/ worker(t) \/ server3_serve(t)
             \/ threadF(t) \/ cmd(t) \/ bcserver_serve(t) \/ bcserver_v2_cmd(t)

-----------------------------------------------------------------------------
\* The clients are gone, and the server, if up, waits for others, or for its bc.
AtRest ==
    /\ \A c \in Clients : Closed(c) \/ Retries(c)
    /\ server = "up" => \/ /\ mpc = "accept" \/ (mpc = "select" /\ Ready = {})
                           /\ backlog = <<>> /\ coda = <<>>
                           /\ \A t \in Threads : tpc[t] \in {"none", "take", "done"}
                        \/ tpc[1] = "silent"
    /\ UNCHANGED vars

Next == \/ Main
        \/ Handler
        \/ \E t \in Threads : Thread(t)
        \/ \E c \in Clients : Client(c)
        \/ ServerGone
        \/ AtRest

(* The threads of a server run as long as they are not blocked, and so     *)
(* does a client inside readn, writen or read; a user need not type.       *)
Fairness == /\ WF_vars(Main)
            /\ \A t \in Threads : WF_vars(Thread(t))
            /\ \A c \in Clients : WF_vars(Receive(c) \/ Send(c) \/ Read(c))

Spec == Init /\ [][Next]_vars /\ Fairness
-----------------------------------------------------------------------------
TypeOK ==
    /\ program \in Programs
    /\ server \in {"up", "ended", "failed"}
    /\ {listening, raced} \subseteq BOOLEAN
    /\ mpc \in {"loop", "accept", "welcome", "hand", "serve", "closing", "return",
                "select", "scan"}
    /\ cfd \in Fds \cup {-1} /\ term \in {0, 1}
    /\ set \subseteq Fds /\ rdset \subseteq Fds /\ fdmax \in Fds
    /\ i \in 0 .. Max(Fds) + 1
    /\ \A k \in 1 .. Len(coda) : coda[k] \in Fds \cup {-1}
    /\ tpc \in [Threads -> {"none", "start", "take", "read", "blocked", "reply", "quit",
                           "close", "len", "body", "pipe", "calc", "silent", "wlen",
                           "wbody", "bc", "done"}]
    /\ fd \in [Threads -> Fds \cup {-1}]
    /\ on \in [Threads -> Clients \cup {NoClient}]
    /\ req \in [Threads -> Clients \cup {NoClient, "quit"}]
    /\ left \in [Threads -> 0 .. Units]
    /\ room \in Nat
    /\ conn \in [Fds -> Clients \cup {NoClient}]
    /\ cpc \in [Clients -> Gone \cup {"start", "welcome", "prompt", "answer", "len",
                                     "body", "rlen", "rbody"}]
    /\ cleft \in [Clients -> 0 .. Units]
    /\ sent \in 0 .. MaxRequests

Serving(t) == \/ tpc[t] \in {"start", "read", "blocked", "reply", "quit", "len", "body",
                            "pipe", "calc", "silent", "wlen", "wbody", "bc"}
              \/ tpc[t] = "close" /\ ~Text

\* The places where the responsibility for a descriptor can be.
Keepers(f) ==
    IF Select THEN Cardinality({f} \cap set \cap 0 .. fdmax)
    ELSE Cardinality({k \in 1 .. Len(coda) : coda[k] = f})
         + Cardinality({t \in Threads : Serving(t) /\ fd[t] = f})
         + (IF mpc \in {"welcome", "hand"} /\ cfd = f THEN 1 ELSE 0)

(* Each open connection is in the care of exactly one: main, the queue, a  *)
(* thread or the select set within its maximum; a closed descriptor is     *)
(* nowhere.  Only a thread of server2.c or es3.c that reads cfd too late   *)
(* (server2.c:110), or closes a descriptor that has been given again       *)
(* (server2.c:128), breaks this; the other servers never do.  Types too.   *)
OneKeeper ==
    /\ TypeOK
    /\ raced => PerClient
    /\ server = "up" /\ ~raced =>
          \A f \in Fds : (f = sfd => ~Select) =>
                          Keepers(f) = IF f \in Open THEN 1 ELSE 0

(* No client reads the answer to another one, although buffers and threads *)
(* pass from client to client and a stale buffer is answered again after   *)
(* an end of file; and with short reads and writes on both sides each end  *)
(* of a stream finds a length where it reads a length, and then a body.    *)
InSync ==
    /\ Text /\ ~raced =>
          \A c \in Clients : \A k \in 1 .. Len(toClient[c]) : toClient[c][k] \in {"welcome", c}
    /\ \A t \in Threads, c \in Clients :
          /\ tpc[t] \in {"len", "body"} /\ conn[fd[t]] = c /\ server = "up" =>
                \A k \in 1 .. Min({left[t], Len(toServer[c])}) : toServer[c][k] = tpc[t]
          /\ cpc[c] \in {"rlen", "rbody"} =>
                \A k \in 1 .. Min({cleft[c], Len(toClient[c])}) :
                    toClient[c][k] = IF cpc[c] = "rlen" THEN "len" ELSE c

(* Why a server of texts dies: a client has gone without a "quit", the     *)
(* descriptors have been mixed up, or a signal came at a bad moment.  A    *)
(* server of frames dies when a client is killed while it waits for its    *)
(* answer or, toup_server.c, in the middle of its request, and bcserver.c  *)
(* also, with no client gone, when cmd has used up the descriptors: from   *)
(* nothing else, so that clients that end between two frames do no harm.   *)
(* bcserver_v2.c never dies.                                               *)
ServerSurvives ==
    server = "failed" =>
        \/ ~Direct /\ \E c \in Clients : cpc[c] = "deserted"
        \/ program \in TextPrograms \cup {"toup_server"} /\ \E c \in Clients : cpc[c] = "killed"
        \/ Text /\ \E c \in Clients : cpc[c] = "closed"
        \/ PerClient /\ (raced \/ term = 1 \/ ~listening)
        \/ program = "bcserver" /\ tpc[1] = "pipe" /\ room < 4

(* Every server of c is taken by another client, which says nothing; or bc *)
(* has printed nothing, for which bcserver.c waits in cmd.                 *)
Waits(c) == \/ program = "es1" /\ \A t \in 1 .. nt : tpc[t] = "blocked" /\ on[t] # c
            \/ OneByOne /\ mpc = "serve" /\ conn[fd[1]] # c
            \/ Direct /\ mpc = "serve" /\ req[1] = NoClient
            \/ program = "bcserver" /\ tpc[1] = "silent"

(* A request is answered as long as the server is up, unless the pool of   *)
(* es1.c, or the one loop of the servers of bc, stays for ever with        *)
(* clients that are silent, or bc is silent itself; a select, or a thread  *)
(* for each client, makes nobody wait.                                     *)
RequestIsAnswered ==
    \A c \in Clients :
        cpc[c] \in {"answer", "len"} ~>
            \/ cpc[c] \notin {"answer", "len", "body", "rlen", "rbody"}
            \/ server # "up" \/ raced
            \/ []Waits(c)

(* A client that is gone is not kept open for ever: the end of file is     *)
(* found, the connection closed, or the server fails over it; unless the   *)
(* servers of the pool or of bc are stuck as above, bcserver.c also with   *)
(* this very client.                                                       *)
GoneIsClosed ==
    \A c \in Clients :
        Closed(c) /\ Held(c) ~> ~Held(c) \/ server # "up" \/ raced \/ []Waits(c)
=============================================================================
