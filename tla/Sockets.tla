------------------------------ MODULE Sockets ------------------------------
(***************************************************************************)
(* The clients of the socket servers of lez9, lez10 and lez11, and the     *)
(* state of the connections.  Three protocols:                             *)
(*                                                                         *)
(*   text     lez9/client1.c = lez11/client.c: a welcome message, then     *)
(*            requests and answers of one write and one read each;         *)
(*   frames   lez9/es9/toup_client.c, bcclient.c: a length, then as many   *)
(*            bytes, in both directions, with the readn and writen of      *)
(*            conn.h, which go on after a short read or write;             *)
(*   direct   lez9/es9/bcclient_v2.c: a line, and what one read returns of  *)
(*            what bc prints for it, in one or more writes.                *)
(*                                                                         *)
(* A stream is a sequence of units.  A text is one unit; the length and    *)
(* the body of a frame are Units units each.  A unit of an answer bears    *)
(* the name of the client whose request is answered.                       *)
(***************************************************************************)
EXTENDS Integers, Sequences, FiniteSets, FiniteSetsExt

CONSTANTS Programs,     \* the servers to be checked
          Clients,      \* client processes, each connects once
          NoClient,     \* marks a descriptor that is not open
          nt,           \* size of the pool of lez11/es1.c
          Units,        \* units of a length, and of a body
          Rooms,        \* descriptors that a bcserver may still open
          MaxRequests,  \* bound: requests of all the clients
          Crashes,      \* whether clients may be killed
          Signals       \* whether a termination signal may come

TextPrograms == {"server2", "server3", "es1", "es3"}
FramePrograms == {"toup_server", "toup_server_select", "bcserver"}
DirectPrograms == {"bcserver_v2"}

ASSUME SocketsAssumption == /\ Programs \subseteq TextPrograms \cup FramePrograms
                                              \cup DirectPrograms
                            /\ IsFiniteSet(Clients) /\ NoClient \notin Clients
                            /\ {nt, Units} \subseteq Nat \ {0}
                            /\ MaxRequests \in Nat /\ Rooms \subseteq Nat
                            /\ {Crashes, Signals} \subseteq BOOLEAN

(* Descriptors: 0 stands for that of the listening socket, 1, 2, ... for   *)
(* the ones that come next.                                                *)
sfd == 0
Fds == 0 .. Cardinality(Clients)

\* The threads that serve clients; a main that serves them itself is 1.
Threads == 1 .. Max({nt, Cardinality(Clients)})

VARIABLES
    program,    \* which server runs
    server,     \* "up", "ended" (with success), "failed" (exit or SIGPIPE)
    listening,  \* whether sfd is open
    mpc, cfd, term,         \* main, its local cfd, the flag of the handler
    set, rdset, fdmax, i,   \* a main with select: its sets, maximum, for loop
    coda,       \* es1.c: the queue from main to the pool, oldest first
    tpc,        \* program counter of each thread
    fd,         \* its descriptor
    on,         \* the client whose stream its read is waiting for
    req,        \* what is in its buffer: a client's text, "quit", or garbage
    left,       \* units that its readn or writen still has to move
    raced,      \* history: a thread has used the descriptor of another one
    room,       \* bcserver.c: free descriptors, beside those of the sockets
    backlog,    \* connections not yet accepted
    conn,       \* the client behind each open descriptor of the server
    toServer, toClient,     \* streams, not yet read
    cpc, cleft, \* program counter of each client; units it has to move
    sent        \* requests so far

main == <<listening, mpc, cfd, term>>
selects == <<set, rdset, fdmax, i>>
threads == <<tpc, fd, on, req, left, raced, room>>
net == <<backlog, conn, toServer, toClient>>
clients == <<cpc, cleft, sent>>
serverVars == <<server, main, selects, coda, threads>>
vars == <<program, serverVars, net, clients>>

Text == program \in TextPrograms
Frames == program \in FramePrograms
Direct == program \in DirectPrograms
Open == {f \in Fds : conn[f] # NoClient}
Lowest == Min({f \in Fds \ Open : f = sfd => ~listening})

(* How a client is gone: without a word ("closed"), after sending "quit",  *)
(* killed with no request pending, killed while it waits for an answer, or *)
(* dropped by the server.                                                  *)
Gone == {"closed", "quitted", "killed", "deserted", "dropped"}
Closed(c) == cpc[c] \in Gone

\* A client is connected to the server as long as the server has it open.
Held(c) == \/ \E f \in Open : conn[f] = c
           \/ \E k \in 1 .. Len(backlog) : backlog[k] = c
           \/ \E t \in Threads : tpc[t] = "blocked" /\ on[t] = c

InitClients == /\ backlog = <<>>
               /\ conn = [f \in Fds |-> NoClient]
               /\ toServer = [c \in Clients |-> <<>>]
               /\ toClient = [c \in Clients |-> <<>>]
               /\ cpc = [c \in Clients |-> "start"]
               /\ cleft = [c \in Clients |-> 0]
               /\ sent = 0

-----------------------------------------------------------------------------
Goto(c, where) == cpc' = [cpc EXCEPT ![c] = where]
Drop(n, s) == SubSeq(s, n + 1, Len(s))

\* connect succeeds as soon as the connection is in the backlog.
Connect(c) ==
    /\ cpc[c] = "start" /\ server = "up" /\ listening
    /\ Goto(c, IF Text THEN "welcome" ELSE "prompt")
    /\ backlog' = Append(backlog, c)
    /\ UNCHANGED <<program, serverVars, conn, toServer, toClient, cleft, sent>>

\* Not frames: the welcome message, or the answer to a request, is read.
Receive(c) ==
    /\ cpc[c] \in {"welcome", "answer"} /\ server = "up"
    /\ toClient[c] # <<>>
    /\ toClient' = [toClient EXCEPT ![c] = Tail(@)]
    /\ Goto(c, "prompt")
    /\ UNCHANGED <<program, serverVars, backlog, conn, toServer, cleft, sent>>

Request(c) ==
    /\ cpc[c] = "prompt" /\ server = "up" /\ Held(c)
    /\ sent < MaxRequests
    /\ sent' = sent + 1
    /\ IF ~Frames
       THEN /\ toServer' = [toServer EXCEPT ![c] = Append(@, "text")]
            /\ Goto(c, "answer")
            /\ UNCHANGED cleft
       ELSE /\ cleft' = [cleft EXCEPT ![c] = Units]
            /\ Goto(c, "len")
            /\ UNCHANGED toServer
    /\ UNCHANGED <<program, serverVars, backlog, conn, toClient>>

\* What a client does after each part of a frame has passed.
Following == [len |-> "body", body |-> "rlen", rlen |-> "rbody", rbody |-> "prompt"]

\* n units have passed; the loop of readn or writen ends with the last one.
Moved(c, n) ==
    IF n = cleft[c]
    THEN Goto(c, Following[cpc[c]]) /\ cleft' = [cleft EXCEPT ![c] = Units]
    ELSE cleft' = [cleft EXCEPT ![c] = @ - n] /\ UNCHANGED cpc

\* A write of writen.
Send(c) ==
    /\ cpc[c] \in {"len", "body"} /\ server = "up" /\ Held(c)
    /\ \E n \in 1 .. cleft[c] :
          /\ toServer' = [toServer EXCEPT ![c] = @ \o [k \in 1 .. n |-> cpc[c]]]
          /\ Moved(c, n)
    /\ UNCHANGED <<program, serverVars, backlog, conn, toClient, sent>>

\* A read of readn.
Read(c) ==
    /\ cpc[c] \in {"rlen", "rbody"} /\ server = "up"
    /\ \E n \in 1 .. Min({cleft[c], Len(toClient[c])}) :
          /\ toClient' = [toClient EXCEPT ![c] = Drop(n, @)]
          /\ Moved(c, n)
    /\ UNCHANGED <<program, serverVars, backlog, conn, toServer, sent>>

\* The client ends; these clients never send a "quit", not even client1.c.
Leave(c) ==
    /\ cpc[c] = "prompt" /\ server = "up"
    /\ Goto(c, "closed")
    /\ UNCHANGED <<program, serverVars, net, cleft, sent>>

(* The servers of texts wait for a "quit", which no client of the          *)
(* repository sends: this is another program that does, and then closes.   *)
SendQuit(c) ==
    /\ Text /\ cpc[c] = "prompt" /\ server = "up" /\ Held(c)
    /\ toServer' = [toServer EXCEPT ![c] = Append(@, "quit")]
    /\ Goto(c, "quitted")
    /\ UNCHANGED <<program, serverVars, backlog, conn, toClient, cleft, sent>>

\* The client is killed; between two requests that is as if it had left.
Kill(c) ==
    /\ Crashes /\ server = "up"
    /\ cpc[c] \notin Gone \cup {"start", "prompt"}
    /\ Goto(c, IF cpc[c] \in {"answer", "rlen", "rbody"} THEN "deserted" ELSE "killed")
    /\ UNCHANGED <<program, serverVars, net, cleft, sent>>

(* The server has closed the connection: after what is left in the stream  *)
(* the client finds an end of file, which it does not test, and its next   *)
(* write kills it.                                                         *)
HangUp(c) ==
    /\ server = "up"
    /\ cpc[c] \notin Gone \cup {"start"}
    /\ ~Held(c) /\ toClient[c] = <<>>
    /\ Goto(c, "dropped")
    /\ UNCHANGED <<program, serverVars, net, cleft, sent>>

\* The clients: the one of the text servers, and those of the servers of frames.
client1(c) == Text /\ (Connect(c) \/ Receive(c) \/ Request(c) \/ Leave(c))
Framed(c) == Connect(c) \/ Request(c) \/ Send(c) \/ Read(c) \/ Leave(c)
toup_client(c) == program \in {"toup_server", "toup_server_select"} /\ Framed(c)
bcclient(c) == program = "bcserver" /\ Framed(c)
bcclient_v2(c) == Direct /\ (Connect(c) \/ Receive(c) \/ Request(c) \/ Leave(c))

Client(c) == \/ client1(c) \/ toup_client(c) \/ bcclient(c) \/ bcclient_v2(c)
             \/ SendQuit(c) \/ Kill(c) \/ HangUp(c)

\* A client of texts that finds no socket file tries to connect for ever.
Retries(c) == cpc[c] = "start" /\ server = "ended" /\ Text

(* The server is gone: so are its clients, which are refused, find an end  *)
(* of file or die of a write; in which order no longer matters.            *)
ServerGone ==
    /\ server # "up"
    /\ \E c \in Clients : ~Closed(c) /\ ~Retries(c)
    /\ cpc' = [c \in Clients |-> IF Closed(c) \/ Retries(c) THEN cpc[c] ELSE "dropped"]
    /\ UNCHANGED <<program, serverVars, net, cleft, sent>>
=============================================================================
