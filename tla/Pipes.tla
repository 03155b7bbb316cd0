------------------------------- MODULE Pipes -------------------------------
(***************************************************************************)
(* Processes that talk over unnamed pipes.                                 *)
(*                                                                         *)
(*   lez8/es8/pipedec.c with dec.c: two children pass a number to and fro  *)
(*   and take 1 from it, until one of them finds it negative;              *)
(*   lez8/es2.c, lez8/es8/mybc.c, cmd of lez9/es9/bcserver.c and           *)
(*   lez9/server1.c: each request makes two pipes and a child that         *)
(*   executes bc.                                                          *)
(*                                                                         *)
(* A process has a table of descriptors, which fork copies.  A read waits  *)
(* as long as the pipe is empty and a process has its write end open: who  *)
(* forgets to close a copy waits for ever.  What a child does between fork *)
(* and exec changes its own table only, and is one step; so are the two    *)
(* calls of pipe.                                                          *)
(***************************************************************************)
EXTENDS Integers, Sequences, FiniteSets, FiniteSetsExt

CONSTANTS Programs,     \* the programs to be checked
          MaxFd,        \* size of a table of descriptors
          Starts,       \* arguments n of pipedec
          None          \* marks a descriptor that is not open

Calculators == {"es2", "mybc", "bcserver", "server1"}

ASSUME PipesAssumption == /\ Programs \subseteq Calculators \cup {"pipedec"}
                          /\ MaxFd \in Nat /\ MaxFd >= 9
                          /\ Starts \subseteq Nat
                          /\ None \notin [pipe : Nat, end : {"r", "w", "file"}]

Procs == {"main", "one", "two"}     \* "one" is also the child that runs bc
Children == {"one", "two"}
Fds == 0 .. MaxFd - 1
Pipes == 1 .. MaxFd                 \* more than the descriptors can refer to

VARIABLES
    program,
    pc,         \* program counter of each process
    table,      \* what is open on each descriptor of each process
    content,    \* the data in each pipe
    fds,        \* main's arrays: the four descriptors of the last two pipes
    x,          \* the number that a dec has, or has to write
    request,    \* what main has been asked: "prints", "silent", "quit", "none"
    client      \* server1.c: whether its client is still there

vars == <<program, pc, table, content, fds, x, request, client>>

R(k) == [pipe |-> k, end |-> "r"]
W(k) == [pipe |-> k, end |-> "w"]
File == [pipe |-> 0, end |-> "file"]        \* a terminal or a socket
Writers(k) == {p \in Procs : \E f \in Fds : table[p][f] = W(k)}
Readers(k) == {p \in Procs : \E f \in Fds : table[p][f] = R(k)}

\* Standard input, output and error, and the sockets of a server.
Standard == CASE program = "server1" -> {0, 1, 2, 3}
              [] program = "bcserver" -> {0, 1, 2, 3, 4}
              [] OTHER -> {0, 1, 2}

Nothing == [f \in Fds |-> None]

Init ==
    /\ program \in Programs
    /\ pc = [p \in Procs |-> IF p # "main" THEN "none"
                             ELSE IF program \in {"pipedec", "server1"} THEN "pipes" ELSE "ask"]
    /\ table = [p \in Procs |-> IF p = "main"
                                THEN [f \in Fds |-> IF f \in Standard THEN File ELSE None]
                                ELSE Nothing]
    /\ content = [k \in Pipes |-> <<>>]
    /\ fds = [in0 |-> 0, in1 |-> 0, out0 |-> 0, out1 |-> 0]
    /\ x \in [Children -> IF program = "pipedec" THEN Starts ELSE {0}]
    /\ x["one"] = x["two"]
    /\ request = "none"
    /\ client = FALSE

Goto(p, where) == pc' = [pc EXCEPT ![p] = where]
Free == {f \in Fds : table["main"][f] = None}
Without(t, F) == [f \in Fds |-> IF f \in F THEN None ELSE t[f]]

-----------------------------------------------------------------------------
(* Two calls of pipe: each takes the two lowest descriptors.  With too few *)
(* of them the program ends (mybc.c without an error).                     *)
OpenPipes ==
    /\ pc["main"] = "pipes"
    /\ IF Cardinality(Free) < 4
       THEN /\ Goto("main", IF program = "mybc" THEN "end" ELSE "failed")
            /\ UNCHANGED <<table, content, fds>>
       ELSE LET a == Min(Free)
                b == Min(Free \ {a})
                c == Min(Free \ {a, b})
                d == Min(Free \ {a, b, c})
                unused == {k \in Pipes : Readers(k) \cup Writers(k) = {}}
                in == Min(unused)
                out == Min(unused \ {in})
            IN  /\ fds' = [in0 |-> a, in1 |-> b, out0 |-> c, out1 |-> d]
                /\ table' = [table EXCEPT !["main"] = [@ EXCEPT ![a] = R(in), ![b] = W(in),
                                                               ![c] = R(out), ![d] = W(out)]]
                /\ content' = [content EXCEPT ![in] = <<>>, ![out] = <<>>]
                /\ Goto("main", IF program = "server1" THEN "ask" ELSE "fork")
    /\ UNCHANGED <<program, x, request, client>>

\* fork: p is a copy of main, and sets itself up.
Fork(p) ==
    /\ pc' = [pc EXCEPT ![p] = "setup",
                        !["main"] = IF p = "two" THEN "close_all" ELSE "close"]
    /\ table' = [table EXCEPT ![p] = table["main"]]

ForkChild ==
    /\ \/ pc["main"] = "fork" /\ Fork("one")
       \/ pc["main"] = "fork_two" /\ Fork("two")
    /\ UNCHANGED <<program, content, fds, x, request, client>>

\* dup2 of the read end i to 0 and of the write end o to the descriptors D.
Redirect(t, i, o, D) == [f \in Fds |-> IF f = 0 THEN t[i] ELSE IF f \in D THEN t[o] ELSE t[f]]

\* Fault: the child keeps the write end of its own input.
SetupKeep(p) ==
    /\ pc[p] = "setup"
    /\ table' = [table EXCEPT ![p] = Redirect(@, fds.in0, fds.out1, {1, 2})]
    /\ Goto(p, "bc")
    /\ UNCHANGED <<program, content, fds, x, request, client>>

\* The child that will be bc closes main's ends; the two it uses stay open.
SetupBc(p) ==
    /\ pc[p] = "setup"
    /\ LET t == Without(table[p], {fds.in1, fds.out0})
       IN  table' = [table EXCEPT ![p] = Redirect(t, fds.in0, fds.out1, {1, 2})]
    /\ Goto(p, "bc")
    /\ UNCHANGED <<program, content, fds, x, request, client>>

(* pipedec: canale12 is in0, in1 and canale21 is out0, out1.  processo1    *)
(* gets n, and begins.                                                     *)
processo1 ==
    /\ program = "pipedec" /\ pc["one"] = "setup"
    /\ LET t == Without(table["one"], {fds.out1, fds.in0})
           u == Redirect(t, fds.out0, fds.in1, {1})
       IN  table' = [table EXCEPT !["one"] = Without(u, {fds.out0, fds.in1})]
    /\ Goto("one", "dec_write")
    /\ UNCHANGED <<program, content, fds, x, request, client>>

\* processo2 has no copy of what main had closed before it was forked.
processo2 ==
    /\ program = "pipedec" /\ pc["two"] = "setup"
    /\ LET u == Redirect(table["two"], fds.in0, fds.out1, {1})
       IN  table' = [table EXCEPT !["two"] = Without(u, {fds.in0, fds.out1})]
    /\ Goto("two", "dec_read")
    /\ UNCHANGED <<program, content, fds, x, request, client>>

\* Fault: main keeps the write end of the second pipe.
ClosesLess == IF program = "pipedec"
              THEN IF pc["main"] = "close" THEN {fds.in1, fds.out0} ELSE {fds.in0}
              ELSE {fds.in0}

\* What main closes after a fork.
Closes == IF program = "pipedec"
          THEN IF pc["main"] = "close" THEN {fds.in1, fds.out0}
               ELSE {fds.in0, fds.in1, fds.out0, fds.out1}
          ELSE {fds.in0, fds.out1}

CloseEnds ==
    /\ pc["main"] \in {"close", "close_all"}
    /\ table' = [table EXCEPT !["main"] = Without(@, Closes)]
    /\ Goto("main", IF program # "pipedec" THEN "write"
                    ELSE IF pc["main"] = "close" THEN "fork_two" ELSE "wait")
    /\ UNCHANGED <<program, content, fds, x, request, client>>

\* wait: a child that has ended; pipedec waits for both.
Wait(p) ==
    /\ pc["main"] \in {"wait", "wait_last"}
    /\ pc[p] = "exit"
    /\ pc' = [pc EXCEPT ![p] = "none",
                        !["main"] = IF program # "pipedec" THEN "answer"
                                    ELSE IF @ = "wait" THEN "wait_last" ELSE "end"]
    /\ UNCHANGED <<program, table, content, fds, x, request, client>>

-----------------------------------------------------------------------------
\* A process ends, or is killed: all its descriptors are closed.
Exit(p, where) == Goto(p, where) /\ table' = [table EXCEPT ![p] = Nothing]

\* What a process p has open on f: the pipe to read or to write.
PipeOn(p, f) == table[p][f].pipe

\* A write to a pipe that nobody reads kills (SIGPIPE).
WritePipe(p, f, v, next) ==
    IF Readers(PipeOn(p, f)) = {}
    THEN Exit(p, "exit") /\ UNCHANGED content
    ELSE /\ content' = [content EXCEPT ![PipeOn(p, f)] = Append(@, v)]
         /\ Goto(p, next)
         /\ UNCHANGED table

HasData(p, f) == content[PipeOn(p, f)] # <<>>
AtEof(p, f) == ~HasData(p, f) /\ Writers(PipeOn(p, f)) = {}

DecWrite(p) ==
    /\ pc[p] = "dec_write"
    /\ WritePipe(p, 1, x[p], "dec_read")
    /\ UNCHANGED <<program, fds, x, request, client>>

\* The number below which a dec ends.
Ends(v) == v < 0

\* A dec ends when the number is negative, or at the end of its input.
DecRead(p) ==
    /\ pc[p] = "dec_read"
    /\ \/ /\ HasData(p, 0)
          /\ LET k == PipeOn(p, 0)
                 v == Head(content[k]) - 1
             IN  /\ x' = [x EXCEPT ![p] = v]
                 /\ content' = [content EXCEPT ![k] = Tail(@)]
                 /\ IF Ends(v) THEN Exit(p, "exit")
                               ELSE Goto(p, "dec_write") /\ UNCHANGED table
       \/ /\ AtEof(p, 0)
          /\ Exit(p, "exit")
          /\ UNCHANGED <<x, content>>
    /\ UNCHANGED <<program, fds, request, client>>

\* bc answers a line, or says nothing; it ends at the end of its input.
Bc(p) ==
    /\ pc[p] = "bc"
    /\ \/ /\ HasData(p, 0)
          /\ LET k == PipeOn(p, 0)
             IN  /\ content' = [content EXCEPT ![k] = Tail(@),
                      ![PipeOn(p, 1)] = IF Head(content[k]) = "prints" THEN Append(@, "result")
                                        ELSE @]
                 /\ UNCHANGED <<pc, table>>
       \/ /\ AtEof(p, 0)
          /\ Exit(p, "exit")
          /\ UNCHANGED content
    /\ UNCHANGED <<program, fds, x, request, client>>

-----------------------------------------------------------------------------
Requests == {"prints", "silent"}

(* es2.c, mybc.c: a line of standard input, whose end, "quit" and "exit"   *)
(* end the program.  bcserver.c: a request; the rest of main is modelled   *)
(* in SocketServers.                                                       *)
Ask ==
    /\ pc["main"] = "ask"
    /\ \/ request' \in Requests /\ Goto("main", "pipes")
       \/ program # "bcserver" /\ Goto("main", "end") /\ UNCHANGED request
    /\ UNCHANGED <<program, table, content, fds, x, client>>

\* The descriptor of server1.c's client.
Connection == {f \in Fds \ Standard : table["main"][f] = File}

\* server1.c: accept; the welcome message kills it if the client has gone.
AcceptClient ==
    /\ pc["main"] = "ask"
    /\ Connection = {}
    /\ \/ /\ Free # {}
          /\ table' = [table EXCEPT !["main"][Min(Free)] = File]
          /\ client' = TRUE
          /\ UNCHANGED pc
       \/ Goto("main", "failed") /\ UNCHANGED <<table, client>>
    /\ UNCHANGED <<program, content, fds, x, request>>

(* server1.c: a request or "quit"; or the client has gone, and what is in  *)
(* the buffer is taken for a request once more.  After a "quit" two more   *)
(* pipes are opened.                                                       *)
AskClient ==
    /\ pc["main"] = "ask"
    /\ Connection # {}
    /\ client' \in BOOLEAN
    /\ request' \in IF client' \/ request = "none" THEN Requests \cup {"quit"} ELSE {request}
    /\ IF request' = "quit"
       THEN Goto("main", "pipes") /\ table' = [table EXCEPT !["main"] = Without(@, Connection)]
       ELSE Goto("main", "fork") /\ UNCHANGED table
    /\ UNCHANGED <<program, content, fds, x>>

Write ==
    /\ pc["main"] = "write"
    /\ WritePipe("main", fds.in1, request, "read")
    /\ UNCHANGED <<program, fds, x, request, client>>

\* The result, or the end of the output of bc.
Read ==
    /\ pc["main"] = "read"
    /\ \/ /\ HasData("main", fds.out0)
          /\ content' = [content EXCEPT ![PipeOn("main", fds.out0)] = Tail(@)]
       \/ AtEof("main", fds.out0) /\ UNCHANGED content
    /\ Goto("main", "close_in")
    /\ UNCHANGED <<program, table, fds, x, request, client>>

\* Fault: bc's input stays open.
CloseInNot ==
    /\ pc["main"] = "close_in"
    /\ Goto("main", "wait")
    /\ UNCHANGED <<program, table, content, fds, x, request, client>>

\* bc's input is closed to make it end; out0 is never closed.
CloseIn ==
    /\ pc["main"] = "close_in"
    /\ table' = [table EXCEPT !["main"] = Without(@, {fds.in1})]
    /\ Goto("main", "wait")
    /\ UNCHANGED <<program, content, fds, x, request, client>>

\* The result is printed or sent; SIGPIPE if the client has gone meanwhile.
Answer ==
    /\ pc["main"] = "answer"
    /\ \/ program # "server1" /\ Goto("main", "ask")
       \/ program = "server1" /\ client /\ Goto("main", "pipes")
       \/ program = "server1" /\ Goto("main", "failed")
    /\ UNCHANGED <<program, table, content, fds, x, request, client>>

\* What a request makes main do, from the pipes to the result.
Calculate == \/ OpenPipes \/ ForkChild \/ CloseEnds \/ Write \/ Read \/ CloseIn
             \/ (\E p \in Children : Wait(p)) \/ Answer

es2_main == program = "es2" /\ Calculate
mybc_cmd == program = "mybc" /\ Calculate
bcserver_cmd == program = "bcserver" /\ Calculate
server1_main == program = "server1" /\ Calculate
pipedec_main == /\ program = "pipedec"
                /\ OpenPipes \/ ForkChild \/ CloseEnds \/ (\E p \in Children : Wait(p))

Main == es2_main \/ mybc_cmd \/ bcserver_cmd \/ server1_main \/ pipedec_main

dec_main(p) == program = "pipedec" /\ (DecWrite(p) \/ DecRead(p))
bc(p) == program # "pipedec" /\ (SetupBc(p) \/ Bc(p))
Child(p) == dec_main(p) \/ bc(p)

User == IF program = "server1" THEN AcceptClient \/ AskClient ELSE Ask

\* main is blocked in its read: bc has printed nothing and waits for more.
Stuck == pc["main"] = "read" /\ request = "silent"

AtRest ==
    /\ pc["main"] \in {"end", "failed"} \/ (Stuck /\ pc["one"] = "bc" /\ ~HasData("one", 0))
    /\ UNCHANGED vars

Next == Main \/ processo1 \/ processo2 \/ (\E p \in Children : Child(p)) \/ User \/ AtRest

(* The processes run as long as they are not blocked; nobody has to type   *)
(* or to send a request.                                                   *)
Fairness == /\ WF_vars(Main) /\ WF_vars(processo1) /\ WF_vars(processo2)
            /\ \A p \in Children : WF_vars(Child(p))

Spec == Init /\ [][Next]_vars /\ Fairness
-----------------------------------------------------------------------------
TypeOK ==
    /\ program \in Programs
    /\ pc \in [Procs -> {"none", "ask", "pipes", "fork", "close", "fork_two", "close_all",
                         "wait", "wait_last", "answer", "end", "failed", "setup", "bc",
                         "dec_write", "dec_read", "exit", "write", "read", "close_in"}]
    /\ table \in [Procs -> [Fds -> {None, File} \cup {R(k) : k \in Pipes} \cup {W(k) : k \in Pipes}]]
    /\ DOMAIN content = Pipes
    /\ fds \in [{"in0", "in1", "out0", "out1"} -> Fds]
    /\ DOMAIN x = Children
    /\ request \in Requests \cup {"none", "quit"}
    /\ client \in BOOLEAN

(* A pipe on which a process waits for an end of file is open for writing  *)
(* only in the process that talks to it, once everybody has closed what it *)
(* inherited: this is what the many close of these programs are for, and   *)
(* nothing but a wait for ever shows that one of them is missing.          *)
OnlyPeerWrites ==
    LET peer(p) == CASE p = "main" -> "one"
                     [] p = "one" -> IF program = "pipedec" THEN "two" ELSE "main"
                     [] p = "two" -> "one"
        reads(p, f) == Writers(PipeOn(p, f)) \subseteq {peer(p)}
    IN  /\ program # "pipedec" /\ pc["main"] \in {"write", "read", "close_in", "wait"} =>
              /\ pc["one"] = "bc" => reads("one", 0)
              /\ pc["one"] # "setup" => reads("main", fds.out0)
        /\ program = "pipedec" /\ pc["main"] \in {"wait", "wait_last", "end"} =>
              \A p \in Children :
                 pc[p] = "dec_read" /\ pc[peer(p)] # "setup" => reads(p, 0)

(* The read end of every answer stays open.  When a program other than     *)
(* server1.c is asked again it has kept no other descriptor and no child,  *)
(* so it serves exactly MaxFd - 3 requests less its standard descriptors   *)
(* before pipe fails.  server1.c keeps all four after a "quit", but no      *)
(* child either.  Types too.                                               *)
LeaksReadEnds ==
    LET kept == {f \in Fds \ Standard : table["main"][f] # None}
    IN  /\ TypeOK
        /\ pc["main"] \in {"ask", "pipes"} => pc["one"] = "none"
        /\ program \in Calculators \ {"server1"} /\ pc["main"] \in {"ask", "pipes", "end", "failed"} =>
              /\ \A f \in kept : \E k \in Pipes : table["main"][f] = R(k) /\ Writers(k) = {}
              /\ pc["main"] = "failed" => Cardinality(kept) = MaxFd - 3 - Cardinality(Standard)

(* pipedec ends, with both children waited for, whatever n is; and every   *)
(* request is answered and its bc waited for, unless bc prints nothing for *)
(* it: then main waits for ever, with the input of bc still open.          *)
Finishes ==
    pc["main"] \notin {"ask", "end", "failed"} ~> pc["main"] \in {"ask", "end", "failed"} \/ Stuck
=============================================================================
