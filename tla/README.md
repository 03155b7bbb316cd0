# es-sol: a verification development

`src/` holds the solutions of an operating-systems laboratory (lez1 ... lez11,
each lesson with its exercises, and the reference solutions in `es6`, `es7`,
`es8`, `es9`). There is no single program: the system is a set of small
concurrent programs that reuse the same few mechanisms - a blocking queue in two
implementations, forks as mutexes, a pool of workers behind a socket, a pipeline
of stages. These modules model the concurrent ones, check them with TLC and
prove with TLAPS what does not depend on the size of the instance.

The comments of the sources are in Italian; names are kept as in the source
(`interval`, `coda`, `destra`, `sinistra`, `buffer_righe`, ...).

## 1. Inventory

| part | state | operations | who it meets, and what is hard |
|---|---|---|---|
| Bounded queue, `lez7/es7/boundedqueue.[ch]` | ring `buf`, `head`, `tail`, `qlen`, mutex `m`, conditions `cfull`, `cempty` | `initBQueue`, `push`, `pop`, `deleteBQueue` | any threads; wakeups by single signals, races after a wait, the unsigned wrap of the indices, a delete that pops |
| its test, `testBQueue.c` | intervals, loop counters, threads | p producers, c consumers, main | order of joins, EOS and delete |
| Unbounded queue, `lez8/es8/queue.[ch]` | list with a dummy node, `qlen`, one mutex, one condition | `initQueue`, `push`, `pop`, `deleteQueue` | nodes are allocated and freed outside the lock |
| its test, `testQueue.c` | as above | as above | `push` that fails for lack of memory, also in main, which does not look |
| Philosophers by order, `lez7/es7/filosofi.c` | `iter`, a mutex per fork, `mangia` | one loop per philosopher | circular wait; the shared counter of meals |
| Philosophers by parity, `lez7/es2_filosofi.c` | a mutex per fork, main's loop counter, each thread's id | main's loops, the loop of a philosopher, locks that fail | the id is read through a pointer to main's counter; circular wait |
| Server with select and a pool, `lez11/es2.c`, and client, `lez11/client.c` | fd sets, `num_fd`, `coda`, pipe, descriptors, sockets | master loop, workers, signal handler, clients | a descriptor passes from hand to hand; two writes into a shared pipe; signals; clients that go away |
| Pipeline on bounded queues, `lez7/es7/pipeline.c`, with `icl_hash.[ch]` | two queues, the table, the heap | Stage1, Stage2, Stage3, main | EOS through two full or empty queues; owners of memory; failing allocations |
| Pipeline on one line buffer, `lez7/es3_pipeline.c` | the line buffer, two lists of pointers into it | reader, tokenizer, printer | the buffer is overwritten while it is read |
| Server with a thread per client, `lez9/server2.c`, `lez10/es3.c` | descriptors, `term` | accept loop, threads, handler or signal thread | `&cfd` of the accept loop, descriptor closed twice, EOF not tested, signal that interrupts nothing |
| Server with a pool, `lez11/es1.c` | `coda`, descriptors, `term` | accept loop, workers | main returns without joining; a worker is held by a silent client |
| Server with select, `lez9/server3.c` | fd set, maximum | one loop | the loop of `lez11/es2.c` without workers: EOF not tested, the set and its maximum |
| bc servers, `lez9/server1.c`, `client1.c`, `lez8/es2.c`, `es8/mybc.c` | pipes, child process | one request, one `bc` | wait for output that never comes; descriptors that are not closed; a socket file left behind |
| Solutions of exercise 9, `lez9/es9/*` | descriptors, a message in two parts | read of length and body | end of file between the parts, short reads and writes |
| Fifo server, `lez8/fifo_server` | public fifo, a private fifo per client | request, retries of `open` | a client that is slow or dies |
| Ping-pong, `lez8/es8/pipedec.c`, `dec.c` | two pipes and their ends | send and decrement | end of file depends on every copy being closed |
| Lists and places, `lez8/es1.c`, `lez7/es1_prodcons.c`, `lez7/es7/prodcons.c` | list, or one place | producer, consumer | shared condition variable; remainder of K/M |
| Signal counters, `lez10/es1.c` | `flag`, counters | handlers, polling loop | a signal between the print and the reset |
| Processes, `lez6` | process trees | fork, exit, wait | 8-bit exit status |
| Sequential exercises, `lez1` ... `lez5` | locals | one thread, one pass | - |

What makes each correct:

- *queues*: nothing is lost, duplicated or reordered; nobody enters without the
  lock; nobody sleeps beside work it could do; memory has one owner;
- *programs on the queues*: each message is consumed exactly once, EOS comes
  after all messages, the queue is freed only when nobody is inside, the program
  ends;
- *philosophers*: a fork has one user, some philosopher can always move, the
  dinner ends, and with the right number of meals;
- *servers*: every descriptor is in the care of exactly one part of the server,
  each request is answered, what a client closes is closed, only a broken client
  or a signal ends the server, and a stream is read as it was written;
- *processes on pipes*: whoever waits for an end of file gets it, because nobody
  else has kept a copy of the write end; descriptors do not pile up;
- *pipelines*: what is printed is what the file says, each word once, and the
  program ends whatever allocation fails.

`PROJECT.json` lists every component with its status and, under `hazards`, the
places in the code where these can go wrong, with the properties that watch them.

## 2. Modules

    BoundedFifo <--implements-- BoundedQueue <--EXTENDS--- TestBQueue
         ^  ^                                              (BoundedQueueProofs)
         |  +------implements-- LinkedQueue  <--EXTENDS--- TestQueue
         |                                                 (LinkedQueueProofs)
         +--INSTANCE twice-- Pipeline --INSTANCE--> IclHash
                             (PipelineProofs)
    OrderedPhilosophers (PhilosophersProofs)     Filosofi (FilosofiProofs)
    ManagerWorkers (ManagerWorkersProofs)        LinePipeline
    Sockets <--EXTENDS-- SocketServers           Pipes (PipesProofs)
                         (SocketServersProofs)

The modules in parentheses extend the one above or beside them with theorems.
Those of a queue and of its test program are in one module: `BoundedQueueProofs`
is about `BoundedQueue` and `TestBQueue`, `LinkedQueueProofs` about `LinkedQueue` and
`TestQueue`.

`MC*.tla` are the instances for TLC. Operators marked `Fault` in a comment are
not part of the specification: each is a definition as a plausible mistake in the
code would make it, kept to show that the property named for it in `PROJECT.json`
(`mutants`) fails when it replaces the right one.

**Granularity.** What a thread does between LOCK and the next WAIT or UNLOCK is one
step where nothing outside can act on the same data in between; the acquisition
of the mutex is a step of its own in `BoundedQueue` and part of the critical
section in `LinkedQueue` and `ManagerWorkers` (the choice of who gets the lock is
then the choice of who moves). Locals of a thread change in the step in which its
call returns.

### BoundedFifo
The promise of a blocking queue: `CallPush`/`CallPop`, and `Push`/`Pop` that take
effect at one instant on a sequence of at most `Capacity` elements. It is the
abstract specification of both queues and the queue of `Pipeline`.

### BoundedQueue (`boundedqueue.c`)
`buf head tail qlen m` are the fields of `BQueue_t`; `pc[t]` says where a thread
is: outside, competing for `m`, in front of the `while` with `m` held, or blocked
in the wait. `PushCall`, `PopCall` are the calls (a null pointer is refused),
`LockQueue` the LOCK at entry and on the way out of a wait, `WaitToProduce`,
`WaitToConsume` the bodies of the two `while`s, `Put`, `Take` the rest of the
functions with the signal, which wakes one waiting thread, any of them, or nobody.
`SpuriousWakeup` is what POSIX allows. `Advance` is the source's addition in
`size_t`, modulo `SizeRange`. Callers are arbitrary. The refinement mapping reads
the `qlen` slots from `head`; `LockQueue`, waits and wakeups are stuttering.

### TestBQueue
`TestBQueue` is `testBQueue.c` on that queue, which it extends: the threads and the
pointers of the queue are those of the program (`NamesAssumption`), and each step
is a step of the queue, of the program, or both. It has `interval`, the loops
of producers and consumers, main's creation, joins, EOS and delete; producers may
stop early (malloc) and thread creation may fail (the process ends).
`MainDelete` is `deleteBQueue` without a function, the only way it is called.

### LinkedQueue, TestQueue (`queue.c`, `testQueue.c`)
Memory is explicit: `Nodes` are the blocks that malloc may return, `allocated`
those in use. A push allocates its node before taking the lock (`PushCall`) and
links it in `Put`; a pop unlinks the dummy in `Take`, the node after it becomes
the dummy, and frees the old one in a step of its own outside the lock
(`FreeNode`). `deleteQueue` walks and frees the list. `TestQueue` extends it with
the test program; `failed` are the threads for which a malloc has failed, and
`memory` counts the ints in use, which producers and main allocate and consumers
free. A producer leaves its loop in two ways: its own malloc fails
(`ProducerNoData`) or the one in `push` does (`ProducerPushFails`), and then the
int it has allocated is freed by nobody, as the one of main is (`refused`). A malloc
that succeeds finds a block among `Nodes`, which are as many as the run needs; main's
malloc of its EOS, which it does not test, is taken to succeed.

### OrderedPhilosophers (`filosofi.c`)
`atomicDec` is the shared counter; `First`/`Second` the order of the two LOCKs
(higher index first, as compiled); `DropSecond`, `DropFirst` the unlocks.

### Filosofi (`es2_filosofi.c`)
`i` is main's counter whose *address* every thread gets; `Start` reads it. With
`PromptStart = FALSE` several threads may read the same id (also 0, 1, ... when main
is already in the loop of the joins), or NF. `FirstFails`, `SecondFails` are
locks that return an error, `MainCreateFails` a pthread_create that does: the loop
goes on without the thread, and `MainJoin` later uses a handle that was never
written, which ends the process or not. `PromptStart = TRUE` is the assumption under which
the program does what it is meant to; it is an assumption on the scheduler which
nothing in the code enforces. `prendiForchette` returns no value when it takes
both forks; the model takes the outcome of the builds (0, left by the last
`pthread_mutex_lock`), which its header comment states.

### ManagerWorkers (`lez11/es2.c`, `client.c`)
The master: `Select`, then one action for each kind of ready descriptor in the
order of the `for` loop - `Accept` (listening socket), `ReadPipeFd` and
`ReadPipeFlag` (pipe), `Enqueue` (client) - `EndScan`, `Shutdown`, `Return`. The
workers: `Remove`, `Serve`, `Reply`, `WriteFd`, `WriteFlag`. `Signal` is the
handler, which the kernel runs in the main thread: it sets `term` and interrupts
select, or the read of the flag if it blocks there. `conn` says which client is at the other end
of each descriptor, with the lowest free one taken by accept; closing the wrong
one is therefore visible. `mixed` remembers that a worker has written the descriptor
of its client while another one was between its two writes (`Mixes`): nothing in the
code prevents it, the run `two_workers` shows what follows, and after it the server
works on arbitrary descriptors, of which the other properties say nothing. Clients
connect, ask, quit, and (`Crashes`) are killed.
Requests are counts, their text is abstracted. External: the kernel's sockets,
the kill of a client.

### Pipeline, IclHash (`pipeline.c`, `icl_hash.c`)
Two `BoundedFifo`s between three stages; `heap` is the set of blocks in use (lines,
words, and `Table`, the table with its entries), the table a sequence of buckets,
each a list with the last insertion first. `inserted` is `at_least_one_insert`:
Stage3 prints and destroys the table only if it is set, so that a file without
words leaves the table in memory. `fopen`, the next line's malloc, `strdup`, `icl_hash_create`
and `icl_hash_insert` may fail. The queues are the abstract ones because
`BoundedQueueProofs` shows that the real ones implement them.

### LinePipeline (`es3_pipeline.c`)
The buffer `line` is a sequence of words with the set of places where a string
ends; what the lists hold are places in it. `strtok` writes the ends. An insertion
whose lock fails ends the process (`Exit`), or loses the end mark, whose result
nobody tests.

### Sockets, SocketServers (lez9, lez10, lez11)
`Sockets` holds the clients and the state of the connections, `SocketServers`
the eight servers that they talk to; `program` says which one runs, and never
changes. The servers are built of the same few steps, because the code is: each
`*_main` and each of `server2_thread`, `es3_thread`, `worker`, `server3_serve`,
`threadF`, `cmd`, `bcserver_serve`, `bcserver_v2_cmd` is the list of the steps
that program takes, and where one differs inside a step the operators `Text`,
`Frames`, `Direct`, `Select`, `PerClient`, `OneByOne` or its name tell it apart.

| step | code |
|---|---|
| `CallAccept`, `Accept`, `Welcome` | `accept` entered, returning, and the write of the welcome message; apart, because the handler of a signal interrupts only an `accept` that blocks |
| `Spawn`, `Start` | `pthread_create`, and the thread's read of `*arg`: with `&cfd` (`server2.c`, `es3.c`) what main has there by then |
| `InsertNode`, `RemoveNode` | the queue of `lez11/es1.c` under `lock_coda` |
| `CallSelect`, `AcceptSelected`, `ServeSelected`, `EndScan` | the select loop and its scan in the order of the descriptors; main then goes on as thread 1 and comes back |
| `CallRead`, `ReadReturns`, `Reply`, `CloseQuit`, `CloseAgain` | a request of the text protocol; the read keeps the connection it began with even if its descriptor is closed under it and given again |
| `bc` | the child of `bcserver_v2.c` on the connection itself: external, it prints nothing for a line, or something in one or two writes |
| `CallPipe`, `Calculate` | `cmd` of `bcserver.c`: two pipes, of which one end stays open after each request (`room` counts the free descriptors), and the wait for what bc prints, which may be for ever |
| `Readn`, `Writen`, `CloseClient` | one `read` or `write` in the loops of `conn.h`, which may move a part |
| `Signal`; `CloseListening`, `ExitSuccess` | the handler of `server2.c` and `es1.c`; the thread of `es3.c` that waits in `sigwait` |

A stream is a sequence of units: a text is one, the length and the body of a
framed message are `Units` each. `req` is the buffer of a thread, which a read of
0 leaves as it was - or, at first, as whatever was on the stack. `on[t]` is the
client a blocked read listens to, `raced` records that a thread has used a
descriptor that is not the one it was made for. No client of the repository ever
sends `quit`, although four servers wait for it: `SendQuit` is another client,
external, that does. `Kill` distinguishes a client that waits for its answer.

Left out: the limit of one pending connection of `bcserver.c` (connect blocks
until there is room, which only delays it); whether the kernel picks the
descriptor of `accept` when the call begins or when it returns (it is taken to be
the lowest free one on return); a `bc` that ends by itself, on a `halt`; the child of
`bcserver.c` whose exec fails, which goes on as a second server
(`bcserver.c:53`, `105-107`). After the end of the server its clients are dropped in one step.

### Pipes (`pipedec.c`, `dec.c`, `es2.c`, `mybc.c`, `bcserver.c`, `server1.c`)
`table` is the descriptor table of each process, copied by `Fork`; a pipe has a
content and, through the tables, its readers and writers. `OpenPipes` takes the
four lowest descriptors and fails when there are not as many; `SetupBc`,
`processo1` and `processo2` are what a child does before its exec, `CloseEnds`
what the parent closes after the fork, `Write`, `Read`, `CloseIn`, `Wait` and
`Answer` the rest of a request. `Bc` is external: it answers a line or says
nothing, and ends at the end of its input. In `server1.c` two pipes are opened
before the request is known, `AcceptClient` and `AskClient` are its accept and
its read. `DecWrite` and `DecRead` are `dec.c`. Failures of `fork` and `exec` are
left out.

## 3. What is checked

All safety and liveness is checked exhaustively for the instance given.

| run | instance | distinct states | shows |
|---|---|---|---|
| `bounded_queue` | 4 threads, 2 data, 2 slots, `SizeRange` 16, symmetry (safety and refinement only) | 4,553 | the ring, the mutex and the signals are right for arbitrary callers; the code implements `BoundedFifo` |
| `test_bqueue` | p = c = 2, n = 5, 2 slots, 1 spurious wakeup | 105,396 | each message consumed once and in order, EOS last, queue freed when unused, termination |
| `test_queue` | p = c = 2, n = 3, 8 blocks, 1 failing malloc, any spurious wakeups | 137,833 | list and memory right, nothing left but the data of a push that malloc refused, no consumer asleep beside an element that nobody is coming for, FIFO, termination unless main's own push failed |
| `ordered_philosophers` | N = 5 as in the source, 6 meals | 228,145 | no circular wait, exactly ITER meals, the dinner ends |
| `filosofi_odd` | NF = 5, 2 rounds, 1 failing lock or pthread_create, prompt start | 239,128 | every fork comes back, the dinner ends |
| `filosofi_race` (violation) | NF = 5, 1 round, no prompt start | 1,518,106 when found | a thread that reads the id NF takes fork NF - 1, then fork 1, and deadlocks with philosopher 0 |
| `manager_workers` | 2 workers, 2 clients, 1 request, kills and a signal | 519,133 | until the pairs of two workers are mixed: one owner per descriptor, `num_fd` covers the set, the master reads the flag that belongs to the descriptor, only a killed client or a signal ends the server, requests are answered, descriptors closed |
| `two_workers` (violation) | 2 workers, 2 clients, 1 request | about 6,800 when found | the flag the master reads is the descriptor of another worker (`es2.c:206`) |
| `socket_servers` | each of the 8 servers, 2 clients, 2 requests, 1 worker, 2 units, `Rooms` of 4 and 5, kills and a signal | 454,964 | one keeper per connection unless `&cfd` or the second close has struck; no client reads another's answer and frames stay in step; exactly why a server dies; requests answered and dead clients closed unless the pool, or the loop of a server of bc, is held by silent clients or a silent bc |
| `pipes` | pipedec with n = 0 ... 3, 4 programs with bc, tables of 14 descriptors | 987 | an end of file comes when it should; the descriptors that leak, and nothing else; everything ends unless bc is silent |
| `pipeline` | 5 lines (with an empty and a blank one, words repeated and colliding in the table), queues of 1 and 2, one failing allocation | 10,022 | one owner per block and what is left at the end, each word printed once, termination |
| `line_pipeline` (violation) | 2 lines of 2 words | about 75 when found | words of the second line printed in the place of the first (`es3_pipeline.c:75`) |

**Why these bounds.** *Queues*: two slots and more threads than slots make
producers and consumers wait at the same time, race with a thread on its way out
of a wait, and make both indices wrap; the theorems below remove the bound. *Test
programs*: two of each kind, `n` not a multiple of `p` so that the intervals
differ, more messages than slots. *Philosophers*: five is the number of the source
(and the least `es2_filosofi.c` accepts); more meals than philosophers lets the
same one eat again while a neighbour waits.

*ManagerWorkers*: two clients are enough for a descriptor to be reused while another
is in the queue, in a worker or in the pipe, and two workers for the writes of one to
fall around and between those of the other; a third would only wait for a client.
Requests are bounded by `MaxRequests` for all clients together: with one, a client
goes round the whole loop twice (its request, then its end) while the other connects,
leaves or is killed. With two requests the invariants hold too (1,631,547 states);
they are proved for any number, and liveness would take more time than a run has.
*Pipeline*: a queue of one place makes Stage1 block at every line.

*SocketServers*: two clients are enough for `cfd` to hold the next one, for a
descriptor closed once to be given again before the second close, and for one
client to keep the only worker from the other; two units make every read and
write of `conn.h` short at least once; `Rooms` lets `cmd` of `bcserver.c` make its
pipes once or twice, so that with two requests it fails, or does not. *Pipes*: a
table of 14 lets each program leak until `pipe` fails after a few requests, and
n = 3 passes the number both ways and ends in either process.

Bounds that are not in the code: `MaxSpurious`, `MaxFailures`, `MaxLost`,
`MaxErrors`, `MaxRequests`, `MaxFd` and `Rooms` (the limit of the system on
descriptors); the finite `Nodes` of `LinkedQueue` are as many as the run can ever
hold.

**Fairness.** `OrderedPhilosophers` and `Filosofi` assume only `WF(Next)`: the
program runs while some thread can. Mutexes give no order among those who wait,
and termination does not need one, because every philosopher who overtakes uses
up a meal or a round. `TestBQueue` assumes no more: who gets the mutex of the
queue is arbitrary, and the finite number of messages does the rest.
`TestQueue` and `Pipeline` assume weak fairness of each thread (each stage, main):
a thread that can go on for ever does in the end, which is what a preemptive
scheduler gives. `TestQueue` needs it because spurious wakeups are unbounded
there, and no fairness is assumed of them. `ManagerWorkers` assumes weak fairness
of the master, of each worker, and of a client that has something to receive;
none of what a client decides (to connect, ask, quit), of a kill or of a signal.
`SocketServers` assumes the same, and of a client of frames that it finishes the
message it has begun. `Pipes` assumes weak fairness of each process, and none of
what is typed or asked.

### Findings
The three violation runs are disagreements between code and comments, with the
lines quoted in `PROJECT.json`. Not separate runs, but seen with the same modules:

- `Filosofi` with `NF = 6` and prompt start also deadlocks: philosophers with an even
  id use the odd forks only and all take the left one first, those with an odd id
  the even forks, from the right; main accepts any NF from 5, and its usage message
  asks for more than 5;
- `OrderedPhilosophers` with `N = 1` deadlocks: both forks are one mutex, and main
  accepts 1;
- in `ManagerWorkers` a client that is killed between its request and the answer
  ends the whole server (the write fails with EPIPE, `SYSCALL` exits);
  `ServerSurvivesClients` therefore excludes killed clients, signals and mixed
  pairs, and nothing else;
- `deleteBQueue` with a function never returns: its loop (`boundedqueue.c:74`) ends
  when `pop` returns NULL, but `pop` blocks on an empty queue and `push` refuses
  NULL. No program of the repository passes a function;
- in `SocketServers` every client that types `quit` to `client1.c` kills the
  server (`server2.c`, `server3.c`, `lez10/es3.c`, `lez11/es1.c`), or at best is
  mistaken for one that asks for what is left in the buffer: the client closes
  without sending anything, read returns 0, the old text is answered and the write
  to the closed socket fails. Hence with that client a worker of `lez11/es1.c`
  never does what line 122 says, "LO SERVE FINCHE' NON TERMINA -> NE PRENDE UN
  ALTRO"; `ServerSurvives` lists this and every other way to die;
- in `testQueue.c` a push that fails leaves its data behind (line 32), and in
  `pipeline.c` a file without words the hash table (line 109);
- `bcserver.c` exits when `cmd` finds no descriptors for its pipes, of which each
  request keeps one (lines 40, 41): `ServerSurvives` lists it, and `RequestIsAnswered`
  and `GoneIsClosed` except the state in which bc says nothing and `cmd` waits for
  ever (line 60), with a client that may be gone;
- `toup_server.c` tests the end of file after the length but not after the body
  (line 52), and `bcserver.c` the other way round (line 100): a client that is
  killed inside its request ends the first, not the second;
- `bcserver_v2.c`, where a child holds the connection, survives whatever a client
  does; but `bcclient_v2.c` takes what one read returns for the whole answer, so the
  rest of an answer in two writes is shown as the answer to the next request;
- `toup_server_select.c` is ended by SIGPIPE when a client is killed while it waits
  for its answer, although `cmd` is written to survive an error of `writen`;
- in `Pipes` each of the four programs leaks the read end of the answer, so about a
  thousand requests use up the descriptors; `server1.c` leaks four at each `quit`;
  a request that prints nothing (`x=1`) blocks all of them for ever;
- a signal that arrives while the master is not in select is not acted upon until
  select fails for another reason; on the read of the pipe it ends the server with
  an error.

## 4. What is proved

Eight modules hold about 16,600 obligations, all discharged by SMT, Zenon and LS4.
Each theorem is of the form `Spec => []P`, for every value of the constants that
the named assumptions of the module allow. These assumptions say that sizes and
counts are numbers, that sets of threads, clients or blocks are finite, and that
the marks (`EOS`, `NULL`, `NoClient`, ...) are not confused with data: what the
types and the macros of the sources guarantee. TLC evaluates them in every run.

**BoundedQueue** (`BoundedQueueProofs`), from `QueueAssumption` (and
`FiniteThreads` where threads are counted), in layers, each using the ones before:
`TypeOK` (needs `AdvanceValue`: the wrap modulo `SizeRange` gives the next slot or
0, because `qsize < SizeRange`); `MutualExclusion`; `RingInv` - `tail` is `qlen`
slots after `head` and the slots in between, and no others, hold an element, which
is why the code's `assert`s never fail; `WakeupInv` - if somebody waits to consume,
the elements are no more than the consumers that are awake, and the same for
producers and free slots. This last is the strengthening that makes `NoLostWakeup`
inductive: a signal is consumed either by a thread that waits or, when nobody
waits, is not needed, and a thread that starts to wait has just seen the queue
empty. `QueueImplementsFifo` is the step simulation: `ItemsSequence`, `PutAppends`
and `TakeRemovesHead` say what the ring operations do to the abstract sequence.

**TestBQueue** (also `BoundedQueueProofs`), for any p, c, n and size of the queue. The
program is first seen on the abstract queue (`ViewStep`): each of its steps calls
an operation, appends, removes the oldest element, or does not touch the queue.
`TestInv` is inductive on that view: `Control` (main creates, joins, sends EOS and
deletes in this order, and waits at each joint), `EndsAreLast` (the EOS in the
queue are behind all messages, and as many as main has pushed less those that
consumers have left with), `Ordered` (the messages of one producer follow its
interval, those consumed before those in the queue). `ExactlyOnce` and
`SafeDelete`, which count slots, follow by a bijection between slots and positions
of the sequence. The `interval` of each producer is a recursive function: its
closed form, and that the intervals partition 0 ... n-1, are lemmas.
`TestUsesQueue` says that the program does nothing with its queue that a client may
not do; so what is proved above for arbitrary callers holds of it: no wakeup is
lost (`TestWakeups`), and its queue is the abstract one (`TestImplementsFifo`).

**LinkedQueue, TestQueue** (`LinkedQueueProofs`): `Inv == TypeOK /\ Linked /\
Owned`. That the list is well formed is not inductive alone: a push links its node
to `tail`, and that `tail` is not the dummy that some pop is about to free is a fact
about the owners of blocks. `Owned` says that each block in use is either in the
list or in the hands of one thread, so `push`, `pop` and `free` never meet. The
refinement to `BoundedFifo` takes the number of blocks as capacity; `RoomToPut` is
a pigeonhole argument on them: a thread that holds a block outside the list leaves
room in the list. For the program, `TestInv` says `Inv` until the delete, which is
safe because by then the list is empty and no block is held (`Control`,
`EndsAreLast`: c EOS have been had by c consumers, and nothing is behind the last
one). A `malloc` that fails in main leaves consumers without EOS: then there is no
delete, and the invariant still holds. `Memory` counts the ints of each value: those
in the list, with a consumer, and those of failed pushes. `ExactlyOnce` follows from
`Places` and, when the queue has been deleted, `Memory`.

**OrderedPhilosophers** (`PhilosophersProofs`), for N > 1: `ForksInv` is inductive;
`NeighboursDontEat` follows; `NoCircularWait` takes the lowest fork that somebody
waits for as his second one - its owner holds it as his first, so he waits for a
lower one still. `MealsAccounting`: the sum of the meals (a fold over a set in
the library, unfolded in lemmas on `SumFunction`), plus those who have taken a meal
and not eaten it, is what the counter has given out.

**Filosofi** (`FilosofiProofs`), for every NF from 5 and every outcome of the race
on the ids, so without `PromptStart`: `ForksInv` - the mutexes protect the forks
even when ids are equal; what the race breaks is the order, hence only progress.
Here the strengthening is `Created`: a thread that main has not created yet does
nothing, and one that starts reads a counter within its bounds.

**ManagerWorkers** (`ManagerWorkersProofs`), for any number of workers and of clients,
killed at any moment, and a signal at any moment, until a worker writes between the
two writes of another (`mixed`); `MixedStays` says that what has been mixed stays so,
and everything is proved under `~mixed`. `ServerInv` is inductive: `Custody` says
where a descriptor is while it is not in the set (queue, one of the workers, pipe,
master), and that there it is once; `Pairs` what the pipe holds - whole pairs, but
for a half that the master has read and a half that at most one worker has still to
write (`HalfRead`, `HalfWritten`), so that a descriptor and a flag are told apart by
their place only; `Flags` that the -1 in the pipe, or about to be written, is of a
client that has gone; `Scan` what the `for` loop knows of the descriptors that it
has not reached; `Conns` that a descriptor is left for each connection; `Turns`
that between a client and the server one thing at a time is going on, which is why
a client that quits by itself leaves nothing that makes a write fail. `OneOwner`,
`SelectSetSound`, `OnlyMixingBreaksPairs` and `ServerSurvivesClients` follow:
together with the run `two_workers` they say that the missing lock around the two
writes is the one thing that is wrong with the pipe, for a pool of any size.

**Pipeline** (`PipelineProofs`), for any file, any sizes of the queues and the
table, any hash function and any failures of malloc. `PipelineInv`: `Control`;
`EndsAreLast` - EOS is behind everything in both queues, and whoever has it finds
nothing else; `Once` - a line, and a word of it, is in one place at most; `Kept` -
a word that has left Stage2 is in Q2, was lost, or the table has an equal one;
`TableSound` - equal words meet in one bucket, so `icl_hash_find` sees them all;
`Owners` - who holds which block, `TableKept` - the table is in memory until it is
destroyed, and destroyed at the end if a word was inserted. `OneOwner` follows from `Owners`; `UniqueWords`
from `Kept` and `TableSound` with what `icl_hash_foreach` visits (`ForeachFacts`:
each entry once, bucket after bucket, through the library's recursive
`FlattenSeq`), `strtok_r` being the recursive `tokens` (`TokenFacts`).

**SocketServers** (`SocketServersProofs`), for the eight programs, any finite set of
clients, any number of workers in the pool, any number of units that a transfer
may be cut into, clients killed at any moment and a signal at any moment. `Core` is
inductive alone: `Modes` (which program can be at which point), `Conns` (a
connection has one client and a client one connection, in the backlog or open),
`Custody` and `SelectSet` (each open descriptor is with main, in the queue, with
one thread, or in the set of select, where what is still to be scanned is open).
Since there are no more connections than clients, `accept` finds a descriptor
within `Fds` (`LowestFact`, a pigeonhole argument), so the size of that set restricts
nothing. `OneKeeper` counts what `Custody` says. `TextTurns` is, for each client of
texts, whose turn it is and what the two streams hold meanwhile: at most one
welcome, one request or one answer, and a server between reading and writing has
the request of the client that waits. `FrameTurns` is the same for frames cut by
`readn` and `writen`: `Meet` lists the pairs of places (in the length or the body,
so many units to go) where a client and its thread may be together, with the
streams between them, and each step of either side leads from one such pair to
another. `InSync` follows from the two. `ServerSurvives` is proved step by step: one
that calls `exit` is taken where a client has already gone in the wrong way
(`Doomed`), or is `bcserver.c` without four descriptors for the pipes of `cmd`
(`OutOfRoom`). `TextTurns`, like the part of `InSync` on texts, has the hypothesis
`~raced`: once a thread of `server2.c` or `es3.c` has read the `cfd` of another
connection through main's address, or closed a descriptor for the second time that
was another client's by then, two threads serve one client, as section 3 says; for
the other programs `raced` is never true.

**Pipes** (`PipesProofs`), for the five programs, tables of any size from 9
descriptors, any argument of `pipedec` and any number of requests, so whatever
has been leaked before. `OnlyPeerWrites` is not inductive: that a reader waits for
its peer alone depends on who has the *other* pipe, since the end of one process
is what lets the next one end. `Inv` therefore says who has each of the four ends
that are in use (`TwoPipes`): main, which at each point has closed just what the
source says (`MainEnds`); a child that was just forked, which has what main had
(`Forked`); bc, which has its two ends once from `dup2` and once more as it never
closed the first (`BcHas`); the two `dec` (`DecHas`); and nobody has them anywhere
else (`Only`). With `Control`, where main and its children can be, `OnlyPeerWrites`
is read off. `Leaks` adds that the programs other than `server1.c` have kept nothing
but read ends, one for each request, and that between requests three descriptors
at least are free, those that the next `pipe` fills and main closes again: hence
`LeaksReadEnds`, with `OpenPipes` failing only when fewer than four are left. That
`OpenPipes` finds two pipes of the model that nobody uses is a pigeonhole argument
(lemma `UnusedPipes`). `MainIsNotKilled`: no program dies by SIGPIPE in main,
because the reader of its write is a bc that cannot have ended before main closes.

**Induction over data.** The library's induction theorems take an operator as a
parameter and cannot be instantiated here. The proofs use their first-order
form instead: a set of numbers that is not empty has a smallest element (lemma
`Smallest`, from `WFMin`), applied to the set of counterexamples. In this way a
recursive function is shown to exist (`IntervalExists`, `FoundExists`,
`ChainedExists`), and then to have the values that the proofs need.

**Only model-checked.** All liveness (termination, requests answered), which is
out of the prover's reach, as is ENABLED. Every safety property of a passing run
is stated by a theorem; that of `LinePipeline` is false. No module that is proved about reaches a RECURSIVE operator.

## 5. Not modelled

The sequential exercises of `lez1` ... `lez5` and the command line, formatting and
logging of every program. Functions without a caller: `icl_hash_delete`,
`icl_hash_update_insert` and `icl_hash_dump` (reading them shows that the first
increments `nentries`, the second unlinks with a stale `prev`), `printer_hash`,
`sizeList`, `printList` in `es3_pipeline.c` (`printer_hash` frees words inside
the reader's buffer). In `Pipeline` the characters of a line (its last one is cut
even when it is not a newline). In `LinePipeline` words `-1` of the file, which
the printer would take for the end. In `ManagerWorkers`, FD_SETSIZE and the node
that `removeNode` leaks. The fifo server, `lez10/es1.c`, the producers and consumers of `lez7` and
`lez8/es1.c` and the process trees of `lez6` have no module yet (section 6).

## 6. Plan

Modelled so far, in the order of importance: the queues and their tests, the
philosophers, the server with select and a pool, the pipelines, the other servers
and their clients, the programs on pipes. Next:

1. `FifoServer` - the public fifo, the private ones, 11 tries to open;
2. `SignalCounter` - handler against poll in `lez10/es1.c`;
3. `ListQueue` - `lez8/es1.c`, and the one-place programs of lez7.

The list of runs is kept short, one per question: the servers share their clients
and sockets in one module, so that each variant adds properties, not runs, and
the properties that theorems establish for every instance (`MutualExclusion` of
`BoundedQueue`, `NeighboursDontEat` of `OrderedPhilosophers`) are left to the
proofs. In `TestBQueue`, `ManagerWorkers`, `SocketServers` and `Pipes` the type
invariant is checked as a conjunct of `ExactlyOnce`, `OneOwner`, `OneKeeper` and
`LeaksReadEnds`.
