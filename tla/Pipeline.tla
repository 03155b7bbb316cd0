------------------------------ MODULE Pipeline ------------------------------
(***************************************************************************)
(* lez7/es7/pipeline.c: Stage1 reads the lines of a file into Q1, Stage2   *)
(* splits them into words and pushes these on Q2, Stage3 keeps one copy of *)
(* each word in a hash table and prints them after the end of the stream.  *)
(*                                                                         *)
(* The two queues are BoundedFifo, which boundedqueue.c implements         *)
(* (BoundedQueueProofs).  A stage is at "idle" outside the queues; what it *)
(* does on its own data until the next call is part of the step in which   *)
(* the last one returns, except where it allocates or frees.               *)
(*                                                                         *)
(* A line is the sequence of its words and blanks, without its newline.    *)
(* The block of line l is <<l, 0>>, its k-th word is copied into <<l, k>>, *)
(* and <<0, 0>> is the block that Stage1 reads into, until it is pushed.   *)
(* <<0, 1>> stands for the table itself, its buckets and its entries.      *)
(***************************************************************************)
EXTENDS Integers, Sequences, FiniteSets, SequencesExt

CONSTANTS file,         \* the lines of the file
          Blank,        \* a run of blanks in a line
          Q1size, Q2size,   \* arguments of initBQueue, 100 and 1000
          NBUCKETS, hash,   \* of the hash table; hash gives every string a number
          EOS, NULL,
          MaxLost       \* bound: words for which an allocation fails

ASSUME PipelineAssumption ==
    /\ {Q1size, Q2size, NBUCKETS} \subseteq Nat \ {0}
    /\ MaxLost \in Nat
    /\ hash \in [DOMAIN hash -> Nat]
    /\ file \in Seq(Seq(DOMAIN hash \cup {Blank}))

(* The marks are no values: EOS is no line and no word, NULL is neither    *)
(* EOS nor a table nor a sequence of strings.                              *)
ASSUME MarksAssumption ==
    /\ EOS \notin Nat /\ EOS \notin Nat \X Nat /\ EOS # NULL
    /\ NULL \notin [0 .. NBUCKETS - 1 -> Seq(Nat \X Nat)]
    /\ NULL \notin Seq(DOMAIN hash)

VARIABLES items1, op1, val1,    \* Q1, see BoundedFifo
          items2, op2, val2,    \* Q2
          line,         \* Stage1: the next line of the file
          k,            \* Stage2: the next token of its line, 0 without one
          table,        \* Stage3: hash_table, NULL if it could not be created
          inserted,     \* Stage3: at_least_one_insert
          heap,         \* the blocks of lines and words, and of the table, in use
          lost,         \* auxiliary: words for which an allocation failed
          printed,      \* what Stage3 has printed, NULL before
          deleted       \* main has joined the stages and deleted the queues

queue1 == <<items1, op1, val1>>
queue2 == <<items2, op2, val2>>
vars == <<queue1, queue2, line, k, table, inserted, heap, lost, printed, deleted>>

Q1 == INSTANCE BoundedFifo WITH
    Threads <- {"Stage1", "Stage2"}, Data <- DOMAIN file \cup {EOS},
    Capacity <- Q1size, items <- items1, op <- op1, val <- val1
Q2 == INSTANCE BoundedFifo WITH
    Threads <- {"Stage2", "Stage3"}, Data <- ((1 .. Len(file)) \X Nat) \cup {EOS},
    Capacity <- Q2size, items <- items2, op <- op2, val <- val2

Buffer == <<0, 0>>
Table == <<0, 1>>

\* strtok_r(line, " ") skips the blanks.
tokens(l) ==
    LET found[j \in 0 .. Len(file[l])] ==
            IF j = 0 THEN <<>>
            ELSE IF file[l][j] = Blank THEN found[j - 1]
            ELSE Append(found[j - 1], file[l][j])
    IN  found[Len(file[l])]
Word(t) == tokens(t[1])[t[2]]

INSTANCE IclHash WITH String <- Word

\* Stage1 has no buffer if fopen or its first malloc fails, Stage3 no table
\* if icl_hash_create does.
Init == /\ Q1!Init /\ Q2!Init
        /\ line = 1 /\ k = 0
        /\ heap \in SUBSET {Buffer, Table}
        /\ table = IF Table \in heap THEN icl_hash_create ELSE NULL
        /\ inserted = FALSE
        /\ lost = {}
        /\ printed = NULL
        /\ deleted = FALSE

Reading == op1["Stage1"] = "idle" /\ val1["Stage1"] # EOS

\* An empty line is not pushed.
SkipLine ==
    /\ Reading /\ Buffer \in heap /\ line <= Len(file)
    /\ file[line] = <<>>
    /\ line' = line + 1
    /\ UNCHANGED <<queue1, queue2, k, table, inserted, heap, lost, printed, deleted>>

ReadLine ==
    /\ Reading /\ Buffer \in heap /\ line <= Len(file)
    /\ file[line] # <<>>
    /\ Q1!CallPush("Stage1", line)
    /\ UNCHANGED <<queue2, line, k, table, inserted, heap, lost, printed, deleted>>

\* The line is in Q1, and the next buffer is allocated, or cannot be.
PushLine ==
    /\ val1["Stage1"] # EOS
    /\ Q1!Push("Stage1")
    /\ line' = line + 1
    /\ heap' \in {heap \cup {<<line, 0>>}, (heap \ {Buffer}) \cup {<<line, 0>>}}
    /\ UNCHANGED <<queue2, k, table, inserted, lost, printed, deleted>>

\* The loop ends: free(line), push(Q1, EOS).
EndOfFile ==
    /\ Reading
    /\ Buffer \in heap => line > Len(file)
    /\ heap' = heap \ {Buffer}
    /\ Q1!CallPush("Stage1", EOS)
    /\ UNCHANGED <<queue2, line, k, table, inserted, lost, printed, deleted>>

PushEOS ==
    /\ val1["Stage1"] = EOS
    /\ Q1!Push("Stage1")
    /\ UNCHANGED <<queue2, line, k, table, inserted, heap, lost, printed, deleted>>

Stage1 == SkipLine \/ ReadLine \/ PushLine \/ EndOfFile \/ PushEOS

InHand == val1["Stage2"]
Splitting == /\ op1["Stage2"] = "idle" /\ op2["Stage2"] = "idle"
             /\ k > 0 /\ InHand # EOS

WaitLine ==
    /\ op1["Stage2"] = "idle" /\ op2["Stage2"] = "idle"
    /\ k = 0 /\ val2["Stage2"] # EOS
    /\ Q1!CallPop("Stage2")
    /\ UNCHANGED <<queue2, line, k, table, inserted, heap, lost, printed, deleted>>

PopLine ==
    /\ Q1!Pop("Stage2")
    /\ k' = 1
    /\ UNCHANGED <<queue2, line, table, inserted, heap, lost, printed, deleted>>

\* strdup(token), push(Q2, tout)
Token ==
    /\ Splitting /\ k <= Len(tokens(InHand))
    /\ heap' = heap \cup {<<InHand, k>>}
    /\ Q2!CallPush("Stage2", <<InHand, k>>)
    /\ UNCHANGED <<queue1, line, k, table, inserted, lost, printed, deleted>>

\* strdup fails: push refuses the null pointer, and nobody looks.
TokenFails ==
    /\ Splitting /\ k <= Len(tokens(InHand))
    /\ Cardinality(lost) < MaxLost
    /\ lost' = lost \cup {<<InHand, k>>}
    /\ k' = k + 1
    /\ UNCHANGED <<queue1, queue2, line, table, inserted, heap, printed, deleted>>

PushToken ==
    /\ Q2!Push("Stage2")
    /\ k' = IF val2["Stage2"] = EOS THEN 0 ELSE k + 1
    /\ UNCHANGED <<queue1, line, table, inserted, heap, lost, printed, deleted>>

\* Fault: the line is not freed.
KeepLine ==
    /\ Splitting /\ k > Len(tokens(InHand))
    /\ k' = 0
    /\ UNCHANGED <<queue1, queue2, line, table, inserted, heap, lost, printed, deleted>>

FreeLine ==
    /\ Splitting /\ k > Len(tokens(InHand))
    /\ heap' = heap \ {<<InHand, 0>>}
    /\ k' = 0
    /\ UNCHANGED <<queue1, queue2, line, table, inserted, lost, printed, deleted>>

\* Fault: Stage2 returns at EOS without forwarding it.
SwallowEOS ==
    /\ k > 0 /\ InHand = EOS
    /\ k' = 0
    /\ val2' = [val2 EXCEPT !["Stage2"] = EOS]
    /\ UNCHANGED <<queue1, items2, op2, line, table, inserted, heap, lost, printed, deleted>>

\* The loop ends at EOS, which is forwarded.
ForwardEOS ==
    /\ k > 0 /\ InHand = EOS /\ op2["Stage2"] = "idle"
    /\ Q2!CallPush("Stage2", EOS)
    /\ UNCHANGED <<queue1, line, k, table, inserted, heap, lost, printed, deleted>>

Stage2 == \/ WaitLine \/ PopLine \/ Token \/ TokenFails \/ PushToken
          \/ FreeLine \/ ForwardEOS

WaitToken ==
    /\ op2["Stage3"] = "idle" /\ val2["Stage3"] # EOS
    /\ Q2!CallPop("Stage3")
    /\ UNCHANGED <<queue1, line, k, table, inserted, heap, lost, printed, deleted>>

\* A word that is new is inserted, any other is freed.  An insertion that
\* fails leaves the word outside the table and in memory, and counts as one.
PopToken ==
    /\ items2 # <<>> /\ Head(items2) # EOS
    /\ Q2!Pop("Stage3")
    /\ LET t == Head(items2)
       IN  IF table # NULL /\ ~icl_hash_find(table, t)
           THEN /\ \/ table' = icl_hash_insert(table, t) /\ UNCHANGED lost
                   \/ /\ Cardinality(lost) < MaxLost
                      /\ lost' = lost \cup {t}
                      /\ UNCHANGED table
                /\ inserted' = TRUE
                /\ UNCHANGED heap
           ELSE heap' = heap \ {t} /\ UNCHANGED <<table, inserted, lost>>
    /\ UNCHANGED <<queue1, line, k, printed, deleted>>

\* The table is printed and destroyed with its words, but only if one was
\* inserted.
PrintWords ==
    /\ items2 # <<>> /\ Head(items2) = EOS
    /\ Q2!Pop("Stage3")
    /\ IF table # NULL /\ inserted
       THEN LET entries == icl_hash_foreach(table)
            IN  /\ printed' = [e \in DOMAIN entries |-> Word(entries[e])]
                /\ heap' = heap \ (ToSet(entries) \cup {Table})
       ELSE printed' = <<>> /\ UNCHANGED heap
    /\ UNCHANGED <<queue1, line, k, table, inserted, lost, deleted>>

Stage3 == WaitToken \/ PopToken \/ PrintWords

Ended == /\ op1["Stage1"] = "idle" /\ val1["Stage1"] = EOS
         /\ op2["Stage2"] = "idle" /\ val2["Stage2"] = EOS
         /\ printed # NULL

\* main joins the stages and deletes the queues.
Main == /\ Ended /\ ~deleted
        /\ deleted' = TRUE
        /\ UNCHANGED <<queue1, queue2, line, k, table, inserted, heap, lost, printed>>

Terminated == deleted /\ UNCHANGED vars

Next == Stage1 \/ Stage2 \/ Stage3 \/ Main \/ Terminated

(* Every stage that can go on does in the end: a thread that runs is       *)
(* scheduled, and a wakeup of the queue is never lost (BoundedQueueProofs).*)
Spec == /\ Init /\ [][Next]_vars
        /\ WF_vars(Stage1) /\ WF_vars(Stage2) /\ WF_vars(Stage3) /\ WF_vars(Main)
-----------------------------------------------------------------------------
Entries == IF table = NULL \/ printed # NULL THEN {} ELSE ToSet(icl_hash_foreach(table))
Lines == (ToSet(items1) \cup (IF k > 0 THEN {InHand} ELSE {})) \ {EOS}
Tokens == (ToSet(items2) \cup
           (IF op2["Stage2"] = "push" THEN {val2["Stage2"]} ELSE {})) \ {EOS}

(* Every block of memory has one owner: the buffer of Stage1, the lines in *)
(* Q1 and in Stage2, the words on their way, the table and its words.      *)
(* What nobody owns is the word that the table refused for want of memory. *)
(* At the end nothing is left but that word and, when no word has reached  *)
(* Stage3, the table, which is then not destroyed.                         *)
OneOwner ==
    /\ heap = (heap \cap {Buffer, Table}) \cup {<<l, 0>> : l \in Lines}
                \cup Tokens \cup Entries \cup (heap \cap lost)
    /\ Tokens \cap Entries = {} /\ (heap \cap lost) \cap (Tokens \cup Entries) = {}
    /\ deleted => heap = (heap \cap lost)
                          \cup (IF table # NULL /\ ~inserted THEN {Table} ELSE {})

(* What is printed is each word of the lines read, once: whatever way the  *)
(* three stages are scheduled and the queues fill, no word is lost and EOS *)
(* overtakes none.  Only a failing allocation loses words.                 *)
UniqueWords ==
    printed # NULL =>
        /\ Len(printed) = Cardinality(ToSet(printed))
        /\ ToSet(printed) =
              IF table = NULL THEN {}
              ELSE UNION {{Word(t) : t \in {<<l, j>> : j \in DOMAIN tokens(l)} \ lost}
                            : l \in 1 .. line - 1}

(* The program ends: the stages block on full and on empty queues, but EOS *)
(* reaches the last of them, also when the file cannot be read.            *)
Termination == <>deleted
=============================================================================
