---------------------------- MODULE LinePipeline ----------------------------
(***************************************************************************)
(* lez7/es3_pipeline.c: a reader inserts lines in buffer_righe, a          *)
(* tokenizer takes them, splits them and inserts the words in              *)
(* buffer_parole, a printer prints them.  What goes through the two lists  *)
(* are pointers into the one buffer `line' of the reader, which fgets      *)
(* overwrites and where strtok writes the ends of the words.               *)
(*                                                                         *)
(* The buffer is a sequence of words.  All words have the same length, so  *)
(* that the k-th word of every line is at the same place; NULs are the     *)
(* words that are followed by the end of a string instead of a blank.  A   *)
(* pointer is the place of a word, or the constant string "-1".  What a    *)
(* thread does with a mutex held is one step; the signal of every insert   *)
(* wakes the one thread that can wait for it.  A lock that fails is tried  *)
(* again by who removes; an insert that fails ends the process, unless it  *)
(* is that of a "-1", where nobody looks.                                  *)
(***************************************************************************)
EXTENDS Integers, Sequences, FiniteSets, SequencesExt

CONSTANTS file,     \* the lines of the file, sequences of words
          Places,   \* the places of the buffer, from 1
          Void,     \* what is in the buffer at the beginning
          EOS       \* the string "-1"

VARIABLES buffer, NULs,             \* char line[data_size], of the reader
          next,                     \* the next line of the file
          buffer_righe, buffer_parole,  \* the lists, oldest first
          reader, tokenizer, printer,   \* where each thread is
          token,                    \* the last word that strtok found
          atEnd,                    \* it ended at a NUL, not at a blank
          word,                     \* the pointer that the printer has taken
          printed                   \* the strings printed

text == <<buffer, NULs>>
vars == <<text, next, buffer_righe, buffer_parole, reader, tokenizer, printer,
          token, atEnd, word, printed>>

Init == /\ buffer = [p \in Places |-> Void]
        /\ NULs = Places
        /\ next = 1
        /\ buffer_righe = <<>> /\ buffer_parole = <<>>
        /\ reader = "fgets" /\ tokenizer = "take" /\ printer = "take"
        /\ token = 0 /\ atEnd = FALSE
        /\ word = EOS
        /\ printed = <<>>

\* exit(EXIT_FAILURE), from any thread.
Exit == reader' = "exit" /\ tokenizer' = "exit" /\ printer' = "exit"

\* fgets overwrites as much of the buffer as the line needs.
Fgets ==
    /\ reader = "fgets" /\ next <= Len(file)
    /\ LET length == Len(file[next])
       IN  /\ buffer' = [p \in Places |->
                            IF p <= length THEN file[next][p] ELSE buffer[p]]
           /\ NULs' = (NULs \ (1 .. length)) \cup {length}
    /\ next' = next + 1
    /\ reader' = "insert"
    /\ UNCHANGED <<buffer_righe, buffer_parole, tokenizer, printer, token, atEnd,
                   word, printed>>

InsertLine ==
    /\ reader = "insert"
    /\ \/ /\ buffer_righe' = Append(buffer_righe, 1)
          /\ reader' = "nanosleep"
          /\ UNCHANGED <<tokenizer, printer>>
       \/ Exit /\ UNCHANGED buffer_righe
    /\ UNCHANGED <<text, next, buffer_parole, token, atEnd, word, printed>>

\* The sleep lasts some time, which says nothing of what the others do.
Sleep ==
    /\ reader = "nanosleep"
    /\ reader' = "fgets"
    /\ UNCHANGED <<text, next, buffer_righe, buffer_parole, tokenizer, printer,
                   token, atEnd, word, printed>>

\* The end of the file; the reader returns.
InsertEOS ==
    /\ reader = "fgets" /\ next > Len(file)
    /\ buffer_righe' \in {Append(buffer_righe, EOS), buffer_righe}
    /\ reader' = "done"
    /\ UNCHANGED <<text, next, buffer_parole, tokenizer, printer, token, atEnd,
                   word, printed>>

\* removeNode(&buffer_righe)
TakeLine ==
    /\ tokenizer = "take" /\ buffer_righe # <<>>
    /\ tokenizer' = IF Head(buffer_righe) = EOS THEN "eos" ELSE "strtok"
    /\ buffer_righe' = Tail(buffer_righe)
    /\ token' = 0 /\ atEnd' = FALSE
    /\ UNCHANGED <<text, next, buffer_parole, reader, printer, word, printed>>

(* strtok goes on after the last word it found, if that was followed by a  *)
(* blank, or is now; it writes a NUL after the word that it returns.       *)
Strtok ==
    /\ tokenizer = "strtok"
    /\ IF (atEnd /\ token \in NULs) \/ token + 1 \notin Places
       THEN tokenizer' = "take" /\ UNCHANGED <<text, token, atEnd>>
       ELSE /\ token' = token + 1
            /\ atEnd' = (token + 1 \in NULs)
            /\ NULs' = NULs \cup {token + 1}
            /\ tokenizer' = "insert"
            /\ UNCHANGED buffer
    /\ UNCHANGED <<next, buffer_righe, buffer_parole, reader, printer, word, printed>>

InsertWord ==
    /\ tokenizer = "insert"
    /\ \/ /\ buffer_parole' = Append(buffer_parole, token)
          /\ tokenizer' = "strtok"
          /\ UNCHANGED <<reader, printer>>
       \/ Exit /\ UNCHANGED buffer_parole
    /\ UNCHANGED <<text, next, buffer_righe, token, atEnd, word, printed>>

ForwardEOS ==
    /\ tokenizer = "eos"
    /\ buffer_parole' \in {Append(buffer_parole, EOS), buffer_parole}
    /\ tokenizer' = "done"
    /\ UNCHANGED <<text, next, buffer_righe, reader, printer, token, atEnd, word,
                   printed>>

\* removeNode(&buffer_parole)
TakeWord ==
    /\ printer = "take" /\ buffer_parole # <<>>
    /\ word' = Head(buffer_parole)
    /\ buffer_parole' = Tail(buffer_parole)
    /\ printer' = "print"
    /\ UNCHANGED <<text, next, buffer_righe, reader, tokenizer, token, atEnd, printed>>

\* The words from the place to the first NUL.
string(place) ==
    LET end == CHOOSE e \in NULs : /\ e >= place
                                   /\ \A f \in NULs : f >= place => e <= f
    IN  IF place = EOS THEN <<EOS>> ELSE SubSeq(buffer, place, end)

\* The string -1 ends the loop, any other is printed.
PrintWord ==
    /\ printer = "print"
    /\ IF string(word) = <<EOS>>
       THEN printer' = "done" /\ UNCHANGED printed
       ELSE printer' = "take" /\ printed' = Append(printed, string(word))
    /\ UNCHANGED <<text, next, buffer_righe, buffer_parole, reader, tokenizer, token,
                   atEnd, word>>

\* The threads have returned or called exit, or wait for a "-1" that is lost.
Ended == /\ reader \in {"done", "exit"}
         /\ tokenizer = "take" => buffer_righe = <<>>
         /\ tokenizer \in {"take", "done", "exit"}
         /\ printer = "take" => buffer_parole = <<>>
         /\ printer \in {"take", "done", "exit"}
         /\ UNCHANGED vars

Next == \/ Fgets \/ InsertLine \/ Sleep \/ InsertEOS
        \/ TakeLine \/ Strtok \/ InsertWord \/ ForwardEOS
        \/ TakeWord \/ PrintWord
        \/ Ended

Spec == Init /\ [][Next]_vars
-----------------------------------------------------------------------------
(* What the printer prints are the words of the file, one by one and in    *)
(* their order ("legge il file per righe", line 69, and "prende una parola *)
(* (la prima) dal secondo buffer", line 152).                              *)
PrintsTheFile == IsPrefix(printed, [k \in DOMAIN FlattenSeq(file) |->
                                        <<FlattenSeq(file)[k]>>])
=============================================================================
