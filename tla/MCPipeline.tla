----------------------------- MODULE MCPipeline -----------------------------
(***************************************************************************)
(* TLC instance of Pipeline: queues of one line and of two words, so that  *)
(* each stage waits for the next; a word that comes back on another line,  *)
(* an empty line, a line of blanks, two words that share a bucket.         *)
(***************************************************************************)
EXTENDS Pipeline

CONSTANTS uno, due, tre

File == << <<uno, Blank, due>>, <<>>, <<Blank>>, <<tre, uno, tre>>, <<due>> >>
Hash == (uno :> 5) @@ (due :> 2) @@ (tre :> 3)
=============================================================================
