--------------------------- MODULE MCLinePipeline ---------------------------
(***************************************************************************)
(* TLC instance of LinePipeline: two lines of two words.                   *)
(***************************************************************************)
EXTENDS LinePipeline

CONSTANTS nel, mezzo, del, cammin

File == << <<nel, mezzo>>, <<del, cammin>> >>
=============================================================================
