------------------------------ MODULE MCPipes ------------------------------
(***************************************************************************)
(* TLC instances of Pipes.                                                 *)
(***************************************************************************)
EXTENDS Pipes
=============================================================================
