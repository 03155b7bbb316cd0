-------------------------- MODULE MCSocketServers --------------------------
(***************************************************************************)
(* TLC instances of SocketServers.                                         *)
(***************************************************************************)
EXTENDS SocketServers
=============================================================================
