-------------------------- MODULE MCManagerWorkers --------------------------
(***************************************************************************)
(* TLC instances of ManagerWorkers.                                        *)
(***************************************************************************)
EXTENDS ManagerWorkers
=============================================================================
