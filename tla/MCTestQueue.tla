---------------------------- MODULE MCTestQueue ----------------------------
(***************************************************************************)
(* TLC instance of TestQueue: two producers with intervals of different    *)
(* length and two consumers, on a heap that is never exhausted.            *)
(***************************************************************************)
EXTENDS TestQueue
=============================================================================
