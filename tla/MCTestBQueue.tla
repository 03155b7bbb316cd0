---------------------------- MODULE MCTestBQueue ----------------------------
(***************************************************************************)
(* TLC instance of TestBQueue: more messages than slots, an interval       *)
(* longer than the other one (n % p = 1), one spurious wakeup anywhere.    *)
(***************************************************************************)
EXTENDS TestBQueue
=============================================================================
