----------------------------- MODULE MCFilosofi -----------------------------
(***************************************************************************)
(* TLC instances of Filosofi: five philosophers, the least that main       *)
(* accepts.                                                                *)
(***************************************************************************)
EXTENDS Filosofi
=============================================================================
