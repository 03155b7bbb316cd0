--------------------------- MODULE MCBoundedQueue ---------------------------
(***************************************************************************)
(* TLC instance of BoundedQueue: t1..t4 call push and pop in any order on  *)
(* a queue smaller than the number of threads, so that producers and       *)
(* consumers wait, race for the mutex after a wakeup, and head and tail    *)
(* wrap around.  Threads and data are interchangeable.                     *)
(***************************************************************************)
EXTENDS BoundedQueue, TLC

Symmetry == Permutations(Threads) \cup Permutations(Data)
=============================================================================
