----------------------- MODULE MCOrderedPhilosophers -----------------------
(***************************************************************************)
(* TLC instance of OrderedPhilosophers: five philosophers as in the        *)
(* source, with fewer meals to share.                                      *)
(***************************************************************************)
EXTENDS OrderedPhilosophers
=============================================================================
