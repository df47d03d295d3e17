------------------------ MODULE MCConnectionManager ------------------------
(* TLC instances of ConnectionManager.  The client threads are              *)
(* interchangeable, which halves the runs with two of them.                 *)
EXTENDS ConnectionManager, TLC

ThreadSymmetry == Permutations(Threads)
============================================================================
