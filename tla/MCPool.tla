------------------------------- MODULE MCPool -------------------------------
(* ConnectionPool for TLC: interchangeable threads.                        *)
EXTENDS ConnectionPool, TLC

ThreadSymmetry == Permutations(Threads)
=============================================================================
