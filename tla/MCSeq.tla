-------------------------------- MODULE MCSeq --------------------------------
(* SeqAllocator for TLC: two nodes, the first with two IO threads.           *)
EXTENDS SeqAllocator, TLC

CONSTANTS n1, n2, t1, t2, t3

ThreadNode == [t \in Threads |-> IF t = t3 THEN n2 ELSE n1]
=============================================================================
