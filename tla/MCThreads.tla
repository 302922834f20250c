----------------------------- MODULE MCThreads -----------------------------
(* Threads on two processors, for TLC.                                     *)
EXTENDS Threads, TLC

CONSTANTS c1, c2

MCCPUs == {c1, c2}
Symmetry == Permutations(MCCPUs)
=============================================================================
