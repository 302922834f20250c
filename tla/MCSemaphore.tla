---------------------------- MODULE MCSemaphore ----------------------------
(* Semaphore with three threads and an interrupt handler, for TLC.         *)
EXTENDS Semaphore, TLC

CONSTANTS t1, t2, t3, h1

MCThreads == {t1, t2, t3}
Symmetry == Permutations(MCThreads)
=============================================================================
