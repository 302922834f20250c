------------------------------- MODULE MCDisk -------------------------------
(* Disk with up to three threads and two processors, for TLC.              *)
EXTENDS Disk, TLC

CONSTANTS t1, t2, t3, h1, h2, d1, d2

Symmetry == Permutations({t1, t2, t3}) \cup Permutations({h1, h2})
=============================================================================
