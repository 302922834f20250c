------------------------------- MODULE MCVFS -------------------------------
(* Small instances of VFS for TLC. *)
EXTENDS VFS, TLC

CONSTANTS t1, t2, t3, fs1, fs2, root, disk

Symmetry == Permutations(Threads) \cup Permutations(Filesystems) \cup Permutations(Volumes)
=============================================================================
