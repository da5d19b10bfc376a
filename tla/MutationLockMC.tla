--------------------------- MODULE MutationLockMC ---------------------------
(* Small instances of MutationLock for TLC.  Processes and inode numbers are *)
(* interchangeable, so both are symmetry sets in the safety runs.            *)
EXTENDS MutationLock, TLC

Symmetry == Permutations(Procs) \cup Permutations(Inodes)

=============================================================================
