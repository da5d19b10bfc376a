-------------------------- MODULE FirstRenderLoopMC --------------------------
(* Small instances of FirstRenderLoop.                                      *)
EXTENDS FirstRenderLoop, TLC

\* Commands, files and feedback are interchangeable.
Symmetry == Permutations(Procs) \cup Permutations(Files) \cup Permutations(Feedbacks)

=============================================================================
