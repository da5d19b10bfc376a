--------------------------- MODULE BrowseSessionMC ---------------------------
(* Small instances of BrowseSession.                                         *)
EXTENDS BrowseSession

Symmetry == Permutations(Procs) \cup Permutations(Sessions)

=============================================================================
