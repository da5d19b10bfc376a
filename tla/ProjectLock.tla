----------------------------- MODULE ProjectLock -----------------------------
(* What the project mutation lock promises to the code between its            *)
(* acquisition and its release: a free lock goes to one process at a time,    *)
(* and a held one comes back by a release or by its owner's death.  The lock  *)
(* file of MutationLock implements it; the publication modules rely on it.    *)
EXTENDS Naturals

CONSTANTS Procs, None

ASSUME ProjectLockAssumption == None \notin Procs

VARIABLE lockHolder

LockInit == lockHolder = None

Acquire(p) == lockHolder = None /\ lockHolder' = p

LetGo(p) == lockHolder = p /\ lockHolder' = None

LockNext == \E p \in Procs : Acquire(p) \/ LetGo(p)

LockSpec == LockInit /\ [][LockNext]_lockHolder

=============================================================================
