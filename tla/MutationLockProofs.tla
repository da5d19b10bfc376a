------------------------- MODULE MutationLockProofs -------------------------
(***************************************************************************)
(* Proofs about MutationLock for every set of processes, invocations and   *)
(* inode numbers: type correctness in every environment, and the safety of *)
(* the lock where recoveries do not overlap and no remembered inode number *)
(* is reused (QuietRecovery).                                              *)
(***************************************************************************)
EXTENDS MutationLock, TLAPS

\* Every variable keeps its type in every environment: no path of the lock
\* code leaves a state its own guards do not foresee.
THEOREM TypeCorrect == Spec => []TypeOK
<1>1. Init => TypeOK
  BY MutationLockAssumption DEF Init, TypeOK, Locations
<1>2. TypeOK /\ [Next]_vars => TypeOK'
  <2> SUFFICES ASSUME TypeOK, [Next]_vars
               PROVE  TypeOK'
    OBVIOUS
  <2> USE MutationLockAssumption
      DEF TypeOK, Locations, Acquiring, Recovering, Releasing, Goto, Return,
          fileVars, callVars, entryVars, taskVars
  <2>1. CASE UNCHANGED vars
    BY <2>1 DEF vars
  <2>2. ASSUME NEW p \in Procs, Create(p)
        PROVE  TypeOK'
    <3>1. CASE Guarded(p, inv[p])
      BY <2>2, <3>1 DEF Create
    <3>2. CASE ~Guarded(p, inv[p])
      BY <2>2, <3>2, ZenonT(40) DEF Create, GiveUp
    <3>3. QED
      BY <3>1, <3>2
  <2>3. ASSUME NEW p \in Procs, Fill(p)
        PROVE  TypeOK'
    BY <2>3 DEF Fill
  <2>4. ASSUME NEW p \in Procs, LinkTaken(p)
        PROVE  TypeOK'
    BY <2>4 DEF LinkTaken
  <2>5. ASSUME NEW p \in Procs, LinkExists(p)
        PROVE  TypeOK'
    <3>1. CASE retried[p]
      BY <2>5, <3>1, ZenonT(40) DEF LinkExists, GiveUp
    <3>2. CASE ~retried[p]
      BY <2>5, <3>2 DEF LinkExists
    <3>3. QED
      BY <3>1, <3>2
  <2>6. ASSUME NEW p \in Procs, Claim(p) \/ Open(p)
        PROVE  TypeOK'
    <3>1. CASE Claim(p) /\ target = None
      BY <3>1, ZenonT(40) DEF Claim, GiveUp
    <3>2. CASE Claim(p) /\ target # None
      BY <3>2 DEF Claim
    <3>3. CASE Open(p) /\ target = None
      BY <3>3, ZenonT(40) DEF Open, GiveUp
    <3>4. CASE Open(p) /\ target # None
      BY <3>4 DEF Open
    <3>5. QED
      BY <2>6, <3>1, <3>2, <3>3, <3>4
  <2>7. ASSUME NEW p \in Procs, Verify(p)
        PROVE  TypeOK'
    <3>1. CASE fd[p] = target
      <4>1. UNCHANGED <<target, owner, alive, authorized, temp, fd, task, taskDepth>>
        BY <2>7, <3>1 DEF Verify
      <4>2. /\ seen' = [seen EXCEPT ![p] = fd[p]]
            /\ holder' = [holder EXCEPT ![p] = inv[p]]
            /\ solo' = [solo EXCEPT ![p] = strict[p]]
            /\ depth' = [depth EXCEPT ![p] = 1]
            /\ Return(p)
        BY <2>7, <3>1 DEF Verify
      <4>3. QED
        BY <4>1, <4>2
    <3>2. CASE fd[p] # target
      <4>1. target' \in Inodes \cup {None}
        BY <2>7, <3>2 DEF Verify
      <4>2. GiveUp(p) /\ UNCHANGED <<owner, alive, authorized, entryVars, taskVars>>
        BY <2>7, <3>2 DEF Verify
      <4>3. QED
        BY <4>1, <4>2 DEF GiveUp
    <3>3. QED
      BY <3>1, <3>2
  <2>8. ASSUME NEW p \in Procs, RecoverOpen(p) \/ RecoverRead(p)
        PROVE  TypeOK'
    <3>0. CASE RecoverOpen(p) /\ target = None
      <4>1. Return(p) /\ UNCHANGED <<fd, fileVars, alive, authorized, temp, seen, entryVars, taskVars>>
        BY <3>0 DEF RecoverOpen
      <4>2. QED
        BY <4>1
    <3>1. CASE RecoverOpen(p) /\ target # None
      BY <3>1 DEF RecoverOpen
    <3>2. CASE RecoverRead(p) /\ OwnerIsDead(fd[p])
      <4>1. /\ fd' = [fd EXCEPT ![p] = None]
            /\ seen' = [seen EXCEPT ![p] = fd[p]]
            /\ pc' = [pc EXCEPT ![p] = "recCheck"]
        BY <3>2 DEF RecoverRead
      <4>2. UNCHANGED <<fileVars, callVars, alive, authorized, temp, entryVars,
                        taskVars>>
        BY <3>2 DEF RecoverRead
      <4>3. seen' \in [Procs -> Inodes \cup {None}]
        BY <4>1
      <4>4. QED
        BY <4>1, <4>2, <4>3
    <3>3. CASE RecoverRead(p) /\ ~OwnerIsDead(fd[p])
      BY <3>3 DEF RecoverRead
    <3>4. QED
      BY <2>8, <3>0, <3>1, <3>2, <3>3
  <2>9. ASSUME NEW p \in Procs, RecoverCheck(p) \/ RecoverUnlink(p)
        PROVE  TypeOK'
    BY <2>9, ZenonT(40) DEF RecoverCheck, RecoverUnlink
  <2>10. ASSUME NEW p \in Procs, TakeTaskLock(p) \/ DropTaskLock(p)
         PROVE  TypeOK'
    BY <2>10 DEF TakeTaskLock, DropTaskLock
  <2>11. ASSUME NEW p \in Procs, Release(p)
         PROVE  TypeOK'
    BY <2>11 DEF Release, InCritical
  <2>12. ASSUME NEW p \in Procs, ReleaseCheck(p) \/ ReleaseFinal(p)
         PROVE  TypeOK'
    BY <2>12 DEF ReleaseCheck, ReleaseFinal
  <2>13. ASSUME NEW p \in Procs, ReleaseUnlink(p)
         PROVE  TypeOK'
    BY <2>13 DEF ReleaseUnlink
  <2>14. ASSUME NEW p \in Procs, NEW i \in Invocations, NEW nr \in StrictCalls,
                Begin(p, i, nr)
         PROVE  TypeOK'
    BY <2>14 DEF Begin
  <2>15. ASSUME NEW p \in Procs, NEW i \in Invocations, Reenter(p, i)
         PROVE  TypeOK'
    BY <2>15 DEF Reenter
  <2>16. ASSUME NEW p \in Procs, NEW i \in Invocations, Expire(p, i)
         PROVE  TypeOK'
    BY <2>16 DEF Expire
  <2>17. ASSUME NEW p \in Procs, Die(p)
         PROVE  TypeOK'
    BY <2>17 DEF Die
  <2>18. QED
    BY <2>1, <2>2, <2>3, <2>4, <2>5, <2>6, <2>7, <2>8, <2>9, <2>10, <2>11,
       <2>12, <2>13, <2>14, <2>15, <2>16, <2>17 DEF Next, Step, Call
<1>3. QED
  BY <1>1, <1>2, PTL DEF Spec

-----------------------------------------------------------------------------

\* One step of any process keeps the inductive invariant.  The argument turns
\* on one fact: an owner is alive and its pid is in the lock's file, so that
\* neither another owner's release nor a recovery, which has judged the file's
\* owner dead, can be about to remove the name.
LEMMA LockStep ==
  ASSUME QuietRecovery, TypeOK, TypeOK', LockInv, [Next]_vars
  PROVE  LockInv'
<1> USE MutationLockAssumption
    DEF QuietRecovery, TypeOK, LockInv, DeadInv, EntryInv, TempInv, OwnInv,
        RecoverInv, FailedReleaseIsFinal, Owning, InCritical, OwnerIsDead,
        Guarded, Locations, Acquiring, Recovering, Releasing, Goto, Return,
        fileVars, callVars, entryVars, taskVars
<1>1. CASE UNCHANGED vars
  BY <1>1 DEF vars
<1>2. ASSUME NEW p \in Procs, Create(p)
      PROVE  LockInv'
  <2>1. CASE Guarded(p, inv[p])
    \* the new file is free: no name, descriptor or recorded identity is of it
    <3>1. PICK i \in Inodes : Free(i) /\ temp' = [temp EXCEPT ![p] = i]
                              /\ owner' = [owner EXCEPT ![i] = None]
      BY <1>2, <2>1 DEF Create
    <3>2. /\ pc' = [pc EXCEPT ![p] = "fill"]
          /\ UNCHANGED <<target, alive, authorized, callVars, fd, seen,
                         entryVars, taskVars>>
      BY <1>2, <2>1 DEF Create
    <3>3. \A q \in Procs : temp[q] # i /\ fd[q] # i /\ seen[q] # i
      BY <3>1 DEF Free
    <3>4. target # i
      BY <3>1 DEF Free
    <3>5. TempInv'
      BY <1>2, <3>1, <3>2, <3>3, <3>4 DEF Create
    <3>6. OwnInv' /\ RecoverInv'
      BY <1>2, <3>1, <3>2, <3>3, <3>4 DEF Create
    <3>7. QED
      BY <1>2, <3>2, <3>5, <3>6 DEF Create
  <2>2. CASE ~Guarded(p, inv[p])
    BY <1>2, <2>2, SMTT(20) DEF Create, GiveUp
  <2>3. QED
    BY <2>1, <2>2
<1>3. ASSUME NEW p \in Procs, Fill(p)
      PROVE  LockInv'
  BY <1>3, SMTT(40) DEF Fill
<1>4. ASSUME NEW p \in Procs, LinkTaken(p)
      PROVE  LockInv'
  <2>1. \A q \in Procs : ~Owning(q) /\ pc[q] # "recUnlink"
    BY <1>4 DEF LinkTaken
  <2>2. target' = temp[p] /\ owner'[target'] = p
    BY <1>4 DEF LinkTaken
  <2>3. QED
    BY <1>4, <2>1, <2>2, SMTT(40) DEF LinkTaken
<1>5. ASSUME NEW p \in Procs, LinkExists(p)
      PROVE  LockInv'
  <2>1. CASE retried[p]
    BY <1>5, <2>1, SMTT(20) DEF LinkExists, GiveUp
  <2>2. CASE ~retried[p]
    BY <1>5, <2>2 DEF LinkExists
  <2>3. QED
    BY <2>1, <2>2
<1>6. ASSUME NEW p \in Procs, Claim(p)
      PROVE  LockInv'
  <2>1. target # None
    BY <1>6 DEF Claim
  <2>2. QED
    BY <1>6, <2>1, SMTT(40) DEF Claim
<1>7. ASSUME NEW p \in Procs, Open(p)
      PROVE  LockInv'
  <2>1. target # None
    BY <1>7 DEF Open
  <2>2. QED
    BY <1>7, <2>1, SMTT(40) DEF Open
<1>8. ASSUME NEW p \in Procs, Verify(p)
      PROVE  LockInv'
  \* the owner's file is still the lock: its name and content do not change
  <2>1. fd[p] = target /\ seen[p] = target /\ Owning(p)
    BY <1>8 DEF Verify
  <2>2. /\ seen' = [seen EXCEPT ![p] = fd[p]]
        /\ holder' = [holder EXCEPT ![p] = inv[p]]
        /\ depth' = [depth EXCEPT ![p] = 1]
        /\ pc' = [pc EXCEPT ![p] = "idle"]
        /\ UNCHANGED <<target, owner, alive, authorized, temp, fd>>
    BY <1>8, <2>1 DEF Verify
  <2>3. pc[p] = "verify" /\ temp[p] = None /\ alive[p]
    BY <1>8 DEF Verify
  <2>4. DeadInv' /\ EntryInv'
    BY <2>2, <2>3
  <2>5. TempInv'
    BY <2>1, <2>2, <2>3
  <2>6. OwnInv'
    BY <2>1, <2>2, <2>3
  <2>7. RecoverInv' /\ FailedReleaseIsFinal'
    BY <2>2, <2>3
  <2>8. QED
    BY <2>4, <2>5, <2>6, <2>7
<1>9. ASSUME NEW p \in Procs, RecoverOpen(p)
      PROVE  LockInv'
  <2>1. CASE target = None
    BY <1>9, <2>1 DEF RecoverOpen
  <2>2. CASE target # None
    BY <1>9, <2>2 DEF RecoverOpen
  <2>3. QED
    BY <2>1, <2>2
<1>10. ASSUME NEW p \in Procs, RecoverRead(p)
       PROVE  LockInv'
  <2>1. CASE OwnerIsDead(fd[p])
    BY <1>10, <2>1 DEF RecoverRead
  <2>2. CASE ~OwnerIsDead(fd[p])
    BY <1>10, <2>2 DEF RecoverRead
  <2>3. QED
    BY <2>1, <2>2
<1>11. ASSUME NEW p \in Procs, RecoverCheck(p)
       PROVE  LockInv'
  BY <1>11, SMTT(40) DEF RecoverCheck
<1>12. ASSUME NEW p \in Procs, RecoverUnlink(p)
       PROVE  LockInv'
  \* the name still refers to the dead owner's file, so nobody owns the lock
  <2>1. target # None /\ ~alive[owner[target]]
    BY <1>12 DEF RecoverUnlink
  <2>2. \A q \in Procs : ~Owning(q)
    BY <2>1
  <2>3. QED
    BY <1>12, <2>1, <2>2, SMTT(40) DEF RecoverUnlink
<1>13. ASSUME NEW p \in Procs, TakeTaskLock(p) \/ DropTaskLock(p)
       PROVE  LockInv'
  BY <1>13, SMTT(40) DEF TakeTaskLock, DropTaskLock
<1>14. ASSUME NEW p \in Procs, Release(p)
       PROVE  LockInv'
  BY <1>14, SMTT(40) DEF Release
<1>15. ASSUME NEW p \in Procs, ReleaseCheck(p)
       PROVE  LockInv'
  BY <1>15, SMTT(40) DEF ReleaseCheck
<1>16. ASSUME NEW p \in Procs, ReleaseFinal(p)
       PROVE  LockInv'
  BY <1>16, SMTT(40) DEF ReleaseFinal
<1>17. ASSUME NEW p \in Procs, ReleaseUnlink(p)
       PROVE  LockInv'
  \* p owns the lock, so nobody else does and no recovery is at its unlink
  <2>1. target # None /\ owner[target] = p /\ alive[p]
    BY <1>17 DEF ReleaseUnlink
  <2>2. \A q \in Procs : Owning(q) => q = p
    BY <2>1
  <2>3. \A q \in Procs : pc[q] # "recUnlink"
    BY <2>1
  <2>4. QED
    BY <1>17, <2>1, <2>2, <2>3, SMTT(40) DEF ReleaseUnlink
<1>18. ASSUME NEW p \in Procs, NEW i \in Invocations, NEW nr \in StrictCalls,
              Begin(p, i, nr)
       PROVE  LockInv'
  BY <1>18, SMTT(40) DEF Begin
<1>19. ASSUME NEW p \in Procs, NEW i \in Invocations, Reenter(p, i)
       PROVE  LockInv'
  \* an entry of depth 0 has no authority left, so the entry is a live one
  <2>1. InCritical(p)
    BY <1>19 DEF Reenter
  <2>2. QED
    BY <1>19, <2>1, SMTT(40) DEF Reenter
<1>20. ASSUME NEW p \in Procs, NEW i \in Invocations, Expire(p, i)
       PROVE  LockInv'
  BY <1>20, SMTT(40) DEF Expire
<1>21. ASSUME NEW p \in Procs, Die(p)
       PROVE  LockInv'
  BY <1>21, SMTT(40) DEF Die
<1>22. QED
  BY <1>1, <1>2, <1>3, <1>4, <1>5, <1>6, <1>7, <1>8, <1>9, <1>10, <1>11, <1>12,
     <1>13, <1>14, <1>15, <1>16, <1>17, <1>18, <1>19, <1>20, <1>21
     DEF Next, Step, Call

\* The inductive invariant holds in every reachable state of a quiet
\* environment.
THEOREM LockInvariant == QuietRecovery => (Spec => []LockInv)
<1> SUFFICES ASSUME QuietRecovery
             PROVE  Spec => []LockInv
  OBVIOUS
<1>1. Init => LockInv
  BY MutationLockAssumption
     DEF Init, LockInv, DeadInv, EntryInv, TempInv, OwnInv, RecoverInv,
         FailedReleaseIsFinal, Owning, InCritical, Acquiring, Recovering,
         Releasing
<1>2. LockInv /\ TypeOK /\ TypeOK' /\ [Next]_vars => LockInv'
  BY LockStep
<1>3. QED
  BY <1>1, <1>2, TypeCorrect, PTL DEF Spec

\* What a half-failed release leaves is never entered again: its invocation has lost its
\* authority, in every interleaving of the release with the other processes.
THEOREM FailedReleaseFinal == QuietRecovery => (Spec => []FailedReleaseIsFinal)
<1>1. LockInv => FailedReleaseIsFinal
  BY DEF LockInv
<1>2. QED
  BY <1>1, LockInvariant, PTL

\* "Serializes every cooperating project mutation": two processes are never
\* both between the return of acquireProjectMutationLock and its release.
THEOREM LockExcludes == QuietRecovery => (Spec => []MutualExclusion)
<1>1. LockInv => MutualExclusion
  BY DEF LockInv, OwnInv, Owning, MutualExclusion
<1>2. QED
  BY <1>1, LockInvariant, PTL

\* A process that believes it holds the lock is the one the lock's file names.
THEOREM HolderIsOwner == QuietRecovery => (Spec => []HolderOwnsLock)
<1>1. LockInv => HolderOwnsLock
  BY DEF LockInv, OwnInv, Owning, HolderOwnsLock
<1>2. QED
  BY <1>1, LockInvariant, PTL

-----------------------------------------------------------------------------
(* The lock file implements the abstract lock.                             *)

\* A step of the lock code enters or leaves the critical section for one
\* process at most.
LEMMA OneProcessMoves ==
    ASSUME TypeOK, [Next]_vars
    PROVE  \/ \A q \in Procs : InCritical(q)' <=> InCritical(q)
           \/ \E p \in Procs : \A q \in Procs \ {p} : InCritical(q)' <=> InCritical(q)
<1> USE DEF TypeOK, InCritical, fileVars, callVars, entryVars, taskVars
<1>1. CASE UNCHANGED <<holder, depth>>
  BY <1>1
<1>2. CASE UNCHANGED vars
  BY <1>1, <1>2 DEF vars
<1>3. ASSUME NEW p \in Procs,
             \/ Create(p) \/ Fill(p) \/ LinkTaken(p) \/ LinkExists(p)
             \/ Claim(p) \/ Open(p)
             \/ RecoverOpen(p) \/ RecoverRead(p) \/ RecoverCheck(p)
             \/ RecoverUnlink(p) \/ TakeTaskLock(p) \/ DropTaskLock(p)
             \/ ReleaseCheck(p) \/ ReleaseFinal(p)
             \/ (\E i \in Invocations, nr \in StrictCalls : Begin(p, i, nr))
             \/ (\E i \in Invocations : Expire(p, i))
      PROVE  UNCHANGED <<holder, depth>>
  BY <1>3 DEF Create, Fill, LinkTaken, LinkExists, Claim, Open, RecoverOpen,
     RecoverRead, RecoverCheck, RecoverUnlink, TakeTaskLock, DropTaskLock,
     ReleaseCheck, ReleaseFinal, Begin, Expire
<1>4. ASSUME NEW p \in Procs,
             \/ Verify(p) \/ Release(p) \/ ReleaseUnlink(p) \/ Die(p)
             \/ \E i \in Invocations : Reenter(p, i)
      PROVE  \A q \in Procs \ {p} : holder'[q] = holder[q] /\ depth'[q] = depth[q]
  BY <1>4 DEF Verify, Release, ReleaseUnlink, Die, Reenter
<1>5. QED
  BY <1>1, <1>2, <1>3, <1>4 DEF Next, Step, Call

\* Seen through the table entries of the processes, the lock goes from nobody
\* to one process and back: acquireProjectMutationLock and its release
\* implement ProjectLock, which the publication modules rely on.
THEOREM LockFileIsProjectLock == QuietRecovery => (Spec => IsProjectLock)
<1> SUFFICES ASSUME QuietRecovery
             PROVE  Spec => IsProjectLock
  OBVIOUS
<1>1. Init => Abstract!LockInit
  BY DEF Init, Abstract!LockInit, Holder, InCritical
<1>2. TypeOK /\ MutualExclusion /\ MutualExclusion' /\ [Next]_vars
         => [Abstract!LockNext]_Holder
  <2> SUFFICES ASSUME TypeOK, MutualExclusion, MutualExclusion', [Next]_vars
               PROVE  [Abstract!LockNext]_Holder
    OBVIOUS
  <2>1. ASSUME NEW p \in Procs, InCritical(p)
        PROVE  Holder = p
    BY <2>1 DEF MutualExclusion, Holder
  <2>2. ASSUME NEW p \in Procs, InCritical(p)'
        PROVE  Holder' = p
    BY <2>2 DEF MutualExclusion, Holder
  <2>3. (\A p \in Procs : ~InCritical(p)) => Holder = None
    BY DEF Holder
  <2>4. (\A p \in Procs : ~InCritical(p)') => Holder' = None
    BY DEF Holder
  <2>5. CASE \A q \in Procs : InCritical(q)' <=> InCritical(q)
    BY <2>1, <2>2, <2>3, <2>4, <2>5
  <2>6. ASSUME NEW p \in Procs,
               \A q \in Procs \ {p} : InCritical(q)' <=> InCritical(q)
        PROVE  [Abstract!LockNext]_Holder
    <3>1. CASE \E q \in Procs \ {p} : InCritical(q)
      BY <2>1, <2>2, <2>6, <3>1
    <3>2. CASE (\A q \in Procs \ {p} : ~InCritical(q)) /\ InCritical(p)
      BY <2>1, <2>2, <2>4, <2>6, <3>2
         DEF Abstract!LockNext, Abstract!LetGo
    <3>3. CASE (\A q \in Procs \ {p} : ~InCritical(q)) /\ ~InCritical(p)
      BY <2>2, <2>3, <2>4, <2>6, <3>3
         DEF Abstract!LockNext, Abstract!Acquire
    <3>4. QED
      BY <3>1, <3>2, <3>3
  <2>7. QED
    BY <2>5, <2>6, OneProcessMoves
<1>3. QED
  BY <1>1, <1>2, TypeCorrect, LockExcludes, PTL
     DEF Spec, IsProjectLock, Abstract!LockSpec

-----------------------------------------------------------------------------
(* What the other commands of the project may count on.                    *)

\* A live owner's lock is removed by its own release and by nothing else: a
\* recovery or the clean-up of a failed acquisition never takes it away.
THEOREM LiveOwnerKeepsLock == QuietRecovery => (Spec => LiveLockKept)
<1> SUFFICES ASSUME QuietRecovery
             PROVE  Spec => LiveLockKept
  OBVIOUS
<1> DEFINE Kept == \A p \in Procs :
                      target # None /\ owner[target] = p /\ alive[p] /\ target' # target
                         => pc[p] = "relUnlink"
<1>1. TypeOK /\ LockInv /\ [Next]_vars => [Kept]_vars
  <2> SUFFICES ASSUME TypeOK, LockInv, [Next]_vars, target # None,
                      target' # target
               PROVE  \/ ~alive[owner[target]]
                      \/ \E q \in Procs : ReleaseUnlink(q) /\ owner[target] = q
    BY DEF ReleaseUnlink
  <2> USE DEF fileVars, callVars, entryVars, taskVars
  <2>1. ASSUME NEW p \in Procs, RecoverUnlink(p)
        PROVE  ~alive[owner[target]]
    BY <2>1 DEF RecoverUnlink, LockInv, RecoverInv, OwnerIsDead
  <2>2. ASSUME NEW p \in Procs, ReleaseUnlink(p)
        PROVE  owner[target] = p
    BY <2>2 DEF ReleaseUnlink, LockInv, OwnInv, Owning, Releasing
  <2>3. ASSUME NEW p \in Procs, Verify(p)
        PROVE  FALSE
    BY <2>3 DEF Verify, LockInv, OwnInv
  <2>4. ASSUME NEW p \in Procs,
               \/ Create(p) \/ Fill(p) \/ LinkTaken(p) \/ LinkExists(p)
               \/ Claim(p) \/ Open(p)
               \/ RecoverOpen(p) \/ RecoverRead(p) \/ RecoverCheck(p)
               \/ DropTaskLock(p) \/ Release(p)
               \/ ReleaseCheck(p) \/ ReleaseFinal(p)
        PROVE  FALSE
    BY <2>4 DEF Create, Fill, LinkTaken, LinkExists, Claim, Open, RecoverOpen,
       RecoverRead, RecoverCheck, DropTaskLock, Release, ReleaseCheck,
       ReleaseFinal
  <2>5. ASSUME NEW p \in Procs, Call(p) \/ Die(p) \/ \E i \in Invocations : Expire(p, i)
        PROVE  FALSE
    BY <2>5 DEF Call, Begin, Reenter, TakeTaskLock, Die, Expire
  <2>6. QED
    BY <2>1, <2>2, <2>3, <2>4, <2>5 DEF Next, Step, vars
<1>2. QED
  BY <1>1, TypeCorrect, LockInvariant, PTL DEF Spec, LiveLockKept

\* At whatever call a process dies, the lock's name refers to a file with an
\* owner in it, so that a later command can judge it.
THEOREM LockNamesItsOwner == QuietRecovery => (Spec => []OwnerIsTold)
<1> SUFFICES ASSUME QuietRecovery
             PROVE  Spec => []OwnerIsTold
  OBVIOUS
<1>1. Init => OwnerIsTold
  BY DEF Init, OwnerIsTold
<1>2. TypeOK /\ LockInv /\ OwnerIsTold /\ [Next]_vars => OwnerIsTold'
  <2> SUFFICES ASSUME TypeOK, LockInv, OwnerIsTold, [Next]_vars
               PROVE  OwnerIsTold'
    OBVIOUS
  <2> USE MutationLockAssumption
      DEF TypeOK, OwnerIsTold, fileVars, callVars, entryVars, taskVars
  <2>1. ASSUME NEW p \in Procs, Create(p)
        PROVE  OwnerIsTold'
    BY <2>1 DEF Create, Free
  <2>2. ASSUME NEW p \in Procs, Fill(p)
        PROVE  OwnerIsTold'
    BY <2>2 DEF Fill
  <2>3. ASSUME NEW p \in Procs, LinkTaken(p)
        PROVE  OwnerIsTold'
    BY <2>3 DEF LinkTaken, LockInv, TempInv
  <2>4. ASSUME NEW p \in Procs, Verify(p)
        PROVE  OwnerIsTold'
    BY <2>4 DEF Verify
  <2>5. ASSUME NEW p \in Procs, RecoverUnlink(p) \/ ReleaseUnlink(p)
        PROVE  OwnerIsTold'
    BY <2>5 DEF RecoverUnlink, ReleaseUnlink
  <2>6. ASSUME NEW p \in Procs,
               \/ LinkExists(p) \/ Claim(p) \/ Open(p)
               \/ RecoverOpen(p) \/ RecoverRead(p) \/ RecoverCheck(p)
               \/ DropTaskLock(p) \/ Release(p)
               \/ ReleaseCheck(p) \/ ReleaseFinal(p)
        PROVE  OwnerIsTold'
    BY <2>6 DEF LinkExists, Claim, Open, RecoverOpen, RecoverRead,
       RecoverCheck, DropTaskLock, Release, ReleaseCheck, ReleaseFinal
  <2>7. ASSUME NEW p \in Procs, Call(p) \/ Die(p) \/ \E i \in Invocations : Expire(p, i)
        PROVE  OwnerIsTold'
    BY <2>7 DEF Call, Begin, Reenter, TakeTaskLock, Die, Expire
  <2>8. QED
    BY <2>1, <2>2, <2>3, <2>4, <2>5, <2>6, <2>7 DEF Next, Step, vars
<1>3. QED
  BY <1>1, <1>2, TypeCorrect, LockInvariant, PTL DEF Spec

\* The task-evidence lock of a live process lies inside its own hold of the
\* mutation lock, through nested acquisitions and expired receipts.
THEOREM TaskLockInside == QuietRecovery => (Spec => []TaskLockNested)
<1> SUFFICES ASSUME QuietRecovery
             PROVE  Spec => []TaskLockNested
  OBVIOUS
<1> DEFINE TaskInv == TaskLockNested /\ (task # None => taskDepth > 0)
<1>1. Init => TaskInv
  BY MutationLockAssumption DEF Init, TaskLockNested
<1>2. TypeOK /\ LockInv /\ TaskInv /\ [Next]_vars => TaskInv'
  <2> SUFFICES ASSUME TypeOK, LockInv, TaskInv, [Next]_vars
               PROVE  TaskInv'
    OBVIOUS
  <2> USE MutationLockAssumption
      DEF TypeOK, TaskLockNested, InCritical, fileVars, callVars, entryVars,
          taskVars
  <2>1. ASSUME NEW p \in Procs, Verify(p)
        PROVE  TaskInv'
    BY <2>1 DEF Verify, LockInv, OwnInv, EntryInv, Acquiring
  <2>2. ASSUME NEW p \in Procs, Release(p)
        PROVE  TaskInv'
    BY <2>2 DEF Release
  <2>3. ASSUME NEW p \in Procs, ReleaseUnlink(p)
        PROVE  TaskInv'
    BY <2>3 DEF ReleaseUnlink, LockInv, EntryInv, Releasing
  <2>4. ASSUME NEW p \in Procs, TakeTaskLock(p) \/ DropTaskLock(p)
        PROVE  TaskInv'
    BY <2>4 DEF TakeTaskLock, DropTaskLock
  <2>5. ASSUME NEW p \in Procs,
               \/ Create(p) \/ Fill(p) \/ LinkTaken(p) \/ LinkExists(p)
               \/ Claim(p) \/ Open(p)
               \/ RecoverOpen(p) \/ RecoverRead(p) \/ RecoverCheck(p)
               \/ RecoverUnlink(p) \/ ReleaseCheck(p) \/ ReleaseFinal(p)
               \/ (\E i \in Invocations, nr \in StrictCalls : Begin(p, i, nr))
               \/ (\E i \in Invocations : Expire(p, i))
        PROVE  UNCHANGED <<alive, holder, depth, task, taskDepth>>
    BY <2>5 DEF Create, Fill, LinkTaken, LinkExists, Claim, Open, RecoverOpen,
       RecoverRead, RecoverCheck, RecoverUnlink, ReleaseCheck, ReleaseFinal,
       Begin, Expire
  <2>6. ASSUME NEW p \in Procs, NEW i \in Invocations, Reenter(p, i)
        PROVE  TaskInv'
    BY <2>6 DEF Reenter
  <2>7. ASSUME NEW p \in Procs, Die(p)
        PROVE  TaskInv'
    BY <2>7 DEF Die
  <2>8. CASE UNCHANGED <<alive, holder, depth, task, taskDepth>>
    BY <2>8
  <2>9. QED
    BY <2>1, <2>2, <2>3, <2>4, <2>5, <2>6, <2>7, <2>8
       DEF Next, Step, Call, vars
<1>3. QED
  BY <1>1, <1>2, TypeCorrect, LockInvariant, PTL DEF Spec

=============================================================================
