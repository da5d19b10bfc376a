---------------------------- MODULE MutationLock ----------------------------
(***************************************************************************)
(* The project mutation lock of core/runtime/project-write.ts: the file    *)
(* .omd/.project-mutation.lock that every omd process on one project takes *)
(* before it publishes, and the in-process table (activeMutationLocks)     *)
(* that makes it re-entrant.  A step is one system call, or a run of calls *)
(* on files no other process can name.                                     *)
(*                                                                         *)
(* The lock is taken by hard-linking a fully written private file to the   *)
(* lock's name, is given back by unlinking the name, and a process that    *)
(* finds the name taken may remove it once when the pid written in it is   *)
(* dead.  Identity is device and inode number only: a member of Inodes is  *)
(* an inode number, and the file system may hand it out again as soon as   *)
(* neither a name nor an open descriptor refers to it.                     *)
(***************************************************************************)
EXTENDS Naturals

CONSTANTS
    Procs,          \* omd processes on one host, each with its own pid
    Invocations,    \* authenticated invocations a process may act for
    Inodes,         \* inode numbers of the .omd directory's file system
    None,           \* no inode, no process, no invocation
    MaxDepth,       \* bound on the re-entrant depth
    StrictCalls,    \* the values of the nonReentrant option callers pass
    OverlapRecovery,\* may two processes be inside a recovery at once?
    ReuseInodes     \* may a number a process still remembers be reused?

ASSUME MutationLockAssumption ==
    /\ None \notin Procs \cup Invocations \cup Inodes
    /\ MaxDepth \in Nat \ {0}
    /\ StrictCalls \subseteq BOOLEAN
    /\ OverlapRecovery \in BOOLEAN
    /\ ReuseInodes \in BOOLEAN

VARIABLES
    target,     \* the inode the lock's name refers to, None if there is no name
    owner,      \* owner[i]: the pid in the content of inode i, None while empty
    alive,      \* alive[p]: kill(p, 0) finds the process
    authorized, \* the <<process, invocation>> pairs whose receipt is still valid
    pc,         \* where in the lock code a process is
    inv,        \* inv[p]: the invocation of the acquisition under way
    strict,     \* strict[p]: its nonReentrant option
    retried,    \* retried[p]: the one recovery has been spent
    temp,       \* temp[p]: the inode its .prepare file names
    fd,         \* fd[p]: the inode of its open descriptor on the lock
    seen,       \* seen[p]: the identity it last recorded (claimed, after, lockIdentity)
    holder,     \* holder[p]: the invocation in activeMutationLocks, None if no entry
    solo,       \* solo[p]: the nonReentrant flag of that entry
    depth,      \* depth[p]: the depth of that entry
    task,       \* who created .task-evidence.lock, None when there is no such file
    taskDepth   \* the depth at which that lock was taken

fileVars == <<target, owner>>
callVars == <<inv, strict, retried>>
entryVars == <<holder, solo, depth>>
taskVars == <<task, taskDepth>>
vars == <<target, owner, alive, authorized, pc, callVars, temp, fd, seen,
          entryVars, taskVars>>

Acquiring  == {"create", "fill", "link", "claim", "open", "verify"}
Recovering == {"recOpen", "recRead", "recCheck", "recUnlink"}
Releasing  == {"relCheck", "relFinal", "relUnlink"}
Locations  == {"idle", "dead"} \cup Acquiring \cup Recovering \cup Releasing

TypeOK ==
    /\ target \in Inodes \cup {None}
    /\ owner \in [Inodes -> Procs \cup {None}]
    /\ alive \in [Procs -> BOOLEAN]
    /\ authorized \in SUBSET (Procs \X Invocations)
    /\ pc \in [Procs -> Locations]
    /\ inv \in [Procs -> Invocations \cup {None}]
    /\ strict \in [Procs -> BOOLEAN]
    /\ retried \in [Procs -> BOOLEAN]
    /\ temp \in [Procs -> Inodes \cup {None}]
    /\ fd \in [Procs -> Inodes \cup {None}]
    /\ seen \in [Procs -> Inodes \cup {None}]
    /\ holder \in [Procs -> Invocations \cup {None}]
    /\ solo \in [Procs -> BOOLEAN]
    /\ depth \in [Procs -> Nat]
    /\ task \in Procs \cup {None}
    /\ taskDepth \in Nat

Init ==
    /\ target = None
    /\ owner = [i \in Inodes |-> None]
    /\ alive = [p \in Procs |-> TRUE]
    /\ authorized = Procs \X Invocations
    /\ pc = [p \in Procs |-> "idle"]
    /\ inv = [p \in Procs |-> None]
    /\ strict = [p \in Procs |-> FALSE]
    /\ retried = [p \in Procs |-> FALSE]
    /\ temp = [p \in Procs |-> None]
    /\ fd = [p \in Procs |-> None]
    /\ seen = [p \in Procs |-> None]
    /\ holder = [p \in Procs |-> None]
    /\ solo = [p \in Procs |-> FALSE]
    /\ depth = [p \in Procs |-> 0]
    /\ task = None
    /\ taskDepth = 0

-----------------------------------------------------------------------------
(* Helpers.                                                                *)

\* An entry of activeMutationLocks with a positive depth: the code of p runs
\* as the project's only mutator.
InCritical(p) == holder[p] # None /\ depth[p] > 0

\* requireGuardedProjectWrite for the acquisition or the entry at hand.
Guarded(p, i) == <<p, i>> \in authorized

\* A number the file system may give to a new file.
Free(i) ==
    /\ target # i
    /\ \A q \in Procs : temp[q] # i /\ fd[q] # i
    /\ ReuseInodes \/ \A q \in Procs : seen[q] # i

Goto(p, l) == pc' = [pc EXCEPT ![p] = l]

\* The call returns or throws: its local variables are gone.
Return(p) ==
    /\ Goto(p, "idle")
    /\ inv' = [inv EXCEPT ![p] = None]
    /\ strict' = [strict EXCEPT ![p] = FALSE]
    /\ retried' = [retried EXCEPT ![p] = FALSE]

\* The error path of an acquisition: the private file is unlinked and the
\* descriptor closed before the call throws.
GiveUp(p) ==
    /\ Return(p)
    /\ temp' = [temp EXCEPT ![p] = None]
    /\ fd' = [fd EXCEPT ![p] = None]
    /\ seen' = [seen EXCEPT ![p] = None]

-----------------------------------------------------------------------------
(* acquireProjectMutationLock and acquireRawProjectLock.                   *)

\* An entry of the same invocation, re-entrant on both sides, only gets deeper.
\* (Any other entry makes the call throw and changes nothing.)
Reenter(p, i) ==
    /\ pc[p] = "idle" /\ holder[p] = i /\ ~solo[p]
    /\ Guarded(p, i)
    /\ depth[p] < MaxDepth
    /\ depth' = [depth EXCEPT ![p] = @ + 1]
    /\ UNCHANGED <<fileVars, alive, authorized, pc, callVars, temp, fd, seen,
                   holder, solo, taskVars>>

Begin(p, i, nonReentrant) ==
    /\ pc[p] = "idle" /\ holder[p] = None
    /\ Guarded(p, i)
    /\ Goto(p, "create")
    /\ inv' = [inv EXCEPT ![p] = i]
    /\ strict' = [strict EXCEPT ![p] = nonReentrant]
    /\ UNCHANGED <<fileVars, alive, authorized, retried, temp, fd, seen,
                   entryVars, taskVars>>

\* The private .prepare file is created empty (O_EXCL) ...
Create(p) ==
    /\ pc[p] = "create"
    /\ IF Guarded(p, inv[p])
         THEN \E i \in Inodes :
                /\ Free(i)
                /\ temp' = [temp EXCEPT ![p] = i]
                /\ owner' = [owner EXCEPT ![i] = None]
                /\ Goto(p, "fill")
                /\ UNCHANGED <<callVars, fd, seen>>
         ELSE GiveUp(p) /\ UNCHANGED owner
    /\ UNCHANGED <<target, alive, authorized, entryVars, taskVars>>

\* ... and receives mutationOwner() and an fsync before it has the lock's name.
Fill(p) ==
    /\ pc[p] = "fill"
    /\ owner' = [owner EXCEPT ![temp[p]] = p]
    /\ Goto(p, "link")
    /\ UNCHANGED <<target, alive, authorized, callVars, temp, fd, seen,
                   entryVars, taskVars>>

\* linkSync is the acquisition; EEXIST spends the one recovery or throws.
LinkTaken(p) ==
    /\ pc[p] = "link" /\ target = None
    /\ target' = temp[p]
    /\ Goto(p, "claim")
    /\ UNCHANGED <<owner, alive, authorized, callVars, temp, fd, seen,
                   entryVars, taskVars>>

\* Mutants of LinkExists: the error path cleans a name it never claimed; the
\* call throws without a recovery.
LinkExistsCleans(p) ==
    /\ pc[p] = "link" /\ target # None
    /\ GiveUp(p)
    /\ target' = None
    /\ UNCHANGED <<owner, alive, authorized, entryVars, taskVars>>

LinkExistsThrows(p) ==
    /\ pc[p] = "link" /\ target # None
    /\ GiveUp(p)
    /\ UNCHANGED <<fileVars, alive, authorized, entryVars, taskVars>>

LinkExists(p) ==
    /\ pc[p] = "link" /\ target # None
    /\ \/ retried[p] /\ GiveUp(p)
       \/ /\ ~retried[p]
          /\ OverlapRecovery \/ \A q \in Procs : pc[q] \notin Recovering
          /\ temp' = [temp EXCEPT ![p] = None]
          /\ Goto(p, "recOpen")
          /\ UNCHANGED <<callVars, fd, seen>>
    /\ UNCHANGED <<fileVars, alive, authorized, entryVars, taskVars>>

\* claimedIdentity = lstatSync(target), whatever the name refers to by now; the
\* private name goes, the file keeps the lock's name.
Claim(p) ==
    /\ pc[p] = "claim"
    /\ IF target = None
         THEN GiveUp(p)
         ELSE /\ seen' = [seen EXCEPT ![p] = target]
              /\ temp' = [temp EXCEPT ![p] = None]
              /\ Goto(p, "open")
              /\ UNCHANGED <<callVars, fd>>
    /\ UNCHANGED <<fileVars, alive, authorized, entryVars, taskVars>>

\* The lock is opened by name, so the descriptor need not be the claimed file.
Open(p) ==
    /\ pc[p] = "open"
    /\ IF target = None
         THEN GiveUp(p)
         ELSE /\ fd' = [fd EXCEPT ![p] = target]
              /\ Goto(p, "verify")
              /\ UNCHANGED <<callVars, temp, seen>>
    /\ UNCHANGED <<fileVars, alive, authorized, entryVars, taskVars>>

\* The descriptor must be the file the name refers to; then the entry is made.
\* Otherwise cleanClaim removes the name if it still is the claimed file.
Verify(p) ==
    /\ pc[p] = "verify"
    /\ IF fd[p] = target
         THEN /\ seen' = [seen EXCEPT ![p] = fd[p]]
              /\ holder' = [holder EXCEPT ![p] = inv[p]]
              /\ solo' = [solo EXCEPT ![p] = strict[p]]
              /\ depth' = [depth EXCEPT ![p] = 1]
              /\ Return(p)
              /\ UNCHANGED <<target, temp, fd>>
         ELSE /\ target' = IF target = seen[p] THEN None ELSE target
              /\ GiveUp(p)
              /\ UNCHANGED entryVars
    /\ UNCHANGED <<owner, alive, authorized, taskVars>>

-----------------------------------------------------------------------------
(* recoverDeadMutationLock: open, read and judge the owner, close, look    *)
(* once more at the identity, unlink the name.                             *)

RecoverOpen(p) ==
    /\ pc[p] = "recOpen"
    /\ IF target = None
         THEN Return(p) /\ UNCHANGED fd
         ELSE /\ fd' = [fd EXCEPT ![p] = target]
              /\ Goto(p, "recRead")
              /\ UNCHANGED callVars
    /\ UNCHANGED <<fileVars, alive, authorized, temp, seen, entryVars,
                   taskVars>>

\* Only a parsed owner whose pid is dead goes on, and the descriptor is closed.
OwnerIsDead(i) == owner[i] # None /\ ~alive[owner[i]]

\* Mutant of RecoverRead: the pid is parsed but never probed.
RecoverReadUnprobed(p) ==
    /\ pc[p] = "recRead"
    /\ fd' = [fd EXCEPT ![p] = None]
    /\ seen' = [seen EXCEPT ![p] = fd[p]]
    /\ Goto(p, "recCheck")
    /\ UNCHANGED <<callVars, fileVars, alive, authorized, temp, entryVars,
                   taskVars>>

RecoverRead(p) ==
    /\ pc[p] = "recRead"
    /\ fd' = [fd EXCEPT ![p] = None]
    /\ IF OwnerIsDead(fd[p])
         THEN /\ seen' = [seen EXCEPT ![p] = fd[p]]
              /\ Goto(p, "recCheck")
              /\ UNCHANGED callVars
         ELSE Return(p) /\ UNCHANGED seen
    /\ UNCHANGED <<fileVars, alive, authorized, temp, entryVars, taskVars>>

RecoverCheck(p) ==
    /\ pc[p] = "recCheck"
    /\ IF target = seen[p]
         THEN Goto(p, "recUnlink") /\ UNCHANGED <<callVars, seen>>
         ELSE Return(p) /\ seen' = [seen EXCEPT ![p] = None]
    /\ UNCHANGED <<fileVars, alive, authorized, temp, fd, entryVars, taskVars>>

\* unlinkSync(target) removes the name, whatever file it refers to by now;
\* the retry of the acquisition checks the authority again.
RecoverUnlink(p) ==
    /\ pc[p] = "recUnlink"
    /\ seen' = [seen EXCEPT ![p] = None]
    /\ IF target = None
         THEN Return(p) /\ UNCHANGED target
         ELSE /\ target' = None
              /\ retried' = [retried EXCEPT ![p] = TRUE]
              /\ Goto(p, "create")
              /\ UNCHANGED <<inv, strict>>
    /\ UNCHANGED <<owner, alive, authorized, temp, fd, entryVars, taskVars>>

-----------------------------------------------------------------------------
(* acquireProjectLock: the task-evidence lock inside the mutation lock.    *)

\* Its file is empty and is created with the same link; when it exists the call
\* throws after giving its own depth of the mutation lock back (a Release).
TakeTaskLock(p) ==
    /\ pc[p] = "idle" /\ InCritical(p)
    /\ Guarded(p, holder[p])
    /\ task = None
    /\ task' = p
    /\ taskDepth' = depth[p]
    /\ UNCHANGED <<fileVars, alive, authorized, pc, callVars, temp, fd, seen,
                   entryVars>>

DropTaskLock(p) ==
    /\ pc[p] = "idle" /\ InCritical(p)
    /\ task = p /\ depth[p] = taskDepth
    /\ Guarded(p, holder[p])
    /\ task' = None
    /\ taskDepth' = 0
    /\ UNCHANGED <<fileVars, alive, authorized, pc, callVars, temp, fd, seen,
                   entryVars>>

-----------------------------------------------------------------------------
(* mutationRelease and the release of the file.                             *)

\* The authority is checked before the depth goes down; an expired receipt
\* throws and the process keeps the lock.
Release(p) ==
    /\ pc[p] = "idle" /\ InCritical(p)
    /\ Guarded(p, holder[p])
    /\ task = p => depth[p] > taskDepth
    /\ depth' = [depth EXCEPT ![p] = @ - 1]
    /\ Goto(p, IF depth[p] = 1 THEN "relCheck" ELSE "idle")
    /\ UNCHANGED <<fileVars, alive, authorized, callVars, temp, fd, seen,
                   holder, solo, taskVars>>

\* A failed check throws: the entry stays in the table, with depth 0.
ReleaseCheck(p) ==
    /\ pc[p] = "relCheck"
    /\ IF Guarded(p, holder[p]) /\ target = fd[p]
         THEN fd' = [fd EXCEPT ![p] = None] /\ Goto(p, "relFinal")
         ELSE Goto(p, "idle") /\ UNCHANGED fd
    /\ UNCHANGED <<fileVars, alive, authorized, callVars, temp, seen,
                   entryVars, taskVars>>

ReleaseFinal(p) ==
    /\ pc[p] = "relFinal"
    /\ Goto(p, IF target = seen[p] THEN "relUnlink" ELSE "idle")
    /\ UNCHANGED <<fileVars, alive, authorized, callVars, temp, fd, seen,
                   entryVars, taskVars>>

ReleaseUnlink(p) ==
    /\ pc[p] = "relUnlink"
    /\ IF target = None
         THEN UNCHANGED <<target, seen, holder, solo>>
         ELSE /\ target' = None
              /\ seen' = [seen EXCEPT ![p] = None]
              /\ holder' = [holder EXCEPT ![p] = None]
              /\ solo' = [solo EXCEPT ![p] = FALSE]
    /\ Goto(p, "idle")
    /\ UNCHANGED <<owner, alive, authorized, callVars, temp, fd, depth,
                   taskVars>>

-----------------------------------------------------------------------------
(* The environment: a receipt's time to live runs out, and a process exits  *)
(* or is killed between any two calls, leaving its files behind.            *)

Expire(p, i) ==
    /\ alive[p] /\ Guarded(p, i)
    /\ authorized' = authorized \ {<<p, i>>}
    /\ UNCHANGED <<fileVars, alive, pc, callVars, temp, fd, seen, entryVars,
                   taskVars>>

Die(p) ==
    /\ alive[p]
    /\ alive' = [alive EXCEPT ![p] = FALSE]
    /\ Goto(p, "dead")
    /\ fd' = [fd EXCEPT ![p] = None]
    /\ seen' = [seen EXCEPT ![p] = None]
    /\ holder' = [holder EXCEPT ![p] = None]
    /\ solo' = [solo EXCEPT ![p] = FALSE]
    /\ depth' = [depth EXCEPT ![p] = 0]
    /\ inv' = [inv EXCEPT ![p] = None]
    /\ strict' = [strict EXCEPT ![p] = FALSE]
    /\ retried' = [retried EXCEPT ![p] = FALSE]
    /\ authorized' = authorized \ ({p} \X Invocations)
    /\ UNCHANGED <<fileVars, temp, taskVars>>

Step(p) ==
    \/ Create(p) \/ Fill(p) \/ LinkTaken(p) \/ LinkExists(p)
    \/ Claim(p) \/ Open(p) \/ Verify(p)
    \/ RecoverOpen(p) \/ RecoverRead(p) \/ RecoverCheck(p) \/ RecoverUnlink(p)
    \/ DropTaskLock(p) \/ Release(p)
    \/ ReleaseCheck(p) \/ ReleaseFinal(p) \/ ReleaseUnlink(p)

Call(p) ==
    \/ \E i \in Invocations, nr \in StrictCalls : Begin(p, i, nr)
    \/ \E i \in Invocations : Reenter(p, i)
    \/ TakeTaskLock(p)

Next ==
    \E p \in Procs :
        \/ Step(p) \/ Call(p) \/ Die(p)
        \/ \E i \in Invocations : Expire(p, i)

Spec == Init /\ [][Next]_vars

-----------------------------------------------------------------------------
(* Properties.                                                             *)

\* "Serializes every cooperating project mutation": at no time do two
\* processes both run between the return of acquireProjectMutationLock and
\* the call of its release.
MutualExclusion ==
    \A p, q \in Procs : InCritical(p) /\ InCritical(q) => p = q

\* A process that believes it holds the lock is the one the file names, so
\* that every other process judges the right pid: re-entry after a release
\* that failed half-way would break it.
HolderOwnsLock ==
    \A p \in Procs : InCritical(p) => target # None /\ owner[target] = p

\* The lock's name never refers to a file without an owner in it, at whatever
\* call a process dies: such a lock could never be judged dead, and no later
\* command could mutate the project.
OwnerIsTold == target # None => owner[target] # None

\* The name of a live owner's file is removed by that owner's release and by
\* nothing else: not by a recovery, not by the clean-up of another acquisition.
LiveLockKept ==
    [][\A p \in Procs :
          target # None /\ owner[target] = p /\ alive[p] /\ target' # target
             => pc[p] = "relUnlink"]_vars

\* The task-evidence lock of a live process lies inside its own hold of the
\* mutation lock, through nested acquisitions and expired receipts.
TaskLockNested ==
    \A p \in Procs :
        task = p /\ alive[p] => InCritical(p) /\ depth[p] >= taskDepth

\* What a half-failed release leaves in the table (an entry of depth 0) can
\* never be entered again: its invocation has lost its authority.
FailedReleaseIsFinal ==
    \A p \in Procs :
        holder[p] # None /\ depth[p] = 0 /\ pc[p] = "idle"
           => ~Guarded(p, holder[p])

\* Seen by the code it protects, the file lock is the abstract one: it goes
\* from nobody to one process and back, never from process to process.
Holder == IF \E p \in Procs : InCritical(p)
            THEN CHOOSE p \in Procs : InCritical(p)
            ELSE None

Abstract == INSTANCE ProjectLock WITH lockHolder <- Holder

IsProjectLock == Abstract!LockSpec

-----------------------------------------------------------------------------
(* The inductive invariant behind the properties: it holds where recoveries *)
(* do not overlap and no remembered inode number is reused.                *)

QuietRecovery == ~OverlapRecovery /\ ~ReuseInodes

\* Where a process is the lock's owner in fact, not only by its own belief.
Owning(p) ==
    \/ InCritical(p)
    \/ pc[p] \in {"claim", "open", "verify"} \cup Releasing

\* A dead process keeps nothing but its files; a living one is somewhere in
\* the code, and has an entry in its table only outside an acquisition.
DeadInv ==
    \A p \in Procs :
        /\ alive[p] <=> pc[p] # "dead"
        /\ pc[p] = "dead" => holder[p] = None /\ fd[p] = None /\ seen[p] = None

EntryInv ==
    \A p \in Procs :
        /\ InCritical(p) => pc[p] = "idle"
        /\ pc[p] \in Acquiring \cup Recovering => holder[p] = None
        /\ pc[p] \in Releasing => holder[p] # None /\ depth[p] = 0

\* A .prepare file is named by nobody else and known to nobody else until the
\* link; then it is the lock.
TempInv ==
    \A p \in Procs :
        /\ temp[p] # None =>
              /\ pc[p] \in {"fill", "link", "claim", "dead"}
              /\ \A q \in Procs : temp[q] = temp[p] => q = p
        /\ pc[p] \in {"fill", "link"} =>
              /\ temp[p] # None /\ temp[p] # target
              /\ \A q \in Procs : fd[q] # temp[p] /\ seen[q] # temp[p]
        /\ pc[p] = "link" => owner[temp[p]] = p
        /\ pc[p] = "claim" => temp[p] = target

\* An owner's file stays the lock, and its descriptor and identity are of it.
OwnInv ==
    \A p \in Procs :
        /\ Owning(p) => target # None /\ owner[target] = p
        /\ InCritical(p) \/ pc[p] \in {"verify", "relCheck"} => fd[p] = target
        /\ InCritical(p) \/ pc[p] \in {"open", "verify"} \cup Releasing
              => seen[p] = target

\* One recovery at a time; what it remembers is a dead owner's file, and from
\* the last look to the unlink it is the lock.
RecoverInv ==
    /\ \A p, q \in Procs :
          pc[p] \in Recovering /\ pc[q] \in Recovering => p = q
    /\ \A p \in Procs :
          /\ pc[p] = "recRead" => fd[p] # None
          /\ pc[p] \in {"recCheck", "recUnlink"}
                => seen[p] # None /\ OwnerIsDead(seen[p])
          /\ pc[p] = "recUnlink" => target = seen[p]

LockInv ==
    /\ DeadInv /\ EntryInv /\ TempInv /\ OwnInv /\ RecoverInv
    /\ FailedReleaseIsFinal

\* A process that could still take the lock: alive, with a valid receipt and
\* no entry of its own in the way.
CanAcquire(p) ==
    /\ alive[p] /\ holder[p] = None
    /\ \E i \in Invocations : Guarded(p, i)

\* A lock whose owner died does not outlive the next commands: while some
\* process can still acquire, the dead owner's file goes.
DeadOwnerRecovered ==
    (target # None /\ OwnerIsDead(target))
        ~> \/ target = None \/ ~OwnerIsDead(target)
           \/ \A p \in Procs : ~CanAcquire(p)

\* A call of the lock code runs to its end unless the process dies, and the
\* user keeps issuing commands while a receipt is valid.
Fairness ==
    \A p \in Procs :
        /\ WF_vars(Step(p))
        /\ WF_vars(\E i \in Invocations, nr \in StrictCalls : Begin(p, i, nr))

FairSpec == Spec /\ Fairness

=============================================================================
