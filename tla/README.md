# Oh My Design: a TLA+ development of its concurrent core

Oh My Design (omd) is a TypeScript workflow around a design model: a command
line, three host extensions (Claude, Codex, Pi) and a few long-lived helpers.
Every command is a process of its own.  The processes of one project share
nothing but the file system: immutable content-addressed records below `.omd/`,
small "current" pointers replaced by rename, and one lock file.  Some files are
shared by all projects of a user, and have no lock at all.  Around the processes
are timers, child processes, sockets and a maker who edits whenever it likes.
What is hard to get right, and what this directory models, is what those actors
do to each other's files when they overlap, die half-way or answer late.

Paths below are relative to `src/`.

## 1. The system

### Components

| component | state it keeps | operations | modelled by |
|---|---|---|---|
| Project mutation lock (`core/runtime/project-write.ts`) | `.omd/.project-mutation.lock`, private `.prepare` files, `.task-evidence.lock`; per process a table of re-entrant entries | acquire, re-enter, recover a dead owner's lock, release; take and drop the task-evidence lock | `MutationLock` |
| Route publication (`core/route/adaptive-route-persistence.ts`) | five kinds of files: scope record and pointer, authority, source contract, route record; two current pointers | publish under the lock; read without it | `RoutePublication` |
| Recorded browsing (`core/ref/browse/`) | in the driver: events, budget, pending reply, action in flight; on disk: trace, session state with checkpoint and seal, `current.json`, cycle budget | start, act, keep, publish, acknowledge, end, recover | `BrowseSession` |
| First-render repair loop (`core/design/first-render-*.ts`) | source files, iteration history per route, report, review records, `review.json`, restore receipt | check, review, accept a retained page, restore | `FirstRenderLoop` |
| Final review and completion of a change (`bin/model-led-completion-command.ts`, `core/runtime/native-final-publication.ts`, `core/evidence/final-v2.ts`) | observation chain, source seal, review pointer, final evidence | evaluate, look, seal, judge in lanes, publish, check the completion | `FinalReview` |
| Studio delivery of a new page (`bin/model-led-completion-command.ts`, `core/design/studio-delivery.ts`, `extensions/omd-model-led-completion.ts`) | built page, report, review, delivery, the host's note of its last attempt | finish by the host or from a shell: build, check, capture, review, deliver | `StudioDelivery` |
| Developer evaluation store (`core/coach/developer-evaluation-store.ts`) | four directories of immutable records of a user | append, revise, revoke, experiment, promote, pin, read for publication | `EvaluationStore` |
| Reviewer processes (`adapters/pi-reviewer-runtime.ts`, `pi-reviewer-rpc.ts`, `reviewer-mcp.ts`) | a child process, an evidence broker and timers for each reviewer of a lane | start, hand over evidence once, correct, abort, kill, clean up | `ReviewerLane` |
| Acquisition of references (`core/ref/batch.ts`, `acquisition-deadline.ts`) | a browser, its pages, deadlines, saved references | launch, capture by several workers, save, expire, answer | `AcquisitionBatch` |
| Pi host (`extensions/omd.ts`, `omd-request-binding.ts`, `omd-runtime.ts`, `omd-process.ts`) | a queue of CLI commands, one child process at a time; the captured request of the user | capture, bind, queue, run, interrupt, time out, kill | `PiHost` |
| Activation, receipts and nonces (`core/runtime/self-signed-activation.ts`, `activation.ts`) | the project's key pair, claim files, journal | make keys, sign, hand over, verify, spend | `CommandAuthority` |
| Browser helpers (`core/install/browser-rs-mcp-main.ts`, `browser-rs-mcp-reaper.ts`) | a browser's process group, its temporary profile with an owner marker, the channel and the sentinel socket between launcher and reaper | make, spawn, offer and hold the lease, signal, end the input, clean up, fall back | `BrowserLease` |
| Learning (`core/learning/`) | predictions and observations of each project; one rule index of all projects, an index of each project | predict, judge, observe, promote, publish conclusions | `LearningRules` |
| Observations and their retention, task evidence, route derivation, parsers, rules, measurements, installers, other adapters, vendored code | see `PROJECT.json` | | not modelled (section 8) |

### How they interact

Every publisher within a project takes the mutation lock, writes its immutable
records, and only then replaces the pointers that make them current.  Readers
take no lock; they read pointers, records and pointers again.  The browse client
is a publisher that first asks the driver for its pending reply and, after
publishing it, acknowledges it.  Whatever needs minutes (a browser, a reviewer, a
build) is done without the lock: prepare a packet, wait, take the lock, and
compare the present evidence with what the packet was made from.  The first-render
review, check and restore, the final review and the studio delivery all have this
shape, and each compares something different.

A finish of a change calls the evaluation, the first-render review, the seal, the
reviewer lane and the final publication one after the other; a finish of a new
page calls the build, the checks and one comparison.  Both are started by the
maker from a shell, and by the host at the end of a turn.  The host chains its own
commands, so that one CLI process of its runs at a time; a shell knows nothing of
that chain.  Every guarded write of a command spends a receipt signed with the
project's key.  The evaluation store and the rule index belong to a user: commands
of different projects read, change and replace them with no lock.

### What is hard

* **Lock recovery.**  A lock is removed by *name* after a last look at its
  inode; between look and unlink the name may refer to another process's lock.
* **Several files per publication.**  Seven writes for a route, three for a
  browse reply, two or three for a check or a verdict; a command may be killed
  between any two, and a record is torn while it is being filled.
* **Lock-free readers** that look between two pointer swaps, and lock-free writers
  of what all projects share.
* **Late answers.**  A reply published after another session's, a verdict about
  a page that has been edited, a lane that ends when a newer review is pending, a
  browser that opens after its deadline, a CLI process that outlives its request.
* **Two finishes at once**, by the host and from a shell, over one set of records.
* **Concurrent editors.**  The maker changes source, feedback and route with
  no lock at all.
* **Everything that waits** waits for a process, a browser or a socket that may
  hang, and must end by a timer.

### What must hold

* Lock: one process inside at a time; a live owner's lock is only removed by
  that owner; a dead owner's lock does not block later commands for ever.
* Route: current pointers lead to whole records; a read returns a pair that was
  current during that read; a read succeeds if no file of a whole route and no entry of the
  directories that lead to it is touched meanwhile; an
  interrupted publication leaves the old route or the new one.
* Browsing: published events are never lost; a reply is acknowledged only when
  published; an interrupted publication can be repeated; a seal verifies.
* First render: a report binds the source its checkpoint restores, and shows the page it
  binds; a verdict is filed under the page the reviewer saw and acted on only while that page, route and feedback are current; findings do not vanish;
  a finished restore is whole.
* Final review: final evidence rests on an accepted review of exactly the evidence
  it binds; a superseded review settles nothing; a completion reported by a finish
  is backed by final evidence.
* Studio: nothing is delivered that has not been compared while there is a round
  left; the host does not start attempt after attempt without a change.
* Store: a published snapshot rests on records that were active together; writers
  that take turns leave a store that can be read.
* Browser lease: a profile outlives the browser that uses it, and a held lease ends with
  nothing left, whichever process is killed.
* Lane, batch, host: every call returns, with no process, evidence or browser left
  behind; an answer stays true; commands that overlap are interrupted ones; the
  route never goes back to an earlier request.
* Receipts: each is spent at most once.  Learning: a conclusion is not lost by
  promotions that take turns.

`PROJECT.json` lists the hazards behind these, each at its line, with the
properties that cover it or the reason why none does.

## 2. Modules

    ProjectLock              the abstract lock: free, or held by one process
      ^ refined by MutationLock      (TLC: IsProjectLock; TLAPS: LockFileIsProjectLock)
      ^ extended by RoutePublication, BrowseSession, FirstRenderLoop, FinalReview
    RouteRegister            the abstract register: one value, written and read atomically
      ^ refined by RoutePublication  (TLC: IsRouteRegister; TLAPS: ImplementsRegister)
    ResearchLog              the abstract log of a session: it grows, ends once, is sealed once
      ^ refined by BrowseSession     (TLC: IsResearchLog; TLAPS: ImplementsResearchLog)
    WaitsMC                  MutationLock | ReviewerLane | AcquisitionBatch | PiHost
    BrowsersMC               BrowseSession | BrowserLease
    RecordsMC                FinalReview | StudioDelivery | EvaluationStore
                             | CommandAuthority | LearningRules

`MutationLockMC`, `RoutePublicationMC`, `BrowseSessionMC` and
`FirstRenderLoopMC` only add symmetry sets and small tables for TLC.  `WaitsMC`, `BrowsersMC` and
`RecordsMC` put components that share no state into one run: `part` says which of
them moves in a behaviour, the others stay at an initial state, so the run explores
their sum and not their product.  Each of those modules has a specification of its
own, and the theorems are about that one.  `SessionsSpec` is `BrowsersMC` with the sessions alone.

The theorems are in eight modules: `MutationLockProofs`, `RoutePublicationProofs`,
`BrowseSessionProofs`, `FirstRenderLoopProofs`, `FinalReviewProofs`,
`EvaluationStoreProofs`, `WaitsProofs` (lane, batch, host, lease) and `RecordsProofs`
(studio, authority, learning).  Operators whose comment begins "Mutant of" are wrong
on purpose: `PROJECT.json` says which definition each replaces and which property
must then fail; no specification uses them.

The modules that extend `ProjectLock` take the lock as one step (`Acquire`,
`LetGo`).  That is what `MutationLock` shows the lock file to implement, under
the conditions of section 3.  Where the lock fails (run `lock_overlap`), so may
everything built upon it.

### MutationLock

One action per system call of `acquireProjectMutationLock`, `recoverDeadLock`,
`releaseProjectMutationLock` and the task-evidence lock.  A file is its inode
number, as in the code, which compares device and inode only; `owner[i]` is the
pid in its content.  `holder`, `solo` and `depth` are the entry of
`activeMutationLocks`; `seen` and `fd` are the identities and descriptors a
call remembers.  `Expire` (a receipt stops verifying) and `Die` may happen
between any two calls.  Two switches name assumptions about the environment:
`OverlapRecovery` (two processes may be recovering at once) and `ReuseInodes`
(the file system may hand out a number that some process still remembers).

### RoutePublication

`After` is the order of `publishAdaptiveRoute`'s seven files; a record is
created under its final name, then filled, so an interruption may leave it torn
(`StopPublish`).  A reader (`BeginRead` to `Judge`) reads two pointers, two
records and the pointers again, up to three times.  A *stable read* fails when size or
times of any directory from the project root to the file changed during it
(`core/runtime/stable-project-file.ts:74`, compared at 110).  So not only a publisher or the author of
the locale context may disturb it, but anybody who creates, renames or removes an entry of the
project root or of a directory on the way (`ChangeEntry`), though no file of the route
changes (`ReadDisturbed`).  A record is known by the digest in
its name.  `during` and `calm` are history variables: the pointer pairs on disk
since a read began, and whether anything of this has happened since.

`RouteRegister` is what callers rely on: somebody writes a route, somebody reads, and a
read returns a route that was current at some moment between its call and its return, or is
refused.  Its value is the route that the two pointers on disk agree on (nothing between the two
swaps of a publication); what was current since a call is the reader's `during`.

### BrowseSession

A command goes through the points of `runBrowse` (`client[p].at`): open or
recover a session, ask for a pending reply, act, publish (trace, state, budget),
acknowledge.  A driver (`Execute`) records events and keeps its reply pending.
An event's hash covers all earlier events, so a hash is modelled as the event
sequence itself.  Commands may be killed, drivers may die, and a command may
give up waiting while the driver goes on (`Slow`).  `EarlyCommands` says whether
a command may reach a driver whose start event is not recorded yet.
The immutable records of a reply (assets, events, checkpoint, seal) are created under
their final names and then filled, as in `RoutePublication`; a kill may leave one torn
(`torn`, `Unwritten`), and from then on that reply is refused (`Fits`), with the
same consequence as in `route_resume`: the driver keeps it pending and nobody can publish it.

`ResearchLog` is what a reader of `.omd/discovery/browse` relies on: per session one sequence
of events that is only extended, never past an end, and sealed at most once and as a whole.
`published <- trace` and `sealOf` is the seal of the state file.

### FirstRenderLoop

`BeginCheck`, `BeginMeasure`, `Capture`, `TakeCheck`, `AppendIteration`, `ReplaceReport` are a
check; `ReturnReview`, `AskReviewer`, `TakeReview`, `PublishReview` a review;
`AcceptRetained` the first-render part of completion; `BeginRestore`,
`TakeRestore`, `RestoreFile`, `WriteReceipt` a restore.  The maker edits, builds, gives
feedback and publishes routes at any moment, between two views of one check included.

A check reads the source, then the digests of route, source and served tree (`Binding`), then
captures view after view, each of the page of its own moment (`shown`), and compares the digests
after the last view, at publication and under the lock (`Unchanged`).  The page is served from
the source, or from a build (`built`), which lags until the maker builds again: the checkpoint leaves
build directories out (`core/design/first-render-checkpoint-source.ts:22`), and nothing compares
a build with its source.  Comparing before and after says nothing of what changed and changed back
between two views, so such a report may show another page than it binds.  `turns` counts the
changes of the page while a command captures, and `undone` remembers the reports that were captured
across two or more; `CheckpointIsWhatWasMeasured` excepts just those, and claims of a built page only
that the views show the build that was bound.

What is abstracted: a page and a checkpoint are known by the source they were made from, a report by
what it binds and by the pages it shows; the digest of the source (all production source) and the
checkpoint (the paths the route allows) are taken to cover the same files;
`feedback` stands for everything else a packet binds
(feedback, consulted references, cases, judgments, brief); a review
retains exactly when it has no findings, so "reframe" is a review that revises, and it may have any
findings: what a reviewer says of progress and the rules on findings of earlier rounds are left out.
Content-addressed records are
written with the history that names them, in one step (`RoutePublication` and `BrowseSession`
have the kill inside such a record).  The history is replaced by rename;
`review.json` is written in place, so a kill may leave it torn.  `verdict` is an
observation of the last step (the review a command acted upon, and the route,
source and feedback at that moment) and `edited` a ghost for `RestoreIsWhole`.

### FinalReview

`lifecycle finish` of a change to an existing product.  A finish evaluates the page
and appends an observation, has the first render looked at, seals the source, opens
a review (`pointer` pending under its nonce), lets the lanes judge without the lock,
settles the pointer with what they said, builds the manifest without the lock,
writes the final evidence under it, and checks the completion.  `Compare` is the
fingerprint the finish takes before and after each long step.  Two policies
(`documents`) differ in what a changed seal does: the document tier rejects the
review, the ordinary tier throws.  Observations and seals carry a moment in the code,
so they are numbered here.  `published` is a history variable.

### StudioDelivery

`deliverStudioPage` by the host at the end of a turn, and by the maker.  `attempted` is
the map the host keeps in memory; `Interrupt` is the user starting a new turn while
it waits.  A build may change the source (`Build`), as package builds do.  The one
round of `STUDIO_REVIEW_ROUNDS` is counted in `rounds`; `Record` and `PublishReview`
are the two writes of the review, a kill between which leaves a round spent and no
review.

### EvaluationStore

A directory is read in one step, different directories in different ones, as the
commands read them one after the other without a lock.  A file is created and then filled
(`Create`, `Fill`); a kill between leaves it torn (`damaged`), and then every command
that reads the directory fails.  The data of a record is what links it: its id, its
revision, the record it revises, and for a judgment the record it is of.  A promotion takes any
active development record and any choice of at least `MinHeldOuts` (two in the code) of the active records
that judge that revision of it (`CasesOf`), so cases overlap and several are active at once.  A pin freezes
every eligible case, and reading the snapshot for publication checks each of them by reads of its own
(`CheckCase`), between which others revise and revoke what the rest of them names.

### ReviewerLane

`runner[c]` is where `runChild` is: it spawns the child, waits for the handshake, a turn,
the answer (with one correction), the proof of the one evidence read, and the end;
every wait is ended by a timer or the shared abort (`RejectChild`).  `Challenge` and
`ClaimEvidence` are the two requests of an evidence read to its broker.
`KillAfterDeadline` is SIGKILL after SIGTERM has been ignored.

### AcquisitionBatch

The deadline of the batch and one of each item: `armed`, `expired` (the two
seconds of cleanup), `settled`.  What lost the race goes on in the model as it does in the
code: `LaunchBrowser`, `OpenPage` and `Commit` may come after the answer, and `Owned`
is what `own` does with a browser or page that does.

### PiHost

`call[c]` is a call of `run()`: queued behind `prev`, comparing its request after a
restart, running, stopping, done.  `child[c]` is its CLI process, with the route it may
publish.  The user speaks (`Say`), Pi starts the prompt (`Deliver`), which may capture a
request, or turn to another task; a session may start anew (`StartSession`) with
nothing in memory but the captured request on disk.  An interruption (`Interrupt`) is
answered at once and sends SIGTERM; a budget (`ExceedBudget`) is answered when the
process group is gone.  Requests are numbered in the order they were captured.

### BrowserLease

The launcher (`launcher`, the points of `main`), the reaper (`reaper`, the points of
`initialize` and of the handler of its failure), the browser with its descendants (`group`,
whose leader may end first) and the profile.  The two messages each sends the other are sets, so
they are taken in any order, or after the exit they preceded.  Signals that came before the reaper
listened are kept, as Node keeps them.  `LauncherKills` and `KillGroup` are SIGKILL after three
seconds, and the sentinel socket closes when the group and the reaper are gone, for the browser's
processes inherit it.  Either process may be killed, one of them and once (`struck`).

### CommandAuthority

The two key files, with a torn public key after a kill; receipts; claim files (one
`O_EXCL` create each) and the journal.  `TakeOver` is a command started with a receipt
another process signed, so several commands may hold one nonce.

### LearningRules

A promotion reads the index of the user (or, if that cannot be opened, of its project),
evaluates the predictions of its project one by one, and replaces the index.  It may be
unable to write the user's directory, throw at a later prediction, or be killed.
`crossed` remembers that two promotions were under way at once; `concluded` is the
latest conclusion on each id that reached the user's index.

## 3. Runs

All runs finish in well under five minutes with two workers.

| run | instance | shows |
|---|---|---|
| `waits` | lock: 2 processes, 3 inode numbers, depth 2, overlap and reuse allowed; lane: 2 reviewers of 2 reads; batch: 2 workers, 3 items; host: 2 calls, 1 more input or restart; fair | refinement of `ProjectLock`, recovery; every call returns, and leaves nothing held, open, overtaken or wrongly reported |
| `lock_overlap` | 3 processes, overlap allowed, no reuse | **violation** of `MutualExclusion` |
| `route_safety` | 1 publisher, 1 reader, 3 routes of which two share a source contract, 2 locales | refinement of `RouteRegister`; pointers, successful reads, the route is the last file to change (symmetric in the two routes that share a contract) |
| `route_resume` | 2 publishers, 2 routes | **violation** of `ResumeNotRefused` |
| `browse_safety` | sessions: 2 commands, 1 session, 1 action, 3 events, 1 kill, early commands; lease: all of it, 1 kill; fair | refinement of `ResearchLog`; publication, acknowledgement, repetition, and that an unacknowledged reply is published unless one of its records is torn; that a profile outlives its browser, and a held lease ends |
| `browse_sessions` | 2 commands, 2 sessions, 2 actions, 5 events, no kill, no early command | seals verify, dead sessions are recoverable |
| `browse_dead_driver` | 1 command, 1 session, 1 kill | **violation** of `DeadSessionRecoverable` |
| `browse_budget` | 2 commands, 2 sessions, no kill | **violation** of `CycleNeverFalls` |
| `first_render` | 2 commands, 2 routes (one a new page), 2 files of 2 contents, 2 iterations, reviews and edits, 1 restore, 1 kill | everything about checks, verdicts and restores (about 3.4 million states) |
| `records` | review: 2 finishes, 2 sources, 2 edits, observations, seals and reviews; studio: host and shell, 2 changes, 1 kill; store: 2 commands, 3 judging records, 2 cases promoted before, 2 pins, 2 files, 1 damaged directory; authority: 3 commands; learning: 2 promoters, 2 projects, 2 propositions, 3 promotions | no record is published, delivered or spent on what another command has replaced (about 2.5 million states) |
| `studio_retain` | the host alone, 1 change, no kill | **violation** of `RetainIsOfThisPage` |
| `authority_keys` | 2 commands | **violation** of `KeysAreOnePair` |

### Why the bounds are enough to be interesting

* *Lock.*  In `waits` two processes are a dead owner and its recoverer, or two who
  contend, with everything else allowed; a third, who is robbed by a late unlink, is in
  `lock_overlap`, and the theorems say that this is the only way: without overlapping
  recoveries exclusion holds for any number of processes.  Three inode numbers let each
  have a `.prepare` file while the lock is held.  Depth 2 is one re-entry, needed for
  releases out of order and for a task lock taken inside.
* *Lane.*  Two reviewers are one that fails and a sibling that must be aborted; two reads
  are what "once" is about.
* *Batch.*  Three items for two workers: one item waits, so a worker takes another after its
  deadline; launches, pages and closes each may come at any time or never.
* *Host.*  A queue of two has a head and a waiting command, which is interrupted, outdated or
  started.  One input or restart beyond the first makes two requests, so a route can go
  back; a fresh session over a project with a captured request is an initial state, so a
  comparison after a restart may meet a newer request.
* *Route.*  The lock serialises publishers, and one publisher may publish any
  number of routes, so more of them add nothing but symmetric holders (the
  proofs cover any number).  A publication that stops half-way followed by another needs two
  routes; a shared source contract gives readers a pointer pair that mixes two
  publications and yet parses, and the third route one that does not.
* *Browsing.*  Two commands are enough for a late reply, a late acknowledgement
  and a recovery that races an end.  Three events are start and the two of a keep (an
  end is recorded beyond the limit), so a second keep meets the limit; `browse_sessions` allows two actions so that a
  pending reply of a first action meets a second.
* *Lease.*  There is nothing to bound: one launcher, one reaper, one browser.  If both were killed
  nobody could clean up.
* *First render.*  Captures go on as long as nothing ends them, so a view may show every page of its
  time.  Two iterations make "previous" and "best" different; two
  reviews make a link in the chain of findings, and a third one that of another route
  between two of the same (with two, `review.json` never forgets a page that is then
  judged again); two edits are an edit and its
  undoing, which fools any comparison of two points in time (`undone` is reached), or an edit and the
  build that follows it late, or leave a route and come back; two files make a restore interruptible.
* *Final review.*  Two finishes supersede each other; two observations, seals and reviews give
  each of them something of its own; two edits over two sources undo each other.
* *Studio.*  The host and a shell overlap; two changes are one by the maker and one by a build.
* *Store.*  Three judging records make overlapping choices of two.  Initial states are the empty store; one
  with all that a promotion needs; one with two promoted cases; and one with a run pinned to those.  All but
  the first come about by the store's own operations.  From each, two more files are written in any
  interleaving: a promotion and a pin, a pin and a revision, or a revision and a revocation of two records
  that a pinned snapshot names while its second case is still to be checked.
* *Authority.*  Two commands make a key pair at once and a third is given one of their receipts.
* *Learning.*  Two projects that use the same decision id, and three promotions: one concludes, one
  of the other project reads what it concluded, one comes back.

`CHECK_DEADLOCK FALSE` stands where the system may really stop: all processes
dead or expired (lock), all calls answered (lane, batch, host), or every bound spent
(first render, records and the two runs of its modules).  `browse_safety` checks deadlock: a lease may
stop only when both of its processes have ended (`LeaseOver`).

## 4. Fairness

Weak fairness is assumed only of timers, of promises that are already settled, and of a
process's own next step.  None is assumed of `Die`, `Expire`, `Crash`, `DriverDies`, of a kill, an
edit, an input, or of a child, browser, page or socket that has to answer.

* `LockFairness` (`MutationLock!Fairness` in its part of `WaitsMC`): a call into the lock
  code runs to its end unless the process dies, and the user goes on issuing commands while a
  receipt is valid (`Begin`).  The code has no waiting loop: without new commands nobody
  would look at the lock.
* `LaneFairness`: the timers of the runner fire, SIGKILL ends a process, cleaning up goes on, and
  `Promise.allSettled` returns when all have settled.  A child need never do anything.
* `BatchFairness`: the deadline of the batch fires, and so does the end of its cleanup.
* `HostFairness`: a command whose predecessor is done starts, its budget runs out, SIGKILL
  follows SIGTERM and the answer follows the end of the group.
* `LeaseFairness`: launcher and reaper take their next step (a message, an exit, a timer of three
  seconds); the browser need not end before SIGKILL.
* `BrowseSession!Fairness`: a command runs to its end and a driver finishes its
  action (the driver's action has a timeout); and some command keeps asking
  about the session (strong fairness, since the command is enabled only between
  others).  Without that the reply simply stays pending, as the code intends.

All other runs are about safety.

## 5. Where code and documents disagree

Each is a run with expected result "violation"; `PROJECT.json` quotes both sides.

1. `lock_overlap`: two processes recover the same dead owner; the slower one's
   unlink by name (`core/runtime/project-write.ts:634`) removes the lock the
   faster one has just created.  Both then mutate the project.
2. `route_resume`: a publisher killed between creating a content-addressed
   record and filling it leaves a torn file under its final name; every later
   publication of the same bytes is refused as a conflict (line 502).
3. `browse_dead_driver`: a command killed between trace and state leaves the
   trace ahead of the checkpoint; if the driver then dies, neither `start` nor
   `end` can seal the session (`core/ref/browse/client.ts:104`).
4. `browse_budget`: a reply published late overwrites the cycle budget a newer
   session has used (`client.ts:113`), and the allowance grows back.
5. `studio_retain`: with its round spent, a page that was retained, delivered and then
   edited is delivered again as "retain", on the review of the page before the edit
   (`bin/model-led-completion-command.ts:299`, against line 276).
6. `authority_keys`: two first commands of a project make its key pair at once and leave the
   private key of one and the public key of the other
   (`core/runtime/self-signed-activation.ts:86`, against line 70).

Limits of what holds, found by varying the constants and the properties:

* *Lock.*  With three processes and `ReuseInodes = TRUE`, `LiveLockKept` fails without overlapping
  recoveries: the number compared before the unlink may be a new file's.  A dead owner's pid
  taken by an unrelated process keeps the lock; the task-evidence lock of a killed process is
  never recovered; a release whose receipt expires half-way keeps its depth-0 entry, and the
  lock, until the process ends (nobody re-enters it: `FailedReleaseFinal`).
* *Browsing.*  With `keep` and `MaxEvents = 3`, `DeadSessionRecoverable` fails without any
  kill: at the event limit a keep records one of its two actions.  With `EarlyCommands = TRUE`,
  `SealedSessionVerifies` fails: an `end` that overtakes the start event seals a session
  `verifyBrowseSession` rejects.
* *First render.*  A page that is changed and changed back while it is captured is reported as it was not at
  the comparison, and a build older than its source as it is (see `FirstRenderLoop` in section 2).  A kill
  between the history and `review.json` lets the same evidence be judged
  twice, a new page be reviewed twice, or a review forget the findings of the one before it: once
  for each kill, and `EvidenceJudgedOnce`, `NewPageReviewedOnce` and `FindingsAnswered` say that no
  kill costs more.  So does a review of another route: it replaces `review.json`, which
  `readCurrentFirstRenderReview` then ignores (`core/design/first-render-review.ts:121`), so a
  reviewer asked before it, or after the maker is back, answers for evidence that has a verdict
  (the properties speak of reviews in a row, with no other route's between them).  A torn
  `review.json` fails every later review until it is removed by hand.  Re-judging the latest iteration after new feedback appends a copy of it,
  which makes the original its own previous iteration; completion then refuses the
  retain just given and falls back to the review command.  For a new page whose one review is
  spent, the review command returns whatever `review.json` holds, possibly another route's
  verdict (`core/design/first-render-review.ts:444`).
* *Final review.*  Final evidence may be published although its review has meanwhile been followed by
  a rejected one; a finish may report completion although `.omd/final-evidence-v2.json` is another
  finish's, for a later source than the one it verified itself; the pointer may go back to an older review of the same
  evidence; a killed finish leaves the pointer pending.
* *Studio.*  An edit between capture and delivery is delivered unmeasured; a page sent back is
  delivered untouched by the next finish; an edit during an attempt of the host counts as
  attempted.  After a kill between the history and `review.json` every finish throws
  FIRST_RENDER_REVIEW_REQUIRED.  `review.json` is one per project, the rounds are per route.
* *Store.*  A record may be revised or revoked after the check of its case and before the last: the snapshot is
  published, and was active as a whole only when its check began.
  Two writers at once may leave chains that fail every later read, or a pin with two
  snapshots; a kill leaves a torn file with the same effect.
* *Batch.*  A browser that does not close in a minute makes the batch throw although its references
  are saved.
* *Receipts.*  A kill between the rename of the private key and the write of the public one leaves a project
  whose receipts cannot be verified.
* *Browser lease.*  Before the lease is held a kill may leave a profile, and a running browser if the
  reaper dies unread or, without a launcher, fails to offer the lease.  A binary that cannot be
  spawned leaves the profile.  If the owner marker cannot be written the profile is removed under the
  running browser, and the launcher waits, deaf to signals, until the browser ends.  A kill between
  the rename and the removal of a profile leaves it under its claimed name.
* *Learning.*  Two promotions at once lose a conclusion.  One that opens the index while another replaces it
  goes on from its project's index, and then replaces everybody's conclusions; one that finds the user's index
  unreadable or invalid does the same (`core/learning/index.ts:281` and 358), which is not among the
  states of the model.  A promotion that throws
  at a later prediction leaves what it concluded of the earlier ones out of the index.  A readable index of the user hides the project's
  own.  Two projects with the same decision id replace each other's entry.
* *Pi host.*  An interruption of the running command is answered before its process group is gone
  (`extensions/omd-runtime.ts:290`): for up to three seconds two processes may be alive, and the interrupted one
  may still publish the route of an earlier request.  After a restart, a route command that compares
  its request sets the active request after its await (`extensions/omd-request-binding.ts:102`) even if
  a newer one was activated meanwhile; the later route commands are then refused until the next request.

## 6. What is proved

All for every value of the constants that satisfies the named assumptions
(`MutationLockAssumption`, `ProjectLockAssumption`, `RoutePublicationAssumption`,
`BrowseAssumption`, `FirstRenderAssumption`, `FinalReviewAssumption`, `StudioAssumption`,
`EvaluationAssumption`, `AuthorityAssumption`, `LearningAssumption`, `BatchAssumption`,
`PiHostAssumption`): any number of processes, routes, readers, sessions, files and any bounds.

### MutationLockProofs

`TypeCorrect` needs nothing else.  The others assume
`QuietRecovery == ~OverlapRecovery /\ ~ReuseInodes`, for without the first
exclusion is false (section 5) and without the second `LiveLockKept` is.

The inductive invariant `LockInv` says why the protocol works: a `.prepare`
file is known to nobody but its process until the link (`TempInv`); from the
link to the unlink the owner's file *is* the lock, and what the owner remembers
of it is right (`OwnInv`); a recovery remembers a dead owner's file, and from
its last look to its unlink that file is still the lock because nobody else may
remove it (`RecoverInv`, the place where `OverlapRecovery` enters); an entry
left at depth 0 by a failed release belongs to an invocation that has lost its
authority, so nobody re-enters it (`FailedReleaseIsFinal`).  From it follow
`LockExcludes`, `HolderIsOwner`, `LockNamesItsOwner`, `TaskLockInside`, `FailedReleaseFinal`, the
action property `LiveOwnerKeepsLock`, and `LockFileIsProjectLock`: with
`lockHolder <- Holder`, every step of the lock file is an `Acquire`, a `LetGo`
or a stutter.

### RoutePublicationProofs

`RouteInv` is inductive with no extra assumption.  Its publisher half: a
publication belongs to the lock's holder, and all files before its next one are
whole (`Earlier`).  Its reader half: of the source and route a reader carries,
either that very pair, or the route with its own source, was on disk since the
read began.  Judging compares the source inside the route record with the one read,
so for an accepted read the two cases are the same pair: the second look at the
pointers decides only whether to retry.  Hence
`PointersAreSound` and `ReadsAreCoherent`.  `ScopeInv` adds that a publication past its baseline
still finds its route in the scope pointer; with it `RouteIsLast` follows, since only the step that
writes the route pointer changes the current route.

`UndisturbedSucceeds` is about the readers that are refused.  `CalmInv`: while no file of the route and no
entry on the way to it has changed since a read began, the source and the record it carries are those of the two pointers, and it has
not been sent back for a moved pointer.  So every file it looks at is the one the pointers lead to,
and the only refusals left are those of a route that is not readable.  Every step of a publisher, of the
author and of whoever changes an entry ends that calm (`OthersTouch`) and no step of another reader does (`ReadersMove`).  The
proof needs `"failed"` to be no route, which is in `RoutePublicationAssumption`.

`ImplementsRegister` is the refinement of `RouteRegister`, one case per action: the
swap of either pointer is a `Write`, `BeginRead` is a `Call`, a read that ends, accepted or failed and
at whichever of its steps, is a `Return`, and the rest are stutters.  That a returned route is among those the register
has seen is the reader half of `RouteInv`.

`UninterruptedNotRefused` is where the promise that `route_resume` refutes does hold: until the first
interruption a file that is not filled is one its living publisher is about to fill (`TornIsOpen`), and
only one that nobody will fill refuses a publication.

### BrowseSessionProofs

`BrowseInv` relates what a driver knows, what is on disk and what each command carries:
the trace is a prefix of the log of a living driver; a pending reply is of the
whole log; what has been acknowledged is a prefix of the trace; an open session has
published no end; of a sealed one seal, head and trace are one; a reply made by a recovery
exists only when the driver is gone for good; between the trace and the budget a command
holds the lock; a session is launched by one command.  It holds with early commands and
without.  Theorems: `AckedPublished`, `PendingRedoable`, `TraceGrows` and `SealFinal`
(a sealed session changes no more), with `PrefixMeans` and its sequels as lemmas about prefixes.

`ImplementsResearchLog` puts these together: `PublishTrace` extends the published log of a session
that has not ended, or changes nothing (`PublishExtends`); `PublishState` seals the whole of an
ended one, or changes nothing that the abstract log shows (`PublishSeals`); every other step is a
stutter (`ResearchStays`).

`SealedVerifies` assumes `~EarlyCommands`, without which it is false (section 5, limits).
Its invariant `BeginInv` is about the other end of a log: the command that launched a session is
alone with it until its start event is recorded (`OneBeginner`, `Early`), a head or a checkpoint tells
of a log that has begun (`Tells`), and so every log, trace, checkpoint and reply begins with the only
start.  With `BrowseInv`, which puts the only end last, a seal is what `verifyBrowseSession` accepts.

`DeadRecoverable` assumes that nobody keeps (`"keep" \notin Verbs`) and concludes for as long as no
command has been killed: without either it is false (at the event limit, and in `browse_dead_driver`).
Drivers may die at any moment.  Without keeps, a reply without a checkpoint is of a refused action and
adds no event (`RepliesCertified`), so publishing it changes no trace.  A checkpoint is therefore behind
its trace only between the two files of one publication, and there the command that holds the lock
carries the checkpoint that comes next (`Recoverable`, `Carried`).  The steps that lead there rest on
what `BrowseInv` says of stale replies: a trace that is ahead of a reply is not overwritten.

`CycleKept` says what it takes for the allowance to grow back: the publication of a session other
than the current one, as in `browse_budget`.  `CountInv` follows a count wherever it goes.  A driver
adds one to its count for every "act" it adds to its log, so a count that was taken with a log (into a
reply, a checkpoint, a recovery, a command's copy) differs from the driver's by the acts recorded since
(`Accounted`, `Steady`); and the head of a session never goes back, because who is between the trace and
the budget holds the lock and puts it forward (`HeadCounts`, `HeadGrows`).  `CycleInv`: the cycle's
count is at most what the published part of the current session has spent, with equality when that
session's own budget is written.  `ActsGrow` and `ActsAppend` count the acts of a log as a finite set.

### FirstRenderLoopProofs

`LoopTyped` (types, plus: every review number in history, `review.json` and a
packet is of a recorded review) and `LoopInv` (each command that writes holds the
lock; what a check is about to write binds the source it read, `HistoryBound`, and has its iteration; a
restore under way writes an iteration of the history it saw; and the properties about verdicts) are
proved step by step, one lemma per operation.  `WatchInv` is about the views: as long as the page has
not changed since a check took its digests, every view shows the page they are of, and after one change the
page is another one, so that no comparison succeeds after a single change (`Steady`);
what is left are two changes, and those `undone` names (`ShowsBound`).  Theorems: `LoopTypeOK`,
`CheckpointMatchesReport`, `ReportKeepsIteration`, `VerdictFiledRight`,
`VerdictStaysCurrent`, `HistoryKept`, `RestorePutsAllBack`.  The last has
the longest argument of these: a restore writes its files one by one while the maker
works on, and it is whole because every file outside `todo` equals the
checkpoint as long as the maker has not edited since the lock was taken, and
because the history it planned from cannot change while it holds the lock.
`ChainInv` follows the reviews of a route, kills included.  Whoever is about to write
`review.json` writes the last review (`Published`), and a review that continues another reconciles
what that one found (`Linked`).  A review that follows one of its route without continuing it is a
break of the chain (`Broken`).  A break needs a last review that is missing from `review.json` with
nobody about to write it, and only a kill leaves that behind: counting it as a debt (`Debt`), the breaks
and the debt never exceed the kills (`Paid`).  Each review is on one iteration (`Filed`, `FiledOnce`),
and whoever asks about a new page has found no review of it (`AskedFirst`).  The repeated judgements, the
reviews that forget findings and the further reviews of a new page are all breaks; hence
`FindingsStayAnswered`, `JudgedOnce` and `NewPageOnce`, each by counting a subset.
`MaxIsMember` proves from well-foundedness of `<` on the naturals that `Max` of
a non-empty set of iterations is one of them.

### FinalReviewProofs

`Inv` says why the guards of a publication still hold at its write.  From the comparison to the
write the finish holds the lock, so the pointer is still pending under its nonce and the
observation and the seal are the ones its lanes judged (`Accepted`), or its manifest binds
(`Approved`).  A manifest binds a review that was published (`Bound`), and every published review
passed on the sealed source (`Backed`).  Hence `FinalIsReviewed` and the action properties
`SettledByOwner`, `PublishedCurrent` and `CompletionIsBacked`.

### EvaluationStoreProofs

`StoreInv` makes precise why reads at different times are enough: records and revocations are only
added, and what has been revised or revoked never becomes active again, so nothing of a
snapshot that is active at a later read was inactive when its check began (`ActiveSince`), whichever of its
cases that read is for.  Hence
`SnapshotWasActive`, with writers and kills anywhere.  `Steady` is for writers that take turns:
there is one, and what it read is what is there when it writes (`Ready`); hence `ReadableInTurn`.  A kill
matters to it only if it tears a file.

### WaitsProofs

*Lane*: a broker that gave its evidence out is not open (`BrokerOnce`); no call of the tool is
under way outside a turn, so what was seen of the one read stays so until the lane returns (`NoLateRead`,
`ProofStands`); a settled child is gone and its broker shut.  *Batch*: what is saved is what has a
good outcome, a browser is open only while the deadline is armed, and an answer settles it.
*Host*: `HostInv` says that some numbering of the calls orders the queue (`QueueOK`): one
unsettled call is its head, the others wait behind a smaller one.  A process lives only for a call at
work or an interrupted one (`ChildOK`), and no route, published or about to be by a process at work,
is newer than one that a waiting call may publish (`RoutesOK`).  *Lease*: who removes a profile knows that
the group is gone (`RemoverKnows`), and a launcher looks for that only when there is no reaper that could
still start one; a profile that is being offered is as it was made (`MarkedIsOffered`).

`LaneRunsOut`, `BatchRunsOut` and `QueueRunsOut` are the arguments for `LaneReturns`, `BatchAnswers` and
`CallsAnswered`, short of what needs fairness.  The first half of each is a measure: every step that changes a child (a call) brings
it nearer to its end, at most ten (eight) steps away, and the deadline of a batch is never set
again; a correction turn, the one way back of a child, is paid for by `corrected`.  The second half says that somebody can always take such a step without
the help of a process: a child of a running lane that has not settled has a timer or a dead process;
a batch without an answer has its deadline or the one of its cleanup;
among unsettled calls the head of the queue, which exists because the order is well-founded
(`QueueHasHead`), has its turn, its budget or its escalation.  Fairness of the runner's and the
extension's own steps, which TLC adds, is then all that is missing.

### RecordsProofs

*Studio*: as long as nothing has changed since an attempt returned, the host's note is of the source
as it is and the host is idle (`NotedAttempt`); a round is counted before its review is published, and
who delivers holds a published one (`ReviewCounted`).  `RetainedPage`: until a build makes another page
after a comparison was recorded, every review in use is of the page as it is (`ReviewOfPage`).
*Authority*: a claim file outlives its
process, so a nonce in use is among `claims`, and no two commands are past the claim of one
nonce.  `PairInTurn`: until two commands make the key pair at once, the two files are one pair and
every receipt bears its key, wherever a command is killed.  *Learning*: what a promotion has concluded is about earlier propositions than the next one
(`NewsIsBehind`), and a promotion with nobody beside it holds every conclusion that it has not
replaced (`HoldsAll`).

### Where the refuted promises hold

Each violation of section 5 has a theorem that says how far the promise goes, and with that, what
its only cause is:

| promise refuted by | holds | theorem |
|---|---|---|
| `lock_overlap` | while recoveries do not overlap and remembered inode numbers are not reused | `LockExcludes` |
| `route_resume` | until a publication is interrupted | `UninterruptedNotRefused` |
| `browse_dead_driver` | without keeps, until a command is killed | `DeadRecoverable` |
| `browse_budget` | while only the current session is published | `CycleKept` |
| `studio_retain` | while no build makes another page after a comparison | `RetainedPage` |
| `authority_keys` | until two commands make the pair at once | `PairInTurn` |

### Only model-checked

Liveness (`DeadOwnerRecovered`, `PendingResolved`, `LaneReturns`, `BatchAnswers`,
`CallsAnswered`, `LeaseEnds`): out of the prover's reach; of three of them the measure and who can
take the next step are proved (`LaneRunsOut`, `BatchRunsOut`, `QueueRunsOut`).  Every invariant and every action
property of the passing runs is stated by a theorem.  The proofs about the modules
that extend `ProjectLock` are relative to that abstract lock.  Proved, and checked by no run:
those three, `HistoryKept`, `TaskLockInside`, `FailedReleaseFinal`, `DeliveryIsCompared`, the type
invariants, and of the table above all but `LockExcludes` and `DeadRecoverable`, whose properties a
passing run checks in some form.  `ReadsAreCoherent` is implied by `IsRouteRegister`, `TraceGrows` and
`SealFinal` by `IsResearchLog`, which the runs check.  `MutualExclusion` is checked where it fails (`lock_overlap`); where it holds, `waits` checks the
refinement of `ProjectLock`, which says more.

## 7. Plan

1. Proofs: a measure for the two processes of `BrowserLease`, as `LaneRunsOut` is for a lane.
2. `ObservationChain`: the records of `core/runtime/observation.ts` with their pointer and the
   predecessor of a repair; today FinalReview knows only the end of the chain.
3. `LoopReasons`: the stall rules of `core/design/first-render-loop-state.ts` as
   operators over a history, against a reference definition.
4. The other writers of `PiHost`: judgments that cancel a workflow, repair continuations.

## 8. What is not modelled

Derivation, parsing and validation of one document or page at a time (routes,
briefs, references, locale profiles, copy, rules, slop and measurement), Figma
comparison, the launchers of hosts other than Pi, installation, vendored
code, guides and evaluations: data or plain I/O, where a model checker has
nothing to interleave.  Rendered refinement, task evidence and optical admission derive from captured evidence and publish
one record, the step of `RoutePublication`.

Within the modelled components: path containment and symbolic links of the guarded writers; how a
route is derived; the rules of one browse action; the legacy route record; wording rules, stall
rules and the motion preference of the first-render loop; old review schemas; what a gate judges
about a page, the lanes' handbacks and the functional evidence of a finish; the evidence of
experiment runs and the version 1 readers of the store; the identity checks of reviewer processes;
the simpler reapers of the browser's smoke check; the second page of a capture that samples its motion
(`core/ref/batch.ts:122`), opened in the same browser; the modes of a batch with a remote or the user's
browser; expiry, arguments and payloads bound to a receipt, and role receipts; the authenticity of browser evidence and the selection of rules by scope;
judgments, browser consent, failed captures, blank requests (`extensions/omd-request-binding.ts:71-72`) and
repair continuations of the Pi host; an unreadable or invalid index of the user's learning.

A pid is an identity: a dead owner's pid taken by an unrelated process only delays recovery.
The file system is taken to be local and to keep the order of its calls: a kill
is of a process, never of the machine.
