---------------------------- MODULE BrowserLease ----------------------------
(***************************************************************************)
(* A browser with a temporary profile and the two processes that must not   *)
(* leave either behind (core/install/browser-rs-mcp-main.ts, the launcher,  *)
(* and browser-rs-mcp-reaper.ts, the reaper).                               *)
(*                                                                         *)
(* The reaper makes the profile, starts the browser in a process group of   *)
(* its own and offers the lease of both to the launcher.  Whoever survives  *)
(* the other ends the group and removes the profile; the launcher knows     *)
(* that the group is gone by a socket that its processes inherit.  Either   *)
(* of the two may be killed at any time.                                    *)
(***************************************************************************)

VARIABLES
    launcher,       \* where main() is
    reaper,         \* where initialize(), or the handler of its failure, is
    group,          \* the browser's process group
    profile,        \* the profile directory
    marked,         \* the owner marker is in the profile
    toLauncher,     \* messages of the reaper not yet taken
    toReaper,       \* messages of the launcher not yet taken
    lease,          \* the launcher holds the lease
    completed,      \* the launcher knows that the reaper has removed the profile
    stopping,       \* terminate() was called
    wanted,         \* how the client has asked for the end
    struck          \* history: one of the two was killed

leaseVars == <<launcher, reaper, group, profile, marked, toLauncher, toReaper,
               lease, completed, stopping, wanted, struck>>

LauncherPoints == {"idle", "waiting", "terming", "claiming", "removing", "exited", "killed"}

ReaperPoints ==
    {"none", "init", "made", "linked", "spawned", "offered", "serving", "claim", "remove",
     "report", "undo", "undoing", "lingering", "gone"}

\* The leader of a group may end before its descendants do.
Groups == {"none", "up", "leaderless", "gone"}

ReaperMessages == {"ready", "complete"}
LauncherMessages == {"lease-held", "signal"}
ExitRequests == {"signal", "input"}

LeaseTypeOK ==
    /\ launcher \in LauncherPoints
    /\ reaper \in ReaperPoints
    /\ group \in Groups
    /\ profile \in {"none", "made", "claimed", "removed"}
    /\ toLauncher \subseteq ReaperMessages
    /\ toReaper \subseteq LauncherMessages
    /\ wanted \subseteq ExitRequests
    /\ marked \in BOOLEAN /\ lease \in BOOLEAN /\ completed \in BOOLEAN
    /\ stopping \in BOOLEAN /\ struck \in BOOLEAN

LeaseInit ==
    /\ launcher = "idle" /\ reaper = "none"
    /\ group = "none" /\ profile = "none"
    /\ toLauncher = {} /\ toReaper = {} /\ wanted = {}
    /\ marked = FALSE /\ lease = FALSE /\ completed = FALSE
    /\ stopping = FALSE /\ struck = FALSE

GroupLives == group \in {"up", "leaderless"}
LauncherLives == launcher \notin {"idle", "exited", "killed"}
ReaperLives == reaper \notin {"none", "gone"}

\* What only the launcher knows, and what only the reaper does.
launcherOwn == <<launcher, lease, completed>>
reaperOwn == <<reaper, marked, stopping>>
world == <<group, profile, wanted, struck>>

-----------------------------------------------------------------------------
(* The launcher.                                                           *)

StartReaper ==
    /\ launcher = "idle"
    /\ launcher' = "waiting"
    /\ reaper' = "init"
    /\ UNCHANGED <<lease, completed, marked, stopping, world, toLauncher, toReaper>>

\* A signal is passed on as long as the channel is open; a second one of the same
\* name has its default effect, that of KillLauncher.
RequestExit ==
    /\ LauncherLives /\ "signal" \notin wanted
    /\ wanted' = wanted \cup {"signal"}
    /\ toReaper' = IF ReaperLives /\ reaper # "lingering"
                   THEN toReaper \cup {"signal"} ELSE toReaper
    /\ UNCHANGED <<launcherOwn, reaperOwn, group, profile, struck, toLauncher>>

\* The client closes the standard input, which is piped to the reaper's.
CloseInput ==
    /\ LauncherLives /\ "input" \notin wanted
    /\ wanted' = wanted \cup {"input"}
    /\ UNCHANGED <<launcherOwn, reaperOwn, group, profile, struck, toLauncher, toReaper>>

TakeReady ==
    /\ launcher = "waiting" /\ "ready" \in toLauncher
    /\ lease' = TRUE
    /\ toLauncher' = toLauncher \ {"ready"}
    /\ toReaper' = toReaper \cup {"lease-held"}
    /\ UNCHANGED <<launcher, completed, reaperOwn, world>>

TakeComplete ==
    /\ launcher = "waiting" /\ "complete" \in toLauncher
    /\ completed' = TRUE
    /\ toLauncher' = toLauncher \ {"complete"}
    /\ UNCHANGED <<launcher, lease, reaperOwn, world, toReaper>>

\* Mutant of MustFallBack: the launcher leaves the lease to the reaper.
NeverFallBack == FALSE

MustFallBack == lease /\ ~completed

\* The exit may be seen before the messages that preceded it are.
ObserveExit ==
    /\ launcher = "waiting" /\ reaper = "gone"
    /\ launcher' = IF MustFallBack THEN "terming" ELSE "exited"
    /\ UNCHANGED <<lease, completed, reaperOwn, world, toLauncher, toReaper>>

\* SIGTERM has not ended the group in three seconds.
LauncherKills ==
    /\ launcher = "terming" /\ GroupLives
    /\ group' = "gone"
    /\ UNCHANGED <<launcherOwn, reaperOwn, profile, wanted, struck, toLauncher, toReaper>>

\* Mutant of SentinelClosed: the profile is cleaned up without waiting for the group.
SentinelIgnored == TRUE

\* The reaper, which held the socket too, is gone.
SentinelClosed == ~GroupLives

AfterSentinel ==
    /\ launcher = "terming"
    /\ SentinelClosed
    /\ launcher' = "claiming"
    /\ UNCHANGED <<lease, completed, reaperOwn, world, toLauncher, toReaper>>

\* cleanupLease does nothing when the reaper has renamed the profile before.
LauncherClaims ==
    /\ launcher = "claiming"
    /\ IF profile = "made"
       THEN profile' = "claimed" /\ launcher' = "removing"
       ELSE launcher' = "exited" /\ UNCHANGED profile
    /\ UNCHANGED <<lease, completed, reaperOwn, group, wanted, struck, toLauncher, toReaper>>

LauncherRemoves ==
    /\ launcher = "removing"
    /\ profile' = "removed"
    /\ launcher' = "exited"
    /\ UNCHANGED <<lease, completed, reaperOwn, group, wanted, struck, toLauncher, toReaper>>

KillLauncher ==
    /\ LauncherLives /\ ~struck
    /\ launcher' = "killed"
    /\ struck' = TRUE
    /\ UNCHANGED <<lease, completed, reaperOwn, group, profile, wanted, toLauncher, toReaper>>

-----------------------------------------------------------------------------
(* The reaper, until it offers the lease.                                  *)

Goes(from, to) == reaper = from /\ reaper' = to

MakeProfile ==
    /\ Goes("init", "made")
    /\ profile' = "made"
    /\ UNCHANGED <<launcherOwn, marked, stopping, group, wanted, struck, toLauncher, toReaper>>

\* No temporary directory: there is nothing to undo.
MakeFails ==
    /\ Goes("init", "gone")
    /\ UNCHANGED <<launcherOwn, marked, stopping, world, toLauncher, toReaper>>

\* The launcher's socket, if there is still a launcher.
LinkSentinel ==
    /\ IF launcher = "killed" THEN Goes("made", "undo") ELSE Goes("made", "linked")
    /\ UNCHANGED <<launcherOwn, marked, stopping, world, toLauncher, toReaper>>

SpawnGroup ==
    /\ Goes("linked", "spawned")
    /\ group' = "up"
    /\ UNCHANGED <<launcherOwn, marked, stopping, profile, wanted, struck, toLauncher, toReaper>>

\* The child's error event has no listener: the reaper dies with the profile made.
SpawnFails ==
    /\ Goes("linked", "gone")
    /\ UNCHANGED <<launcherOwn, marked, stopping, world, toLauncher, toReaper>>

\* Without a launcher the channel may be closed by then, which nobody listens for.
OfferLease ==
    /\ \/ Goes("spawned", "offered") /\ toLauncher' = toLauncher \cup {"ready"}
       \/ launcher = "killed" /\ Goes("spawned", "gone") /\ UNCHANGED toLauncher
    /\ marked' = TRUE
    /\ UNCHANGED <<launcherOwn, stopping, world, toReaper>>

\* The profile is removed although the browser runs.
MarkerFails ==
    /\ Goes("spawned", "undo")
    /\ UNCHANGED <<launcherOwn, marked, stopping, world, toLauncher, toReaper>>

-----------------------------------------------------------------------------
(* The reaper with a lease.                                                *)

Attending == reaper \in {"offered", "serving"}

\* Messages that came while nobody listened have been kept.
TakeSignal ==
    /\ Attending /\ "signal" \in toReaper
    /\ stopping' = TRUE
    /\ toReaper' = toReaper \ {"signal"}
    /\ UNCHANGED <<launcherOwn, reaper, marked, world, toLauncher>>

TakeHeld ==
    /\ "lease-held" \in toReaper
    /\ Goes("offered", "serving")
    /\ toReaper' = toReaper \ {"lease-held"}
    /\ UNCHANGED <<launcherOwn, marked, stopping, world, toLauncher>>

\* The input is read once the lease is held; its end sends no signal to the group.
InputEnds ==
    /\ reaper = "serving" /\ "input" \in wanted /\ ~stopping
    /\ stopping' = TRUE
    /\ UNCHANGED <<launcherOwn, reaper, marked, world, toLauncher, toReaper>>

\* The launcher is gone, and will not hold the lease.
Disconnect ==
    /\ launcher = "killed"
    /\ Attending /\ ~(reaper = "serving" /\ stopping)
    /\ reaper' = "serving"
    /\ stopping' = TRUE
    /\ UNCHANGED <<launcherOwn, marked, world, toLauncher, toReaper>>

\* Three seconds after terminate() was called.
KillGroup ==
    /\ Attending /\ stopping /\ group = "up"
    /\ group' = "gone"
    /\ UNCHANGED <<launcherOwn, reaperOwn, profile, wanted, struck, toLauncher, toReaper>>

\* The leader has exited: the rest of the group gets SIGKILL.
TakeExit ==
    /\ group \in {"leaderless", "gone"}
    /\ Goes("serving", "claim")
    /\ group' = "gone"
    /\ UNCHANGED <<launcherOwn, marked, stopping, profile, wanted, struck, toLauncher, toReaper>>

ReaperClaims ==
    /\ \/ Goes("claim", "remove") \/ Goes("undo", "undoing")
    /\ profile' = "claimed"
    /\ UNCHANGED <<launcherOwn, marked, stopping, group, wanted, struck, toLauncher, toReaper>>

\* After an error the channel is closed, and the reaper ends when its child has.
ReaperRemoves ==
    /\ \/ Goes("remove", "report")
       \/ Goes("undoing", IF group = "up" /\ launcher # "killed" THEN "lingering" ELSE "gone")
    /\ profile' = "removed"
    /\ UNCHANGED <<launcherOwn, marked, stopping, group, wanted, struck, toLauncher, toReaper>>

Report ==
    /\ Goes("report", "gone")
    /\ toLauncher' = toLauncher \cup {"complete"}
    /\ UNCHANGED <<launcherOwn, marked, stopping, world, toReaper>>

Lingered ==
    /\ group # "up"
    /\ Goes("lingering", "gone")
    /\ UNCHANGED <<launcherOwn, marked, stopping, world, toLauncher, toReaper>>

KillReaper ==
    /\ ReaperLives /\ ~struck
    /\ reaper' = "gone"
    /\ struck' = TRUE
    /\ UNCHANGED <<launcherOwn, marked, stopping, group, profile, wanted, toLauncher, toReaper>>

-----------------------------------------------------------------------------

\* The browser ends, by itself or at a SIGTERM, all at once or its leader first.
GroupEnds ==
    /\ \/ group = "up" /\ group' \in {"leaderless", "gone"}
       \/ group = "leaderless" /\ group' = "gone"
    /\ UNCHANGED <<launcherOwn, reaperOwn, profile, wanted, struck, toLauncher, toReaper>>

LauncherStep ==
    \/ TakeReady \/ TakeComplete \/ ObserveExit \/ LauncherKills
    \/ AfterSentinel \/ LauncherClaims \/ LauncherRemoves

ReaperStep ==
    \/ MakeProfile \/ LinkSentinel \/ SpawnGroup \/ OfferLease
    \/ TakeSignal \/ TakeHeld \/ InputEnds \/ Disconnect \/ KillGroup \/ TakeExit
    \/ ReaperClaims \/ ReaperRemoves \/ Report \/ Lingered

LeaseFault == MakeFails \/ SpawnFails \/ MarkerFails \/ KillLauncher \/ KillReaper

LeaseNext ==
    \/ StartReaper \/ RequestExit \/ CloseInput \/ GroupEnds
    \/ LauncherStep \/ ReaperStep \/ LeaseFault

\* Promises and timers of two processes; the browser need not end at a SIGTERM.
LeaseFairness == WF_leaseVars(LauncherStep) /\ WF_leaseVars(ReaperStep)

LeaseSpec == LeaseInit /\ [][LeaseNext]_leaseVars

-----------------------------------------------------------------------------
(* Properties.                                                             *)

\* A profile that was marked is never taken away from a browser that runs, not
\* even from descendants of its leader: neither by the reaper, nor by the launcher
\* of a reaper that was killed, which is no parent of the group and learns of its
\* end by the socket alone (browser-rs-mcp-main.ts: main; browser-rs-mcp-reaper.ts:
\* initialize).
ProfileOutlivesBrowser == marked /\ profile \in {"claimed", "removed"} => ~GroupLives

LeaseReturned ==
    /\ launcher \in {"exited", "killed"}
    /\ reaper = "gone"
    /\ ~GroupLives
    /\ profile \in {"claimed", "removed"}

\* Once the launcher holds the lease, an end of the browser, a request to end it
\* and a kill of either process leave nothing running and no profile in its place,
\* also when the browser ignores SIGTERM (the fallback of main; terminate).
LeaseEnds ==
    lease /\ (wanted # {} \/ struck \/ group \in {"leaderless", "gone"}) ~> LeaseReturned

=============================================================================
