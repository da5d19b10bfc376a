------------------------------- MODULE PiHost -------------------------------
(***************************************************************************)
(* The commands and requests of one project in the Pi host extension        *)
(* (extensions/omd.ts, omd-request-binding.ts, omd-runtime.ts,              *)
(* omd-process.ts).                                                         *)
(*                                                                         *)
(* Pi may execute sibling tools at once; the extension chains their         *)
(* commands, so that one CLI process runs at a time.  A command may be      *)
(* interrupted, exceed its budget, ignore SIGTERM, or find when its turn    *)
(* comes that the user has said something new.  A route command runs with   *)
(* the user's request as it was captured, never with the one the model       *)
(* retyped; after a restart the captured request is compared with the       *)
(* current route first, by a process of its own.                            *)
(***************************************************************************)
EXTENDS Integers

CONSTANTS
    Calls,          \* calls of the omd_cli tool, each made once
    NoCall,         \* no call
    MaxTurns        \* bound on the user's inputs and session starts, plus one

ASSUME PiHostAssumption == NoCall \notin Calls /\ MaxTurns \in Nat \ {0}

VARIABLES
    call,           \* call[c]: the state of run(), see FreshCall
    child,          \* child[c]: its CLI process, and the request it may publish a route of
    tail,           \* the newest command of the queue
    turn,           \* the epoch: a number for the latest input
    inbox,          \* inputs received, of which Pi has not started the prompt
    active,         \* the request this session works on, 0 for none
    suspended,      \* the user has turned to another task
    captured,       \* how many requests were captured: the newest is the current one
    routed          \* the request in the published route

hostVars == <<call, child, tail, turn, inbox, active, suspended, captured, routed>>

\* No route; one with the model's own request, made before any was captured, has 0.
NoRoute == -1

Routes == NoRoute..MaxTurns

Mutating == {"classify", "write"}
RouteOps == {"classify", "validate"}
Ops == Mutating \cup RouteOps \cup {"read"}

\* An input is a request for the whole workflow, the bare skill, or anything else.
Topics == {"request", "skill", "other"}

Points == {"idle", "queued", "verifying", "running", "stopping", "done"}

FreshCall ==
    [at |-> "idle", op |-> "read", said |-> 1, source |-> 0, prev |-> NoCall, interrupted |-> FALSE]

CallStates ==
    [at : Points, op : Ops, said : 1..MaxTurns, source : 0..MaxTurns,
     prev : Calls \cup {NoCall}, interrupted : BOOLEAN]

Children == [state : {"none", "alive", "termed", "gone"}, route : Routes]

NoChild == [state |-> "none", route |-> NoRoute]
Gone == [state |-> "gone", route |-> NoRoute]

HostTypeOK ==
    /\ call \in [Calls -> CallStates]
    /\ child \in [Calls -> Children]
    /\ tail \in Calls \cup {NoCall}
    /\ turn \in 1..MaxTurns
    /\ inbox \subseteq [said : 1..MaxTurns, about : Topics]
    /\ active \in 0..MaxTurns /\ captured \in 0..MaxTurns /\ routed \in Routes
    /\ suspended \in BOOLEAN

\* A session starts in a new project, or in one with a captured request, routed or not.
HostInit ==
    /\ call = [c \in Calls |-> FreshCall]
    /\ child = [c \in Calls |-> NoChild]
    /\ tail = NoCall
    /\ turn = 1
    /\ inbox = {}
    /\ active = 0
    /\ suspended = FALSE
    /\ captured \in {0, 1}
    /\ routed \in {NoRoute, captured}

requestVars == <<turn, inbox, active, suspended, captured>>

-----------------------------------------------------------------------------
(* The queue.                                                              *)

Unsettled == {c \in Calls : call[c].at \in Points \ {"idle", "done"}}

\* A command that waits behind another answers an interruption at once.
Replied(c) ==
    \/ call[c].at = "done"
    \/ call[c].at = "queued" /\ call[c].prev # NoCall /\ call[c].interrupted

\* A command that has settled leaves nothing but whether it was interrupted.
Moved(c, to, stop) ==
    IF to = "done" THEN [FreshCall EXCEPT !.at = to, !.interrupted = stop]
                   ELSE [call[c] EXCEPT !.at = to, !.interrupted = stop]

Moves(c, to, stop) ==
    /\ call' = [call EXCEPT ![c] = Moved(c, to, stop)]
    /\ tail' = IF to = "done" /\ tail = c THEN NoCall ELSE tail

Spawns(c, route) == child' = [child EXCEPT ![c] = [state |-> "alive", route |-> route]]

\* pin: a route command needs a request that is still the one this session works on.
MayPin(op) ==
    op \in RouteOps => /\ captured # 0 => ~suspended
                       /\ active \in {0, captured}

Issue(c, op) ==
    /\ call[c].at = "idle"
    /\ MayPin(op)
    /\ call' = [call EXCEPT ![c] =
            [at |-> "queued", op |-> op, said |-> turn, prev |-> tail, interrupted |-> FALSE,
             source |-> IF op \in RouteOps THEN captured ELSE 0]]
    /\ tail' = c
    /\ UNCHANGED <<child, requestVars, routed>>

\* Something was said after a command that changes the project was issued.
Outdated(c) == call[c].op \in Mutating /\ call[c].said # turn

\* After a restart, with a route to compare the captured request with.
MustVerify(c) == call[c].source # 0 /\ active = 0 /\ routed # NoRoute

\* materialize: the request must not have been replaced since it was pinned.
Starts(c) ==
    IF call[c].source \in {0, captured}
    THEN /\ Moves(c, "running", FALSE)
         /\ Spawns(c, IF call[c].op = "classify" THEN call[c].source ELSE NoRoute)
    ELSE /\ Moves(c, "done", FALSE)
         /\ child' = [child EXCEPT ![c] = Gone]

\* Mutant of MayRun: commands do not wait for each other.
MayRunBeside(c) == TRUE

\* Its turn in the queue comes when the command before it has settled.
MayRun(c) == call[c].prev \notin Unsettled

TakeTurn(c) ==
    /\ call[c].at = "queued"
    /\ MayRun(c)
    /\ LET cancelled == call[c].interrupted \/ Outdated(c) IN
        \/ /\ cancelled
           /\ Moves(c, "done", call[c].interrupted)
           /\ UNCHANGED <<child, active>>
        \/ /\ ~cancelled /\ MustVerify(c)
           /\ Moves(c, "verifying", FALSE)
           /\ Spawns(c, NoRoute)
           /\ UNCHANGED active
        \/ /\ ~cancelled /\ ~MustVerify(c)
           /\ Starts(c)
           /\ active' = IF active = 0 THEN call[c].source ELSE active
    /\ UNCHANGED <<turn, inbox, suspended, captured, routed>>

\* The current route has been shown, and is of the pinned request; or it is not,
\* or could not be shown.
Verified(c) ==
    /\ call[c].at = "verifying"
    /\ \/ routed = call[c].source /\ Starts(c) /\ active' = call[c].source
       \/ /\ Moves(c, "done", FALSE)
          /\ child' = [child EXCEPT ![c] = Gone]
          /\ UNCHANGED active
    /\ UNCHANGED <<turn, inbox, suspended, captured, routed>>

\* A process that classifies may publish its route as long as it lives.
PublishRoute(c) ==
    /\ child[c].route # NoRoute
    /\ routed' = child[c].route
    /\ child' = [child EXCEPT ![c].route = NoRoute]
    /\ UNCHANGED <<call, tail, requestVars>>

\* The process ends by itself, well or not.
EndCommand(c) ==
    /\ call[c].at = "running"
    /\ Moves(c, "done", FALSE)
    /\ child' = [child EXCEPT ![c] = Gone]
    /\ UNCHANGED <<requestVars, routed>>

-----------------------------------------------------------------------------
(* Interruptions and timeouts.                                             *)

Term(c) == child' = [child EXCEPT ![c].state = "termed"]

\* The user interrupts a call: its process group gets SIGTERM, and the promise
\* of a running command is rejected without waiting for the group.
Interrupt(c) ==
    /\ c \in Unsettled /\ ~call[c].interrupted
    /\ IF call[c].at \in {"verifying", "running"}
       THEN Moves(c, "done", TRUE) /\ Term(c)
       ELSE Moves(c, call[c].at, TRUE) /\ UNCHANGED child
    /\ UNCHANGED <<requestVars, routed>>

\* The budget is exceeded: SIGTERM, but the queue stays occupied.
ExceedBudget(c) ==
    /\ call[c].at \in {"verifying", "running"}
    /\ Moves(c, "stopping", FALSE)
    /\ Term(c)
    /\ UNCHANGED <<requestVars, routed>>

\* Mutant of Sigkill: SIGTERM is not followed by SIGKILL.
SigkillNever(c) == FALSE

\* The process group does not end at SIGTERM: SIGKILL follows three seconds later.
Sigkill(c) == child[c].state = "termed"

EndGroup(c) ==
    /\ child' = [child EXCEPT ![c] = Gone]
    /\ UNCHANGED <<call, tail, requestVars, routed>>

Escalate(c) == Sigkill(c) /\ EndGroup(c)

\* The process group ends at SIGTERM.
EndTermed(c) == child[c].state = "termed" /\ EndGroup(c)

\* Mutant of TornDown: the queue goes on without waiting for the escalation.
TornDownAtOnce(c) == call[c].at = "stopping"

\* The teardown's timer was set after the escalation's, and is as long.
TornDown(c) == call[c].at = "stopping" /\ child[c].state = "gone"

ReportTimeout(c) ==
    /\ TornDown(c)
    /\ Moves(c, "done", call[c].interrupted)
    /\ UNCHANGED <<child, requestVars, routed>>

-----------------------------------------------------------------------------
(* The user.                                                               *)

\* An input hook: everything that depends on the previous input is dropped.
Say(about) ==
    /\ turn < MaxTurns
    /\ turn' = turn + 1
    /\ inbox' = inbox \cup {[said |-> turn + 1, about |-> about]}
    /\ UNCHANGED <<call, child, tail, active, suspended, captured, routed>>

\* activate: Pi starts the prompt of an input.
Deliver(i) ==
    /\ inbox' = inbox \ {i}
    /\ IF i.about = "request"
       THEN captured < MaxTurns /\ captured' = captured + 1 /\ active' = captured'
       ELSE UNCHANGED <<captured, active>>
    /\ suspended' = (i.about = "other")
    /\ UNCHANGED <<call, child, tail, turn, routed>>

\* A new session forgets all but the files, and the commands that wait.
StartSession ==
    /\ turn < MaxTurns
    /\ turn' = turn + 1
    /\ inbox' = {} /\ active' = 0 /\ suspended' = FALSE
    /\ UNCHANGED <<call, child, tail, captured, routed>>

CallStep(c) ==
    \/ \E op \in Ops : Issue(c, op)
    \/ TakeTurn(c) \/ Verified(c) \/ PublishRoute(c) \/ EndCommand(c)
    \/ Interrupt(c) \/ ExceedBudget(c) \/ EndTermed(c) \/ Escalate(c) \/ ReportTimeout(c)

UserStep ==
    \/ \E about \in Topics : Say(about)
    \/ \E i \in inbox : Deliver(i)
    \/ StartSession

HostNext == UserStep \/ \E c \in Calls : CallStep(c)

\* Promises and timers, of which a call waits for one at a time; no process is
\* expected to end by itself.
HostFairness ==
    \A c \in Calls :
        WF_hostVars(TakeTurn(c) \/ ExceedBudget(c) \/ Escalate(c) \/ ReportTimeout(c))

HostSpec == HostInit /\ [][HostNext]_hostVars

-----------------------------------------------------------------------------
(* Properties.                                                             *)

Live(c) == child[c].state \in {"alive", "termed"}

\* Of the CLI processes that are alive at once, all but one belong to calls the
\* user has interrupted: a command that fails, exceeds its budget or ignores
\* SIGTERM, and an interruption of commands that wait, never let the next one
\* start beside it (omd.ts: run, omd-runtime.ts: runOmd).
OverlapOnlyInterrupted ==
    \A c, d \in Calls : Live(c) /\ Live(d) /\ c # d => call[c].interrupted \/ call[d].interrupted

\* A published route is never replaced by one of an earlier request, whatever was
\* captured while commands waited, were compared after a restart or ran out of
\* their budget; only the process of an interrupted call may do so, in its last
\* three seconds (omd-request-binding.ts: pin, verifyRestored, materialize).
RouteNeverGoesBack ==
    [][routed' < routed => \E c \in Calls : call[c].interrupted /\ child[c].route = routed']_hostVars

\* Every call is answered, whatever the processes do (omd-process.ts: terminate).
CallsAnswered == \A c \in Calls : call[c].at # "idle" ~> Replied(c)

=============================================================================
