---------------------------- MODULE BrowseSession ----------------------------
(***************************************************************************)
(* Recorded browser research (core/ref/browse): `omd ref browse ...`        *)
(* commands, each a short-lived process, talk to a detached driver process  *)
(* that owns the browser.  The driver records events and keeps its last     *)
(* reply pending; a command publishes the reply under the project lock      *)
(* (trace, then session state, then the budget of the research cycle) and   *)
(* then acknowledges it.  A session ends with a seal; when its driver died, *)
(* a command certifies the last checkpoint instead.                         *)
(*                                                                          *)
(* An event's hash chains all events before it, so a hash is modelled by    *)
(* the sequence of events it stands for.                                    *)
(***************************************************************************)
EXTENDS ProjectLock, SequencesExt

CONSTANTS
    Sessions,       \* session ids, drawn at random by start
    MaxActions,     \* the research cycle's allowance (budget.maxActions)
    MaxEvents,      \* events after which only `end` is recorded (498)
    MaxCrashes,     \* bound on the commands killed in the middle
    Verbs,          \* what the user asks for besides `start`
    EarlyCommands   \* may a command reach a session before its start event?

VARIABLES
    up,         \* up[s]: the driver process of s runs
    log,        \* log[s]: engine.events
    used,       \* used[s]: acquisitions in the engine's budget
    pending,    \* pending[s]: the reply not acknowledged yet, or None
    doing,      \* doing[s]: <<command, verb>> in flight (busy), or None
    trace,      \* trace[s]: .omd/discovery/browse/<s>/trace.jsonl
    state,      \* state[s]: .omd/.cache/ref-browse/<s>/state.json, or None
    current,    \* current.json: the session commands go to
    cycle,      \* budget-<contract>.json: acquisitions used, None if absent
    client,     \* client[p]: the local state of a command
    crashes,    \* commands killed so far
    torn        \* torn[s]: the reply of s with a record that a kill left half
                \* written under its final name, known by its log, or None

driverVars == <<up, log, used, pending, doing>>
diskVars == <<trace, state, current, cycle>>
vars == <<lockHolder, driverVars, diskVars, client, crashes, torn>>

\* A recovery's end event carries its own request id and time: it is known by
\* the command that made it.
Events == {"start", "act", "keep", "end"} \cup Procs
Ends == {"end"} \cup Procs

Replies == [log : Seq(Events), first : Nat, checkpoint : BOOLEAN,
            seal : BOOLEAN, used : Nat]
States == [connected : BOOLEAN, head : Seq(Events),
           checkpoint : [log : Seq(Events), used : Nat] \cup {None},
           seal : Seq(Events) \cup {None}]

ASSUME BrowseAssumption ==
    /\ None \notin Sessions
    /\ MaxActions \in Nat /\ MaxEvents \in Nat /\ MaxCrashes \in Nat
    /\ Verbs \subseteq {"browse", "keep", "end"}
    /\ EarlyCommands \in BOOLEAN
    /\ Procs \cap {"start", "act", "keep", "end"} = {}
    /\ None \notin Replies /\ None \notin States /\ None \notin Seq(Events)
    /\ None \notin Nat

Idle == [at |-> "idle", verb |-> "none", for |-> "none", session |-> None,
         copy |-> None, reply |-> None]

Points == {"idle", "open", "launch", "connect", "recover", "pending", "action",
           "wait", "publish", "state", "budget", "finish", "ack"}

TypeOK ==
    /\ lockHolder \in Procs \cup {None}
    /\ up \in [Sessions -> BOOLEAN]
    /\ log \in [Sessions -> Seq(Events)]
    /\ used \in [Sessions -> Nat]
    /\ \A s \in Sessions :
          /\ pending[s] \in Replies \cup {None}
          /\ doing[s] \in (Procs \X (Verbs \cup {"start"})) \cup {None}
          /\ state[s] \in States \cup {None}
    /\ trace \in [Sessions -> Seq(Events)]
    /\ current \in Sessions \cup {None}
    /\ cycle \in Nat \cup {None}
    /\ \A p \in Procs :
          /\ client[p].at \in Points
          /\ client[p].verb \in Verbs \cup {"start", "none"}
          /\ client[p].for \in {"start", "end", "pending", "action", "none"}
          /\ client[p].session \in Sessions \cup {None}
          /\ client[p].copy \in States \cup {None}
          /\ client[p].reply \in Replies \cup {None}
    /\ crashes \in 0..MaxCrashes
    /\ torn \in [Sessions -> Seq(Events) \cup {None}]

Init ==
    /\ LockInit
    /\ up = [s \in Sessions |-> FALSE]
    /\ log = [s \in Sessions |-> <<>>]
    /\ used = [s \in Sessions |-> 0]
    /\ pending = [s \in Sessions |-> None]
    /\ doing = [s \in Sessions |-> None]
    /\ trace = [s \in Sessions |-> <<>>]
    /\ state = [s \in Sessions |-> None]
    /\ current = None
    /\ cycle = None
    /\ client = [p \in Procs |-> Idle]
    /\ crashes = 0
    /\ torn = [s \in Sessions |-> None]

-----------------------------------------------------------------------------
(* A command's control flow (executeBrowseCommand).                        *)

At(p, point) == client[p].at = point
Goto(p, point) == client' = [client EXCEPT ![p].at = point]
Leave(p) == client' = [client EXCEPT ![p] = Idle]     \* returns or throws

\* The driver a state file names: the launching command until the connection
\* is written, the daemon afterwards.
DriverDead(s) ==
    IF state[s].connected
      THEN ~up[s]
      ELSE \A p \in Procs : ~(client[p].session = s /\ client[p].at \in {"launch", "connect"})

Open(s) == state[s] # None /\ state[s].seal = None

\* start: a previous session whose driver died is sealed first.
Start(p) ==
    /\ At(p, "idle")
    /\ IF current # None /\ Open(current) /\ state[current].checkpoint # None
            /\ DriverDead(current)
         THEN client' = [client EXCEPT ![p] =
                [Idle EXCEPT !.at = "recover", !.verb = "start", !.for = "start",
                             !.session = current, !.copy = state[current]]]
         ELSE client' = [client EXCEPT ![p].at = "open", ![p].verb = "start"]
    /\ UNCHANGED <<lockHolder, driverVars, diskVars, crashes, torn>>

\* Any other verb works on a copy of the session's state.
Command(p, v, s) ==
    /\ At(p, "idle") /\ state[s] # None
    /\ EarlyCommands \/ state[s].head # <<>>
    /\ \E point \in {"finish", "recover", "pending"} :
          /\ point = "finish" => ~Open(s) /\ v = "end"
          /\ point = "recover" => /\ Open(s) /\ v = "end" /\ DriverDead(s)
                                  /\ state[s].checkpoint # None
          /\ point = "pending" => /\ Open(s) /\ state[s].connected
                                  /\ ~(v = "end" /\ state[s].checkpoint # None /\ DriverDead(s))
          /\ client' = [client EXCEPT ![p] =
                [Idle EXCEPT !.at = point, !.verb = v, !.for = "end",
                             !.session = s, !.copy = state[s]]]
    /\ UNCHANGED <<lockHolder, driverVars, diskVars, crashes, torn>>

Fresh == [connected |-> FALSE, head |-> <<>>, checkpoint |-> None, seal |-> None]

NewSession(p, s) ==
    /\ state[s] = None
    /\ state' = [state EXCEPT ![s] = Fresh]
    /\ used' = [used EXCEPT ![s] = IF cycle = None THEN 0 ELSE cycle]
    /\ current' = s
    /\ client' = [client EXCEPT ![p].at = "launch", ![p].session = s, ![p].copy = Fresh]

\* The new session's directory, state and pointer, under the lock.
OpenSession(p) ==
    /\ At(p, "open") /\ lockHolder = None
    /\ IF \/ /\ current # None /\ Open(current)
             /\ ~(state[current].checkpoint = None /\ DriverDead(current))
          \/ cycle # None /\ cycle >= MaxActions
          \/ \A s \in Sessions : state[s] # None     \* the bound on sessions
         THEN Leave(p) /\ UNCHANGED <<state, current, used>>
         ELSE \E s \in Sessions : NewSession(p, s)
    /\ UNCHANGED <<lockHolder, up, log, pending, doing, trace, cycle, crashes, torn>>

\* launchDaemon: the driver listens, or is not ready in time.
Launch(p) ==
    /\ At(p, "launch")
    /\ \/ up' = [up EXCEPT ![client[p].session] = TRUE] /\ Goto(p, "connect")
       \/ Leave(p) /\ UNCHANGED up
    /\ UNCHANGED <<lockHolder, log, used, pending, doing, diskVars, crashes, torn>>

\* The connection is written from the command's copy, without the lock.
Connect(p) ==
    /\ At(p, "connect")
    /\ LET connected == [client[p].copy EXCEPT !.connected = TRUE]
       IN /\ state' = [state EXCEPT ![client[p].session] = connected]
          /\ client' = [client EXCEPT ![p].at = "pending", ![p].copy = connected]
    /\ UNCHANGED <<lockHolder, driverVars, trace, current, cycle, crashes, torn>>

\* Mutant of Recover: the seal is put on the checkpoint without an end event.
RecoverNoEnd(p) ==
    /\ At(p, "recover")
    /\ LET prefix == client[p].copy.checkpoint
       IN client' = [client EXCEPT ![p].at = "publish", ![p].reply =
                   [log |-> prefix.log, first |-> Len(prefix.log) + 1,
                    checkpoint |-> TRUE, seal |-> TRUE, used |-> prefix.used]]
    /\ UNCHANGED <<lockHolder, driverVars, diskVars, crashes, torn>>

\* recoverInterruptedBrowse: the checkpoint must be of the trace as it is on
\* disk; the reply adds the end event and the seal.
Recover(p) ==
    /\ At(p, "recover")
    /\ LET s == client[p].session
           prefix == client[p].copy.checkpoint
       IN IF trace[s] # prefix.log
            THEN Leave(p)
            ELSE client' = [client EXCEPT ![p].at = "publish", ![p].reply =
                   [log |-> Append(prefix.log, p), first |-> Len(prefix.log) + 1,
                    checkpoint |-> TRUE, seal |-> TRUE, used |-> prefix.used]]
    /\ UNCHANGED <<lockHolder, driverVars, diskVars, crashes, torn>>

-----------------------------------------------------------------------------
(* The driver (runBrowseDriver and BrowseEngine.execute).                  *)

\* Mutant of AskPending: a command acts without looking for a pending reply.
AskPendingSkipped(p) ==
    /\ At(p, "pending")
    /\ Goto(p, "action")
    /\ UNCHANGED <<lockHolder, driverVars, diskVars, crashes, torn>>

\* Mutant of AskPending: the driver forgets the reply it hands out.
AskPendingOnce(p) ==
    /\ At(p, "pending")
    /\ LET s == client[p].session
           ready == up[s] /\ doing[s] = None
       IN /\ pending' = [pending EXCEPT ![s] = IF ready THEN None ELSE @]
          /\ CASE ~ready -> Leave(p)
               [] ready /\ pending[s] # None ->
                    client' = [client EXCEPT ![p].at = "publish", ![p].for = "pending",
                                             ![p].reply = pending[s]]
               [] OTHER -> Goto(p, "action")
    /\ UNCHANGED <<lockHolder, up, log, used, doing, diskVars, crashes, torn>>

\* Every command first asks for the reply somebody left unacknowledged.
AskPending(p) ==
    /\ At(p, "pending")
    /\ LET s == client[p].session
       IN CASE ~up[s] \/ doing[s] # None -> Leave(p)
            [] up[s] /\ doing[s] = None /\ pending[s] # None ->
                 client' = [client EXCEPT ![p].at = "publish", ![p].for = "pending",
                                          ![p].reply = pending[s]]
            [] OTHER -> Goto(p, "action")
    /\ UNCHANGED <<lockHolder, driverVars, diskVars, crashes, torn>>

\* The driver refuses while it is busy, while a reply is pending, and when the
\* command's head is not the engine's.
Accepts(s, head) ==
    /\ up[s] /\ doing[s] = None /\ pending[s] = None
    /\ head # <<>> => head = log[s]

Act(p) ==
    /\ At(p, "action")
    /\ LET s == client[p].session
       IN IF Accepts(s, client[p].copy.head)
            THEN /\ doing' = [doing EXCEPT ![s] = <<p, client[p].verb>>]
                 /\ Goto(p, "wait")
            ELSE Leave(p) /\ UNCHANGED doing
    /\ UNCHANGED <<lockHolder, up, log, used, pending, diskVars, crashes, torn>>

Sealed(s) == log[s] # <<>> /\ Last(log[s]) = "end"

Refused == [events |-> <<>>, checkpoint |-> FALSE]
Recorded(events) == [events |-> events, checkpoint |-> TRUE]

\* What one action records: its events, and whether their checkpoint is in the
\* reply.  An acquisition may be refused for its rate, its time or saturation.
\* A keep may take a shot first; at the event limit the shot is recorded, the
\* keep refused, and the reply is the refusal's, without a checkpoint.
Recordings(s, verb) ==
    IF Sealed(s) \/ (verb # "end" /\ Len(log[s]) >= MaxEvents)
      THEN {Refused}
      ELSE [end    |-> {Recorded(<<"end">>)},
            start  |-> {Recorded(<<"start">>)},
            browse |-> {Refused} \cup
                       {Recorded(<<"act">>) : n \in {used[s]} \ {MaxActions}},
            keep   |-> {Recorded(<<"keep">>)} \cup
                       {IF Len(log[s]) + 1 >= MaxEvents
                          THEN [events |-> <<"act">>, checkpoint |-> FALSE]
                          ELSE Recorded(<<"act", "keep">>)
                            : n \in {used[s]} \ {MaxActions}}][verb]

\* The action runs to its end; the command gets the reply if it still waits.
Execute(s) ==
    /\ up[s] /\ doing[s] # None
    /\ LET p == doing[s][1]
       IN \E done \in Recordings(s, doing[s][2]) :
            LET reply == [log |-> log[s] \o done.events, first |-> Len(log[s]) + 1,
                          checkpoint |-> done.checkpoint,
                          seal |-> doing[s][2] = "end",
                          used |-> used[s] + IF "act" \in Range(done.events) THEN 1 ELSE 0]
                told == done.events # <<>> \/ reply.seal
            IN /\ log' = [log EXCEPT ![s] = reply.log]
               /\ used' = [used EXCEPT ![s] = reply.used]
               /\ pending' = [pending EXCEPT ![s] = IF told THEN reply ELSE None]
               /\ IF At(p, "wait") /\ client[p].session = s
                    THEN IF told
                           THEN client' = [client EXCEPT ![p].at = "publish",
                                             ![p].for = "action", ![p].reply = reply]
                           ELSE Leave(p)
                    ELSE UNCHANGED client
    /\ doing' = [doing EXCEPT ![s] = None]
    /\ UNCHANGED <<lockHolder, up, diskVars, crashes, torn>>

\* The reply a command published is no longer pending.  Somebody else may have
\* acknowledged it before, and only another reply is refused.
Ack(p) ==
    /\ At(p, "ack")
    /\ LET s == client[p].session
       IN IF ~up[s] \/ doing[s] # None \/ pending[s] \notin {None, client[p].reply}
            THEN Leave(p) /\ UNCHANGED pending
            ELSE /\ pending' = [pending EXCEPT ![s] = None]
                 /\ IF client[p].for = "pending" /\ client[p].copy.seal = None
                      THEN Goto(p, "action")
                      ELSE Leave(p)
    /\ UNCHANGED <<lockHolder, up, log, used, doing, diskVars, crashes, torn>>

-----------------------------------------------------------------------------
(* publish: the reply goes to disk in three files, under the lock.         *)

\* Mutant of Fits: a repeated publication is a race.
FitsOnce(s, head, reply) ==
    /\ state[s].head = head
    /\ Len(trace[s]) + 1 = reply.first /\ IsPrefix(trace[s], reply.log)

\* The head on disk is the one the command knew or the reply's own, and the
\* events extend or repeat the published prefix; a checkpoint must bind the
\* result.  A record that was left torn has other bytes than its name says and
\* is refused (writeContentAddressedProjectFile).
Fits(s, head, reply) ==
    /\ torn[s] # reply.log
    /\ state[s].head \in {head, reply.log}
    /\ \/ /\ IsPrefix(trace[s], reply.log)
          /\ Len(trace[s]) + 1 >= reply.first
       \/ IsPrefix(reply.log, trace[s]) /\ ~reply.checkpoint

\* The asset, event, checkpoint and seal records of a driver's reply that are not
\* on disk yet: a kill may leave one of them torn.  (A recovery's end event is its
\* own, so nobody publishes its records again.)
Unwritten(p) ==
    LET s == client[p].session
        reply == client[p].reply
    IN /\ client[p].for \in {"pending", "action"}
       /\ \/ /\ At(p, "publish") /\ lockHolder = None
             /\ Fits(s, client[p].copy.head, reply)
             /\ ~IsPrefix(reply.log, trace[s])
          \/ /\ At(p, "state") /\ state[s].head # reply.log
             /\ reply.checkpoint \/ reply.seal

\* Mutant of PublishTrace: the reply's events replace what is on disk.
PublishTraceOver(p) ==
    /\ At(p, "publish") /\ lockHolder = None
    /\ Acquire(p)
    /\ trace' = [trace EXCEPT ![client[p].session] = client[p].reply.log]
    /\ Goto(p, "state")
    /\ UNCHANGED <<driverVars, state, current, cycle, crashes, torn>>

PublishTrace(p) ==
    /\ At(p, "publish")
    /\ LET s == client[p].session
           reply == client[p].reply
       IN IF lockHolder = None /\ Fits(s, client[p].copy.head, reply)
            THEN /\ Acquire(p)
                 /\ trace' = [trace EXCEPT ![s] =
                      IF IsPrefix(trace[s], reply.log) THEN reply.log ELSE @]
                 /\ Goto(p, "state")
            ELSE Leave(p) /\ UNCHANGED <<lockHolder, trace>>
    /\ UNCHANGED <<driverVars, state, current, cycle, crashes, torn>>

\* Mutant of PublishState: the first checkpoint is never replaced.
PublishStateFirst(p) ==
    /\ At(p, "state")
    /\ LET s == client[p].session
           reply == client[p].reply
           next == [state[s] EXCEPT
                      !.head = reply.log,
                      !.checkpoint = IF @ = None
                                       THEN [log |-> reply.log, used |-> reply.used]
                                       ELSE @,
                      !.seal = IF reply.seal THEN reply.log ELSE @]
       IN /\ state' = [state EXCEPT ![s] = next]
          /\ client' = [client EXCEPT ![p].at = "budget", ![p].copy = next]
    /\ UNCHANGED <<lockHolder, driverVars, trace, current, cycle, crashes, torn>>

PublishState(p) ==
    /\ At(p, "state")
    /\ LET s == client[p].session
           reply == client[p].reply
           next == [state[s] EXCEPT
                      !.head = reply.log,
                      !.checkpoint = IF reply.checkpoint
                                       THEN [log |-> reply.log, used |-> reply.used]
                                       ELSE @,
                      !.seal = IF reply.seal THEN reply.log ELSE @]
       IN /\ state' = [state EXCEPT ![s] = next]
          /\ client' = [client EXCEPT ![p].at = "budget", ![p].copy = next]
    /\ UNCHANGED <<lockHolder, driverVars, trace, current, cycle, crashes, torn>>

PublishBudget(p) ==
    /\ At(p, "budget")
    /\ cycle' = client[p].reply.used
    /\ LetGo(p)
    /\ Goto(p, IF client[p].copy.seal # None THEN "finish" ELSE "ack")
    /\ UNCHANGED <<driverVars, trace, state, current, crashes, torn>>

\* verifyBrowseSession: the trace is the sealed one, of two events at least,
\* begins with its only start and ends with its only end.
Verifies(s) ==
    LET seal == state[s].seal
    IN /\ trace[s] = seal /\ Len(seal) >= 2
       /\ \A i \in DOMAIN seal :
             /\ (seal[i] = "start") <=> (i = 1)
             /\ seal[i] \in Ends => i = Len(seal)

\* finish: the keeps are filed and the summary written, once the seal verifies.
Finish(p) ==
    /\ At(p, "finish")
    /\ IF Verifies(client[p].session)
         THEN CASE client[p].for = "start" ->
                     client' = [client EXCEPT ![p] = [Idle EXCEPT !.at = "open", !.verb = "start"]]
                [] client[p].for = "end" -> Leave(p)
                [] OTHER -> Goto(p, "ack")
         ELSE Leave(p)
    /\ UNCHANGED <<lockHolder, driverVars, diskVars, crashes, torn>>

-----------------------------------------------------------------------------
(* What goes wrong: a busy lock, a reply that takes too long, a command or  *)
(* a driver that is killed.  The driver's timers also end it.               *)

LockTaken(p) ==
    /\ At(p, "open") /\ lockHolder # None
    /\ Leave(p)
    /\ UNCHANGED <<lockHolder, driverVars, diskVars, crashes, torn>>

Slow(p) ==
    /\ At(p, "wait")
    /\ Leave(p)
    /\ UNCHANGED <<lockHolder, driverVars, diskVars, crashes, torn>>

Crash(p) ==
    /\ ~At(p, "idle") /\ crashes < MaxCrashes
    /\ crashes' = crashes + 1
    /\ Leave(p)
    /\ IF lockHolder = p THEN LetGo(p) ELSE UNCHANGED lockHolder
    /\ \/ UNCHANGED torn
       \/ Unwritten(p) /\ torn' = [torn EXCEPT ![client[p].session] = client[p].reply.log]
    /\ UNCHANGED <<driverVars, diskVars>>

DriverDies(s) ==
    /\ up[s]
    /\ up' = [up EXCEPT ![s] = FALSE]
    /\ pending' = [pending EXCEPT ![s] = None]
    /\ doing' = [doing EXCEPT ![s] = None]
    /\ client' = [p \in Procs |-> IF At(p, "wait") /\ client[p].session = s
                                    THEN Idle ELSE client[p]]
    /\ UNCHANGED <<lockHolder, log, used, diskVars, crashes, torn>>

\* A command under way goes on.
Step(p) ==
    \/ OpenSession(p) \/ Launch(p) \/ Connect(p) \/ Recover(p)
    \/ AskPending(p) \/ Act(p) \/ Ack(p)
    \/ PublishTrace(p) \/ PublishState(p) \/ PublishBudget(p) \/ Finish(p)
    \/ LockTaken(p)

Next ==
    \/ \E p \in Procs : Step(p) \/ Start(p) \/ Slow(p) \/ Crash(p)
    \/ \E p \in Procs, v \in Verbs, s \in Sessions : Command(p, v, s)
    \/ \E s \in Sessions : Execute(s) \/ DriverDies(s)

Spec == Init /\ [][Next]_vars

-----------------------------------------------------------------------------
(* Properties.                                                             *)

\* The published research is append-only: whatever commands race, retry,
\* recover or die, no event that reached the trace is lost or replaced.
TraceOnlyGrows == [][\A s \in Sessions : IsPrefix(trace[s], trace'[s])]_vars

\* A sealed session is closed for good: two commands that end or recover it at
\* the same time agree on one seal, and the trace it certifies never changes.
SealIsFinal ==
    [][\A s \in Sessions :
          state[s] # None /\ state[s].seal # None
             => state'[s].seal = state[s].seal /\ trace'[s] = trace[s]]_vars

\* The published research is a log that only grows, ends once and is sealed at most
\* once, as a whole: whatever commands race, retry or recover, whichever driver dies,
\* and at whichever file a command is killed.
SealOn(s) == IF state[s] = None THEN None ELSE state[s].seal

Research == INSTANCE ResearchLog WITH
    Endings <- Ends, published <- trace, sealOf <- [s \in Sessions |-> SealOn(s)]

IsResearchLog == Research!LogSpec

\* What a driver no longer holds pending is on disk: an acknowledgement, by
\* whichever command, never outruns the publication.
AckedIsPublished ==
    \A s \in Sessions :
        up[s] => IsPrefix(IF pending[s] = None
                            THEN log[s]
                            ELSE SubSeq(log[s], 1, pending[s].first - 1), trace[s])

\* Between whichever files a publication was interrupted, the next command that
\* asks the living driver can publish the same reply again; only a kill inside a
\* record, which leaves it torn, can prevent that.
PublicationRedoable ==
    \A s \in Sessions :
        up[s] /\ pending[s] # None /\ lockHolder = None /\ torn[s] = None
           => Fits(s, state[s].head, pending[s])

\* "A previous session whose browser died is sealed from its last signed prefix
\* instead of blocking new research" (client.ts:138): while nobody publishes,
\* the checkpoint of an open session with a dead driver is of the trace on disk.
DeadSessionRecoverable ==
    \A s \in Sessions :
        state[s] # None /\ Open(s) /\ state[s].checkpoint # None /\ ~up[s]
          /\ lockHolder = None
           => state[s].checkpoint.log = trace[s]

\* "Restarting cannot grant new actions" (client.ts:156): the number of used
\* acquisitions a new session starts from never goes down.
CycleNeverFalls ==
    [][cycle # None => cycle' # None /\ cycle' >= cycle]_vars

\* Every seal the client publishes is one verifyBrowseSession accepts, so that
\* its keeps can be filed.
SealedSessionVerifies ==
    \A s \in Sessions : state[s] # None /\ state[s].seal # None => Verifies(s)

\* The commands run to their end unless they are killed, a driver finishes its
\* action, and the user goes on with a session that has something to publish.
Fairness ==
    /\ \A p \in Procs : WF_vars(Step(p))
    /\ \A s \in Sessions :
          /\ WF_vars(Execute(s))
          /\ \E p \in Procs : SF_vars(Command(p, "end", s))

FairSpec == Spec /\ Fairness

\* A reply nobody has acknowledged, whoever asked for it and wherever its
\* publication was interrupted, is published by a later command: it is
\* acknowledged, or the session is sealed, or the driver is gone, or one of the
\* reply's records is torn.
PendingResolved ==
    \A s \in Sessions :
        pending[s] # None
           ~> pending[s] = None \/ state[s].seal # None \/ torn[s] # None

=============================================================================
