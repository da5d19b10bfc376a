------------------------- MODULE BrowseSessionProofs -------------------------
(***************************************************************************)
(* What is proved about recorded browsing.                                  *)
(***************************************************************************)
EXTENDS BrowseSession, TLAPS, SequenceTheorems, FiniteSetTheorems

-----------------------------------------------------------------------------
(* Prefixes.                                                               *)

LEMMA PrefixMeans ==
    ASSUME NEW S, NEW s \in Seq(S), NEW t \in Seq(S)
    PROVE  IsPrefix(s, t) <=> Len(s) <= Len(t) /\ \A i \in 1..Len(s) : s[i] = t[i]
<1>1. Len(s) \in Nat /\ Len(t) \in Nat
  OBVIOUS
<1>2. CASE Len(s) <= Len(t)
  <2>1. SubSeq(s, 1, Len(s)) = s
    OBVIOUS
  <2>2. /\ SubSeq(t, 1, Len(s)) \in Seq(S)
        /\ Len(SubSeq(t, 1, Len(s))) = Len(s)
        /\ \A i \in 1..Len(s) : SubSeq(t, 1, Len(s))[i] = t[i]
    BY <1>1, <1>2
  <2>3. s = SubSeq(t, 1, Len(s)) <=> \A i \in 1..Len(s) : s[i] = t[i]
    BY <2>2, SeqEqual
  <2>4. QED
    BY <1>2, <2>1, <2>3 DEF IsPrefix
<1>3. CASE ~(Len(s) <= Len(t))
  BY <1>3 DEF IsPrefix
<1>4. QED
  BY <1>2, <1>3

LEMMA PrefixRefl == ASSUME NEW S, NEW s \in Seq(S) PROVE IsPrefix(s, s)
BY PrefixMeans

LEMMA PrefixTrans ==
    ASSUME NEW S, NEW s \in Seq(S), NEW t \in Seq(S), NEW u \in Seq(S),
           IsPrefix(s, t), IsPrefix(t, u)
    PROVE  IsPrefix(s, u)
BY PrefixMeans

LEMMA PrefixGrows ==
    ASSUME NEW S, NEW s \in Seq(S), NEW t \in Seq(S)
    PROVE  /\ s \o t \in Seq(S) /\ Len(s \o t) = Len(s) + Len(t)
           /\ \A i \in 1..Len(s) : (s \o t)[i] = s[i]
           /\ IsPrefix(s, s \o t)
           /\ SubSeq(s \o t, 1, Len(s)) = s
<1>0. s \o t \in Seq(S)
  OBVIOUS
<1>1. PICK u \in Seq(S) : u = s \o t
  BY <1>0
<1>2. Len(s) \in Nat /\ Len(t) \in Nat /\ Len(u) = Len(s) + Len(t)
      /\ \A i \in 1..Len(s) : u[i] = s[i]
  BY <1>1
<1>3. IsPrefix(s, u)
  BY <1>2, PrefixMeans
<1>4. /\ SubSeq(u, 1, Len(s)) \in Seq(S)
      /\ Len(SubSeq(u, 1, Len(s))) = Len(s)
      /\ \A i \in 1..Len(s) : SubSeq(u, 1, Len(s))[i] = s[i]
  BY <1>2
<1>5. SubSeq(u, 1, Len(s)) = s
  BY <1>4, SeqEqual
<1>6. QED
  BY <1>1, <1>2, <1>3, <1>5

-----------------------------------------------------------------------------
(* The invariant.                                                          *)

Recordables == {"start", "act", "keep", "end"}
Clients ==
    [at : Points, verb : Verbs \cup {"start", "none"},
     for : {"start", "end", "pending", "action", "none"}, session : Sessions \cup {None},
     copy : States \cup {None}, reply : Replies \cup {None}]

Types ==
    /\ lockHolder \in Procs \cup {None}
    /\ up \in [Sessions -> BOOLEAN]
    /\ log \in [Sessions -> Seq(Events)]
    /\ used \in [Sessions -> Nat]
    /\ pending \in [Sessions -> Replies \cup {None}]
    /\ doing \in [Sessions -> (Procs \X (Verbs \cup {"start"})) \cup {None}]
    /\ trace \in [Sessions -> Seq(Events)]
    /\ state \in [Sessions -> States \cup {None}]
    /\ current \in Sessions \cup {None}
    /\ cycle \in Nat \cup {None}
    /\ client \in [Procs -> Clients]
    /\ crashes \in 0..MaxCrashes

\* The end of a log is its last event, and an ended one is one that has it.
NoEnd(l) == \A i \in 1..Len(l) : l[i] \notin Ends
EndIsLast(l) == \A i \in 1..Len(l) : l[i] \in Ends => i = Len(l)
Ended(l) == l # <<>> /\ l[Len(l)] \in Ends

\* Where a command is: it launches the driver of its session; it works on a session that
\* is connected; it has a reply, of the driver or of a recovery, which it publishes or has
\* published.
Launching(c) == c.at \in {"launch", "connect"}
Asking(c) == c.at \in {"pending", "action", "wait"}
Holding(c) ==
    \/ c.at \in {"publish", "state", "budget", "ack"}
    \/ c.at = "finish" /\ c.for \in {"pending", "action"}
Serving(c) == c.at \in {"recover", "finish"} \/ Asking(c) \/ Holding(c)
Recovering(c) == c.for \notin {"pending", "action"}

\* Before the connection of a session is written nothing but its driver exists.
NotConnected(s) ==
    state[s] = None \/ ~state[s].connected =>
        /\ state[s] \in {None, Fresh}
        /\ trace[s] = <<>> /\ log[s] = <<>> /\ pending[s] = None /\ doing[s] = None
        /\ state[s] = None => ~up[s]

\* The driver: its log ends once, a pending reply is of the whole log, and what is on disk
\* is of the log.
Driver(s) ==
    /\ \A i \in 1..Len(log[s]) : log[s][i] \in Recordables
    /\ EndIsLast(log[s])
    /\ pending[s] # None =>
          /\ doing[s] = None
          /\ pending[s].log = log[s]
          /\ pending[s].first \in 1..(Len(log[s]) + 1)
          /\ pending[s].seal <=> Ended(log[s])
    /\ up[s] => IsPrefix(trace[s], log[s])

\* What the driver no longer holds pending.
Acknowledged(s) ==
    IF pending[s] = None THEN log[s] ELSE SubSeq(log[s], 1, pending[s].first - 1)

Acked(s) == up[s] => IsPrefix(Acknowledged(s), trace[s])

\* An open session has published no end; a sealed one, nothing else.
Closed(s) ==
    /\ EndIsLast(trace[s])
    /\ state[s] # None /\ state[s].seal = None =>
          /\ NoEnd(state[s].head)
          /\ state[s].checkpoint # None => NoEnd(state[s].checkpoint.log)
    /\ state[s] # None /\ state[s].seal # None =>
          state[s].seal = trace[s] /\ state[s].head = trace[s] /\ Ended(trace[s])

SessionOK(s) == NotConnected(s) /\ Driver(s) /\ Acked(s) /\ Closed(s)

Launched(c) ==
    /\ c.at \in {"open", "launch", "connect"} => c.verb = "start"
    /\ Launching(c) =>
        /\ c.session \in Sessions
        /\ state[c.session] = Fresh /\ c.copy = Fresh
        /\ c.at = "launch" => ~up[c.session]

\* A command works on a connected session, with a copy made before the session ended; it
\* recovers one whose driver is gone for good.
Served(c) ==
    Serving(c) =>
        /\ c.session \in Sessions
        /\ state[c.session] # None /\ state[c.session].connected
        /\ c.at = "finish" => c.for # "none"

Copied(c) ==
    /\ c.at = "recover" \/ Asking(c) \/ Holding(c) =>
        /\ c.copy # None /\ c.verb # "none"
        /\ c.copy.seal = None => NoEnd(c.copy.head)
    /\ c.at \in {"recover", "publish"} \/ Asking(c) => c.copy.seal = None
    /\ c.at = "recover" =>
        /\ c.for \in {"start", "end"}
        /\ c.copy.checkpoint # None /\ NoEnd(c.copy.checkpoint.log)
        /\ ~up[c.session]

\* A driver's reply is of a part of its log; a recovery's adds the end to what had none.
Replied(p, c) ==
    Holding(c) =>
        /\ c.reply # None /\ c.for # "none"
        /\ ~Recovering(c) =>
              IsPrefix(c.reply.log, log[c.session]) /\ (c.reply.seal <=> Ended(c.reply.log))
        /\ Recovering(c) =>
              /\ c.reply.seal /\ c.reply.checkpoint /\ ~up[c.session]
              /\ EndIsLast(c.reply.log)
              /\ c.reply.log # <<>> /\ c.reply.log[Len(c.reply.log)] = p
        /\ c.at # "publish" => IsPrefix(c.reply.log, trace[c.session])

\* Between the trace and the budget a command holds the lock; what it seals is the trace.
Writing(p, c) ==
    /\ c.at \in {"state", "budget"} => lockHolder = p
    /\ c.at = "state" =>
          /\ c.reply.seal => trace[c.session] = c.reply.log
          /\ state[c.session].seal # None => c.reply.log = state[c.session].seal

CommandOK(p, c) == Launched(c) /\ Served(c) /\ Copied(c) /\ Replied(p, c) /\ Writing(p, c)

OneLauncher ==
    \A p, q \in Procs :
        Launching(client[p]) /\ Launching(client[q]) /\ client[p].session = client[q].session
            => p = q

BrowseInv ==
    /\ Types
    /\ \A s \in Sessions : SessionOK(s)
    /\ \A p \in Procs : CommandOK(p, client[p])
    /\ OneLauncher

-----------------------------------------------------------------------------
(* Logs and their ends.                                                    *)

\* A log that extends an ended one, and ends once, is that one.
LEMMA EndedIsWhole ==
    ASSUME NEW s \in Seq(Events), NEW t \in Seq(Events),
           IsPrefix(s, t), Ended(s), EndIsLast(t)
    PROVE  s = t
<1>1. Len(s) \in Nat /\ Len(t) \in Nat /\ Len(s) <= Len(t)
      /\ \A i \in 1..Len(s) : s[i] = t[i]
  BY PrefixMeans
<1>2. Len(s) \in 1..Len(s)
  BY <1>1, EmptySeq DEF Ended
<1>3. Len(s) = Len(t)
  BY <1>1, <1>2 DEF Ended, EndIsLast
<1>4. QED
  BY <1>1, <1>3, SeqEqual

LEMMA PrefixEnds ==
    ASSUME NEW s \in Seq(Events), NEW t \in Seq(Events), IsPrefix(s, t), EndIsLast(t)
    PROVE  EndIsLast(s)
<1>1. Len(s) \in Nat /\ Len(t) \in Nat /\ Len(s) <= Len(t)
      /\ \A i \in 1..Len(s) : s[i] = t[i]
  BY PrefixMeans
<1>2. QED
  BY <1>1 DEF EndIsLast

LEMMA PrefixNoEnd ==
    ASSUME NEW s \in Seq(Events), NEW t \in Seq(Events), IsPrefix(s, t), NoEnd(t)
    PROVE  NoEnd(s)
<1>1. Len(s) \in Nat /\ Len(t) \in Nat /\ Len(s) <= Len(t)
      /\ \A i \in 1..Len(s) : s[i] = t[i]
  BY PrefixMeans
<1>2. QED
  BY <1>1 DEF NoEnd

LEMMA NoEndIsOpen ==
    ASSUME NEW l \in Seq(Events)
    PROVE  NoEnd(l) <=> EndIsLast(l) /\ ~Ended(l)
<1>1. Len(l) \in Nat
  OBVIOUS
<1>2. l # <<>> => Len(l) \in 1..Len(l)
  BY <1>1, EmptySeq
<1>3. l = <<>> => 1..Len(l) = {}
  BY <1>1
<1>4. QED
  BY <1>1, <1>2, <1>3 DEF NoEnd, EndIsLast, Ended

LEMMA OneMore ==
    ASSUME NEW l \in Seq(Events), NoEnd(l), NEW e \in Events
    PROVE  /\ Append(l, e) \in Seq(Events) /\ EndIsLast(Append(l, e))
           /\ Append(l, e) # <<>> /\ Append(l, e)[Len(Append(l, e))] = e
           /\ Len(Append(l, e)) = Len(l) + 1
<1>1. Len(l) \in Nat
  OBVIOUS
<1>2. /\ Append(l, e) \in Seq(Events) /\ Len(Append(l, e)) = Len(l) + 1
      /\ \A i \in 1..Len(l) : Append(l, e)[i] = l[i]
      /\ Append(l, e)[Len(l) + 1] = e
  OBVIOUS
<1>3. Append(l, e) # <<>>
  BY <1>1, <1>2
<1>4. EndIsLast(Append(l, e))
  BY <1>1, <1>2 DEF EndIsLast, NoEnd
<1>5. QED
  BY <1>1, <1>2, <1>3, <1>4

-----------------------------------------------------------------------------
(* What a step leaves alone.                                               *)

LEMMA FreshFacts ==
    /\ Fresh \in States /\ Fresh # None /\ ~Fresh.connected
    /\ Fresh.head = <<>> /\ Fresh.checkpoint = None /\ Fresh.seal = None
<1>1. <<>> \in Seq(Events)
  OBVIOUS
<1>2. Fresh \in States
  BY <1>1 DEF Fresh, States
<1>3. QED
  BY <1>2, BrowseAssumption DEF Fresh

LEMMA IdleOK ==
    ASSUME NEW p
    PROVE  Idle \in Clients /\ ~Launching(Idle) /\ CommandOK(p, Idle)
<1>1. Idle \in Clients
  BY DEF Idle, Clients, Points
<1>2. Idle.at = "idle"
  BY DEF Idle
<1>3. QED
  BY <1>1, <1>2 DEF CommandOK, Launched, Served, Copied, Replied, Writing, Launching, Serving,
                    Asking, Holding

LEMMA SessionFrame ==
    ASSUME NEW s \in Sessions, SessionOK(s),
           up'[s] = up[s], log'[s] = log[s], pending'[s] = pending[s], doing'[s] = doing[s],
           trace'[s] = trace[s], state'[s] = state[s]
    PROVE  SessionOK(s)'
BY DEF SessionOK, NotConnected, Driver, Acked, Acknowledged, Closed

\* What others may do to the session a command works on.
Undisturbed(q, s) ==
    /\ \/ state'[s] = state[s]
       \/ state[s] # None /\ state[s].connected /\ state'[s] # None /\ state'[s].connected
    /\ IsPrefix(log[s], log'[s]) /\ IsPrefix(trace[s], trace'[s])
    /\ up'[s] => up[s] \/ (~Serving(client[q]) /\ client[q].at # "launch")
    /\ client[q].at = "state" => trace'[s] = trace[s] /\ state'[s] = state[s]

\* A command that does not move stays right while its driver and its session go on.
LEMMA CommandKeeps ==
    ASSUME Types, Types', NEW q \in Procs, CommandOK(q, client[q]), client'[q] = client[q],
           \A s \in Sessions :
              s = client[q].session /\ (Serving(client[q]) \/ Launching(client[q]))
                 => Undisturbed(q, s),
           client[q].at \in {"state", "budget"} => lockHolder' = lockHolder
    PROVE  CommandOK(q, client[q])'
<1> DEFINE c == client[q]
           s == client[q].session
<1>1. c \in Clients
  BY DEF Types
<1>. USE DEF Undisturbed
<1>2. Launched(client[q])'
  BY FreshFacts DEF CommandOK, Launched, Launching, Serving
<1>3. Served(client[q])'
  BY DEF CommandOK, Served, Serving, Asking, Holding
<1>4. Copied(client[q])'
  BY DEF CommandOK, Copied, Served, Serving, Asking, Holding
<1>5. Replied(q, client[q])'
  <2>1. CASE ~Holding(c)
    BY <2>1 DEF Replied, Holding
  <2>2. CASE Holding(c)
    <3>1. Serving(c) /\ s \in Sessions /\ c.reply # None
      BY <2>2 DEF CommandOK, Served, Replied, Serving
    <3>2. c.reply \in Replies
      BY <1>1, <3>1 DEF Clients
    <3>3. c.reply.log \in Seq(Events)
      BY <3>2 DEF Replies
    <3>4. log[s] \in Seq(Events) /\ log'[s] \in Seq(Events)
          /\ trace[s] \in Seq(Events) /\ trace'[s] \in Seq(Events)
      BY <3>1 DEF Types
    <3>5. IsPrefix(log[s], log'[s]) /\ IsPrefix(trace[s], trace'[s]) /\ (up'[s] => up[s])
      BY <3>1
    <3>6. IsPrefix(c.reply.log, log[s]) => IsPrefix(c.reply.log, log'[s])
      BY <3>3, <3>4, <3>5, PrefixTrans
    <3>7. IsPrefix(c.reply.log, trace[s]) => IsPrefix(c.reply.log, trace'[s])
      BY <3>3, <3>4, <3>5, PrefixTrans
    <3>8. up[s] \in BOOLEAN /\ up'[s] \in BOOLEAN
      BY <3>1 DEF Types
    <3>9. QED
      BY <2>2, <3>5, <3>6, <3>7, <3>8 DEF CommandOK, Replied, Holding, Recovering
  <2>3. QED
    BY <2>1, <2>2
<1>6. Writing(q, client[q])'
  BY DEF CommandOK, Writing, Served, Serving, Holding
<1>7. QED
  BY <1>2, <1>3, <1>4, <1>5, <1>6 DEF CommandOK

\* One command moves, on a session that stays as it is.
LEMMA CommandsMove ==
    ASSUME Types, Types', \A q \in Procs : CommandOK(q, client[q]), OneLauncher,
           NEW p \in Procs, NEW c \in Clients, client' = [client EXCEPT ![p] = c],
           CommandOK(p, c), c.at \notin {"state", "budget"},
           Launching(c) => Launching(client[p]) /\ c.session = client[p].session,
           \A q \in Procs \ {p} :
              client[q].at \in {"state", "budget"} => lockHolder' = lockHolder,
           up' = up, log' = log, trace' = trace, state' = state
    PROVE  (\A q \in Procs : CommandOK(q, client[q])') /\ OneLauncher'
<1>1. client'[p] = c /\ \A q \in Procs \ {p} : client'[q] = client[q]
  BY DEF Types
<1>2. CommandOK(p, client[p])'
  <2>1. Launched(client[p])' /\ Served(client[p])'
    BY <1>1 DEF CommandOK, Launched, Served, Launching, Serving, Asking, Holding
  <2>2. Copied(client[p])'
    BY <1>1 DEF CommandOK, Copied, Asking, Holding
  <2>3. Replied(p, client[p])'
    BY <1>1 DEF CommandOK, Replied, Holding, Recovering
  <2>4. Writing(p, client[p])'
    BY <1>1 DEF CommandOK, Writing
  <2>5. QED
    BY <2>1, <2>2, <2>3, <2>4 DEF CommandOK
<1>3. ASSUME NEW q \in Procs \ {p} PROVE CommandOK(q, client[q])'
  <2>1. \A s \in Sessions : Undisturbed(q, s)
    BY PrefixRefl DEF Types, Undisturbed
  <2>2. QED
    BY <1>1, <2>1, CommandKeeps
<1>4. OneLauncher'
  <2>1. \A q \in Procs : Launching(client'[q]) =>
           Launching(client[q]) /\ client'[q].session = client[q].session
    BY <1>1
  <2>2. QED
    BY <2>1 DEF OneLauncher, Launching
<1>5. QED
  BY <1>2, <1>3, <1>4

LEMMA ClientMoves ==
    ASSUME BrowseInv, NEW p \in Procs, NEW c \in Clients, client' = [client EXCEPT ![p] = c],
           UNCHANGED <<driverVars, diskVars>>,
           CommandOK(p, c), c.at \notin {"state", "budget"},
           Launching(c) => Launching(client[p]) /\ c.session = client[p].session,
           lockHolder' \in Procs \cup {None}, crashes' \in 0..MaxCrashes,
           \A q \in Procs \ {p} :
              client[q].at \in {"state", "budget"} => lockHolder' = lockHolder
    PROVE  BrowseInv'
<1>1. up' = up /\ log' = log /\ trace' = trace /\ state' = state /\ used' = used
      /\ pending' = pending /\ doing' = doing /\ current' = current /\ cycle' = cycle
  BY DEF driverVars, diskVars
<1>2. Types'
  BY <1>1 DEF BrowseInv, Types
<1>3. \A s \in Sessions : SessionOK(s)'
  BY <1>1, SessionFrame DEF BrowseInv
<1>4. Types /\ (\A q \in Procs : CommandOK(q, client[q])) /\ OneLauncher
  BY DEF BrowseInv
<1>5. (\A q \in Procs : CommandOK(q, client[q])') /\ OneLauncher'
  BY <1>1, <1>2, <1>4, CommandsMove
<1>6. QED
  BY <1>2, <1>3, <1>5 DEF BrowseInv

LEMMA Leaves ==
    ASSUME BrowseInv, NEW p \in Procs, Leave(p), UNCHANGED <<driverVars, diskVars, crashes>>,
           lockHolder' = lockHolder \/ (lockHolder = p /\ lockHolder' = None)
    PROVE  BrowseInv'
<1>1. crashes' \in 0..MaxCrashes /\ lockHolder' \in Procs \cup {None}
  BY DEF BrowseInv, Types
<1>2. \A q \in Procs \ {p} : client[q].at \in {"state", "budget"} => lockHolder' = lockHolder
  BY DEF BrowseInv, CommandOK, Writing
<1>3. Idle \in Clients /\ CommandOK(p, Idle) /\ ~Launching(Idle)
      /\ Idle.at \notin {"state", "budget"}
  BY IdleOK DEF Idle
<1>4. PICK c \in Clients : c = Idle
  BY <1>3
<1>5. client' = [client EXCEPT ![p] = c]
  BY <1>4 DEF Leave
<1>6. QED
  BY <1>1, <1>2, <1>3, <1>4, <1>5, ClientMoves

-----------------------------------------------------------------------------
(* The steps that only move a command.                                     *)

\* What a command takes from the state of a connected session.
LEMMA TakesCopy ==
    ASSUME BrowseInv, NEW s \in Sessions, state[s] # None
    PROVE  /\ state[s] \in States
           /\ state[s].seal = None => NoEnd(state[s].head)
           /\ state[s].seal # None \/ state[s].checkpoint # None \/ state[s].connected =>
                 state[s].connected
           /\ state[s].seal = None /\ state[s].checkpoint # None =>
                 /\ state[s].checkpoint \in [log : Seq(Events), used : Nat]
                 /\ NoEnd(state[s].checkpoint.log)
                 /\ DriverDead(s) => ~up[s]
<1>1. Types /\ NotConnected(s) /\ Closed(s)
  BY DEF BrowseInv, SessionOK
<1>2. state[s] \in States
  BY <1>1 DEF Types
<1>3. state[s].seal # None \/ state[s].checkpoint # None => state[s].connected
  BY <1>1, FreshFacts DEF NotConnected
<1>4. state[s].seal = None => NoEnd(state[s].head)
  BY <1>1 DEF Closed
<1>5. ASSUME state[s].seal = None, state[s].checkpoint # None
      PROVE  /\ state[s].checkpoint \in [log : Seq(Events), used : Nat]
             /\ NoEnd(state[s].checkpoint.log)
             /\ DriverDead(s) => ~up[s]
  <2>1. state[s].checkpoint \in [log : Seq(Events), used : Nat]
    BY <1>2, <1>5 DEF States
  <2>2. NoEnd(state[s].checkpoint.log)
    BY <1>1, <1>5 DEF Closed
  <2>3. DriverDead(s) => ~up[s]
    BY <1>3, <1>5 DEF DriverDead
  <2>4. QED
    BY <2>1, <2>2, <2>3
<1>6. QED
  BY <1>2, <1>3, <1>4, <1>5

LEMMA StartKeeps ==
    ASSUME BrowseInv, NEW p \in Procs, Start(p)
    PROVE  BrowseInv'
<1>0. /\ UNCHANGED <<driverVars, diskVars>> /\ lockHolder' \in Procs \cup {None}
      /\ crashes' \in 0..MaxCrashes /\ lockHolder' = lockHolder
  BY DEF BrowseInv, Types, Start
<1>1. CASE current # None /\ Open(current) /\ state[current].checkpoint # None
             /\ DriverDead(current)
  <2>1. PICK s \in Sessions : s = current
    BY <1>1 DEF BrowseInv, Types
  <2> DEFINE c == [Idle EXCEPT !.at = "recover", !.verb = "start", !.for = "start",
                               !.session = s, !.copy = state[s]]
  <2>2. client' = [client EXCEPT ![p] = c]
    BY <1>1, <2>1 DEF Start
  <2>3. /\ c.at = "recover" /\ c.verb = "start" /\ c.for = "start" /\ c.session = s
        /\ c.copy = state[s] /\ c.reply = None
    BY DEF Idle
  <2>4. state[s] \in States
    BY <1>1, <2>1, TakesCopy DEF Open
  <2>5. c \in Clients
    BY <2>4 DEF Clients, Idle, Points
  <2>6. CommandOK(p, c)
    <3>1. /\ state[s] # None /\ state[s].connected /\ state[s].seal = None
          /\ state[s].checkpoint # None /\ NoEnd(state[s].head)
          /\ NoEnd(state[s].checkpoint.log) /\ ~up[s]
      BY <1>1, <2>1, TakesCopy DEF Open
    <3> HIDE DEF c
    <3>2. QED
      BY <2>3, <3>1 DEF CommandOK, Launched, Served, Copied, Replied, Writing, Launching,
                        Serving, Asking, Holding
  <2> HIDE DEF c
  <2>7. PICK d \in Clients : d = c
    BY <2>5
  <2>8. client' = [client EXCEPT ![p] = d] /\ CommandOK(p, d) /\ d.at = "recover"
        /\ ~Launching(d)
    BY <2>2, <2>3, <2>6, <2>7 DEF Launching
  <2>9. QED
    BY <1>0, <2>8, ClientMoves
<1>2. CASE ~(current # None /\ Open(current) /\ state[current].checkpoint # None
               /\ DriverDead(current))
  <2> DEFINE c == [client[p] EXCEPT !.at = "open", !.verb = "start"]
  <2>1. client' = [client EXCEPT ![p] = c]
    BY <1>2 DEF Start
  <2>2. c \in Clients /\ c.at = "open" /\ c.verb = "start"
    BY DEF BrowseInv, Types, Clients, Points
  <2> HIDE DEF c
  <2>3. CommandOK(p, c) /\ ~Launching(c)
    BY <2>2 DEF CommandOK, Launched, Served, Copied, Replied, Writing, Launching,
                Serving, Asking, Holding
  <2>4. PICK d \in Clients : d = c
    BY <2>2
  <2>5. client' = [client EXCEPT ![p] = d] /\ CommandOK(p, d) /\ d.at = "open"
        /\ ~Launching(d)
    BY <2>1, <2>2, <2>3, <2>4
  <2>6. QED
    BY <1>0, <2>5, ClientMoves
<1>3. QED
  BY <1>1, <1>2

LEMMA CommandKeepsInv ==
    ASSUME BrowseInv, NEW p \in Procs, NEW v \in Verbs, NEW s \in Sessions, Command(p, v, s)
    PROVE  BrowseInv'
<1>0. /\ UNCHANGED <<driverVars, diskVars>> /\ lockHolder' \in Procs \cup {None}
      /\ crashes' \in 0..MaxCrashes /\ lockHolder' = lockHolder
  BY DEF BrowseInv, Types, Command
<1>1. PICK point \in {"finish", "recover", "pending"} :
          /\ point = "finish" => ~Open(s) /\ v = "end"
          /\ point = "recover" => Open(s) /\ DriverDead(s) /\ state[s].checkpoint # None
          /\ point = "pending" => Open(s) /\ state[s].connected
          /\ client' = [client EXCEPT ![p] =
                [Idle EXCEPT !.at = point, !.verb = v, !.for = "end",
                             !.session = s, !.copy = state[s]]]
  BY DEF Command
<1>2. state[s] # None
  BY DEF Command
<1>3. v # "none"
  BY BrowseAssumption
<1> DEFINE c == [Idle EXCEPT !.at = point, !.verb = v, !.for = "end",
                             !.session = s, !.copy = state[s]]
<1>4. client' = [client EXCEPT ![p] = c]
  BY <1>1
<1>5. /\ c.at = point /\ c.verb = v /\ c.for = "end" /\ c.session = s
      /\ c.copy = state[s] /\ c.reply = None
  BY DEF Idle
<1>6. state[s] \in States
  BY <1>2, TakesCopy
<1>7. c \in Clients
  BY <1>6 DEF Clients, Idle, Points
<1> HIDE DEF c
<1>8. /\ state[s].connected
      /\ point \in {"recover", "pending"} => state[s].seal = None /\ NoEnd(state[s].head)
      /\ point = "recover" => /\ state[s].checkpoint # None
                              /\ NoEnd(state[s].checkpoint.log) /\ ~up[s]
  BY <1>1, <1>2, TakesCopy DEF Open
<1>9. CommandOK(p, c) /\ ~Launching(c) /\ c.at \notin {"state", "budget"}
  BY <1>2, <1>3, <1>5, <1>8 DEF CommandOK, Launched, Served, Copied, Replied, Writing,
                                 Launching, Serving, Asking, Holding
<1>10. PICK d \in Clients : d = c
  BY <1>7
<1>11. client' = [client EXCEPT ![p] = d] /\ CommandOK(p, d) /\ ~Launching(d)
       /\ d.at \notin {"state", "budget"}
  BY <1>4, <1>9, <1>10
<1>12. QED
  BY <1>0, <1>11, ClientMoves

LEMMA RecoverKeeps ==
    ASSUME BrowseInv, NEW p \in Procs, Recover(p)
    PROVE  BrowseInv'
<1>0. /\ UNCHANGED <<driverVars, diskVars>> /\ lockHolder' \in Procs \cup {None}
      /\ UNCHANGED <<driverVars, diskVars, crashes>>
      /\ crashes' \in 0..MaxCrashes /\ lockHolder' = lockHolder
  BY DEF BrowseInv, Types, Recover
<1> DEFINE s == client[p].session
           prefix == client[p].copy.checkpoint
           reply == [log |-> Append(prefix.log, p), first |-> Len(prefix.log) + 1,
                     checkpoint |-> TRUE, seal |-> TRUE, used |-> prefix.used]
           c == [client[p] EXCEPT !.at = "publish", !.reply = reply]
<1>1. CASE trace[s] # prefix.log
  <2>1. Leave(p)
    BY <1>1 DEF Recover
  <2>2. QED
    BY <1>0, <2>1, Leaves
<1>2. CASE trace[s] = prefix.log
  <2>1. client[p] \in Clients /\ CommandOK(p, client[p]) /\ client[p].at = "recover"
    BY DEF BrowseInv, Types, Recover, At
  <2>2. /\ s \in Sessions /\ state[s] # None /\ state[s].connected
        /\ client[p].copy # None /\ client[p].verb # "none" /\ client[p].copy.seal = None
        /\ NoEnd(client[p].copy.head) /\ client[p].for \in {"start", "end"}
        /\ prefix # None /\ NoEnd(prefix.log) /\ ~up[s]
    BY <2>1 DEF CommandOK, Served, Copied, Serving
  <2>3. client[p].copy \in States
    BY <2>1, <2>2 DEF Clients
  <2>4. prefix.log \in Seq(Events) /\ prefix.used \in Nat
    BY <2>2, <2>3 DEF States
  <2>5. /\ Append(prefix.log, p) \in Seq(Events) /\ EndIsLast(Append(prefix.log, p))
        /\ Append(prefix.log, p) # <<>>
        /\ Append(prefix.log, p)[Len(Append(prefix.log, p))] = p
    BY <2>2, <2>4, OneMore DEF Events
  <2>6. Len(prefix.log) + 1 \in Nat
    <3>1. PICK l \in Seq(Events) : l = prefix.log
      BY <2>4
    <3> HIDE DEF prefix
    <3>2. QED
      BY <3>1
  <2> HIDE DEF prefix
  <2>7. reply \in Replies /\ reply.log = Append(prefix.log, p) /\ reply.seal /\ reply.checkpoint
    BY <2>4, <2>5, <2>6 DEF Replies
  <2>8. client' = [client EXCEPT ![p] = c]
    BY <1>2 DEF Recover, prefix
  <2>9. reply # None
    BY <2>7, BrowseAssumption
  <2> HIDE DEF reply
  <2>10. /\ c.at = "publish" /\ c.reply = reply /\ c.session = s
         /\ c.copy = client[p].copy /\ c.for = client[p].for /\ c.verb = client[p].verb
    BY <2>1 DEF Clients
  <2>11. c \in Clients
    BY <2>1, <2>7 DEF Clients, Points
  <2> HIDE DEF c
  <2>12. CommandOK(p, c) /\ ~Launching(c) /\ c.at \notin {"state", "budget"}
    BY <2>2, <2>5, <2>7, <2>9, <2>10 DEF CommandOK, Launched, Served, Copied, Replied, Writing,
                                   Launching, Serving, Asking, Holding, Recovering
  <2>13. PICK d \in Clients : d = c
    BY <2>11
  <2>14. client' = [client EXCEPT ![p] = d] /\ CommandOK(p, d) /\ ~Launching(d)
         /\ d.at \notin {"state", "budget"}
    BY <2>8, <2>12, <2>13
  <2>15. QED
    BY <1>0, <2>14, ClientMoves
<1>3. QED
  BY <1>1, <1>2

\* A command that stays with its session, its copy and its reply, and goes on.
LEMMA GoesOn ==
    ASSUME BrowseInv, NEW p \in Procs, NEW point \in Points, Goto(p, point),
           up' = up, log' = log, trace' = trace, state' = state,
           lockHolder' = lockHolder \/ (lockHolder = p /\ lockHolder' = None),
           \/ /\ Asking(client[p]) /\ point \in {"action", "wait"}
           \/ /\ Holding(client[p]) /\ point \in {"action", "ack"}
              /\ point = "action" => client[p].copy.seal = None
              /\ client[p].at # "publish"
           \/ Holding(client[p]) /\ client[p].at = "budget" /\ point = "finish"
    PROVE  /\ client' \in [Procs -> Clients]
           /\ Types' => (\A q \in Procs : CommandOK(q, client[q])') /\ OneLauncher'
<1> DEFINE c == [client[p] EXCEPT !.at = point]
<1>1. client[p] \in Clients /\ CommandOK(p, client[p])
  BY DEF BrowseInv, Types
<1>2. client' = [client EXCEPT ![p] = c]
  BY DEF Goto
<1>3. /\ c.at = point /\ c.reply = client[p].reply /\ c.session = client[p].session
      /\ c.copy = client[p].copy /\ c.for = client[p].for /\ c.verb = client[p].verb
      /\ c \in Clients
  BY <1>1 DEF Clients
<1> HIDE DEF c
<1>4. point \in {"action", "wait", "ack", "finish"}
  OBVIOUS
<1>5. CommandOK(p, c)
  <2>1. Launched(c) /\ Writing(p, c)
    BY <1>3, <1>4 DEF Launched, Launching, Writing
  <2>2. Served(c)
    BY <1>1, <1>3, <1>4 DEF CommandOK, Served, Replied, Serving, Asking, Holding
  <2>3. Copied(c)
    BY <1>1, <1>3, <1>4 DEF CommandOK, Copied, Asking, Holding
  <2>4. Replied(p, c)
    BY <1>1, <1>3, <1>4 DEF CommandOK, Replied, Asking, Holding, Recovering
  <2>5. QED
    BY <2>1, <2>2, <2>3, <2>4 DEF CommandOK
<1>6. ~Launching(c) /\ c.at \notin {"state", "budget"}
  BY <1>3, <1>4 DEF Launching
<1>8. \A q \in Procs \ {p} : client[q].at \in {"state", "budget"} => lockHolder' = lockHolder
  BY DEF BrowseInv, CommandOK, Writing
<1>9. PICK d \in Clients : d = c
  BY <1>3
<1>10. client' = [client EXCEPT ![p] = d] /\ CommandOK(p, d) /\ ~Launching(d)
       /\ d.at \notin {"state", "budget"}
  BY <1>2, <1>5, <1>6, <1>9
<1>11. client' \in [Procs -> Clients]
  BY <1>10 DEF BrowseInv, Types
<1>12. Types /\ (\A q \in Procs : CommandOK(q, client[q])) /\ OneLauncher
  BY DEF BrowseInv
<1>13. QED
  BY <1>8, <1>10, <1>11, <1>12, CommandsMove

LEMMA FinishKeeps ==
    ASSUME BrowseInv, NEW p \in Procs, Finish(p)
    PROVE  BrowseInv'
<1>0. /\ UNCHANGED <<driverVars, diskVars>> /\ lockHolder' \in Procs \cup {None}
      /\ UNCHANGED <<driverVars, diskVars, crashes>>
      /\ crashes' \in 0..MaxCrashes /\ lockHolder' = lockHolder
  BY DEF BrowseInv, Types, Finish
<1>1. client[p] \in Clients /\ CommandOK(p, client[p]) /\ client[p].at = "finish"
  BY DEF BrowseInv, Types, Finish, At
<1>2. CASE Leave(p)
  BY <1>0, <1>2, Leaves
<1>3. CASE client' = [client EXCEPT ![p] = [Idle EXCEPT !.at = "open", !.verb = "start"]]
  <2> DEFINE c == [Idle EXCEPT !.at = "open", !.verb = "start"]
  <2>1. c \in Clients /\ c.at = "open" /\ c.verb = "start"
    BY DEF Idle, Clients, Points
  <2> HIDE DEF c
  <2>2. CommandOK(p, c) /\ ~Launching(c) /\ c.at \notin {"state", "budget"}
    BY <2>1 DEF CommandOK, Launched, Served, Copied, Replied, Writing, Launching,
                Serving, Asking, Holding
  <2>3. PICK d \in Clients : d = c
    BY <2>1
  <2>4. client' = [client EXCEPT ![p] = d] /\ CommandOK(p, d) /\ ~Launching(d)
        /\ d.at \notin {"state", "budget"}
    BY <1>3, <2>2, <2>3 DEF c
  <2>5. QED
    BY <1>0, <2>4, ClientMoves
<1>4. CASE Goto(p, "ack") /\ client[p].for \notin {"start", "end"}
  <2>1. Holding(client[p]) /\ client[p].at # "publish"
    BY <1>1, <1>4 DEF CommandOK, Served, Serving, Holding, Clients
  <2>2. /\ client' \in [Procs -> Clients]
        /\ Types' => (\A q \in Procs : CommandOK(q, client[q])') /\ OneLauncher'
    BY <1>0, <1>4, <2>1, GoesOn DEF Points, driverVars, diskVars
  <2>3. Types'
    BY <1>0, <2>2 DEF BrowseInv, Types, driverVars, diskVars
  <2>4. \A s \in Sessions : SessionOK(s)'
    BY <1>0, SessionFrame DEF BrowseInv, driverVars, diskVars
  <2>5. QED
    BY <2>2, <2>3, <2>4 DEF BrowseInv
<1>5. QED
  BY <1>2, <1>3, <1>4 DEF Finish

LEMMA AskPendingKeeps ==
    ASSUME BrowseInv, NEW p \in Procs, AskPending(p)
    PROVE  BrowseInv'
<1>0. /\ UNCHANGED <<driverVars, diskVars>> /\ lockHolder' \in Procs \cup {None}
      /\ UNCHANGED <<driverVars, diskVars, crashes>>
      /\ crashes' \in 0..MaxCrashes /\ lockHolder' = lockHolder
  BY DEF BrowseInv, Types, AskPending
<1>1. client[p] \in Clients /\ CommandOK(p, client[p]) /\ client[p].at = "pending"
  BY DEF BrowseInv, Types, AskPending, At
<1>2. Asking(client[p])
  BY <1>1 DEF Asking
<1> DEFINE s == client[p].session
<1>3. CASE Leave(p)
  BY <1>0, <1>3, Leaves
<1>4. CASE Goto(p, "action")
  <2>1. /\ client' \in [Procs -> Clients]
        /\ Types' => (\A q \in Procs : CommandOK(q, client[q])') /\ OneLauncher'
    BY <1>0, <1>2, <1>4, GoesOn DEF Points, driverVars, diskVars
  <2>2. Types'
    BY <1>0, <2>1 DEF BrowseInv, Types, driverVars, diskVars
  <2>3. \A t \in Sessions : SessionOK(t)'
    BY <1>0, SessionFrame DEF BrowseInv, driverVars, diskVars
  <2>4. QED
    BY <2>1, <2>2, <2>3 DEF BrowseInv
<1>5. CASE /\ pending[s] # None
           /\ client' = [client EXCEPT ![p].at = "publish", ![p].for = "pending",
                                       ![p].reply = pending[s]]
  <2> DEFINE c == [client[p] EXCEPT !.at = "publish", !.for = "pending", !.reply = pending[s]]
  <2>1. /\ s \in Sessions /\ state[s] # None /\ state[s].connected
        /\ client[p].copy # None /\ client[p].verb # "none" /\ client[p].copy.seal = None
        /\ NoEnd(client[p].copy.head)
    BY <1>1, <1>2 DEF CommandOK, Served, Copied, Serving
  <2>2. Driver(s) /\ pending[s] \in Replies /\ log[s] \in Seq(Events)
    BY <1>5, <2>1 DEF BrowseInv, SessionOK, Types
  <2>3. IsPrefix(pending[s].log, log[s]) /\ (pending[s].seal <=> Ended(pending[s].log))
    BY <1>5, <2>2, PrefixRefl DEF Driver
  <2>4. client' = [client EXCEPT ![p] = c]
    BY <1>5
  <2>5. /\ c.at = "publish" /\ c.for = "pending" /\ c.reply = pending[s] /\ c.session = s
        /\ c.copy = client[p].copy /\ c.verb = client[p].verb
    BY <1>1 DEF Clients
  <2>6. c \in Clients
    BY <1>1, <2>2 DEF Clients, Points
  <2> HIDE DEF c
  <2>7. CommandOK(p, c) /\ ~Launching(c) /\ c.at \notin {"state", "budget"}
    BY <1>5, <2>1, <2>3, <2>5 DEF CommandOK, Launched, Served, Copied, Replied, Writing,
                                   Launching, Serving, Asking, Holding, Recovering
  <2>8. PICK d \in Clients : d = c
    BY <2>6
  <2>9. client' = [client EXCEPT ![p] = d] /\ CommandOK(p, d) /\ ~Launching(d)
        /\ d.at \notin {"state", "budget"}
    BY <2>4, <2>7, <2>8
  <2>10. QED
    BY <1>0, <2>9, ClientMoves
<1>6. QED
  BY <1>3, <1>4, <1>5 DEF AskPending

-----------------------------------------------------------------------------
(* The steps that change a session.                                        *)

LEMMA ActKeeps ==
    ASSUME BrowseInv, NEW p \in Procs, Act(p)
    PROVE  BrowseInv'
<1>0. /\ UNCHANGED <<lockHolder, up, log, used, pending, diskVars, crashes>>
      /\ lockHolder' = lockHolder /\ up' = up /\ log' = log /\ trace' = trace /\ state' = state
  BY DEF Act, diskVars
<1>1. client[p] \in Clients /\ CommandOK(p, client[p]) /\ client[p].at = "action"
  BY DEF BrowseInv, Types, Act, At
<1>2. Asking(client[p])
  BY <1>1 DEF Asking
<1> DEFINE s == client[p].session
<1>3. CASE Leave(p) /\ UNCHANGED doing
  BY <1>0, <1>3, Leaves DEF driverVars
<1>4. CASE /\ Accepts(s, client[p].copy.head)
           /\ doing' = [doing EXCEPT ![s] = <<p, client[p].verb>>]
           /\ Goto(p, "wait")
  <2>1. /\ client' \in [Procs -> Clients]
        /\ Types' => (\A q \in Procs : CommandOK(q, client[q])') /\ OneLauncher'
    BY <1>0, <1>2, <1>4, GoesOn DEF Points
  <2>2. s \in Sessions /\ state[s] # None /\ state[s].connected /\ client[p].verb # "none"
    BY <1>1, <1>2 DEF CommandOK, Served, Copied, Serving
  <2>3. <<p, client[p].verb>> \in Procs \X (Verbs \cup {"start"})
    BY <1>1, <2>2 DEF Clients
  <2>4. Types'
    <3>1. doing' \in [Sessions -> (Procs \X (Verbs \cup {"start"})) \cup {None}]
      BY <1>4, <2>2, <2>3 DEF BrowseInv, Types
    <3>2. QED
      BY <1>0, <2>1, <3>1 DEF BrowseInv, Types, diskVars
  <2>5. ASSUME NEW t \in Sessions PROVE SessionOK(t)'
    <3>1. CASE t = s
      <4>1. pending'[t] = None /\ pending[t] = None /\ state'[t] # None /\ state'[t].connected
        BY <1>0, <1>4, <2>2, <3>1 DEF Accepts
      <4>2. SessionOK(t)
        BY DEF BrowseInv
      <4>3. NotConnected(t)'
        BY <4>1 DEF NotConnected
      <4>4. Driver(t)'
        BY <1>0, <4>1, <4>2 DEF SessionOK, Driver
      <4>5. Acked(t)'
        BY <1>0, <4>2 DEF SessionOK, Acked, Acknowledged
      <4>6. Closed(t)'
        BY <1>0, <4>2 DEF SessionOK, Closed
      <4>7. QED
        BY <4>3, <4>4, <4>5, <4>6 DEF SessionOK
    <3>2. CASE t # s
      <4>1. doing'[t] = doing[t]
        BY <1>4, <3>2 DEF BrowseInv, Types
      <4>2. QED
        BY <1>0, <4>1, SessionFrame DEF BrowseInv
    <3>3. QED
      BY <3>1, <3>2
  <2>6. QED
    BY <2>1, <2>4, <2>5 DEF BrowseInv
<1>5. QED
  BY <1>3, <1>4 DEF Act

LEMMA AckKeeps ==
    ASSUME BrowseInv, NEW p \in Procs, Ack(p)
    PROVE  BrowseInv'
<1>0. /\ UNCHANGED <<lockHolder, up, log, used, doing, diskVars, crashes>>
      /\ lockHolder' = lockHolder /\ up' = up /\ log' = log /\ trace' = trace /\ state' = state
  BY DEF Ack, diskVars
<1>1. client[p] \in Clients /\ CommandOK(p, client[p]) /\ client[p].at = "ack"
  BY DEF BrowseInv, Types, Ack, At
<1>2. Holding(client[p])
  BY <1>1 DEF Holding
<1> DEFINE s == client[p].session
<1>3. CASE Leave(p) /\ UNCHANGED pending
  BY <1>0, <1>3, Leaves DEF driverVars
<1>4. CASE /\ pending[s] \in {None, client[p].reply}
           /\ pending' = [pending EXCEPT ![s] = None]
           /\ \/ Leave(p)
              \/ client[p].copy.seal = None /\ Goto(p, "action")
  <2>1. s \in Sessions /\ state[s] # None /\ state[s].connected
        /\ IsPrefix(client[p].reply.log, trace[s])
    BY <1>1, <1>2 DEF CommandOK, Served, Replied, Serving
  <2>2. /\ client' \in [Procs -> Clients]
        /\ Types' => (\A q \in Procs : CommandOK(q, client[q])') /\ OneLauncher'
    <3>1. CASE Leave(p)
      <4>1. Idle \in Clients /\ CommandOK(p, Idle) /\ ~Launching(Idle)
            /\ Idle.at \notin {"state", "budget"}
        BY IdleOK DEF Idle
      <4>2. PICK c \in Clients : c = Idle
        BY <4>1
      <4>3. client' = [client EXCEPT ![p] = c]
        BY <3>1, <4>2 DEF Leave
      <4>4. Types /\ (\A q \in Procs : CommandOK(q, client[q])) /\ OneLauncher
        BY DEF BrowseInv
      <4>5. client' \in [Procs -> Clients]
        BY <4>3 DEF BrowseInv, Types
      <4>6. QED
        BY <1>0, <4>1, <4>2, <4>3, <4>4, <4>5, CommandsMove
    <3>2. CASE client[p].copy.seal = None /\ Goto(p, "action")
      BY <1>0, <1>1, <1>2, <3>2, GoesOn DEF Points
    <3>3. QED
      BY <1>4, <3>1, <3>2
  <2>3. Types'
    <3>1. pending' \in [Sessions -> Replies \cup {None}]
      BY <1>4, <2>1 DEF BrowseInv, Types
    <3>2. QED
      BY <1>0, <2>2, <3>1 DEF BrowseInv, Types, diskVars
  <2>4. ASSUME NEW t \in Sessions PROVE SessionOK(t)'
    <3>1. CASE t = s
      <4>1. pending'[t] = None /\ state'[t] # None /\ state'[t].connected
        BY <1>0, <1>4, <2>1, <3>1 DEF BrowseInv, Types
      <4>2. SessionOK(t)
        BY DEF BrowseInv
      <4>3. NotConnected(t)'
        BY <4>1 DEF NotConnected
      <4>4. Driver(t)'
        BY <1>0, <4>1, <4>2 DEF SessionOK, Driver
      <4>5. Acked(t)'
        <5>1. pending[t] # None => pending[t].log = log[t] /\ IsPrefix(log[t], trace[t])
          BY <1>4, <2>1, <3>1, <4>2 DEF SessionOK, Driver
        <5>2. QED
          BY <1>0, <4>1, <4>2, <5>1 DEF SessionOK, Acked, Acknowledged
      <4>6. Closed(t)'
        BY <1>0, <4>2 DEF SessionOK, Closed
      <4>7. QED
        BY <4>3, <4>4, <4>5, <4>6 DEF SessionOK
    <3>2. CASE t # s
      <4>1. pending'[t] = pending[t]
        BY <1>4, <3>2 DEF BrowseInv, Types
      <4>2. QED
        BY <1>0, <4>1, SessionFrame DEF BrowseInv
    <3>3. QED
      BY <3>1, <3>2
  <2>5. QED
    BY <2>2, <2>3, <2>4 DEF BrowseInv
<1>5. QED
  BY <1>3, <1>4 DEF Ack

LEMMA PublishBudgetKeeps ==
    ASSUME BrowseInv, NEW p \in Procs, PublishBudget(p)
    PROVE  BrowseInv'
<1>0. /\ UNCHANGED <<driverVars, trace, state, current, crashes>>
      /\ lockHolder = p /\ lockHolder' = None
      /\ up' = up /\ log' = log /\ trace' = trace /\ state' = state
      /\ pending' = pending /\ doing' = doing /\ used' = used
  BY DEF PublishBudget, driverVars, LetGo
<1>1. client[p] \in Clients /\ CommandOK(p, client[p]) /\ client[p].at = "budget"
  BY DEF BrowseInv, Types, PublishBudget, At
<1>2. Holding(client[p])
  BY <1>1 DEF Holding
<1>3. Goto(p, "finish") \/ Goto(p, "ack")
  BY DEF PublishBudget
<1>4. /\ client' \in [Procs -> Clients]
      /\ Types' => (\A q \in Procs : CommandOK(q, client[q])') /\ OneLauncher'
  <2>1. CASE Goto(p, "finish")
    BY <1>0, <1>1, <1>2, <2>1, GoesOn DEF Points
  <2>2. CASE Goto(p, "ack")
    BY <1>0, <1>1, <1>2, <2>2, GoesOn DEF Points
  <2>3. QED
    BY <1>3, <2>1, <2>2
<1>5. Types'
  <2>1. client[p].reply \in Replies
    BY <1>1, <1>2 DEF CommandOK, Replied, Clients
  <2>2. cycle' \in Nat
    BY <2>1 DEF PublishBudget, Replies
  <2>3. QED
    BY <1>0, <1>4, <2>2 DEF BrowseInv, Types
<1>6. \A t \in Sessions : SessionOK(t)'
  BY <1>0, SessionFrame DEF BrowseInv
<1>7. QED
  BY <1>4, <1>5, <1>6 DEF BrowseInv

LEMMA DriverDiesKeeps ==
    ASSUME BrowseInv, NEW s \in Sessions, DriverDies(s)
    PROVE  BrowseInv'
<1>0. /\ lockHolder' = lockHolder /\ log' = log /\ trace' = trace /\ state' = state
      /\ used' = used /\ current' = current /\ cycle' = cycle /\ crashes' = crashes
      /\ up' = [up EXCEPT ![s] = FALSE]
      /\ pending' = [pending EXCEPT ![s] = None]
      /\ doing' = [doing EXCEPT ![s] = None]
  BY DEF DriverDies, diskVars
<1>1. ASSUME NEW q \in Procs
      PROVE  client'[q] = client[q] \/ client'[q] = Idle
  BY DEF DriverDies
<1>2. client' \in [Procs -> Clients]
  BY IdleOK DEF DriverDies, BrowseInv, Types
<1>3. Types'
  BY <1>0, <1>2 DEF BrowseInv, Types
<1>4. ASSUME NEW t \in Sessions PROVE SessionOK(t)'
  <2>1. CASE t = s
    <3>1. pending'[t] = None /\ doing'[t] = None /\ ~up'[t]
      BY <1>0, <2>1 DEF BrowseInv, Types
    <3>2. SessionOK(t)
      BY DEF BrowseInv
    <3>3. NotConnected(t)'
      BY <1>0, <3>1, <3>2 DEF SessionOK, NotConnected
    <3>4. Driver(t)' /\ Acked(t)'
      BY <1>0, <3>1, <3>2 DEF SessionOK, Driver, Acked
    <3>5. Closed(t)'
      BY <1>0, <3>2 DEF SessionOK, Closed
    <3>6. QED
      BY <3>3, <3>4, <3>5 DEF SessionOK
  <2>2. CASE t # s
    <3>1. pending'[t] = pending[t] /\ doing'[t] = doing[t] /\ up'[t] = up[t]
      BY <1>0, <2>2 DEF BrowseInv, Types
    <3>2. QED
      BY <1>0, <3>1, SessionFrame DEF BrowseInv
  <2>3. QED
    BY <2>1, <2>2
<1>5. ASSUME NEW q \in Procs PROVE CommandOK(q, client[q])'
  <2>1. CASE client'[q] = client[q]
    <3>1. ASSUME NEW t \in Sessions PROVE Undisturbed(q, t)
      <4>1. IsPrefix(log[t], log[t]) /\ IsPrefix(trace[t], trace[t])
        BY PrefixRefl DEF BrowseInv, Types
      <4>2. up'[t] => up[t]
        BY <1>0 DEF BrowseInv, Types
      <4>3. QED
        BY <1>0, <4>1, <4>2 DEF Undisturbed
    <3>2. Types /\ CommandOK(q, client[q])
      BY DEF BrowseInv
    <3>3. QED
      BY <1>0, <1>3, <2>1, <3>1, <3>2, CommandKeeps
  <2>2. CASE client'[q] = Idle
    <3>1. client'[q].at = "idle"
      BY <2>2 DEF Idle
    <3>2. QED
      BY <3>1 DEF CommandOK, Launched, Served, Copied, Replied, Writing, Launching, Serving,
                  Asking, Holding
  <2>3. QED
    BY <1>1, <2>1, <2>2
<1>6. OneLauncher'
  <2>1. \A q \in Procs : Launching(client'[q]) => client'[q] = client[q]
    BY <1>1, IdleOK
  <2>2. QED
    BY <2>1 DEF BrowseInv, OneLauncher
<1>7. QED
  BY <1>3, <1>4, <1>5, <1>6 DEF BrowseInv

LEMMA OpenSessionKeeps ==
    ASSUME BrowseInv, NEW p \in Procs, OpenSession(p)
    PROVE  BrowseInv'
<1>0. /\ lockHolder' = lockHolder /\ up' = up /\ log' = log /\ trace' = trace
      /\ pending' = pending /\ doing' = doing /\ cycle' = cycle /\ crashes' = crashes
  BY DEF OpenSession
<1>1. client[p] \in Clients /\ CommandOK(p, client[p]) /\ client[p].at = "open"
  BY DEF BrowseInv, Types, OpenSession, At
<1>2. CASE Leave(p) /\ UNCHANGED <<state, current, used>>
  BY <1>0, <1>2, Leaves DEF driverVars, diskVars
<1>3. ASSUME NEW s \in Sessions, NewSession(p, s) PROVE BrowseInv'
  <2> DEFINE c == [client[p] EXCEPT !.at = "launch", !.session = s, !.copy = Fresh]
  <2>1. client' = [client EXCEPT ![p] = c]
    BY <1>3 DEF NewSession
  <2>2. c.at = "launch" /\ c.session = s /\ c.copy = Fresh /\ c.verb = client[p].verb
        /\ c \in Clients
    BY <1>1, FreshFacts DEF Clients, Points
  <2> HIDE DEF c
  <2>3. client'[p] = c /\ \A q \in Procs \ {p} : client'[q] = client[q]
    BY <2>1 DEF BrowseInv, Types
  <2>4. state[s] = None /\ state'[s] = Fresh /\ \A t \in Sessions \ {s} : state'[t] = state[t]
    BY <1>3 DEF NewSession, BrowseInv, Types
  <2>5. Types'
    <3>1. state' \in [Sessions -> States \cup {None}]
      BY <1>3, FreshFacts DEF NewSession, BrowseInv, Types
    <3>2. used' \in [Sessions -> Nat]
      <4>1. (IF cycle = None THEN 0 ELSE cycle) \in Nat
        BY DEF BrowseInv, Types
      <4>2. QED
        BY <1>3, <4>1 DEF NewSession, BrowseInv, Types
    <3>3. current' \in Sessions \cup {None} /\ client' \in [Procs -> Clients]
      <4>1. current' = s
        BY <1>3 DEF NewSession
      <4>2. client \in [Procs -> Clients]
        BY DEF BrowseInv, Types
      <4>3. QED
        BY <2>1, <2>2, <4>1, <4>2
    <3>4. QED
      BY <1>0, <3>1, <3>2, <3>3 DEF BrowseInv, Types
  <2>6. /\ trace[s] = <<>> /\ log[s] = <<>> /\ pending[s] = None /\ doing[s] = None /\ ~up[s]
    BY <2>4 DEF BrowseInv, SessionOK, NotConnected
  <2>7. ASSUME NEW t \in Sessions PROVE SessionOK(t)'
    <3>1. CASE t = s
      <4>1. SessionOK(t)
        BY DEF BrowseInv
      <4>2. Driver(t)' /\ Acked(t)'
        BY <1>0, <4>1 DEF SessionOK, Driver, Acked, Acknowledged
      <4>3. NotConnected(t)'
        BY <1>0, <2>4, <2>6, <3>1, FreshFacts DEF NotConnected
      <4>4. Closed(t)'
        BY <1>0, <2>4, <3>1, <4>1, FreshFacts, EmptySeq DEF SessionOK, Closed, NoEnd
      <4>5. QED
        BY <4>2, <4>3, <4>4 DEF SessionOK
    <3>2. CASE t # s
      BY <1>0, <2>4, <3>2, SessionFrame DEF BrowseInv
    <3>3. QED
      BY <3>1, <3>2
  <2>8. ASSUME NEW q \in Procs \ {p} PROVE CommandOK(q, client[q])'
    <3>1. Types /\ CommandOK(q, client[q])
      BY DEF BrowseInv
    <3>2. ASSUME NEW t \in Sessions, t = client[q].session,
                 Serving(client[q]) \/ Launching(client[q])
          PROVE  Undisturbed(q, t)
      <4>1. t # s
        BY <2>4, <3>1, <3>2, FreshFacts DEF CommandOK, Served, Launched
      <4>2. IsPrefix(log[t], log[t]) /\ IsPrefix(trace[t], trace[t])
        BY PrefixRefl DEF BrowseInv, Types
      <4>3. up'[t] => up[t]
        BY <1>0
      <4>4. QED
        BY <1>0, <2>4, <4>1, <4>2, <4>3 DEF Undisturbed
    <3>3. QED
      BY <1>0, <2>3, <2>5, <3>1, <3>2, CommandKeeps
  <2>9. CommandOK(p, client[p])'
    <3>1. client[p].verb = "start"
      BY <1>1 DEF CommandOK, Launched
    <3>2. QED
      BY <1>0, <2>2, <2>3, <2>4, <2>6, <3>1 DEF CommandOK, Launched, Served, Copied, Replied,
         Writing, Launching, Serving, Asking, Holding
  <2>10. OneLauncher'
    <3>1. ASSUME NEW q \in Procs \ {p}, Launching(client[q]) PROVE client[q].session # s
      BY <2>4, <3>1, FreshFacts DEF BrowseInv, CommandOK, Launched
    <3>2. QED
      BY <2>2, <2>3, <3>1 DEF BrowseInv, OneLauncher
  <2>11. QED
    BY <2>5, <2>7, <2>8, <2>9, <2>10 DEF BrowseInv
<1>4. QED
  BY <1>2, <1>3 DEF OpenSession

\* The session of a command that launches its driver is nobody else's.
LEMMA LaunchingAlone ==
    ASSUME BrowseInv, NEW p \in Procs, Launching(client[p])
    PROVE  /\ client[p].session \in Sessions /\ client[p].verb = "start"
           /\ state[client[p].session] = Fresh /\ client[p].copy = Fresh
           /\ trace[client[p].session] = <<>> /\ log[client[p].session] = <<>>
           /\ pending[client[p].session] = None /\ doing[client[p].session] = None
           /\ \A q \in Procs \ {p} :
                 client[q].session = client[p].session =>
                    ~Serving(client[q]) /\ ~Launching(client[q])
<1>1. CommandOK(p, client[p])
  BY DEF BrowseInv
<1>2. /\ client[p].session \in Sessions /\ client[p].verb = "start"
      /\ state[client[p].session] = Fresh /\ client[p].copy = Fresh
  BY <1>1 DEF CommandOK, Launched, Launching
<1>3. /\ trace[client[p].session] = <<>> /\ log[client[p].session] = <<>>
      /\ pending[client[p].session] = None /\ doing[client[p].session] = None
  BY <1>2, FreshFacts DEF BrowseInv, SessionOK, NotConnected
<1>4. ASSUME NEW q \in Procs \ {p}, client[q].session = client[p].session
      PROVE  ~Serving(client[q]) /\ ~Launching(client[q])
  BY <1>2, <1>4, FreshFacts DEF BrowseInv, OneLauncher, CommandOK, Served
<1>5. QED
  BY <1>2, <1>3, <1>4

LEMMA LaunchKeeps ==
    ASSUME BrowseInv, NEW p \in Procs, Launch(p)
    PROVE  BrowseInv'
<1>0. /\ lockHolder' = lockHolder /\ log' = log /\ trace' = trace /\ state' = state
      /\ used' = used /\ current' = current /\ cycle' = cycle /\ crashes' = crashes
      /\ pending' = pending /\ doing' = doing
  BY DEF Launch, diskVars
<1>1. client[p] \in Clients /\ CommandOK(p, client[p]) /\ client[p].at = "launch"
  BY DEF BrowseInv, Types, Launch, At
<1>2. CASE Leave(p) /\ UNCHANGED up
  BY <1>0, <1>2, Leaves DEF driverVars, diskVars
<1>3. CASE up' = [up EXCEPT ![client[p].session] = TRUE] /\ Goto(p, "connect")
  <2> DEFINE c == [client[p] EXCEPT !.at = "connect"]
             s == client[p].session
  <2>1. client' = [client EXCEPT ![p] = c]
    BY <1>3 DEF Goto
  <2>2. c.at = "connect" /\ c.session = s /\ c.copy = client[p].copy /\ c.verb = client[p].verb
        /\ c \in Clients
    BY <1>1 DEF Clients, Points
  <2> HIDE DEF c
  <2>3. client'[p] = c /\ \A q \in Procs \ {p} : client'[q] = client[q]
    BY <2>1 DEF BrowseInv, Types
  <2>4. Launching(client[p])
    BY <1>1 DEF Launching
  <2>5. /\ s \in Sessions /\ client[p].verb = "start"
        /\ state[s] = Fresh /\ client[p].copy = Fresh
        /\ trace[s] = <<>> /\ log[s] = <<>> /\ pending[s] = None /\ doing[s] = None
        /\ \A q \in Procs \ {p} :
              client[q].session = s => ~Serving(client[q]) /\ ~Launching(client[q])
    BY <2>4, LaunchingAlone
  <2>6. Types'
    <3>1. client' \in [Procs -> Clients] /\ up' \in [Sessions -> BOOLEAN]
      BY <1>3, <2>1, <2>2 DEF BrowseInv, Types
    <3>2. QED
      BY <1>0, <3>1 DEF BrowseInv, Types
  <2>7. ASSUME NEW t \in Sessions PROVE SessionOK(t)'
    <3>1. CASE t = s
      <4>1. SessionOK(t)
        BY DEF BrowseInv
      <4>2. IsPrefix(trace[t], log[t]) /\ IsPrefix(log[t], trace[t])
        BY <2>5, <3>1, PrefixRefl DEF BrowseInv, Types
      <4>3. Driver(t)'
        BY <1>0, <4>1, <4>2 DEF SessionOK, Driver
      <4>4. Acked(t)'
        BY <1>0, <2>5, <3>1, <4>2 DEF Acked, Acknowledged
      <4>5. NotConnected(t)'
        BY <1>0, <2>5, <3>1, FreshFacts DEF NotConnected
      <4>6. Closed(t)'
        BY <1>0, <4>1 DEF SessionOK, Closed
      <4>7. QED
        BY <4>3, <4>4, <4>5, <4>6 DEF SessionOK
    <3>2. CASE t # s
      <4>1. up'[t] = up[t]
        BY <1>3, <3>2 DEF BrowseInv, Types
      <4>2. QED
        BY <1>0, <4>1, SessionFrame DEF BrowseInv
    <3>3. QED
      BY <3>1, <3>2
  <2>8. ASSUME NEW q \in Procs \ {p} PROVE CommandOK(q, client[q])'
    <3>1. Types /\ CommandOK(q, client[q])
      BY DEF BrowseInv
    <3>2. ASSUME NEW t \in Sessions, t = client[q].session,
                 Serving(client[q]) \/ Launching(client[q])
          PROVE  Undisturbed(q, t)
      <4>1. t # s
        BY <2>5, <3>2
      <4>2. IsPrefix(log[t], log[t]) /\ IsPrefix(trace[t], trace[t])
        BY PrefixRefl DEF BrowseInv, Types
      <4>3. up'[t] => up[t]
        BY <1>3, <4>1 DEF BrowseInv, Types
      <4>4. QED
        BY <1>0, <4>2, <4>3 DEF Undisturbed
    <3>3. QED
      BY <1>0, <2>3, <2>6, <3>1, <3>2, CommandKeeps
  <2>9. CommandOK(p, client[p])'
    BY <1>0, <2>2, <2>3, <2>5 DEF CommandOK, Launched, Served, Copied, Replied,
       Writing, Launching, Serving, Asking, Holding
  <2>10. OneLauncher'
    BY <2>2, <2>3, <2>4 DEF BrowseInv, OneLauncher
  <2>11. QED
    BY <2>6, <2>7, <2>8, <2>9, <2>10 DEF BrowseInv
<1>4. QED
  BY <1>2, <1>3 DEF Launch

LEMMA ConnectKeeps ==
    ASSUME BrowseInv, NEW p \in Procs, Connect(p)
    PROVE  BrowseInv'
<1>0. /\ lockHolder' = lockHolder /\ up' = up /\ log' = log /\ trace' = trace
      /\ used' = used /\ current' = current /\ cycle' = cycle /\ crashes' = crashes
      /\ pending' = pending /\ doing' = doing
  BY DEF Connect, driverVars
<1>1. client[p] \in Clients /\ CommandOK(p, client[p]) /\ client[p].at = "connect"
  BY DEF BrowseInv, Types, Connect, At
<1> DEFINE s == client[p].session
           n == [client[p].copy EXCEPT !.connected = TRUE]
           c == [client[p] EXCEPT !.at = "pending", !.copy = n]
<1>2. Launching(client[p])
  BY <1>1 DEF Launching
<1>3. /\ s \in Sessions /\ client[p].verb = "start"
      /\ state[s] = Fresh /\ client[p].copy = Fresh
      /\ trace[s] = <<>> /\ log[s] = <<>> /\ pending[s] = None /\ doing[s] = None
      /\ \A q \in Procs \ {p} :
            client[q].session = s => ~Serving(client[q]) /\ ~Launching(client[q])
  BY <1>2, LaunchingAlone
<1>4. n \in States /\ n.connected /\ n.head = <<>> /\ n.checkpoint = None /\ n.seal = None
  BY <1>3, FreshFacts DEF States, Fresh
<1>5. n # None
  BY <1>4, BrowseAssumption
<1>6. client' = [client EXCEPT ![p] = c] /\ state' = [state EXCEPT ![s] = n]
  BY DEF Connect
<1> HIDE DEF n
<1>7. c.at = "pending" /\ c.session = s /\ c.copy = n /\ c.verb = client[p].verb
      /\ c \in Clients
  BY <1>1, <1>4 DEF Clients, Points
<1> HIDE DEF c
<1>8. client'[p] = c /\ \A q \in Procs \ {p} : client'[q] = client[q]
  BY <1>6 DEF BrowseInv, Types
<1>9. state'[s] = n /\ \A t \in Sessions \ {s} : state'[t] = state[t]
  BY <1>3, <1>6 DEF BrowseInv, Types
<1>10. Types'
  <2>1. client' \in [Procs -> Clients] /\ state' \in [Sessions -> States \cup {None}]
    BY <1>4, <1>6, <1>7 DEF BrowseInv, Types
  <2>2. QED
    BY <1>0, <2>1 DEF BrowseInv, Types
<1>11. ASSUME NEW t \in Sessions PROVE SessionOK(t)'
  <2>1. CASE t = s
    <3>1. SessionOK(t)
      BY DEF BrowseInv
    <3>2. Driver(t)' /\ Acked(t)'
      BY <1>0, <3>1 DEF SessionOK, Driver, Acked, Acknowledged
    <3>3. NotConnected(t)'
      BY <1>4, <1>5, <1>9, <2>1 DEF NotConnected
    <3>4. Closed(t)'
      BY <1>0, <1>4, <1>9, <2>1, <3>1, EmptySeq DEF SessionOK, Closed, NoEnd
    <3>5. QED
      BY <3>2, <3>3, <3>4 DEF SessionOK
  <2>2. CASE t # s
    BY <1>0, <1>9, <2>2, SessionFrame DEF BrowseInv
  <2>3. QED
    BY <2>1, <2>2
<1>12. ASSUME NEW q \in Procs \ {p} PROVE CommandOK(q, client[q])'
  <2>1. Types /\ CommandOK(q, client[q])
    BY DEF BrowseInv
  <2>2. ASSUME NEW t \in Sessions, t = client[q].session,
               Serving(client[q]) \/ Launching(client[q])
        PROVE  Undisturbed(q, t)
    <3>1. t # s
      BY <1>3, <2>2
    <3>2. IsPrefix(log[t], log[t]) /\ IsPrefix(trace[t], trace[t])
      BY PrefixRefl DEF BrowseInv, Types
    <3>3. up'[t] => up[t]
      BY <1>0
    <3>4. QED
      BY <1>0, <1>9, <3>1, <3>2, <3>3 DEF Undisturbed
  <2>3. QED
    BY <1>0, <1>8, <1>10, <2>1, <2>2, CommandKeeps
<1>13. CommandOK(p, client[p])'
  <2>1. NoEnd(n.head)
    BY <1>4, EmptySeq DEF NoEnd
  <2>2. QED
    BY <1>0, <1>3, <1>4, <1>5, <1>7, <1>8, <1>9, <2>1 DEF CommandOK, Launched, Served, Copied,
       Replied, Writing, Launching, Serving, Asking, Holding
<1>14. OneLauncher'
  BY <1>7, <1>8 DEF BrowseInv, OneLauncher, Launching
<1>15. QED
  BY <1>10, <1>11, <1>12, <1>13, <1>14 DEF BrowseInv

-----------------------------------------------------------------------------
(* Publication.                                                            *)

\* What a command that publishes has: a connected session, a reply whose log ends once and
\* which seals exactly when its log has ended.
LEMMA ReplyFacts ==
    ASSUME BrowseInv, NEW p \in Procs, Holding(client[p])
    PROVE  /\ client[p].session \in Sessions
           /\ state[client[p].session] \in States /\ state[client[p].session].connected
           /\ client[p].copy \in States
           /\ client[p].copy.seal = None => NoEnd(client[p].copy.head)
           /\ client[p].reply \in Replies /\ client[p].reply.log \in Seq(Events)
           /\ EndIsLast(client[p].reply.log)
           /\ client[p].reply.seal <=> Ended(client[p].reply.log)
           /\ client[p].reply.seal /\ ~client[p].reply.checkpoint =>
                 IsPrefix(client[p].reply.log, log[client[p].session])
           /\ up[client[p].session] => IsPrefix(client[p].reply.log, log[client[p].session])
<1> DEFINE c == client[p]
           s == client[p].session
<1>1. c \in Clients /\ CommandOK(p, c) /\ Types
  BY DEF BrowseInv, Types
<1>2. s \in Sessions /\ state[s] \in States /\ state[s].connected
  BY <1>1 DEF CommandOK, Served, Serving, Types
<1>3. c.copy \in States /\ (c.copy.seal = None => NoEnd(c.copy.head))
  BY <1>1 DEF CommandOK, Copied, Clients
<1>4. c.reply \in Replies
  BY <1>1 DEF CommandOK, Replied, Clients
<1>5. c.reply.log \in Seq(Events) /\ log[s] \in Seq(Events)
  BY <1>1, <1>2, <1>4 DEF Replies, Types
<1>6. EndIsLast(log[s])
  BY <1>2 DEF BrowseInv, SessionOK, Driver
<1>7. CASE Recovering(c)
  <2>1. /\ c.reply.seal /\ c.reply.checkpoint /\ ~up[s]
        /\ EndIsLast(c.reply.log)
        /\ c.reply.log # <<>> /\ c.reply.log[Len(c.reply.log)] = p
    BY <1>1, <1>7 DEF CommandOK, Replied
  <2>2. Ended(c.reply.log)
    BY <2>1 DEF Ended, Ends
  <2>3. QED
    BY <1>2, <1>3, <1>4, <1>5, <2>1, <2>2
<1>8. CASE ~Recovering(c)
  <2>1. IsPrefix(c.reply.log, log[s]) /\ (c.reply.seal <=> Ended(c.reply.log))
    BY <1>1, <1>8 DEF CommandOK, Replied
  <2>2. EndIsLast(c.reply.log)
    BY <1>5, <1>6, <2>1, PrefixEnds
  <2>3. QED
    BY <1>2, <1>3, <1>4, <1>5, <2>1, <2>2
<1>9. QED
  BY <1>7, <1>8

\* What publishing a reply that fits does to the trace.
LEMMA FitsFacts ==
    ASSUME BrowseInv, NEW p \in Procs, client[p].at = "publish",
           NEW s \in Sessions, s = client[p].session,
           Fits(s, client[p].copy.head, client[p].reply),
           NEW new, new = IF IsPrefix(trace[s], client[p].reply.log)
                            THEN client[p].reply.log ELSE trace[s]
    PROVE  /\ new \in Seq(Events) /\ EndIsLast(new)
           /\ IsPrefix(trace[s], new) /\ IsPrefix(client[p].reply.log, new)
           /\ up[s] => IsPrefix(new, log[s])
           /\ client[p].reply.seal => new = client[p].reply.log
           /\ state[s].seal # None => new = trace[s] /\ client[p].reply.log = state[s].seal
<1> DEFINE r == client[p].reply
<1>0. Holding(client[p])
  BY DEF Holding
<1>1. /\ state[s] \in States /\ r.log \in Seq(Events) /\ EndIsLast(r.log)
      /\ r.seal <=> Ended(r.log)
      /\ client[p].copy \in States
      /\ client[p].copy.seal = None => NoEnd(client[p].copy.head)
      /\ up[s] => IsPrefix(r.log, log[s])
      /\ r \in Replies
  BY <1>0, ReplyFacts
<1>2. client[p].copy.seal = None
  BY DEF BrowseInv, CommandOK, Copied
<1>3. trace[s] \in Seq(Events) /\ EndIsLast(trace[s]) /\ log[s] \in Seq(Events)
      /\ (up[s] => IsPrefix(trace[s], log[s]))
  BY DEF BrowseInv, Types, SessionOK, Closed, Driver
<1>4. r.seal \in BOOLEAN /\ r.checkpoint \in BOOLEAN
  BY <1>1 DEF Replies
<1>5. IsPrefix(trace[s], r.log) \/ IsPrefix(r.log, trace[s])
  BY DEF Fits
<1>6. IsPrefix(r.log, r.log) /\ IsPrefix(trace[s], trace[s])
  BY <1>1, <1>3, PrefixRefl
<1>7. new \in Seq(Events) /\ EndIsLast(new) /\ (up[s] => IsPrefix(new, log[s]))
  BY <1>1, <1>3
<1>8. IsPrefix(trace[s], new) /\ IsPrefix(r.log, new)
  BY <1>5, <1>6
<1>9. r.seal => new = r.log
  <2>1. CASE IsPrefix(trace[s], r.log)
    BY <2>1
  <2>2. CASE ~IsPrefix(trace[s], r.log) /\ r.seal
    BY <1>1, <1>3, <1>5, <2>2, EndedIsWhole
  <2>3. QED
    BY <1>4, <2>1, <2>2
<1>10. ASSUME state[s].seal # None PROVE new = trace[s] /\ r.log = state[s].seal
  <2>1. state[s] # None
    BY <1>1, BrowseAssumption
  <2>2. state[s].seal = trace[s] /\ state[s].head = trace[s] /\ Ended(trace[s])
    BY <1>10, <2>1 DEF BrowseInv, SessionOK, Closed
  <2>3. client[p].copy.head \in Seq(Events) /\ ~Ended(client[p].copy.head)
    <3>1. client[p].copy.head \in Seq(Events)
      BY <1>1 DEF States
    <3>2. QED
      BY <1>1, <1>2, <3>1, NoEndIsOpen
  <2>4. state[s].head = r.log
    BY <2>2, <2>3 DEF Fits
  <2>5. QED
    BY <2>2, <2>4
<1>11. QED
  BY <1>7, <1>8, <1>9, <1>10

\* The trace is the only thing PublishTrace changes for the others, and it only grows.
LEMMA PublishTraceKeeps ==
    ASSUME BrowseInv, NEW p \in Procs, PublishTrace(p)
    PROVE  BrowseInv'
<1>0. /\ up' = up /\ log' = log /\ state' = state
      /\ used' = used /\ current' = current /\ cycle' = cycle /\ crashes' = crashes
      /\ pending' = pending /\ doing' = doing
      /\ UNCHANGED <<driverVars, state, current, cycle, crashes>>
  BY DEF PublishTrace, driverVars
<1>1. client[p] \in Clients /\ CommandOK(p, client[p]) /\ client[p].at = "publish"
  BY DEF BrowseInv, Types, PublishTrace, At
<1>2. CASE Leave(p) /\ UNCHANGED <<lockHolder, trace>>
  BY <1>0, <1>2, Leaves DEF driverVars, diskVars
<1>3. Holding(client[p])
  BY <1>1 DEF Holding
<1>4. PICK s \in Sessions : s = client[p].session
  BY <1>3, ReplyFacts
<1> DEFINE r == client[p].reply
           new == IF IsPrefix(trace[s], r.log) THEN r.log ELSE trace[s]
           c == [client[p] EXCEPT !.at = "state"]
<1>5. CASE /\ lockHolder = None /\ Fits(s, client[p].copy.head, r)
           /\ Acquire(p) /\ Goto(p, "state")
           /\ trace' = [trace EXCEPT ![s] = IF IsPrefix(trace[s], r.log) THEN r.log ELSE @]
  <2>1. /\ new \in Seq(Events) /\ EndIsLast(new)
        /\ IsPrefix(trace[s], new) /\ IsPrefix(r.log, new)
        /\ up[s] => IsPrefix(new, log[s])
        /\ r.seal => new = r.log
        /\ state[s].seal # None => new = trace[s] /\ r.log = state[s].seal
    <3>1. PICK n : n = new
      OBVIOUS
    <3>2. QED
      BY <1>1, <1>4, <1>5, <3>1, FitsFacts
  <2>2. trace' = [trace EXCEPT ![s] = new]
    BY <1>5
  <2> HIDE DEF new
  <2>3. trace'[s] = new /\ \A t \in Sessions \ {s} : trace'[t] = trace[t]
    BY <2>2 DEF BrowseInv, Types
  <2>4. client' = [client EXCEPT ![p] = c]
    BY <1>5 DEF Goto
  <2>5. /\ c.at = "state" /\ c.session = s /\ c.copy = client[p].copy /\ c.for = client[p].for
        /\ c.verb = client[p].verb /\ c.reply = r /\ c \in Clients
    BY <1>1, <1>4 DEF Clients, Points
  <2> HIDE DEF c
  <2>6. client'[p] = c /\ \A q \in Procs \ {p} : client'[q] = client[q]
    BY <2>4 DEF BrowseInv, Types
  <2>7. lockHolder = None /\ lockHolder' = p
    BY <1>5 DEF Acquire
  <2>8. Types'
    <3>1. client' \in [Procs -> Clients] /\ trace' \in [Sessions -> Seq(Events)]
      BY <2>1, <2>2, <2>4, <2>5 DEF BrowseInv, Types
    <3>2. QED
      BY <1>0, <2>7, <3>1 DEF BrowseInv, Types
  <2>9. state[s] # None /\ state[s].connected
    BY <1>3, <1>4, ReplyFacts, BrowseAssumption
  <2>10. ASSUME NEW t \in Sessions PROVE SessionOK(t)'
    <3>1. CASE t = s
      <4>1. SessionOK(t)
        BY DEF BrowseInv
      <4>2. NotConnected(t)'
        BY <1>0, <2>9, <3>1 DEF NotConnected
      <4>3. Driver(t)'
        BY <1>0, <2>1, <2>3, <3>1, <4>1 DEF SessionOK, Driver
      <4>4. Acked(t)'
        <5>1. Acknowledged(t) \in Seq(Events) /\ trace[t] \in Seq(Events)
          <6>1. log[t] \in Seq(Events) /\ Len(log[t]) \in Nat
            BY DEF BrowseInv, Types
          <6>2. ASSUME pending[t] # None
                PROVE  SubSeq(log[t], 1, pending[t].first - 1) \in Seq(Events)
            <7>1. pending[t].first \in 1..(Len(log[t]) + 1)
              BY <4>1, <6>2 DEF SessionOK, Driver
            <7>2. pending[t].first - 1 \in 0..Len(log[t])
              BY <6>1, <7>1
            <7>3. QED
              BY <6>1, <7>2
          <6>3. QED
            BY <6>1, <6>2 DEF Acknowledged, BrowseInv, Types
        <5>2. up[t] => IsPrefix(Acknowledged(t), trace[t])
          BY <4>1 DEF SessionOK, Acked
        <5>3. up[t] => IsPrefix(Acknowledged(t), trace'[t])
          BY <2>1, <2>3, <3>1, <5>1, <5>2, PrefixTrans
        <5>4. Acknowledged(t)' = Acknowledged(t)
          BY <1>0 DEF Acknowledged
        <5>5. QED
          BY <1>0, <5>3, <5>4 DEF Acked
      <4>5. Closed(t)'
        BY <1>0, <2>1, <2>3, <3>1, <4>1 DEF SessionOK, Closed
      <4>6. QED
        BY <4>2, <4>3, <4>4, <4>5 DEF SessionOK
    <3>2. CASE t # s
      BY <1>0, <2>3, <3>2, SessionFrame DEF BrowseInv
    <3>3. QED
      BY <3>1, <3>2
  <2>11. ASSUME NEW q \in Procs \ {p} PROVE CommandOK(q, client[q])'
    <3>1. Types /\ CommandOK(q, client[q])
      BY DEF BrowseInv
    <3>2. client[q].at \notin {"state", "budget"}
      BY <2>7, <3>1, ProjectLockAssumption DEF CommandOK, Writing
    <3>3. ASSUME NEW t \in Sessions PROVE Undisturbed(q, t)
      <4>1. IsPrefix(log[t], log[t]) /\ IsPrefix(trace[t], trace[t])
        BY PrefixRefl DEF BrowseInv, Types
      <4>2. IsPrefix(trace[t], trace'[t])
        BY <2>1, <2>3, <4>1
      <4>3. up'[t] => up[t]
        BY <1>0
      <4>4. QED
        BY <1>0, <3>2, <4>1, <4>2, <4>3 DEF Undisturbed
    <3>4. QED
      BY <2>6, <2>8, <3>1, <3>2, <3>3, CommandKeeps
  <2>12. CommandOK(p, client[p])'
    <3>1. Launched(client[p])' /\ Served(client[p])'
      BY <1>0, <1>1, <1>3, <1>4, <2>5, <2>6 DEF CommandOK, Launched, Served, Launching, Serving,
                                              Asking, Holding
    <3>2. Copied(client[p])'
      BY <1>1, <1>3, <2>5, <2>6 DEF CommandOK, Copied, Asking, Holding
    <3>3. Replied(p, client[p])'
      BY <1>0, <1>1, <1>3, <1>4, <2>1, <2>3, <2>5, <2>6 DEF CommandOK, Replied, Holding, Recovering
    <3>4. Writing(p, client[p])'
      BY <1>0, <2>1, <2>3, <2>5, <2>6, <2>7 DEF Writing
    <3>5. QED
      BY <3>1, <3>2, <3>3, <3>4 DEF CommandOK
  <2>13. OneLauncher'
    BY <2>5, <2>6 DEF BrowseInv, OneLauncher, Launching
  <2>14. QED
    BY <2>8, <2>10, <2>11, <2>12, <2>13 DEF BrowseInv
<1>6. QED
  BY <1>2, <1>4, <1>5 DEF PublishTrace

LEMMA PublishStateKeeps ==
    ASSUME BrowseInv, NEW p \in Procs, PublishState(p)
    PROVE  BrowseInv'
<1>0. /\ lockHolder' = lockHolder /\ up' = up /\ log' = log /\ trace' = trace
      /\ used' = used /\ current' = current /\ cycle' = cycle /\ crashes' = crashes
      /\ pending' = pending /\ doing' = doing
  BY DEF PublishState, driverVars
<1>1. client[p] \in Clients /\ CommandOK(p, client[p]) /\ client[p].at = "state"
  BY DEF BrowseInv, Types, PublishState, At
<1>2. Holding(client[p])
  BY <1>1 DEF Holding
<1>3. PICK s \in Sessions : s = client[p].session
  BY <1>2, ReplyFacts
<1> DEFINE r == client[p].reply
           x == IF r.checkpoint THEN [log |-> r.log, used |-> r.used] ELSE state[s].checkpoint
           y == IF r.seal THEN r.log ELSE state[s].seal
           n == [state[s] EXCEPT !.head = r.log, !.checkpoint = x, !.seal = y]
           c == [client[p] EXCEPT !.at = "budget", !.copy = n]
<1>4. /\ state[s] \in States /\ state[s].connected /\ r \in Replies /\ r.log \in Seq(Events)
      /\ EndIsLast(r.log) /\ (r.seal <=> Ended(r.log))
  BY <1>2, <1>3, ReplyFacts
<1>5. state[s] # None /\ SessionOK(s)
  BY <1>4, BrowseAssumption DEF BrowseInv
<1>6. /\ lockHolder = p
      /\ r.seal => trace[s] = r.log
      /\ state[s].seal # None => r.log = state[s].seal
  BY <1>1, <1>3 DEF CommandOK, Writing
<1>7. x \in [log : Seq(Events), used : Nat] \cup {None} /\ y \in Seq(Events) \cup {None}
  BY <1>4 DEF States, Replies
<1>8. /\ x # None => (r.checkpoint /\ x.log = r.log) \/ x = state[s].checkpoint
      /\ y = None => ~r.seal /\ state[s].seal = None
      /\ y # None => y = trace[s] /\ r.log = trace[s] /\ Ended(trace[s])
  <2>1. r.log # None
    BY <1>4, BrowseAssumption
  <2>2. r.seal \in BOOLEAN
    BY <1>4 DEF Replies
  <2>3. state[s].seal # None => state[s].seal = trace[s] /\ Ended(trace[s])
    BY <1>5 DEF SessionOK, Closed
  <2>4. r.seal => Ended(r.log)
    BY <1>4
  <2>5. CASE r.seal
    BY <1>6, <2>1, <2>4, <2>5
  <2>6. CASE ~r.seal
    BY <1>6, <2>3, <2>6
  <2>7. QED
    BY <2>5, <2>6
<1>9. state' = [state EXCEPT ![s] = n] /\ client' = [client EXCEPT ![p] = c]
  BY <1>3 DEF PublishState
<1> HIDE DEF x, y
<1>10. n \in States /\ n.connected /\ n.head = r.log /\ n.checkpoint = x /\ n.seal = y
  BY <1>4, <1>7 DEF States
<1>11. n # None
  BY <1>10, BrowseAssumption
<1> HIDE DEF n
<1>12. /\ c.at = "budget" /\ c.session = s /\ c.copy = n /\ c.for = client[p].for
       /\ c.verb = client[p].verb /\ c.reply = r /\ c \in Clients
  BY <1>1, <1>3, <1>10 DEF Clients, Points
<1> HIDE DEF c
<1>13. client'[p] = c /\ \A q \in Procs \ {p} : client'[q] = client[q]
  BY <1>9 DEF BrowseInv, Types
<1>14. state'[s] = n /\ \A t \in Sessions \ {s} : state'[t] = state[t]
  BY <1>9 DEF BrowseInv, Types
<1>15. Types'
  <2>1. client' \in [Procs -> Clients] /\ state' \in [Sessions -> States \cup {None}]
    BY <1>9, <1>10, <1>12 DEF BrowseInv, Types
  <2>2. QED
    BY <1>0, <2>1 DEF BrowseInv, Types
<1>16. n.seal = None => NoEnd(n.head) /\ (n.checkpoint # None => NoEnd(n.checkpoint.log))
  <2>1. SUFFICES ASSUME y = None
                 PROVE  NoEnd(r.log) /\ (x # None => NoEnd(x.log))
    BY <1>10
  <2>2. ~r.seal /\ state[s].seal = None
    BY <1>8, <2>1
  <2>3. NoEnd(r.log)
    BY <1>4, <2>2, NoEndIsOpen
  <2>4. state[s].checkpoint # None => NoEnd(state[s].checkpoint.log)
    BY <1>5, <2>2 DEF SessionOK, Closed
  <2>5. QED
    BY <1>8, <2>3, <2>4
<1>17. ASSUME NEW t \in Sessions PROVE SessionOK(t)'
  <2>1. CASE t = s
    <3>1. Driver(t)' /\ Acked(t)'
      BY <1>0, <1>5, <2>1 DEF SessionOK, Driver, Acked, Acknowledged
    <3>2. NotConnected(t)'
      BY <1>10, <1>11, <1>14, <2>1 DEF NotConnected
    <3>3. Closed(t)'
      BY <1>0, <1>5, <1>8, <1>10, <1>14, <1>16, <2>1 DEF SessionOK, Closed
    <3>4. QED
      BY <3>1, <3>2, <3>3 DEF SessionOK
  <2>2. CASE t # s
    BY <1>0, <1>14, <2>2, SessionFrame DEF BrowseInv
  <2>3. QED
    BY <2>1, <2>2
<1>18. ASSUME NEW q \in Procs \ {p} PROVE CommandOK(q, client[q])'
  <2>1. Types /\ CommandOK(q, client[q])
    BY DEF BrowseInv
  <2>2. client[q].at \notin {"state", "budget"}
    BY <1>6, <2>1 DEF CommandOK, Writing
  <2>3. ASSUME NEW t \in Sessions PROVE Undisturbed(q, t)
    <3>1. IsPrefix(log[t], log[t]) /\ IsPrefix(trace[t], trace[t])
      BY PrefixRefl DEF BrowseInv, Types
    <3>2. \/ state'[t] = state[t]
          \/ state[t] # None /\ state[t].connected /\ state'[t] # None /\ state'[t].connected
      BY <1>4, <1>5, <1>10, <1>11, <1>14
    <3>3. up'[t] => up[t]
      BY <1>0
    <3>4. QED
      BY <1>0, <2>2, <3>1, <3>2, <3>3 DEF Undisturbed
  <2>4. QED
    BY <1>13, <1>15, <2>1, <2>2, <2>3, CommandKeeps
<1>19. CommandOK(p, client[p])'
  <2>1. Launched(client[p])'
    BY <1>12, <1>13 DEF Launched, Launching
  <2>2. Served(client[p])'
    BY <1>10, <1>11, <1>12, <1>13, <1>14 DEF Served, Serving, Asking, Holding
  <2>3. Copied(client[p])'
    BY <1>1, <1>2, <1>11, <1>12, <1>13, <1>16 DEF CommandOK, Copied, Asking, Holding
  <2>4. Replied(p, client[p])'
    BY <1>0, <1>1, <1>2, <1>3, <1>12, <1>13 DEF CommandOK, Replied, Holding, Recovering
  <2>5. Writing(p, client[p])'
    BY <1>0, <1>6, <1>12, <1>13 DEF Writing
  <2>6. QED
    BY <2>1, <2>2, <2>3, <2>4, <2>5 DEF CommandOK
<1>20. OneLauncher'
  BY <1>12, <1>13 DEF BrowseInv, OneLauncher, Launching
<1>21. QED
  BY <1>15, <1>17, <1>18, <1>19, <1>20 DEF BrowseInv

-----------------------------------------------------------------------------
(* Recording.                                                              *)

LEMMA Extends ==
    ASSUME NEW l \in Seq(Events), NEW t \in Seq(Events), NoEnd(l), EndIsLast(t),
           \A i \in 1..Len(l) : l[i] \in Recordables,
           \A i \in 1..Len(t) : t[i] \in Recordables
    PROVE  /\ EndIsLast(l \o t)
           /\ \A i \in 1..Len(l \o t) : (l \o t)[i] \in Recordables
           /\ t # <<>> => (Ended(l \o t) <=> Ended(t))
<1>1. l \o t \in Seq(Events) /\ Len(l \o t) = Len(l) + Len(t)
      /\ (\A i \in 1..Len(l) : (l \o t)[i] = l[i])
      /\ (\A i \in 1..Len(t) : (l \o t)[Len(l) + i] = t[i])
  OBVIOUS
<1>2. PICK u \in Seq(Events) : u = l \o t
  BY <1>1
<1>3. Len(l) \in Nat /\ Len(t) \in Nat /\ Len(u) = Len(l) + Len(t)
      /\ (\A i \in 1..Len(l) : u[i] = l[i])
      /\ (\A i \in 1..Len(t) : u[Len(l) + i] = t[i])
  BY <1>1, <1>2
<1>4. ASSUME NEW i \in 1..Len(u)
      PROVE  \/ i \in 1..Len(l) /\ u[i] = l[i]
             \/ i - Len(l) \in 1..Len(t) /\ u[i] = t[i - Len(l)]
  <2>1. CASE i \in 1..Len(l)
    BY <1>3, <2>1
  <2>2. CASE i \notin 1..Len(l)
    <3>1. PICK j \in 1..Len(t) : i = Len(l) + j
      <4>1. i - Len(l) \in 1..Len(t) /\ i = Len(l) + (i - Len(l))
        BY <1>3, <2>2
      <4>2. QED
        BY <4>1
    <3>2. QED
      BY <1>3, <3>1
  <2>3. QED
    BY <2>1, <2>2
<1>5. EndIsLast(u)
  <2>1. SUFFICES ASSUME NEW i \in 1..Len(u), u[i] \in Ends PROVE i = Len(u)
    BY DEF EndIsLast
  <2>2. i - Len(l) \in 1..Len(t) /\ t[i - Len(l)] \in Ends
    BY <1>4, <2>1 DEF NoEnd
  <2>3. i - Len(l) = Len(t)
    BY <2>2 DEF EndIsLast
  <2>4. QED
    BY <1>3, <2>3
<1>6. \A i \in 1..Len(u) : u[i] \in Recordables
  BY <1>4
<1>7. ASSUME t # <<>> PROVE Ended(u) <=> Ended(t)
  <2>1. Len(t) \in 1..Len(t)
    BY <1>3, <1>7, EmptySeq
  <2>2. u[Len(u)] = t[Len(t)] /\ u # <<>>
    BY <1>3, <2>1
  <2>3. QED
    BY <1>7, <2>2 DEF Ended
<1>8. QED
  BY <1>2, <1>5, <1>6, <1>7

LEMMA ShortLogs ==
    /\ \A e \in Recordables :
          /\ <<e>> \in Seq(Events) /\ <<e>> # <<>> /\ EndIsLast(<<e>>)
          /\ \A i \in 1..Len(<<e>>) : <<e>>[i] \in Recordables
          /\ Ended(<<e>>) <=> e = "end"
    /\ <<"act", "keep">> \in Seq(Events) /\ <<"act", "keep">> # <<>>
    /\ EndIsLast(<<"act", "keep">>) /\ ~Ended(<<"act", "keep">>)
    /\ \A i \in 1..Len(<<"act", "keep">>) : <<"act", "keep">>[i] \in Recordables
<1>1. \A e \in Recordables : e \in Events /\ (e \in Ends <=> e = "end")
  BY BrowseAssumption DEF Recordables, Events, Ends
<1>2. ASSUME NEW e \in Recordables
      PROVE  /\ <<e>> \in Seq(Events) /\ <<e>> # <<>> /\ EndIsLast(<<e>>)
             /\ \A i \in 1..Len(<<e>>) : <<e>>[i] \in Recordables
             /\ Ended(<<e>>) <=> e = "end"
  <2>1. Len(<<e>>) = 1 /\ <<e>>[1] = e /\ <<e>> # <<>> /\ <<e>> \in Seq(Events)
    BY <1>1
  <2>2. QED
    BY <1>1, <2>1 DEF EndIsLast, Ended
<1>3. "act" \in Recordables /\ "keep" \in Recordables
  BY DEF Recordables
<1>4. /\ <<"act", "keep">> \in Seq(Events) /\ Len(<<"act", "keep">>) = 2
      /\ <<"act", "keep">>[1] = "act" /\ <<"act", "keep">>[2] = "keep"
  BY <1>1, <1>3
<1>5. "act" \notin Ends /\ "keep" \notin Ends
  BY <1>1, <1>3
<1>6. EndIsLast(<<"act", "keep">>) /\ ~Ended(<<"act", "keep">>)
  BY <1>4, <1>5 DEF EndIsLast, Ended
<1>7. QED
  BY <1>2, <1>3, <1>4, <1>6

\* What one action records keeps the end last, and ends the log exactly when it was asked to.
LEMMA RecordingFacts ==
    ASSUME BrowseInv, NEW s \in Sessions, NEW verb \in Verbs \cup {"start"},
           NEW done \in Recordings(s, verb)
    PROVE  /\ done.events \in Seq(Events) /\ done.checkpoint \in BOOLEAN
           /\ EndIsLast(log[s] \o done.events)
           /\ \A i \in 1..Len(log[s] \o done.events) : (log[s] \o done.events)[i] \in Recordables
           /\ done.events # <<>> \/ verb = "end" =>
                 (verb = "end" <=> Ended(log[s] \o done.events))
<1>1. log[s] \in Seq(Events) /\ EndIsLast(log[s])
      /\ \A i \in 1..Len(log[s]) : log[s][i] \in Recordables
  BY DEF BrowseInv, Types, SessionOK, Driver
<1>2. Sealed(s) <=> Ended(log[s])
  <2>1. log[s] # <<>> => Len(log[s]) \in 1..Len(log[s])
    BY <1>1, EmptySeq
  <2>2. log[s] # <<>> => (log[s][Len(log[s])] \in Ends <=> log[s][Len(log[s])] = "end")
    BY <1>1, <2>1, BrowseAssumption DEF Recordables, Ends
  <2>3. QED
    BY <2>2 DEF Sealed, Ended, Last
<1>3. CASE done = Refused /\ (verb = "end" => Sealed(s))
  <2>1. done.events = <<>> /\ done.checkpoint = FALSE
    BY <1>3 DEF Refused
  <2>2. log[s] \o done.events = log[s]
    BY <1>1, <2>1
  <2>3. <<>> \in Seq(Events)
    OBVIOUS
  <2>4. QED
    BY <1>1, <1>2, <1>3, <2>1, <2>2, <2>3
<1>4. ASSUME ~Sealed(s), NEW t, done.events = t, done.checkpoint \in BOOLEAN,
             \/ t = <<"act", "keep">> /\ verb # "end"
             \/ \E e \in Recordables : t = <<e>> /\ (verb = "end" <=> e = "end")
      PROVE  /\ done.events \in Seq(Events) /\ done.checkpoint \in BOOLEAN
             /\ EndIsLast(log[s] \o done.events)
             /\ \A i \in 1..Len(log[s] \o done.events) : (log[s] \o done.events)[i] \in Recordables
             /\ done.events # <<>> \/ verb = "end" =>
                   (verb = "end" <=> Ended(log[s] \o done.events))
  <2>1. NoEnd(log[s])
    BY <1>1, <1>2, <1>4, NoEndIsOpen
  <2>2. /\ t \in Seq(Events) /\ t # <<>> /\ EndIsLast(t)
        /\ \A i \in 1..Len(t) : t[i] \in Recordables
        /\ Ended(t) <=> verb = "end"
    BY <1>4, ShortLogs
  <2>3. /\ EndIsLast(log[s] \o t)
        /\ \A i \in 1..Len(log[s] \o t) : (log[s] \o t)[i] \in Recordables
        /\ Ended(log[s] \o t) <=> Ended(t)
    BY <1>1, <2>1, <2>2, Extends
  <2>4. QED
    BY <1>4, <2>2, <2>3
<1>5. CASE Sealed(s) \/ (verb # "end" /\ Len(log[s]) >= MaxEvents)
  BY <1>3, <1>5 DEF Recordings
<1>6. CASE ~(Sealed(s) \/ (verb # "end" /\ Len(log[s]) >= MaxEvents))
  <2>1. CASE verb = "end"
    <3>1. done = Recorded(<<"end">>)
      BY <1>6, <2>1 DEF Recordings
    <3>2. done.events = <<"end">> /\ done.checkpoint = TRUE /\ "end" \in Recordables
      BY <3>1 DEF Recorded, Recordables
    <3>3. QED
      BY <1>4, <1>6, <2>1, <3>2
  <2>2. CASE verb = "start"
    <3>1. done = Recorded(<<"start">>)
      BY <1>6, <2>2 DEF Recordings
    <3>2. done.events = <<"start">> /\ done.checkpoint = TRUE /\ "start" \in Recordables
      BY <3>1 DEF Recorded, Recordables
    <3>3. QED
      BY <1>4, <1>6, <2>2, <3>2
  <2>3. CASE verb = "browse"
    <3>1. done = Refused \/ done = Recorded(<<"act">>)
      BY <1>6, <2>3 DEF Recordings
    <3>2. CASE done = Recorded(<<"act">>)
      <4>1. done.events = <<"act">> /\ done.checkpoint = TRUE /\ "act" \in Recordables
        BY <3>2 DEF Recorded, Recordables
      <4>2. QED
        BY <1>4, <1>6, <2>3, <4>1
    <3>3. QED
      BY <1>3, <2>3, <3>1, <3>2
  <2>4. CASE verb = "keep"
    <3>1. \/ done = Recorded(<<"keep">>)
          \/ done = [events |-> <<"act">>, checkpoint |-> FALSE]
          \/ done = Recorded(<<"act", "keep">>)
      BY <1>6, <2>4 DEF Recordings
    <3>2. done.checkpoint \in BOOLEAN
          /\ done.events \in {<<"keep">>, <<"act">>, <<"act", "keep">>}
      <4>1. CASE done = Recorded(<<"keep">>)
        BY <4>1 DEF Recorded
      <4>2. CASE done = [events |-> <<"act">>, checkpoint |-> FALSE]
        BY <4>2
      <4>3. CASE done = Recorded(<<"act", "keep">>)
        BY <4>3 DEF Recorded
      <4>4. QED
        BY <3>1, <4>1, <4>2, <4>3
    <3>3. "keep" \in Recordables /\ "act" \in Recordables
      BY DEF Recordables
    <3>4. QED
      BY <1>4, <1>6, <2>4, <3>2, <3>3
  <2>5. QED
    BY <2>1, <2>2, <2>3, <2>4, BrowseAssumption
<1>7. QED
  BY <1>5, <1>6

LEMMA ExecuteKeeps ==
    ASSUME BrowseInv, NEW s \in Sessions, Execute(s)
    PROVE  BrowseInv'
<1>0. /\ lockHolder' = lockHolder /\ up' = up /\ trace' = trace /\ state' = state
      /\ current' = current /\ cycle' = cycle /\ crashes' = crashes
      /\ doing' = [doing EXCEPT ![s] = None] /\ up[s] /\ doing[s] # None
  BY DEF Execute, diskVars
<1>1. /\ doing[s] \in Procs \X (Verbs \cup {"start"}) /\ log[s] \in Seq(Events)
      /\ used[s] \in Nat /\ trace[s] \in Seq(Events) /\ SessionOK(s)
  BY <1>0 DEF BrowseInv, Types
<1>2. PICK p \in Procs, verb \in Verbs \cup {"start"} : doing[s][1] = p /\ doing[s][2] = verb
  BY <1>1
<1>3. pending[s] = None /\ state[s] # None /\ state[s].connected /\ IsPrefix(trace[s], log[s])
      /\ IsPrefix(log[s], trace[s])
  BY <1>0, <1>1 DEF SessionOK, Driver, NotConnected, Acked, Acknowledged
<1>4. PICK done \in Recordings(s, doing[s][2]) :
         LET reply == [log |-> log[s] \o done.events, first |-> Len(log[s]) + 1,
                       checkpoint |-> done.checkpoint, seal |-> doing[s][2] = "end",
                       used |-> used[s] + IF "act" \in Range(done.events) THEN 1 ELSE 0]
             told == done.events # <<>> \/ reply.seal
         IN /\ log' = [log EXCEPT ![s] = reply.log]
            /\ used' = [used EXCEPT ![s] = reply.used]
            /\ pending' = [pending EXCEPT ![s] = IF told THEN reply ELSE None]
            /\ IF At(doing[s][1], "wait") /\ client[doing[s][1]].session = s
                 THEN IF told
                        THEN client' = [client EXCEPT ![doing[s][1]].at = "publish",
                                          ![doing[s][1]].for = "action",
                                          ![doing[s][1]].reply = reply]
                        ELSE Leave(doing[s][1])
                 ELSE UNCHANGED client
  BY DEF Execute
<1>5. /\ done.events \in Seq(Events) /\ done.checkpoint \in BOOLEAN
      /\ EndIsLast(log[s] \o done.events)
      /\ \A i \in 1..Len(log[s] \o done.events) : (log[s] \o done.events)[i] \in Recordables
      /\ done.events # <<>> \/ verb = "end" =>
            (verb = "end" <=> Ended(log[s] \o done.events))
  BY <1>2, RecordingFacts
<1>6. /\ log[s] \o done.events \in Seq(Events)
      /\ Len(log[s] \o done.events) = Len(log[s]) + Len(done.events)
      /\ IsPrefix(log[s], log[s] \o done.events)
      /\ SubSeq(log[s] \o done.events, 1, Len(log[s])) = log[s]
  BY <1>1, <1>5, PrefixGrows
<1>7. PICK u \in Seq(Events) : u = log[s] \o done.events
  BY <1>6
<1>8. PICK k \in Nat : k = used[s] + IF "act" \in Range(done.events) THEN 1 ELSE 0
  BY <1>1
<1>9. PICK f \in Nat : f = Len(log[s]) + 1
  BY <1>1
<1>10. PICK b \in BOOLEAN : b = (verb = "end")
  OBVIOUS
<1> DEFINE r == [log |-> u, first |-> f, checkpoint |-> done.checkpoint, seal |-> b, used |-> k]
           told == done.events # <<>> \/ b
<1>11. /\ log' = [log EXCEPT ![s] = u]
       /\ used' = [used EXCEPT ![s] = k]
       /\ pending' = [pending EXCEPT ![s] = IF told THEN r ELSE None]
       /\ IF At(p, "wait") /\ client[p].session = s
            THEN IF told
                   THEN client' = [client EXCEPT ![p].at = "publish",
                                     ![p].for = "action", ![p].reply = r]
                   ELSE Leave(p)
            ELSE UNCHANGED client
  BY <1>2, <1>4, <1>7, <1>8, <1>9, <1>10
<1>12. /\ r \in Replies /\ r.log = u /\ r.first = f /\ r.seal = b /\ r # None
  <2>1. r \in Replies /\ r.log = u /\ r.first = f /\ r.seal = b
    BY <1>5 DEF Replies
  <2>2. QED
    BY <2>1, BrowseAssumption
<1>13. /\ EndIsLast(u) /\ \A i \in 1..Len(u) : u[i] \in Recordables
       /\ IsPrefix(log[s], u) /\ SubSeq(u, 1, Len(log[s])) = log[s]
       /\ f \in 1..(Len(u) + 1) /\ f - 1 = Len(log[s])
       /\ told => (b <=> Ended(u))
       /\ ~told => u = log[s]
  <2>1. Len(u) = Len(log[s]) + Len(done.events) /\ Len(log[s]) \in Nat /\ Len(done.events) \in Nat
    BY <1>1, <1>5, <1>6, <1>7
  <2>2. f \in 1..(Len(u) + 1) /\ f - 1 = Len(log[s])
    <3>1. PICK m \in Nat, n \in Nat : m = Len(log[s]) /\ n = Len(done.events)
      BY <2>1
    <3>2. f = m + 1 /\ Len(u) = m + n
      BY <1>9, <2>1, <3>1
    <3>3. m + 1 \in 1..(m + n + 1) /\ (m + 1) - 1 = m
      OBVIOUS
    <3>4. QED
      BY <3>1, <3>2, <3>3
  <2>3. ~told => u = log[s]
    BY <1>1, <1>7, ConcatEmptySeq
  <2>4. told => (b <=> Ended(u))
    BY <1>5, <1>7, <1>10
  <2>5. QED
    BY <1>5, <1>6, <1>7, <2>2, <2>3, <2>4
<1> HIDE DEF r, told
<1>14. /\ log'[s] = u /\ pending'[s] = (IF told THEN r ELSE None) /\ doing'[s] = None
       /\ \A t \in Sessions \ {s} :
             log'[t] = log[t] /\ pending'[t] = pending[t] /\ doing'[t] = doing[t]
  BY <1>0, <1>11 DEF BrowseInv, Types
<1>15. \A t \in Sessions : IsPrefix(log[t], log'[t]) /\ IsPrefix(trace[t], trace'[t])
  BY <1>0, <1>13, <1>14, PrefixRefl DEF BrowseInv, Types
<1>16. ASSUME NEW t \in Sessions PROVE SessionOK(t)'
  <2>1. CASE t = s
    <3>1. IsPrefix(trace[s], u)
      BY <1>1, <1>3, <1>13, PrefixTrans
    <3>2. NotConnected(t)'
      BY <1>0, <1>3, <2>1 DEF NotConnected
    <3>3. Driver(t)'
      BY <1>0, <1>12, <1>13, <1>14, <2>1, <3>1 DEF Driver
    <3>4. Acknowledged(t)' = log[s]
      BY <1>12, <1>13, <1>14, <2>1 DEF Acknowledged
    <3>5. Acked(t)'
      BY <1>0, <1>3, <2>1, <3>4 DEF Acked
    <3>6. Closed(t)'
      BY <1>0, <1>1, <2>1 DEF SessionOK, Closed
    <3>7. QED
      BY <3>2, <3>3, <3>5, <3>6 DEF SessionOK
  <2>2. CASE t # s
    BY <1>0, <1>14, <2>2, SessionFrame DEF BrowseInv
  <2>3. QED
    BY <2>1, <2>2
<1> DEFINE c == [client[p] EXCEPT !.at = "publish", !.for = "action", !.reply = r]
<1>17. client[p] \in Clients /\ c \in Clients
  <2>1. client[p] \in Clients
    BY DEF BrowseInv, Types
  <2>2. c \in Clients
    BY <1>12, <2>1 DEF Clients, Points
  <2>3. QED
    BY <2>1, <2>2
<1>18. /\ c.at = "publish" /\ c.for = "action" /\ c.reply = r /\ c.session = client[p].session
       /\ c.copy = client[p].copy /\ c.verb = client[p].verb
  BY <1>17 DEF Clients
<1>19. \/ client' = client
       \/ client' = [client EXCEPT ![p] = Idle]
       \/ /\ client' = [client EXCEPT ![p] = c] /\ told
          /\ At(p, "wait") /\ client[p].session = s
  BY <1>11 DEF Leave
<1> HIDE DEF c
<1>20. \A q \in Procs \ {p} : client'[q] = client[q]
  BY <1>19 DEF BrowseInv, Types
<1>21. \/ client'[p] = client[p]
       \/ client'[p] = Idle
       \/ client'[p] = c /\ told /\ client[p].at = "wait" /\ client[p].session = s
  BY <1>19 DEF BrowseInv, Types, At
<1>22. Types'
  <2>1. client' \in [Procs -> Clients]
    <3>1. CASE client' = client
      BY <3>1 DEF BrowseInv, Types
    <3>2. CASE client' = [client EXCEPT ![p] = Idle]
      BY <3>2, IdleOK DEF BrowseInv, Types
    <3>3. CASE client' = [client EXCEPT ![p] = c]
      BY <3>3, <1>17 DEF BrowseInv, Types
    <3>4. QED
      BY <1>19, <3>1, <3>2, <3>3
  <2>2. log' \in [Sessions -> Seq(Events)] /\ used' \in [Sessions -> Nat]
    BY <1>11 DEF BrowseInv, Types
  <2>3. pending' \in [Sessions -> Replies \cup {None}]
    BY <1>11, <1>12 DEF BrowseInv, Types
  <2>4. doing' \in [Sessions -> (Procs \X (Verbs \cup {"start"})) \cup {None}]
    BY <1>0 DEF BrowseInv, Types
  <2>5. QED
    BY <1>0, <2>1, <2>2, <2>3, <2>4 DEF BrowseInv, Types
<1>23. ASSUME NEW q \in Procs, client'[q] = client[q] PROVE CommandOK(q, client[q])'
  <2>1. Types /\ CommandOK(q, client[q])
    BY DEF BrowseInv
  <2>2. ASSUME NEW t \in Sessions PROVE Undisturbed(q, t)
    <3>1. up'[t] => up[t]
      BY <1>0
    <3>2. QED
      BY <1>0, <1>15, <3>1 DEF Undisturbed
  <2>3. QED
    BY <1>0, <1>22, <1>23, <2>1, <2>2, CommandKeeps
<1>24. CommandOK(p, client[p])'
  <2>1. CASE client'[p] = client[p]
    BY <1>23, <2>1
  <2>2. CASE client'[p] = Idle
    <3>1. client'[p].at = "idle"
      BY <2>2 DEF Idle
    <3>2. QED
      BY <3>1 DEF CommandOK, Launched, Served, Copied, Replied, Writing, Launching, Serving,
                  Asking, Holding
  <2>3. CASE client'[p] = c /\ told /\ client[p].at = "wait" /\ client[p].session = s
    <3>1. CommandOK(p, client[p]) /\ Asking(client[p])
      BY <2>3 DEF BrowseInv, Asking
    <3>2. /\ client[p].copy # None /\ client[p].verb # "none" /\ client[p].copy.seal = None
          /\ NoEnd(client[p].copy.head)
      BY <3>1 DEF CommandOK, Copied
    <3>3. IsPrefix(r.log, log'[s]) /\ (r.seal <=> Ended(r.log))
      BY <1>12, <1>13, <1>14, <2>3, PrefixRefl
    <3>4. Launched(client[p])' /\ Served(client[p])'
      BY <1>0, <1>3, <1>18, <2>3 DEF Launched, Served, Launching, Serving, Asking, Holding
    <3>5. Copied(client[p])'
      BY <1>18, <2>3, <3>2 DEF Copied, Asking, Holding
    <3>6. Replied(p, client[p])'
      BY <1>12, <1>18, <2>3, <3>3 DEF Replied, Holding, Recovering
    <3>7. Writing(p, client[p])'
      BY <1>18, <2>3 DEF Writing
    <3>8. QED
      BY <3>4, <3>5, <3>6, <3>7 DEF CommandOK
  <2>4. QED
    BY <1>21, <2>1, <2>2, <2>3
<1>25. OneLauncher'
  <2>1. \A q \in Procs : Launching(client'[q]) => client'[q] = client[q]
    BY <1>18, <1>20, <1>21, IdleOK DEF Launching
  <2>2. QED
    BY <2>1 DEF BrowseInv, OneLauncher
<1>26. \A q \in Procs : CommandOK(q, client[q])'
  BY <1>20, <1>23, <1>24
<1>27. QED
  BY <1>16, <1>22, <1>25, <1>26 DEF BrowseInv

-----------------------------------------------------------------------------
(* The theorems.                                                           *)

LEMMA InitInv == Init => BrowseInv
<1> SUFFICES ASSUME Init PROVE BrowseInv
  OBVIOUS
<1>1. /\ \A s \in Sessions : up[s] = FALSE /\ log[s] = <<>> /\ pending[s] = None
            /\ doing[s] = None /\ trace[s] = <<>> /\ state[s] = None
      /\ \A p \in Procs : client[p] = Idle
  BY DEF Init
<1>2. <<>> \in Seq(Events)
  OBVIOUS
<1>3. Types
  <2>1. Idle \in Clients
    BY IdleOK
  <2>2. MaxCrashes \in Nat
    BY BrowseAssumption
  <2>3. QED
    BY <1>2, <2>1, <2>2 DEF Init, LockInit, Types
<1>4. ASSUME NEW s \in Sessions PROVE SessionOK(s)
  <2>1. NotConnected(s)
    BY <1>1 DEF NotConnected
  <2>2. Driver(s) /\ Acked(s) /\ Closed(s)
    BY <1>1, <1>2, EmptySeq DEF Driver, Acked, Closed, EndIsLast
  <2>3. QED
    BY <2>1, <2>2 DEF SessionOK
<1>5. \A p \in Procs : CommandOK(p, client[p])
  BY <1>1, IdleOK
<1>6. OneLauncher
  BY <1>1, IdleOK DEF OneLauncher
<1>7. QED
  BY <1>3, <1>4, <1>5, <1>6 DEF BrowseInv

LEMMA NextKeeps == BrowseInv /\ [Next]_vars => BrowseInv'
<1> SUFFICES ASSUME BrowseInv, [Next]_vars PROVE BrowseInv'
  OBVIOUS
<1>1. CASE UNCHANGED vars
  <2>1. /\ UNCHANGED <<lockHolder, up, log, used, pending, doing>>
        /\ UNCHANGED <<trace, state, current, cycle, client, crashes>>
    BY <1>1 DEF vars, driverVars, diskVars
  <2>2. Types'
    BY <2>1 DEF BrowseInv, Types
  <2>3. \A s \in Sessions : SessionOK(s)'
    BY <2>1, SessionFrame DEF BrowseInv
  <2>4. ASSUME NEW q \in Procs PROVE CommandOK(q, client[q])'
    BY <2>1 DEF BrowseInv, CommandOK, Launched, Served, Copied, Replied, Writing
  <2>5. OneLauncher'
    BY <2>1 DEF BrowseInv, OneLauncher
  <2>6. QED
    BY <2>2, <2>3, <2>4, <2>5 DEF BrowseInv
<1>2. ASSUME NEW p \in Procs, Step(p) PROVE BrowseInv'
  <2>1. CASE OpenSession(p)
    BY <2>1, OpenSessionKeeps
  <2>2. CASE Launch(p)
    BY <2>2, LaunchKeeps
  <2>3. CASE Connect(p)
    BY <2>3, ConnectKeeps
  <2>4. CASE Recover(p)
    BY <2>4, RecoverKeeps
  <2>5. CASE AskPending(p)
    BY <2>5, AskPendingKeeps
  <2>6. CASE Act(p)
    BY <2>6, ActKeeps
  <2>7. CASE Ack(p)
    BY <2>7, AckKeeps
  <2>8. CASE PublishTrace(p)
    BY <2>8, PublishTraceKeeps
  <2>9. CASE PublishState(p)
    BY <2>9, PublishStateKeeps
  <2>10. CASE PublishBudget(p)
    BY <2>10, PublishBudgetKeeps
  <2>11. CASE Finish(p)
    BY <2>11, FinishKeeps
  <2>12. CASE LockTaken(p)
    BY <2>12, Leaves DEF LockTaken
  <2>13. QED
    BY <1>2, <2>1, <2>2, <2>3, <2>4, <2>5, <2>6, <2>7, <2>8, <2>9, <2>10, <2>11, <2>12 DEF Step
<1>3. ASSUME NEW p \in Procs, Start(p) \/ Slow(p) PROVE BrowseInv'
  <2>1. CASE Start(p)
    BY <2>1, StartKeeps
  <2>2. CASE Slow(p)
    BY <2>2, Leaves DEF Slow
  <2>3. QED
    BY <1>3, <2>1, <2>2
<1>4. ASSUME NEW p \in Procs, Crash(p) PROVE BrowseInv'
  <2>1. Idle \in Clients /\ CommandOK(p, Idle) /\ ~Launching(Idle)
        /\ Idle.at \notin {"state", "budget"}
    BY IdleOK DEF Idle
  <2>2. PICK c \in Clients : c = Idle
    BY <2>1
  <2>3. client' = [client EXCEPT ![p] = c] /\ UNCHANGED <<driverVars, diskVars>>
    BY <1>4, <2>2 DEF Crash, Leave
  <2>4. crashes' \in 0..MaxCrashes
    BY <1>4, BrowseAssumption DEF Crash, BrowseInv, Types
  <2>5. lockHolder' = lockHolder \/ (lockHolder = p /\ lockHolder' = None)
    BY <1>4 DEF Crash, LetGo
  <2>6. lockHolder' \in Procs \cup {None}
    BY <2>5 DEF BrowseInv, Types
  <2>7. \A q \in Procs \ {p} :
           client[q].at \in {"state", "budget"} => lockHolder' = lockHolder
    BY <2>5 DEF BrowseInv, CommandOK, Writing
  <2>8. QED
    BY <2>1, <2>2, <2>3, <2>4, <2>6, <2>7, ClientMoves
<1>5. ASSUME NEW p \in Procs, NEW v \in Verbs, NEW s \in Sessions, Command(p, v, s)
      PROVE  BrowseInv'
  BY <1>5, CommandKeepsInv
<1>6. ASSUME NEW s \in Sessions, Execute(s) \/ DriverDies(s) PROVE BrowseInv'
  <2>1. CASE Execute(s)
    BY <2>1, ExecuteKeeps
  <2>2. CASE DriverDies(s)
    BY <2>2, DriverDiesKeeps
  <2>3. QED
    BY <1>6, <2>1, <2>2
<1>7. QED
  BY <1>1, <1>2, <1>3, <1>4, <1>5, <1>6 DEF Next

\* The invariant all the theorems rest on: the trace on disk is of the driver's log, a reply is
\* of the log it was taken from, a recovery's reply outlives no driver, and only the command
\* that holds the lock is between the trace and the budget.
THEOREM BrowseInvariant == Spec => []BrowseInv
BY InitInv, NextKeeps, PTL DEF Spec

\* The variables of the drivers, the files and the commands keep their types.
THEOREM TypeCorrect == Spec => []TypeOK
<1> DEFINE TornOK == torn \in [Sessions -> Seq(Events) \cup {None}]
<1>1. BrowseInv /\ TornOK => TypeOK
  BY DEF BrowseInv, Types, TypeOK, Clients
<1>2. Init => TornOK
  BY DEF Init
<1>3. ASSUME BrowseInv, TornOK, [Next]_vars PROVE TornOK'
  <2>1. CASE torn' = torn
    BY <1>3, <2>1
  <2>2. ASSUME NEW p \in Procs, Crash(p), torn' # torn PROVE TornOK'
    <3>1. /\ client[p].at \in {"publish", "state"} /\ client[p].session \in Sessions \cup {None}
          /\ client[p].for \in {"pending", "action"}
          /\ torn' = [torn EXCEPT ![client[p].session] = client[p].reply.log]
      BY <1>3, <2>2 DEF Crash, Unwritten, At, BrowseInv, Types, Clients
    <3>2. client[p].reply \in Replies
      BY <1>3, <3>1 DEF BrowseInv, CommandOK, Replied, Holding, Types, Clients
    <3>3. client[p].reply.log \in Seq(Events)
      BY <3>2 DEF Replies
    <3>4. QED
      BY <1>3, <3>1, <3>3
  <2>3. torn' = torn \/ \E p \in Procs : Crash(p)
    <3>1. ASSUME NEW p \in Procs, Step(p) PROVE torn' = torn
      BY <3>1 DEF Step, OpenSession, Launch, Connect, Recover, AskPending, Act, Ack,
         PublishTrace, PublishState, PublishBudget, Finish, LockTaken
    <3>2. ASSUME NEW p \in Procs, Start(p) \/ Slow(p) PROVE torn' = torn
      BY <3>2 DEF Start, Slow
    <3>3. ASSUME NEW p \in Procs, NEW v \in Verbs, NEW s \in Sessions, Command(p, v, s)
          PROVE  torn' = torn
      BY <3>3 DEF Command
    <3>4. ASSUME NEW s \in Sessions, Execute(s) \/ DriverDies(s) PROVE torn' = torn
      BY <3>4 DEF Execute, DriverDies
    <3>5. UNCHANGED vars => torn' = torn
      BY DEF vars
    <3>6. QED
      BY <1>3, <3>1, <3>2, <3>3, <3>4, <3>5 DEF Next
  <2>4. QED
    BY <2>1, <2>2, <2>3
<1>4. QED
  BY <1>1, <1>2, <1>3, BrowseInvariant, PTL DEF Spec

\* An acknowledgement never outruns the publication, for any number of commands and sessions.
THEOREM AckedPublished == Spec => []AckedIsPublished
<1>1. BrowseInv => AckedIsPublished
  BY DEF BrowseInv, SessionOK, Acked, Acknowledged, AckedIsPublished
<1>2. QED
  BY <1>1, BrowseInvariant, PTL

\* What an interrupted publication left pending can be published again.
THEOREM PendingRedoable == Spec => []PublicationRedoable
<1>1. ASSUME BrowseInv PROVE PublicationRedoable
  <2>1. SUFFICES ASSUME NEW s \in Sessions, up[s], pending[s] # None, torn[s] = None
                 PROVE  Fits(s, state[s].head, pending[s])
    BY DEF PublicationRedoable
  <2>2. /\ pending[s] \in Replies /\ log[s] \in Seq(Events) /\ trace[s] \in Seq(Events)
        /\ pending[s].log = log[s] /\ pending[s].first \in 1..(Len(log[s]) + 1)
        /\ IsPrefix(trace[s], log[s])
        /\ IsPrefix(SubSeq(log[s], 1, pending[s].first - 1), trace[s])
    BY <1>1, <2>1 DEF BrowseInv, Types, SessionOK, Driver, Acked, Acknowledged
  <2>3. PICK m \in 0..Len(log[s]) : m = pending[s].first - 1
    BY <2>2
  <2>4. SubSeq(log[s], 1, m) \in Seq(Events) /\ Len(SubSeq(log[s], 1, m)) = m
    BY <2>2, <2>3
  <2>5. m <= Len(trace[s])
    <3>1. PICK u \in Seq(Events) : u = SubSeq(log[s], 1, m)
      BY <2>4
    <3>2. IsPrefix(u, trace[s]) /\ Len(u) = m
      BY <2>2, <2>3, <2>4, <3>1
    <3>3. QED
      BY <2>2, <3>1, <3>2, PrefixMeans
  <2>6. Len(trace[s]) + 1 >= pending[s].first
    BY <2>2, <2>3, <2>5
  <2>7. torn[s] # pending[s].log
    BY <2>1, <2>2, BrowseAssumption
  <2>8. QED
    BY <2>2, <2>6, <2>7 DEF Fits
<1>2. QED
  BY <1>1, BrowseInvariant, PTL

\* No step takes an event out of a trace.
LEMMA GrowsStep ==
    ASSUME BrowseInv, [Next]_vars, NEW s \in Sessions
    PROVE  IsPrefix(trace[s], trace'[s])
<1>1. trace[s] \in Seq(Events) /\ IsPrefix(trace[s], trace[s])
  BY PrefixRefl DEF BrowseInv, Types
<1>2. CASE trace' = trace
  BY <1>1, <1>2
<1>3. ASSUME NEW p \in Procs, PublishTrace(p), trace' # trace
      PROVE  IsPrefix(trace[s], trace'[s])
  <2>1. PICK t \in Sessions :
           t = client[p].session /\ Fits(t, client[p].copy.head, client[p].reply)
           /\ trace' = [trace EXCEPT ![t] = IF IsPrefix(trace[t], client[p].reply.log)
                                              THEN client[p].reply.log ELSE @]
    <3>1. client[p].session \in Sessions
      BY <1>3, ReplyFacts DEF PublishTrace, At, Holding
    <3>2. QED
      BY <1>3, <3>1 DEF PublishTrace
  <2>2. QED
    BY <1>1, <2>1 DEF BrowseInv, Types
<1>4. trace' = trace \/ \E p \in Procs : PublishTrace(p)
  BY DEF Next, Step, vars, diskVars, OpenSession, Launch, Connect, Recover, AskPending, Act,
     Ack, PublishState, PublishBudget, Finish, LockTaken, Start, Slow, Crash, Command, Execute,
     DriverDies
<1>5. QED
  BY <1>2, <1>3, <1>4

\* The trace of every session only grows.
THEOREM TraceGrows == Spec => TraceOnlyGrows
<1>1. BrowseInv /\ [Next]_vars => [\A s \in Sessions : IsPrefix(trace[s], trace'[s])]_vars
  BY GrowsStep
<1>2. QED
  BY <1>1, BrowseInvariant, PTL DEF Spec, TraceOnlyGrows

\* Who writes the trace or the state of a session.
LEMMA FilesWritten ==
    ASSUME [Next]_vars
    PROVE  \/ trace' = trace /\ state' = state
           \/ \E p \in Procs :
                 PublishTrace(p) \/ PublishState(p) \/ OpenSession(p) \/ Connect(p)
<1> DEFINE Same == trace' = trace /\ state' = state
           Writer(p) == PublishTrace(p) \/ PublishState(p) \/ OpenSession(p) \/ Connect(p)
<1>1. ASSUME NEW p \in Procs, Step(p) PROVE Same \/ Writer(p)
  BY <1>1 DEF Step, diskVars, Launch, Recover, AskPending, Act, Ack, PublishBudget, Finish,
     LockTaken
<1>2. ASSUME NEW p \in Procs, Start(p) \/ Slow(p) \/ Crash(p) PROVE Same
  BY <1>2 DEF Start, Slow, Crash, diskVars
<1>3. ASSUME NEW p \in Procs, NEW v \in Verbs, NEW s \in Sessions, Command(p, v, s) PROVE Same
  BY <1>3 DEF Command, diskVars
<1>4. ASSUME NEW s \in Sessions, Execute(s) \/ DriverDies(s) PROVE Same
  BY <1>4 DEF Execute, DriverDies, diskVars
<1>5. UNCHANGED vars => Same
  BY DEF vars, diskVars
<1> HIDE DEF Same, Writer
<1>6. Same \/ \E p \in Procs : Writer(p)
  BY <1>1, <1>2, <1>3, <1>4, <1>5 DEF Next
<1>7. QED
  BY <1>6 DEF Same, Writer

\* No step touches a sealed session.
LEMMA SealStep ==
    ASSUME BrowseInv, [Next]_vars, NEW s \in Sessions, state[s] # None, state[s].seal # None
    PROVE  state'[s] # None /\ state'[s].seal = state[s].seal /\ trace'[s] = trace[s]
<1>0. /\ state[s] \in States /\ trace[s] \in Seq(Events)
      /\ state[s].seal = trace[s] /\ state[s].head = trace[s] /\ Ended(trace[s])
  BY DEF BrowseInv, Types, SessionOK, Closed
<1>1. CASE trace' = trace /\ state' = state
  BY <1>1
<1>2. ASSUME NEW p \in Procs, PublishTrace(p), trace' # trace
      PROVE  state'[s] # None /\ state'[s].seal = state[s].seal /\ trace'[s] = trace[s]
  <2>1. state' = state
    BY <1>2 DEF PublishTrace
  <2>2. client[p].at = "publish" /\ Holding(client[p])
    BY <1>2 DEF PublishTrace, At, Holding
  <2>3. PICK t \in Sessions : t = client[p].session
    BY <2>2, ReplyFacts
  <2>4. PICK new : new = IF IsPrefix(trace[t], client[p].reply.log)
                           THEN client[p].reply.log ELSE trace[t]
    OBVIOUS
  <2>5. Fits(t, client[p].copy.head, client[p].reply) /\ trace' = [trace EXCEPT ![t] = new]
    BY <1>2, <2>3, <2>4 DEF PublishTrace
  <2>6. state[t].seal # None => new = trace[t]
    BY <2>2, <2>3, <2>4, <2>5, FitsFacts
  <2>7. QED
    BY <2>1, <2>5, <2>6 DEF BrowseInv, Types
<1>3. ASSUME NEW p \in Procs, PublishState(p)
      PROVE  state'[s] # None /\ state'[s].seal = state[s].seal /\ trace'[s] = trace[s]
  <2>1. trace' = trace /\ BrowseInv'
    BY <1>3, PublishStateKeeps DEF PublishState
  <2>2. state'[s] # None /\ state'[s].seal # None
    <3>1. client[p].at = "state" /\ Holding(client[p]) /\ CommandOK(p, client[p])
      BY <1>3 DEF PublishState, At, Holding, BrowseInv
    <3>2. PICK t \in Sessions : t = client[p].session
      BY <3>1, ReplyFacts
    <3>3. CASE t # s
      BY <1>3, <3>2, <3>3 DEF PublishState, BrowseInv, Types
    <3>4. CASE t = s
      <4> DEFINE r == client[p].reply
                 x == IF r.checkpoint THEN [log |-> r.log, used |-> r.used]
                                      ELSE state[s].checkpoint
                 y == IF r.seal THEN r.log ELSE state[s].seal
                 n == [state[s] EXCEPT !.head = r.log, !.checkpoint = x, !.seal = y]
      <4>1. r \in Replies /\ r.log \in Seq(Events)
        BY <3>1, ReplyFacts
      <4>2. x \in [log : Seq(Events), used : Nat] \cup {None} /\ y \in Seq(Events)
            /\ y # None
        BY <1>0, <4>1, BrowseAssumption DEF States, Replies
      <4>3. state' = [state EXCEPT ![s] = n]
        BY <1>3, <3>2, <3>4 DEF PublishState
      <4> HIDE DEF x, y
      <4>4. n \in States /\ n.seal = y
        BY <1>0, <4>1, <4>2 DEF States
      <4>5. n # None
        BY <4>4, BrowseAssumption
      <4> HIDE DEF n
      <4>6. state'[s] = n
        BY <4>3 DEF BrowseInv, Types
      <4>7. QED
        BY <4>2, <4>4, <4>5, <4>6
    <3>5. QED
      BY <3>3, <3>4
  <2>3. state'[s].seal = trace'[s]
    BY <2>1, <2>2 DEF BrowseInv, SessionOK, Closed
  <2>4. QED
    BY <1>0, <2>1, <2>2, <2>3
<1>4. ASSUME NEW p \in Procs, OpenSession(p) \/ Connect(p)
      PROVE  state'[s] # None /\ state'[s].seal = state[s].seal /\ trace'[s] = trace[s]
  <2>1. trace' = trace
    BY <1>4 DEF OpenSession, Connect
  <2>2. CASE OpenSession(p)
    BY <2>1, <2>2 DEF OpenSession, NewSession, BrowseInv, Types
  <2>3. CASE Connect(p)
    <3>1. state[client[p].session] = Fresh
      BY <2>3, LaunchingAlone DEF Connect, At, Launching
    <3>2. client[p].session # s
      BY <3>1, FreshFacts
    <3>3. QED
      BY <2>1, <2>3, <3>2 DEF Connect, BrowseInv, Types
  <2>4. QED
    BY <1>4, <2>2, <2>3
<1>5. \/ trace' = trace /\ state' = state
      \/ \E p \in Procs : PublishTrace(p) \/ PublishState(p) \/ OpenSession(p) \/ Connect(p)
  BY FilesWritten
<1>6. ASSUME NEW p \in Procs, PublishTrace(p), trace' = trace
      PROVE  trace' = trace /\ state' = state
  BY <1>6 DEF PublishTrace
<1>7. QED
  BY <1>1, <1>2, <1>3, <1>4, <1>5, <1>6

\* A sealed session is closed for good, whatever recovers or ends it again.
THEOREM SealFinal == Spec => SealIsFinal
<1>1. BrowseInv /\ [Next]_vars =>
         [\A s \in Sessions :
             state[s] # None /\ state[s].seal # None
                => state'[s].seal = state[s].seal /\ trace'[s] = trace[s]]_vars
  BY SealStep
<1>2. QED
  BY <1>1, BrowseInvariant, PTL DEF Spec, SealIsFinal

-----------------------------------------------------------------------------
(* The published research is a log that ends once and is sealed as a whole.  *)

Seals == [s \in Sessions |-> SealOn(s)]

\* A step that leaves every trace and every seal is none of the log.
LEMMA ResearchStays ==
    ASSUME trace' = trace, \A s \in Sessions : SealOn(s)' = SealOn(s)
    PROVE  UNCHANGED Research!logVars
<1>1. UNCHANGED Seals
  BY DEF Seals
<1>2. QED
  BY <1>1 DEF Research!logVars, Seals

\* What a publication adds is of a session that has neither ended nor been sealed.
LEMMA PublishExtends ==
    ASSUME BrowseInv, NEW p \in Procs, PublishTrace(p), trace' # trace
    PROVE  Research!LogNext
<1>1. client[p].at = "publish" /\ Holding(client[p])
  BY DEF PublishTrace, At, Holding
<1>2. PICK s \in Sessions : s = client[p].session /\ state[s] \in States
  BY <1>1, ReplyFacts
<1>3. PICK new : new = IF IsPrefix(trace[s], client[p].reply.log)
                         THEN client[p].reply.log ELSE trace[s]
  OBVIOUS
<1>4. /\ Fits(s, client[p].copy.head, client[p].reply)
      /\ trace' = [trace EXCEPT ![s] = new]
      /\ state' = state
  BY <1>2, <1>3 DEF PublishTrace
<1>5. /\ new \in Seq(Events) /\ EndIsLast(new) /\ IsPrefix(trace[s], new)
      /\ state[s].seal # None => new = trace[s]
  BY <1>1, <1>2, <1>3, <1>4, FitsFacts
<1>6. trace \in [Sessions -> Seq(Events)]
  BY DEF BrowseInv, Types
<1>7. new # trace[s] /\ trace'[s] = new
  BY <1>4, <1>6
<1>8. ~Ended(trace[s])
  BY <1>5, <1>6, <1>7, EndedIsWhole
<1>9. /\ Research!HasEnded(s) <=> Ended(trace[s])
      /\ Research!IsPrefix(trace[s], new)
  BY <1>5 DEF Research!HasEnded, Ended, Research!IsPrefix, IsPrefix
<1>10. Seals[s] = None /\ UNCHANGED Seals
  <2>1. SealOn(s) = None
    BY <1>5, <1>7 DEF SealOn
  <2>2. QED
    BY <1>4, <2>1 DEF Seals, SealOn
<1>11. Research!Extend(s)
  BY <1>4, <1>5, <1>7, <1>8, <1>9, <1>10 DEF Research!Extend, Seals
<1>12. QED
  BY <1>11 DEF Research!LogNext

\* A seal is of the whole trace, which has ended.
LEMMA PublishSeals ==
    ASSUME BrowseInv, [Next]_vars, NEW p \in Procs, PublishState(p)
    PROVE  [Research!LogNext]_(Research!logVars)
<1>1. client[p].at = "state" /\ Holding(client[p]) /\ CommandOK(p, client[p]) /\ trace' = trace
  BY DEF PublishState, At, Holding, BrowseInv
<1>2. PICK s \in Sessions : s = client[p].session /\ state[s] \in States
  BY <1>1, ReplyFacts
<1>3. state[s] # None
  BY <1>2, BrowseAssumption
<1> DEFINE r == client[p].reply
           x == IF r.checkpoint THEN [log |-> r.log, used |-> r.used]
                                ELSE state[s].checkpoint
           y == IF r.seal THEN r.log ELSE state[s].seal
           n == [state[s] EXCEPT !.head = r.log, !.checkpoint = x, !.seal = y]
<1>4. /\ r \in Replies /\ r.log \in Seq(Events) /\ (r.seal <=> Ended(r.log))
      /\ r.seal => trace[s] = r.log
  BY <1>1, <1>2, ReplyFacts DEF CommandOK, Writing
<1>5. /\ x \in [log : Seq(Events), used : Nat] \cup {None}
      /\ y \in Seq(Events) \cup {None}
  BY <1>2, <1>4 DEF States, Replies
<1>6. state' = [state EXCEPT ![s] = n]
  BY <1>2 DEF PublishState
<1>7. CASE SealOn(s) # None
  <2>1. state[s].seal # None
    BY <1>3, <1>7 DEF SealOn
  <2>2. SealOn(s)' = SealOn(s)
    BY <1>3, <2>1, SealStep DEF SealOn
  <2> HIDE DEF n
  <2>3. \A t \in Sessions \ {s} : SealOn(t)' = SealOn(t)
    BY <1>6 DEF SealOn, BrowseInv, Types
  <2>4. QED
    BY <1>1, <2>2, <2>3, ResearchStays
<1>8. CASE SealOn(s) = None
  <2>1. y = IF r.seal THEN trace[s] ELSE None
    BY <1>3, <1>4, <1>8 DEF SealOn
  <2> HIDE DEF x, y
  <2>2. n \in States /\ n.seal = y
    BY <1>2, <1>4, <1>5 DEF States
  <2>3. n # None
    BY <2>2, BrowseAssumption
  <2> HIDE DEF n
  <2>4. state'[s] = n /\ \A t \in Sessions \ {s} : state'[t] = state[t]
    BY <1>6 DEF BrowseInv, Types
  <2>5. SealOn(s)' = y /\ \A t \in Sessions \ {s} : SealOn(t)' = SealOn(t)
    BY <2>2, <2>3, <2>4 DEF SealOn
  <2>6. CASE ~r.seal
    BY <1>1, <1>8, <2>1, <2>5, <2>6, ResearchStays
  <2>7. CASE r.seal
    <3>1. Ended(trace[s])
      BY <1>4, <2>7
    <3>2. Research!HasEnded(s)
      BY <3>1 DEF Research!HasEnded, Ended
    <3>3. Seals[s] = None /\ Seals' = [Seals EXCEPT ![s] = trace[s]]
      BY <1>8, <2>1, <2>5, <2>7 DEF Seals
    <3>4. Research!Seal(s)
      BY <1>1, <3>2, <3>3 DEF Research!Seal, Seals
    <3>5. QED
      BY <3>4 DEF Research!LogNext
  <2>8. r.seal \in BOOLEAN
    BY <1>4 DEF Replies
  <2>9. QED
    BY <2>6, <2>7, <2>8
<1>9. QED
  BY <1>7, <1>8

LEMMA ResearchStep ==
    ASSUME BrowseInv, [Next]_vars
    PROVE  [Research!LogNext]_(Research!logVars)
<1>1. CASE trace' = trace /\ state' = state
  BY <1>1, ResearchStays DEF SealOn
<1>2. ASSUME NEW p \in Procs, PublishTrace(p)
      PROVE  [Research!LogNext]_(Research!logVars)
  <2>1. state' = state
    BY <1>2 DEF PublishTrace
  <2>2. QED
    BY <1>1, <1>2, <2>1, PublishExtends
<1>3. ASSUME NEW p \in Procs, PublishState(p)
      PROVE  [Research!LogNext]_(Research!logVars)
  BY <1>3, PublishSeals
<1>4. ASSUME NEW p \in Procs, OpenSession(p)
      PROVE  [Research!LogNext]_(Research!logVars)
  <2>1. trace' = trace
    BY <1>4 DEF OpenSession
  <2>2. ASSUME NEW s \in Sessions, NewSession(p, s)
        PROVE  \A t \in Sessions : SealOn(t)' = SealOn(t)
    BY <2>2, FreshFacts DEF NewSession, SealOn, Fresh, BrowseInv, Types
  <2>3. state' = state \/ \E s \in Sessions : NewSession(p, s)
    BY <1>4 DEF OpenSession
  <2>4. QED
    BY <1>1, <2>1, <2>2, <2>3, ResearchStays
<1>5. ASSUME NEW p \in Procs, Connect(p)
      PROVE  [Research!LogNext]_(Research!logVars)
  <2>1. trace' = trace
    BY <1>5 DEF Connect
  <2>2. /\ client[p].session \in Sessions
        /\ state[client[p].session] = Fresh /\ client[p].copy = Fresh
    BY <1>5, LaunchingAlone DEF Connect, At, Launching
  <2>3. state' = [state EXCEPT ![client[p].session] = [Fresh EXCEPT !.connected = TRUE]]
    BY <1>5, <2>2 DEF Connect
  <2>4. /\ [Fresh EXCEPT !.connected = TRUE] \in States
        /\ [Fresh EXCEPT !.connected = TRUE].seal = None /\ Fresh.seal = None
    BY FreshFacts DEF States
  <2>5. [Fresh EXCEPT !.connected = TRUE] # None /\ Fresh # None
    BY <2>4, FreshFacts, BrowseAssumption
  <2>6. PICK n : n = [Fresh EXCEPT !.connected = TRUE]
    OBVIOUS
  <2>7. /\ state'[client[p].session] = n
        /\ \A t \in Sessions \ {client[p].session} : state'[t] = state[t]
    BY <2>2, <2>3, <2>6 DEF BrowseInv, Types
  <2>8. \A t \in Sessions : SealOn(t)' = SealOn(t)
    BY <2>2, <2>4, <2>5, <2>6, <2>7 DEF SealOn
  <2>9. QED
    BY <2>1, <2>8, ResearchStays
<1>6. \/ trace' = trace /\ state' = state
      \/ \E p \in Procs : PublishTrace(p) \/ PublishState(p) \/ OpenSession(p) \/ Connect(p)
  BY FilesWritten
<1>7. QED
  BY <1>1, <1>2, <1>3, <1>4, <1>5, <1>6

\* Commands that race, retry and recover, drivers that die and a publication of three
\* files are one log per session, for any number of each.
THEOREM ImplementsResearchLog == Spec => IsResearchLog
<1>1. Init => Research!LogInit
  <2> SUFFICES ASSUME Init
               PROVE  Research!LogInit
    OBVIOUS
  <2>1. [s \in Sessions |-> SealOn(s)] = [s \in Sessions |-> None]
    BY DEF Init, SealOn
  <2>2. QED
    BY <2>1 DEF Init, Research!LogInit
<1>2. BrowseInv /\ [Next]_vars => [Research!LogNext]_(Research!logVars)
  BY ResearchStep
<1>3. QED
  BY <1>1, <1>2, BrowseInvariant, PTL DEF Spec, IsResearchLog, Research!LogSpec

-----------------------------------------------------------------------------
(* Where logs begin.  Once no command reaches a session before its start    *)
(* event, the command that launched a session is alone with it until then,   *)
(* and every log, trace, checkpoint and reply begins with that event.        *)

Begins(l) == \A i \in 1..Len(l) : l[i] = "start" <=> i = 1
Written(l) == l # <<>> /\ Begins(l)

\* What the state of a session, or a copy of it, tells of its log.
Tells(s, d) ==
    /\ d.head # <<>> => log[s] # <<>>
    /\ d.checkpoint # None => log[s] # <<>> /\ Written(d.checkpoint.log)

Beginning(c) == c.verb = "start" /\ (Launching(c) \/ Asking(c))
Early(c) == Beginning(c) /\ c.at # "wait"

SessionBegun(s) ==
    /\ Begins(log[s]) /\ Begins(trace[s])
    /\ doing[s] # None => (doing[s][2] = "start" <=> log[s] = <<>>)
    /\ pending[s] # None => log[s] # <<>>
    /\ state[s] # None => Tells(s, state[s])

CommandBegun(c) ==
    /\ c.at = "recover" \/ Asking(c) \/ Holding(c) =>
          Tells(c.session, c.copy) /\ (c.verb # "start" => c.copy.head # <<>>)
    /\ Holding(c) =>
          /\ Written(c.reply.log) /\ log[c.session] # <<>>
          /\ c.verb = "start" => c.for # "pending"
    /\ Early(c) => log[c.session] = <<>> /\ doing[c.session] = None

OneBeginner ==
    \A p, q \in Procs :
        Beginning(client[p]) /\ Beginning(client[q]) /\ client[p].session = client[q].session
            => p = q

BeginInv ==
    /\ \A s \in Sessions : SessionBegun(s)
    /\ \A p \in Procs : CommandBegun(client[p])
    /\ OneBeginner

LEMMA AppendBegins ==
    ASSUME NEW l \in Seq(Events), Written(l), NEW e \in Events, e # "start"
    PROVE  Written(Append(l, e))
<1>1. Len(l) \in Nat /\ Len(l) # 0
  BY EmptySeq DEF Written
<1>2. /\ Append(l, e) \in Seq(Events) /\ Len(Append(l, e)) = Len(l) + 1
      /\ \A i \in 1..Len(l) : Append(l, e)[i] = l[i]
      /\ Append(l, e)[Len(l) + 1] = e
  OBVIOUS
<1>3. Append(l, e) # <<>>
  BY <1>1, <1>2
<1>4. QED
  BY <1>1, <1>2, <1>3 DEF Written, Begins

LEMMA ConcatBegins ==
    ASSUME NEW l \in Seq(Events), Written(l), NEW t \in Seq(Events),
           \A i \in 1..Len(t) : t[i] # "start"
    PROVE  Written(l \o t)
<1>1. Len(l) \in Nat /\ Len(t) \in Nat /\ Len(l) # 0
  BY EmptySeq DEF Written
<1>2. l \o t \in Seq(Events) /\ Len(l \o t) = Len(l) + Len(t)
      /\ (\A i \in 1..Len(l) : (l \o t)[i] = l[i])
      /\ (\A i \in 1..Len(t) : (l \o t)[Len(l) + i] = t[i])
  OBVIOUS
<1>3. PICK u \in Seq(Events) : u = l \o t
  BY <1>2
<1>4. Len(u) = Len(l) + Len(t)
      /\ (\A i \in 1..Len(l) : u[i] = l[i]) /\ (\A i \in 1..Len(t) : u[Len(l) + i] = t[i])
  BY <1>2, <1>3
<1>5. ASSUME NEW i \in 1..Len(u) PROVE u[i] = "start" <=> i = 1
  <2>1. CASE i \in 1..Len(l)
    BY <1>4, <2>1 DEF Written, Begins
  <2>2. CASE i \notin 1..Len(l)
    <3>1. i - Len(l) \in 1..Len(t) /\ i = Len(l) + (i - Len(l)) /\ i # 1
      BY <1>1, <1>4, <2>2
    <3>2. PICK j \in 1..Len(t) : i = Len(l) + j
      BY <3>1
    <3>3. QED
      BY <1>4, <3>1, <3>2
  <2>3. QED
    BY <2>1, <2>2
<1>6. u # <<>>
  BY <1>1, <1>4
<1>7. QED
  BY <1>3, <1>5, <1>6 DEF Written, Begins

\* An action that starts a session only when nothing is recorded keeps its log begun.
LEMMA RecordingBegins ==
    ASSUME BrowseInv, NEW s \in Sessions, NEW verb \in Verbs \cup {"start"},
           verb = "start" <=> log[s] = <<>>, Begins(log[s]),
           NEW done \in Recordings(s, verb)
    PROVE  /\ Begins(log[s] \o done.events)
           /\ log[s] # <<>> \/ done.events # <<>> \/ verb = "end" =>
                 log[s] \o done.events # <<>>
<1>1. log[s] \in Seq(Events)
  BY DEF BrowseInv, Types
<1>2. "start" \in Events /\ "act" \in Events /\ "keep" \in Events /\ "end" \in Events
  BY DEF Events
<1>3. /\ done.events \in {<<>>, <<"start">>, <<"end">>, <<"act">>, <<"keep">>, <<"act", "keep">>}
      /\ done.events = <<"start">> => verb = "start"
      /\ verb = "start" => done.events \in {<<>>, <<"start">>}
  <2>1. CASE done = Refused
    BY <2>1 DEF Refused
  <2>2. CASE done # Refused
    <3>1. ~(Sealed(s) \/ (verb # "end" /\ Len(log[s]) >= MaxEvents))
      BY <2>2 DEF Recordings
    <3>2. CASE verb = "end"
      <4>1. done = Recorded(<<"end">>)
        BY <3>1, <3>2 DEF Recordings
      <4>2. QED
        BY <3>2, <4>1 DEF Recorded
    <3>3. CASE verb = "start"
      <4>1. done = Recorded(<<"start">>)
        BY <3>1, <3>3 DEF Recordings
      <4>2. QED
        BY <3>3, <4>1 DEF Recorded
    <3>4. CASE verb = "browse"
      <4>1. done = Recorded(<<"act">>)
        BY <2>2, <3>1, <3>4 DEF Recordings
      <4>2. QED
        BY <3>4, <4>1 DEF Recorded
    <3>5. CASE verb = "keep"
      <4>1. \/ done = Recorded(<<"keep">>)
            \/ done = [events |-> <<"act">>, checkpoint |-> FALSE]
            \/ done = Recorded(<<"act", "keep">>)
        BY <3>1, <3>5 DEF Recordings
      <4>2. done.events \in {<<"keep">>, <<"act">>, <<"act", "keep">>}
        BY <4>1 DEF Recorded
      <4>3. QED
        BY <3>5, <4>2
    <3>6. QED
      BY <3>2, <3>3, <3>4, <3>5, BrowseAssumption
  <2>3. QED
    BY <2>1, <2>2
<1>4. CASE done.events = <<>>
  <2>1. log[s] \o done.events = log[s]
    BY <1>1, <1>4
  <2>2. QED
    BY <1>4, <2>1
<1>5. CASE done.events = <<"start">>
  <2>1. log[s] = <<>>
    BY <1>3, <1>5
  <2>2. log[s] \o done.events = <<"start">>
    BY <1>2, <1>5, <2>1
  <2>3. Len(<<"start">>) = 1 /\ <<"start">>[1] = "start"
    OBVIOUS
  <2>4. QED
    BY <2>2, <2>3 DEF Begins
<1>6. CASE done.events \notin {<<>>, <<"start">>}
  <2>1. Written(log[s])
    BY <1>3, <1>6 DEF Written
  <2>2. /\ done.events \in Seq(Events)
        /\ \A i \in 1..Len(done.events) : done.events[i] # "start"
    <3>1. CASE done.events = <<"act", "keep">>
      <4>1. /\ <<"act", "keep">> \in Seq(Events) /\ Len(<<"act", "keep">>) = 2
            /\ <<"act", "keep">>[1] = "act" /\ <<"act", "keep">>[2] = "keep"
        BY <1>2
      <4>2. QED
        BY <3>1, <4>1
    <3>2. ASSUME NEW e \in {"end", "act", "keep"}, done.events = <<e>>
          PROVE  /\ done.events \in Seq(Events)
                 /\ \A i \in 1..Len(done.events) : done.events[i] # "start"
      <4>1. <<e>> \in Seq(Events) /\ Len(<<e>>) = 1 /\ <<e>>[1] = e
        BY <1>2
      <4>2. QED
        BY <3>2, <4>1
    <3>3. QED
      BY <1>3, <1>6, <3>1, <3>2
  <2>3. Written(log[s] \o done.events)
    BY <1>1, <2>1, <2>2, ConcatBegins
  <2>4. QED
    BY <2>3 DEF Written
<1>7. QED
  BY <1>4, <1>5, <1>6

-----------------------------------------------------------------------------
(* The steps keep it.                                                      *)

LEMMA BegunFrame ==
    ASSUME NEW s \in Sessions, SessionBegun(s),
           log'[s] = log[s], pending'[s] \in {pending[s], None}, doing'[s] \in {doing[s], None},
           trace'[s] = trace[s], state'[s] = state[s]
    PROVE  SessionBegun(s)'
BY DEF SessionBegun, Tells

\* One command moves, no log grows, and no action starts on a session that has not begun.
LEMMA BeginMoves ==
    ASSUME BeginInv, NEW p \in Procs, NEW c, client'[p] = c,
           \A q \in Procs \ {p} : client'[q] = client[q],
           log' = log, CommandBegun(c)',
           Beginning(c) =>
              \/ Beginning(client[p]) /\ c.session = client[p].session
              \/ \A q \in Procs \ {p} : Beginning(client[q]) => client[q].session # c.session,
           \A q \in Procs \ {p} :
              Early(client[q]) => doing'[client[q].session] = doing[client[q].session],
           \A s \in Sessions : SessionBegun(s)'
    PROVE  BeginInv'
<1>1. CommandBegun(client[p])'
  BY DEF CommandBegun, Tells, Early, Beginning, Launching, Asking, Holding
<1>2. ASSUME NEW q \in Procs \ {p} PROVE CommandBegun(client[q])'
  BY DEF BeginInv, CommandBegun, Tells, Early, Beginning, Launching, Asking, Holding
<1>3. \A q \in Procs : CommandBegun(client[q])'
  BY <1>1, <1>2
<1>4. OneBeginner'
  <2>1. OneBeginner
    BY DEF BeginInv
  <2>2. \A q \in Procs \ {p} :
           Beginning(c) /\ Beginning(client[q]) => client[q].session # c.session
    BY <2>1 DEF OneBeginner
  <2>3. \A q, r \in Procs :
           Beginning(client'[q]) /\ Beginning(client'[r]) /\ client'[q].session = client'[r].session
              => q = r
    BY <2>1, <2>2 DEF OneBeginner
  <2>4. QED
    BY <2>3 DEF OneBeginner, Beginning, Launching, Asking
<1>5. QED
  BY <1>3, <1>4 DEF BeginInv

LEMMA LeavesBegun ==
    ASSUME BrowseInv, BeginInv, NEW p \in Procs, Leave(p),
           log' = log, pending' = pending, doing' = doing, trace' = trace, state' = state
    PROVE  BeginInv'
<1>1. client'[p] = Idle /\ \A q \in Procs \ {p} : client'[q] = client[q]
  BY DEF Leave, BrowseInv, Types
<1>2. PICK c : c = Idle
  OBVIOUS
<1>3. c.at = "idle"
  BY <1>2 DEF Idle
<1>4. CommandBegun(c)' /\ ~Beginning(c)
  BY <1>3 DEF CommandBegun, Early, Beginning, Launching, Asking, Holding
<1>5. \A s \in Sessions : SessionBegun(s)'
  BY BegunFrame DEF BeginInv
<1>6. QED
  BY <1>1, <1>2, <1>4, <1>5, BeginMoves

LEMMA CommandBegins ==
    ASSUME ~EarlyCommands, BrowseInv, BeginInv,
           NEW p \in Procs, NEW v \in Verbs, NEW s \in Sessions, Command(p, v, s)
    PROVE  BeginInv'
<1>1. /\ log' = log /\ pending' = pending /\ doing' = doing /\ trace' = trace /\ state' = state
      /\ state[s] # None /\ state[s].head # <<>>
  BY DEF Command, driverVars, diskVars
<1>2. PICK point \in {"finish", "recover", "pending"} :
         client' = [client EXCEPT ![p] =
            [Idle EXCEPT !.at = point, !.verb = v, !.for = "end",
                         !.session = s, !.copy = state[s]]]
  BY DEF Command
<1>3. PICK c : c = [Idle EXCEPT !.at = point, !.verb = v, !.for = "end",
                                !.session = s, !.copy = state[s]]
  OBVIOUS
<1>4. /\ c.at = point /\ c.verb = v /\ c.for = "end" /\ c.session = s /\ c.copy = state[s]
  BY <1>3 DEF Idle
<1>5. client'[p] = c /\ \A q \in Procs \ {p} : client'[q] = client[q]
  BY <1>2, <1>3 DEF BrowseInv, Types
<1>6. Tells(s, state[s])
  BY <1>1 DEF BeginInv, SessionBegun
<1>7. v # "start"
  BY BrowseAssumption
<1>8. CommandBegun(c)' /\ ~Beginning(c)
  BY <1>1, <1>4, <1>6, <1>7
     DEF CommandBegun, Tells, Early, Beginning, Launching, Asking, Holding
<1>9. \A t \in Sessions : SessionBegun(t)'
  BY <1>1, BegunFrame DEF BeginInv
<1>10. QED
  BY <1>1, <1>5, <1>8, <1>9, BeginMoves

LEMMA StartBegins ==
    ASSUME BrowseInv, BeginInv, NEW p \in Procs, Start(p)
    PROVE  BeginInv'
<1>1. log' = log /\ pending' = pending /\ doing' = doing /\ trace' = trace /\ state' = state
  BY DEF Start, driverVars, diskVars
<1>2. \A t \in Sessions : SessionBegun(t)'
  BY <1>1, BegunFrame DEF BeginInv
<1>3. CASE /\ current # None /\ Open(current)
           /\ client' = [client EXCEPT ![p] =
                [Idle EXCEPT !.at = "recover", !.verb = "start", !.for = "start",
                             !.session = current, !.copy = state[current]]]
  <2>1. PICK c : c = [Idle EXCEPT !.at = "recover", !.verb = "start", !.for = "start",
                                  !.session = current, !.copy = state[current]]
    OBVIOUS
  <2>2. /\ c.at = "recover" /\ c.verb = "start" /\ c.session = current
        /\ c.copy = state[current]
    BY <2>1 DEF Idle
  <2>3. client'[p] = c /\ \A q \in Procs \ {p} : client'[q] = client[q]
    BY <1>3, <2>1 DEF BrowseInv, Types
  <2>4. Tells(current, state[current])
    BY <1>3 DEF BeginInv, SessionBegun, BrowseInv, Types, Open
  <2>5. CommandBegun(c)' /\ ~Beginning(c)
    BY <1>1, <2>2, <2>4 DEF CommandBegun, Tells, Early, Beginning, Launching, Asking, Holding
  <2>6. QED
    BY <1>1, <1>2, <2>3, <2>5, BeginMoves
<1>4. CASE client' = [client EXCEPT ![p].at = "open", ![p].verb = "start"]
  <2>1. PICK c : c = [client[p] EXCEPT !.at = "open", !.verb = "start"]
    OBVIOUS
  <2>2. c.at = "open"
    BY <2>1 DEF BrowseInv, Types, Clients
  <2>3. client'[p] = c /\ \A q \in Procs \ {p} : client'[q] = client[q]
    BY <1>4, <2>1 DEF BrowseInv, Types
  <2>4. CommandBegun(c)' /\ ~Beginning(c)
    BY <2>2 DEF CommandBegun, Early, Beginning, Launching, Asking, Holding
  <2>5. QED
    BY <1>1, <1>2, <2>3, <2>4, BeginMoves
<1>5. QED
  BY <1>3, <1>4 DEF Start

\* A new session has no log, and nobody works on it.
LEMMA OpenSessionBegins ==
    ASSUME BrowseInv, BeginInv, NEW p \in Procs, OpenSession(p)
    PROVE  BeginInv'
<1>1. log' = log /\ pending' = pending /\ doing' = doing /\ trace' = trace
  BY DEF OpenSession
<1>2. CASE Leave(p) /\ state' = state
  BY <1>1, <1>2, LeavesBegun
<1>3. ASSUME NEW s \in Sessions, NewSession(p, s) PROVE BeginInv'
  <2>1. PICK c : c = [client[p] EXCEPT !.at = "launch", !.session = s, !.copy = Fresh]
    OBVIOUS
  <2>2. c.at = "launch" /\ c.session = s
    BY <2>1 DEF BrowseInv, Types, Clients
  <2>3. client'[p] = c /\ \A q \in Procs \ {p} : client'[q] = client[q]
    BY <1>3, <2>1 DEF NewSession, BrowseInv, Types
  <2>4. state[s] = None /\ state'[s] = Fresh /\ \A t \in Sessions \ {s} : state'[t] = state[t]
    BY <1>3 DEF NewSession, BrowseInv, Types
  <2>5. log[s] = <<>> /\ doing[s] = None
    BY <2>4 DEF BrowseInv, SessionOK, NotConnected
  <2>6. CommandBegun(c)'
    BY <1>1, <2>2, <2>5 DEF CommandBegun, Early, Asking, Holding
  <2>7. \A q \in Procs \ {p} : Beginning(client[q]) => client[q].session # c.session
    BY <2>2, <2>4, FreshFacts
       DEF BrowseInv, CommandOK, Launched, Served, Serving, Beginning
  <2>8. ASSUME NEW t \in Sessions PROVE SessionBegun(t)'
    <3>1. SessionBegun(t)
      BY DEF BeginInv
    <3>2. CASE t = s
      BY <1>1, <2>4, <3>1, <3>2, FreshFacts DEF SessionBegun, Tells
    <3>3. CASE t # s
      BY <1>1, <2>4, <3>1, <3>3, BegunFrame
    <3>4. QED
      BY <3>2, <3>3
  <2>9. QED
    BY <1>1, <2>3, <2>6, <2>7, <2>8, BeginMoves
<1>4. QED
  BY <1>2, <1>3 DEF OpenSession

LEMMA LaunchBegins ==
    ASSUME BrowseInv, BeginInv, NEW p \in Procs, Launch(p)
    PROVE  BeginInv'
<1>1. log' = log /\ pending' = pending /\ doing' = doing /\ trace' = trace /\ state' = state
  BY DEF Launch, diskVars
<1>2. CASE Leave(p)
  BY <1>1, <1>2, LeavesBegun
<1>3. CASE Goto(p, "connect")
  <2>1. PICK c : c = [client[p] EXCEPT !.at = "connect"]
    OBVIOUS
  <2>2. c.at = "connect" /\ c.session = client[p].session /\ c.verb = client[p].verb
    BY <2>1 DEF BrowseInv, Types, Clients
  <2>3. client'[p] = c /\ \A q \in Procs \ {p} : client'[q] = client[q]
    BY <1>3, <2>1 DEF Goto, BrowseInv, Types
  <2>4. client[p].at = "launch" /\ CommandBegun(client[p])
    BY DEF Launch, At, BeginInv
  <2>5. CommandBegun(c)' /\ (Beginning(c) => Beginning(client[p]))
    BY <1>1, <2>2, <2>4 DEF CommandBegun, Early, Beginning, Launching, Asking, Holding
  <2>6. \A t \in Sessions : SessionBegun(t)'
    BY <1>1, BegunFrame DEF BeginInv
  <2>7. QED
    BY <1>1, <2>2, <2>3, <2>5, <2>6, BeginMoves
<1>4. QED
  BY <1>2, <1>3 DEF Launch

LEMMA ConnectBegins ==
    ASSUME BrowseInv, BeginInv, NEW p \in Procs, Connect(p)
    PROVE  BeginInv'
<1>1. log' = log /\ pending' = pending /\ doing' = doing /\ trace' = trace
  BY DEF Connect, driverVars
<1>2. client[p].at = "connect" /\ Launching(client[p])
  BY DEF Connect, At, Launching
<1>3. PICK s \in Sessions :
         /\ s = client[p].session /\ client[p].verb = "start" /\ client[p].copy = Fresh
         /\ log[s] = <<>> /\ doing[s] = None
  BY <1>2, LaunchingAlone
<1>4. PICK n : n = [client[p].copy EXCEPT !.connected = TRUE]
  OBVIOUS
<1>5. n.head = <<>> /\ n.checkpoint = None
  BY <1>3, <1>4, FreshFacts DEF Fresh
<1>6. PICK c : c = [client[p] EXCEPT !.at = "pending", !.copy = n]
  OBVIOUS
<1>7. c.at = "pending" /\ c.session = s /\ c.copy = n /\ c.verb = "start"
  BY <1>3, <1>6 DEF BrowseInv, Types, Clients
<1>8. /\ client'[p] = c /\ \A q \in Procs \ {p} : client'[q] = client[q]
      /\ state'[s] = n /\ \A t \in Sessions \ {s} : state'[t] = state[t]
  BY <1>3, <1>4, <1>6 DEF Connect, BrowseInv, Types
<1>9. CommandBegun(c)'
  BY <1>1, <1>3, <1>5, <1>7 DEF CommandBegun, Tells, Early, Asking, Holding
<1>10. Beginning(client[p])
  BY <1>2, <1>3 DEF Beginning
<1>11. ASSUME NEW t \in Sessions PROVE SessionBegun(t)'
  <2>1. SessionBegun(t)
    BY DEF BeginInv
  <2>2. CASE t = s
    BY <1>1, <1>5, <1>8, <2>1, <2>2 DEF SessionBegun, Tells
  <2>3. CASE t # s
    BY <1>1, <1>8, <2>1, <2>3, BegunFrame
  <2>4. QED
    BY <2>2, <2>3
<1>12. QED
  BY <1>1, <1>3, <1>7, <1>8, <1>9, <1>10, <1>11, BeginMoves

\* A recovery ends the log of a checkpoint, which has begun.
LEMMA RecoverBegins ==
    ASSUME BrowseInv, BeginInv, NEW p \in Procs, Recover(p)
    PROVE  BeginInv'
<1>1. log' = log /\ pending' = pending /\ doing' = doing /\ trace' = trace /\ state' = state
  BY DEF Recover, driverVars, diskVars
<1>2. CASE Leave(p)
  BY <1>1, <1>2, LeavesBegun
<1>3. PICK k : k = client[p].copy.checkpoint
  OBVIOUS
<1>4. PICK r : r = [log |-> Append(k.log, p), first |-> Len(k.log) + 1,
                    checkpoint |-> TRUE, seal |-> TRUE, used |-> k.used]
  OBVIOUS
<1>5. CASE client' = [client EXCEPT ![p].at = "publish", ![p].reply = r]
  <2>1. PICK c : c = [client[p] EXCEPT !.at = "publish", !.reply = r]
    OBVIOUS
  <2>2. /\ c.at = "publish" /\ c.reply = r /\ c.session = client[p].session
        /\ c.copy = client[p].copy /\ c.for = client[p].for /\ c.verb = client[p].verb
    BY <2>1 DEF BrowseInv, Types, Clients
  <2>3. client'[p] = c /\ \A q \in Procs \ {p} : client'[q] = client[q]
    BY <1>5, <2>1 DEF BrowseInv, Types
  <2>4. client[p].at = "recover" /\ CommandBegun(client[p]) /\ CommandOK(p, client[p])
        /\ client[p] \in Clients
    BY DEF Recover, At, BeginInv, BrowseInv, Types
  <2>5. k # None /\ client[p].copy \in States /\ client[p].for \in {"start", "end"}
    BY <1>3, <2>4 DEF CommandOK, Copied, Clients
  <2>6. k.log \in Seq(Events) /\ Written(k.log) /\ log[client[p].session] # <<>>
    BY <1>3, <2>4, <2>5 DEF States, CommandBegun, Tells
  <2>7. p \in Events /\ p # "start"
    BY BrowseAssumption DEF Events
  <2>8. Written(r.log)
    BY <1>4, <2>6, <2>7, AppendBegins
  <2>9. CommandBegun(c)' /\ ~Beginning(c)
    BY <1>1, <2>2, <2>4, <2>5, <2>6, <2>8
       DEF CommandBegun, Tells, Early, Beginning, Launching, Asking, Holding
  <2>10. \A t \in Sessions : SessionBegun(t)'
    BY <1>1, BegunFrame DEF BeginInv
  <2>11. QED
    BY <1>1, <2>3, <2>9, <2>10, BeginMoves
<1>6. QED
  BY <1>2, <1>3, <1>4, <1>5 DEF Recover

\* A command that keeps its session, copy and reply, and has what its next point asks for.
LEMMA GoesOnBegun ==
    ASSUME BrowseInv, BeginInv, NEW p \in Procs, NEW point \in Points, Goto(p, point),
           log' = log, \A s \in Sessions : SessionBegun(s)',
           \A q \in Procs \ {p} :
              Early(client[q]) => doing'[client[q].session] = doing[client[q].session],
           \/ /\ client[p].at = "pending" /\ point = "action" /\ doing' = doing
           \/ /\ client[p].at = "action" /\ point = "wait"
           \/ /\ Holding(client[p]) /\ point \in {"state", "finish", "ack"}
           \/ /\ Holding(client[p]) /\ point = "action" /\ client[p].for = "pending"
    PROVE  BeginInv'
<1>1. PICK c : c = [client[p] EXCEPT !.at = point]
  OBVIOUS
<1>2. /\ c.at = point /\ c.reply = client[p].reply /\ c.session = client[p].session
      /\ c.copy = client[p].copy /\ c.for = client[p].for /\ c.verb = client[p].verb
  BY <1>1 DEF BrowseInv, Types, Clients
<1>3. client'[p] = c /\ \A q \in Procs \ {p} : client'[q] = client[q]
  BY <1>1 DEF Goto, BrowseInv, Types
<1>4. CommandBegun(client[p])
  BY DEF BeginInv
<1>5. CommandBegun(c)' /\ (Beginning(c) => Beginning(client[p]))
  <2>1. CASE client[p].at = "pending" /\ point = "action" /\ doing' = doing
    BY <1>2, <1>4, <2>1 DEF CommandBegun, Tells, Early, Beginning, Launching, Asking, Holding
  <2>2. CASE client[p].at = "action" /\ point = "wait"
    BY <1>2, <1>4, <2>2 DEF CommandBegun, Tells, Early, Beginning, Launching, Asking, Holding
  <2>3. CASE Holding(client[p]) /\ point \in {"state", "finish", "ack"}
    BY <1>2, <1>4, <2>3 DEF CommandBegun, Tells, Early, Beginning, Launching, Asking, Holding
  <2>4. CASE Holding(client[p]) /\ point = "action" /\ client[p].for = "pending"
    BY <1>2, <1>4, <2>4 DEF CommandBegun, Tells, Early, Beginning, Launching, Asking, Holding
  <2>5. QED
    BY <2>1, <2>2, <2>3, <2>4
<1>6. QED
  BY <1>2, <1>3, <1>5, BeginMoves

LEMMA FinishBegins ==
    ASSUME BrowseInv, BeginInv, NEW p \in Procs, Finish(p)
    PROVE  BeginInv'
<1>1. log' = log /\ pending' = pending /\ doing' = doing /\ trace' = trace /\ state' = state
  BY DEF Finish, driverVars, diskVars
<1>2. \A t \in Sessions : SessionBegun(t)'
  BY <1>1, BegunFrame DEF BeginInv
<1>3. CASE Leave(p)
  BY <1>1, <1>3, LeavesBegun
<1>4. CASE client' = [client EXCEPT ![p] = [Idle EXCEPT !.at = "open", !.verb = "start"]]
  <2>1. PICK c : c = [Idle EXCEPT !.at = "open", !.verb = "start"]
    OBVIOUS
  <2>2. c.at = "open"
    BY <2>1 DEF Idle
  <2>3. client'[p] = c /\ \A q \in Procs \ {p} : client'[q] = client[q]
    BY <1>4, <2>1 DEF BrowseInv, Types
  <2>4. CommandBegun(c)' /\ ~Beginning(c)
    BY <2>2 DEF CommandBegun, Early, Beginning, Launching, Asking, Holding
  <2>5. QED
    BY <1>1, <1>2, <2>3, <2>4, BeginMoves
<1>5. CASE Goto(p, "ack") /\ client[p].for \notin {"start", "end"}
  <2>1. client[p].at = "finish" /\ client[p] \in Clients /\ CommandOK(p, client[p])
    BY DEF Finish, At, BrowseInv, Types
  <2>2. Holding(client[p])
    BY <1>5, <2>1 DEF CommandOK, Served, Serving, Holding, Clients
  <2>3. QED
    BY <1>1, <1>2, <1>5, <2>2, GoesOnBegun DEF Points
<1>6. QED
  BY <1>3, <1>4, <1>5 DEF Finish

LEMMA PublishBudgetBegins ==
    ASSUME BrowseInv, BeginInv, NEW p \in Procs, PublishBudget(p)
    PROVE  BeginInv'
<1>1. log' = log /\ pending' = pending /\ doing' = doing /\ trace' = trace /\ state' = state
  BY DEF PublishBudget, driverVars
<1>2. \A t \in Sessions : SessionBegun(t)'
  BY <1>1, BegunFrame DEF BeginInv
<1>3. Holding(client[p]) /\ \E point \in {"finish", "ack"} : Goto(p, point)
  BY DEF PublishBudget, At, Holding
<1>4. QED
  BY <1>1, <1>2, <1>3, GoesOnBegun DEF Points

\* The trace becomes the log of a reply, which has begun.
LEMMA PublishTraceBegins ==
    ASSUME BrowseInv, BeginInv, NEW p \in Procs, PublishTrace(p)
    PROVE  BeginInv'
<1>1. log' = log /\ pending' = pending /\ doing' = doing /\ state' = state
  BY DEF PublishTrace, driverVars
<1>2. CASE Leave(p) /\ trace' = trace
  BY <1>1, <1>2, LeavesBegun
<1>3. Holding(client[p]) /\ CommandBegun(client[p])
  BY DEF PublishTrace, At, Holding, BeginInv
<1>4. PICK s \in Sessions : s = client[p].session
  BY <1>3, ReplyFacts
<1>5. PICK new : new = IF IsPrefix(trace[s], client[p].reply.log)
                         THEN client[p].reply.log ELSE trace[s]
  OBVIOUS
<1>6. CASE Goto(p, "state") /\ trace' = [trace EXCEPT ![s] = new]
  <2>1. Begins(new)
    BY <1>3, <1>5 DEF CommandBegun, Written, BeginInv, SessionBegun
  <2>2. trace'[s] = new /\ \A t \in Sessions \ {s} : trace'[t] = trace[t]
    BY <1>6 DEF BrowseInv, Types
  <2>3. ASSUME NEW t \in Sessions PROVE SessionBegun(t)'
    <3>1. SessionBegun(t)
      BY DEF BeginInv
    <3>2. CASE t = s
      BY <1>1, <2>1, <2>2, <3>1, <3>2 DEF SessionBegun, Tells
    <3>3. CASE t # s
      BY <1>1, <2>2, <3>1, <3>3, BegunFrame
    <3>4. QED
      BY <3>2, <3>3
  <2>4. QED
    BY <1>1, <1>3, <1>6, <2>3, GoesOnBegun DEF Points
<1>7. QED
  BY <1>2, <1>4, <1>5, <1>6 DEF PublishTrace

\* The state tells of a log that has begun, and so does the command's copy of it.
LEMMA PublishStateBegins ==
    ASSUME BrowseInv, BeginInv, NEW p \in Procs, PublishState(p)
    PROVE  BeginInv'
<1>1. log' = log /\ pending' = pending /\ doing' = doing /\ trace' = trace
  BY DEF PublishState, driverVars
<1>2. /\ client[p].at = "state" /\ Holding(client[p]) /\ CommandBegun(client[p])
      /\ client[p] \in Clients
  BY DEF PublishState, At, Holding, BeginInv, BrowseInv, Types
<1>3. PICK s \in Sessions : s = client[p].session
  BY <1>2, ReplyFacts
<1>4. PICK r : r = client[p].reply
  OBVIOUS
<1>5. state[s] \in States /\ r.log \in Seq(Events) /\ state[s] # None
  BY <1>2, <1>3, <1>4, ReplyFacts, BrowseAssumption
<1>6. Written(r.log) /\ log[s] # <<>> /\ Tells(s, state[s])
  BY <1>2, <1>3, <1>4, <1>5 DEF CommandBegun, BeginInv, SessionBegun
<1>7. PICK x : x = IF r.checkpoint THEN [log |-> r.log, used |-> r.used]
                                  ELSE state[s].checkpoint
  OBVIOUS
<1>8. PICK n : n = [state[s] EXCEPT !.head = r.log, !.checkpoint = x,
                                    !.seal = IF r.seal THEN r.log ELSE state[s].seal]
  OBVIOUS
<1>9. n.head = r.log /\ n.checkpoint = x
  BY <1>5, <1>8 DEF States
<1>10. x # None => Written(x.log)
  BY <1>6, <1>7 DEF Tells
<1>11. Tells(s, n) /\ n.head # <<>>
  BY <1>6, <1>9, <1>10 DEF Tells, Written
<1>12. state' = [state EXCEPT ![s] = n]
       /\ client' = [client EXCEPT ![p].at = "budget", ![p].copy = n]
  BY <1>3, <1>4, <1>7, <1>8 DEF PublishState
<1>13. state'[s] = n /\ \A t \in Sessions \ {s} : state'[t] = state[t]
  BY <1>12 DEF BrowseInv, Types
<1>14. PICK c : c = [client[p] EXCEPT !.at = "budget", !.copy = n]
  OBVIOUS
<1>15. /\ c.at = "budget" /\ c.session = s /\ c.copy = n /\ c.for = client[p].for
       /\ c.verb = client[p].verb /\ c.reply = r
  BY <1>2, <1>3, <1>4, <1>14 DEF Clients
<1>16. client'[p] = c /\ \A q \in Procs \ {p} : client'[q] = client[q]
  BY <1>12, <1>14 DEF BrowseInv, Types
<1>17. CommandBegun(c)' /\ ~Beginning(c)
  BY <1>1, <1>2, <1>3, <1>6, <1>11, <1>15
     DEF CommandBegun, Tells, Early, Beginning, Launching, Asking, Holding
<1>18. ASSUME NEW t \in Sessions PROVE SessionBegun(t)'
  <2>1. SessionBegun(t)
    BY DEF BeginInv
  <2>2. CASE t = s
    BY <1>1, <1>11, <1>13, <2>1, <2>2 DEF SessionBegun, Tells
  <2>3. CASE t # s
    BY <1>1, <1>13, <2>1, <2>3, BegunFrame
  <2>4. QED
    BY <2>2, <2>3
<1>19. QED
  BY <1>1, <1>16, <1>17, <1>18, BeginMoves

\* A reply is pending only once its log has begun, which an early command's has not.
LEMMA AskPendingBegins ==
    ASSUME BrowseInv, BeginInv, NEW p \in Procs, AskPending(p)
    PROVE  BeginInv'
<1>1. log' = log /\ pending' = pending /\ doing' = doing /\ trace' = trace /\ state' = state
  BY DEF AskPending, driverVars, diskVars
<1>2. \A t \in Sessions : SessionBegun(t)'
  BY <1>1, BegunFrame DEF BeginInv
<1>3. /\ client[p].at = "pending" /\ CommandBegun(client[p]) /\ CommandOK(p, client[p])
      /\ client[p] \in Clients
  BY DEF AskPending, At, BeginInv, BrowseInv, Types
<1>4. CASE Leave(p)
  BY <1>1, <1>4, LeavesBegun
<1>5. CASE Goto(p, "action")
  BY <1>1, <1>2, <1>3, <1>5, GoesOnBegun DEF Points
<1>6. PICK s \in Sessions : s = client[p].session
  BY <1>3 DEF CommandOK, Served, Serving, Asking
<1>7. CASE /\ pending[s] # None
           /\ client' = [client EXCEPT ![p].at = "publish", ![p].for = "pending",
                                       ![p].reply = pending[s]]
  <2>1. PICK c : c = [client[p] EXCEPT !.at = "publish", !.for = "pending", !.reply = pending[s]]
    OBVIOUS
  <2>2. /\ c.at = "publish" /\ c.for = "pending" /\ c.reply = pending[s] /\ c.session = s
        /\ c.copy = client[p].copy /\ c.verb = client[p].verb
    BY <1>3, <1>6, <2>1 DEF Clients
  <2>3. client'[p] = c /\ \A q \in Procs \ {p} : client'[q] = client[q]
    BY <1>7, <2>1 DEF BrowseInv, Types
  <2>4. log[s] # <<>> /\ Written(log[s]) /\ pending[s].log = log[s]
    BY <1>7 DEF BeginInv, SessionBegun, Written, BrowseInv, SessionOK, Driver
  <2>5. client[p].verb # "start"
    BY <1>3, <1>6, <2>4 DEF CommandBegun, Early, Beginning, Asking
  <2>6. CommandBegun(c)' /\ ~Beginning(c)
    BY <1>1, <1>3, <1>6, <2>2, <2>4, <2>5
       DEF CommandBegun, Tells, Early, Beginning, Launching, Asking, Holding
  <2>7. QED
    BY <1>1, <1>2, <2>3, <2>6, BeginMoves
<1>8. QED
  BY <1>4, <1>5, <1>6, <1>7 DEF AskPending

\* A session starts with an empty log only, and by the command that is alone with it.
LEMMA ActBegins ==
    ASSUME BrowseInv, BeginInv, NEW p \in Procs, Act(p)
    PROVE  BeginInv'
<1>1. log' = log /\ pending' = pending /\ trace' = trace /\ state' = state
  BY DEF Act, diskVars
<1>2. /\ client[p].at = "action" /\ CommandBegun(client[p]) /\ CommandOK(p, client[p])
      /\ client[p] \in Clients
  BY DEF Act, At, BeginInv, BrowseInv, Types
<1>3. CASE Leave(p) /\ doing' = doing
  BY <1>1, <1>3, LeavesBegun
<1>4. PICK s \in Sessions : s = client[p].session
  BY <1>2 DEF CommandOK, Served, Serving, Asking
<1>5. CASE /\ Accepts(s, client[p].copy.head)
           /\ doing' = [doing EXCEPT ![s] = <<p, client[p].verb>>]
           /\ Goto(p, "wait")
  <2>1. client[p].verb = "start" <=> log[s] = <<>>
    BY <1>2, <1>4, <1>5 DEF CommandBegun, Early, Beginning, Asking, Accepts
  <2>2. doing'[s] = <<p, client[p].verb>> /\ \A t \in Sessions \ {s} : doing'[t] = doing[t]
    BY <1>5 DEF BrowseInv, Types
  <2>3. ASSUME NEW t \in Sessions PROVE SessionBegun(t)'
    <3>1. SessionBegun(t)
      BY DEF BeginInv
    <3>2. CASE t = s
      <4>1. doing'[t][2] = client[p].verb
        BY <2>2, <3>2
      <4>2. QED
        BY <1>1, <2>1, <3>1, <3>2, <4>1 DEF SessionBegun, Tells
    <3>3. CASE t # s
      BY <1>1, <2>2, <3>1, <3>3, BegunFrame
    <3>4. QED
      BY <3>2, <3>3
  <2>4. ASSUME NEW q \in Procs \ {p}, Early(client[q])
        PROVE  doing'[client[q].session] = doing[client[q].session]
    <3>1. CommandBegun(client[q]) /\ CommandOK(q, client[q])
      BY DEF BeginInv, BrowseInv
    <3>2. client[q].session \in Sessions
      BY <2>4, <3>1
         DEF CommandOK, Launched, Served, Serving, Early, Beginning
    <3>3. CASE client[q].session = s
      <4>1. log[s] = <<>>
        BY <2>4, <3>1, <3>3 DEF CommandBegun
      <4>2. Beginning(client[p]) /\ Beginning(client[q])
        BY <1>2, <2>1, <2>4, <4>1 DEF Beginning, Early, Asking
      <4>3. p = q
        BY <1>4, <3>3, <4>2 DEF BeginInv, OneBeginner
      <4>4. QED
        BY <4>3
    <3>4. QED
      BY <2>2, <3>2, <3>3
  <2>5. QED
    BY <1>1, <1>2, <1>5, <2>3, <2>4, GoesOnBegun DEF Points
<1>6. QED
  BY <1>3, <1>4, <1>5 DEF Act

LEMMA AckBegins ==
    ASSUME BrowseInv, BeginInv, NEW p \in Procs, Ack(p)
    PROVE  BeginInv'
<1>1. log' = log /\ doing' = doing /\ trace' = trace /\ state' = state
  BY DEF Ack, diskVars
<1>2. Holding(client[p])
  BY DEF Ack, At, Holding
<1>3. pending' = pending \/ pending' = [pending EXCEPT ![client[p].session] = None]
  BY DEF Ack
<1>4. \A t \in Sessions : pending'[t] \in {pending[t], None}
  BY <1>3 DEF BrowseInv, Types
<1>5. \A t \in Sessions : SessionBegun(t)'
  BY <1>1, <1>4, BegunFrame DEF BeginInv
<1>6. CASE Leave(p)
  <2>1. PICK c : c = Idle
    OBVIOUS
  <2>2. c.at = "idle"
    BY <2>1 DEF Idle
  <2>3. client'[p] = c /\ \A q \in Procs \ {p} : client'[q] = client[q]
    BY <1>6, <2>1 DEF Leave, BrowseInv, Types
  <2>4. CommandBegun(c)' /\ ~Beginning(c)
    BY <2>2 DEF CommandBegun, Early, Beginning, Launching, Asking, Holding
  <2>5. QED
    BY <1>1, <1>5, <2>3, <2>4, BeginMoves
<1>7. CASE client[p].for = "pending" /\ Goto(p, "action")
  BY <1>1, <1>2, <1>5, <1>7, GoesOnBegun DEF Points
<1>8. QED
  BY <1>6, <1>7 DEF Ack

LEMMA DriverDiesBegins ==
    ASSUME BrowseInv, BeginInv, NEW s \in Sessions, DriverDies(s)
    PROVE  BeginInv'
<1>1. log' = log /\ trace' = trace /\ state' = state
  BY DEF DriverDies, diskVars
<1>2. \A t \in Sessions : pending'[t] \in {pending[t], None} /\ doing'[t] \in {doing[t], None}
  BY DEF DriverDies, BrowseInv, Types
<1>3. \A t \in Sessions : SessionBegun(t)'
  BY <1>1, <1>2, BegunFrame DEF BeginInv
<1>4. Idle.at = "idle"
  BY DEF Idle
<1>5. \A q \in Procs : client'[q] = client[q] \/ client'[q].at = "idle"
  BY <1>4 DEF DriverDies
<1>6. ASSUME NEW q \in Procs PROVE CommandBegun(client[q])'
  <2>1. CASE client'[q].at = "idle"
    BY <2>1 DEF CommandBegun, Early, Beginning, Launching, Asking, Holding
  <2>2. CASE client'[q] = client[q]
    <3>1. CommandBegun(client[q]) /\ CommandOK(q, client[q])
      BY DEF BeginInv, BrowseInv
    <3>2. Early(client[q]) => client[q].session \in Sessions
      BY <3>1 DEF CommandOK, Launched, Served, Serving, Early, Beginning
    <3>3. Early(client[q]) => doing'[client[q].session] = None
      BY <1>2, <3>1, <3>2 DEF CommandBegun
    <3>4. QED
      BY <1>1, <2>2, <3>1, <3>3
         DEF CommandBegun, Tells, Early, Beginning, Launching, Asking, Holding
  <2>3. QED
    BY <1>5, <2>1, <2>2
<1>7. OneBeginner'
  <2>1. \A q \in Procs : Beginning(client'[q]) => client'[q] = client[q]
    BY <1>5 DEF Beginning, Launching, Asking
  <2>2. \A q, r \in Procs :
           Beginning(client'[q]) /\ Beginning(client'[r]) /\ client'[q].session = client'[r].session
              => q = r
    BY <2>1 DEF BeginInv, OneBeginner
  <2>3. QED
    BY <2>2 DEF OneBeginner, Beginning, Launching, Asking
<1>8. QED
  BY <1>3, <1>6, <1>7 DEF BeginInv

\* Only a start begins a log, and while one is under way nobody else is about to.
LEMMA ExecuteBegins ==
    ASSUME BrowseInv, BeginInv, NEW s \in Sessions, Execute(s)
    PROVE  BeginInv'
<1>1. trace' = trace /\ state' = state /\ doing' = [doing EXCEPT ![s] = None] /\ doing[s] # None
  BY DEF Execute, diskVars
<1>2. PICK p \in Procs, verb \in Verbs \cup {"start"} : doing[s][1] = p /\ doing[s][2] = verb
  BY <1>1 DEF BrowseInv, Types
<1>3. SessionBegun(s) /\ log[s] \in Seq(Events)
  BY DEF BeginInv, BrowseInv, Types
<1>4. verb = "start" <=> log[s] = <<>>
  BY <1>1, <1>2, <1>3 DEF SessionBegun
<1>5. PICK done, u, r, told :
         /\ done \in Recordings(s, verb) /\ told \in BOOLEAN
         /\ u = log[s] \o done.events /\ r.log = u
         /\ told <=> done.events # <<>> \/ verb = "end"
         /\ log' = [log EXCEPT ![s] = u]
         /\ pending' = [pending EXCEPT ![s] = IF told THEN r ELSE None]
         /\ IF At(p, "wait") /\ client[p].session = s
              THEN IF told
                     THEN client' = [client EXCEPT ![p].at = "publish",
                                       ![p].for = "action", ![p].reply = r]
                     ELSE Leave(p)
              ELSE UNCHANGED client
  <2>1. PICK done \in Recordings(s, doing[s][2]) :
         LET reply == [log |-> log[s] \o done.events, first |-> Len(log[s]) + 1,
                       checkpoint |-> done.checkpoint, seal |-> doing[s][2] = "end",
                       used |-> used[s] + IF "act" \in Range(done.events) THEN 1 ELSE 0]
             told == done.events # <<>> \/ reply.seal
         IN /\ log' = [log EXCEPT ![s] = reply.log]
            /\ used' = [used EXCEPT ![s] = reply.used]
            /\ pending' = [pending EXCEPT ![s] = IF told THEN reply ELSE None]
            /\ IF At(doing[s][1], "wait") /\ client[doing[s][1]].session = s
                 THEN IF told
                        THEN client' = [client EXCEPT ![doing[s][1]].at = "publish",
                                          ![doing[s][1]].for = "action",
                                          ![doing[s][1]].reply = reply]
                        ELSE Leave(doing[s][1])
                 ELSE UNCHANGED client
    BY DEF Execute
  <2>2. PICK b \in BOOLEAN : b = (verb = "end")
    OBVIOUS
  <2>3. PICK u, f, k : /\ u = log[s] \o done.events /\ f = Len(log[s]) + 1
                       /\ k = used[s] + IF "act" \in Range(done.events) THEN 1 ELSE 0
    OBVIOUS
  <2> DEFINE r == [log |-> u, first |-> f, checkpoint |-> done.checkpoint, seal |-> b,
                   used |-> k]
             told == done.events # <<>> \/ b
  <2>4. r.log = u
    OBVIOUS
  <2>5. /\ log' = [log EXCEPT ![s] = u]
        /\ pending' = [pending EXCEPT ![s] = IF told THEN r ELSE None]
        /\ IF At(p, "wait") /\ client[p].session = s
             THEN IF told
                    THEN client' = [client EXCEPT ![p].at = "publish",
                                      ![p].for = "action", ![p].reply = r]
                    ELSE Leave(p)
             ELSE UNCHANGED client
    BY <1>2, <2>1, <2>2, <2>3
  <2>6. done \in Recordings(s, verb) /\ told \in BOOLEAN
        /\ (told <=> done.events # <<>> \/ verb = "end")
    BY <1>2, <2>2
  <2> HIDE DEF r, told
  <2>7. QED
    BY <2>3, <2>4, <2>5, <2>6
<1>6. Begins(u) /\ (log[s] # <<>> \/ told => u # <<>>)
  BY <1>3, <1>4, <1>5, RecordingBegins DEF SessionBegun
<1>7. /\ log'[s] = u /\ pending'[s] = (IF told THEN r ELSE None) /\ doing'[s] = None
      /\ \A t \in Sessions \ {s} :
            log'[t] = log[t] /\ pending'[t] = pending[t] /\ doing'[t] = doing[t]
  BY <1>1, <1>5 DEF BrowseInv, Types
<1>8. \A t \in Sessions : log[t] # <<>> => log'[t] # <<>>
  BY <1>6, <1>7
<1>9. ASSUME NEW t \in Sessions PROVE SessionBegun(t)'
  <2>1. SessionBegun(t)
    BY DEF BeginInv
  <2>2. CASE t = s
    BY <1>1, <1>6, <1>7, <1>8, <2>1, <2>2 DEF SessionBegun, Tells
  <2>3. CASE t # s
    BY <1>1, <1>7, <2>1, <2>3, BegunFrame
  <2>4. QED
    BY <2>2, <2>3
<1>10. ASSUME NEW q \in Procs, Early(client[q])
       PROVE  /\ client[q].session \in Sessions \ {s}
  <2>1. CommandBegun(client[q]) /\ CommandOK(q, client[q])
    BY DEF BeginInv, BrowseInv
  <2>2. client[q].session \in Sessions
    BY <1>10, <2>1 DEF CommandOK, Launched, Served, Serving, Early, Beginning
  <2>3. doing[client[q].session] = None
    BY <1>10, <2>1 DEF CommandBegun
  <2>4. QED
    BY <1>1, <2>2, <2>3
<1>11. ASSUME NEW q \in Procs, client'[q] = client[q] PROVE CommandBegun(client[q])'
  <2>1. CommandBegun(client[q]) /\ CommandOK(q, client[q])
    BY DEF BeginInv, BrowseInv
  <2>2. client[q].at = "recover" \/ Asking(client[q]) \/ Holding(client[q]) =>
           client[q].session \in Sessions
    BY <2>1 DEF CommandOK, Served, Serving
  <2>3. Early(client[q]) =>
           log'[client[q].session] = <<>> /\ doing'[client[q].session] = None
    BY <1>7, <1>10, <2>1 DEF CommandBegun
  <2>4. client[q].at = "recover" \/ Asking(client[q]) \/ Holding(client[q]) =>
           (Tells(client[q].session, client[q].copy))'
    BY <1>8, <1>11, <2>1, <2>2 DEF CommandBegun, Tells
  <2>5. QED
    BY <1>8, <1>11, <2>1, <2>2, <2>3, <2>4
       DEF CommandBegun, Early, Beginning, Launching, Asking, Holding
<1>12. PICK c : c = [client[p] EXCEPT !.at = "publish", !.for = "action", !.reply = r]
  OBVIOUS
<1>13. /\ c.at = "publish" /\ c.for = "action" /\ c.reply = r /\ c.session = client[p].session
       /\ c.copy = client[p].copy /\ c.verb = client[p].verb
  BY <1>12 DEF BrowseInv, Types, Clients
<1>14. /\ \A q \in Procs \ {p} : client'[q] = client[q]
       /\ \/ client'[p] = client[p]
          \/ client'[p] = Idle
          \/ client'[p] = c /\ told /\ client[p].at = "wait" /\ client[p].session = s
  BY <1>5, <1>12 DEF Leave, At, BrowseInv, Types
<1>15. CommandBegun(client[p])'
  <2>1. CASE client'[p] = client[p]
    BY <1>11, <2>1
  <2>2. CASE client'[p] = Idle
    <3>1. client'[p].at = "idle"
      BY <2>2 DEF Idle
    <3>2. QED
      BY <3>1 DEF CommandBegun, Early, Beginning, Launching, Asking, Holding
  <2>3. CASE client'[p] = c /\ told /\ client[p].at = "wait" /\ client[p].session = s
    <3>1. CommandBegun(client[p])
      BY DEF BeginInv
    <3>2. Written(r.log) /\ log'[s] # <<>>
      BY <1>5, <1>6, <1>7, <2>3 DEF Written
    <3>3. Tells(s, c.copy)' /\ (c.verb # "start" => c.copy.head # <<>>)
      BY <1>8, <1>13, <2>3, <3>1 DEF CommandBegun, Tells, Asking
    <3>4. QED
      BY <1>13, <2>3, <3>2, <3>3 DEF CommandBegun, Early, Beginning, Launching, Asking, Holding
  <2>4. QED
    BY <1>14, <2>1, <2>2, <2>3
<1>16. OneBeginner'
  <2>1. Idle.at = "idle"
    BY DEF Idle
  <2>2. \A q \in Procs : Beginning(client'[q]) => client'[q] = client[q]
    BY <1>13, <1>14, <2>1 DEF Beginning, Launching, Asking
  <2>3. \A q, t \in Procs :
           Beginning(client'[q]) /\ Beginning(client'[t]) /\ client'[q].session = client'[t].session
              => q = t
    BY <2>2 DEF BeginInv, OneBeginner
  <2>4. QED
    BY <2>3 DEF OneBeginner, Beginning, Launching, Asking
<1>17. \A q \in Procs : CommandBegun(client[q])'
  BY <1>11, <1>14, <1>15
<1>18. QED
  BY <1>9, <1>16, <1>17 DEF BeginInv

LEMMA NextBegins ==
    ~EarlyCommands /\ BrowseInv /\ BeginInv /\ [Next]_vars => BeginInv'
<1> SUFFICES ASSUME ~EarlyCommands, BrowseInv, BeginInv, [Next]_vars PROVE BeginInv'
  OBVIOUS
<1>1. CASE UNCHANGED vars
  <2>1. /\ log' = log /\ pending' = pending /\ doing' = doing /\ trace' = trace
        /\ state' = state /\ client' = client
    BY <1>1 DEF vars, driverVars, diskVars
  <2>2. \A s \in Sessions : SessionBegun(s)'
    BY <2>1, BegunFrame DEF BeginInv
  <2>3. \A q \in Procs : CommandBegun(client[q])'
    BY <2>1 DEF BeginInv, CommandBegun, Tells, Early, Beginning, Launching, Asking, Holding
  <2>4. OneBeginner'
    BY <2>1 DEF BeginInv, OneBeginner, Beginning, Launching, Asking
  <2>5. QED
    BY <2>2, <2>3, <2>4 DEF BeginInv
<1>2. ASSUME NEW p \in Procs, LockTaken(p) \/ Slow(p) \/ Crash(p) PROVE BeginInv'
  <2>1. /\ log' = log /\ pending' = pending /\ doing' = doing /\ trace' = trace
        /\ state' = state /\ Leave(p)
    BY <1>2 DEF LockTaken, Slow, Crash, driverVars, diskVars
  <2>2. QED
    BY <2>1, LeavesBegun
<1>3. ASSUME NEW p \in Procs, Step(p) \/ Start(p) PROVE BeginInv'
  BY <1>2, <1>3, OpenSessionBegins, LaunchBegins, ConnectBegins, RecoverBegins, AskPendingBegins,
     ActBegins, AckBegins, PublishTraceBegins, PublishStateBegins, PublishBudgetBegins,
     FinishBegins, StartBegins
     DEF Step
<1>4. QED
  BY <1>1, <1>2, <1>3, CommandBegins, ExecuteBegins, DriverDiesBegins DEF Next

\* Once no command reaches a session before its start event, every seal that is published is one
\* verifyBrowseSession accepts: two events at least, the only start first, the only end last.
THEOREM SealedVerifies ==
    ASSUME ~EarlyCommands PROVE Spec => []SealedSessionVerifies
<1>1. Init => BeginInv
  <2>1. SUFFICES ASSUME Init PROVE BeginInv
    OBVIOUS
  <2>2. /\ \A s \in Sessions : log[s] = <<>> /\ pending[s] = None
              /\ doing[s] = None /\ trace[s] = <<>> /\ state[s] = None
        /\ \A p \in Procs : client[p] = Idle
    BY <2>1 DEF Init
  <2>3. Idle.at = "idle" /\ Begins(<<>>)
    BY DEF Idle, Begins
  <2>4. \A s \in Sessions : SessionBegun(s)
    BY <2>2, <2>3 DEF SessionBegun
  <2>5. QED
    BY <2>2, <2>3, <2>4
       DEF BeginInv, CommandBegun, OneBeginner, Early, Beginning, Launching, Asking, Holding
<1>2. BrowseInv /\ BeginInv => SealedSessionVerifies
  <2>1. SUFFICES ASSUME BrowseInv, BeginInv, NEW s \in Sessions,
                        state[s] # None, state[s].seal # None
                 PROVE  Verifies(s)
    BY DEF SealedSessionVerifies
  <2>2. PICK l \in Seq(Events) : l = trace[s]
    BY <2>1 DEF BrowseInv, Types
  <2>3. state[s].seal = l /\ EndIsLast(l) /\ Ended(l) /\ Begins(l)
    BY <2>1, <2>2 DEF BrowseInv, SessionOK, Closed, BeginInv, SessionBegun
  <2>4. "start" \notin Ends
    BY BrowseAssumption DEF Ends
  <2>5. Len(l) \in Nat /\ Len(l) # 0
    BY <2>3, EmptySeq DEF Ended
  <2>6. Len(l) >= 2
    BY <2>3, <2>4, <2>5 DEF Begins, Ended
  <2>7. \A i \in DOMAIN l : (l[i] = "start" <=> i = 1) /\ (l[i] \in Ends => i = Len(l))
    <3>1. \A i \in 1..Len(l) : (l[i] = "start" <=> i = 1) /\ (l[i] \in Ends => i = Len(l))
      BY <2>3 DEF Begins, EndIsLast
    <3>2. DOMAIN l = 1..Len(l)
      OBVIOUS
    <3>3. ASSUME NEW i \in DOMAIN l PROVE i \in 1..Len(l)
      BY <3>2, <3>3
    <3>4. QED
      BY <3>1, <3>3
  <2>8. /\ trace[s] = state[s].seal /\ Len(state[s].seal) >= 2
        /\ \A i \in DOMAIN state[s].seal :
              /\ (state[s].seal[i] = "start") <=> (i = 1)
              /\ state[s].seal[i] \in Ends => i = Len(state[s].seal)
    <3>1. state[s].seal = l
      BY <2>3
    <3>2. trace[s] = l
      BY <2>2
    <3>3. QED
      BY <2>6, <2>7, <3>1, <3>2
  <2>9. QED
    BY <2>8 DEF Verifies
<1>3. BrowseInv /\ BeginInv /\ [Next]_vars => BeginInv'
  BY NextBegins
<1>4. QED
  BY <1>1, <1>2, <1>3, BrowseInvariant, PTL DEF Spec

-----------------------------------------------------------------------------
(* What a dead driver leaves.  When the user keeps nothing, a reply without  *)
(* a checkpoint is of a refused action and adds no event: what it publishes  *)
(* is on disk already.  A checkpoint falls behind the trace only between the  *)
(* two files of one publication, by a command that holds the lock.           *)

\* A reply whose events its own checkpoint certifies, or that has none.
Certified(r) == r.checkpoint \/ r.first > Len(r.log)

RepliesCertified ==
    /\ \A s \in Sessions : pending[s] # None => Certified(pending[s])
    /\ \A p \in Procs : Holding(client[p]) => Certified(client[p].reply)

\* Between the trace and the state a command holds the checkpoint of what it wrote.
AtState(c) == c.at = "state" /\ c.reply.checkpoint
Carried(c) == AtState(c) => c.reply.log = trace[c.session]

Recoverable(s) ==
    state[s] # None /\ state[s].checkpoint # None =>
        \/ state[s].checkpoint.log = trace[s]
        \/ \E p \in Procs : AtState(client[p]) /\ client[p].session = s

RecoverInv ==
    /\ RepliesCertified
    /\ \A p \in Procs : Carried(client[p])
    /\ crashes = 0 => \A s \in Sessions : Recoverable(s)

\* What an action records carries its checkpoint unless it is refused.
LEMMA RecordingCertified ==
    ASSUME "keep" \notin Verbs, NEW s \in Sessions, NEW verb \in Verbs \cup {"start"},
           NEW done \in Recordings(s, verb)
    PROVE  done.checkpoint = TRUE \/ done.events = <<>>
<1>1. CASE done = Refused
  BY <1>1 DEF Refused
<1>2. CASE done # Refused
  <2>1. ~(Sealed(s) \/ (verb # "end" /\ Len(log[s]) >= MaxEvents))
    BY <1>2 DEF Recordings
  <2>2. CASE verb = "end"
    <3>1. done = Recorded(<<"end">>)
      BY <2>1, <2>2 DEF Recordings
    <3>2. QED
      BY <3>1 DEF Recorded
  <2>3. CASE verb = "start"
    <3>1. done = Recorded(<<"start">>)
      BY <2>1, <2>3 DEF Recordings
    <3>2. QED
      BY <3>1 DEF Recorded
  <2>4. CASE verb = "browse"
    <3>1. done = Recorded(<<"act">>)
      BY <1>2, <2>1, <2>4 DEF Recordings
    <3>2. QED
      BY <3>1 DEF Recorded
  <2>5. QED
    BY <2>2, <2>3, <2>4, BrowseAssumption
<1>3. QED
  BY <1>1, <1>2

\* The reply of one execution.
LEMMA ExecuteCertified ==
    ASSUME "keep" \notin Verbs, BrowseInv, RepliesCertified, NEW s \in Sessions, Execute(s)
    PROVE  /\ RepliesCertified'
           /\ \A q \in Procs :
                 client[q].at = "state" \/ client'[q].at = "state" => client'[q] = client[q]
<1>1. doing[s] # None
  BY DEF Execute
<1>2. PICK p \in Procs, verb \in Verbs \cup {"start"} : doing[s][1] = p /\ doing[s][2] = verb
  BY <1>1 DEF BrowseInv, Types
<1>3. PICK r, told :
         /\ Certified(r)
         /\ pending' = [pending EXCEPT ![s] = IF told THEN r ELSE None]
         /\ IF At(p, "wait") /\ client[p].session = s
              THEN IF told
                     THEN client' = [client EXCEPT ![p].at = "publish",
                                       ![p].for = "action", ![p].reply = r]
                     ELSE Leave(p)
              ELSE UNCHANGED client
  <2>1. PICK done \in Recordings(s, doing[s][2]) :
         LET reply == [log |-> log[s] \o done.events, first |-> Len(log[s]) + 1,
                       checkpoint |-> done.checkpoint, seal |-> doing[s][2] = "end",
                       used |-> used[s] + IF "act" \in Range(done.events) THEN 1 ELSE 0]
             told == done.events # <<>> \/ reply.seal
         IN /\ log' = [log EXCEPT ![s] = reply.log]
            /\ used' = [used EXCEPT ![s] = reply.used]
            /\ pending' = [pending EXCEPT ![s] = IF told THEN reply ELSE None]
            /\ IF At(doing[s][1], "wait") /\ client[doing[s][1]].session = s
                 THEN IF told
                        THEN client' = [client EXCEPT ![doing[s][1]].at = "publish",
                                          ![doing[s][1]].for = "action",
                                          ![doing[s][1]].reply = reply]
                        ELSE Leave(doing[s][1])
                 ELSE UNCHANGED client
    BY DEF Execute
  <2>2. PICK b \in BOOLEAN : b = (verb = "end")
    OBVIOUS
  <2>3. PICK u, f, k : /\ u = log[s] \o done.events /\ f = Len(log[s]) + 1
                       /\ k = used[s] + IF "act" \in Range(done.events) THEN 1 ELSE 0
    OBVIOUS
  <2> DEFINE r == [log |-> u, first |-> f, checkpoint |-> done.checkpoint, seal |-> b,
                   used |-> k]
             told == done.events # <<>> \/ b
  <2>4. r.log = u /\ r.first = f /\ r.checkpoint = done.checkpoint
    OBVIOUS
  <2>5. /\ pending' = [pending EXCEPT ![s] = IF told THEN r ELSE None]
        /\ IF At(p, "wait") /\ client[p].session = s
             THEN IF told
                    THEN client' = [client EXCEPT ![p].at = "publish",
                                      ![p].for = "action", ![p].reply = r]
                    ELSE Leave(p)
             ELSE UNCHANGED client
    BY <1>2, <2>1, <2>2, <2>3
  <2> HIDE DEF r, told
  <2>6. done.checkpoint = TRUE \/ done.events = <<>>
    BY <1>2, RecordingCertified
  <2>7. log[s] \in Seq(Events) /\ Len(log[s]) \in Nat
    BY DEF BrowseInv, Types
  <2>8. done.events = <<>> => u = log[s]
    BY <2>3, <2>7
  <2>9. Certified(r)
    <3>1. CASE done.checkpoint = TRUE
      BY <2>4, <3>1 DEF Certified
    <3>2. CASE done.events = <<>>
      <4>1. r.first > Len(r.log)
        BY <2>3, <2>4, <2>7, <2>8, <3>2
      <4>2. QED
        BY <4>1 DEF Certified
    <3>3. QED
      BY <2>6, <3>1, <3>2
  <2>10. QED
    BY <2>5, <2>9
<1>4. PICK c : c = [client[p] EXCEPT !.at = "publish", !.for = "action", !.reply = r]
  OBVIOUS
<1>5. c.at = "publish" /\ c.reply = r
  BY <1>4 DEF BrowseInv, Types, Clients
<1>6. /\ \A q \in Procs \ {p} : client'[q] = client[q]
      /\ client'[p] \in {client[p], Idle, c}
  BY <1>3, <1>4 DEF Leave, BrowseInv, Types
<1>7. Idle.at = "idle"
  BY DEF Idle
<1>8. \A t \in Sessions : pending'[t] # None => pending'[t] \in {r, pending[t]}
  BY <1>3 DEF BrowseInv, Types
<1>9. \A t \in Sessions : pending'[t] # None => Certified(pending'[t])
  BY <1>3, <1>8 DEF RepliesCertified
<1>10. ASSUME NEW q \in Procs, Holding(client'[q]) PROVE Certified(client'[q].reply)
  <2>1. CASE client'[q] = client[q]
    BY <1>10, <2>1 DEF RepliesCertified
  <2>2. CASE client'[q] # client[q]
    BY <1>3, <1>5, <1>6, <1>7, <1>10, <2>2 DEF Holding
  <2>3. QED
    BY <2>1, <2>2
<1>11. \A q \in Procs :
          client[q].at = "state" \/ client'[q].at = "state" => client'[q] = client[q]
  BY <1>3, <1>5, <1>6, <1>7 DEF At
<1>12. QED
  BY <1>9, <1>10, <1>11 DEF RepliesCertified, Certified, Holding

\* A step that gives no command a new reply keeps the replies.
LEMMA RepliesFrame ==
    ASSUME RepliesCertified,
           \A s \in Sessions : pending'[s] \in {pending[s], None},
           \A q \in Procs :
              Holding(client'[q]) =>
                 \/ Certified(client'[q].reply)
                 \/ Holding(client[q]) /\ client'[q].reply = client[q].reply
    PROVE  RepliesCertified'
<1>1. \A s \in Sessions : pending'[s] # None => Certified(pending'[s])
  BY DEF RepliesCertified
<1>2. \A q \in Procs : Holding(client'[q]) => Certified(client'[q].reply)
  BY DEF RepliesCertified
<1>3. QED
  BY <1>1, <1>2 DEF RepliesCertified, Certified, Holding

LEMMA NextCertified ==
    ASSUME "keep" \notin Verbs, BrowseInv, RepliesCertified, Next
    PROVE  RepliesCertified'
<1>1. Types
  BY DEF BrowseInv
<1>2. Idle.at = "idle"
  BY DEF Idle
<1>3. ASSUME NEW p \in Procs, NEW c, c.at \notin {"publish", "state", "budget", "ack", "finish"},
             client'[p] = c, \A q \in Procs \ {p} : client'[q] = client[q], pending' = pending
      PROVE  RepliesCertified'
  BY <1>3, RepliesFrame DEF Holding
<1>4. ASSUME NEW p \in Procs, Leave(p), pending' = pending PROVE RepliesCertified'
  <2>1. client'[p] = Idle /\ \A q \in Procs \ {p} : client'[q] = client[q]
    BY <1>1, <1>4 DEF Leave, Types
  <2>2. QED
    BY <1>2, <1>3, <1>4, <2>1
<1>5. ASSUME NEW p \in Procs, NEW point \in Points, Goto(p, point), pending' = pending,
             \/ Holding(client[p])
             \/ point \notin {"publish", "state", "budget", "ack", "finish"}
      PROVE  RepliesCertified'
  <2>1. PICK c : c = [client[p] EXCEPT !.at = point]
    OBVIOUS
  <2>2. c.at = point /\ c.reply = client[p].reply
    BY <1>1, <2>1 DEF Types, Clients
  <2>3. client'[p] = c /\ \A q \in Procs \ {p} : client'[q] = client[q]
    BY <1>1, <1>5, <2>1 DEF Goto, Types
  <2>4. QED
    BY <1>5, <2>2, <2>3, RepliesFrame DEF Holding
<1>6. ASSUME NEW p \in Procs, LockTaken(p) \/ Slow(p) \/ Crash(p) PROVE RepliesCertified'
  BY <1>4, <1>6 DEF LockTaken, Slow, Crash, driverVars
<1>7. ASSUME NEW p \in Procs, NEW v \in Verbs, NEW s \in Sessions, Command(p, v, s)
      PROVE  RepliesCertified'
  <2>1. pending' = pending
    BY <1>7 DEF Command, driverVars
  <2>2. PICK point \in {"finish", "recover", "pending"} :
           client' = [client EXCEPT ![p] =
              [Idle EXCEPT !.at = point, !.verb = v, !.for = "end",
                           !.session = s, !.copy = state[s]]]
    BY <1>7 DEF Command
  <2>3. PICK c : c = [Idle EXCEPT !.at = point, !.verb = v, !.for = "end",
                                  !.session = s, !.copy = state[s]]
    OBVIOUS
  <2>4. c.at = point /\ c.for = "end"
    BY <2>3 DEF Idle
  <2>5. client'[p] = c /\ \A q \in Procs \ {p} : client'[q] = client[q]
    BY <1>1, <2>2, <2>3 DEF Types
  <2>6. QED
    BY <2>1, <2>4, <2>5, RepliesFrame DEF Holding
<1>8. ASSUME NEW p \in Procs, Start(p) PROVE RepliesCertified'
  <2>1. pending' = pending
    BY <1>8 DEF Start, driverVars
  <2>2. /\ client'[p].at \in {"recover", "open"}
        /\ \A q \in Procs \ {p} : client'[q] = client[q]
    <3>1. CASE client' = [client EXCEPT ![p] =
                [Idle EXCEPT !.at = "recover", !.verb = "start", !.for = "start",
                             !.session = current, !.copy = state[current]]]
      <4>1. PICK c : c = [Idle EXCEPT !.at = "recover", !.verb = "start", !.for = "start",
                                      !.session = current, !.copy = state[current]]
        OBVIOUS
      <4>2. c.at = "recover"
        BY <4>1 DEF Idle
      <4>3. client'[p] = c /\ \A q \in Procs \ {p} : client'[q] = client[q]
        BY <1>1, <3>1, <4>1 DEF Types
      <4>4. QED
        BY <4>2, <4>3
    <3>2. CASE client' = [client EXCEPT ![p].at = "open", ![p].verb = "start"]
      <4>1. PICK c : c = [client[p] EXCEPT !.at = "open", !.verb = "start"]
        OBVIOUS
      <4>2. c.at = "open"
        BY <1>1, <4>1 DEF Types, Clients
      <4>3. client'[p] = c /\ \A q \in Procs \ {p} : client'[q] = client[q]
        BY <1>1, <3>2, <4>1 DEF Types
      <4>4. QED
        BY <4>2, <4>3
    <3>3. QED
      BY <1>8, <3>1, <3>2 DEF Start
  <2>3. QED
    BY <1>3, <2>1, <2>2
<1>9. ASSUME NEW p \in Procs, OpenSession(p) PROVE RepliesCertified'
  <2>1. pending' = pending
    BY <1>9 DEF OpenSession
  <2>2. ASSUME NEW s \in Sessions, NewSession(p, s) PROVE RepliesCertified'
    <3>1. PICK c : c = [client[p] EXCEPT !.at = "launch", !.session = s, !.copy = Fresh]
      OBVIOUS
    <3>2. c.at = "launch"
      BY <1>1, <3>1 DEF Types, Clients
    <3>3. client'[p] = c /\ \A q \in Procs \ {p} : client'[q] = client[q]
      BY <1>1, <2>2, <3>1 DEF NewSession, Types
    <3>4. QED
      BY <1>3, <2>1, <3>2, <3>3
  <2>3. QED
    BY <1>4, <1>9, <2>1, <2>2 DEF OpenSession
<1>10. ASSUME NEW p \in Procs, Launch(p) PROVE RepliesCertified'
  BY <1>4, <1>5, <1>10 DEF Launch, Points
<1>11. ASSUME NEW p \in Procs, Connect(p) PROVE RepliesCertified'
  <2>1. PICK n : n = [client[p].copy EXCEPT !.connected = TRUE]
    OBVIOUS
  <2>2. PICK c : c = [client[p] EXCEPT !.at = "pending", !.copy = n]
    OBVIOUS
  <2>3. c.at = "pending"
    BY <1>1, <2>2 DEF Types, Clients
  <2>4. client'[p] = c /\ \A q \in Procs \ {p} : client'[q] = client[q]
    BY <1>1, <1>11, <2>1, <2>2 DEF Connect, Types
  <2>5. QED
    BY <1>3, <1>11, <2>3, <2>4 DEF Connect, driverVars
<1>12. ASSUME NEW p \in Procs, NEW c, NEW r, Certified(r), c.reply = r, pending' = pending,
              client'[p] = c, \A q \in Procs \ {p} : client'[q] = client[q]
       PROVE  RepliesCertified'
  BY <1>12, RepliesFrame
<1>13. ASSUME NEW p \in Procs, Recover(p) PROVE RepliesCertified'
  <2>1. pending' = pending
    BY <1>13 DEF Recover, driverVars
  <2>2. PICK k : k = client[p].copy.checkpoint
    OBVIOUS
  <2>3. PICK r : r = [log |-> Append(k.log, p), first |-> Len(k.log) + 1,
                      checkpoint |-> TRUE, seal |-> TRUE, used |-> k.used]
    OBVIOUS
  <2>4. Certified(r)
    BY <2>3 DEF Certified
  <2>5. PICK c : c = [client[p] EXCEPT !.at = "publish", !.reply = r]
    OBVIOUS
  <2>6. c.reply = r
    BY <1>1, <2>5 DEF Types, Clients
  <2>7. \/ Leave(p)
        \/ client'[p] = c /\ \A q \in Procs \ {p} : client'[q] = client[q]
    BY <1>1, <1>13, <2>2, <2>3, <2>5 DEF Recover, Types
  <2>8. QED
    BY <1>4, <1>12, <2>1, <2>4, <2>6, <2>7
<1>14. ASSUME NEW p \in Procs, AskPending(p) PROVE RepliesCertified'
  <2>1. pending' = pending /\ client[p].at = "pending"
    BY <1>14 DEF AskPending, driverVars, At
  <2>2. PICK s \in Sessions : s = client[p].session
    BY <2>1 DEF BrowseInv, CommandOK, Served, Serving, Asking
  <2>3. CASE /\ pending[s] # None
             /\ client' = [client EXCEPT ![p].at = "publish", ![p].for = "pending",
                                         ![p].reply = pending[s]]
    <3>1. PICK c : c = [client[p] EXCEPT !.at = "publish", !.for = "pending",
                                         !.reply = pending[s]]
      OBVIOUS
    <3>2. c.reply = pending[s]
      BY <1>1, <3>1 DEF Types, Clients
    <3>3. Certified(pending[s])
      BY <2>3 DEF RepliesCertified
    <3>4. client'[p] = c /\ \A q \in Procs \ {p} : client'[q] = client[q]
      BY <1>1, <2>3, <3>1 DEF Types
    <3>5. QED
      BY <1>12, <2>1, <3>2, <3>3, <3>4
  <2>4. QED
    BY <1>4, <1>5, <1>14, <2>1, <2>2, <2>3 DEF AskPending, Points
<1>15. ASSUME NEW p \in Procs, Act(p) PROVE RepliesCertified'
  BY <1>4, <1>5, <1>15 DEF Act, Points
<1>16. ASSUME NEW p \in Procs, Ack(p) PROVE RepliesCertified'
  <2>1. \A s \in Sessions : pending'[s] \in {pending[s], None}
    <3>1. pending' = pending \/ pending' = [pending EXCEPT ![client[p].session] = None]
      BY <1>16 DEF Ack
    <3>2. QED
      BY <1>1, <3>1 DEF Types
  <2>2. \/ client'[p] = Idle
        \/ client'[p] = [client[p] EXCEPT !.at = "action"]
    BY <1>1, <1>16 DEF Ack, Leave, Goto, Types
  <2>3. \A q \in Procs \ {p} : client'[q] = client[q]
    BY <1>1, <1>16 DEF Ack, Leave, Goto, Types
  <2>4. client'[p].at \in {"idle", "action"}
    BY <1>1, <1>2, <2>2 DEF Types, Clients
  <2>5. QED
    BY <2>1, <2>3, <2>4, RepliesFrame DEF Holding
<1>17. ASSUME NEW p \in Procs, PublishTrace(p) PROVE RepliesCertified'
  BY <1>4, <1>5, <1>17 DEF PublishTrace, driverVars, Points, At, Holding
<1>18. ASSUME NEW p \in Procs, PublishState(p) PROVE RepliesCertified'
  <2>1. pending' = pending /\ client[p].at = "state" /\ Holding(client[p])
    BY <1>18 DEF PublishState, driverVars, At, Holding
  <2>2. PICK n : client' = [client EXCEPT ![p].at = "budget", ![p].copy = n]
    BY <1>18 DEF PublishState
  <2>3. PICK c : c = [client[p] EXCEPT !.at = "budget", !.copy = n]
    OBVIOUS
  <2>4. PICK r : r = client[p].reply
    OBVIOUS
  <2>5. c.reply = r /\ Certified(r)
    BY <1>1, <2>1, <2>3, <2>4 DEF Types, Clients, RepliesCertified
  <2>6. client'[p] = c /\ \A q \in Procs \ {p} : client'[q] = client[q]
    BY <1>1, <2>2, <2>3 DEF Types
  <2>7. QED
    BY <1>12, <2>1, <2>5, <2>6
<1>19. ASSUME NEW p \in Procs, PublishBudget(p) PROVE RepliesCertified'
  <2>1. Holding(client[p]) /\ pending' = pending
    BY <1>19 DEF PublishBudget, driverVars, At, Holding
  <2>2. \E point \in {"finish", "ack"} : Goto(p, point)
    BY <1>19 DEF PublishBudget
  <2>3. QED
    BY <1>5, <2>1, <2>2 DEF Points
<1>20. ASSUME NEW p \in Procs, Finish(p) PROVE RepliesCertified'
  <2>1. pending' = pending /\ client[p].at = "finish" /\ client[p] \in Clients
        /\ CommandOK(p, client[p])
    BY <1>20 DEF Finish, driverVars, At, BrowseInv, Types
  <2>2. CASE client' = [client EXCEPT ![p] = [Idle EXCEPT !.at = "open", !.verb = "start"]]
    <3>1. PICK c : c = [Idle EXCEPT !.at = "open", !.verb = "start"]
      OBVIOUS
    <3>2. c.at = "open"
      BY <3>1 DEF Idle
    <3>3. client'[p] = c /\ \A q \in Procs \ {p} : client'[q] = client[q]
      BY <1>1, <2>2, <3>1 DEF Types
    <3>4. QED
      BY <1>3, <2>1, <3>2, <3>3
  <2>3. CASE Goto(p, "ack") /\ client[p].for \notin {"start", "end"}
    <3>1. Holding(client[p])
      BY <2>1, <2>3 DEF CommandOK, Served, Serving, Holding, Clients
    <3>2. QED
      BY <1>5, <2>1, <2>3, <3>1 DEF Points
  <2>4. QED
    BY <1>4, <1>20, <2>1, <2>2, <2>3 DEF Finish
<1>21. ASSUME NEW s \in Sessions, DriverDies(s) PROVE RepliesCertified'
  <2>1. \A t \in Sessions : pending'[t] \in {pending[t], None}
    BY <1>1, <1>21 DEF DriverDies, Types
  <2>2. \A q \in Procs : client'[q] = client[q] \/ client'[q].at = "idle"
    BY <1>2, <1>21 DEF DriverDies
  <2>3. QED
    BY <2>1, <2>2, RepliesFrame DEF Holding
<1>22. ASSUME NEW p \in Procs, Step(p) PROVE RepliesCertified'
  BY <1>6, <1>9, <1>10, <1>11, <1>13, <1>14, <1>15, <1>16, <1>17, <1>18, <1>19, <1>20, <1>22
     DEF Step
<1>23. QED
  BY <1>6, <1>7, <1>8, <1>21, <1>22, ExecuteCertified DEF Next

\* A step that writes neither the trace nor the state, and leaves the publishing alone.
LEMMA RecoverableFrame ==
    ASSUME RecoverInv, RepliesCertified', trace' = trace, state' = state,
           \A q \in Procs : client'[q].at = "state" => client'[q] = client[q],
           crashes' = 0 =>
              /\ crashes = 0
              /\ \A q \in Procs : client[q].at = "state" => client'[q] = client[q]
    PROVE  RecoverInv'
<1>1. \A q \in Procs : Carried(client[q])'
  BY DEF RecoverInv, Carried, AtState
<1>2. ASSUME crashes' = 0 PROVE \A s \in Sessions : Recoverable(s)'
  <2>1. \A s \in Sessions : Recoverable(s)
    BY <1>2 DEF RecoverInv
  <2>2. QED
    BY <1>2, <2>1 DEF Recoverable, AtState
<1>3. QED
  BY <1>1, <1>2 DEF RecoverInv

\* A reply without a checkpoint fits only a trace that holds it already.
LEMMA PublishTraceRecovers ==
    ASSUME BrowseInv, RecoverInv, RepliesCertified', NEW p \in Procs, PublishTrace(p)
    PROVE  RecoverInv'
<1>1. state' = state /\ crashes' = crashes
  BY DEF PublishTrace
<1>2. client[p].at = "publish" /\ Holding(client[p]) /\ client[p] \in Clients
  BY DEF PublishTrace, At, Holding, BrowseInv, Types
<1>3. PICK s \in Sessions : s = client[p].session
  BY <1>2, ReplyFacts
<1>4. PICK r : r = client[p].reply
  OBVIOUS
<1>5. /\ r \in Replies /\ r.log \in Seq(Events) /\ Len(r.log) \in Nat /\ r.first \in Nat
      /\ trace[s] \in Seq(Events) /\ Len(trace[s]) \in Nat
  BY <1>2, <1>4, ReplyFacts DEF Replies, BrowseInv, Types
<1>6. CASE Leave(p) /\ trace' = trace
  <2>1. client'[p] = Idle /\ \A q \in Procs \ {p} : client'[q] = client[q]
    BY <1>6 DEF Leave, BrowseInv, Types
  <2>2. client'[p].at = "idle"
    BY <2>1 DEF Idle
  <2>3. QED
    BY <1>1, <1>2, <1>6, <2>1, <2>2, RecoverableFrame
<1>7. PICK new : new = IF IsPrefix(trace[s], r.log) THEN r.log ELSE trace[s]
  OBVIOUS
<1>8. CASE /\ lockHolder = None /\ Fits(s, client[p].copy.head, r)
           /\ Goto(p, "state") /\ trace' = [trace EXCEPT ![s] = new]
  <2>1. trace'[s] = new /\ \A t \in Sessions \ {s} : trace'[t] = trace[t]
    BY <1>8 DEF BrowseInv, Types
  <2>2. PICK c : c = [client[p] EXCEPT !.at = "state"]
    OBVIOUS
  <2>3. c.at = "state" /\ c.session = s /\ c.reply = r
    BY <1>2, <1>3, <1>4, <2>2 DEF Clients
  <2>4. client'[p] = c /\ \A q \in Procs \ {p} : client'[q] = client[q]
    BY <1>8, <2>2 DEF Goto, BrowseInv, Types
  <2>5. \A q \in Procs : client[q].at # "state"
    BY <1>8, ProjectLockAssumption DEF BrowseInv, CommandOK, Writing
  <2>6. r.checkpoint => new = r.log
    BY <1>7, <1>8 DEF Fits
  <2>7. ASSUME ~r.checkpoint PROVE new = trace[s]
    <3>1. r.first > Len(r.log)
      BY <1>2, <1>4, <2>7 DEF RecoverInv, RepliesCertified, Certified
    <3>2. CASE IsPrefix(trace[s], r.log) /\ Len(trace[s]) + 1 >= r.first
      <4>1. /\ Len(trace[s]) <= Len(r.log)
            /\ \A i \in 1..Len(trace[s]) : trace[s][i] = r.log[i]
        BY <1>5, <3>2, PrefixMeans
      <4>2. Len(trace[s]) = Len(r.log)
        BY <1>5, <3>1, <3>2, <4>1
      <4>3. trace[s] = r.log
        BY <1>5, <4>1, <4>2, SeqEqual
      <4>4. QED
        BY <1>7, <4>3
    <3>3. CASE IsPrefix(r.log, trace[s])
      <4>1. CASE IsPrefix(trace[s], r.log)
        <5>1. /\ Len(trace[s]) <= Len(r.log) /\ Len(r.log) <= Len(trace[s])
              /\ \A i \in 1..Len(trace[s]) : trace[s][i] = r.log[i]
          BY <1>5, <3>3, <4>1, PrefixMeans
        <5>2. trace[s] = r.log
          BY <1>5, <5>1, SeqEqual
        <5>3. QED
          BY <1>7, <5>2
      <4>2. QED
        BY <1>7, <4>1
    <3>4. QED
      BY <1>8, <3>2, <3>3 DEF Fits
  <2>8. \A q \in Procs : Carried(client[q])'
    BY <1>3, <2>1, <2>3, <2>4, <2>5, <2>6 DEF Carried, AtState
  <2>9. ASSUME crashes' = 0, NEW t \in Sessions PROVE Recoverable(t)'
    <3>1. Recoverable(t) /\ \A q \in Procs : ~AtState(client[q])
      BY <1>1, <2>5, <2>9 DEF RecoverInv, AtState
    <3>2. CASE t # s \/ ~r.checkpoint
      <4>1. trace'[t] = trace[t]
        BY <2>1, <2>7, <3>2
      <4>2. QED
        BY <1>1, <3>1, <4>1 DEF Recoverable
    <3>3. CASE t = s /\ r.checkpoint
      BY <2>3, <2>4, <3>3 DEF Recoverable, AtState
    <3>4. QED
      BY <3>2, <3>3
  <2>10. QED
    BY <2>8, <2>9 DEF RecoverInv
<1>9. QED
  BY <1>3, <1>4, <1>6, <1>7, <1>8 DEF PublishTrace

\* The checkpoint that is filed is of the trace, and the one that is kept still was.
LEMMA PublishStateRecovers ==
    ASSUME BrowseInv, RecoverInv, RepliesCertified', NEW p \in Procs, PublishState(p)
    PROVE  RecoverInv'
<1>1. trace' = trace /\ crashes' = crashes
  BY DEF PublishState
<1>2. client[p].at = "state" /\ Holding(client[p]) /\ client[p] \in Clients
  BY DEF PublishState, At, Holding, BrowseInv, Types
<1>3. PICK s \in Sessions : s = client[p].session
  BY <1>2, ReplyFacts
<1>4. PICK r : r = client[p].reply
  OBVIOUS
<1>5. state[s] \in States /\ r \in Replies /\ state[s] # None
  BY <1>2, <1>3, <1>4, ReplyFacts, BrowseAssumption
<1>6. PICK x : x = IF r.checkpoint THEN [log |-> r.log, used |-> r.used]
                                  ELSE state[s].checkpoint
  OBVIOUS
<1>7. PICK n : n = [state[s] EXCEPT !.head = r.log, !.checkpoint = x,
                                    !.seal = IF r.seal THEN r.log ELSE state[s].seal]
  OBVIOUS
<1>8. n.checkpoint = x
  BY <1>5, <1>7 DEF States
<1>9. state' = [state EXCEPT ![s] = n]
      /\ client' = [client EXCEPT ![p].at = "budget", ![p].copy = n]
  BY <1>3, <1>4, <1>6, <1>7 DEF PublishState
<1>10. state'[s] = n /\ \A t \in Sessions \ {s} : state'[t] = state[t]
  BY <1>9 DEF BrowseInv, Types
<1>11. PICK c : c = [client[p] EXCEPT !.at = "budget", !.copy = n]
  OBVIOUS
<1>12. c.at = "budget"
  BY <1>2, <1>11 DEF Clients
<1>13. client'[p] = c /\ \A q \in Procs \ {p} : client'[q] = client[q]
  BY <1>9, <1>11 DEF BrowseInv, Types
<1>14. \A q \in Procs \ {p} : client[q].at # "state"
  <2>1. \A q \in Procs : client[q].at = "state" => lockHolder = q
    BY DEF BrowseInv, CommandOK, Writing
  <2>2. QED
    BY <1>2, <2>1
<1>15. \A q \in Procs : Carried(client[q])'
  BY <1>12, <1>13, <1>14 DEF Carried, AtState
<1>16. ASSUME crashes' = 0, NEW t \in Sessions PROVE Recoverable(t)'
  <2>1. Recoverable(t)
    BY <1>1, <1>16 DEF RecoverInv
  <2>2. CASE t = s /\ r.checkpoint
    <3>1. trace[s] = r.log
      BY <1>2, <1>3, <1>4, <2>2 DEF RecoverInv, Carried, AtState
    <3>2. n.checkpoint.log = trace[s]
      BY <1>6, <1>8, <2>2, <3>1
    <3>3. QED
      BY <1>1, <1>10, <2>2, <3>2 DEF Recoverable
  <2>3. CASE t = s /\ ~r.checkpoint
    <3>1. \A q \in Procs : AtState(client[q]) => client[q].session # s
      BY <1>4, <1>14, <2>3 DEF AtState
    <3>2. n.checkpoint = state[s].checkpoint
      BY <1>6, <1>8, <2>3
    <3>3. QED
      BY <1>1, <1>5, <1>10, <2>1, <2>3, <3>1, <3>2 DEF Recoverable
  <2>4. CASE t # s
    <3>1. \A q \in Procs : AtState(client[q]) => client[q].session # t
      BY <1>3, <1>14, <2>4 DEF AtState
    <3>2. QED
      BY <1>1, <1>10, <2>1, <2>4, <3>1 DEF Recoverable
  <2>5. QED
    BY <2>2, <2>3, <2>4
<1>17. QED
  BY <1>15, <1>16 DEF RecoverInv

\* A session that is opened or connected has no checkpoint.
LEMMA NewSessionRecovers ==
    ASSUME BrowseInv, RecoverInv, RepliesCertified', NEW p \in Procs, NEW s \in Sessions,
           NEW n, n.checkpoint = None, trace' = trace, crashes' = crashes,
           state'[s] = n, \A t \in Sessions \ {s} : state'[t] = state[t],
           client[p].at # "state", client'[p].at # "state",
           \A q \in Procs \ {p} : client'[q] = client[q]
    PROVE  RecoverInv'
<1>1. \A q \in Procs : Carried(client[q])'
  BY DEF RecoverInv, Carried, AtState
<1>2. ASSUME crashes' = 0, NEW t \in Sessions PROVE Recoverable(t)'
  <2>1. Recoverable(t)
    BY <1>2 DEF RecoverInv
  <2>2. CASE t = s
    BY <2>2 DEF Recoverable
  <2>3. CASE t # s
    BY <2>1, <2>3 DEF Recoverable, AtState
  <2>4. QED
    BY <2>2, <2>3
<1>3. QED
  BY <1>1, <1>2 DEF RecoverInv

\* Where a command that does not publish goes.
LEMMA Elsewhere ==
    ASSUME BrowseInv, NEW p \in Procs,
           \/ \E v \in Verbs, s \in Sessions : Command(p, v, s)
           \/ Start(p) \/ Slow(p) \/ LockTaken(p) \/ Launch(p) \/ Recover(p)
           \/ AskPending(p) \/ Act(p) \/ Ack(p) \/ PublishBudget(p) \/ Finish(p)
    PROVE  /\ client[p].at # "state" /\ client'[p].at # "state"
           /\ \A q \in Procs \ {p} : client'[q] = client[q]
<1> DEFINE Gone == client'[p].at # "state" /\ \A q \in Procs \ {p} : client'[q] = client[q]
<1>1. client \in [Procs -> Clients]
  BY DEF BrowseInv, Types
<1>2. Leave(p) => Gone
  BY <1>1 DEF Leave, Idle
<1>3. ASSUME NEW point \in Points \ {"state"}, Goto(p, point) PROVE Gone
  BY <1>1, <1>3 DEF Goto, Clients
<1>4. client' = [client EXCEPT ![p] =
         [Idle EXCEPT !.at = "recover", !.verb = "start", !.for = "start",
                      !.session = current, !.copy = state[current]]] => Gone
  BY <1>1 DEF Idle
<1>5. client' = [client EXCEPT ![p].at = "open", ![p].verb = "start"] => Gone
  BY <1>1 DEF Clients
<1>6. client' = [client EXCEPT ![p] = [Idle EXCEPT !.at = "open", !.verb = "start"]] => Gone
  BY <1>1 DEF Idle
<1>7. ASSUME NEW r, client' = [client EXCEPT ![p].at = "publish", ![p].reply = r] PROVE Gone
  BY <1>1, <1>7 DEF Clients
<1>8. ASSUME NEW r,
             client' = [client EXCEPT ![p].at = "publish", ![p].for = "pending", ![p].reply = r]
      PROVE  Gone
  BY <1>1, <1>8 DEF Clients
<1> HIDE DEF Gone
<1>9. ASSUME NEW v \in Verbs, NEW s \in Sessions, Command(p, v, s) PROVE Gone
  <2>1. PICK point \in {"finish", "recover", "pending"} :
           client' = [client EXCEPT ![p] =
              [Idle EXCEPT !.at = point, !.verb = v, !.for = "end",
                           !.session = s, !.copy = state[s]]]
    BY <1>9 DEF Command
  <2>2. QED
    BY <1>1, <2>1 DEF Gone, Idle
<1>10. Start(p) => Gone
  BY <1>4, <1>5 DEF Start
<1>11. Recover(p) => Gone
  BY <1>2, <1>7 DEF Recover
<1>12. AskPending(p) => Gone
  BY <1>2, <1>3, <1>8 DEF AskPending, Points
<1>13. PublishBudget(p) => Gone
  <2>1. PublishBudget(p) => \E point \in {"finish", "ack"} : Goto(p, point)
    BY DEF PublishBudget
  <2>2. QED
    BY <1>3, <2>1 DEF Points
<1>14. Finish(p) => Gone
  BY <1>2, <1>3, <1>6 DEF Finish, Points
<1>15. Slow(p) \/ LockTaken(p) \/ Launch(p) \/ Act(p) \/ Ack(p) => Gone
  BY <1>2, <1>3 DEF Slow, LockTaken, Launch, Act, Ack, Points
<1>16. client[p].at # "state"
  BY DEF Command, Start, Slow, LockTaken, Launch, Recover, AskPending, Act, Ack, PublishBudget,
         Finish, At
<1>17. Gone
  BY <1>9, <1>10, <1>11, <1>12, <1>13, <1>14, <1>15
<1>18. QED
  BY <1>16, <1>17 DEF Gone

LEMMA NextRecovers ==
    ASSUME "keep" \notin Verbs, BrowseInv, RecoverInv, [Next]_vars
    PROVE  RecoverInv'
<1>1. CASE UNCHANGED vars
  <2>1. /\ pending' = pending /\ client' = client /\ trace' = trace /\ state' = state
        /\ crashes' = crashes
    BY <1>1 DEF vars, driverVars, diskVars
  <2>2. QED
    BY <2>1 DEF RecoverInv, RepliesCertified, Certified, Holding, Carried, Recoverable, AtState
<1>2. CASE Next
  <2>1. RepliesCertified' /\ Types
    BY <1>2, NextCertified DEF RecoverInv, BrowseInv
  <2>2. Idle.at = "idle"
    BY DEF Idle
  <2>3. ASSUME NEW p \in Procs, PublishTrace(p) \/ PublishState(p) PROVE RecoverInv'
    BY <2>1, <2>3, PublishTraceRecovers, PublishStateRecovers
  <2>4. ASSUME NEW p \in Procs,
               \/ \E v \in Verbs, s \in Sessions : Command(p, v, s)
               \/ Start(p) \/ Slow(p) \/ LockTaken(p) \/ Launch(p) \/ Recover(p)
               \/ AskPending(p) \/ Act(p) \/ Ack(p) \/ PublishBudget(p) \/ Finish(p)
        PROVE  RecoverInv'
    <3>1. trace' = trace /\ state' = state /\ crashes' = crashes
      BY <2>4 DEF Command, Start, Slow, LockTaken, Launch, Recover, AskPending, Act, Ack,
                  PublishBudget, Finish, diskVars
    <3>2. /\ client[p].at # "state" /\ client'[p].at # "state"
          /\ \A q \in Procs \ {p} : client'[q] = client[q]
      BY <2>4, Elsewhere
    <3>3. QED
      BY <2>1, <3>1, <3>2, RecoverableFrame
  <2>5. ASSUME NEW p \in Procs, OpenSession(p) PROVE RecoverInv'
    <3>1. client[p].at = "open" /\ trace' = trace /\ crashes' = crashes
      BY <2>5 DEF OpenSession, At
    <3>2. CASE Leave(p) /\ state' = state
      <4>1. client'[p] = Idle /\ \A q \in Procs \ {p} : client'[q] = client[q]
        BY <2>1, <3>2 DEF Leave, Types
      <4>2. QED
        BY <2>1, <2>2, <3>1, <3>2, <4>1, RecoverableFrame
    <3>3. ASSUME NEW s \in Sessions, NewSession(p, s) PROVE RecoverInv'
      <4>1. PICK c : c = [client[p] EXCEPT !.at = "launch", !.session = s, !.copy = Fresh]
        OBVIOUS
      <4>2. c.at = "launch"
        BY <2>1, <4>1 DEF Types, Clients
      <4>3. client'[p] = c /\ \A q \in Procs \ {p} : client'[q] = client[q]
        BY <2>1, <3>3, <4>1 DEF NewSession, Types
      <4>4. state'[s] = Fresh /\ \A t \in Sessions \ {s} : state'[t] = state[t]
        BY <2>1, <3>3 DEF NewSession, Types
      <4>5. QED
        BY <2>1, <3>1, <4>2, <4>3, <4>4, FreshFacts, NewSessionRecovers
    <3>4. QED
      BY <2>5, <3>2, <3>3 DEF OpenSession
  <2>6. ASSUME NEW p \in Procs, Connect(p) PROVE RecoverInv'
    <3>1. client[p].at = "connect" /\ Launching(client[p]) /\ trace' = trace /\ crashes' = crashes
      BY <2>6 DEF Connect, At, Launching
    <3>2. PICK s \in Sessions : s = client[p].session /\ client[p].copy = Fresh
      BY <3>1, LaunchingAlone
    <3>3. PICK n : n = [client[p].copy EXCEPT !.connected = TRUE]
      OBVIOUS
    <3>4. n.checkpoint = None
      BY <3>2, <3>3, FreshFacts DEF Fresh
    <3>5. PICK c : c = [client[p] EXCEPT !.at = "pending", !.copy = n]
      OBVIOUS
    <3>6. c.at = "pending"
      BY <2>1, <3>5 DEF Types, Clients
    <3>7. /\ client'[p] = c /\ \A q \in Procs \ {p} : client'[q] = client[q]
          /\ state'[s] = n /\ \A t \in Sessions \ {s} : state'[t] = state[t]
      BY <2>1, <2>6, <3>2, <3>3, <3>5 DEF Connect, Types
    <3>8. QED
      BY <2>1, <3>1, <3>4, <3>6, <3>7, NewSessionRecovers
  <2>7. ASSUME NEW p \in Procs, Crash(p) PROVE RecoverInv'
    <3>1. client'[p] = Idle /\ \A q \in Procs \ {p} : client'[q] = client[q]
      BY <2>1, <2>7 DEF Crash, Leave, Types
    <3>2. crashes' # 0 /\ trace' = trace /\ state' = state
      BY <2>1, <2>7 DEF Crash, diskVars, Types
    <3>3. QED
      BY <2>1, <2>2, <3>1, <3>2, RecoverableFrame
  <2>8. ASSUME NEW s \in Sessions, Execute(s) \/ DriverDies(s) PROVE RecoverInv'
    <3>1. trace' = trace /\ state' = state /\ crashes' = crashes
      BY <2>8 DEF Execute, DriverDies, diskVars
    <3>2. \A q \in Procs :
             client[q].at = "state" \/ client'[q].at = "state" => client'[q] = client[q]
      <4>1. CASE DriverDies(s)
        BY <2>2, <4>1 DEF DriverDies, At
      <4>2. CASE Execute(s)
        BY <4>2, ExecuteCertified DEF RecoverInv
      <4>3. QED
        BY <2>8, <4>1, <4>2
    <3>3. QED
      BY <2>1, <3>1, <3>2, RecoverableFrame
  <2>9. ASSUME NEW p \in Procs, Step(p) \/ Start(p) \/ Slow(p) \/ Crash(p) PROVE RecoverInv'
    BY <2>3, <2>4, <2>5, <2>6, <2>7, <2>9 DEF Step
  <2>10. QED
    BY <1>2, <2>4, <2>8, <2>9 DEF Next
<1>3. QED
  BY <1>1, <1>2

\* "A previous session whose browser died is sealed from its last signed prefix": until a command
\* is killed, and as long as the user keeps nothing, an open session whose driver is gone and
\* whose publications are over has the checkpoint of the trace on disk, however many commands
\* published, refused, repeated or recovered it.
THEOREM DeadRecoverable ==
    ASSUME "keep" \notin Verbs
    PROVE  Spec => [](crashes = 0 => DeadSessionRecoverable)
<1>1. Init => RecoverInv
  <2>1. SUFFICES ASSUME Init PROVE RecoverInv
    OBVIOUS
  <2>2. /\ \A s \in Sessions : pending[s] = None /\ state[s] = None
        /\ \A p \in Procs : client[p].at = "idle"
    BY <2>1 DEF Init, Idle
  <2>3. QED
    BY <2>2 DEF RecoverInv, RepliesCertified, Holding, Carried, AtState, Recoverable
<1>2. BrowseInv /\ RecoverInv => (crashes = 0 => DeadSessionRecoverable)
  <2>1. SUFFICES ASSUME BrowseInv, RecoverInv, crashes = 0, NEW s \in Sessions,
                        state[s] # None, state[s].checkpoint # None, lockHolder = None
                 PROVE  state[s].checkpoint.log = trace[s]
    BY DEF DeadSessionRecoverable
  <2>2. \A p \in Procs : client[p].at # "state"
    BY <2>1, ProjectLockAssumption DEF BrowseInv, CommandOK, Writing
  <2>3. QED
    BY <2>1, <2>2 DEF RecoverInv, Recoverable, AtState
<1>3. BrowseInv /\ RecoverInv /\ [Next]_vars => RecoverInv'
  BY NextRecovers
<1>4. QED
  BY <1>1, <1>2, <1>3, BrowseInvariant, PTL DEF Spec

-----------------------------------------------------------------------------
(* What a session has spent.  A driver counts one acquisition for every "act" *)
(* it records, so a count read with one of its logs is right for that log,    *)
(* wherever it went since: into a reply, a checkpoint, a recovery or a copy.   *)

Acts(l) == Cardinality({i \in 1..Len(l) : l[i] = "act"})

LEMMA ActsCount ==
    ASSUME NEW l \in Seq(Events)
    PROVE  IsFiniteSet({i \in 1..Len(l) : l[i] = "act"}) /\ Acts(l) \in Nat
<1>1. IsFiniteSet(1..Len(l))
  BY FS_Interval
<1>2. IsFiniteSet({i \in 1..Len(l) : l[i] = "act"})
  BY <1>1, FS_Subset
<1>3. QED
  BY <1>2, FS_CardinalityType DEF Acts

LEMMA NoActs == Acts(<<>>) = 0
<1>1. {i \in 1..Len(<<>>) : <<>>[i] = "act"} = {}
  OBVIOUS
<1>2. QED
  BY <1>1, FS_EmptySet DEF Acts

LEMMA ActsGrow ==
    ASSUME NEW l \in Seq(Events), NEW u \in Seq(Events), IsPrefix(l, u)
    PROVE  Acts(l) <= Acts(u)
<1>1. Len(l) <= Len(u) /\ \A i \in 1..Len(l) : l[i] = u[i]
  BY PrefixMeans
<1>2. {i \in 1..Len(l) : l[i] = "act"} \subseteq {i \in 1..Len(u) : u[i] = "act"}
  BY <1>1
<1>3. QED
  BY <1>2, ActsCount, FS_Subset DEF Acts

\* One event more.
LEMMA ActsOneMore ==
    ASSUME NEW l \in Seq(Events), NEW u \in Seq(Events), Len(u) = Len(l) + 1,
           \A i \in 1..Len(l) : u[i] = l[i]
    PROVE  Acts(u) = Acts(l) + IF u[Len(l) + 1] = "act" THEN 1 ELSE 0
<1> DEFINE A == {i \in 1..Len(l) : l[i] = "act"}
           B == {i \in 1..Len(u) : u[i] = "act"}
<1>1. PICK n \in Nat : n = Len(l)
  OBVIOUS
<1>2. IsFiniteSet(A) /\ n + 1 \notin A /\ Cardinality(A) \in Nat
  BY <1>1, ActsCount DEF Acts
<1>3. CASE u[n + 1] = "act"
  <2>1. B = A \cup {n + 1}
    BY <1>1, <1>3
  <2>2. Cardinality(B) = Cardinality(A) + 1
    BY <1>2, <2>1, FS_AddElement
  <2>3. QED
    BY <1>1, <1>3, <2>2 DEF Acts
<1>4. CASE u[n + 1] # "act"
  <2>1. B = A
    BY <1>1, <1>4
  <2>2. PICK k \in Nat : k = Cardinality(A)
    BY <1>2
  <2>3. Acts(l) = k /\ Acts(u) = k
    BY <2>1, <2>2 DEF Acts
  <2>4. QED
    BY <1>1, <1>4, <2>3
<1>5. QED
  BY <1>3, <1>4

LEMMA ActsAppend ==
    ASSUME NEW l \in Seq(Events), NEW e \in Events
    PROVE  Acts(Append(l, e)) = Acts(l) + IF e = "act" THEN 1 ELSE 0
<1>1. /\ Append(l, e) \in Seq(Events) /\ Len(Append(l, e)) = Len(l) + 1
      /\ \A i \in 1..Len(l) : Append(l, e)[i] = l[i]
      /\ Append(l, e)[Len(l) + 1] = e
  OBVIOUS
<1>2. QED
  BY <1>1, ActsOneMore

\* An action adds as many to the count as to the log.
LEMMA RecordingCounts ==
    ASSUME BrowseInv, NEW s \in Sessions, NEW verb \in Verbs \cup {"start"},
           NEW done \in Recordings(s, verb)
    PROVE  Acts(log[s] \o done.events)
             = Acts(log[s]) + IF "act" \in Range(done.events) THEN 1 ELSE 0
<1>1. log[s] \in Seq(Events)
  BY DEF BrowseInv, Types
<1>2. "act" \in Events /\ "keep" \in Events /\ "end" \in Events /\ "start" \in Events
  BY DEF Events
<1>3. ASSUME done.events = <<>>
      PROVE  Acts(log[s] \o done.events)
               = Acts(log[s]) + IF "act" \in Range(done.events) THEN 1 ELSE 0
  <2>1. log[s] \o done.events = log[s]
    BY <1>1, <1>3
  <2>2. "act" \notin Range(done.events)
    BY <1>3 DEF Range
  <2>3. PICK k \in Nat : k = Acts(log[s])
    BY <1>1, ActsCount
  <2>4. Acts(log[s] \o done.events) = k
    BY <2>1, <2>3
  <2>5. QED
    BY <2>2, <2>3, <2>4
<1>4. ASSUME NEW e \in Events, done.events = <<e>>
      PROVE  Acts(log[s] \o done.events)
               = Acts(log[s]) + IF "act" \in Range(done.events) THEN 1 ELSE 0
  <2>1. log[s] \o <<e>> = Append(log[s], e)
    BY <1>1
  <2>2. "act" \in Range(<<e>>) <=> e = "act"
    BY DEF Range
  <2>3. QED
    BY <1>1, <1>4, <2>1, <2>2, ActsAppend
<1>5. ASSUME done.events = <<"act", "keep">>
      PROVE  Acts(log[s] \o done.events)
               = Acts(log[s]) + IF "act" \in Range(done.events) THEN 1 ELSE 0
  <2>1. log[s] \o <<"act", "keep">> = Append(Append(log[s], "act"), "keep")
    BY <1>1, <1>2
  <2>2. Append(log[s], "act") \in Seq(Events)
    BY <1>1, <1>2
  <2>3. /\ Acts(Append(log[s], "act")) = Acts(log[s]) + 1
        /\ Acts(Append(Append(log[s], "act"), "keep")) = Acts(Append(log[s], "act")) + 0
    BY <1>1, <1>2, <2>2, ActsAppend
  <2>4. "act" \in Range(<<"act", "keep">>)
    <3>1. 1 \in DOMAIN <<"act", "keep">> /\ <<"act", "keep">>[1] = "act"
      OBVIOUS
    <3>2. QED
      BY <3>1 DEF Range
  <2>5. PICK k \in Nat : k = Acts(log[s])
    BY <1>1, ActsCount
  <2>6. Acts(log[s] \o done.events) = Acts(Append(Append(log[s], "act"), "keep"))
    BY <1>5, <2>1
  <2>7. Acts(log[s] \o done.events) = k + 1
    BY <2>3, <2>5, <2>6
  <2>8. "act" \in Range(done.events)
    BY <1>5, <2>4
  <2>9. QED
    BY <2>5, <2>7, <2>8
<1>6. CASE done = Refused
  BY <1>3, <1>6 DEF Refused
<1>7. CASE done # Refused
  <2>1. ~(Sealed(s) \/ (verb # "end" /\ Len(log[s]) >= MaxEvents))
    BY <1>7 DEF Recordings
  <2>2. CASE verb = "end"
    BY <1>2, <1>4, <2>1, <2>2 DEF Recordings, Recorded
  <2>3. CASE verb = "start"
    BY <1>2, <1>4, <2>1, <2>3 DEF Recordings, Recorded
  <2>4. CASE verb = "browse"
    BY <1>2, <1>4, <1>7, <2>1, <2>4 DEF Recordings, Recorded
  <2>5. CASE verb = "keep"
    <3>1. \/ done = Recorded(<<"keep">>)
          \/ done = [events |-> <<"act">>, checkpoint |-> FALSE]
          \/ done = Recorded(<<"act", "keep">>)
      BY <2>1, <2>5 DEF Recordings
    <3>2. done.events \in {<<"keep">>, <<"act">>, <<"act", "keep">>}
      <4>1. CASE done = Recorded(<<"keep">>)
        BY <4>1 DEF Recorded
      <4>2. CASE done = [events |-> <<"act">>, checkpoint |-> FALSE]
        BY <4>2
      <4>3. CASE done = Recorded(<<"act", "keep">>)
        BY <4>3 DEF Recorded
      <4>4. QED
        BY <3>1, <4>1, <4>2, <4>3
    <3>3. QED
      BY <1>2, <1>4, <1>5, <3>2
  <2>6. QED
    BY <2>2, <2>3, <2>4, <2>5, BrowseAssumption
<1>8. QED
  BY <1>6, <1>7

\* The count u goes with the log l of session s.
Accounted(s, l, u) == u + Acts(log[s]) = used[s] + Acts(l)

SessionCounts(s) ==
    /\ state[s] # None =>
          /\ IsPrefix(state[s].head, trace[s])
          /\ state[s].checkpoint # None =>
                Accounted(s, state[s].checkpoint.log, state[s].checkpoint.used)
    /\ pending[s] # None => Accounted(s, pending[s].log, pending[s].used)

\* A command that uses its copy of the state, and what it read there.
Using(c) == c.at = "recover" \/ Asking(c) \/ Holding(c)

CopyCounts(c) ==
    Using(c) =>
        /\ IsPrefix(c.copy.head, trace[c.session])
        /\ c.copy.checkpoint # None =>
              Accounted(c.session, c.copy.checkpoint.log, c.copy.checkpoint.used)

ReplyCounts(c) ==
    Holding(c) =>
        Accounted(c.session, c.reply.log, c.reply.used) /\ IsPrefix(c.copy.head, c.reply.log)

\* The head never goes back: who is between the trace and the budget puts it forward.
HeadCounts(c) ==
    /\ c.at = "state" => IsPrefix(state[c.session].head, c.reply.log)
    /\ c.at = "budget" => state[c.session].head = c.reply.log

CommandCounts(c) == CopyCounts(c) /\ ReplyCounts(c) /\ HeadCounts(c)

CountInv ==
    /\ \A s \in Sessions : SessionCounts(s)
    /\ \A p \in Procs : CommandCounts(client[p])

\* What the research cycle has spent is not more than the published part of its session.
CycleInv ==
    cycle # None =>
        /\ current # None /\ state[current] # None
        /\ cycle + Acts(log[current]) <= used[current] + Acts(state[current].head)

\* Driver and count go on together.
Steady(s) == used'[s] + Acts(log[s]) = used[s] + Acts(log'[s])

LEMMA StaysAccounted ==
    ASSUME Types, Types', NEW s \in Sessions, NEW l \in Seq(Events), NEW u \in Nat,
           Accounted(s, l, u), Steady(s)
    PROVE  Accounted(s, l, u)'
<1>1. /\ Acts(l) \in Nat /\ Acts(log[s]) \in Nat /\ Acts(log'[s]) \in Nat
      /\ used[s] \in Nat /\ used'[s] \in Nat
  BY ActsCount DEF Types
<1>2. PICK x \in Nat, a \in Nat, b \in Nat, m \in Nat, k \in Nat :
         /\ x = Acts(l) /\ a = Acts(log[s]) /\ b = Acts(log'[s])
         /\ m = used[s] /\ k = used'[s]
  BY <1>1
<1>3. u + a = m + x /\ k + a = m + b
  BY <1>2 DEF Accounted, Steady
<1>4. u + b = k + x
  BY <1>3
<1>5. QED
  BY <1>2, <1>4 DEF Accounted

LEMMA UsingFacts ==
    ASSUME BrowseInv, NEW p \in Procs, Using(client[p])
    PROVE  /\ client[p].session \in Sessions /\ client[p].copy \in States
           /\ client[p].copy.head \in Seq(Events)
           /\ client[p].copy.checkpoint # None =>
                 client[p].copy.checkpoint.log \in Seq(Events) /\ client[p].copy.checkpoint.used \in Nat
           /\ Holding(client[p]) =>
                 client[p].reply \in Replies /\ client[p].reply.log \in Seq(Events)
                   /\ client[p].reply.used \in Nat
           /\ trace[client[p].session] \in Seq(Events) /\ log[client[p].session] \in Seq(Events)
<1>1. client[p] \in Clients /\ CommandOK(p, client[p]) /\ Types
  BY DEF BrowseInv, Types
<1>2. client[p].session \in Sessions /\ client[p].copy \in States
  BY <1>1 DEF CommandOK, Served, Serving, Copied, Using, Clients
<1>3. Holding(client[p]) => client[p].reply \in Replies
  BY ReplyFacts
<1>4. QED
  BY <1>1, <1>2, <1>3 DEF States, Replies, Types

\* What others do leaves a command's account right.
LEMMA CommandStaysCounted ==
    ASSUME BrowseInv, BrowseInv', NEW q \in Procs, CommandCounts(client[q]),
           client'[q] = client[q],
           Using(client[q]) =>
              /\ Steady(client[q].session)
              /\ IsPrefix(trace[client[q].session], trace'[client[q].session]),
           client[q].at \in {"state", "budget"} =>
              state'[client[q].session] = state[client[q].session]
    PROVE  CommandCounts(client[q])'
<1>0. Types /\ Types'
  BY DEF BrowseInv
<1>1. CASE ~Using(client[q])
  BY <1>1 DEF CommandCounts, CopyCounts, ReplyCounts, HeadCounts, Using, Asking, Holding
<1>2. CASE Using(client[q])
  <2> PICK c : c = client[q]
    OBVIOUS
  <2> PICK s : s = c.session
    OBVIOUS
  <2>1. /\ s \in Sessions /\ c.copy.head \in Seq(Events)
        /\ c.copy.checkpoint # None =>
              c.copy.checkpoint.log \in Seq(Events) /\ c.copy.checkpoint.used \in Nat
        /\ Holding(c) => c.reply.log \in Seq(Events) /\ c.reply.used \in Nat
        /\ trace[s] \in Seq(Events)
    BY <1>2, UsingFacts
  <2>2. trace'[s] \in Seq(Events)
    BY <1>0, <2>1 DEF Types
  <2>3. IsPrefix(c.copy.head, trace[s])
        /\ (c.copy.checkpoint # None =>
              Accounted(s, c.copy.checkpoint.log, c.copy.checkpoint.used))
    BY <1>2 DEF CommandCounts, CopyCounts
  <2>4. IsPrefix(c.copy.head, trace'[s])
    BY <1>2, <2>1, <2>2, <2>3, PrefixTrans
  <2>5. c.copy.checkpoint # None =>
          Accounted(s, c.copy.checkpoint.log, c.copy.checkpoint.used)'
    BY <1>0, <1>2, <2>1, <2>3, StaysAccounted
  <2>6. Holding(c) =>
          Accounted(s, c.reply.log, c.reply.used)' /\ IsPrefix(c.copy.head, c.reply.log)
    BY <1>0, <1>2, <2>1, StaysAccounted DEF CommandCounts, ReplyCounts
  <2>7. CopyCounts(client[q])'
    BY <2>4, <2>5 DEF CopyCounts, Accounted
  <2>8. ReplyCounts(client[q])'
    BY <2>6 DEF ReplyCounts, Accounted, Holding
  <2>9. HeadCounts(client[q])'
    BY DEF CommandCounts, HeadCounts
  <2>10. QED
    BY <2>7, <2>8, <2>9 DEF CommandCounts
<1>3. QED
  BY <1>1, <1>2

\* A step that neither records nor publishes.
LEMMA CountsFrame ==
    ASSUME CountInv, log' = log, used' = used, trace' = trace, state' = state,
           \A s \in Sessions : pending'[s] \in {pending[s], None},
           \A q \in Procs : client'[q] = client[q] \/ CommandCounts(client'[q])
    PROVE  CountInv'
<1>1. ASSUME NEW s \in Sessions PROVE SessionCounts(s)'
  <2>1. SessionCounts(s) /\ pending'[s] \in {pending[s], None}
    BY DEF CountInv
  <2>2. QED
    BY <2>1 DEF SessionCounts, Accounted
<1>2. ASSUME NEW q \in Procs PROVE CommandCounts(client[q])'
  <2>1. CommandCounts(client'[q])
    BY DEF CountInv
  <2>2. QED
    BY <2>1 DEF CommandCounts, CopyCounts, ReplyCounts, HeadCounts, Accounted, Using, Asking, Holding
<1>3. QED
  BY <1>1, <1>2 DEF CountInv

\* One command moves, and does not use what it has not read.
LEMMA CountsMove ==
    ASSUME CountInv, log' = log, used' = used, trace' = trace, state' = state,
           \A s \in Sessions : pending'[s] \in {pending[s], None},
           NEW p \in Procs, NEW c, client'[p] = c, \A q \in Procs \ {p} : client'[q] = client[q],
           c.at \notin {"state", "budget"}, CopyCounts(c), ReplyCounts(c)
    PROVE  CountInv'
<1>1. CommandCounts(client'[p])
  BY DEF CommandCounts, HeadCounts
<1>2. QED
  BY <1>1, CountsFrame

\* It ends, or goes on with what it has.
LEMMA LeavesCounted ==
    ASSUME BrowseInv, CountInv, log' = log, used' = used, trace' = trace, state' = state,
           \A s \in Sessions : pending'[s] \in {pending[s], None},
           NEW p \in Procs, Leave(p)
    PROVE  CountInv'
<1>1. client'[p] = Idle /\ \A q \in Procs \ {p} : client'[q] = client[q]
  BY DEF BrowseInv, Types, Leave
<1>2. Idle.at = "idle"
  BY DEF Idle
<1>3. CopyCounts(Idle) /\ ReplyCounts(Idle)
  BY <1>2 DEF CopyCounts, ReplyCounts, Using, Asking, Holding
<1>4. QED
  BY <1>1, <1>2, <1>3, CountsMove

LEMMA GoesOnCounted ==
    ASSUME BrowseInv, CountInv, log' = log, used' = used, trace' = trace, state' = state,
           \A s \in Sessions : pending'[s] \in {pending[s], None},
           NEW p \in Procs, NEW point \in Points \ {"state", "budget"}, Goto(p, point),
           \/ point \in {"connect", "open"}
           \/ point \in {"action", "wait"} /\ Using(client[p])
           \/ Holding(client[p])
    PROVE  CountInv'
<1>1. client[p] \in Clients
  BY DEF BrowseInv, Types
<1>2. PICK c : c = [client[p] EXCEPT !.at = point]
  OBVIOUS
<1>3. /\ c.at = point /\ c.session = client[p].session /\ c.copy = client[p].copy
      /\ c.reply = client[p].reply /\ c.for = client[p].for
  BY <1>1, <1>2 DEF Clients
<1>4. client'[p] = c /\ \A q \in Procs \ {p} : client'[q] = client[q]
  BY <1>2 DEF BrowseInv, Types, Goto
<1>5. CopyCounts(client[p]) /\ ReplyCounts(client[p])
  BY DEF CountInv, CommandCounts
<1>6. Using(c) => Using(client[p])
  BY <1>3 DEF Using, Asking, Holding
<1>7. Holding(c) => Holding(client[p])
  BY <1>3 DEF Holding
<1>8. CopyCounts(c)
  BY <1>3, <1>5, <1>6 DEF CopyCounts
<1>9. ReplyCounts(c)
  BY <1>3, <1>5, <1>7 DEF ReplyCounts
<1>10. QED
  BY <1>3, <1>4, <1>8, <1>9, CountsMove

\* A command that takes a copy of the state.
LEMMA CopyCounted ==
    ASSUME BrowseInv, CountInv, log' = log, used' = used, trace' = trace, state' = state,
           pending' = pending,
           NEW p \in Procs, NEW c, client'[p] = c, \A q \in Procs \ {p} : client'[q] = client[q],
           NEW s \in Sessions, state[s] # None, c.session = s, c.copy = state[s],
           c.at \in {"recover", "pending", "finish"}, c.for \in {"start", "end"}
    PROVE  CountInv'
<1>1. SessionCounts(s)
  BY DEF CountInv
<1>2. ~Holding(c)
  BY DEF Holding
<1>3. CopyCounts(c) /\ ReplyCounts(c)
  BY <1>1, <1>2 DEF SessionCounts, CopyCounts, ReplyCounts
<1>4. QED
  BY <1>3, CountsMove

LEMMA StartCounts ==
    ASSUME BrowseInv, CountInv, NEW p \in Procs, Start(p)
    PROVE  CountInv'
<1>1. /\ log' = log /\ used' = used /\ trace' = trace /\ state' = state /\ pending' = pending
      /\ client \in [Procs -> Clients] /\ current \in Sessions \cup {None}
  BY DEF Start, driverVars, diskVars, BrowseInv, Types
<1>2. CASE /\ current # None /\ Open(current)
           /\ client' = [client EXCEPT ![p] =
                [Idle EXCEPT !.at = "recover", !.verb = "start", !.for = "start",
                             !.session = current, !.copy = state[current]]]
  <2>1. PICK c : c = [Idle EXCEPT !.at = "recover", !.verb = "start", !.for = "start",
                                  !.session = current, !.copy = state[current]]
    OBVIOUS
  <2>2. c.at = "recover" /\ c.for = "start" /\ c.session = current /\ c.copy = state[current]
    BY <2>1 DEF Idle
  <2>3. client'[p] = c /\ \A q \in Procs \ {p} : client'[q] = client[q]
    BY <1>1, <1>2, <2>1
  <2>4. PICK s \in Sessions : s = current
    BY <1>1, <1>2
  <2>5. state[s] # None
    BY <1>2, <2>4 DEF Open
  <2>6. QED
    BY <1>1, <2>2, <2>3, <2>4, <2>5, CopyCounted
<1>3. CASE client' = [client EXCEPT ![p].at = "open", ![p].verb = "start"]
  <2>1. PICK c : c = [client[p] EXCEPT !.at = "open", !.verb = "start"]
    OBVIOUS
  <2>2. c.at = "open"
    BY <1>1, <2>1 DEF Clients
  <2>3. client'[p] = c /\ \A q \in Procs \ {p} : client'[q] = client[q]
    BY <1>1, <1>3, <2>1
  <2>4. CopyCounts(c) /\ ReplyCounts(c)
    BY <2>2 DEF CopyCounts, ReplyCounts, Using, Asking, Holding
  <2>5. QED
    BY <1>1, <2>2, <2>3, <2>4, CountsMove
<1>4. QED
  BY <1>2, <1>3 DEF Start

LEMMA CommandCounted ==
    ASSUME BrowseInv, CountInv, NEW p \in Procs, NEW v \in Verbs, NEW s \in Sessions, Command(p, v, s)
    PROVE  CountInv'
<1>1. /\ log' = log /\ used' = used /\ trace' = trace /\ state' = state /\ pending' = pending
      /\ client \in [Procs -> Clients] /\ state[s] # None
  BY DEF Command, driverVars, diskVars, BrowseInv, Types
<1>2. PICK point \in {"finish", "recover", "pending"} :
         client' = [client EXCEPT ![p] =
            [Idle EXCEPT !.at = point, !.verb = v, !.for = "end",
                         !.session = s, !.copy = state[s]]]
  BY DEF Command
<1>3. PICK c : c = [Idle EXCEPT !.at = point, !.verb = v, !.for = "end",
                                !.session = s, !.copy = state[s]]
  OBVIOUS
<1>4. c.at = point /\ c.for = "end" /\ c.session = s /\ c.copy = state[s]
  BY <1>3 DEF Idle
<1>5. client'[p] = c /\ \A q \in Procs \ {p} : client'[q] = client[q]
  BY <1>1, <1>2, <1>3
<1>6. QED
  BY <1>1, <1>4, <1>5, CopyCounted

\* A recovery goes on from the checkpoint of the trace, and an end is no acquisition.
LEMMA RecoverCounts ==
    ASSUME BrowseInv, CountInv, NEW p \in Procs, Recover(p)
    PROVE  CountInv'
<1>1. /\ log' = log /\ used' = used /\ trace' = trace /\ state' = state /\ pending' = pending
      /\ client \in [Procs -> Clients] /\ client[p].at = "recover"
  BY DEF Recover, driverVars, diskVars, BrowseInv, Types, At
<1>2. Using(client[p])
  BY <1>1 DEF Using
<1>3. PICK s \in Sessions : s = client[p].session
  BY <1>2, UsingFacts
<1>4. PICK k : k = client[p].copy.checkpoint
  OBVIOUS
<1>5. k # None
  BY <1>1, <1>4 DEF BrowseInv, CommandOK, Copied
<1>6. /\ k.log \in Seq(Events) /\ k.used \in Nat /\ log[s] \in Seq(Events)
      /\ client[p].copy.head \in Seq(Events)
  BY <1>2, <1>3, <1>4, <1>5, UsingFacts
<1>7. CopyCounts(client[p])
  BY DEF CountInv, CommandCounts
<1>8. Accounted(s, k.log, k.used) /\ IsPrefix(client[p].copy.head, trace[s])
  BY <1>2, <1>3, <1>4, <1>5, <1>7 DEF CopyCounts
<1>9. CASE Leave(p)
  BY <1>1, <1>9, LeavesCounted
<1>10. CASE /\ trace[s] = k.log
            /\ client' = [client EXCEPT ![p].at = "publish", ![p].reply =
                   [log |-> Append(k.log, p), first |-> Len(k.log) + 1,
                    checkpoint |-> TRUE, seal |-> TRUE, used |-> k.used]]
  <2>1. PICK u : u = Append(k.log, p)
    OBVIOUS
  <2>2. p \in Events /\ p # "act"
    BY BrowseAssumption DEF Events
  <2>3. u \in Seq(Events) /\ IsPrefix(k.log, u)
    <3>1. PICK l \in Seq(Events) : l = k.log
      BY <1>6
    <3>2. /\ Append(l, p) \in Seq(Events) /\ Len(Append(l, p)) = Len(l) + 1
          /\ \A j \in 1..Len(l) : Append(l, p)[j] = l[j]
      BY <2>2
    <3>3. u \in Seq(Events) /\ Len(u) = Len(l) + 1 /\ \A j \in 1..Len(l) : u[j] = l[j]
      BY <2>1, <3>1, <3>2
    <3>4. IsPrefix(l, u)
      BY <3>3, PrefixMeans
    <3>5. QED
      BY <3>1, <3>3, <3>4
  <2>4. Acts(u) = Acts(k.log)
    <3>1. PICK n \in Nat : n = Acts(k.log)
      BY <1>6, ActsCount
    <3>2. Acts(u) = n + 0
      BY <1>6, <2>1, <2>2, <3>1, ActsAppend
    <3>3. QED
      BY <3>1, <3>2
  <2>5. PICK r : r = [log |-> u, first |-> Len(k.log) + 1, checkpoint |-> TRUE, seal |-> TRUE,
                      used |-> k.used]
    OBVIOUS
  <2>6. PICK c : c = [client[p] EXCEPT !.at = "publish", !.reply = r]
    OBVIOUS
  <2>7. c.at = "publish" /\ c.reply = r /\ c.copy = client[p].copy /\ c.session = s
    BY <1>1, <1>3, <2>6 DEF Clients
  <2>8. client'[p] = c /\ \A q \in Procs \ {p} : client'[q] = client[q]
    BY <1>1, <1>10, <2>1, <2>5, <2>6
  <2>9. CopyCounts(c)
    BY <1>2, <1>3, <1>7, <2>7 DEF CopyCounts
  <2>10. ReplyCounts(c)
    <3>1. Accounted(s, r.log, r.used)
      BY <1>8, <2>4, <2>5 DEF Accounted
    <3>2. IsPrefix(client[p].copy.head, u)
      BY <1>6, <1>8, <1>10, <2>3, PrefixTrans
    <3>3. QED
      BY <2>5, <2>7, <3>1, <3>2 DEF ReplyCounts
  <2>11. QED
    BY <1>1, <2>7, <2>8, <2>9, <2>10, CountsMove
<1>11. QED
  BY <1>3, <1>4, <1>9, <1>10 DEF Recover

LEMMA AskPendingCounts ==
    ASSUME BrowseInv, CountInv, NEW p \in Procs, AskPending(p)
    PROVE  CountInv'
<1>1. /\ log' = log /\ used' = used /\ trace' = trace /\ state' = state /\ pending' = pending
      /\ client \in [Procs -> Clients] /\ client[p].at = "pending"
  BY DEF AskPending, driverVars, diskVars, BrowseInv, Types, At
<1>2. Using(client[p])
  BY <1>1 DEF Using, Asking
<1>3. PICK s \in Sessions : s = client[p].session
  BY <1>2, UsingFacts
<1>4. CopyCounts(client[p]) /\ SessionCounts(s)
  BY DEF CountInv, CommandCounts
<1>5. CASE /\ up[s] /\ pending[s] # None
           /\ client' = [client EXCEPT ![p].at = "publish", ![p].for = "pending",
                                       ![p].reply = pending[s]]
  <2>1. PICK c : c = [client[p] EXCEPT !.at = "publish", !.for = "pending",
                                       !.reply = pending[s]]
    OBVIOUS
  <2>2. c.at = "publish" /\ c.reply = pending[s] /\ c.copy = client[p].copy /\ c.session = s
    BY <1>1, <1>3, <2>1 DEF Clients
  <2>3. client'[p] = c /\ \A q \in Procs \ {p} : client'[q] = client[q]
    BY <1>1, <1>5, <2>1
  <2>4. CopyCounts(c)
    BY <1>2, <1>3, <1>4, <2>2 DEF CopyCounts
  <2>5. IsPrefix(client[p].copy.head, pending[s].log)
    <3>1. IsPrefix(client[p].copy.head, trace[s])
      BY <1>2, <1>3, <1>4 DEF CopyCounts
    <3>2. pending[s].log = log[s] /\ IsPrefix(trace[s], log[s])
      BY <1>5 DEF BrowseInv, SessionOK, Driver
    <3>3. /\ client[p].copy.head \in Seq(Events) /\ trace[s] \in Seq(Events)
          /\ log[s] \in Seq(Events)
      BY <1>2, <1>3, UsingFacts
    <3>4. QED
      BY <3>1, <3>2, <3>3, PrefixTrans
  <2>6. ReplyCounts(c)
    BY <1>4, <1>5, <2>2, <2>5 DEF ReplyCounts, SessionCounts
  <2>7. QED
    BY <1>1, <2>2, <2>3, <2>4, <2>6, CountsMove
<1>6. CASE Leave(p)
  BY <1>1, <1>6, LeavesCounted
<1>7. CASE Goto(p, "action")
  BY <1>1, <1>2, <1>7, GoesOnCounted DEF Points
<1>8. QED
  BY <1>3, <1>5, <1>6, <1>7 DEF AskPending

\* What keeps the reply a command has.
LEMMA PlainCounts ==
    ASSUME BrowseInv, CountInv, NEW p \in Procs,
           \/ Launch(p) \/ Act(p) \/ Ack(p) \/ PublishBudget(p) \/ Finish(p)
           \/ LockTaken(p) \/ Slow(p) \/ Crash(p)
    PROVE  CountInv'
<1>1. /\ log' = log /\ used' = used /\ trace' = trace /\ state' = state
      /\ client \in [Procs -> Clients]
  BY DEF Launch, Act, Ack, PublishBudget, Finish, LockTaken, Slow, Crash, driverVars, diskVars,
     BrowseInv, Types
<1>2. \A s \in Sessions : pending'[s] \in {pending[s], None}
  <2>1. pending' = pending \/ pending' = [pending EXCEPT ![client[p].session] = None]
    BY DEF Launch, Act, Ack, PublishBudget, Finish, LockTaken, Slow, Crash, driverVars, diskVars
  <2>2. QED
    BY <2>1 DEF BrowseInv, Types
<1>3. CASE Leave(p)
  BY <1>1, <1>2, <1>3, LeavesCounted
<1>4. CASE Launch(p)
  BY <1>1, <1>2, <1>3, <1>4, GoesOnCounted DEF Launch, Points
<1>5. CASE Act(p)
  <2>1. Using(client[p])
    BY <1>5 DEF Act, At, Using, Asking
  <2>2. QED
    BY <1>1, <1>2, <1>3, <1>5, <2>1, GoesOnCounted DEF Act, Points
<1>6. CASE Ack(p)
  <2>1. Using(client[p])
    BY <1>6 DEF Ack, At, Using, Holding
  <2>2. QED
    BY <1>1, <1>2, <1>3, <1>6, <2>1, GoesOnCounted DEF Ack, Points
<1>7. CASE PublishBudget(p)
  <2>1. Holding(client[p])
    BY <1>7 DEF PublishBudget, At, Holding
  <2>2. \E point \in {"finish", "ack"} : Goto(p, point)
    BY <1>7 DEF PublishBudget
  <2>3. QED
    BY <1>1, <1>2, <2>1, <2>2, GoesOnCounted DEF Points
<1>8. CASE Finish(p)
  <2>1. client[p].at = "finish" /\ client[p] \in Clients /\ CommandOK(p, client[p])
    BY <1>1, <1>8 DEF Finish, At, BrowseInv
  <2>2. CASE client' = [client EXCEPT ![p] = [Idle EXCEPT !.at = "open", !.verb = "start"]]
    <3>1. PICK c : c = [Idle EXCEPT !.at = "open", !.verb = "start"]
      OBVIOUS
    <3>2. c.at = "open"
      BY <3>1 DEF Idle
    <3>3. client'[p] = c /\ \A q \in Procs \ {p} : client'[q] = client[q]
      BY <1>1, <2>2, <3>1
    <3>4. CopyCounts(c) /\ ReplyCounts(c)
      BY <3>2 DEF CopyCounts, ReplyCounts, Using, Asking, Holding
    <3>5. QED
      BY <1>1, <1>2, <3>2, <3>3, <3>4, CountsMove
  <2>3. CASE Goto(p, "ack") /\ client[p].for \notin {"start", "end"}
    <3>1. Holding(client[p])
      BY <2>1, <2>3 DEF CommandOK, Served, Serving, Holding, Clients
    <3>2. QED
      BY <1>1, <1>2, <2>3, <3>1, GoesOnCounted DEF Points
  <2>4. QED
    BY <1>3, <1>8, <2>2, <2>3 DEF Finish
<1>9. QED
  BY <1>3, <1>4, <1>5, <1>6, <1>7, <1>8 DEF LockTaken, Slow, Crash

LEMMA DriverDiesCounts ==
    ASSUME BrowseInv, CountInv, NEW s \in Sessions, DriverDies(s)
    PROVE  CountInv'
<1>1. log' = log /\ used' = used /\ trace' = trace /\ state' = state
  BY DEF DriverDies, diskVars
<1>2. \A t \in Sessions : pending'[t] \in {pending[t], None}
  BY DEF DriverDies, BrowseInv, Types
<1>3. CommandCounts(Idle)
  <2>1. Idle.at = "idle"
    BY DEF Idle
  <2>2. QED
    BY <2>1 DEF CommandCounts, CopyCounts, ReplyCounts, HeadCounts, Using, Asking, Holding
<1>4. \A q \in Procs : client'[q] \in {client[q], Idle}
  BY DEF DriverDies
<1>5. QED
  BY <1>1, <1>2, <1>3, <1>4, CountsFrame

-----------------------------------------------------------------------------
(* The steps that change an account, a trace or a state.                   *)

\* A session that is opened has an empty log, and starts from what the cycle has spent.
LEMMA NewSessionCounts ==
    ASSUME BrowseInv, BrowseInv', CountInv, NEW p \in Procs, NEW s \in Sessions, NewSession(p, s),
           log' = log, trace' = trace, pending' = pending
    PROVE  CountInv'
<1>1. /\ client \in [Procs -> Clients] /\ Types /\ Types' /\ state[s] = None
      /\ state' = [state EXCEPT ![s] = Fresh]
      /\ \A t \in Sessions \ {s} : used'[t] = used[t] /\ state'[t] = state[t]
      /\ state'[s] = Fresh
  BY DEF NewSession, BrowseInv, Types
<1>2. pending[s] = None /\ trace[s] = <<>>
  BY <1>1 DEF BrowseInv, SessionOK, NotConnected
<1>3. ASSUME NEW t \in Sessions PROVE SessionCounts(t)'
  <2>1. CASE t = s
    <3>1. IsPrefix(<<>>, trace'[s])
      <4>1. <<>> \in Seq(Events)
        OBVIOUS
      <4>2. QED
        BY <1>2, <4>1, PrefixRefl
    <3>2. QED
      BY <1>1, <1>2, <2>1, <3>1, FreshFacts DEF SessionCounts
  <2>2. CASE t # s
    <3>1. SessionCounts(t)
      BY DEF CountInv
    <3>2. QED
      BY <1>1, <2>2, <3>1 DEF SessionCounts, Accounted
  <2>3. QED
    BY <2>1, <2>2
<1>4. PICK c : c = [client[p] EXCEPT !.at = "launch", !.session = s, !.copy = Fresh]
  OBVIOUS
<1>5. c.at = "launch"
  BY <1>1, <1>4 DEF Clients
<1>6. client'[p] = c /\ \A q \in Procs \ {p} : client'[q] = client[q]
  BY <1>1, <1>4 DEF NewSession
<1>7. CommandCounts(client[p])'
  BY <1>5, <1>6 DEF CommandCounts, CopyCounts, ReplyCounts, HeadCounts, Using, Asking, Holding
<1>8. ASSUME NEW q \in Procs \ {p} PROVE CommandCounts(client[q])'
  <2>1. CommandCounts(client[q]) /\ CommandOK(q, client[q])
    BY DEF CountInv, BrowseInv
  <2>2. Using(client[q]) => client[q].session \in Sessions \ {s}
    BY <1>1, <2>1 DEF CommandOK, Served, Serving, Using
  <2>3. Using(client[q]) =>
          /\ Steady(client[q].session)
          /\ IsPrefix(trace[client[q].session], trace'[client[q].session])
          /\ state'[client[q].session] = state[client[q].session]
    BY <1>1, <2>2, PrefixRefl DEF Steady, Types
  <2>4. client[q].at \in {"state", "budget"} => Using(client[q])
    BY DEF Using, Holding
  <2>5. QED
    BY <1>6, <2>1, <2>3, <2>4, CommandStaysCounted
<1>9. QED
  BY <1>3, <1>7, <1>8 DEF CountInv

LEMMA OpenSessionCounts ==
    ASSUME BrowseInv, BrowseInv', CountInv, NEW p \in Procs, OpenSession(p)
    PROVE  CountInv'
<1>1. log' = log /\ trace' = trace /\ pending' = pending
  BY DEF OpenSession
<1>2. CASE Leave(p) /\ UNCHANGED <<state, current, used>>
  BY <1>1, <1>2, LeavesCounted
<1>3. ASSUME NEW s \in Sessions, NewSession(p, s) PROVE CountInv'
  BY <1>1, <1>3, NewSessionCounts
<1>4. QED
  BY <1>2, <1>3 DEF OpenSession

\* The connection is written to a session that has nothing yet.
LEMMA ConnectCounts ==
    ASSUME BrowseInv, BrowseInv', CountInv, NEW p \in Procs, Connect(p)
    PROVE  CountInv'
<1>1. /\ client \in [Procs -> Clients] /\ Types /\ Types' /\ CommandOK(p, client[p])
      /\ log' = log /\ used' = used /\ trace' = trace /\ pending' = pending
      /\ client[p].at = "connect"
  BY DEF Connect, BrowseInv, Types, driverVars, At
<1>2. PICK s \in Sessions : s = client[p].session
  BY <1>1 DEF CommandOK, Launched, Launching
<1>3. state[s] = Fresh /\ client[p].copy = Fresh
  BY <1>1, <1>2 DEF CommandOK, Launched, Launching
<1>4. PICK n : n = [Fresh EXCEPT !.connected = TRUE]
  OBVIOUS
<1>5. n.head = <<>> /\ n.checkpoint = None
  BY <1>4 DEF Fresh
<1>6. /\ state'[s] = n /\ \A t \in Sessions \ {s} : state'[t] = state[t]
      /\ client' = [client EXCEPT ![p].at = "pending", ![p].copy = n]
  BY <1>1, <1>2, <1>3, <1>4 DEF Connect, Types
<1>7. PICK c : c = [client[p] EXCEPT !.at = "pending", !.copy = n]
  OBVIOUS
<1>8. c.at = "pending" /\ c.copy = n /\ c.session = s
  BY <1>1, <1>2, <1>7 DEF Clients
<1>9. client'[p] = c /\ \A q \in Procs \ {p} : client'[q] = client[q]
  BY <1>1, <1>6, <1>7
<1>10. IsPrefix(<<>>, trace[s])
  <2>1. trace[s] = <<>>
    BY <1>3, FreshFacts DEF BrowseInv, SessionOK, NotConnected
  <2>2. <<>> \in Seq(Events)
    OBVIOUS
  <2>3. QED
    BY <2>1, <2>2, PrefixRefl
<1>11. ASSUME NEW t \in Sessions PROVE SessionCounts(t)'
  <2>1. SessionCounts(t)
    BY DEF CountInv
  <2>2. QED
    BY <1>1, <1>5, <1>6, <1>10, <2>1 DEF SessionCounts, Accounted
<1>12. CommandCounts(client[p])'
  BY <1>1, <1>5, <1>8, <1>9, <1>10
     DEF CommandCounts, CopyCounts, ReplyCounts, HeadCounts, Using, Asking, Holding
<1>13. ASSUME NEW q \in Procs \ {p} PROVE CommandCounts(client[q])'
  <2>1. CommandCounts(client[q]) /\ CommandOK(q, client[q])
    BY DEF CountInv, BrowseInv
  <2>2. Using(client[q]) => client[q].session \in Sessions \ {s}
    BY <1>3, <2>1, FreshFacts DEF CommandOK, Served, Serving, Using
  <2>3. Using(client[q]) =>
          /\ Steady(client[q].session)
          /\ IsPrefix(trace[client[q].session], trace'[client[q].session])
          /\ state'[client[q].session] = state[client[q].session]
    BY <1>1, <1>6, <2>2, PrefixRefl DEF Steady, Types
  <2>4. client[q].at \in {"state", "budget"} => Using(client[q])
    BY DEF Using, Holding
  <2>5. QED
    BY <1>9, <2>1, <2>3, <2>4, CommandStaysCounted
<1>14. QED
  BY <1>11, <1>12, <1>13 DEF CountInv

\* An action adds as much to the driver's count as to its log.
LEMMA ExecuteSteady ==
    ASSUME BrowseInv, NEW s \in Sessions, Execute(s), NEW t \in Sessions
    PROVE  Steady(t)
<1>1. /\ log \in [Sessions -> Seq(Events)] /\ used \in [Sessions -> Nat]
      /\ doing \in [Sessions -> (Procs \X (Verbs \cup {"start"})) \cup {None}]
      /\ doing[s] # None
  BY DEF Execute, BrowseInv, Types
<1>2. PICK verb \in Verbs \cup {"start"} : verb = doing[s][2]
  BY <1>1
<1>3. PICK done \in Recordings(s, verb) :
         /\ log' = [log EXCEPT ![s] = log[s] \o done.events]
         /\ used' = [used EXCEPT ![s] =
                       used[s] + IF "act" \in Range(done.events) THEN 1 ELSE 0]
  BY <1>2 DEF Execute
<1>4. PICK k : k = IF "act" \in Range(done.events) THEN 1 ELSE 0
  OBVIOUS
<1>5. PICK u : u = log[s] \o done.events
  OBVIOUS
<1>6. PICK n \in Nat, m \in Nat : n = Acts(log[s]) /\ m = used[s]
  BY <1>1, ActsCount
<1>7. k \in Nat /\ Acts(u) = n + k
  BY <1>4, <1>5, <1>6, RecordingCounts
<1>8. CASE t = s
  <2>1. log'[s] = u /\ used'[s] = m + k
    BY <1>1, <1>3, <1>4, <1>5, <1>6
  <2>2. QED
    BY <1>6, <1>7, <1>8, <2>1 DEF Steady
<1>9. CASE t # s
  BY <1>1, <1>3, <1>9 DEF Steady
<1>10. QED
  BY <1>8, <1>9

LEMMA ExecuteCounts ==
    ASSUME BrowseInv, BrowseInv', CountInv, NEW s \in Sessions, Execute(s)
    PROVE  CountInv'
<1>1. /\ trace' = trace /\ state' = state /\ Types /\ Types' /\ up[s] /\ doing[s] # None
      /\ client \in [Procs -> Clients]
  BY DEF Execute, diskVars, BrowseInv, Types
<1>2. PICK p \in Procs, verb \in Verbs \cup {"start"} : doing[s][1] = p /\ doing[s][2] = verb
  BY <1>1 DEF Types
<1>3. PICK done \in Recordings(s, doing[s][2]) :
         LET reply == [log |-> log[s] \o done.events, first |-> Len(log[s]) + 1,
                       checkpoint |-> done.checkpoint, seal |-> doing[s][2] = "end",
                       used |-> used[s] + IF "act" \in Range(done.events) THEN 1 ELSE 0]
             told == done.events # <<>> \/ reply.seal
         IN /\ log' = [log EXCEPT ![s] = reply.log]
            /\ used' = [used EXCEPT ![s] = reply.used]
            /\ pending' = [pending EXCEPT ![s] = IF told THEN reply ELSE None]
            /\ IF At(doing[s][1], "wait") /\ client[doing[s][1]].session = s
                 THEN IF told
                        THEN client' = [client EXCEPT ![doing[s][1]].at = "publish",
                                          ![doing[s][1]].for = "action",
                                          ![doing[s][1]].reply = reply]
                        ELSE Leave(doing[s][1])
                 ELSE UNCHANGED client
  BY DEF Execute
<1>4. PICK b \in BOOLEAN : b = (verb = "end")
  OBVIOUS
<1>5. PICK u, f, k : /\ u = log[s] \o done.events /\ f = Len(log[s]) + 1
                     /\ k = used[s] + IF "act" \in Range(done.events) THEN 1 ELSE 0
  OBVIOUS
<1> DEFINE r == [log |-> u, first |-> f, checkpoint |-> done.checkpoint, seal |-> b, used |-> k]
           told == done.events # <<>> \/ b
<1>6. r.log = u /\ r.used = k
  OBVIOUS
<1>7. /\ log' = [log EXCEPT ![s] = u]
      /\ used' = [used EXCEPT ![s] = k]
      /\ pending' = [pending EXCEPT ![s] = IF told THEN r ELSE None]
      /\ IF At(p, "wait") /\ client[p].session = s
           THEN IF told
                  THEN client' = [client EXCEPT ![p].at = "publish",
                                    ![p].for = "action", ![p].reply = r]
                  ELSE Leave(p)
           ELSE UNCHANGED client
  BY <1>2, <1>3, <1>4, <1>5
<1> HIDE DEF r, told
<1>8. /\ log'[s] = u /\ used'[s] = k
      /\ pending'[s] \in {r, None}
      /\ \A t \in Sessions \ {s} :
            log'[t] = log[t] /\ used'[t] = used[t] /\ pending'[t] = pending[t]
  BY <1>1, <1>7 DEF Types
<1>9. \A t \in Sessions : Steady(t)
  BY ExecuteSteady
<1>10. Accounted(s, u, k)'
  BY <1>8 DEF Accounted
<1>11. ASSUME NEW t \in Sessions PROVE SessionCounts(t)'
  <2>1. SessionCounts(t) /\ Steady(t)
    BY <1>9 DEF CountInv
  <2>2. ASSUME state[t] # None, state[t].checkpoint # None
        PROVE  Accounted(t, state[t].checkpoint.log, state[t].checkpoint.used)'
    <3>1. PICK l, v : l = state[t].checkpoint.log /\ v = state[t].checkpoint.used
      OBVIOUS
    <3>2. state[t] \in States
      BY <1>1, <2>2 DEF Types
    <3>3. l \in Seq(Events) /\ v \in Nat
      BY <2>2, <3>1, <3>2 DEF States
    <3>4. Accounted(t, l, v)'
      BY <1>1, <2>1, <2>2, <3>1, <3>3, StaysAccounted DEF SessionCounts
    <3>5. QED
      BY <1>1, <3>1, <3>4 DEF Accounted
  <2>3. ASSUME pending'[t] # None
        PROVE  Accounted(t, pending[t].log, pending[t].used)'
    <3>1. CASE t = s
      BY <1>6, <1>8, <1>10, <2>3, <3>1 DEF Accounted
    <3>2. CASE t # s
      BY <1>8, <2>1, <2>3, <3>2 DEF SessionCounts, Accounted
    <3>3. QED
      BY <3>1, <3>2
  <2>4. QED
    BY <1>1, <2>1, <2>2, <2>3 DEF SessionCounts
<1>12. ASSUME NEW q \in Procs, client'[q] = client[q] PROVE CommandCounts(client[q])'
  <2>1. CommandCounts(client[q])
    BY DEF CountInv
  <2>2. Using(client[q]) =>
          /\ Steady(client[q].session)
          /\ IsPrefix(trace[client[q].session], trace'[client[q].session])
    BY <1>1, <1>9, UsingFacts, PrefixRefl
  <2>3. QED
    BY <1>1, <1>12, <2>1, <2>2, CommandStaysCounted
<1>13. CASE UNCHANGED client
  BY <1>11, <1>12, <1>13 DEF CountInv
<1>14. CASE Leave(p)
  <2>1. client'[p] = Idle /\ \A q \in Procs \ {p} : client'[q] = client[q]
    BY <1>1, <1>14 DEF Leave
  <2>2. Idle.at = "idle"
    BY DEF Idle
  <2>3. CommandCounts(client[p])'
    BY <2>1, <2>2 DEF CommandCounts, CopyCounts, ReplyCounts, HeadCounts, Using, Asking, Holding
  <2>4. QED
    BY <1>11, <1>12, <2>1, <2>3 DEF CountInv
<1>15. CASE /\ At(p, "wait") /\ client[p].session = s
            /\ client' = [client EXCEPT ![p].at = "publish",
                                        ![p].for = "action", ![p].reply = r]
  <2>1. PICK c : c = [client[p] EXCEPT !.at = "publish", !.for = "action", !.reply = r]
    OBVIOUS
  <2>2. c.at = "publish" /\ c.reply = r /\ c.copy = client[p].copy /\ c.session = s
    BY <1>1, <1>15, <2>1 DEF Clients
  <2>3. client'[p] = c /\ \A q \in Procs \ {p} : client'[q] = client[q]
    BY <1>1, <1>15, <2>1
  <2>4. Using(client[p])
    BY <1>15 DEF At, Using, Asking
  <2>5. /\ client[p].copy.head \in Seq(Events) /\ trace[s] \in Seq(Events)
        /\ log[s] \in Seq(Events) /\ u \in Seq(Events)
        /\ client[p].copy.checkpoint # None =>
              client[p].copy.checkpoint.log \in Seq(Events) /\ client[p].copy.checkpoint.used \in Nat
    BY <1>1, <1>8, <1>15, <2>4, UsingFacts DEF Types
  <2>6. CopyCounts(client[p])
    BY DEF CountInv, CommandCounts
  <2>7. IsPrefix(client[p].copy.head, u)
    <3>1. IsPrefix(client[p].copy.head, trace[s])
      BY <1>15, <2>4, <2>6 DEF CopyCounts
    <3>2. IsPrefix(trace[s], log[s])
      BY <1>1 DEF BrowseInv, SessionOK, Driver
    <3>3. done.events \in Seq(Events)
      BY <1>2, RecordingFacts
    <3>4. IsPrefix(log[s], u)
      BY <1>5, <2>5, <3>3, PrefixGrows
    <3>5. IsPrefix(client[p].copy.head, log[s])
      BY <2>5, <3>1, <3>2, PrefixTrans
    <3>6. QED
      BY <2>5, <3>4, <3>5, PrefixTrans
  <2>8. client[p].copy.checkpoint # None =>
          Accounted(s, c.copy.checkpoint.log, c.copy.checkpoint.used)'
    <3>1. SUFFICES ASSUME client[p].copy.checkpoint # None
                   PROVE  Accounted(s, c.copy.checkpoint.log, c.copy.checkpoint.used)'
      OBVIOUS
    <3>2. PICK l \in Seq(Events), v \in Nat :
            l = c.copy.checkpoint.log /\ v = c.copy.checkpoint.used
      BY <2>2, <2>5, <3>1
    <3>3. Accounted(s, l, v)
      BY <1>15, <2>2, <2>4, <2>6, <3>1, <3>2 DEF CopyCounts
    <3>4. Accounted(s, l, v)'
      BY <1>1, <1>9, <3>3, StaysAccounted
    <3>5. QED
      BY <3>2, <3>4
  <2>9. CopyCounts(client[p])'
    BY <1>1, <1>15, <2>2, <2>3, <2>4, <2>6, <2>8 DEF CopyCounts, Accounted
  <2>10. ReplyCounts(client[p])'
    BY <1>6, <1>10, <2>2, <2>3, <2>7 DEF ReplyCounts, Accounted
  <2>11. HeadCounts(client[p])'
    BY <2>2, <2>3 DEF HeadCounts
  <2>12. QED
    BY <1>11, <1>12, <2>3, <2>9, <2>10, <2>11 DEF CountInv, CommandCounts
<1>16. QED
  BY <1>7, <1>13, <1>14, <1>15

\* The reply's events extend the trace, and the head on disk is not ahead of them.
LEMMA PublishTraceCounts ==
    ASSUME BrowseInv, BrowseInv', CountInv, NEW p \in Procs, PublishTrace(p)
    PROVE  CountInv'
<1>1. /\ log' = log /\ used' = used /\ state' = state /\ pending' = pending
      /\ client \in [Procs -> Clients] /\ Types /\ Types' /\ client[p].at = "publish"
  BY DEF PublishTrace, driverVars, BrowseInv, Types, At
<1>2. Holding(client[p]) /\ Using(client[p])
  BY <1>1 DEF Holding, Using
<1>3. CASE Leave(p) /\ UNCHANGED <<lockHolder, trace>>
  BY <1>1, <1>3, LeavesCounted
<1>4. PICK s \in Sessions : s = client[p].session
  BY <1>2, UsingFacts
<1>5. PICK r : r = client[p].reply
  OBVIOUS
<1>6. PICK new : new = IF IsPrefix(trace[s], r.log) THEN r.log ELSE trace[s]
  OBVIOUS
<1>7. CASE /\ lockHolder = None /\ Fits(s, client[p].copy.head, r) /\ Goto(p, "state")
           /\ trace' = [trace EXCEPT ![s] = IF IsPrefix(trace[s], r.log) THEN r.log ELSE @]
  <2>1. new \in Seq(Events) /\ IsPrefix(trace[s], new)
    BY <1>1, <1>4, <1>5, <1>6, <1>7, FitsFacts
  <2>2. trace'[s] = new /\ \A t \in Sessions \ {s} : trace'[t] = trace[t]
    BY <1>1, <1>6, <1>7 DEF Types
  <2>3. \A t \in Sessions : Steady(t) /\ IsPrefix(trace[t], trace'[t])
    BY <1>1, <2>1, <2>2, PrefixRefl DEF Steady, Types
  <2>4. ASSUME NEW t \in Sessions PROVE SessionCounts(t)'
    <3>1. SessionCounts(t)
      BY DEF CountInv
    <3>2. ASSUME state[t] # None PROVE IsPrefix(state[t].head, trace'[t])
      <4>1. state[t].head \in Seq(Events) /\ trace[t] \in Seq(Events) /\ trace'[t] \in Seq(Events)
        BY <1>1, <3>2 DEF Types, States
      <4>2. QED
        BY <2>3, <3>1, <3>2, <4>1, PrefixTrans DEF SessionCounts
    <3>3. QED
      BY <1>1, <3>1, <3>2 DEF SessionCounts, Accounted
  <2>5. ASSUME NEW q \in Procs \ {p} PROVE CommandCounts(client[q])'
    <3>1. CommandCounts(client[q])
      BY DEF CountInv
    <3>2. client'[q] = client[q]
      BY <1>1, <1>7 DEF Goto
    <3>3. Using(client[q]) => client[q].session \in Sessions
      BY UsingFacts
    <3>4. QED
      BY <1>1, <2>3, <3>1, <3>2, <3>3, CommandStaysCounted
  <2>6. CommandCounts(client[p])'
    <3>1. PICK c : c = [client[p] EXCEPT !.at = "state"]
      OBVIOUS
    <3>2. c.at = "state" /\ c.session = s /\ c.copy = client[p].copy /\ c.reply = r
      BY <1>1, <1>4, <1>5, <3>1 DEF Clients
    <3>3. client'[p] = c
      BY <1>1, <1>7, <3>1 DEF Goto
    <3>4. /\ IsPrefix(c.copy.head, trace[s])
          /\ c.copy.checkpoint # None =>
                Accounted(s, c.copy.checkpoint.log, c.copy.checkpoint.used)
          /\ Accounted(s, r.log, r.used) /\ IsPrefix(c.copy.head, r.log)
      BY <1>2, <1>4, <1>5, <3>2 DEF CountInv, CommandCounts, CopyCounts, ReplyCounts
    <3>5. c.copy.head \in Seq(Events) /\ r.log \in Seq(Events) /\ trace[s] \in Seq(Events)
      BY <1>2, <1>4, <1>5, <3>2, UsingFacts
    <3>6. IsPrefix(c.copy.head, trace'[s])
      BY <2>1, <2>2, <3>4, <3>5, PrefixTrans
    <3>7. IsPrefix(state[s].head, r.log)
      <4>1. state[s].head \in {c.copy.head, r.log}
        BY <1>7, <3>2 DEF Fits
      <4>2. QED
        BY <3>4, <3>5, <4>1, PrefixRefl
    <3>8. CopyCounts(client[p])'
      BY <1>1, <3>2, <3>3, <3>4, <3>6 DEF CopyCounts, Accounted
    <3>9. ReplyCounts(client[p])'
      BY <1>1, <3>2, <3>3, <3>4 DEF ReplyCounts, Accounted
    <3>10. HeadCounts(client[p])'
      BY <1>1, <3>2, <3>3, <3>7 DEF HeadCounts
    <3>11. QED
      BY <3>8, <3>9, <3>10 DEF CommandCounts
  <2>7. QED
    BY <2>4, <2>5, <2>6 DEF CountInv
<1>8. QED
  BY <1>3, <1>4, <1>5, <1>7 DEF PublishTrace

\* The head becomes the reply's, which is on the trace, and the checkpoint the reply's own.
LEMMA PublishStateCounts ==
    ASSUME BrowseInv, BrowseInv', CountInv, NEW p \in Procs, PublishState(p)
    PROVE  CountInv'
<1>1. /\ log' = log /\ used' = used /\ trace' = trace /\ pending' = pending
      /\ client \in [Procs -> Clients] /\ Types /\ Types' /\ client[p].at = "state"
      /\ CommandOK(p, client[p])
  BY DEF PublishState, driverVars, BrowseInv, Types, At
<1>2. Holding(client[p]) /\ Using(client[p])
  BY <1>1 DEF Holding, Using
<1>3. PICK s \in Sessions : s = client[p].session
  BY <1>2, UsingFacts
<1>4. PICK r : r = client[p].reply
  OBVIOUS
<1>5. PICK x : x = IF r.checkpoint THEN [log |-> r.log, used |-> r.used] ELSE state[s].checkpoint
  OBVIOUS
<1>6. PICK y : y = IF r.seal THEN r.log ELSE state[s].seal
  OBVIOUS
<1>7. PICK n : n = [state[s] EXCEPT !.head = r.log, !.checkpoint = x, !.seal = y]
  OBVIOUS
<1>8. /\ state' = [state EXCEPT ![s] = n]
      /\ client' = [client EXCEPT ![p].at = "budget", ![p].copy = n]
  BY <1>3, <1>4, <1>5, <1>6, <1>7 DEF PublishState
<1>9. state[s] \in States /\ r.log \in Seq(Events) /\ trace[s] \in Seq(Events)
  BY <1>1, <1>2, <1>3, <1>4, ReplyFacts DEF Types
<1>10. n.head = r.log /\ n.checkpoint = x
  BY <1>7, <1>9 DEF States
<1>11. state'[s] = n /\ \A t \in Sessions \ {s} : state'[t] = state[t]
  BY <1>1, <1>8 DEF Types
<1>12. IsPrefix(r.log, trace[s]) /\ IsPrefix(r.log, r.log)
  BY <1>1, <1>2, <1>3, <1>4, <1>9, PrefixRefl DEF CommandOK, Replied
<1>13. Accounted(s, r.log, r.used)
  BY <1>2, <1>3, <1>4 DEF CountInv, CommandCounts, ReplyCounts
<1>14. state[s] # None
  BY <1>9, BrowseAssumption
<1>15. x # None => Accounted(s, x.log, x.used)
  <2>1. CASE r.checkpoint
    BY <1>5, <1>13, <2>1
  <2>2. CASE ~r.checkpoint
    BY <1>5, <1>14, <2>2 DEF CountInv, SessionCounts
  <2>3. QED
    BY <2>1, <2>2
<1>16. ASSUME NEW t \in Sessions PROVE SessionCounts(t)'
  <2>1. SessionCounts(t)
    BY DEF CountInv
  <2>2. CASE t = s
    BY <1>1, <1>10, <1>11, <1>12, <1>15, <2>1, <2>2 DEF SessionCounts, Accounted
  <2>3. CASE t # s
    BY <1>1, <1>11, <2>1, <2>3 DEF SessionCounts, Accounted
  <2>4. QED
    BY <2>2, <2>3
<1>17. PICK c : c = [client[p] EXCEPT !.at = "budget", !.copy = n]
  OBVIOUS
<1>18. c.at = "budget" /\ c.session = s /\ c.copy = n /\ c.reply = r
  BY <1>1, <1>3, <1>4, <1>17 DEF Clients
<1>19. client'[p] = c /\ \A q \in Procs \ {p} : client'[q] = client[q]
  BY <1>1, <1>8, <1>17
<1>20. CommandCounts(client[p])'
  <2>1. CopyCounts(client[p])'
    BY <1>1, <1>10, <1>12, <1>15, <1>18, <1>19 DEF CopyCounts, Accounted
  <2>2. ReplyCounts(client[p])'
    BY <1>1, <1>10, <1>12, <1>13, <1>18, <1>19 DEF ReplyCounts, Accounted
  <2>3. HeadCounts(client[p])'
    BY <1>10, <1>11, <1>18, <1>19 DEF HeadCounts
  <2>4. QED
    BY <2>1, <2>2, <2>3 DEF CommandCounts
<1>21. ASSUME NEW q \in Procs \ {p} PROVE CommandCounts(client[q])'
  <2>1. CommandCounts(client[q])
    BY DEF CountInv
  <2>2. client[q].at \notin {"state", "budget"}
    BY <1>1 DEF BrowseInv, CommandOK, Writing
  <2>3. Using(client[q]) =>
          /\ Steady(client[q].session)
          /\ IsPrefix(trace[client[q].session], trace'[client[q].session])
    BY <1>1, UsingFacts, PrefixRefl DEF Steady
  <2>4. QED
    BY <1>19, <2>1, <2>2, <2>3, CommandStaysCounted
<1>22. QED
  BY <1>16, <1>20, <1>21 DEF CountInv

LEMMA NextCounts == BrowseInv /\ BrowseInv' /\ CountInv /\ [Next]_vars => CountInv'
<1> SUFFICES ASSUME BrowseInv, BrowseInv', CountInv, [Next]_vars PROVE CountInv'
  OBVIOUS
<1>1. CASE UNCHANGED vars
  <2>1. /\ log' = log /\ used' = used /\ trace' = trace /\ state' = state
        /\ pending' = pending /\ client' = client
    BY <1>1 DEF vars, driverVars, diskVars
  <2>2. QED
    BY <2>1, CountsFrame
<1>2. ASSUME NEW p \in Procs, Step(p) \/ Start(p) \/ Slow(p) \/ Crash(p) PROVE CountInv'
  <2>1. CASE OpenSession(p)
    BY <2>1, OpenSessionCounts
  <2>2. CASE Connect(p)
    BY <2>2, ConnectCounts
  <2>3. CASE Recover(p)
    BY <2>3, RecoverCounts
  <2>4. CASE AskPending(p)
    BY <2>4, AskPendingCounts
  <2>5. CASE PublishTrace(p)
    BY <2>5, PublishTraceCounts
  <2>6. CASE PublishState(p)
    BY <2>6, PublishStateCounts
  <2>7. CASE Start(p)
    BY <2>7, StartCounts
  <2>8. CASE \/ Launch(p) \/ Act(p) \/ Ack(p) \/ PublishBudget(p) \/ Finish(p)
             \/ LockTaken(p) \/ Slow(p) \/ Crash(p)
    BY <2>8, PlainCounts
  <2>9. QED
    BY <1>2, <2>1, <2>2, <2>3, <2>4, <2>5, <2>6, <2>7, <2>8 DEF Step
<1>3. ASSUME NEW p \in Procs, NEW v \in Verbs, NEW s \in Sessions, Command(p, v, s)
      PROVE  CountInv'
  BY <1>3, CommandCounted
<1>4. ASSUME NEW s \in Sessions, Execute(s) \/ DriverDies(s) PROVE CountInv'
  BY <1>4, ExecuteCounts, DriverDiesCounts
<1>5. QED
  BY <1>1, <1>2, <1>3, <1>4 DEF Next

LEMMA InitCounts == Init => CountInv
<1> SUFFICES ASSUME Init PROVE CountInv
  OBVIOUS
<1>1. \A s \in Sessions : SessionCounts(s)
  BY DEF Init, SessionCounts
<1>2. Idle.at = "idle"
  BY DEF Idle
<1>3. CommandCounts(Idle)
  BY <1>2 DEF CommandCounts, CopyCounts, ReplyCounts, HeadCounts, Using, Asking, Holding
<1>4. QED
  BY <1>1, <1>3 DEF Init, CountInv

-----------------------------------------------------------------------------
(* What the research cycle has spent.                                      *)

\* The head of a session's state never goes back.
LEMMA HeadGrows ==
    ASSUME BrowseInv, BrowseInv', CountInv, [Next]_vars, NEW s \in Sessions, state[s] # None
    PROVE  state'[s] # None /\ IsPrefix(state[s].head, state'[s].head)
<1>1. state \in [Sessions -> States \cup {None}] /\ state[s] \in States
      /\ state[s].head \in Seq(Events)
  BY DEF BrowseInv, Types, States
<1>2. CASE state'[s] = state[s]
  BY <1>1, <1>2, PrefixRefl
<1>3. ASSUME NEW p \in Procs, Connect(p), client[p].session = s
      PROVE  state'[s] # None /\ IsPrefix(state[s].head, state'[s].head)
  <2>1. state[s] = Fresh /\ client[p].copy = Fresh
    BY <1>3 DEF Connect, At, BrowseInv, CommandOK, Launched, Launching
  <2>2. state'[s] = [Fresh EXCEPT !.connected = TRUE]
    BY <1>1, <1>3, <2>1 DEF Connect
  <2>3. state'[s].head = <<>> /\ state[s].head = <<>>
    BY <2>1, <2>2 DEF Fresh
  <2>4. state'[s].connected
    BY <2>2 DEF Fresh
  <2>5. state'[s] # None
    <3>1. [Fresh EXCEPT !.connected = TRUE] \in States
      <4>1. <<>> \in Seq(Events)
        OBVIOUS
      <4>2. QED
        BY <4>1 DEF Fresh, States
    <3>2. QED
      BY <2>2, <3>1, BrowseAssumption
  <2>6. QED
    BY <1>1, <2>3, <2>5, PrefixRefl
<1>4. ASSUME NEW p \in Procs, PublishState(p), client[p].session = s
      PROVE  state'[s] # None /\ IsPrefix(state[s].head, state'[s].head)
  <2>1. client[p].at = "state"
    BY <1>4 DEF PublishState, At
  <2>2. IsPrefix(state[s].head, client[p].reply.log)
    BY <1>4, <2>1 DEF CountInv, CommandCounts, HeadCounts
  <2>3. PICK x, y : state'[s] = [state[s] EXCEPT !.head = client[p].reply.log,
                                                 !.checkpoint = x, !.seal = y]
    BY <1>1, <1>4 DEF PublishState
  <2>4. state'[s].head = client[p].reply.log
    BY <1>1, <2>3 DEF States
  <2>5. state'[s] # None
    <3>1. client'[p].at = "budget" /\ client'[p].session = s
      BY <1>4 DEF PublishState, BrowseInv, Types, Clients
    <3>2. QED
      BY <3>1 DEF BrowseInv, CommandOK, Served, Serving, Holding
  <2>6. QED
    BY <2>2, <2>4, <2>5
<1>5. ASSUME NEW p \in Procs, NEW t \in Sessions, NewSession(p, t)
      PROVE  state'[s] = state[s]
  BY <1>1, <1>5 DEF NewSession
<1>6. \/ state' = state
      \/ \E p \in Procs : OpenSession(p) \/ Connect(p) \/ PublishState(p)
  BY DEF Next, Step, vars, diskVars, Launch, Recover, AskPending, Act,
     Ack, PublishTrace, PublishBudget, Finish, LockTaken, Start, Slow, Crash, Command, Execute,
     DriverDies
<1>7. CASE \E p \in Procs : OpenSession(p)
  BY <1>2, <1>5, <1>7 DEF OpenSession
<1>8. CASE \E p \in Procs : Connect(p)
  BY <1>1, <1>2, <1>3, <1>8 DEF Connect
<1>9. CASE \E p \in Procs : PublishState(p)
  BY <1>1, <1>2, <1>4, <1>9 DEF PublishState
<1>10. QED
  BY <1>2, <1>6, <1>7, <1>8, <1>9

\* Only the session that commands go to is published.
OnlyCurrentPublishes ==
    \A p \in Procs : client[p].at = "budget" => client[p].session = current

CycleGrows == cycle # None => cycle' # None /\ cycle' >= cycle

LEMMA NewSessionSpends ==
    ASSUME BrowseInv, BrowseInv', CycleInv, NEW p \in Procs, OpenSession(p)
    PROVE  CycleInv' /\ CycleGrows
<1>1. /\ cycle' = cycle /\ log' = log /\ Types /\ Types'
      /\ cycle \in Nat \cup {None}
  BY DEF OpenSession, BrowseInv, Types
<1>2. CycleGrows
  BY <1>1, ProjectLockAssumption DEF CycleGrows
<1>3. CASE UNCHANGED <<state, current, used>>
  BY <1>1, <1>2, <1>3 DEF CycleInv
<1>4. ASSUME NEW s \in Sessions, NewSession(p, s) PROVE CycleInv'
  <2>1. SUFFICES ASSUME cycle # None PROVE CycleInv'
    BY <1>1 DEF CycleInv
  <2>2. log[s] = <<>>
    BY <1>4 DEF NewSession, BrowseInv, SessionOK, NotConnected
  <2>3. current' = s /\ state'[s] = Fresh /\ used'[s] = cycle
    BY <1>1, <1>4, <2>1 DEF NewSession, Types
  <2>4. Fresh.head = <<>> /\ Fresh # None /\ s # None
    BY FreshFacts, BrowseAssumption DEF Fresh
  <2>5. cycle \in Nat
    BY <1>1, <2>1
  <2>6. Acts(log'[s]) = 0 /\ Acts(state'[s].head) = 0
    BY <1>1, <2>2, <2>3, <2>4, NoActs
  <2>7. QED
    BY <1>1, <2>3, <2>4, <2>5, <2>6 DEF CycleInv
<1>5. QED
  BY <1>2, <1>3, <1>4 DEF OpenSession

LEMMA PublishBudgetSpends ==
    ASSUME BrowseInv, BrowseInv', CountInv, CycleInv, OnlyCurrentPublishes,
           NEW p \in Procs, PublishBudget(p)
    PROVE  CycleInv' /\ CycleGrows
<1>1. /\ cycle' = client[p].reply.used /\ client[p].at = "budget"
      /\ UNCHANGED <<current, log, used, state>>
  BY DEF PublishBudget, At, driverVars
<1>2. Holding(client[p]) /\ Using(client[p])
  BY <1>1 DEF Holding, Using
<1>3. PICK s \in Sessions : s = client[p].session
  BY <1>2, UsingFacts
<1>4. s = current /\ state[s] # None
  BY <1>1, <1>2, <1>3 DEF OnlyCurrentPublishes, BrowseInv, CommandOK, Served, Serving
<1>5. PICK l \in Seq(Events), k \in Nat : l = client[p].reply.log /\ k = client[p].reply.used
  BY <1>2, UsingFacts
<1>6. Accounted(s, l, k) /\ state[s].head = l
  BY <1>1, <1>2, <1>3, <1>5 DEF CountInv, CommandCounts, ReplyCounts, HeadCounts
<1>7. PICK a \in Nat, b \in Nat, m \in Nat : a = Acts(log[s]) /\ b = Acts(l) /\ m = used[s]
  BY ActsCount DEF BrowseInv, Types
<1>8. k + a = m + b
  BY <1>6, <1>7 DEF Accounted
<1>9. CycleInv'
  <2>1. s # None
    BY BrowseAssumption
  <2>2. QED
    BY <1>1, <1>4, <1>5, <1>6, <1>7, <1>8, <2>1 DEF CycleInv
<1>10. CycleGrows
  <2>1. SUFFICES ASSUME cycle # None PROVE cycle' # None /\ cycle' >= cycle
    BY DEF CycleGrows
  <2>2. cycle \in Nat
    BY <2>1 DEF BrowseInv, Types
  <2>3. cycle + a <= m + b
    BY <1>4, <1>6, <1>7, <2>1 DEF CycleInv
  <2>4. k >= cycle
    BY <1>8, <2>2, <2>3
  <2>5. CycleInv' /\ cycle' = k
    BY <1>1, <1>5, <1>9
  <2>6. k # None
    BY BrowseAssumption
  <2>7. QED
    BY <2>4, <2>5, <2>6
<1>11. QED
  BY <1>9, <1>10

LEMMA NextSpends ==
    ASSUME BrowseInv, BrowseInv', CountInv, CycleInv, OnlyCurrentPublishes, [Next]_vars
    PROVE  CycleInv' /\ CycleGrows
<1>1. CASE \E p \in Procs : OpenSession(p)
  BY <1>1, NewSessionSpends
<1>2. CASE \E p \in Procs : PublishBudget(p)
  BY <1>2, PublishBudgetSpends
<1>3. CASE cycle' = cycle /\ current' = current /\ \A t \in Sessions : Steady(t)
  <2>1. SUFFICES ASSUME cycle # None PROVE CycleInv' /\ CycleGrows
    BY <1>3 DEF CycleInv, CycleGrows
  <2>2. cycle \in Nat /\ current \in Sessions /\ state[current] # None
    BY <2>1 DEF CycleInv, BrowseInv, Types
  <2>3. PICK s \in Sessions : s = current
    BY <2>2
  <2>4. state'[s] # None /\ IsPrefix(state[s].head, state'[s].head)
    BY <2>2, <2>3, HeadGrows
  <2>5. /\ state[s].head \in Seq(Events) /\ state'[s].head \in Seq(Events)
        /\ log[s] \in Seq(Events) /\ log'[s] \in Seq(Events)
        /\ used[s] \in Nat /\ used'[s] \in Nat
    BY <2>2, <2>3, <2>4 DEF BrowseInv, Types, States
  <2>6. PICK h \in Nat, g \in Nat, a \in Nat, b \in Nat :
           /\ h = Acts(state[s].head) /\ g = Acts(state'[s].head)
           /\ a = Acts(log[s]) /\ b = Acts(log'[s])
    BY <2>5, ActsCount
  <2>7. h <= g
    BY <2>4, <2>5, <2>6, ActsGrow
  <2>8. used'[s] + a = used[s] + b /\ cycle + a <= used[s] + h
    BY <1>3, <2>1, <2>3, <2>6 DEF Steady, CycleInv
  <2>9. cycle + b <= used'[s] + g
    BY <2>2, <2>5, <2>6, <2>7, <2>8
  <2>10. CycleInv'
    BY <1>3, <2>2, <2>3, <2>4, <2>6, <2>9 DEF CycleInv
  <2>11. QED
    BY <1>3, <2>2, <2>10 DEF CycleGrows, CycleInv
<1> DEFINE Calm == cycle' = cycle /\ current' = current /\ log' = log /\ used' = used
<1>4. \/ \E p \in Procs : OpenSession(p) \/ PublishBudget(p)
      \/ Calm
      \/ \E s \in Sessions : Execute(s)
  <2>1. ASSUME NEW p \in Procs, Step(p), ~OpenSession(p), ~PublishBudget(p) PROVE Calm
    BY <2>1 DEF Step, Launch, Connect, Recover, AskPending, Act, Ack, PublishTrace,
       PublishState, Finish, LockTaken, driverVars, diskVars
  <2>2. ASSUME NEW p \in Procs, Start(p) \/ Slow(p) \/ Crash(p) PROVE Calm
    BY <2>2 DEF Start, Slow, Crash, driverVars, diskVars
  <2>3. ASSUME NEW p \in Procs, NEW v \in Verbs, NEW s \in Sessions, Command(p, v, s) PROVE Calm
    BY <2>3 DEF Command, driverVars, diskVars
  <2>4. ASSUME NEW s \in Sessions, DriverDies(s) PROVE Calm
    BY <2>4 DEF DriverDies, diskVars
  <2>5. ASSUME UNCHANGED vars PROVE Calm
    BY <2>5 DEF vars, driverVars, diskVars
  <2> HIDE DEF Calm
  <2>6. QED
    BY <2>1, <2>2, <2>3, <2>4, <2>5 DEF Next
<1>5. CASE cycle' = cycle /\ current' = current /\ log' = log /\ used' = used
  BY <1>3, <1>5 DEF Steady
<1>6. CASE \E s \in Sessions : Execute(s)
  <2>1. cycle' = cycle /\ current' = current
    BY <1>6 DEF Execute, diskVars
  <2>2. QED
    BY <1>3, <1>6, <2>1, ExecuteSteady
<1>7. QED
  BY <1>1, <1>2, <1>4, <1>5, <1>6

\* Why the cycle's count falls: while commands publish no session but the one that
\* current.json names, restarting grants no new actions, whatever dies and in
\* whichever order the replies arrive.
THEOREM CycleKept == Spec /\ []OnlyCurrentPublishes => CycleNeverFalls
<1>1. Init => CycleInv
  BY DEF Init, CycleInv
<1>2. BrowseInv /\ BrowseInv' /\ CountInv /\ CycleInv /\ OnlyCurrentPublishes /\ [Next]_vars
        => CycleInv'
  BY NextSpends
<1>3. BrowseInv /\ BrowseInv' /\ CountInv /\ CycleInv /\ OnlyCurrentPublishes /\ [Next]_vars
        => [cycle # None => cycle' # None /\ cycle' >= cycle]_vars
  BY NextSpends DEF CycleGrows
<1>4. QED
  BY <1>1, <1>2, <1>3, InitCounts, NextCounts, BrowseInvariant, PTL DEF Spec, CycleNeverFalls

=============================================================================
