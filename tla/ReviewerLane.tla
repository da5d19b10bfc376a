---------------------------- MODULE ReviewerLane ----------------------------
(***************************************************************************)
(* A lane of isolated reviewers (adapters/pi-reviewer-runtime.ts): each is  *)
(* a child process that reads its evidence once, from a broker of its own   *)
(* (adapters/reviewer-mcp.ts), over RPC (adapters/pi-reviewer-rpc.ts).       *)
(*                                                                         *)
(* The children run at once.  A child may answer late, hang, die, read twice *)
(* at a time, or ignore SIGTERM; every wait of the runner ends by a timer.   *)
(* The first failure aborts the siblings, and the lane returns when all of  *)
(* them have been cleaned up.                                               *)
(***************************************************************************)
EXTENDS Naturals, FiniteSets

CONSTANTS
    Reviewers,      \* the children of the lane
    Reads           \* calls of the evidence tool a child may make

VARIABLES
    lane,           \* "idle", "running", "done", "failed"
    aborted,        \* the signal that all children share
    runner,         \* runner[c]: where runChild is
    process,        \* process[c]: "none", "up" or "gone"
    corrected,      \* corrected[c]: its correction turn was asked for
    asked,          \* asked[c]: a turn is in progress
    broker,         \* broker[c]: "none", "open", "used" or "shut"
    capability,     \* capability[c]: the read that asked for the capability last, if any
    read,           \* read[c]: the state of each call
    released,       \* history: how often the evidence of c was given out
    failed          \* failed[c]: runChild will reject, or has

laneVars == <<lane, aborted, runner, process, corrected, asked, broker, capability, read,
              released, failed>>

Awaits == {"handshake", "turn", "answer", "proof", "finish"}

LaneInit ==
    /\ lane = "idle"
    /\ aborted = FALSE
    /\ runner = [c \in Reviewers |-> "none"]
    /\ process = [c \in Reviewers |-> "none"]
    /\ corrected = [c \in Reviewers |-> FALSE]
    /\ asked = [c \in Reviewers |-> FALSE]
    /\ broker = [c \in Reviewers |-> "none"]
    /\ capability = [c \in Reviewers |-> {}]
    /\ read = [c \in Reviewers |-> [i \in Reads |-> "none"]]
    /\ released = [c \in Reviewers |-> 0]
    /\ failed = [c \in Reviewers |-> FALSE]

Go(c, from, to) == runner[c] = from /\ runner' = [runner EXCEPT ![c] = to]

-----------------------------------------------------------------------------
(* The lane.                                                               *)

\* All children are spawned before any of them is awaited.
StartLane ==
    /\ lane = "idle"
    /\ lane' = "running"
    /\ runner' = [c \in Reviewers |-> "handshake"]
    /\ process' = [c \in Reviewers |-> "up"]
    /\ UNCHANGED <<aborted, corrected, asked, broker, capability, read, released, failed>>

CancelLane ==
    /\ lane = "running" /\ ~aborted
    /\ aborted' = TRUE
    /\ UNCHANGED <<lane, runner, process, corrected, asked, broker, capability, read,
                   released, failed>>

SettlesLikeAll ==
    \/ \A c \in Reviewers : runner[c] = "settled"
    \/ \E c \in Reviewers : runner[c] = "settled" /\ failed[c]

\* Promise.allSettled
Settles == \A c \in Reviewers : runner[c] = "settled"

ReturnLane ==
    /\ lane = "running"
    /\ Settles
    /\ lane' = IF \E c \in Reviewers : failed[c] THEN "failed" ELSE "done"
    /\ UNCHANGED <<aborted, runner, process, corrected, asked, broker, capability, read,
                   released, failed>>

-----------------------------------------------------------------------------
(* runChild.                                                               *)

\* The child has answered as an isolated session: its evidence is launched, and
\* the first turn is asked for.
LaunchEvidence(c) ==
    /\ Go(c, "handshake", "turn")
    /\ process[c] = "up"
    /\ broker' = [broker EXCEPT ![c] = "open"]
    /\ asked' = [asked EXCEPT ![c] = TRUE]
    /\ UNCHANGED <<lane, aborted, process, corrected, capability, read, released, failed>>

TurnSettled(c) ==
    /\ Go(c, "turn", "answer")
    /\ ~asked[c]
    /\ UNCHANGED <<lane, aborted, process, corrected, asked, broker, capability, read,
                   released, failed>>

\* An answer that drifts from the bindings, or that the contract refuses, is
\* questioned once.
AskCorrection(c) ==
    /\ Go(c, "answer", "turn")
    /\ process[c] = "up" /\ ~corrected[c]
    /\ corrected' = [corrected EXCEPT ![c] = TRUE]
    /\ asked' = [asked EXCEPT ![c] = TRUE]
    /\ UNCHANGED <<lane, aborted, process, broker, capability, read, released, failed>>

TakeAnswer(c) ==
    /\ Go(c, "answer", "proof")
    /\ process[c] = "up"
    /\ UNCHANGED <<lane, aborted, process, corrected, asked, broker, capability, read,
                   released, failed>>

Ended(c) == {i \in Reads : read[c][i] \in {"given", "refused"}}

\* One call of the tool, which succeeded; its proof is consumed.
ReadOnce(c) == Cardinality(Ended(c)) = 1 /\ \A i \in Ended(c) : read[c][i] = "given"

ConsumeProof(c) ==
    /\ Go(c, "proof", "finish")
    /\ process[c] = "up" /\ ReadOnce(c)
    /\ UNCHANGED <<lane, aborted, process, corrected, asked, broker, capability, read,
                   released, failed>>

\* rpc.finish: the child was asked to end, and ended well.
FinishChild(c) ==
    /\ Go(c, "finish", "dispose")
    /\ process[c] = "up"
    /\ process' = [process EXCEPT ![c] = "gone"]
    /\ UNCHANGED <<lane, aborted, corrected, asked, broker, capability, read, released,
                   failed>>

\* An await rejects: its timer, the abort, the exit of the child, or an answer
\* that is refused.  SIGTERM has been sent.
RejectChild(c) ==
    /\ runner[c] \in Awaits
    /\ runner' = [runner EXCEPT ![c] = "dispose"]
    /\ failed' = [failed EXCEPT ![c] = TRUE]
    /\ UNCHANGED <<lane, aborted, process, corrected, asked, broker, capability, read,
                   released>>

KilledNever == {}

Killed == {"dispose"}

\* One second after SIGTERM comes SIGKILL.
KillAfterDeadline(c) ==
    /\ runner[c] \in Killed
    /\ process[c] = "up"
    /\ process' = [process EXCEPT ![c] = "gone"]
    /\ UNCHANGED <<lane, aborted, runner, corrected, asked, broker, capability, read,
                   released, failed>>

\* The process has closed: the broker is closed and the promise settles.  A
\* rejection aborts the siblings.
CleanUp(c) ==
    /\ Go(c, "dispose", "settled")
    /\ process[c] = "gone"
    /\ broker' = [broker EXCEPT ![c] = "shut"]
    /\ aborted' = (aborted \/ failed[c])
    /\ UNCHANGED <<lane, process, corrected, asked, capability, read, released, failed>>

-----------------------------------------------------------------------------
(* The child and its broker.                                               *)

Exit(c) ==
    /\ process[c] = "up"
    /\ process' = [process EXCEPT ![c] = "gone"]
    /\ UNCHANGED <<lane, aborted, runner, corrected, asked, broker, capability, read,
                   released, failed>>

\* The tool starts a proxy process, which asks the broker for its capability.
Challenge(c, i) ==
    /\ process[c] = "up" /\ asked[c]
    /\ read[c][i] = "none"
    /\ \/ /\ broker[c] = "open"
          /\ capability' = [capability EXCEPT ![c] = {i}]
          /\ read' = [read EXCEPT ![c][i] = "asking"]
       \/ /\ broker[c] # "open"
          /\ read' = [read EXCEPT ![c][i] = "refused"]
          /\ UNCHANGED capability
    /\ UNCHANGED <<lane, aborted, runner, process, corrected, asked, broker, released,
                   failed>>

AfterReleaseOpen == "open"

\* The evidence is given out once: closeBroker.
AfterRelease == "used"

\* With the capability the proxy claims the evidence, unless another one asked
\* for it since.
ClaimEvidence(c, i) ==
    /\ process[c] = "up"
    /\ read[c][i] = "asking"
    /\ \/ /\ broker[c] = "open" /\ capability[c] = {i}
          /\ broker' = [broker EXCEPT ![c] = AfterRelease]
          /\ released' = [released EXCEPT ![c] = @ + 1]
          /\ read' = [read EXCEPT ![c][i] = "given"]
       \/ /\ ~(broker[c] = "open" /\ capability[c] = {i})
          /\ read' = [read EXCEPT ![c][i] = "refused"]
          /\ UNCHANGED <<broker, released>>
    /\ UNCHANGED <<lane, aborted, runner, process, corrected, asked, capability, failed>>

EndTurn(c) ==
    /\ process[c] = "up" /\ asked[c]
    /\ \A i \in Reads : read[c][i] # "asking"
    /\ asked' = [asked EXCEPT ![c] = FALSE]
    /\ UNCHANGED <<lane, aborted, runner, process, corrected, broker, capability, read,
                   released, failed>>

\* The binding lives for a minute.
ExpireBroker(c) ==
    /\ broker[c] = "open"
    /\ broker' = [broker EXCEPT ![c] = "shut"]
    /\ UNCHANGED <<lane, aborted, runner, process, corrected, asked, capability, read,
                   released, failed>>

LaneNext ==
    \/ StartLane \/ CancelLane \/ ReturnLane
    \/ \E c \in Reviewers :
        \/ LaunchEvidence(c) \/ TurnSettled(c) \/ AskCorrection(c) \/ TakeAnswer(c)
        \/ ConsumeProof(c) \/ FinishChild(c) \/ RejectChild(c) \/ KillAfterDeadline(c)
        \/ CleanUp(c) \/ Exit(c) \/ EndTurn(c) \/ ExpireBroker(c)
        \/ \E i \in Reads : Challenge(c, i) \/ ClaimEvidence(c, i)

\* The runner's own steps and its timers, of which a child waits for one at a time;
\* nothing of what a child does.
LaneFairness ==
    /\ WF_laneVars(ReturnLane)
    /\ \A c \in Reviewers : WF_laneVars(RejectChild(c) \/ KillAfterDeadline(c) \/ CleanUp(c))

LaneSpec == LaneInit /\ [][LaneNext]_laneVars /\ LaneFairness

-----------------------------------------------------------------------------
(* Properties.                                                             *)

\* A lane returns only after every child is gone and every broker is closed, and
\* a lane that returns results has one of every child, each of which read its own
\* evidence (runPiReviewerLane, Promise.allSettled).
LaneLeavesNothing ==
    /\ lane \in {"done", "failed"} => \A c \in Reviewers :
            process[c] = "gone" /\ broker[c] # "open"
    /\ lane = "done" => \A c \in Reviewers : ~failed[c] /\ ReadOnce(c)

\* The evidence of a launch is given out once at most, however many calls of the
\* tool ask for the capability and claim it in turn (startBroker).
EvidenceOnce == \A c \in Reviewers : released[c] <= 1

\* A lane that started returns, whatever its children do: they may hang, and
\* ignore SIGTERM.
LaneReturns == lane = "running" ~> lane \in {"done", "failed"}

=============================================================================
