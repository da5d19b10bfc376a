---------------------------- MODULE WaitsProofs ----------------------------
(***************************************************************************)
(* What is proved about the reviewer lane, the acquisition batch, the       *)
(* commands of the Pi host and the lease of a browser: the safety of each,   *)
(* for any number of children and calls of the tool, of workers and          *)
(* references, and of commands and inputs.  Of why a lane, a batch and the    *)
(* queue of the host come to an end the measures are proved; that they do is *)
(* left to TLC, with what fairness adds.                                     *)
(***************************************************************************)
EXTENDS ReviewerLane, AcquisitionBatch, PiHost, BrowserLease, WellFoundedInduction, TLAPS

-----------------------------------------------------------------------------
(* The reviewer lane.                                                      *)

Runs == {"none", "handshake", "turn", "answer", "proof", "finish", "dispose", "settled"}
ReadStates == {"none", "asking", "given", "refused"}

LaneTypes ==
    /\ lane \in {"idle", "running", "done", "failed"}
    /\ aborted \in BOOLEAN
    /\ runner \in [Reviewers -> Runs]
    /\ process \in [Reviewers -> {"none", "up", "gone"}]
    /\ corrected \in [Reviewers -> BOOLEAN]
    /\ asked \in [Reviewers -> BOOLEAN]
    /\ broker \in [Reviewers -> {"none", "open", "used", "shut"}]
    /\ capability \in [Reviewers -> SUBSET Reads]
    /\ read \in [Reviewers -> [Reads -> ReadStates]]
    /\ released \in [Reviewers -> 0..1]
    /\ failed \in [Reviewers -> BOOLEAN]

\* The child was handed nothing before it was launched, and a broker that gave its
\* evidence out is not open.
BrokerOnce(c) ==
    /\ runner[c] \in {"none", "handshake"} => broker[c] = "none"
    /\ broker[c] \in {"none", "open"} => released[c] = 0

\* The turn is over when the answer is looked at, and no call of the tool is under way
\* outside a turn: what ConsumeProof saw stays so.
NoLateRead(c) ==
    /\ runner[c] \in {"none", "handshake", "answer", "proof", "finish"} => ~asked[c]
    /\ ~asked[c] => \A i \in Reads : read[c][i] # "asking"

ProofStands(c) ==
    /\ runner[c] = "finish" => ReadOnce(c)
    /\ runner[c] \in {"dispose", "settled"} /\ ~failed[c] => ~asked[c] /\ ReadOnce(c)

Cleaned(c) == runner[c] = "settled" => process[c] = "gone" /\ broker[c] = "shut"

LaneInv ==
    /\ LaneTypes
    /\ \A c \in Reviewers : BrokerOnce(c) /\ NoLateRead(c) /\ ProofStands(c) /\ Cleaned(c)
    /\ lane = "idle" => \A c \in Reviewers : runner[c] = "none" /\ released[c] = 0
    /\ lane \in {"done", "failed"} => \A c \in Reviewers : runner[c] = "settled"
    /\ lane = "done" => \A c \in Reviewers : ~failed[c]

\* A step that touches no call of a child leaves what its calls amount to.
LEMMA StillReadOnce ==
    ASSUME NEW d \in Reviewers, read'[d] = read[d]
    PROVE  ReadOnce(d) => ReadOnce(d)'
BY DEF ReadOnce, Ended

\* A step of the lane as a whole.
LEMMA LaneKeeps ==
    ASSUME LaneInv, StartLane \/ CancelLane \/ ReturnLane
    PROVE  LaneInv'
<1>1. UNCHANGED read
  BY DEF StartLane, CancelLane, ReturnLane
<1>2. \A d \in Reviewers : ReadOnce(d) => ReadOnce(d)'
  BY <1>1, StillReadOnce
<1> USE <1>1, <1>2
    DEF LaneInv, LaneTypes, Runs, BrokerOnce, NoLateRead, ProofStands, Cleaned
<1>3. CASE StartLane
  BY <1>3 DEF StartLane
<1>4. CASE CancelLane
  BY <1>4 DEF CancelLane
<1>5. CASE ReturnLane
  BY <1>5 DEF ReturnLane, Settles
<1>6. QED
  BY <1>3, <1>4, <1>5

\* A step of a runner, which makes no call of the tool.
LEMMA RunnerKeeps ==
    ASSUME LaneInv, NEW c \in Reviewers,
           \/ LaunchEvidence(c) \/ TurnSettled(c) \/ AskCorrection(c) \/ TakeAnswer(c)
           \/ ConsumeProof(c) \/ FinishChild(c) \/ RejectChild(c) \/ KillAfterDeadline(c)
           \/ CleanUp(c)
    PROVE  LaneInv'
<1>1. UNCHANGED read
  BY DEF LaunchEvidence, TurnSettled, AskCorrection, TakeAnswer, ConsumeProof, FinishChild,
         RejectChild, KillAfterDeadline, CleanUp
<1>2. \A d \in Reviewers : ReadOnce(d) => ReadOnce(d)'
  BY <1>1, StillReadOnce
<1> USE <1>1, <1>2
    DEF LaneInv, LaneTypes, Runs, BrokerOnce, NoLateRead, ProofStands, Cleaned, Go
<1>3. CASE LaunchEvidence(c)
  BY <1>3 DEF LaunchEvidence
<1>4. CASE TurnSettled(c)
  BY <1>4 DEF TurnSettled
<1>5. CASE AskCorrection(c)
  BY <1>5 DEF AskCorrection
<1>6. CASE TakeAnswer(c)
  BY <1>6 DEF TakeAnswer
<1>7. CASE ConsumeProof(c)
  BY <1>7 DEF ConsumeProof
<1>8. CASE FinishChild(c)
  BY <1>8 DEF FinishChild
<1>9. CASE RejectChild(c)
  BY <1>9 DEF RejectChild, Awaits
<1>10. CASE KillAfterDeadline(c)
  BY <1>10 DEF KillAfterDeadline, Killed
<1>11. CASE CleanUp(c)
  BY <1>11 DEF CleanUp
<1>12. QED
  BY <1>3, <1>4, <1>5, <1>6, <1>7, <1>8, <1>9, <1>10, <1>11

\* A step of a child or of its broker.
LEMMA ChildKeeps ==
    ASSUME LaneInv, NEW c \in Reviewers,
           \/ Exit(c) \/ EndTurn(c) \/ ExpireBroker(c)
           \/ \E i \in Reads : Challenge(c, i) \/ ClaimEvidence(c, i)
    PROVE  LaneInv'
<1>1. ASSUME UNCHANGED read PROVE \A d \in Reviewers : ReadOnce(d) => ReadOnce(d)'
  BY <1>1, StillReadOnce
<1> USE DEF LaneInv, LaneTypes, Runs, BrokerOnce, NoLateRead, ProofStands, Cleaned
<1>2. CASE Exit(c)
  BY <1>1, <1>2 DEF Exit
<1>3. CASE EndTurn(c)
  BY <1>1, <1>3 DEF EndTurn
<1>4. CASE ExpireBroker(c)
  BY <1>1, <1>4 DEF ExpireBroker
<1>5. ASSUME NEW i \in Reads, Challenge(c, i) \/ ClaimEvidence(c, i) PROVE LaneInv'
  <2>1. PICK v \in {"asking", "given", "refused"} : read' = [read EXCEPT ![c][i] = v]
    BY <1>5 DEF Challenge, ClaimEvidence
  <2>2. /\ read' \in [Reviewers -> [Reads -> ReadStates]]
        /\ \A d \in Reviewers : d # c => read'[d] = read[d]
        /\ read'[c][i] = v
        /\ v # "asking" => \A j \in Reads : read'[c][j] = "asking" => read[c][j] = "asking"
    BY <2>1 DEF ReadStates
  <2>3. \A d \in Reviewers : d # c /\ ReadOnce(d) => ReadOnce(d)'
    BY <2>2, StillReadOnce
  <2>4. asked[c]
    BY <1>5 DEF Challenge, ClaimEvidence
  <2>5. runner[c] \in {"turn", "dispose", "settled"} /\ (runner[c] # "turn" => failed[c])
    BY <2>4
  <2>6. CASE Challenge(c, i)
    <3>1. LaneTypes'
      BY <2>2, <2>6, SMTT(30) DEF Challenge
    <3>2. UNCHANGED <<lane, runner, process, asked, broker, released, failed>>
      BY <2>6 DEF Challenge
    <3>3. QED
      BY <2>2, <2>3, <2>4, <2>5, <3>1, <3>2
  <2>7. CASE ClaimEvidence(c, i)
    <3>1. /\ UNCHANGED <<lane, aborted, runner, process, corrected, asked, capability, failed>>
          /\ \/ UNCHANGED <<broker, released>>
             \/ /\ broker[c] = "open"
                /\ broker' = [broker EXCEPT ![c] = "used"]
                /\ released' = [released EXCEPT ![c] = @ + 1]
      BY <2>1, <2>7 DEF ClaimEvidence, AfterRelease
    <3>2. v # "asking"
      <4>1. PICK x \in {"given", "refused"} : read' = [read EXCEPT ![c][i] = x]
        BY <2>7 DEF ClaimEvidence
      <4>2. read'[c][i] = x
        BY <4>1
      <4>3. QED
        BY <2>2, <4>1, <4>2
    <3>3. released' \in [Reviewers -> 0..1]
      BY <3>1
    <3>4. broker' \in [Reviewers -> {"none", "open", "used", "shut"}]
      BY <3>1
    <3>5. QED
      BY <2>2, <2>3, <2>4, <2>5, <3>1, <3>2, <3>3, <3>4
  <2>8. QED
    BY <1>5, <2>6, <2>7
<1>6. QED
  BY <1>2, <1>3, <1>4, <1>5

\* Types, that a broker gives out once, that no call of the tool comes after the proof,
\* and that what settled is cleaned up.
THEOREM LaneInvariant == LaneSpec => []LaneInv
<1>1. LaneInit => LaneInv
  <2> SUFFICES ASSUME LaneInit PROVE LaneInv
    OBVIOUS
  <2>1. LaneTypes
    <3>1. read \in [Reviewers -> [Reads -> ReadStates]]
      BY DEF LaneInit, ReadStates
    <3>2. capability \in [Reviewers -> SUBSET Reads] /\ released \in [Reviewers -> 0..1]
      BY DEF LaneInit
    <3>3. QED
      BY <3>1, <3>2 DEF LaneInit, LaneTypes, Runs
  <2>2. \A c \in Reviewers :
            /\ runner[c] = "none" /\ ~asked[c] /\ broker[c] = "none" /\ released[c] = 0
            /\ \A i \in Reads : read[c][i] = "none"
    BY DEF LaneInit
  <2>3. lane = "idle"
    BY DEF LaneInit
  <2>4. QED
    BY <2>1, <2>2, <2>3 DEF LaneInv, BrokerOnce, NoLateRead, ProofStands, Cleaned
<1>2. LaneInv /\ [LaneNext]_laneVars => LaneInv'
  <2> SUFFICES ASSUME LaneInv, [LaneNext]_laneVars PROVE LaneInv'
    OBVIOUS
  <2>1. CASE LaneNext
    BY <2>1, LaneKeeps, RunnerKeeps, ChildKeeps DEF LaneNext
  <2>2. CASE UNCHANGED laneVars
    <3>1. \A d \in Reviewers : ReadOnce(d) => ReadOnce(d)'
      BY <2>2, StillReadOnce DEF laneVars
    <3>2. QED
      BY <2>2, <3>1
      DEF laneVars, LaneInv, LaneTypes, BrokerOnce, NoLateRead, ProofStands, Cleaned
  <2>3. QED
    BY <2>1, <2>2
<1>3. QED
  BY <1>1, <1>2, PTL DEF LaneSpec

\* A lane that returns left no child and no broker, and its results read their evidence.
THEOREM LaneLeftNothing == LaneSpec => []LaneLeavesNothing
<1>1. LaneInv => LaneLeavesNothing
  BY DEF LaneInv, ProofStands, Cleaned, LaneLeavesNothing
<1>2. QED
  BY <1>1, LaneInvariant, PTL

\* The evidence of a launch is given out once, however many calls ask for it.
THEOREM EvidenceGivenOnce == LaneSpec => []EvidenceOnce
<1>1. LaneInv => EvidenceOnce
  BY DEF LaneInv, LaneTypes, EvidenceOnce
<1>2. QED
  BY <1>1, LaneInvariant, PTL

\* How many steps a child has left at most: the points of runChild before it, its one
\* correction, and the end of its process.
PointsLeft(point) ==
    CASE point = "none" -> 7
      [] point = "handshake" -> 6
      [] point = "turn" -> 5
      [] point = "answer" -> 4
      [] point = "proof" -> 3
      [] point = "finish" -> 2
      [] point = "dispose" -> 1
      [] OTHER -> 0

StepsLeft(c) ==
    PointsLeft(runner[c]) + (IF corrected[c] THEN 0 ELSE 2) + (IF process[c] = "gone" THEN 0 ELSE 1)

ChildStands(c) == UNCHANGED <<runner[c], corrected[c], process[c]>>

\* What the runner of a child does next without the child's help: the guards of RejectChild,
\* KillAfterDeadline and CleanUp.
HasTimer(c) ==
    \/ runner[c] \in Awaits
    \/ runner[c] \in Killed /\ process[c] = "up"
    \/ runner[c] = "dispose" /\ process[c] = "gone"

LaneStarted ==
    /\ lane = "idle" => \A c \in Reviewers : process[c] = "none"
    /\ lane = "running" => \A c \in Reviewers : runner[c] # "none" /\ process[c] # "none"

LEMMA ChildGoesOn ==
    ASSUME LaneInv, LaneStarted, LaneNext, NEW c \in Reviewers
    PROVE  ChildStands(c) \/ StepsLeft(c)' < StepsLeft(c)
<1>1. /\ runner \in [Reviewers -> Runs] /\ corrected \in [Reviewers -> BOOLEAN]
      /\ process \in [Reviewers -> {"none", "up", "gone"}]
  BY DEF LaneInv, LaneTypes
<1>2. CASE StartLane
  <2>1. /\ runner[c] = "none" /\ runner'[c] = "handshake" /\ corrected' = corrected
        /\ process[c] = "none" /\ process'[c] = "up"
    BY <1>2 DEF StartLane, LaneInv, LaneStarted
  <2>2. PointsLeft(runner[c]) = 7 /\ PointsLeft(runner'[c]) = 6
    BY <2>1 DEF PointsLeft
  <2>3. PICK m \in 0..2 : m = IF corrected[c] THEN 0 ELSE 2
    OBVIOUS
  <2>4. StepsLeft(c) = 7 + m + 1 /\ StepsLeft(c)' = 6 + m + 1
    BY <2>1, <2>2, <2>3 DEF StepsLeft
  <2>5. QED
    BY <2>4
<1>3. CASE CancelLane \/ ReturnLane
  BY <1>3 DEF CancelLane, ReturnLane, ChildStands
<1>4. ASSUME NEW d \in Reviewers,
             \/ \E i \in Reads : Challenge(d, i) \/ ClaimEvidence(d, i)
             \/ EndTurn(d) \/ ExpireBroker(d)
      PROVE  ChildStands(c)
  BY <1>4 DEF Challenge, ClaimEvidence, EndTurn, ExpireBroker, ChildStands
<1>5. ASSUME NEW d \in Reviewers, NEW from \in Runs, NEW to \in Runs, Go(d, from, to),
             PointsLeft(to) < PointsLeft(from), corrected' = corrected,
             process' = process \/ process' = [process EXCEPT ![d] = "gone"]
      PROVE  ChildStands(c) \/ StepsLeft(c)' < StepsLeft(c)
  <2>1. CASE c = d
    <3>1. runner[c] = from /\ runner'[c] = to
      BY <1>1, <1>5, <2>1 DEF Go
    <3>2. PICK a \in 0..7, b \in 0..7 : a = PointsLeft(from) /\ b = PointsLeft(to)
      BY DEF PointsLeft
    <3>3. b < a
      BY <1>5, <3>2
    <3>4. PICK m \in 0..2 : m = IF corrected[c] THEN 0 ELSE 2
      OBVIOUS
    <3>5. PICK u \in 0..1, v \in 0..1 :
            /\ u = IF process[c] = "gone" THEN 0 ELSE 1
            /\ v = IF process'[c] = "gone" THEN 0 ELSE 1
      OBVIOUS
    <3>6. v <= u
      BY <1>1, <1>5, <2>1, <3>5
    <3>7. StepsLeft(c) = a + m + u /\ StepsLeft(c)' = b + m + v
      BY <1>5, <3>1, <3>2, <3>4, <3>5 DEF StepsLeft
    <3>8. QED
      BY <3>3, <3>6, <3>7
  <2>2. CASE c # d
    BY <1>1, <1>5, <2>2 DEF Go, ChildStands
  <2>3. QED
    BY <2>1, <2>2
<1>6. ASSUME NEW d \in Reviewers,
             \/ LaunchEvidence(d) \/ TurnSettled(d) \/ TakeAnswer(d) \/ ConsumeProof(d)
             \/ FinishChild(d) \/ CleanUp(d)
      PROVE  ChildStands(c) \/ StepsLeft(c)' < StepsLeft(c)
  <2>1. /\ corrected' = corrected
        /\ process' = process \/ process' = [process EXCEPT ![d] = "gone"]
        /\ \/ Go(d, "handshake", "turn") \/ Go(d, "turn", "answer") \/ Go(d, "answer", "proof")
           \/ Go(d, "proof", "finish") \/ Go(d, "finish", "dispose") \/ Go(d, "dispose", "settled")
    BY <1>6 DEF LaunchEvidence, TurnSettled, TakeAnswer, ConsumeProof, FinishChild, CleanUp
  <2>2. /\ PointsLeft("turn") < PointsLeft("handshake") /\ PointsLeft("answer") < PointsLeft("turn")
        /\ PointsLeft("proof") < PointsLeft("answer") /\ PointsLeft("finish") < PointsLeft("proof")
        /\ PointsLeft("dispose") < PointsLeft("finish") /\ PointsLeft("settled") < PointsLeft("dispose")
    BY DEF PointsLeft
  <2>3. {"handshake", "turn", "answer", "proof", "finish", "dispose", "settled"} \subseteq Runs
    BY DEF Runs
  <2>4. QED
    BY <1>5, <2>1, <2>2, <2>3
<1>7. ASSUME NEW d \in Reviewers, RejectChild(d)
      PROVE  ChildStands(c) \/ StepsLeft(c)' < StepsLeft(c)
  <2>1. PICK from \in Awaits : from = runner[d]
    BY <1>7 DEF RejectChild
  <2>2. from \in Runs /\ "dispose" \in Runs /\ PointsLeft("dispose") < PointsLeft(from)
    BY DEF Awaits, Runs, PointsLeft
  <2>3. Go(d, from, "dispose") /\ corrected' = corrected /\ process' = process
    BY <1>7, <2>1 DEF RejectChild, Go
  <2>4. QED
    BY <1>5, <2>2, <2>3
<1>8. ASSUME NEW d \in Reviewers, AskCorrection(d)
      PROVE  ChildStands(c) \/ StepsLeft(c)' < StepsLeft(c)
  <2>1. CASE c = d
    <3>1. /\ runner[c] = "answer" /\ runner'[c] = "turn" /\ ~corrected[c] /\ corrected'[c]
          /\ process' = process
      BY <1>1, <1>8, <2>1 DEF AskCorrection, Go
    <3>2. PointsLeft(runner[c]) = 4 /\ PointsLeft(runner'[c]) = 5
      BY <3>1 DEF PointsLeft
    <3>3. PICK u \in 0..1 : u = IF process[c] = "gone" THEN 0 ELSE 1
      OBVIOUS
    <3>4. StepsLeft(c) = 4 + 2 + u /\ StepsLeft(c)' = 5 + 0 + u
      BY <3>1, <3>2, <3>3 DEF StepsLeft
    <3>5. QED
      BY <3>4
  <2>2. CASE c # d
    BY <1>1, <1>8, <2>2 DEF AskCorrection, Go, ChildStands
  <2>3. QED
    BY <2>1, <2>2
<1>9. ASSUME NEW d \in Reviewers, KillAfterDeadline(d) \/ Exit(d)
      PROVE  ChildStands(c) \/ StepsLeft(c)' < StepsLeft(c)
  <2>1. /\ process[d] = "up" /\ process' = [process EXCEPT ![d] = "gone"]
        /\ runner' = runner /\ corrected' = corrected
    BY <1>9 DEF KillAfterDeadline, Exit
  <2>2. CASE c = d
    <3>1. process[c] = "up" /\ process'[c] = "gone"
      BY <1>1, <2>1, <2>2
    <3>2. PICK a \in 0..7, m \in 0..2 :
             a = PointsLeft(runner[c]) /\ m = IF corrected[c] THEN 0 ELSE 2
      BY DEF PointsLeft
    <3>3. StepsLeft(c) = a + m + 1 /\ StepsLeft(c)' = a + m + 0
      BY <2>1, <3>1, <3>2 DEF StepsLeft
    <3>4. QED
      BY <3>3
  <2>3. CASE c # d
    BY <1>1, <2>1, <2>3 DEF ChildStands
  <2>4. QED
    BY <2>2, <2>3
<1>10. QED
  BY <1>2, <1>3, <1>4, <1>6, <1>7, <1>8, <1>9 DEF LaneNext

\* The argument for LaneReturns, for any number of children and calls of the tool: whatever
\* changes a child brings it nearer to its end, which is at most ten steps away, and until all
\* have settled there is one whose wait a timer ends.
THEOREM LaneRunsOut ==
    LaneSpec => /\ [][\A c \in Reviewers : ChildStands(c) \/ StepsLeft(c)' < StepsLeft(c)]_laneVars
                /\ [](/\ \A c \in Reviewers : StepsLeft(c) \in 0..10
                      /\ lane = "running" =>
                            \A c \in Reviewers : runner[c] = "settled" \/ HasTimer(c))
<1>1. LaneInv /\ LaneStarted /\ [LaneNext]_laneVars
        => [\A c \in Reviewers : ChildStands(c) \/ StepsLeft(c)' < StepsLeft(c)]_laneVars
  BY ChildGoesOn
<1>2. LaneInit => LaneStarted
  BY DEF LaneInit, LaneStarted
<1>3. LaneInv /\ LaneStarted /\ [LaneNext]_laneVars => LaneStarted'
  <2> SUFFICES ASSUME LaneInv, LaneStarted, [LaneNext]_laneVars
               PROVE  LaneStarted'
    OBVIOUS
  <2>1. runner \in [Reviewers -> Runs] /\ process \in [Reviewers -> {"none", "up", "gone"}]
    BY DEF LaneInv, LaneTypes
  <2>2. CASE StartLane
    BY <2>2 DEF StartLane, LaneStarted
  <2>3. CASE ~StartLane
    <3>1. lane' \in {"idle", "running"} => lane' = lane
      BY <2>3 DEF LaneNext, laneVars, CancelLane, ReturnLane, LaunchEvidence, TurnSettled,
         AskCorrection, TakeAnswer, ConsumeProof, FinishChild, RejectChild, KillAfterDeadline,
         CleanUp, Exit, EndTurn, ExpireBroker, Challenge, ClaimEvidence
    <3>2. process' = process \/ \E d \in Reviewers :
                process[d] = "up" /\ process' = [process EXCEPT ![d] = "gone"]
      BY <2>3 DEF LaneNext, laneVars, CancelLane, ReturnLane, LaunchEvidence, TurnSettled,
         AskCorrection, TakeAnswer, ConsumeProof, FinishChild, RejectChild, KillAfterDeadline,
         CleanUp, Exit, EndTurn, ExpireBroker, Challenge, ClaimEvidence
    <3>3. runner' = runner \/ \E d \in Reviewers, to \in Runs \ {"none"} :
                                 runner' = [runner EXCEPT ![d] = to]
      BY <2>3 DEF LaneNext, laneVars, CancelLane, ReturnLane, LaunchEvidence, TurnSettled,
         AskCorrection, TakeAnswer, ConsumeProof, FinishChild, RejectChild, KillAfterDeadline,
         CleanUp, Exit, EndTurn, ExpireBroker, Challenge, ClaimEvidence, Go, Runs
    <3>4. CASE lane = "idle"
      BY <2>1, <3>1, <3>2, <3>4 DEF LaneStarted
    <3>5. CASE lane = "running"
      BY <2>1, <3>1, <3>2, <3>3, <3>5 DEF LaneStarted
    <3>6. QED
      BY <3>1, <3>4, <3>5 DEF LaneStarted
  <2>4. QED
    BY <2>2, <2>3
<1>4. LaneInv /\ LaneStarted
        => /\ \A c \in Reviewers : StepsLeft(c) \in 0..10
           /\ lane = "running" => \A c \in Reviewers : runner[c] = "settled" \/ HasTimer(c)
  <2> SUFFICES ASSUME LaneInv, LaneStarted, NEW c \in Reviewers
               PROVE  /\ StepsLeft(c) \in 0..10
                      /\ lane = "running" => runner[c] = "settled" \/ HasTimer(c)
    OBVIOUS
  <2>1. StepsLeft(c) \in 0..10
    <3>1. PICK a \in 0..7, m \in 0..2, u \in 0..1 :
             /\ a = PointsLeft(runner[c]) /\ m = IF corrected[c] THEN 0 ELSE 2
             /\ u = IF process[c] = "gone" THEN 0 ELSE 1
      BY DEF PointsLeft
    <3>2. StepsLeft(c) = a + m + u
      BY <3>1 DEF StepsLeft
    <3>3. QED
      BY <3>2
  <2>2. lane = "running" => runner[c] = "settled" \/ HasTimer(c)
    BY DEF LaneInv, LaneTypes, LaneStarted, HasTimer, Runs, Awaits, Killed
  <2>3. QED
    BY <2>1, <2>2
<1>5. QED
  BY <1>1, <1>2, <1>3, <1>4, LaneInvariant, PTL DEF LaneSpec

-----------------------------------------------------------------------------
(* The acquisition batch.                                                  *)

\* A browser is launched once and closed by who ends; after the answer nothing is saved.
BatchInv ==
    /\ batch \in {"off", "launching"} => browser = "none"
    /\ batch = "closing" => browser # "open"
    /\ saved = outcomes
    /\ batch = "off" => answer = "none" /\ deadline = "off"
    /\ answer # "none" => deadline = "settled"
    /\ BatchReportIsTrue
    /\ BrowserOnlyInBudget

LEMMA BatchKeeps ==
    ASSUME BatchInv, BatchNext
    PROVE  BatchInv'
<1> USE DEF BatchInv, BatchReportIsTrue, BrowserOnlyInBudget
<1>1. CASE StartBatch
  BY <1>1 DEF StartBatch
<1>2. CASE LaunchBrowser
  BY <1>2 DEF LaunchBrowser, Owned
<1>3. CASE LaunchFails
  BY <1>3 DEF LaunchFails, Ends, Answered
<1>4. CASE ExpireBatch
  BY <1>4 DEF ExpireBatch
<1>5. CASE AnswerLate
  BY <1>5 DEF AnswerLate, Answered
<1>6. CASE WorkersDone
  BY <1>6 DEF WorkersDone
<1>7. CASE BrowserCloses
  BY <1>7 DEF BrowserCloses
<1>8. CASE EndBatch
  BY <1>8 DEF EndBatch, Ends, Answered
<1>9. ASSUME NEW w \in Workers,
             TakeItem(w) \/ Commit(w) \/ CaptureFails(w) \/ ExpireItem(w) \/ LeaveItem(w)
      PROVE  BatchInv'
  <2>1. CASE Commit(w)
    BY <2>1 DEF Commit, Settle, MayCommit
  <2>2. CASE TakeItem(w) \/ CaptureFails(w) \/ ExpireItem(w) \/ LeaveItem(w)
    BY <2>2 DEF TakeItem, CaptureFails, Settle, ExpireItem, LeaveItem
  <2>3. QED
    BY <1>9, <2>1, <2>2
<1>10. ASSUME NEW i \in 1..Items, OpenPage(i) \/ ClosePage(i) PROVE BatchInv'
  BY <1>10 DEF OpenPage, ClosePage
<1>11. QED
  BY <1>1, <1>2, <1>3, <1>4, <1>5, <1>6, <1>7, <1>8, <1>9, <1>10 DEF BatchNext

\* What is saved has its outcome, and an answer is given when the deadline is settled.
THEOREM BatchInvariant == BatchSpec => []BatchInv
<1>1. BatchInit => BatchInv
  BY DEF BatchInit, BatchInv, BatchReportIsTrue, BrowserOnlyInBudget
<1>2. BatchInv /\ [BatchNext]_batchVars => BatchInv'
  BY BatchKeeps DEF batchVars, BatchInv, BatchReportIsTrue, BrowserOnlyInBudget
<1>3. QED
  BY <1>1, <1>2, PTL DEF BatchSpec

\* The report names what is saved, and stays true after the deadline.
THEOREM ReportIsTrue == BatchSpec => []BatchReportIsTrue
BY BatchInvariant, PTL DEF BatchInv

\* A browser that is open is within the budget of the batch.
THEOREM BrowserInBudget == BatchSpec => []BrowserOnlyInBudget
BY BatchInvariant, PTL DEF BatchInv

TimersLeft ==
    CASE deadline = "off" -> 3
      [] deadline = "armed" -> 2
      [] deadline = "expired" -> 1
      [] OTHER -> 0

\* Until it is answered, a batch that has started waits for one of its two timers: the
\* guards of ExpireBatch and AnswerLate.
HasDeadline == deadline = "armed" \/ (deadline = "expired" /\ CleanedUp)

DeadlineOK ==
    /\ deadline \in {"off", "armed", "expired", "settled"}
    /\ batch # "off" => answer # "none" \/ HasDeadline

LEMMA DeadlineGoesOn ==
    ASSUME BatchInv, DeadlineOK, BatchNext
    PROVE  DeadlineOK' /\ (deadline' = deadline \/ TimersLeft' < TimersLeft)
<1> USE DEF DeadlineOK, HasDeadline, CleanedUp, TimersLeft
<1>1. CASE StartBatch
  BY <1>1 DEF StartBatch, BatchInv
<1>2. CASE LaunchFails \/ EndBatch
  <2>1. UNCHANGED <<deadline, answer>> \/ (answer' # "none" /\ deadline' = "settled")
    BY <1>2 DEF LaunchFails, EndBatch, Ends, Answered
  <2>2. batch # "off"
    BY <1>2 DEF LaunchFails, EndBatch
  <2>3. QED
    BY <2>1, <2>2
<1>3. CASE ExpireBatch
  BY <1>3 DEF ExpireBatch
<1>4. CASE AnswerLate
  BY <1>4 DEF AnswerLate, Answered
<1>5. CASE LaunchBrowser \/ WorkersDone \/ BrowserCloses
  BY <1>5 DEF LaunchBrowser, WorkersDone, BrowserCloses
<1>6. ASSUME NEW w \in Workers,
             TakeItem(w) \/ Commit(w) \/ CaptureFails(w) \/ ExpireItem(w) \/ LeaveItem(w)
      PROVE  UNCHANGED <<batch, deadline, answer>>
  BY <1>6 DEF TakeItem, Commit, CaptureFails, Settle, ExpireItem, LeaveItem
<1>7. ASSUME NEW i \in 1..Items, OpenPage(i) \/ ClosePage(i)
      PROVE  UNCHANGED <<batch, deadline, answer>>
  BY <1>7 DEF OpenPage, ClosePage
<1>8. QED
  BY <1>1, <1>2, <1>3, <1>4, <1>5, <1>6, <1>7 DEF BatchNext

\* The argument for BatchAnswers: a batch without an answer has a timer that runs, its
\* deadline or the one of its cleanup, and no step sets a timer again.
THEOREM BatchRunsOut ==
    BatchSpec => /\ [][deadline' = deadline \/ TimersLeft' < TimersLeft]_batchVars
                 /\ [](batch # "off" => answer # "none" \/ HasDeadline)
<1>1. BatchInit => DeadlineOK
  BY DEF BatchInit, DeadlineOK
<1>2. BatchInv /\ DeadlineOK /\ [BatchNext]_batchVars
        => DeadlineOK' /\ [deadline' = deadline \/ TimersLeft' < TimersLeft]_batchVars
  BY DeadlineGoesOn DEF batchVars, DeadlineOK, HasDeadline, CleanedUp
<1>3. DeadlineOK => (batch # "off" => answer # "none" \/ HasDeadline)
  BY DEF DeadlineOK
<1>4. QED
  BY <1>1, <1>2, <1>3, BatchInvariant, PTL DEF BatchSpec

-----------------------------------------------------------------------------
(* The commands of the Pi host.                                            *)

Working == {"verifying", "running", "stopping"}

\* A child lives only for a command at its work, or for one that was interrupted.
ChildOK(c) ==
    /\ call[c].at \in {"idle", "queued"} => child[c] = NoChild
    /\ call[c].at \in {"verifying", "running"} => child[c].state = "alive" /\ ~call[c].interrupted
    /\ call[c].at = "verifying" => child[c].route = NoRoute
    /\ call[c].at = "stopping" => child[c].state \in {"termed", "gone"}
    /\ call[c].at = "done" /\ Live(c) => call[c].interrupted
    /\ child[c].route # NoRoute => Live(c)

\* f is the order of the queue: only its head has nothing unsettled before it.
QueueOK(f) ==
    /\ f \in [Calls -> Nat]
    /\ \A c, d \in Unsettled : f[c] = f[d] => c = d
    /\ \A c, d \in Unsettled :
        f[d] < f[c] => call[c].prev \in Unsettled /\ f[d] <= f[call[c].prev]
    /\ \A c \in Unsettled : call[c].prev \in Unsettled => f[call[c].prev] < f[c]
    /\ \A c \in Unsettled : call[c].at \in Working => call[c].prev \notin Unsettled
    /\ \A c \in Unsettled : call[c].prev \in Calls => call[call[c].prev].at # "idle"
    /\ tail = NoCall => Unsettled = {}
    /\ tail # NoCall => tail \in Unsettled /\ \A c \in Unsettled : f[c] <= f[tail]

\* No route at hand is newer than one that a waiting or working command may publish.
AtMost(r) == routed <= r /\ \A d \in Calls : child[d].route <= r

Classifies(c) == c \in Unsettled /\ call[c].op = "classify"

RoutesOK(f) ==
    /\ AtMost(captured)
    /\ \A c \in Unsettled : call[c].source <= captured
    /\ \A c \in Calls :
        Classifies(c) /\ call[c].at \in {"queued", "verifying"} => AtMost(call[c].source)
    /\ \A c \in Unsettled : child[c].route # NoRoute => AtMost(child[c].route)
    /\ \A c, d \in Calls :
        Classifies(c) /\ Classifies(d) /\ f[d] < f[c] => call[d].source <= call[c].source

HostInv ==
    /\ HostTypeOK
    /\ \A c \in Calls : ChildOK(c)
    /\ \E f \in [Calls -> Nat] : QueueOK(f) /\ RoutesOK(f)

LEMMA HostInitInv ==
    ASSUME HostInit PROVE HostInv
<1>1. HostTypeOK
  <2>1. FreshCall \in CallStates
    BY PiHostAssumption DEF FreshCall, CallStates, Points, Ops
  <2>2. NoChild \in Children
    BY PiHostAssumption DEF NoChild, Children, Routes, NoRoute
  <2>3. routed \in Routes /\ captured \in 0..MaxTurns /\ active \in 0..MaxTurns /\ turn \in 1..MaxTurns
    BY PiHostAssumption DEF HostInit, Routes, NoRoute
  <2>4. QED
    BY <2>1, <2>2, <2>3 DEF HostInit, HostTypeOK
<1>2. \A c \in Calls : ChildOK(c)
  BY DEF HostInit, ChildOK, FreshCall, NoChild, Live
<1>3. Unsettled = {} /\ tail = NoCall
  BY DEF HostInit, FreshCall, Unsettled
<1> DEFINE f == [c \in Calls |-> 0]
<1>4. f \in [Calls -> Nat] /\ QueueOK(f)
  BY <1>3 DEF QueueOK
<1>5. AtMost(captured)
  BY DEF HostInit, AtMost, NoChild, NoRoute
<1>6. RoutesOK(f)
  <2> HIDE DEF f
  <2> QED
    BY <1>3, <1>5 DEF RoutesOK, Classifies
<1>7. QED
  BY <1>1, <1>2, <1>4, <1>6 DEF HostInv

\* The head of the queue.
Head(c) == c \in Unsettled /\ call[c].prev \notin Unsettled

LEMMA HeadIsFirst ==
    ASSUME NEW f, QueueOK(f), NEW h, Head(h), NEW c \in Unsettled
    PROVE  f[h] <= f[c]
<1>1. f[h] \in Nat /\ f[c] \in Nat /\ h \in Unsettled
  BY DEF QueueOK, Unsettled, Head
<1>2. ~(f[c] < f[h])
  BY <1>1 DEF QueueOK, Head
<1>3. QED
  BY <1>1, <1>2

\* A command moves on without settling: the queue stands.
LEMMA QueueKept ==
    ASSUME HostTypeOK, NEW f, QueueOK(f), NEW h \in Unsettled, NEW r \in CallStates,
           call' = [call EXCEPT ![h] = r], r.at \notin {"idle", "done"}, r.prev = call[h].prev,
           r.at \in Working => Head(h) \/ call[h].at \in Working, tail' = tail
    PROVE  QueueOK(f)' /\ Unsettled' = Unsettled
<1>1. h \in Calls /\ call \in [Calls -> CallStates] /\ r.at \in Points
  BY DEF HostTypeOK, Unsettled, CallStates
<1>2. Unsettled' = Unsettled
  BY <1>1 DEF Unsettled
<1>3. \A c \in Calls : call'[c].prev = call[c].prev /\ (call'[c].at = "idle" => call[c].at = "idle")
  BY <1>1
<1>4. ASSUME NEW c \in Unsettled, call'[c].at \in Working PROVE call[c].prev \notin Unsettled
  BY <1>1, <1>4 DEF QueueOK, Head
<1>5. QED
  BY <1>1, <1>2, <1>3, <1>4 DEF QueueOK, Unsettled

\* The head settles: the next one is the head.
LEMMA QueueMoves ==
    ASSUME HostTypeOK, NEW f, QueueOK(f), NEW h, Head(h), NEW r \in CallStates,
           call' = [call EXCEPT ![h] = r], r.at = "done", tail' = IF tail = h THEN NoCall ELSE tail
    PROVE  QueueOK(f)' /\ Unsettled' = Unsettled \ {h}
<1>1. h \in Calls /\ h \in Unsettled /\ call \in [Calls -> CallStates]
  BY DEF HostTypeOK, Unsettled, Head
<1>2. Unsettled' = Unsettled \ {h}
  BY <1>1 DEF Unsettled
<1>3. \A c \in Unsettled' : call'[c] = call[c]
  BY <1>1, <1>2 DEF Unsettled
<1>4. \A c \in Unsettled : f[h] <= f[c] /\ f[h] \in Nat /\ f[c] \in Nat
  BY <1>1, HeadIsFirst DEF QueueOK, Unsettled
<1>5. ASSUME NEW c \in Unsettled', NEW d \in Unsettled', f[d] < f[c]
      PROVE  call'[c].prev \in Unsettled' /\ f[d] <= f[call'[c].prev]
  <2>1. call[c].prev \in Unsettled /\ f[d] <= f[call[c].prev]
    BY <1>2, <1>5 DEF QueueOK
  <2>2. call[c].prev # h
    <3>1. f[h] <= f[d] /\ f[h] # f[d] /\ f[d] \in Nat /\ f[h] \in Nat
      BY <1>1, <1>2, <1>4 DEF QueueOK
    <3>2. QED
      BY <2>1, <3>1
  <2>3. QED
    BY <1>2, <1>3, <2>1, <2>2
<1>6. tail = h => Unsettled' = {}
  BY <1>1, <1>2, <1>4, PiHostAssumption DEF QueueOK, Unsettled
<1>7. \A c \in Unsettled' : call'[c].prev \in Calls => call'[call'[c].prev].at # "idle"
  BY <1>1, <1>2, <1>3 DEF QueueOK
<1>8. \A c \in Unsettled' : call'[c].at \in Working => call'[c].prev \notin Unsettled'
  BY <1>2, <1>3 DEF QueueOK
<1>9. tail' = NoCall => Unsettled' = {}
  BY <1>2, <1>6 DEF QueueOK
<1>10. tail' # NoCall => tail' \in Unsettled' /\ \A c \in Unsettled' : f[c] <= f[tail']
  BY <1>2 DEF QueueOK
<1>11. \A c \in Unsettled' : call'[c].prev \in Unsettled' => f[call'[c].prev] < f[c]
  BY <1>2, <1>3 DEF QueueOK
<1>12. QED
  BY <1>2, <1>5, <1>7, <1>8, <1>9, <1>10, <1>11 DEF QueueOK

\* What a step of the queue leaves of a child.
LEMMA FreshTyped == FreshCall \in CallStates /\ NoChild \in Children /\ Gone \in Children
BY PiHostAssumption DEF FreshCall, CallStates, Points, Ops, NoChild, Gone, Children, Routes, NoRoute

LEMMA MovedTyped ==
    ASSUME HostTypeOK, NEW c \in Calls, NEW to \in Points, NEW stop \in BOOLEAN
    PROVE  /\ Moved(c, to, stop) \in CallStates
           /\ Moved(c, to, stop).at = to /\ Moved(c, to, stop).interrupted = stop
           /\ to # "done" => /\ Moved(c, to, stop).prev = call[c].prev
                             /\ Moved(c, to, stop).source = call[c].source
                             /\ Moved(c, to, stop).op = call[c].op
<1>1. call[c] \in CallStates
  BY DEF HostTypeOK
<1>2. QED
  BY <1>1, FreshTyped DEF Moved, CallStates, FreshCall

LEMMA OneHead ==
    ASSUME NEW f, QueueOK(f), NEW c, NEW d, Head(c), Head(d)
    PROVE  c = d
<1>1. c \in Unsettled /\ d \in Unsettled /\ f[c] \in Nat /\ f[d] \in Nat
  BY DEF Head, QueueOK, Unsettled
<1>2. f[c] <= f[d] /\ f[d] <= f[c]
  BY <1>1, HeadIsFirst
<1>3. QED
  BY <1>1, <1>2 DEF QueueOK

\* A command of the queue moves: h goes to another point, its child becomes k.
LEMMA MoveKeeps ==
    ASSUME HostTypeOK, \A c \in Calls : ChildOK(c), NEW f, QueueOK(f), RoutesOK(f),
           NEW h \in Unsettled, NEW to \in Points \ {"idle"}, NEW stop \in BOOLEAN, NEW k \in Children,
           Moves(h, to, stop), child' = [child EXCEPT ![h] = k], ChildOK(h)',
           to # "queued" => Head(h),
           to \in {"queued", "verifying"} => call[h].at \in {"queued", "verifying"},
           \/ k.route \in {NoRoute, child[h].route}
           \/ /\ call[h].at \in {"queued", "verifying"} /\ Head(h) /\ Classifies(h)
              /\ k.route = call[h].source,
           routed' = routed, captured' = captured
    PROVE  /\ call' \in [Calls -> CallStates] /\ child' \in [Calls -> Children]
           /\ tail' \in Calls \cup {NoCall}
           /\ \A c \in Calls : ChildOK(c)'
           /\ QueueOK(f)' /\ RoutesOK(f)'
<1> DEFINE r == Moved(h, to, stop)
           Below(x) == routed' <= x /\ \A d \in Calls : child'[d].route <= x
<1>1. h \in Calls /\ call \in [Calls -> CallStates] /\ child \in [Calls -> Children] /\ to \in Points
  BY DEF HostTypeOK, Unsettled
<1>2. r \in CallStates /\ r.at = to /\ (to # "done" => /\ r.prev = call[h].prev
                                                       /\ r.source = call[h].source
                                                       /\ r.op = call[h].op)
  BY <1>1, MovedTyped
<1>3. call' = [call EXCEPT ![h] = r] /\ tail' = IF to = "done" /\ tail = h THEN NoCall ELSE tail
  BY DEF Moves
<1> HIDE DEF r
<1>4. call' \in [Calls -> CallStates] /\ child' \in [Calls -> Children] /\ tail' \in Calls \cup {NoCall}
  BY <1>1, <1>2, <1>3 DEF HostTypeOK
<1>5. \A c \in Calls : c # h => call'[c] = call[c] /\ child'[c] = child[c]
  BY <1>1, <1>3
<1>6. call'[h] = r /\ child'[h] = k
  BY <1>1, <1>3
<1>7. \A c \in Calls : ChildOK(c)'
  BY <1>5 DEF ChildOK, Live
<1>8. QueueOK(f)' /\ Unsettled' = IF to = "done" THEN Unsettled \ {h} ELSE Unsettled
  <2>1. CASE to = "done"
    BY <1>2, <1>3, <2>1, QueueMoves
  <2>2. CASE to # "done"
    BY <1>2, <1>3, <2>2, QueueKept DEF Working
  <2>3. QED
    BY <2>1, <2>2
<1>9. \A c \in Unsettled' : /\ c \in Unsettled /\ c \in Calls
                            /\ call'[c].source = call[c].source /\ call'[c].op = call[c].op
  BY <1>2, <1>5, <1>6, <1>8 DEF Unsettled
<1>10. /\ captured \in Int /\ routed \in Int
       /\ \A c \in Calls : call[c].source \in Int /\ child[c].route \in Int
  BY <1>1, PiHostAssumption DEF HostTypeOK, CallStates, Children, Routes, NoRoute
<1>11. k.route \in Int
  BY PiHostAssumption DEF Children, Routes, NoRoute
<1>12. \A d \in Calls : child'[d].route = IF d = h THEN k.route ELSE child[d].route
  BY <1>5, <1>6
<1>13. ASSUME NEW x \in Int, AtMost(x), k.route <= x PROVE Below(x)
  BY <1>12, <1>13 DEF AtMost
<1> HIDE DEF Below
<1>14. \A c \in Calls : NoRoute <= child[c].route /\ NoRoute <= call[c].source /\ NoRoute <= captured
  BY <1>1, PiHostAssumption DEF HostTypeOK, CallStates, Children, Routes, NoRoute
<1>15. Below(captured)
  <2>1. k.route <= captured
    BY <1>1, <1>10, <1>14 DEF RoutesOK, AtMost, Classifies
  <2>2. QED
    BY <1>10, <1>13, <2>1 DEF RoutesOK
<1>16. ASSUME NEW c \in Calls, Classifies(c)', call'[c].at \in {"queued", "verifying"}
       PROVE  Below(call[c].source)
  <2>1. c \in Unsettled /\ Classifies(c) /\ call[c].at \in {"queued", "verifying"}
    BY <1>2, <1>5, <1>6, <1>9, <1>16 DEF Classifies
  <2>2. AtMost(call[c].source)
    BY <2>1 DEF RoutesOK
  <2>3. CASE k.route \in {NoRoute, child[h].route}
    BY <1>1, <1>10, <1>13, <1>14, <2>2, <2>3 DEF AtMost
  <2>4. CASE Head(h) /\ Classifies(h) /\ k.route = call[h].source /\ k.route # NoRoute
    <3>1. c # h
      BY <1>6, <1>16, <2>4 DEF ChildOK, NoChild
    <3>2. f[h] <= f[c] /\ f[h] # f[c] /\ f[h] \in Nat /\ f[c] \in Nat
      BY <1>1, <2>1, <2>4, <3>1, HeadIsFirst DEF QueueOK
    <3>3. call[h].source <= call[c].source
      BY <1>1, <2>1, <2>4, <3>2 DEF RoutesOK
    <3>4. QED
      BY <1>10, <1>13, <2>2, <2>4, <3>3
  <2>5. QED
    BY <2>3, <2>4
<1>17. ASSUME NEW c \in Unsettled', child'[c].route # NoRoute
       PROVE  Below(child'[c].route)
  <2>1. c \in Unsettled /\ c \in Calls
    BY <1>9
  <2>2. CASE c = h /\ k.route = child[h].route
    BY <1>1, <1>6, <1>10, <1>11, <1>13, <1>17, <2>2 DEF RoutesOK
  <2>3. CASE c = h /\ Classifies(h) /\ call[h].at \in {"queued", "verifying"} /\ k.route = call[h].source
    BY <1>1, <1>6, <1>10, <1>11, <1>13, <2>3 DEF RoutesOK
  <2>4. CASE c # h
    <3>1. child[c].route = child'[c].route
      BY <1>5, <2>1, <2>4
    <3>2. AtMost(child[c].route)
      BY <1>17, <2>1, <3>1 DEF RoutesOK
    <3>3. CASE k.route \in {NoRoute, child[h].route}
      BY <1>1, <1>10, <1>11, <1>13, <1>14, <2>1, <3>1, <3>2, <3>3 DEF AtMost
    <3>4. CASE Head(h)
      <4>1. call[c].at \in Working
        BY <1>17, <2>1, <3>1 DEF ChildOK, NoChild, Unsettled, Working, Points, Live
      <4>2. Head(c)
        BY <2>1, <4>1 DEF QueueOK, Head
      <4>3. QED
        BY <2>4, <3>4, <4>2, OneHead
    <3>5. QED
      BY <3>3, <3>4
  <2>5. QED
    BY <1>6, <1>17, <2>2, <2>3, <2>4
<1>18. QED
  <2>1. \A c \in Calls : Classifies(c)' => Classifies(c)
    BY <1>9 DEF Classifies
  <2>2. RoutesOK(f)'
    <3>1. AtMost(captured)' /\ \A c \in Unsettled' : call'[c].source <= captured'
      BY <1>9, <1>15 DEF RoutesOK, AtMost, Below
    <3>2. \A c \in Calls : Classifies(c)' /\ call'[c].at \in {"queued", "verifying"}
                           => routed' <= call'[c].source /\ \A d \in Calls : child'[d].route <= call'[c].source
      BY <1>9, <1>16 DEF Classifies, Below
    <3>3. \A c \in Unsettled' : child'[c].route # NoRoute
                           => routed' <= child'[c].route /\ \A d \in Calls : child'[d].route <= child'[c].route
      BY <1>17 DEF Below
    <3>4. \A c, d \in Calls : Classifies(c)' /\ Classifies(d)' /\ f[d] < f[c]
                              => call'[d].source <= call'[c].source
      BY <1>9, <2>1 DEF RoutesOK, Classifies
    <3>5. QED
      BY <3>1, <3>2, <3>3, <3>4 DEF RoutesOK, AtMost
  <2>3. QED
    BY <1>4, <1>7, <1>8, <2>2

\* The request may be captured again; a queue that is left alone stands.
LEMMA QueueStands ==
    ASSUME NEW f, QueueOK(f), RoutesOK(f), \A c \in Calls : ChildOK(c), HostTypeOK,
           call' = call, tail' = tail, child' = child, routed' = routed,
           captured' \in Int, captured <= captured'
    PROVE  QueueOK(f)' /\ RoutesOK(f)' /\ \A c \in Calls : ChildOK(c)'
<1>1. Unsettled' = Unsettled
  BY DEF Unsettled
<1>2. QueueOK(f)' /\ \A c \in Calls : ChildOK(c)'
  BY <1>1 DEF QueueOK, ChildOK, Live
<1>3. /\ captured \in Int /\ routed \in Int
      /\ \A c \in Calls : call[c].source \in Int /\ child[c].route \in Int
  BY PiHostAssumption DEF HostTypeOK, CallStates, Children, Routes, NoRoute
<1>4. AtMost(captured)' /\ \A c \in Unsettled : call[c].source <= captured'
  BY <1>3 DEF RoutesOK, AtMost, Unsettled
<1>5. QED
  BY <1>1, <1>2, <1>4 DEF RoutesOK, AtMost, Classifies

\* A command joins the queue at its end.
LEMMA IssueKeeps ==
    ASSUME HostTypeOK, \A c \in Calls : ChildOK(c), NEW f, QueueOK(f), RoutesOK(f),
           NEW h \in Calls, NEW op \in Ops, Issue(h, op)
    PROVE  /\ call' \in [Calls -> CallStates] /\ tail' \in Calls
           /\ \A c \in Calls : ChildOK(c)'
           /\ \E g \in [Calls -> Nat] : QueueOK(g)' /\ RoutesOK(g)'
<1> DEFINE r == [at |-> "queued", op |-> op, said |-> turn, prev |-> tail, interrupted |-> FALSE,
                 source |-> IF op \in RouteOps THEN captured ELSE 0]
<1>1. r \in CallStates
  BY PiHostAssumption DEF HostTypeOK, CallStates, Points
<1>2. /\ r.at = "queued" /\ r.prev = tail /\ r.source \in Int /\ r.source <= captured
      /\ (r.op = "classify" => r.source = captured)
  BY PiHostAssumption DEF HostTypeOK, RouteOps
<1>3. call' = [call EXCEPT ![h] = r] /\ tail' = h /\ child' = child /\ routed' = routed
      /\ captured' = captured /\ call[h].at = "idle" /\ call \in [Calls -> CallStates]
  BY DEF Issue, HostTypeOK, requestVars
<1>4. f \in [Calls -> Nat] /\ tail \in Calls \cup {NoCall}
  BY DEF QueueOK, HostTypeOK
<1>5. PICK g \in [Calls -> Nat] : /\ \A c \in Calls : c # h => g[c] = f[c]
                                  /\ g[h] = IF tail = NoCall THEN 0 ELSE f[tail] + 1
  <2> DEFINE e == IF tail = NoCall THEN 0 ELSE f[tail] + 1
  <2>1. e \in Nat
    BY <1>4
  <2>2. [f EXCEPT ![h] = e] \in [Calls -> Nat]
    BY <1>4, <2>1
  <2>3. QED
    BY <1>4, <2>2
<1> HIDE DEF r
<1>6. call'[h] = r /\ \A c \in Calls : c # h => call'[c] = call[c]
  BY <1>3
<1>7. Unsettled' = Unsettled \cup {h} /\ h \notin Unsettled /\ Unsettled \subseteq Calls
  BY <1>2, <1>3, <1>6 DEF Unsettled, Points
<1>8. \A c \in Calls : ChildOK(c)'
  BY <1>2, <1>3, <1>6 DEF ChildOK, Live
<1>9. ASSUME NEW c \in Unsettled PROVE g[c] < g[h] /\ g[c] = f[c] /\ tail \in Unsettled
  BY <1>4, <1>5, <1>7 DEF QueueOK
<1>10. QueueOK(g)'
  <2>1. ASSUME NEW c \in Unsettled', NEW d \in Unsettled', g[c] = g[d] PROVE c = d
    <3>1. g[c] \in Nat /\ g[d] \in Nat
      BY <1>5, <1>7
    <3>2. QED
      BY <1>7, <1>9, <2>1, <3>1 DEF QueueOK
  <2>2. ASSUME NEW c \in Unsettled', NEW d \in Unsettled', g[d] < g[c]
        PROVE  call'[c].prev \in Unsettled' /\ g[d] <= g[call'[c].prev]
    <3>1. g[c] \in Nat /\ g[d] \in Nat /\ g[h] \in Nat
      BY <1>5, <1>7
    <3>2. CASE c = h
      <4>1. d \in Unsettled
        BY <1>7, <2>2, <3>1, <3>2
      <4>2. call'[c].prev = tail /\ tail \in Unsettled /\ tail # NoCall /\ g[tail] = f[tail]
        BY <1>2, <1>6, <1>7, <1>9, <3>2, <4>1, PiHostAssumption
      <4>3. QED
        BY <1>7, <1>9, <4>1, <4>2 DEF QueueOK
    <3>3. CASE c # h
      <4>1. c \in Unsettled /\ d \in Unsettled
        BY <1>7, <1>9, <2>2, <3>1, <3>3
      <4>2. call[c].prev \in Unsettled /\ f[d] <= f[call[c].prev]
        BY <1>9, <2>2, <4>1 DEF QueueOK
      <4>3. QED
        BY <1>6, <1>7, <1>9, <3>3, <4>1, <4>2
    <3>4. QED
      BY <3>2, <3>3
  <2>3. ASSUME NEW c \in Unsettled', call'[c].at \in Working PROVE call'[c].prev \notin Unsettled'
    <3>1. c # h /\ c \in Unsettled
      BY <1>2, <1>6, <1>7, <2>3 DEF Working
    <3>2. call[c].prev \notin Unsettled /\ call[c].prev # h
      BY <1>3, <1>6, <1>7, <2>3, <3>1 DEF QueueOK
    <3>3. QED
      BY <1>6, <1>7, <3>1, <3>2
  <2>4. ASSUME NEW c \in Unsettled', call'[c].prev \in Calls PROVE call'[call'[c].prev].at # "idle"
    <3>1. CASE c = h
      BY <1>2, <1>3, <1>6, <2>4, <3>1, PiHostAssumption DEF QueueOK, Unsettled
    <3>2. CASE c # h
      BY <1>2, <1>3, <1>6, <1>7, <2>4, <3>2 DEF QueueOK
    <3>3. QED
      BY <3>1, <3>2
  <2>5. tail' # NoCall /\ tail' \in Unsettled' /\ \A c \in Unsettled' : g[c] <= g[tail']
    <3>1. g[h] \in Nat /\ h # NoCall
      BY <1>5, PiHostAssumption
    <3>2. \A c \in Unsettled' : g[c] \in Nat /\ (c # h => g[c] < g[h])
      BY <1>5, <1>7, <1>9
    <3>3. QED
      BY <1>3, <1>7, <3>1, <3>2
  <2>6. ASSUME NEW c \in Unsettled', call'[c].prev \in Unsettled' PROVE g[call'[c].prev] < g[c]
    <3>1. CASE c = h
      <4>1. call'[c].prev = tail /\ tail # h
        BY <1>2, <1>3, <1>6, <1>7, <2>6, <3>1, PiHostAssumption DEF QueueOK
      <4>2. QED
        BY <1>7, <1>9, <2>6, <3>1, <4>1
    <3>2. CASE c # h
      <4>1. c \in Unsettled /\ call'[c].prev = call[c].prev /\ call[c].prev \in Unsettled
        BY <1>3, <1>6, <1>7, <2>6, <3>2 DEF QueueOK
      <4>2. QED
        BY <1>9, <4>1 DEF QueueOK
    <3>3. QED
      BY <3>1, <3>2
  <2>7. QED
    BY <1>5, <2>1, <2>2, <2>3, <2>4, <2>5, <2>6 DEF QueueOK
<1>11. RoutesOK(g)'
  <2>1. /\ captured \in Int /\ routed \in Int
        /\ \A c \in Calls : call[c].source \in Int /\ child[c].route \in Int
    BY PiHostAssumption DEF HostTypeOK, CallStates, Children, Routes, NoRoute
  <2>2. \A x : AtMost(x) => routed' <= x /\ \A d \in Calls : child'[d].route <= x
    BY <1>3 DEF AtMost
  <2>3. AtMost(captured)' /\ \A c \in Unsettled' : call'[c].source <= captured'
    BY <1>2, <1>3, <1>6, <1>7 DEF RoutesOK, AtMost
  <2>4. ASSUME NEW c \in Calls, Classifies(c)', call'[c].at \in {"queued", "verifying"}
        PROVE  routed' <= call'[c].source /\ \A d \in Calls : child'[d].route <= call'[c].source
    BY <1>2, <1>6, <1>7, <2>2, <2>4 DEF RoutesOK, Classifies
  <2>5. child[h].route = NoRoute
    BY <1>3 DEF ChildOK, NoChild
  <2>6. \A c \in Unsettled' : child'[c].route # NoRoute
                         => routed' <= child'[c].route /\ \A d \in Calls : child'[d].route <= child'[c].route
    BY <1>3, <1>7, <2>2, <2>5 DEF RoutesOK
  <2>7. ASSUME NEW c \in Calls, NEW d \in Calls, Classifies(c)', Classifies(d)', g[d] < g[c]
        PROVE  call'[d].source <= call'[c].source
    <3>1. d # h /\ d \in Unsettled /\ Classifies(d)
      BY <1>5, <1>6, <1>7, <1>9, <2>7 DEF Classifies
    <3>2. CASE c = h
      BY <1>2, <1>6, <2>7, <3>1, <3>2 DEF RoutesOK, Classifies
    <3>3. CASE c # h
      BY <1>6, <1>7, <1>9, <2>7, <3>1, <3>3 DEF RoutesOK, Classifies
    <3>4. QED
      BY <3>2, <3>3
  <2>8. QED
    BY <2>3, <2>4, <2>6, <2>7 DEF RoutesOK, AtMost
<1>12. QED
  BY <1>1, <1>3, <1>5, <1>8, <1>10, <1>11

\* What a step does to the queue, the children and the published route.
QueueInv(f) == (\A c \in Calls : ChildOK(c)) /\ QueueOK(f) /\ RoutesOK(f)

QueueTyped == call \in [Calls -> CallStates] /\ child \in [Calls -> Children] /\ tail \in Calls \cup {NoCall}

\* The head of the queue starts, or finds that its request was replaced.
LEMMA StartKeeps ==
    ASSUME HostTypeOK, NEW f, QueueInv(f), NEW c \in Calls, Head(c),
           call[c].at \in {"queued", "verifying"}, Starts(c), routed' = routed, captured' = captured
    PROVE  QueueTyped' /\ QueueInv(f)'
<1>1. c \in Unsettled /\ call[c] \in CallStates /\ child \in [Calls -> Children] /\ captured \in 0..MaxTurns
  BY DEF Head, HostTypeOK
<1>2. CASE call[c].source \in {0, captured}
  <2> DEFINE route == IF call[c].op = "classify" THEN call[c].source ELSE NoRoute
             k == [state |-> "alive", route |-> route]
  <2>1. k \in Children
    BY <1>1, PiHostAssumption DEF Children, Routes, NoRoute, CallStates
  <2>2. Moves(c, "running", FALSE) /\ child' = [child EXCEPT ![c] = k]
    BY <1>2 DEF Starts, Spawns
  <2>3. k.state = "alive" /\ k.route = route
    OBVIOUS
  <2>4. route = NoRoute \/ (Classifies(c) /\ route = call[c].source)
    BY <1>1 DEF Classifies
  <2> HIDE DEF k, route
  <2>5. "running" \in Points \ {"idle"} /\ FALSE \in BOOLEAN
    BY DEF Points
  <2>6. call'[c].at = "running" /\ call'[c].interrupted = FALSE /\ child'[c] = k
    BY <1>1, <2>2, <2>5, MovedTyped DEF Moves, HostTypeOK
  <2>7. ChildOK(c)'
    BY <2>3, <2>6 DEF ChildOK, Live
  <2>8. QED
    BY <1>1, <2>1, <2>2, <2>3, <2>4, <2>5, <2>7, MoveKeeps DEF QueueInv, QueueTyped
<1>3. CASE call[c].source \notin {0, captured}
  <2>1. Moves(c, "done", FALSE) /\ child' = [child EXCEPT ![c] = Gone]
    BY <1>3 DEF Starts
  <2>2. "done" \in Points \ {"idle"} /\ FALSE \in BOOLEAN /\ Gone \in Children /\ Gone.route = NoRoute
    BY FreshTyped DEF Points, Gone
  <2>3. call'[c].at = "done" /\ child'[c] = Gone
    BY <1>1, <2>1, <2>2, MovedTyped DEF Moves, HostTypeOK
  <2>4. ChildOK(c)'
    BY <2>3 DEF ChildOK, Live, Gone
  <2>5. QED
    BY <1>1, <2>1, <2>2, <2>4, MoveKeeps DEF QueueInv, QueueTyped
<1>4. QED
  BY <1>2, <1>3

\* A command moves and its child, if it has one, gets another state.
LEMMA PlainMoveKeeps ==
    ASSUME HostTypeOK, NEW f, QueueInv(f), NEW c \in Unsettled,
           NEW to \in Points \ {"idle"}, NEW stop \in BOOLEAN, NEW k \in Children,
           Moves(c, to, stop), child' = [child EXCEPT ![c] = k],
           to # "queued" => Head(c),
           to \in {"queued", "verifying"} => call[c].at \in {"queued", "verifying"},
           k.route \in {NoRoute, child[c].route},
           to = "queued" => k = NoChild,
           to \in {"verifying", "running"} => k.state = "alive" /\ ~stop,
           to = "verifying" => k.route = NoRoute,
           to = "stopping" => k.state \in {"termed", "gone"},
           to = "done" /\ k.state \in {"alive", "termed"} => stop,
           k.route # NoRoute => k.state \in {"alive", "termed"},
           routed' = routed, captured' = captured
    PROVE  QueueTyped' /\ QueueInv(f)'
<1>1. c \in Calls
  BY DEF Unsettled
<1>2. call'[c].at = to /\ call'[c].interrupted = stop /\ child'[c] = k
  BY <1>1, MovedTyped DEF Moves, HostTypeOK
<1>3. ChildOK(c)'
  BY <1>2 DEF ChildOK, Live
<1>4. QED
  BY <1>3, MoveKeeps DEF QueueInv, QueueTyped

\* A working command is the head of the queue.
LEMMA WorkingIsHead ==
    ASSUME HostTypeOK, NEW f, QueueInv(f), NEW c \in Calls, call[c].at \in Working
    PROVE  Head(c)
BY DEF QueueInv, QueueOK, Head, Unsettled, Working, Points

LEMMA CallStepKeeps ==
    ASSUME HostTypeOK, NEW f, QueueInv(f), NEW c \in Calls, CallStep(c), ~\E op \in Ops : Issue(c, op)
    PROVE  QueueTyped' /\ QueueInv(f)'
<1>1. /\ call[c] \in CallStates /\ child[c] \in Children /\ ChildOK(c)
      /\ call \in [Calls -> CallStates] /\ child \in [Calls -> Children]
      /\ [child EXCEPT ![c] = child[c]] = child
  BY DEF HostTypeOK, QueueInv
<1>2. Points \ {"idle"} = {"queued", "verifying", "running", "stopping", "done"}
  BY DEF Points
<1>3. Gone \in Children /\ NoChild \in Children /\ Gone.route = NoRoute /\ Gone.state = "gone"
      /\ NoChild.route = NoRoute /\ NoChild.state = "none"
  BY FreshTyped DEF Gone, NoChild
<1>4. call[c].at \in Working => Head(c) /\ c \in Unsettled
  BY WorkingIsHead DEF Head
<1>5. CASE TakeTurn(c)
  <2>1. Head(c) /\ c \in Unsettled /\ call[c].at = "queued" /\ child[c] = NoChild
        /\ routed' = routed /\ captured' = captured
    BY <1>1, <1>5 DEF TakeTurn, MayRun, Head, Unsettled, Points, ChildOK
  <2>2. CASE Moves(c, "done", call[c].interrupted) /\ child' = child
    <3>1. call[c].interrupted \in BOOLEAN
      BY <1>1 DEF CallStates
    <3>2. PICK k \in Children : /\ k.route = NoRoute /\ k.state = "none"
                               /\ child' = [child EXCEPT ![c] = k]
      BY <1>1, <1>3, <2>1, <2>2
    <3>3. CASE Moves(c, "done", TRUE)
      BY <1>2, <2>1, <3>2, <3>3, PlainMoveKeeps
    <3>4. CASE Moves(c, "done", FALSE)
      BY <1>2, <2>1, <3>2, <3>4, PlainMoveKeeps
    <3>5. QED
      BY <2>2, <3>1, <3>3, <3>4
  <2>3. CASE Moves(c, "verifying", FALSE) /\ Spawns(c, NoRoute)
    <3> DEFINE k == [state |-> "alive", route |-> NoRoute]
    <3>1. k \in Children /\ k.route = NoRoute /\ k.state = "alive" /\ child' = [child EXCEPT ![c] = k]
      BY <1>3, <2>3 DEF Children, Spawns
    <3> HIDE DEF k
    <3>2. QED
      BY <1>2, <2>1, <2>3, <3>1, PlainMoveKeeps
  <2>4. CASE Starts(c)
    BY <2>1, <2>4, StartKeeps
  <2>5. QED
    BY <1>5, <2>2, <2>3, <2>4 DEF TakeTurn
<1>6. CASE Verified(c)
  <2>1. Head(c) /\ c \in Unsettled /\ call[c].at = "verifying" /\ routed' = routed /\ captured' = captured
    BY <1>4, <1>6 DEF Verified, Working
  <2>2. CASE Starts(c)
    BY <2>1, <2>2, StartKeeps
  <2>3. CASE Moves(c, "done", FALSE) /\ child' = [child EXCEPT ![c] = Gone]
    BY <1>2, <1>3, <2>1, <2>3, PlainMoveKeeps
  <2>4. QED
    BY <1>6, <2>2, <2>3 DEF Verified
<1>7. CASE EndCommand(c)
  BY <1>2, <1>3, <1>4, <1>7, PlainMoveKeeps DEF EndCommand, Working, requestVars
<1>8. CASE Interrupt(c)
  <2>1. c \in Unsettled /\ routed' = routed /\ captured' = captured
    BY <1>8 DEF Interrupt, requestVars
  <2>2. CASE call[c].at \in {"verifying", "running"}
    <3> DEFINE k == [child[c] EXCEPT !.state = "termed"]
    <3>1. k \in Children /\ k.route = child[c].route /\ k.state = "termed"
      BY <1>1 DEF Children
    <3>2. Moves(c, "done", TRUE) /\ child' = [child EXCEPT ![c] = k]
      BY <1>1, <1>8, <2>2 DEF Interrupt, Term
    <3> HIDE DEF k
    <3>3. QED
      BY <1>2, <1>4, <2>1, <2>2, <3>1, <3>2, PlainMoveKeeps DEF Working
  <2>3. CASE call[c].at \notin {"verifying", "running"}
    <3>1. call[c].at \in {"queued", "stopping"}
      BY <2>1, <2>3 DEF Unsettled, Points
    <3>2. Moves(c, call[c].at, TRUE) /\ child' = [child EXCEPT ![c] = child[c]]
      BY <1>1, <1>8, <2>3 DEF Interrupt
    <3>3. /\ call[c].at = "queued" => child[c] = NoChild
          /\ call[c].at = "stopping" => child[c].state \in {"termed", "gone"}
          /\ child[c].route # NoRoute => child[c].state \in {"alive", "termed"}
      BY <1>1 DEF ChildOK, Live
    <3>4. QED
      BY <1>1, <1>2, <1>4, <2>1, <3>1, <3>2, <3>3, PlainMoveKeeps DEF Working
  <2>4. QED
    BY <2>2, <2>3
<1>9. CASE ExceedBudget(c)
  <2> DEFINE k == [child[c] EXCEPT !.state = "termed"]
  <2>1. k \in Children /\ k.route = child[c].route /\ k.state = "termed"
    BY <1>1 DEF Children
  <2>2. Moves(c, "stopping", FALSE) /\ child' = [child EXCEPT ![c] = k]
    BY <1>1, <1>9 DEF ExceedBudget, Term
  <2>3. routed' = routed /\ captured' = captured /\ call[c].at \in Working
    BY <1>9 DEF ExceedBudget, requestVars, Working
  <2> HIDE DEF k
  <2>4. Head(c) /\ c \in Unsettled /\ "stopping" \in Points \ {"idle"}
    BY <1>2, <1>4, <2>3
  <2>5. PICK stop \in BOOLEAN : Moves(c, "stopping", stop)
    BY <2>2
  <2>6. QED
    BY <2>1, <2>2, <2>3, <2>4, <2>5, PlainMoveKeeps
<1>10. CASE ReportTimeout(c)
  <2>1. call[c].at = "stopping" /\ child[c].state = "gone" /\ routed' = routed /\ captured' = captured
        /\ Moves(c, "done", call[c].interrupted) /\ child' = [child EXCEPT ![c] = child[c]]
    BY <1>1, <1>10 DEF ReportTimeout, TornDown, requestVars
  <2>2. child[c].route = NoRoute /\ call[c].interrupted \in BOOLEAN
    BY <1>1, <2>1 DEF ChildOK, Live, CallStates
  <2>3. PICK stop \in BOOLEAN : Moves(c, "done", stop)
    BY <2>1, <2>2
  <2>4. Head(c) /\ c \in Unsettled /\ "done" \in Points \ {"idle"} /\ child[c] \in Children
    BY <1>1, <1>2, <1>4, <2>1 DEF Working
  <2>5. QED
    BY <2>1, <2>2, <2>3, <2>4, PlainMoveKeeps
<1>11. CASE PublishRoute(c) \/ (child[c].state = "termed" /\ EndGroup(c))
  <2>1. Unsettled' = Unsettled /\ call' = call /\ tail' = tail /\ captured' = captured
    BY <1>11 DEF PublishRoute, EndGroup, Unsettled, requestVars
  <2>2. /\ child'[c] \in Children /\ child'[c].route = NoRoute
        /\ \A d \in Calls : d # c => child'[d] = child[d]
        /\ child' \in [Calls -> Children]
        /\ routed' \in {routed, child[c].route}
        /\ child'[c].state # child[c].state => child[c].state = "termed" /\ child'[c].state = "gone"
    <3>1. CASE PublishRoute(c)
      BY <1>1, <1>3, <3>1 DEF PublishRoute, Children
    <3>2. CASE child[c].state = "termed" /\ EndGroup(c)
      BY <1>1, <1>3, <3>2 DEF EndGroup, requestVars
    <3>3. QED
      BY <1>11, <3>1, <3>2
  <2>3. \A d \in Calls : ChildOK(d)'
    <3>1. ChildOK(c)'
      <4>1. CASE call[c].at \in {"idle", "queued"}
        <5>1. child[c] = NoChild
          BY <1>1, <4>1 DEF ChildOK
        <5>2. FALSE
          BY <1>3, <1>11, <5>1 DEF PublishRoute
        <5>3. QED
          BY <5>2
      <4>2. CASE call[c].at \notin {"idle", "queued"}
        BY <1>1, <2>1, <2>2, <4>2 DEF ChildOK, Live
      <4>3. QED
        BY <4>1, <4>2
    <3>2. QED
      BY <2>1, <2>2, <3>1 DEF QueueInv, ChildOK, Live
  <2>4. QueueOK(f)'
    BY <2>1 DEF QueueInv, QueueOK
  <2>5. /\ captured \in Int /\ routed \in Int /\ NoRoute \in Int /\ NoRoute <= routed
        /\ \A d \in Calls : call[d].source \in Int /\ child[d].route \in Int /\ NoRoute <= child[d].route
    BY PiHostAssumption DEF HostTypeOK, CallStates, Children, Routes, NoRoute
  <2>6. ASSUME NEW x \in Int, AtMost(x) PROVE routed' <= x /\ \A d \in Calls : child'[d].route <= x
    <3>1. NoRoute <= x
      BY <2>5, <2>6 DEF AtMost
    <3>2. QED
      BY <2>2, <2>6, <3>1 DEF AtMost
  <2>7. RoutesOK(f)'
    <3>1. AtMost(captured)' /\ \A d \in Unsettled' : call'[d].source <= captured'
      BY <2>1, <2>5, <2>6 DEF QueueInv, RoutesOK, AtMost
    <3>2. \A d \in Calls : Classifies(d)' /\ call'[d].at \in {"queued", "verifying"}
                           => routed' <= call'[d].source /\ \A e \in Calls : child'[e].route <= call'[d].source
      BY <2>1, <2>5, <2>6 DEF QueueInv, RoutesOK, Classifies
    <3>3. \A d \in Unsettled' : child'[d].route # NoRoute
                           => routed' <= child'[d].route /\ \A e \in Calls : child'[e].route <= child'[d].route
      BY <2>1, <2>2, <2>5, <2>6 DEF QueueInv, RoutesOK, Unsettled
    <3>4. \A d, e \in Calls : Classifies(d)' /\ Classifies(e)' /\ f[e] < f[d]
                              => call'[e].source <= call'[d].source
      BY <2>1 DEF QueueInv, RoutesOK, Classifies
    <3>5. QED
      BY <3>1, <3>2, <3>3, <3>4 DEF RoutesOK, AtMost
  <2>8. QED
    BY <2>1, <2>2, <2>3, <2>4, <2>7 DEF QueueInv, QueueTyped, HostTypeOK
<1>12. QED
  BY <1>5, <1>6, <1>7, <1>8, <1>9, <1>10, <1>11 DEF CallStep, EndTermed, Escalate, Sigkill

LEMMA UserStepKeeps ==
    ASSUME HostTypeOK, NEW f, QueueInv(f), UserStep
    PROVE  HostTypeOK' /\ QueueInv(f)'
<1>1. /\ call' = call /\ tail' = tail /\ child' = child /\ routed' = routed
      /\ captured' \in 0..MaxTurns /\ captured <= captured'
  BY PiHostAssumption DEF UserStep, Say, Deliver, StartSession, HostTypeOK
<1>2. HostTypeOK'
  <2>1. suspended' \in BOOLEAN /\ active' \in 0..MaxTurns /\ turn' \in 1..MaxTurns
    <3>1. CASE (\E about \in Topics : Say(about)) \/ StartSession
      <4>1. turn' = turn + 1 /\ turn < MaxTurns /\ active' \in {active, 0} /\ suspended' \in {suspended, FALSE}
        BY <3>1 DEF Say, StartSession
      <4>2. turn' \in 1..MaxTurns /\ active' \in 0..MaxTurns
        BY <4>1, PiHostAssumption DEF HostTypeOK
      <4>3. suspended' \in BOOLEAN
        BY <4>1 DEF HostTypeOK
      <4>4. QED
        BY <4>2, <4>3
    <3>2. ASSUME NEW i \in inbox, Deliver(i) PROVE active' \in 0..MaxTurns /\ suspended' \in BOOLEAN /\ turn' = turn
      <4>1. active' = captured' \/ active' = active
        BY <3>2 DEF Deliver
      <4>2. QED
        BY <1>1, <3>2, <4>1 DEF Deliver, HostTypeOK
    <3>3. QED
      BY <3>1, <3>2 DEF UserStep, HostTypeOK
  <2>2. inbox' \subseteq [said : 1..MaxTurns, about : Topics]
    <3>1. CASE \E about \in Topics : Say(about)
      BY <2>1, <3>1 DEF Say, HostTypeOK
    <3>2. CASE (\E i \in inbox : Deliver(i)) \/ StartSession
      BY <3>2 DEF Deliver, StartSession, HostTypeOK
    <3>3. QED
      BY <3>1, <3>2 DEF UserStep
  <2>3. QED
    BY <1>1, <2>1, <2>2 DEF HostTypeOK
<1>3. captured' \in Int
  BY <1>1, PiHostAssumption
<1>4. QED
  BY <1>1, <1>2, <1>3, QueueStands DEF QueueInv

LEMMA HostKeeps ==
    ASSUME HostInv, [HostNext]_hostVars
    PROVE  HostInv'
<1>1. PICK f \in [Calls -> Nat] : QueueInv(f)
  BY DEF HostInv, QueueInv
<1>2. HostTypeOK
  BY DEF HostInv
<1>3. ASSUME NEW c \in Calls, CallStep(c) PROVE HostInv'
  <2>1. turn' \in 1..MaxTurns /\ inbox' = inbox /\ suspended' = suspended /\ captured' = captured
    BY <1>2, <1>3 DEF CallStep, Issue, TakeTurn, Verified, PublishRoute, EndCommand, Interrupt, ExceedBudget,
       EndTermed, Escalate, EndGroup, ReportTimeout, requestVars, HostTypeOK
  <2>2. active' \in 0..MaxTurns /\ routed' \in Routes
    <3>1. call[c].source \in 0..MaxTurns /\ child[c].route \in Routes /\ active \in 0..MaxTurns
          /\ routed \in Routes
      BY <1>2 DEF HostTypeOK, CallStates, Children
    <3>2. QED
      BY <1>3, <3>1 DEF CallStep, Issue, TakeTurn, Verified, PublishRoute, EndCommand, Interrupt, ExceedBudget,
         EndTermed, Escalate, EndGroup, ReportTimeout, requestVars
  <2>3. CASE \E op \in Ops : Issue(c, op)
    <3>1. PICK op \in Ops : Issue(c, op)
      BY <2>3
    <3>2. child' = child
      BY <3>1 DEF Issue
    <3>3. QED
      BY <1>1, <1>2, <2>1, <2>2, <3>1, <3>2, IssueKeeps DEF HostInv, QueueInv, HostTypeOK
  <2>4. CASE ~\E op \in Ops : Issue(c, op)
    BY <1>1, <1>2, <1>3, <2>1, <2>2, <2>4, CallStepKeeps DEF HostInv, QueueInv, QueueTyped, HostTypeOK
  <2>5. QED
    BY <2>3, <2>4
<1>4. CASE UserStep
  BY <1>1, <1>2, <1>4, UserStepKeeps DEF HostInv, QueueInv
<1>5. CASE UNCHANGED hostVars
  <2>1. captured' \in Int /\ captured <= captured' /\ HostTypeOK'
    BY <1>2, <1>5, PiHostAssumption DEF hostVars, HostTypeOK
  <2>2. QED
    BY <1>1, <1>2, <1>5, <2>1, QueueStands DEF HostInv, QueueInv, hostVars
<1>6. QED
  BY <1>3, <1>4, <1>5 DEF HostNext

\* The queue has one head, and no route at hand is newer than one that is waited for.
THEOREM HostInvariant == HostSpec => []HostInv
BY HostInitInv, HostKeeps, PTL DEF HostSpec

\* Two processes are alive at once only when the user interrupted the one's call.
THEOREM OverlapIsInterrupted == HostSpec => []OverlapOnlyInterrupted
<1>1. ASSUME HostInv PROVE OverlapOnlyInterrupted
  <2>1. PICK f \in [Calls -> Nat] : QueueInv(f)
    BY <1>1 DEF HostInv, QueueInv
  <2>2. ASSUME NEW c \in Calls, Live(c), ~call[c].interrupted PROVE Head(c)
    <3>1. call[c].at \in Points /\ ChildOK(c)
      BY <1>1 DEF HostInv, HostTypeOK, CallStates
    <3>2. call[c].at \in Working
      BY <2>2, <3>1 DEF ChildOK, Live, NoChild, Working, Points
    <3>3. QED
      BY <1>1, <2>1, <3>2, WorkingIsHead DEF HostInv
  <2>3. QED
    BY <2>1, <2>2, OneHead DEF OverlapOnlyInterrupted, QueueInv
<1>2. QED
  BY <1>1, HostInvariant, PTL

\* Only the process of an interrupted call can replace a route by an earlier request's.
THEOREM RouteDoesNotGoBack == HostSpec => RouteNeverGoesBack
<1>1. ASSUME HostInv, [HostNext]_hostVars, routed' < routed
      PROVE  \E c \in Calls : call[c].interrupted /\ child[c].route = routed'
  <2>1. PICK f \in [Calls -> Nat] : QueueInv(f)
    BY <1>1 DEF HostInv, QueueInv
  <2>2. routed \in Int
    BY <1>1, PiHostAssumption DEF HostInv, HostTypeOK, Routes, NoRoute
  <2>3. PICK c \in Calls : PublishRoute(c)
    <3>1. routed' # routed
      BY <1>1, <2>2
    <3>2. ASSUME NEW c \in Calls, CallStep(c) PROVE PublishRoute(c)
      BY <3>1, <3>2 DEF CallStep, Issue, TakeTurn, Verified, EndCommand, Interrupt, ExceedBudget, EndTermed,
         Escalate, EndGroup, ReportTimeout
    <3>3. ~UserStep /\ ~UNCHANGED hostVars
      BY <3>1 DEF UserStep, Say, Deliver, StartSession, hostVars
    <3>4. QED
      BY <1>1, <3>2, <3>3 DEF HostNext
  <2>4. child[c].route = routed' /\ child[c].route # NoRoute
    BY <2>3 DEF PublishRoute
  <2>5. c \notin Unsettled
    BY <1>1, <2>1, <2>2, <2>4, PiHostAssumption DEF QueueInv, RoutesOK, AtMost, HostInv, HostTypeOK, Children, Routes, NoRoute
  <2>6. call[c].at \in Points /\ ChildOK(c)
    BY <1>1 DEF HostInv, HostTypeOK, CallStates
  <2>7. call[c].interrupted
    BY <2>4, <2>5, <2>6 DEF ChildOK, NoChild, Unsettled, Points, Live
  <2>8. QED
    BY <2>4, <2>7
<1>2. QED
  BY <1>1, HostInvariant, PTL DEF HostSpec, RouteNeverGoesBack

\* What is left of a call: the points of run() before it, and the end of its process.
PointsToGo(at) ==
    CASE at = "idle" -> 5
      [] at = "queued" -> 4
      [] at = "verifying" -> 3
      [] at = "running" -> 2
      [] at = "stopping" -> 1
      [] OTHER -> 0

ProcessToGo(state) ==
    CASE state = "none" -> 3
      [] state = "alive" -> 2
      [] state = "termed" -> 1
      [] OTHER -> 0

ToGo(c) == PointsToGo(call[c].at) + ProcessToGo(child[c].state)

CallStands(c) == UNCHANGED <<call[c].at, child[c].state>>

\* What the extension does next for a command without the help of its process: the guards of
\* TakeTurn, ExceedBudget, Escalate and ReportTimeout.
HasTurn(c) ==
    \/ call[c].at = "queued" /\ MayRun(c)
    \/ call[c].at \in {"verifying", "running"}
    \/ Sigkill(c)
    \/ TornDown(c)

LEMMA QueueHasHead ==
    ASSUME NEW f, QueueOK(f), Unsettled # {}
    PROVE  \E c \in Unsettled : Head(c)
<1> DEFINE T == {f[c] : c \in Unsettled}
<1>1. T \subseteq Nat /\ T # {}
  BY DEF QueueOK, Unsettled
<1>2. \E x \in T : \A y \in T : ~(<<y, x>> \in OpToRel(<, Nat))
  BY <1>1, NatLessThanWellFounded, WFMin
<1>3. PICK x \in T : \A y \in T : ~(y < x)
  BY <1>1, <1>2 DEF OpToRel
<1>4. PICK c \in Unsettled : x = f[c]
  OBVIOUS
<1>5. call[c].prev \notin Unsettled
  BY <1>3, <1>4 DEF QueueOK
<1>6. QED
  BY <1>5 DEF Head

LEMMA CallGoesOn ==
    ASSUME HostInv, HostNext, NEW c \in Calls
    PROVE  CallStands(c) \/ ToGo(c)' < ToGo(c)
<1>1. call \in [Calls -> CallStates] /\ child \in [Calls -> Children]
  BY DEF HostInv, HostTypeOK
<1>2. CASE UserStep
  BY <1>2 DEF UserStep, Say, Deliver, StartSession, CallStands
<1>3. ASSUME NEW d \in Calls, CallStep(d), c # d
      PROVE  CallStands(c)
  BY <1>1, <1>3 DEF CallStep, Issue, TakeTurn, Starts, Spawns, Moves, Term, Verified, PublishRoute,
     EndCommand, Interrupt, ExceedBudget, EndTermed, Escalate, EndGroup, ReportTimeout, CallStands
<1>4. ASSUME NEW p \in Points, NEW q \in Points, NEW k \in {"none", "alive", "termed", "gone"},
             NEW l \in {"none", "alive", "termed", "gone"},
             call[c].at = p, call'[c].at = q, child[c].state = k, child'[c].state = l,
             \/ PointsToGo(q) < PointsToGo(p) /\ ProcessToGo(l) <= ProcessToGo(k)
             \/ PointsToGo(q) = PointsToGo(p) /\ ProcessToGo(l) < ProcessToGo(k)
      PROVE  ToGo(c)' < ToGo(c)
  <2>1. PICK a \in 0..5, b \in 0..5 : a = PointsToGo(p) /\ b = PointsToGo(q)
    BY DEF PointsToGo
  <2>2. PICK u \in 0..3, v \in 0..3 : u = ProcessToGo(k) /\ v = ProcessToGo(l)
    BY DEF ProcessToGo
  <2>3. ToGo(c) = a + u /\ ToGo(c)' = b + v
    BY <1>4, <2>1, <2>2 DEF ToGo
  <2>4. QED
    BY <1>4, <2>1, <2>2, <2>3
<1>5. ASSUME CallStep(c)
      PROVE  CallStands(c) \/ ToGo(c)' < ToGo(c)
  <2>1. ChildOK(c) /\ call[c].at \in Points /\ child[c].state \in {"none", "alive", "termed", "gone"}
    BY <1>1 DEF HostInv, CallStates, Children
  <2>2. \A to \in Points, stop \in BOOLEAN : Moves(c, to, stop) => call'[c].at = to
    BY <1>1 DEF Moves, Moved, FreshCall, CallStates
  <2>3. \A route : Spawns(c, route) => child'[c].state = "alive"
    BY <1>1 DEF Spawns
  <2>4. Term(c) => child'[c].state = "termed"
    BY <1>1 DEF Term, Children
  <2>5. child' = [child EXCEPT ![c] = Gone] => child'[c].state = "gone"
    BY <1>1 DEF Gone
  <2>6. CASE \E op \in Ops : Issue(c, op)
    <3>1. call[c].at = "idle" /\ call'[c].at = "queued" /\ child' = child
      BY <1>1, <2>6 DEF Issue
    <3>2. PointsToGo("queued") < PointsToGo("idle") /\ {"idle", "queued"} \subseteq Points
      BY DEF PointsToGo, Points
    <3>3. ProcessToGo(child'[c].state) <= ProcessToGo(child[c].state)
      BY <3>1 DEF ProcessToGo
    <3>4. QED
      BY <1>4, <2>1, <3>1, <3>2, <3>3
  <2>7. CASE TakeTurn(c)
    <3>1. call[c].at = "queued" /\ child[c].state = "none" /\ call[c].interrupted \in BOOLEAN
      BY <1>1, <2>1, <2>7 DEF TakeTurn, ChildOK, NoChild, CallStates
    <3>2. \/ call'[c].at = "done" /\ child'[c].state \in {"none", "gone"}
          \/ call'[c].at \in {"verifying", "running"} /\ child'[c].state = "alive"
      BY <2>2, <2>3, <2>5, <2>7, <3>1 DEF TakeTurn, Starts, Points
    <3>3. QED
      BY <1>4, <3>1, <3>2 DEF PointsToGo, ProcessToGo, Points
  <2>8. CASE Verified(c)
    <3>1. call[c].at = "verifying" /\ child[c].state = "alive"
      BY <2>1, <2>8 DEF Verified, ChildOK
    <3>2. \/ call'[c].at = "done" /\ child'[c].state = "gone"
          \/ call'[c].at = "running" /\ child'[c].state = "alive"
      BY <2>2, <2>3, <2>5, <2>8 DEF Verified, Starts, Points
    <3>3. QED
      BY <1>4, <3>1, <3>2 DEF PointsToGo, ProcessToGo, Points
  <2>9. CASE PublishRoute(c)
    BY <1>1, <2>9 DEF PublishRoute, CallStands, Children
  <2>10. CASE EndCommand(c)
    <3>1. call[c].at = "running" /\ child[c].state = "alive" /\ call'[c].at = "done"
          /\ child'[c].state = "gone"
      BY <2>1, <2>2, <2>5, <2>10 DEF EndCommand, ChildOK, Points
    <3>2. QED
      BY <1>4, <3>1 DEF PointsToGo, ProcessToGo, Points
  <2>11. CASE Interrupt(c)
    <3>1. CASE call[c].at \in {"verifying", "running"}
      <4>1. child[c].state = "alive" /\ call'[c].at = "done" /\ child'[c].state = "termed"
        BY <2>1, <2>2, <2>4, <2>11, <3>1 DEF Interrupt, ChildOK, Points
      <4>2. QED
        BY <1>4, <3>1, <4>1 DEF PointsToGo, ProcessToGo, Points
    <3>2. CASE call[c].at \notin {"verifying", "running"}
      BY <2>1, <2>2, <2>11, <3>2 DEF Interrupt, CallStands
    <3>3. QED
      BY <3>1, <3>2
  <2>12. CASE ExceedBudget(c)
    <3>1. /\ call[c].at \in {"verifying", "running"} /\ child[c].state = "alive"
          /\ call'[c].at = "stopping" /\ child'[c].state = "termed"
      BY <2>1, <2>2, <2>4, <2>12 DEF ExceedBudget, ChildOK, Points
    <3>2. QED
      BY <1>4, <3>1 DEF PointsToGo, ProcessToGo, Points
  <2>13. CASE EndTermed(c) \/ Escalate(c)
    <3>1. call' = call /\ child[c].state = "termed" /\ child'[c].state = "gone"
      BY <2>5, <2>13 DEF EndTermed, Escalate, Sigkill, EndGroup
    <3>2. QED
      BY <1>4, <2>1, <3>1 DEF ProcessToGo
  <2>14. CASE ReportTimeout(c)
    <3>1. call[c].at = "stopping" /\ child' = child /\ call[c].interrupted \in BOOLEAN
      BY <1>1, <2>14 DEF ReportTimeout, TornDown, CallStates
    <3>2. call'[c].at = "done"
      BY <2>2, <2>14, <3>1 DEF ReportTimeout, Points
    <3>3. PointsToGo("done") < PointsToGo("stopping") /\ {"stopping", "done"} \subseteq Points
      BY DEF PointsToGo, Points
    <3>4. ProcessToGo(child'[c].state) <= ProcessToGo(child[c].state)
      BY <2>1, <3>1 DEF ProcessToGo
    <3>5. QED
      BY <1>4, <2>1, <3>1, <3>2, <3>3, <3>4
  <2>15. QED
    BY <1>5, <2>6, <2>7, <2>8, <2>9, <2>10, <2>11, <2>12, <2>13, <2>14 DEF CallStep
<1>6. QED
  BY <1>2, <1>3, <1>5 DEF HostNext

\* The argument for CallsAnswered, for any number of calls and inputs: whatever changes a call
\* brings it nearer to its end, which is at most eight steps away, and as long as a call is
\* unsettled there is one, the head of the queue, whose next step needs no process to end.
THEOREM QueueRunsOut ==
    HostSpec => /\ [][\A c \in Calls : CallStands(c) \/ ToGo(c)' < ToGo(c)]_hostVars
                /\ [](/\ \A c \in Calls : ToGo(c) \in 0..8
                      /\ Unsettled # {} => \E c \in Unsettled : HasTurn(c))
<1>1. HostInv /\ [HostNext]_hostVars
        => [\A c \in Calls : CallStands(c) \/ ToGo(c)' < ToGo(c)]_hostVars
  BY CallGoesOn
<1>2. ASSUME HostInv, NEW c \in Calls PROVE ToGo(c) \in 0..8
  <2>1. PICK a \in 0..5, u \in 0..3 :
           a = PointsToGo(call[c].at) /\ u = ProcessToGo(child[c].state)
    BY DEF PointsToGo, ProcessToGo
  <2>2. ToGo(c) = a + u
    BY <2>1 DEF ToGo
  <2>3. QED
    BY <2>2
<1>3. ASSUME HostInv, Unsettled # {} PROVE \E c \in Unsettled : HasTurn(c)
  <2>1. PICK f \in [Calls -> Nat] : QueueOK(f)
    BY <1>3 DEF HostInv
  <2>2. PICK c \in Unsettled : Head(c)
    BY <1>3, <2>1, QueueHasHead
  <2>3. ChildOK(c) /\ call[c].at \in Points \ {"idle", "done"}
    BY <1>3 DEF HostInv, Unsettled
  <2>4. HasTurn(c)
    BY <2>2, <2>3 DEF HasTurn, Head, MayRun, Points, ChildOK, Sigkill, TornDown
  <2>5. QED
    BY <2>4
<1>4. HostInv => /\ \A c \in Calls : ToGo(c) \in 0..8
                 /\ Unsettled # {} => \E c \in Unsettled : HasTurn(c)
  BY <1>2, <1>3
<1>5. QED
  BY <1>1, <1>4, HostInvariant, PTL DEF HostSpec

-----------------------------------------------------------------------------
(* The lease of a browser.                                                 *)

\* Only a reaper that has offered the lease has marked the profile, which it made and
\* nobody has touched before.
MarkedIsOffered ==
    /\ launcher = "idle" => reaper = "none"
    /\ marked => reaper \in {"offered", "serving", "claim", "remove", "report", "gone"}
    /\ reaper \in {"made", "linked", "spawned"} => profile = "made"

\* Who removes the profile of a browser knows that the browser's group is gone; the
\* launcher looks for that only when there is no reaper that could start one.
RemoverKnows ==
    /\ reaper \in {"claim", "remove", "report"} => group = "gone"
    /\ launcher \in {"terming", "claiming", "removing"} => reaper = "gone"
    /\ launcher \in {"claiming", "removing"} => ~GroupLives

LeaseInv == MarkedIsOffered /\ RemoverKnows /\ ProfileOutlivesBrowser

LEMMA LeaseInitInv == LeaseInit => LeaseInv
BY DEF LeaseInit, LeaseInv, MarkedIsOffered, RemoverKnows, GroupLives, ProfileOutlivesBrowser

LEMMA LauncherKeeps ==
    ASSUME LeaseInv,
           \/ StartReaper \/ RequestExit \/ CloseInput \/ KillLauncher \/ LauncherStep
    PROVE  LeaseInv'
<1> USE DEF LeaseInv, MarkedIsOffered, RemoverKnows, GroupLives, ProfileOutlivesBrowser, LauncherLives,
            reaperOwn, world
<1>1. CASE StartReaper
  BY <1>1 DEF StartReaper
<1>2. CASE RequestExit \/ CloseInput
  BY <1>2 DEF RequestExit, CloseInput, launcherOwn
<1>3. CASE KillLauncher
  BY <1>3 DEF KillLauncher
<1>4. CASE TakeReady \/ TakeComplete
  BY <1>4 DEF TakeReady, TakeComplete
<1>5. CASE ObserveExit
  BY <1>5 DEF ObserveExit
<1>6. CASE LauncherKills
  BY <1>6 DEF LauncherKills, launcherOwn
<1>7. CASE AfterSentinel
  BY <1>7 DEF AfterSentinel, SentinelClosed
<1>8. CASE LauncherClaims \/ LauncherRemoves
  BY <1>8 DEF LauncherClaims, LauncherRemoves
<1>9. QED
  BY <1>1, <1>2, <1>3, <1>4, <1>5, <1>6, <1>7, <1>8 DEF LauncherStep

LEMMA ReaperKeeps ==
    ASSUME LeaseInv,
           \/ ReaperStep \/ MakeFails \/ SpawnFails \/ MarkerFails \/ KillReaper \/ GroupEnds
    PROVE  LeaseInv'
<1> USE DEF LeaseInv, MarkedIsOffered, RemoverKnows, GroupLives, ProfileOutlivesBrowser, Goes,
            launcherOwn, world
<1>1. CASE MakeProfile \/ MakeFails \/ LinkSentinel
  BY <1>1 DEF MakeProfile, MakeFails, LinkSentinel
<1>2. CASE SpawnGroup \/ SpawnFails
  BY <1>2 DEF SpawnGroup, SpawnFails
<1>3. CASE OfferLease \/ MarkerFails
  BY <1>3 DEF OfferLease, MarkerFails
<1>4. CASE TakeSignal \/ TakeHeld \/ InputEnds \/ Disconnect
  BY <1>4 DEF TakeSignal, TakeHeld, InputEnds, Disconnect, Attending
<1>5. CASE KillGroup \/ GroupEnds
  BY <1>5 DEF KillGroup, GroupEnds, reaperOwn
<1>6. CASE TakeExit
  BY <1>6 DEF TakeExit
<1>7. CASE ReaperClaims \/ ReaperRemoves
  BY <1>7 DEF ReaperClaims, ReaperRemoves
<1>8. CASE Report \/ Lingered \/ KillReaper
  BY <1>8 DEF Report, Lingered, KillReaper, ReaperLives
<1>9. QED
  BY <1>1, <1>2, <1>3, <1>4, <1>5, <1>6, <1>7, <1>8 DEF ReaperStep

\* The types, which the argument above does not need.
THEOREM LeaseTypes == LeaseSpec => []LeaseTypeOK
<1> USE DEF LeaseTypeOK, LauncherPoints, ReaperPoints, Groups, Goes, launcherOwn, reaperOwn, world
<1>1. LeaseInit => LeaseTypeOK
  BY DEF LeaseInit
<1> DEFINE Messages == /\ "ready" \in ReaperMessages /\ "complete" \in ReaperMessages
                       /\ "lease-held" \in LauncherMessages /\ "signal" \in LauncherMessages
                       /\ "signal" \in ExitRequests /\ "input" \in ExitRequests
<1>m. Messages
  BY DEF ReaperMessages, LauncherMessages, ExitRequests
<1>2. ASSUME LeaseTypeOK, LauncherStep PROVE LeaseTypeOK'
  BY <1>2, <1>m DEF LauncherStep, TakeReady, TakeComplete, ObserveExit, LauncherKills, AfterSentinel,
     LauncherClaims, LauncherRemoves
<1>3. ASSUME LeaseTypeOK, ReaperStep PROVE LeaseTypeOK'
  <2>1. CASE OfferLease
    BY <1>3, <1>m, <2>1 DEF OfferLease
  <2>2. CASE TakeSignal
    BY <1>3, <1>m, <2>2 DEF TakeSignal
  <2>6. CASE TakeHeld
    BY <1>3, <1>m, <2>6 DEF TakeHeld
  <2>7. CASE MakeProfile \/ LinkSentinel \/ SpawnGroup \/ InputEnds \/ Disconnect
    BY <1>3, <2>7 DEF MakeProfile, LinkSentinel, SpawnGroup, InputEnds, Disconnect
  <2>8. CASE KillGroup \/ TakeExit \/ ReaperClaims \/ Lingered
    BY <1>3, <2>8 DEF KillGroup, TakeExit, ReaperClaims, Lingered
  <2>3. CASE Report
    BY <1>3, <1>m, <2>3 DEF Report
  <2>4. CASE ReaperRemoves
    BY <1>3, <2>4 DEF ReaperRemoves
  <2>5. QED
    BY <1>3, <2>1, <2>2, <2>3, <2>4, <2>6, <2>7, <2>8 DEF ReaperStep
<1>4. ASSUME LeaseTypeOK, LeaseFault PROVE LeaseTypeOK'
  BY <1>4 DEF LeaseFault, MakeFails, SpawnFails, MarkerFails, KillLauncher, KillReaper
<1>5. ASSUME LeaseTypeOK, StartReaper \/ RequestExit \/ CloseInput \/ GroupEnds PROVE LeaseTypeOK'
  BY <1>5, <1>m DEF StartReaper, RequestExit, CloseInput, GroupEnds
<1>6. LeaseTypeOK /\ UNCHANGED leaseVars => LeaseTypeOK'
  BY DEF leaseVars
<1>7. QED
  BY <1>1, <1>2, <1>3, <1>4, <1>5, <1>6, PTL DEF LeaseSpec, LeaseNext

\* A profile is removed by one who knows that nothing runs in it.
THEOREM LeaseInvariant == LeaseSpec => []LeaseInv
<1>1. LeaseInv /\ [LeaseNext]_leaseVars => LeaseInv'
  <2>1. ASSUME LeaseInv, LeaseNext PROVE LeaseInv'
    BY <2>1, LauncherKeeps, ReaperKeeps DEF LeaseNext, LeaseFault
  <2>2. ASSUME LeaseInv, UNCHANGED leaseVars PROVE LeaseInv'
    BY <2>2 DEF leaseVars, LeaseInv, MarkedIsOffered, RemoverKnows, GroupLives, ProfileOutlivesBrowser
  <2>3. QED
    BY <2>1, <2>2
<1>2. QED
  BY LeaseInitInv, <1>1, PTL DEF LeaseSpec

\* No marked profile is taken away from a browser that runs.
THEOREM BrowserKeepsProfile == LeaseSpec => []ProfileOutlivesBrowser
<1>1. LeaseInv => ProfileOutlivesBrowser
  BY DEF LeaseInv
<1>2. QED
  BY LeaseInvariant, <1>1, PTL

=============================================================================
