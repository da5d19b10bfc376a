--------------------------- MODULE StudioDelivery ---------------------------
(***************************************************************************)
(* `omd lifecycle finish` for a new page (deliverStudioPage): build, floors, *)
(* capture, one comparison with the reference, delivery.                   *)
(*                                                                         *)
(* The host runs it by itself when a turn of the maker ends and the source *)
(* is not the one of the last attempt; the maker runs it too, from a shell. *)
(* Runs overlap, are killed, and the maker edits at any time; a build may  *)
(* itself rewrite files of the source.  A source is known by its number, a *)
(* built page by the source it was built from, and a report by both.       *)
(***************************************************************************)
EXTENDS Naturals

CONSTANTS
    Finishes,       \* processes that run the command
    Host,           \* the one the host runs
    NoRecord,       \* a file that does not exist
    MaxChanges,     \* bounds: changes of the source,
    MaxKills        \*         and kills

Reports == [source : 0..MaxChanges, page : 0..MaxChanges]
Comparisons == [report : Reports, decision : {"retain", "revise"}]

ASSUME StudioAssumption ==
    /\ Host \in Finishes
    /\ NoRecord \notin Reports \cup Comparisons
    /\ {MaxChanges, MaxKills} \subseteq Nat

VARIABLES
    code,       \* the production source as it is
    page,       \* the built page
    report,     \* .omd/first-render-critic.json
    rounds,     \* reviewed iterations in the route's history
    review,     \* .omd/first-render/review.json
    delivery,   \* .omd/studio/delivery.json
    attempted,  \* the host's note of the source it tried last, in memory
    stage,      \* stage[p]: where the run of p is
    has,        \* has[p]: what it captures, what its reviewer judges, or the
                \*         review it delivers with
    unchanged,  \* history: no change since the host's attempt returned
    kills

studioFiles == <<code, page, report, rounds, review, delivery>>
runs == <<stage, has>>
studioVars == <<studioFiles, attempted, runs, unchanged, kills>>

StudioRounds == 1       \* STUDIO_REVIEW_ROUNDS

Packets == [judges : Reports, before : Comparisons \cup {NoRecord}]
Stages == {"idle", "build", "floors", "capture", "decide", "ask", "judge",
           "record", "deliver", "return"}

StudioTypeOK ==
    /\ code \in 0..MaxChanges /\ page \in 0..MaxChanges
    /\ report \in Reports \cup {NoRecord}
    /\ rounds \in Nat
    /\ review \in Comparisons \cup {NoRecord}
    /\ delivery \in [source : 0..MaxChanges, page : 0..MaxChanges, review : Comparisons]
                      \cup {NoRecord}
    /\ attempted \in 0..MaxChanges \cup {NoRecord}
    /\ stage \in [Finishes -> Stages]
    /\ has \in [Finishes -> Reports \cup Packets \cup Comparisons \cup {NoRecord}]
    /\ unchanged \in BOOLEAN
    /\ kills \in 0..MaxKills

StudioInit ==
    /\ code = 0 /\ page = 0
    /\ report = NoRecord
    /\ rounds = 0
    /\ review = NoRecord
    /\ delivery = NoRecord
    /\ attempted = NoRecord
    /\ stage = [p \in Finishes |-> "idle"]
    /\ has = [p \in Finishes |-> NoRecord]
    /\ unchanged = FALSE
    /\ kills = 0

Goes(p, to, with) ==
    /\ stage' = [stage EXCEPT ![p] = to]
    /\ has' = [has EXCEPT ![p] = with]

\* A run that stops reports its diagnostic; the host then takes note of it.
Stops(p) == Goes(p, IF p = Host THEN "return" ELSE "idle", NoRecord)

\* publish, check and record hold the project lock; only record does so in two steps.
LockIsFree == \A q \in Finishes : stage[q] # "record"

Now == [source |-> code, page |-> page]

\* currentStudioDelivery
IsDelivered == delivery # NoRecord /\ delivery.source = code

-----------------------------------------------------------------------------
(* The host and the maker.                                                 *)

ChangedSinceAttempt == attempted # code

\* The end of a turn asks for the next stage, which is to finish unless the
\* delivery is current, and runs it unless this source was tried already.
StartByHost ==
    /\ stage[Host] = "idle"
    /\ ~IsDelivered
    /\ ChangedSinceAttempt
    /\ Goes(Host, "build", NoRecord)
    /\ attempted' = code
    /\ UNCHANGED <<studioFiles, unchanged, kills>>

StartByMaker(p) ==
    /\ p # Host
    /\ stage[p] = "idle"
    /\ Goes(p, "build", NoRecord)
    /\ UNCHANGED <<studioFiles, attempted, unchanged, kills>>

\* Mutant of AfterAttempt: the note from before the attempt stands.
AfterAttemptUnnoted == attempted

AfterAttempt == code

\* What the attempt itself made of the source counts as tried.
ReturnToHost ==
    /\ stage[Host] = "return"
    /\ Goes(Host, "idle", NoRecord)
    /\ attempted' = AfterAttempt
    /\ unchanged' = TRUE
    /\ UNCHANGED <<studioFiles, kills>>

\* The turn is interrupted: the run is aborted and no note is taken.
Interrupt ==
    /\ stage[Host] \notin {"idle", "record"}
    /\ Goes(Host, "idle", NoRecord)
    /\ UNCHANGED <<studioFiles, attempted, unchanged, kills>>

\* A kill may come between the two writes of a review.  With the host its note is lost.
Kill(p) ==
    /\ kills < MaxKills
    /\ stage[p] # "idle"
    /\ kills' = kills + 1
    /\ Goes(p, "idle", NoRecord)
    /\ attempted' = IF p = Host THEN NoRecord ELSE attempted
    /\ unchanged' = (unchanged /\ p # Host)
    /\ UNCHANGED studioFiles

EditPage ==
    /\ code < MaxChanges
    /\ code' = code + 1
    /\ unchanged' = FALSE
    /\ UNCHANGED <<page, report, rounds, review, delivery, attempted, runs, kills>>

-----------------------------------------------------------------------------
(* A finish.                                                               *)

Fail(p) ==
    /\ stage[p] \in {"build", "floors", "judge"}
    /\ Stops(p)
    /\ UNCHANGED <<studioFiles, attempted, unchanged, kills>>

\* install, typecheck, test and build; they may rewrite files of the source.
Build(p) ==
    /\ stage[p] = "build"
    /\ Goes(p, "floors", NoRecord)
    /\ \E s \in {code, code + 1} :
        /\ s <= MaxChanges
        /\ code' = s /\ page' = s
        /\ unchanged' = (unchanged /\ (s = code \/ p = Host))
    /\ UNCHANGED <<report, rounds, review, delivery, attempted, kills>>

\* The page keeps its floors and its system, and the capture starts.
HoldFloors(p) ==
    /\ stage[p] = "floors"
    /\ Goes(p, "capture", Now)
    /\ UNCHANGED <<studioFiles, attempted, unchanged, kills>>

\* publishFirstRenderCheck: nothing moved while the page was captured.
Capture(p) ==
    /\ stage[p] = "capture"
    /\ LockIsFree
    /\ \/ has[p] = Now /\ report' = Now /\ Goes(p, "decide", NoRecord)
       \/ has[p] # Now /\ UNCHANGED report /\ Stops(p)
    /\ UNCHANGED <<code, page, rounds, review, delivery, attempted, unchanged, kills>>

Spent == rounds >= StudioRounds

\* requireRetainedFirstRenderReview: a verdict on what the report captured, and on
\* what is served still.
IsRetained ==
    review # NoRecord /\ review.decision = "retain" /\ review.report = report /\ report = Now

Latest == review

\* A retained review delivers, and the last one when the rounds are spent.
MayDeliver == IsRetained \/ (Spent /\ Latest # NoRecord)

\* Delivery, an error when the rounds are spent without a review, or a comparison.
Decide(p) ==
    /\ stage[p] = "decide"
    /\ \/ MayDeliver /\ Goes(p, "deliver", Latest)
       \/ ~MayDeliver /\ Spent /\ Stops(p)
       \/ ~MayDeliver /\ ~Spent /\ Goes(p, "ask", NoRecord)
    /\ UNCHANGED <<studioFiles, attempted, unchanged, kills>>

\* A review of this report, or the one that spent the rounds meanwhile.
Reusable == review # NoRecord /\ (review.report = report \/ Spent)

\* A comparison that retains is delivered, another is reported to the maker.
Proceeds(p, r) == IF r.decision = "retain" THEN Goes(p, "deliver", r) ELSE Stops(p)

\* runFirstRenderReview gives back a reusable review, or asks a reviewer about the
\* evidence.
Ask(p) ==
    /\ stage[p] = "ask"
    /\ \/ report # Now /\ Stops(p)
       \/ report = Now /\ Reusable /\ Proceeds(p, review)
       \/ /\ report = Now /\ ~Reusable
          /\ Goes(p, "judge", [judges |-> report, before |-> review])
    /\ UNCHANGED <<studioFiles, attempted, unchanged, kills>>

SameEvidence(p) ==
    /\ has[p].judges = report /\ report = Now
    /\ has[p].before = review

\* The reviewer returns after minutes.  Under the lock, if the evidence is still
\* the same, the verdict goes into the history ...
Record(p) ==
    /\ stage[p] = "judge"
    /\ LockIsFree
    /\ \/ /\ SameEvidence(p)
          /\ rounds' = rounds + 1
          /\ \E d \in {"retain", "revise"} :
                Goes(p, "record", [report |-> has[p].judges, decision |-> d])
       \/ ~SameEvidence(p) /\ UNCHANGED rounds /\ Stops(p)
    /\ UNCHANGED <<code, page, report, review, delivery, attempted, unchanged, kills>>

\* ... and then becomes the current review.
PublishReview(p) ==
    /\ stage[p] = "record"
    /\ review' = has[p]
    /\ Proceeds(p, has[p])
    /\ UNCHANGED <<code, page, report, rounds, delivery, attempted, unchanged, kills>>

\* writeStudioDelivery signs the source as it is when it writes.
Deliver(p) ==
    /\ stage[p] = "deliver"
    /\ delivery' = [source |-> code, page |-> page, review |-> has[p]]
    /\ Stops(p)
    /\ UNCHANGED <<code, page, report, rounds, review, attempted, unchanged, kills>>

StudioNext ==
    \/ StartByHost \/ ReturnToHost \/ Interrupt \/ EditPage
    \/ \E p \in Finishes :
        \/ StartByMaker(p) \/ Kill(p) \/ Fail(p)
        \/ Build(p) \/ HoldFloors(p) \/ Capture(p) \/ Decide(p)
        \/ Ask(p) \/ Record(p) \/ PublishReview(p) \/ Deliver(p)

StudioSpec == StudioInit /\ [][StudioNext]_studioVars

-----------------------------------------------------------------------------
(* Properties.                                                             *)

\* The host does not try again what it tried: after an attempt has returned, the
\* next one waits for a change by the maker or by another run, even when every
\* build rewrites the source (omd-model-led-completion.ts:33).
GateDoesNotLoop == [][StartByHost => ~unchanged]_studioVars

\* A page is delivered with a comparison that was published, also when a run was
\* killed between the history and review.json, or reads between the two writes.
DeliveredAfterComparison ==
    delivery # NoRecord => delivery.review # NoRecord /\ rounds > 0

\* A delivery that says "retain" names a review of the page it delivers
\* (model-led-completion-command.ts:275-276).  The code does not hold it.
RetainIsOfThisPage ==
    delivery # NoRecord /\ delivery.review.decision = "retain"
        => delivery.review.report.page = delivery.page

=============================================================================
