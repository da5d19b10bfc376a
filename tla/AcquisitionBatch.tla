-------------------------- MODULE AcquisitionBatch --------------------------
(***************************************************************************)
(* `omd ref add-batch` (core/ref/batch.ts): references captured by several  *)
(* workers over one browser, each capture under a deadline and the whole    *)
(* batch under another (core/ref/acquisition-deadline.ts).                  *)
(*                                                                         *)
(* A deadline that fires does not stop the work: what lost the race goes on *)
(* and may open its browser or page, or return its capture, when the caller *)
(* has its answer.  Launches, pages and closes may take for ever.           *)
(***************************************************************************)
EXTENDS Naturals

CONSTANTS
    Workers,
    Items           \* number of references in the batch

ASSUME BatchAssumption == Items \in Nat

VARIABLES
    batch,          \* the work: "off", "launching", "working", "closing", "over"
    deadline,       \* of the batch: "off", "armed", "expired" (cleaning up), "settled"
    browser,        \* "none", "open", "closing", "closed"
    worker,         \* worker[w]: "next", "capture", "gone"
    item,           \* item[w]: the item it works on
    nextItem,
    itemDeadline,   \* itemDeadline[i]: as `deadline`
    page,           \* page[i]: "none", "opening", "open", "closed"
    saved,          \* references saved in the project
    outcomes,       \* items whose outcome is ok
    answer,         \* "none", "report", "error"
    reported        \* the ok items of the report

batchVars == <<batch, deadline, browser, worker, item, nextItem, itemDeadline, page, saved,
               outcomes, answer, reported>>

BatchInit ==
    /\ batch = "off" /\ deadline = "off"
    /\ browser = "none"
    /\ worker = [w \in Workers |-> "next"]
    /\ item = [w \in Workers |-> 0]
    /\ nextItem = 1
    /\ itemDeadline = [i \in 1..Items |-> "off"]
    /\ page = [i \in 1..Items |-> "none"]
    /\ saved = {} /\ outcomes = {}
    /\ answer = "none"
    /\ reported = {}

-----------------------------------------------------------------------------
(* The batch, withAcquisitionDeadline and withBrowser.                     *)

StartBatch ==
    /\ batch = "off"
    /\ batch' = "launching" /\ deadline' = "armed"
    /\ UNCHANGED <<browser, worker, item, nextItem, itemDeadline, page, saved, outcomes,
                   answer, reported>>

Answered(kind) ==
    /\ answer' = kind
    /\ reported' = IF kind = "report" THEN outcomes ELSE {}
    /\ deadline' = "settled"

OwnedBlindly == "open"

\* The scope closes at once what it is given too late.
Owned == IF deadline = "armed" THEN "open" ELSE "closing"

LaunchBrowser ==
    /\ batch = "launching"
    /\ batch' = "working"
    /\ browser' = Owned
    /\ UNCHANGED <<deadline, worker, item, nextItem, itemDeadline, page, saved, outcomes,
                   answer, reported>>

\* The work is over: its error, or its end, is the answer unless there is one.  Also
\* while an expired deadline cleans up, when an end counts as the timeout.
Ends(kind) ==
    /\ batch' = "over"
    /\ IF deadline = "settled" THEN UNCHANGED <<deadline, answer, reported>>
       ELSE Answered(kind)

LaunchFails ==
    /\ batch = "launching"
    /\ Ends("error")
    /\ UNCHANGED <<browser, worker, item, nextItem, itemDeadline, page, saved, outcomes>>

ExpireBatch ==
    /\ deadline = "armed"
    /\ deadline' = "expired"
    /\ browser' = IF browser = "open" THEN "closing" ELSE browser
    /\ UNCHANGED <<batch, worker, item, nextItem, itemDeadline, page, saved, outcomes, answer,
                   reported>>

CleanedUpInFull == browser # "closing"

\* Resources are closed, or two seconds have passed.
CleanedUp == TRUE

\* The timeout is caught: what has no outcome is reported as timed out.
AnswerLate ==
    /\ deadline = "expired" /\ CleanedUp
    /\ Answered("report")
    /\ UNCHANGED <<batch, browser, worker, item, nextItem, itemDeadline, page, saved,
                   outcomes>>

WorkersDone ==
    /\ batch = "working"
    /\ \A w \in Workers : worker[w] = "gone"
    /\ batch' = "closing"
    /\ browser' = IF browser = "closed" THEN browser ELSE "closing"
    /\ UNCHANGED <<deadline, worker, item, nextItem, itemDeadline, page, saved, outcomes,
                   answer, reported>>

BrowserCloses ==
    /\ browser = "closing"
    /\ browser' = "closed"
    /\ page' = [i \in 1..Items |-> IF page[i] = "open" THEN "closed" ELSE page[i]]
    /\ UNCHANGED <<batch, deadline, worker, item, nextItem, itemDeadline, saved, outcomes,
                   answer, reported>>

\* The browser is closed; or did not close in a minute, which is an error of the
\* batch whatever it has saved.
EndBatch ==
    /\ batch = "closing"
    /\ \/ Ends("error")
       \/ browser = "closed" /\ Ends("report")
    /\ UNCHANGED <<browser, worker, item, nextItem, itemDeadline, page, saved, outcomes>>

-----------------------------------------------------------------------------
(* A worker and its captures.                                              *)

TakeItem(w) ==
    /\ batch = "working" /\ worker[w] = "next"
    /\ \/ /\ deadline # "armed" \/ nextItem > Items
          /\ worker' = [worker EXCEPT ![w] = "gone"]
          /\ UNCHANGED <<item, nextItem, itemDeadline, page>>
       \/ /\ deadline = "armed" /\ nextItem <= Items
          /\ worker' = [worker EXCEPT ![w] = "capture"]
          /\ item' = [item EXCEPT ![w] = nextItem]
          /\ nextItem' = nextItem + 1
          /\ itemDeadline' = [itemDeadline EXCEPT ![nextItem] = "armed"]
          /\ page' = [page EXCEPT ![nextItem] = "opening"]
    /\ UNCHANGED <<batch, deadline, browser, saved, outcomes, answer, reported>>

\* The page may open when its deadline, or the one of the batch, is over.
OpenPage(i) ==
    /\ page[i] = "opening"
    /\ page' = [page EXCEPT ![i] = IF browser = "open" THEN "open" ELSE "closed"]
    /\ UNCHANGED <<batch, deadline, browser, worker, item, nextItem, itemDeadline, saved,
                   outcomes, answer, reported>>

\* onPage closes its page when its work ends, or after a minute.
ClosePage(i) ==
    /\ page[i] = "open"
    /\ page' = [page EXCEPT ![i] = "closed"]
    /\ UNCHANGED <<batch, deadline, browser, worker, item, nextItem, itemDeadline, saved,
                   outcomes, answer, reported>>

MayCommitLate == TRUE

\* batchScope.assertLive
MayCommit == deadline = "armed"

Settle(w) ==
    /\ worker[w] = "capture" /\ itemDeadline[item[w]] = "armed"
    /\ worker' = [worker EXCEPT ![w] = "next"]
    /\ itemDeadline' = [itemDeadline EXCEPT ![item[w]] = "settled"]
    /\ UNCHANGED <<batch, deadline, browser, item, nextItem, page, answer, reported>>

\* The capture is there: both deadlines are looked at, and image and record are
\* written without a pause.
Commit(w) ==
    /\ Settle(w)
    /\ page[item[w]] = "closed" /\ MayCommit
    /\ saved' = saved \cup {item[w]}
    /\ outcomes' = outcomes \cup {item[w]}

\* The capture fails, or the record, and then the image is put back.
CaptureFails(w) == Settle(w) /\ UNCHANGED <<saved, outcomes>>

ExpireItem(w) ==
    /\ worker[w] = "capture" /\ itemDeadline[item[w]] = "armed"
    /\ itemDeadline' = [itemDeadline EXCEPT ![item[w]] = "expired"]
    /\ UNCHANGED <<batch, deadline, browser, worker, item, nextItem, page, saved, outcomes,
                   answer, reported>>

LeaveItem(w) ==
    /\ worker[w] = "capture" /\ itemDeadline[item[w]] = "expired"
    /\ worker' = [worker EXCEPT ![w] = "next"]
    /\ itemDeadline' = [itemDeadline EXCEPT ![item[w]] = "settled"]
    /\ UNCHANGED <<batch, deadline, browser, item, nextItem, page, saved, outcomes, answer,
                   reported>>

BatchNext ==
    \/ StartBatch \/ LaunchBrowser \/ LaunchFails \/ ExpireBatch \/ AnswerLate
    \/ WorkersDone \/ BrowserCloses \/ EndBatch
    \/ \E w \in Workers :
        \/ TakeItem(w) \/ Commit(w) \/ CaptureFails(w) \/ ExpireItem(w) \/ LeaveItem(w)
    \/ \E i \in 1..Items : OpenPage(i) \/ ClosePage(i)

\* Only the batch's own timers.
BatchFairness == WF_batchVars(ExpireBatch) /\ WF_batchVars(AnswerLate)

BatchSpec == BatchInit /\ [][BatchNext]_batchVars /\ BatchFairness

-----------------------------------------------------------------------------
(* Properties.                                                             *)

\* The report names the references that are saved, and stays true: a capture that
\* returns after the deadline saves nothing (addRefsBatch).
BatchReportIsTrue == answer = "report" => reported = saved

\* No browser is open outside the budget of the batch, also when its launch ends
\* after the deadline has fired (withAcquisitionDeadline, own).
BrowserOnlyInBudget == browser = "open" => deadline = "armed"

\* A batch is answered, whatever hangs: the launch, a page, or a close.
BatchAnswers == batch = "launching" ~> answer # "none"

=============================================================================
