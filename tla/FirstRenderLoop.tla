--------------------------- MODULE FirstRenderLoop ---------------------------
(***************************************************************************)
(* The first-render repair loop of one project (core/design, first-render). *)
(*                                                                         *)
(*   check    captures the page view after view, checkpoints its source,   *)
(*            appends an iteration to the route's history and replaces the *)
(*            report;                                                      *)
(*   review   sends the evidence to an isolated reviewer, waits without    *)
(*            the lock, and records the verdict only if the evidence is    *)
(*            still the same;                                              *)
(*   restore  writes an iteration's checkpoint back over the source.       *)
(*                                                                         *)
(* Commands run concurrently, the maker edits the source and the feedback  *)
(* at any time and publishes routes, and a command may be killed between   *)
(* any two writes.  A page and a checkpoint are known by the source they   *)
(* were made from, a report by what it binds and by the pages its captures *)
(* show, a review by its place in `reviews`, and decision follows from     *)
(* findings: a review retains iff it has none.                             *)
(***************************************************************************)
EXTENDS ProjectLock, Sequences, FiniteSets, FiniteSetsExt

CONSTANTS
    Routes,         \* published routes, by digest
    Studio,         \* the routes of a new page, reviewed once
    FirstRoute,     \* the route published first
    Files,          \* source files below the route's allowed paths
    Contents,       \* contents of a source file
    Start,          \* the content of every file at first
    Feedbacks,      \* feedback and references a review also binds
    Findings,       \* finding ids
    Torn,           \* content of a file whose write did not finish
    MaxIterations,  \* bounds: iterations of a route,
    MaxReviews,     \*         reviews,
    MaxEdits,       \*         changes by the maker,
    MaxRestores,    \*         restores under way and routes restored,
    MaxCrashes      \*         and kills

ASSUME FirstRenderAssumption ==
    /\ Studio \subseteq Routes /\ FirstRoute \in Routes
    /\ Start \in Contents /\ Torn \notin Contents
    /\ Torn \notin Nat /\ None \notin Nat
    /\ None \notin [Files -> Contents \cup {Torn}]
    /\ {MaxIterations, MaxReviews, MaxEdits, MaxRestores, MaxCrashes} \subseteq Nat

VARIABLES
    source,     \* source[f], edited by the maker and by restore
    built,      \* the source the build directory was made from, None for a page
                \* that is served from the source itself
    route,      \* the published route
    feedback,   \* the feedback and references of the project
    report,     \* .omd/first-render-critic.json: None or a report
    history,    \* history[r]: the iterations of route r
    reviews,    \* .omd/first-render/reviews: every review record
    review,     \* .omd/first-render/review.json: 0, Torn or a review
    receipt,    \* receipt[r]: the iteration last restored of route r, or 0
    job,        \* job[p]: the command p is running
    verdict,    \* the verdict the last step acted on, and what on, or None
    turns,      \* history: turns[p] changes of the page while p captures it
    undone,     \* history: the reports captured across two changes or more
    edits,      \* changes made by the maker
    edited,     \* the maker changed the source since a restore took the lock
    crashes

project == <<source, built, route, feedback>>
evidence == <<report, history, reviews, review, receipt>>
watch == <<turns, undone>>
bounds == <<edits, edited, crashes>>
vars == <<lockHolder, project, evidence, job, verdict, watch, bounds>>

Sources == [Files -> Contents \cup {Torn}]
ReviewIds == 1..MaxReviews

\* What a measurement binds: the digests of the route, the source and the served
\* tree.  A report adds the captures, each the page of its own moment.
Bindings == [route: Routes, source: Sources, page: Sources]
Reports == [bound: Bindings, shown: SUBSET Sources]
Iteration == [checkpoint: Sources, report: Reports, review: 0..MaxReviews]

\* What the packet for the reviewer binds.
Packets == [route: Routes, report: Reports, feedback: Feedbacks,
            previous: 0..MaxReviews, against: Reports \cup {None},
            prior: SUBSET Findings]

ReviewRecord == [packet: Packets, findings: SUBSET Findings]

Idle == [at |-> "idle"]
CheckJob == [at: {"measure"}, route: Routes, source: Sources]
              \cup [at: {"capture", "append", "report"}, route: Routes,
                    source: Sources, report: Reports]
ReviewJob == [at: {"judging"}, packet: Packets]
               \cup [at: {"publish"}, packet: Packets, id: ReviewIds]
RestoreJob == [at: {"planned", "writing"}, route: Routes, seen: Seq(Iteration),
               target: 1..MaxIterations, todo: SUBSET Files]

TypeOK ==
    /\ lockHolder \in Procs \cup {None}
    /\ source \in Sources /\ built \in Sources \cup {None}
    /\ route \in Routes /\ feedback \in Feedbacks
    /\ report \in Reports \cup {None}
    /\ history \in [Routes -> Seq(Iteration)]
    /\ reviews \in Seq(ReviewRecord) /\ Len(reviews) <= MaxReviews
    /\ review \in 0..MaxReviews \cup {Torn}
    /\ receipt \in [Routes -> 0..MaxIterations]
    /\ job \in [Procs -> {Idle} \cup CheckJob \cup ReviewJob \cup RestoreJob]
    /\ verdict \in [review: ReviewIds, bound: Bindings, feedback: Feedbacks]
                      \cup {None}
    /\ turns \in [Procs -> 0..2] /\ undone \subseteq Reports
    /\ edits \in 0..MaxEdits /\ edited \in BOOLEAN /\ crashes \in 0..MaxCrashes

Init ==
    /\ LockInit
    /\ source = [f \in Files |-> Start]
    /\ built \in {None, source}
    /\ route = FirstRoute /\ feedback \in Feedbacks
    /\ report = None
    /\ history = [r \in Routes |-> <<>>]
    /\ reviews = <<>> /\ review = 0
    /\ receipt = [r \in Routes |-> 0]
    /\ job = [p \in Procs |-> Idle]
    /\ verdict = None
    /\ turns = [p \in Procs |-> 0] /\ undone = {}
    /\ edits = 0 /\ edited = FALSE /\ crashes = 0

Become(p, j) == job' = [job EXCEPT ![p] = j]
Move(p, to) == job' = [job EXCEPT ![p].at = to]

\* The page a browser is served: the source itself, or the last build of it.
Page == IF built = None THEN source ELSE built

\* inputBinding.
Binding == [route |-> route, source |-> source, page |-> Page]

\* A change of the page is noted for every measurement under way.
Capturing(j) == j # Idle /\ j.at = "capture"

Turn ==
    turns' = [p \in Procs |-> IF ~Capturing(job'[p]) THEN 0
                              ELSE IF Page' # Page /\ turns[p] < 2 THEN turns[p] + 1
                              ELSE turns[p]]

LastOf(S) == IF S = {} THEN 0 ELSE Max(S)

-----------------------------------------------------------------------------
(* The maker.                                                              *)

Change == edits < MaxEdits /\ edits' = edits + 1

Edit(f, c) ==
    /\ Change
    /\ c # source[f]
    /\ source' = [source EXCEPT ![f] = c]
    /\ edited' = TRUE
    /\ verdict' = None
    /\ UNCHANGED <<lockHolder, built, route, feedback, evidence, job, undone, crashes>>
    /\ Turn

\* A page kept in build or dist is no source: it lags until the maker builds again.
Build ==
    /\ Change
    /\ built \notin {None, source}
    /\ built' = source
    /\ verdict' = None
    /\ UNCHANGED <<lockHolder, source, route, feedback, evidence, job, undone, edited,
                   crashes>>
    /\ Turn

\* Feedback and consulted references are published without the project lock.
GiveFeedback(v) ==
    /\ Change
    /\ v # feedback
    /\ feedback' = v
    /\ verdict' = None
    /\ UNCHANGED <<lockHolder, source, built, route, evidence, job, watch, edited,
                   crashes>>

\* publishAdaptiveRoute swaps the route pointer under the lock.
PublishRoute(r) ==
    /\ Change
    /\ lockHolder = None
    /\ r # route
    /\ route' = r
    /\ verdict' = None
    /\ UNCHANGED <<lockHolder, source, built, feedback, evidence, job, watch, edited,
                   crashes>>

-----------------------------------------------------------------------------
(* publishFirstRenderCheck.                                                *)

\* The context and the allowed source are read; no lock is held.
BeginCheck(p) ==
    /\ job[p] = Idle
    /\ Become(p, [at |-> "measure", route |-> route, source |-> source])
    /\ verdict' = None
    /\ UNCHANGED <<lockHolder, project, evidence, watch, bounds>>

\* measureProject: the digests of route, source and served tree, before the browser.
BeginMeasure(p) ==
    /\ job[p].at = "measure"
    /\ Become(p, [at |-> "capture", route |-> job[p].route, source |-> job[p].source,
                  report |-> [bound |-> Binding, shown |-> {}]])
    /\ turns' = [turns EXCEPT ![p] = 0]
    /\ verdict' = None
    /\ UNCHANGED <<lockHolder, project, evidence, undone, bounds>>

\* One view: the served tree is read whole, shown, and compared with itself once
\* more.  The views follow each other for minutes.
Capture(p) ==
    /\ job[p].at = "capture"
    /\ job' = [job EXCEPT ![p].report.shown = @ \cup {Page}]
    /\ verdict' = None
    /\ UNCHANGED <<lockHolder, project, evidence, watch, bounds>>

\* Mutant of Unchanged: the measurement is not loaded again.
UnchangedSnapshot(j) == j.route = route /\ j.source = source

\* The digests, the context and the snapshot must be those of before: of what
\* changed and changed back they tell nothing.
Unchanged(j) == j.route = route /\ j.source = source /\ j.report.bound = Binding

\* The digests are compared after the last view, as the measurement is published and
\* once more under the lock of the check, together with context and snapshot.  The
\* last comparison decides: the earlier ones may fall right before it.
TakeCheck(p) ==
    /\ job[p].at = "capture" /\ job[p].report.shown # {}
    /\ Acquire(p)
    /\ Unchanged(job[p])
    /\ Move(p, "append")
    /\ undone' = IF turns[p] = 2 THEN undone \cup {job[p].report} ELSE undone
    /\ turns' = [turns EXCEPT ![p] = 0]
    /\ verdict' = None
    /\ UNCHANGED <<project, evidence, bounds>>

\* "changed during capture": a comparison fails, or a view saw the tree change.
RefuseCheck(p) ==
    /\ job[p].at = "capture"
    /\ Become(p, Idle)
    /\ turns' = [turns EXCEPT ![p] = 0]
    /\ verdict' = None
    /\ UNCHANGED <<lockHolder, project, evidence, undone, bounds>>

\* Recapturing unchanged source and pixels is the same iteration.
SameIteration(h, c) ==
    h # <<>> /\ h[Len(h)].checkpoint = c.checkpoint /\ h[Len(h)].report = c.report

\* Captures, report and checkpoint go to content-addressed files and the
\* iteration to the history, replaced atomically; the snapshot is compared once more.
AppendIteration(p) ==
    LET j == job[p]
        c == [checkpoint |-> j.source, report |-> j.report, review |-> 0]
        h == history[j.route]
    IN  /\ j.at = "append"
        /\ IF source = j.source
           THEN /\ Len(h) < MaxIterations \/ SameIteration(h, c)
                /\ history' = [history EXCEPT ![j.route] =
                                  IF SameIteration(h, c) THEN h ELSE Append(h, c)]
                /\ Move(p, "report")
                /\ UNCHANGED lockHolder
           ELSE /\ LetGo(p)
                /\ Become(p, Idle)
                /\ UNCHANGED history
        /\ verdict' = None
        /\ UNCHANGED <<project, report, reviews, review, receipt, watch, bounds>>

ReplaceReport(p) ==
    /\ job[p].at = "report"
    /\ report' = job[p].report
    /\ LetGo(p)
    /\ Become(p, Idle)
    /\ verdict' = None
    /\ UNCHANGED <<project, history, reviews, review, receipt, watch, bounds>>

-----------------------------------------------------------------------------
(* runFirstRenderReview and requireRetainedFirstRenderReview.              *)

Retained(k) == reviews[k].findings = {}

\* checkFirstRenderEvidence: the report is of this route, source and build.
ReportIsCurrent == report # None /\ report.bound = Binding

\* The latest iteration of the current report, 0 when there is none.
Current == LastOf({i \in DOMAIN history[route] : history[route][i].report = report})

\* readCurrentFirstRenderReview: review.json if it is of this route.
CurrentReview ==
    IF review \in {0, Torn} \/ reviews[review].packet.route # route THEN 0 ELSE review

\* Mutant of Criteria: the findings of the previous review are not carried over.
NoCriteria(previous) == {}

Criteria(previous) == IF previous = 0 THEN {} ELSE reviews[previous].findings

\* firstRenderReviewPacket; the previous iteration is the one before the current.
Packet(previous) ==
    [route |-> route, report |-> report, feedback |-> feedback,
     previous |-> previous,
     against |-> IF Current < 2 THEN None ELSE history[route][Current - 1].report,
     prior |-> Criteria(previous)]

Reviewed(h) == {i \in DOMAIN h : h[i].review # 0}

\* A verdict already given to this report and context is returned again, and a
\* new page's only review is returned whatever the report is now.
Reusable ==
    /\ CurrentReview # 0 /\ Current # 0
    /\ reviews[CurrentReview].packet.report = report
    /\ reviews[CurrentReview].packet.feedback = feedback
    /\ history[route][Current].review = CurrentReview

\* Mutant of Spent: the review is spent on its own report only.
SpentOnReport ==
    /\ route \in Studio /\ Current # 0 /\ review # 0
    /\ history[route][Current].review # 0

Spent == route \in Studio /\ Reviewed(history[route]) # {} /\ review # 0

ActOn(k) ==
    verdict' = [review |-> k, bound |-> Binding, feedback |-> feedback]

\* A torn review.json is parsed first of all, and fails the command.
Readable == review # Torn /\ ReportIsCurrent

ReturnReview(p) ==
    /\ job[p] = Idle
    /\ Readable
    /\ Reusable \/ Spent
    /\ ActOn(review)
    /\ UNCHANGED <<lockHolder, project, evidence, job, watch, bounds>>

AskReviewer(p) ==
    /\ job[p] = Idle
    /\ Readable
    /\ ~Reusable /\ ~Spent
    /\ Current # 0
    /\ Len(reviews) < MaxReviews
    /\ Become(p, [at |-> "judging", packet |-> Packet(CurrentReview)])
    /\ verdict' = None
    /\ UNCHANGED <<lockHolder, project, evidence, watch, bounds>>

\* Mutant of SameEvidence: only the report is compared after the review.
SameReport(packet) == Readable /\ report = packet.report

\* The packet is derived again under the lock.
SameEvidence(packet) == Readable /\ Current # 0 /\ Packet(CurrentReview) = packet

\* recordFirstRenderIterationReview: the last unreviewed iteration of the report,
\* else a copy of the latest one if that is of this report, else a refusal (0).
Slot(h, s) ==
    LET open == {i \in DOMAIN h : h[i].report = s /\ h[i].review = 0}
    IN  IF open # {} THEN Max(open)
        ELSE IF h # <<>> /\ h[Len(h)].report = s THEN Len(h) + 1
        ELSE 0

\* Mutant of Record: the latest iteration is judged, whatever its report is.
RecordOnLatest(h, s, k) == [h EXCEPT ![Len(h)].review = k]

Record(h, s, k) ==
    IF Slot(h, s) > Len(h) THEN Append(h, [h[Len(h)] EXCEPT !.review = k])
    ELSE [h EXCEPT ![Slot(h, s)].review = k]

\* parseFirstRenderReview accepts any findings: a prior one is kept or resolved, and
\* those on a page that was retained before are questioned once, in the reviewer's
\* session, and stand if the reviewer keeps them.
TakeReview(p, findings) ==
    LET j == job[p]
        h == history[j.packet.route]
        k == Len(reviews) + 1
        slot == Slot(h, j.packet.report)
    IN  /\ j.at = "judging"
        /\ Acquire(p)
        /\ SameEvidence(j.packet)
        /\ slot \in 1..MaxIterations
        /\ k <= MaxReviews
        /\ reviews' = Append(reviews, [packet |-> j.packet, findings |-> findings])
        /\ history' = [history EXCEPT ![j.packet.route] = Record(@, j.packet.report, k)]
        /\ Become(p, [at |-> "publish", packet |-> j.packet, id |-> k])
        /\ ActOn(k)
        /\ UNCHANGED <<project, report, review, receipt, watch, bounds>>

RefuseReview(p) ==
    /\ job[p].at = "judging"
    /\ lockHolder = None
    /\ ~(/\ SameEvidence(job[p].packet)
         /\ Slot(history[job[p].packet.route], job[p].packet.report) # 0)
    /\ Become(p, Idle)
    /\ verdict' = None
    /\ UNCHANGED <<lockHolder, project, evidence, watch, bounds>>

\* writer.write(review.json): truncated and written in place.
PublishReview(p) ==
    /\ job[p].at = "publish"
    /\ review' = job[p].id
    /\ LetGo(p)
    /\ Become(p, Idle)
    /\ verdict' = None
    /\ UNCHANGED <<project, report, history, reviews, receipt, watch, bounds>>

\* requireRetainedFirstRenderReview: the packet is derived again, from the
\* review that preceded this one.
RetainStands ==
    /\ review \notin {0, Torn}
    /\ Retained(review)
    /\ ReportIsCurrent /\ Current # 0
    /\ Packet(reviews[review].packet.previous) = reviews[review].packet

AcceptRetained(p) ==
    /\ job[p] = Idle
    /\ RetainStands
    /\ ActOn(review)
    /\ UNCHANGED <<lockHolder, project, evidence, job, watch, bounds>>

-----------------------------------------------------------------------------
(* restoreFirstRenderIteration.                                            *)

Differing(checkpoint) == {f \in Files : source[f] # checkpoint[f]}

\* The history and the plan are made before the lock; the target is the best
\* iteration or the one named by --iteration.
BeginRestore(p, i) ==
    /\ job[p] = Idle
    /\ i \in DOMAIN history[route]
    /\ Cardinality({r \in Routes : receipt[r] # 0})
         + Cardinality({q \in Procs : job[q] # Idle /\ job[q].at \in {"planned", "writing"}})
           < MaxRestores
    /\ Become(p, [at |-> "planned", route |-> route, seen |-> history[route], target |-> i,
                  todo |-> Differing(history[route][i].checkpoint)])
    /\ verdict' = None
    /\ UNCHANGED <<lockHolder, project, evidence, watch, bounds>>

\* Mutant of SamePlan: the plan made before the lock is carried out.
SameHistory(j) == history[j.route] = j.seen

SamePlan(j) ==
    /\ history[j.route] = j.seen
    /\ Differing(j.seen[j.target].checkpoint) = j.todo

TakeRestore(p) ==
    /\ job[p].at = "planned"
    /\ Acquire(p)
    /\ SamePlan(job[p])
    /\ Move(p, "writing")
    /\ edited' = FALSE
    /\ verdict' = None
    /\ UNCHANGED <<project, evidence, watch, edits, crashes>>

RefuseRestore(p) ==
    /\ job[p].at = "planned"
    /\ lockHolder = None
    /\ ~SamePlan(job[p])
    /\ Become(p, Idle)
    /\ verdict' = None
    /\ UNCHANGED <<lockHolder, project, evidence, watch, bounds>>

RestoreFile(p, f) ==
    LET j == job[p] IN
    /\ j.at = "writing" /\ f \in j.todo
    /\ source' = [source EXCEPT ![f] = j.seen[j.target].checkpoint[f]]
    /\ job' = [job EXCEPT ![p].todo = @ \ {f}]
    /\ verdict' = None
    /\ UNCHANGED <<lockHolder, built, route, feedback, evidence, undone, bounds>>
    /\ Turn

WriteReceipt(p) ==
    LET j == job[p] IN
    /\ j.at = "writing" /\ j.todo = {}
    /\ receipt' = [receipt EXCEPT ![j.route] = j.target]
    /\ LetGo(p)
    /\ Become(p, Idle)
    /\ verdict' = None
    /\ UNCHANGED <<project, report, history, reviews, review, watch, bounds>>

-----------------------------------------------------------------------------
(* A kill: the lock passes to whoever recovers it, and a file being written  *)
(* in place may stay torn.                                                 *)

TornSources(p) ==
    IF job[p].at = "writing" THEN {[source EXCEPT ![f] = Torn] : f \in job[p].todo} ELSE {}

Crash(p) ==
    /\ job[p] # Idle
    /\ crashes < MaxCrashes
    /\ crashes' = crashes + 1
    /\ source' \in {source} \cup TornSources(p)
    /\ review' \in {review} \cup (IF job[p].at = "publish" THEN {Torn} ELSE {})
    /\ lockHolder' = IF lockHolder = p THEN None ELSE lockHolder
    /\ Become(p, Idle)
    /\ verdict' = None
    /\ UNCHANGED <<built, route, feedback, report, history, reviews, receipt, undone,
                   edits, edited>>
    /\ Turn

Maker ==
    \/ \E f \in Files, c \in Contents : Edit(f, c)
    \/ Build
    \/ \E v \in Feedbacks : GiveFeedback(v)
    \/ \E r \in Routes : PublishRoute(r)

Check(p) ==
    \/ BeginCheck(p) \/ BeginMeasure(p) \/ Capture(p) \/ TakeCheck(p) \/ RefuseCheck(p)
    \/ AppendIteration(p) \/ ReplaceReport(p)

Review(p) ==
    \/ ReturnReview(p) \/ AskReviewer(p) \/ RefuseReview(p) \/ PublishReview(p)
    \/ AcceptRetained(p)
    \/ \E findings \in SUBSET Findings : TakeReview(p, findings)

Restore(p) ==
    \/ \E i \in 1..MaxIterations : BeginRestore(p, i)
    \/ TakeRestore(p) \/ RefuseRestore(p) \/ WriteReceipt(p)
    \/ \E f \in Files : RestoreFile(p, f)

Next == Maker \/ \E p \in Procs : Check(p) \/ Review(p) \/ Restore(p) \/ Crash(p)

Spec == Init /\ [][Next]_vars

-----------------------------------------------------------------------------
(* Properties.                                                             *)

\* The pixels a reviewer is shown and the source a restore brings back are of
\* one page, although the maker may edit and build between the snapshot, the views
\* and the lock: an iteration's report binds its checkpoint, and every view shows
\* the page it binds, unless the page was changed and changed back between views.
\* Of a page served from its source that page is the checkpoint; a build is what
\* it was last made from, which no check compares with the source.
CheckpointIsWhatWasMeasured ==
    \A r \in Routes : \A i \in DOMAIN history[r] :
        LET it == history[r][i] IN
        /\ it.report.bound.route = r /\ it.report.bound.source = it.checkpoint
        /\ built = None => it.report.bound.page = it.checkpoint
        /\ it.report.shown = {it.report.bound.page} \/ it.report \in undone

\* A kill between the history and the report leaves no report without its
\* iteration, which would refuse every later review ("checkpoint is missing").
ReportHasIteration ==
    report # None =>
        \E i \in DOMAIN history[report.bound.route] :
            history[report.bound.route][i].report = report

\* A verdict is filed under the iteration whose pixels the reviewer saw, also
\* when a later capture was appended and its report never replaced.
VerdictOnItsIteration ==
    \A r \in Routes : \A i \in Reviewed(history[r]) :
        LET packet == reviews[history[r][i].review].packet
        IN  packet.route = r /\ packet.report = history[r][i].report

\* A verdict a command acts on was given to the route, page and feedback current
\* when it was taken, however long the reviewer took ("evidence changed during
\* review").  A new page's only review answers for later sources too.
VerdictIsCurrent ==
    verdict # None /\ verdict.bound.route \notin Studio =>
        LET packet == reviews[verdict.review].packet
        IN  /\ packet.route = verdict.bound.route /\ packet.report.bound = verdict.bound
            /\ packet.feedback = verdict.feedback

\* Reviews of one route, with no other route's among them.
InARow(j, k) == \A l \in j..k : reviews[l].packet.route = reviews[k].packet.route

\* Two reviewers asked about the same evidence do not both get to judge it.  Only
\* review.json tells them of each other, and a review of another route replaces it;
\* killed between the history and review.json, a command costs one more judgement of
\* what it judged, and no more.
EvidenceJudgedOnce ==
    LET again == {k \in DOMAIN reviews :
                     \E j \in DOMAIN reviews :
                         /\ j < k /\ InARow(j, k)
                         /\ reviews[j].packet = reviews[k].packet}
    IN  Cardinality(again) <= crashes

\* A finding leaves a route only by being resolved: the next review of the route
\* keeps it or had it among the criteria to reconcile.  A kill before review.json is
\* written lets one review forget its predecessor, and the next ones do not.
FindingsAnswered ==
    LET forgetful == {k \in DOMAIN reviews :
                         /\ k > 1 /\ InARow(k - 1, k)
                         /\ ~(reviews[k - 1].findings \subseteq
                                 reviews[k].findings \cup reviews[k].packet.prior)}
    IN  Cardinality(forgetful) <= crashes

\* A new page is reviewed once, by however many concurrent commands, until another
\* route is: each further review in a row has been paid for by a kill.
NewPageReviewedOnce ==
    LET further == {k \in DOMAIN reviews :
                       k > 1 /\ InARow(k - 1, k) /\ reviews[k].packet.route \in Studio}
    IN  Cardinality(further) <= crashes

\* Iterations are appended, and a verdict once recorded is never replaced.
HistoryIsKept ==
    [][\A r \in Routes :
          /\ Len(history'[r]) >= Len(history[r])
          /\ \A i \in DOMAIN history[r] :
                 \/ history'[r][i] = history[r][i]
                 \/ /\ history[r][i].review = 0
                    /\ history'[r][i] = [history[r][i] EXCEPT !.review = history'[r][i].review]
      ]_history

\* A restore that reports success has put the whole checkpoint back, unless the
\* maker edited while it was writing.
RestoreIsWhole ==
    [][\A r \in Routes :
          receipt'[r] # receipt[r] /\ ~edited =>
              source' = history[r][receipt'[r]].checkpoint
      ]_receipt

=============================================================================
