------------------------ MODULE FirstRenderLoopProofs ------------------------
(* Proofs about FirstRenderLoop for every set of commands, routes, files,     *)
(* contents, findings and bounds.                                             *)
EXTENDS FirstRenderLoop, WellFoundedInduction, FiniteSetTheorems, TLAPS

-----------------------------------------------------------------------------
(* The latest iteration with a property, and the place of a verdict.         *)

\* A set of places in a sequence has a latest one.
LEMMA MaxIsMember ==
    ASSUME NEW n \in Nat, NEW S \in SUBSET (1..n), S # {}
    PROVE  Max(S) \in S
<1> DEFINE T == {n - x : x \in S}
<1>1. T \subseteq Nat /\ T # {}
  <2>1. \A x \in S : n - x \in Nat
    OBVIOUS
  <2>2. QED
    BY <2>1
<1>2. \E x \in T : \A y \in T : ~(<<y, x>> \in OpToRel(<, Nat))
  BY <1>1, NatLessThanWellFounded, WFMin
<1>3. PICK x \in T : \A y \in T : ~(y < x)
  BY <1>1, <1>2 DEF OpToRel
<1>4. PICK m \in S : x = n - m
  OBVIOUS
<1>5. \A y \in S : m >= y
  BY <1>3, <1>4
<1>6. QED
  BY <1>5 DEF Max

\* A verdict goes to an unjudged iteration of its report, or behind the latest
\* iteration if that is of its report.
LEMMA SlotIsOfReport ==
    ASSUME NEW h \in Seq(Iteration), NEW s
    PROVE  /\ Slot(h, s) \in 0..(Len(h) + 1)
           /\ Slot(h, s) \in 1..Len(h) =>
                  h[Slot(h, s)].report = s /\ h[Slot(h, s)].review = 0
           /\ Slot(h, s) > Len(h) => Len(h) > 0 /\ h[Len(h)].report = s
<1> DEFINE open == {i \in DOMAIN h : h[i].report = s /\ h[i].review = 0}
<1>1. DOMAIN h = 1..Len(h) /\ Len(h) \in Nat
  OBVIOUS
<1>2. CASE open # {}
  <2>1. Max(open) \in open
    BY <1>1, <1>2, MaxIsMember
  <2>2. Slot(h, s) = Max(open)
    BY <1>2 DEF Slot
  <2>3. QED
    BY <1>1, <2>1, <2>2
<1>3. CASE open = {} /\ h # <<>> /\ h[Len(h)].report = s
  <2>1. Slot(h, s) = Len(h) + 1
    BY <1>3 DEF Slot
  <2>2. QED
    BY <1>1, <1>3, <2>1
<1>4. CASE open = {} /\ ~(h # <<>> /\ h[Len(h)].report = s)
  <2>1. Slot(h, s) = 0
    BY <1>4 DEF Slot
  <2>2. QED
    BY <1>1, <2>1
<1>5. QED
  BY <1>2, <1>3, <1>4

\* Recording a verdict changes one unjudged iteration of its report or appends
\* a judged copy of the latest one.
LEMMA RecordKeeps ==
    ASSUME NEW h \in Seq(Iteration), NEW s, NEW k \in ReviewIds, Slot(h, s) # 0,
           MaxReviews \in Nat
    PROVE  /\ Record(h, s, k) \in Seq(Iteration)
           /\ Len(Record(h, s, k)) \in {Len(h), Len(h) + 1}
           /\ \A i \in DOMAIN h :
                 \/ Record(h, s, k)[i] = h[i]
                 \/ /\ h[i].review = 0 /\ h[i].report = s
                    /\ Record(h, s, k)[i] = [h[i] EXCEPT !.review = k]
           /\ \A i \in DOMAIN Record(h, s, k) \ DOMAIN h :
                 \E l \in DOMAIN h :
                     h[l].report = s /\ Record(h, s, k)[i] = [h[l] EXCEPT !.review = k]
<1> DEFINE i == Slot(h, s)
           g == Record(h, s, k)
<1>0. Len(h) \in Nat /\ DOMAIN h = 1..Len(h)
  OBVIOUS
<1>1. \A j \in DOMAIN h : [h[j] EXCEPT !.review = k] \in Iteration
  <2> SUFFICES ASSUME NEW j \in DOMAIN h PROVE [h[j] EXCEPT !.review = k] \in Iteration
    OBVIOUS
  <2>1. h[j] \in Iteration
    OBVIOUS
  <2>2. k \in 0..MaxReviews
    BY DEF ReviewIds
  <2>3. QED
    BY <2>1, <2>2 DEF Iteration
<1>2. CASE i > Len(h)
  <2>1. Len(h) \in DOMAIN h /\ h[Len(h)].report = s
    BY <1>0, <1>2, SlotIsOfReport
  <2>2. g = Append(h, [h[Len(h)] EXCEPT !.review = k])
    BY <1>2 DEF Record
  <2>3. QED
    BY <1>0, <1>1, <2>1, <2>2
<1>3. CASE ~(i > Len(h))
  <2>1. i \in 1..Len(h) /\ h[i].report = s /\ h[i].review = 0
    BY <1>0, <1>3, SlotIsOfReport
  <2>2. g = [h EXCEPT ![i].review = k]
    BY <1>3 DEF Record
  <2>3. QED
    BY <1>0, <1>1, <2>1, <2>2
<1>4. QED
  BY <1>2, <1>3

-----------------------------------------------------------------------------
(* The inductive invariant.                                                  *)

Jobs == {Idle} \cup CheckJob \cup ReviewJob \cup RestoreJob

\* Reviews are named only once they are recorded.
ReviewsKnown ==
    /\ review \in 0..Len(reviews) \cup {Torn}
    /\ \A r \in Routes : \A i \in DOMAIN history[r] :
           history[r][i].review \in 0..Len(reviews)

\* The types without those of what is only noted for the properties.
StateOK ==
    /\ lockHolder \in Procs \cup {None}
    /\ source \in Sources /\ built \in Sources \cup {None}
    /\ route \in Routes /\ feedback \in Feedbacks
    /\ report \in Reports \cup {None}
    /\ history \in [Routes -> Seq(Iteration)]
    /\ reviews \in Seq(ReviewRecord) /\ Len(reviews) <= MaxReviews
    /\ review \in 0..MaxReviews \cup {Torn}
    /\ receipt \in [Routes -> 0..MaxIterations]
    /\ job \in [Procs -> {Idle} \cup CheckJob \cup ReviewJob \cup RestoreJob]
    /\ verdict \in [review: ReviewIds, bound: Bindings, feedback: Feedbacks]
                      \cup {None}
    /\ edits \in 0..MaxEdits /\ edited \in BOOLEAN /\ crashes \in 0..MaxCrashes

\* What a report binds is the source, and of a page served from it the page too.
BindsPage(j) == built = None => j.report.bound.page = j.report.bound.source

\* A check that has the lock binds the route and the source it will checkpoint, a
\* review is published once recorded, and a restore goes back to an iteration it has
\* seen.
JobReady(j) ==
    /\ j.at \in {"capture", "append", "report"} => BindsPage(j)
    /\ j.at \in {"append", "report"} =>
           j.report.bound.route = j.route /\ j.report.bound.source = j.source
    /\ j.at = "publish" => j.id \in 1..Len(reviews)
    /\ j.at \in {"planned", "writing"} => j.target \in DOMAIN j.seen

JobsReady == \A p \in Procs : JobReady(job[p])

LoopTyped == StateOK /\ ReviewsKnown /\ JobsReady

\* Between the first write of a command and its last it has the lock.
HeldByWriter ==
    \A p \in Procs :
        job[p].at \in {"append", "report", "publish", "writing"} => lockHolder = p

HasReport(h, s) == \E i \in DOMAIN h : h[i].report = s

\* A check about to replace the report has its iteration in the history.
ReportReady ==
    \A p \in Procs :
        job[p].at = "report" => HasReport(history[job[p].route], job[p].report)

\* Every file a restore no longer has to write has the checkpoint's content,
\* unless the maker edited since the restore took the lock.
RestoreUnderWay ==
    \A p \in Procs :
        job[p].at = "writing" =>
            /\ history[job[p].route] = job[p].seen
            /\ ~edited =>
                   \A f \in Files \ job[p].todo :
                       source[f] = job[p].seen[job[p].target].checkpoint[f]

\* An iteration binds its checkpoint, as the page too when it is served from it.
HistoryBound ==
    \A r \in Routes : \A i \in DOMAIN history[r] :
        /\ history[r][i].report.bound.route = r
        /\ history[r][i].report.bound.source = history[r][i].checkpoint
        /\ BindsPage(history[r][i])

LoopInv ==
    /\ HeldByWriter
    /\ ReportReady
    /\ RestoreUnderWay
    /\ HistoryBound
    /\ ReportHasIteration
    /\ VerdictOnItsIteration

-----------------------------------------------------------------------------
(* Types.                                                                    *)

\* What a command does tells which job it has.
LEMMA JobKinds ==
    ASSUME NEW j \in Jobs
    PROVE  /\ j.at \in {"measure", "capture", "append", "report"} => j \in CheckJob
           /\ j.at \in {"judging", "publish"} => j \in ReviewJob
           /\ j.at \in {"planned", "writing"} => j \in RestoreJob
           /\ j = Idle => j.at = "idle"
BY DEF Jobs, Idle, CheckJob, ReviewJob, RestoreJob

\* What is measured is well formed.
LEMMA BindingTyped == StateOK => Page \in Sources /\ Binding \in Bindings
  BY DEF StateOK, Page, Binding, Bindings

\* The current iteration is one of the published route and of the report.
LEMMA CurrentIsIteration ==
    ASSUME StateOK, report # None
    PROVE  /\ Current \in 0..Len(history[route])
           /\ Current # 0 => history[route][Current].report = report
<1> DEFINE S == {i \in DOMAIN history[route] : history[route][i].report = report}
<1>1. history[route] \in Seq(Iteration)
  BY DEF StateOK
<1>2. Len(history[route]) \in Nat /\ DOMAIN history[route] = 1..Len(history[route])
  BY <1>1
<1>3. Current = LastOf(S)
  BY DEF Current
<1>4. CASE S = {}
  BY <1>2, <1>3, <1>4 DEF LastOf
<1>5. CASE S # {}
  <2>1. Max(S) \in S
    BY <1>2, <1>5, MaxIsMember
  <2>2. QED
    BY <1>2, <1>3, <1>5, <2>1 DEF LastOf
<1>6. QED
  BY <1>4, <1>5

\* The review of this route that a command reads is a recorded one.
LEMMA CurrentReviewIsKnown ==
    ASSUME StateOK, ReviewsKnown
    PROVE  /\ CurrentReview \in 0..Len(reviews)
           /\ CurrentReview # 0 =>
                  CurrentReview = review /\ reviews[review].packet.route = route
<1>1. Len(reviews) \in Nat
  BY DEF StateOK
<1>2. CASE review \in {0, Torn} \/ reviews[review].packet.route # route
  BY <1>1, <1>2 DEF CurrentReview
<1>3. CASE ~(review \in {0, Torn} \/ reviews[review].packet.route # route)
  BY <1>1, <1>3 DEF CurrentReview, ReviewsKnown
<1>4. QED
  BY <1>2, <1>3

\* What a reviewer is given is well formed.
LEMMA PacketIsTyped ==
    ASSUME StateOK, ReviewsKnown, report # None, NEW k \in 0..Len(reviews)
    PROVE  Packet(k) \in Packets
<1>1. Criteria(k) \subseteq Findings
  <2>1. CASE k = 0
    BY <2>1 DEF Criteria
  <2>2. CASE k # 0
    <3>1. reviews \in Seq(ReviewRecord) /\ k \in 1..Len(reviews)
      BY <2>2 DEF StateOK
    <3>2. reviews[k] \in ReviewRecord
      BY <3>1
    <3>3. QED
      BY <2>2, <3>2 DEF Criteria, ReviewRecord
  <2>3. QED
    BY <2>1, <2>2
<1>2. (IF Current < 2 THEN None ELSE history[route][Current - 1].report)
          \in Reports \cup {None}
  <2>1. CASE Current < 2
    BY <2>1
  <2>2. CASE ~(Current < 2)
    <3>1. history[route] \in Seq(Iteration) /\ Current \in 0..Len(history[route])
      BY CurrentIsIteration DEF StateOK
    <3>2. Current - 1 \in 1..Len(history[route])
      BY <2>2, <3>1
    <3>3. history[route][Current - 1] \in Iteration
      BY <3>1, <3>2
    <3>4. QED
      BY <2>2, <3>3 DEF Iteration
  <2>3. QED
    BY <2>1, <2>2
<1>3. k \in 0..MaxReviews
  BY FirstRenderAssumption DEF StateOK
<1>4. route \in Routes /\ report \in Reports /\ feedback \in Feedbacks
  BY DEF StateOK
<1>5. QED
  BY <1>1, <1>2, <1>3, <1>4 DEF Packet, Packets

\* The types hold at first, and after every step of the maker, a check, a review,
\* a restore and a kill.
LEMMA LoopTypedInit == Init => LoopTyped
<1> SUFFICES ASSUME Init PROVE LoopTyped
  OBVIOUS
<1> USE FirstRenderAssumption DEF Init, LockInit
<1>1. source \in Sources
  BY DEF Sources
<1>2. history \in [Routes -> Seq(Iteration)]
  OBVIOUS
<1>3. job \in [Procs -> {Idle} \cup CheckJob \cup ReviewJob \cup RestoreJob]
  OBVIOUS
<1>4. StateOK
  <2>1. /\ MaxReviews \in Nat /\ MaxEdits \in Nat /\ MaxCrashes \in Nat
    OBVIOUS
  <2>2. reviews \in Seq(ReviewRecord) /\ Len(reviews) = 0
    OBVIOUS
  <2>3. edits \in 0..MaxEdits /\ crashes \in 0..MaxCrashes /\ review \in 0..MaxReviews
    BY <2>1
  <2>4. receipt \in [Routes -> 0..MaxIterations]
    OBVIOUS
  <2>5. /\ lockHolder = None /\ route \in Routes /\ feedback \in Feedbacks
        /\ built \in Sources \cup {None}
        /\ report = None /\ verdict = None /\ edited = FALSE
    BY <1>1
  <2>6. Len(reviews) <= MaxReviews
    BY <2>1, <2>2
  <2> HIDE DEF Init
  <2>7. QED
    BY <1>1, <1>2, <1>3, <2>2, <2>3, <2>4, <2>5, <2>6 DEF StateOK
<1>5. ReviewsKnown
  BY DEF ReviewsKnown
<1>6. JobsReady
  BY DEF JobsReady, JobReady, Idle
<1>7. QED
  BY <1>4, <1>5, <1>6 DEF LoopTyped

\* A page is served from the source or from a build for good.
LEMMA ServedAlike ==
    StateOK /\ Maker => built' \in Sources \cup {None} /\ (built' = None <=> built = None)
<1>1. StateOK => source \in Sources /\ built \in Sources \cup {None} /\ None \notin Sources
  BY FirstRenderAssumption DEF StateOK, Sources
<1>2. QED
  BY <1>1 DEF Maker, Edit, Build, GiveFeedback, PublishRoute

\* The maker.
LEMMA LoopTypedMaker == LoopTyped /\ Maker => LoopTyped'
<1> SUFFICES ASSUME LoopTyped, Maker PROVE LoopTyped'
  OBVIOUS
<1>1. /\ source' \in Sources /\ route' \in Routes /\ feedback' \in Feedbacks
      /\ edits' \in 0..MaxEdits /\ edited' \in BOOLEAN
      /\ verdict' = None
      /\ UNCHANGED <<lockHolder, evidence, job, crashes>>
  <2> USE FirstRenderAssumption DEF LoopTyped, StateOK, Change, Sources
  <2>1. CASE \E f \in Files, c \in Contents : Edit(f, c)
    BY <2>1 DEF Edit
  <2>2. CASE Build
    BY <2>2 DEF Build
  <2>3. CASE \E v \in Feedbacks : GiveFeedback(v)
    BY <2>3 DEF GiveFeedback
  <2>4. CASE \E r \in Routes : PublishRoute(r)
    BY <2>4 DEF PublishRoute
  <2>5. QED
    BY <2>1, <2>2, <2>3, <2>4 DEF Maker
<1>1a. built' \in Sources \cup {None} /\ (built' = None <=> built = None)
  BY ServedAlike DEF LoopTyped
<1>2. StateOK'
  BY <1>1, <1>1a DEF LoopTyped, StateOK, evidence
<1>3. ReviewsKnown' /\ JobsReady'
  BY <1>1, <1>1a DEF LoopTyped, ReviewsKnown, JobsReady, JobReady, BindsPage, evidence
<1>4. QED
  BY <1>2, <1>3 DEF LoopTyped

\* A step that only changes jobs, the lock or the verdict keeps the types.
LEMMA LoopTypedJob ==
    ASSUME LoopTyped, NEW p \in Procs, NEW j \in Jobs,
           job' = [job EXCEPT ![p] = j],
           JobReady(j),
           lockHolder' \in Procs \cup {None},
           verdict' = None,
           edited' \in BOOLEAN,
           UNCHANGED <<project, evidence, edits, crashes>>
    PROVE  LoopTyped'
<1>1. job' \in [Procs -> {Idle} \cup CheckJob \cup ReviewJob \cup RestoreJob]
  BY DEF LoopTyped, StateOK, Jobs
<1>2. StateOK'
  BY <1>1 DEF LoopTyped, StateOK, project, evidence
<1>3. JobsReady'
  <2> SUFFICES ASSUME NEW q \in Procs PROVE JobReady(job[q])'
    BY DEF JobsReady
  <2>1. job'[q] = IF q = p THEN j ELSE job[q]
    BY DEF LoopTyped, StateOK
  <2>2. built' = built /\ reviews' = reviews
    BY DEF project, evidence
  <2>3. QED
    BY <2>1, <2>2 DEF LoopTyped, JobsReady, JobReady, BindsPage
<1>4. ReviewsKnown'
  BY DEF LoopTyped, ReviewsKnown, evidence
<1>5. QED
  BY <1>2, <1>3, <1>4 DEF LoopTyped

\* publishFirstRenderCheck.
LEMMA LoopTypedCheck ==
    ASSUME LoopTyped, NEW p \in Procs, Check(p)
    PROVE  LoopTyped'
<1> USE ProjectLockAssumption
<1>0. job[p] \in Jobs /\ job \in [Procs -> Jobs] /\ source \in Sources /\ route \in Routes
      /\ lockHolder \in Procs \cup {None} /\ edited \in BOOLEAN
  BY DEF LoopTyped, StateOK, Jobs
<1>1. CASE BeginCheck(p)
  <2> DEFINE j == [at |-> "measure", route |-> route, source |-> source]
  <2>1. j \in Jobs
    BY <1>0 DEF Jobs, CheckJob
  <2>2. /\ job' = [job EXCEPT ![p] = j] /\ lockHolder' = lockHolder /\ verdict' = None
        /\ UNCHANGED <<project, evidence, edits, crashes, edited>>
    BY <1>1 DEF BeginCheck, Become, bounds
  <2>3. JobReady(j)
    BY DEF JobReady
  <2>4. QED
    BY <1>0, <2>1, <2>2, <2>3, LoopTypedJob
<1>2. CASE BeginMeasure(p)
  <2> DEFINE rep == [bound |-> Binding, shown |-> {}]
             j == [at |-> "capture", route |-> job[p].route, source |-> job[p].source,
                   report |-> rep]
  <2>1. job[p] \in CheckJob
    BY <1>0, <1>2, JobKinds DEF BeginMeasure
  <2>2. rep \in Reports
    BY BindingTyped DEF LoopTyped, Reports
  <2>3. j \in Jobs /\ JobReady(j)
    BY <2>1, <2>2 DEF Jobs, CheckJob, JobReady, BindsPage, Binding, Page
  <2>4. /\ job' = [job EXCEPT ![p] = j] /\ lockHolder' = lockHolder /\ verdict' = None
        /\ UNCHANGED <<project, evidence, edits, crashes, edited>>
    BY <1>2 DEF BeginMeasure, Become, bounds
  <2>5. QED
    BY <1>0, <2>3, <2>4, LoopTypedJob
<1>2a. CASE Capture(p)
  <2> DEFINE j == [job[p] EXCEPT !.report.shown = @ \cup {Page}]
  <2>1. job[p] \in CheckJob /\ job[p].at = "capture" /\ job[p].report \in Reports
    BY <1>0, <1>2a, JobKinds DEF Capture, CheckJob
  <2>2. /\ j.at = "capture" /\ j.route = job[p].route /\ j.source = job[p].source
        /\ j.report = [job[p].report EXCEPT !.shown = @ \cup {Page}]
        /\ j.report \in Reports /\ j.report.bound = job[p].report.bound
    BY <2>1, BindingTyped DEF CheckJob, Reports, LoopTyped
  <2>3. j \in CheckJob
    BY <2>1, <2>2 DEF CheckJob
  <2>4. JobReady(j)
    BY <2>1, <2>2 DEF LoopTyped, JobsReady, JobReady, BindsPage
  <2>5. /\ job' = [job EXCEPT ![p] = j] /\ lockHolder' = lockHolder /\ verdict' = None
        /\ UNCHANGED <<project, evidence, edits, crashes, edited>>
    BY <1>0, <1>2a DEF Capture, bounds
  <2>6. j \in Jobs
    BY <2>3 DEF Jobs
  <2>7. QED
    BY <1>0, <2>4, <2>5, <2>6, LoopTypedJob
<1>3. CASE TakeCheck(p)
  <2> DEFINE j == [job[p] EXCEPT !.at = "append"]
  <2>1. job[p] \in CheckJob /\ job[p].at = "capture"
    BY <1>0, <1>3, JobKinds DEF TakeCheck
  <2>2. /\ j.at = "append" /\ j.route = job[p].route /\ j.source = job[p].source
        /\ j.report = job[p].report /\ j \in CheckJob
    BY <2>1 DEF CheckJob
  <2>3. JobReady(j)
    BY <1>3, <2>1, <2>2
       DEF LoopTyped, JobsReady, JobReady, BindsPage, TakeCheck, Unchanged, Binding
  <2>4. /\ job' = [job EXCEPT ![p] = j] /\ lockHolder' = p /\ verdict' = None
        /\ UNCHANGED <<project, evidence, edits, crashes, edited>>
    BY <1>3, <1>0 DEF TakeCheck, Move, Acquire, bounds
  <2>5. j \in Jobs
    BY <2>2 DEF Jobs
  <2>6. QED
    BY <1>0, <2>3, <2>4, <2>5, LoopTypedJob
<1>4. CASE RefuseCheck(p)
  <2>1. /\ job' = [job EXCEPT ![p] = Idle] /\ lockHolder' = lockHolder /\ verdict' = None
        /\ UNCHANGED <<project, evidence, edits, crashes, edited>>
    BY <1>4 DEF RefuseCheck, Become, bounds
  <2>2. Idle \in Jobs /\ JobReady(Idle)
    BY DEF Jobs, Idle, JobReady
  <2>3. QED
    BY <1>0, <2>1, <2>2, LoopTypedJob
<1>5. CASE AppendIteration(p)
  <2> DEFINE h == history[job[p].route]
             c == [checkpoint |-> job[p].source, report |-> job[p].report, review |-> 0]
  <2>1. job[p].at = "append"
    BY <1>5 DEF AppendIteration
  <2>2. job[p] \in CheckJob
    BY <1>0, <2>1, JobKinds
  <2>4. c \in Iteration
    BY <2>1, <2>2, FirstRenderAssumption DEF CheckJob, Iteration
  <2>5. CASE source # job[p].source
    <3>1. /\ job' = [job EXCEPT ![p] = Idle] /\ lockHolder' = None /\ verdict' = None
          /\ UNCHANGED <<project, evidence, edits, crashes, edited>>
      BY <1>5, <2>5 DEF AppendIteration, Become, LetGo, bounds, evidence
    <3>2. Idle \in Jobs /\ JobReady(Idle)
      BY DEF Jobs, Idle, JobReady
    <3>3. QED
      BY <1>0, <3>1, <3>2, LoopTypedJob
  <2>6. CASE source = job[p].source
    <3> DEFINE j == [job[p] EXCEPT !.at = "report"]
    <3>1. /\ history' = [history EXCEPT ![job[p].route] =
                            IF SameIteration(h, c) THEN h ELSE Append(h, c)]
          /\ job' = [job EXCEPT ![p] = j]
          /\ verdict' = None
          /\ UNCHANGED <<lockHolder, project, report, reviews, review, receipt, bounds>>
      BY <1>5, <2>6 DEF AppendIteration, Move
    <3>2. h \in Seq(Iteration) /\ job[p].route \in Routes
      BY <2>2 DEF LoopTyped, StateOK, CheckJob
    <3>3. history' \in [Routes -> Seq(Iteration)]
      BY <2>4, <3>1, <3>2 DEF LoopTyped, StateOK
    <3>4. /\ j \in CheckJob /\ j.at = "report" /\ j.route = job[p].route
          /\ j.source = job[p].source /\ j.report = job[p].report
      BY <2>1, <2>2 DEF CheckJob
    <3>5. job' \in [Procs -> {Idle} \cup CheckJob \cup ReviewJob \cup RestoreJob]
      BY <3>1, <3>4 DEF LoopTyped, StateOK
    <3>6. StateOK'
      BY <3>1, <3>3, <3>5 DEF LoopTyped, StateOK, project, bounds
    <3>7. \A r \in Routes : \A i \in DOMAIN history'[r] :
              history'[r][i].review \in 0..Len(reviews)
      <4> SUFFICES ASSUME NEW r \in Routes, NEW i \in DOMAIN history'[r]
                   PROVE  history'[r][i].review \in 0..Len(reviews)
        OBVIOUS
      <4>1. reviews \in Seq(ReviewRecord) /\ 0 \in 0..Len(reviews)
        BY DEF LoopTyped, StateOK
      <4>2. CASE r # job[p].route \/ SameIteration(h, c)
        BY <3>1, <3>2, <4>2 DEF LoopTyped, StateOK, ReviewsKnown
      <4>3. CASE r = job[p].route /\ ~SameIteration(h, c)
        <5>1. history'[r] = Append(h, c)
          BY <3>1, <3>2, <4>3 DEF LoopTyped, StateOK
        <5>2. CASE i \in DOMAIN h
          BY <2>4, <3>2, <4>3, <5>1, <5>2 DEF LoopTyped, ReviewsKnown
        <5>3. CASE i \notin DOMAIN h
          <6>1. history'[r][i] = c
            BY <2>4, <3>2, <5>1, <5>3
          <6>2. QED
            BY <4>1, <6>1
        <5>4. QED
          BY <5>2, <5>3
      <4>4. QED
        BY <4>2, <4>3
    <3>8. ReviewsKnown'
      BY <3>1, <3>7 DEF LoopTyped, ReviewsKnown
    <3>9. JobsReady'
      <4>1. JobReady(j) /\ built' = built /\ reviews' = reviews
        BY <2>1, <3>1, <3>4 DEF LoopTyped, JobsReady, JobReady, BindsPage, project
      <4>2. \A q \in Procs : job'[q] = IF q = p THEN j ELSE job[q]
        BY <1>0, <3>1
      <4>3. QED
        BY <4>1, <4>2 DEF LoopTyped, JobsReady, JobReady, BindsPage
    <3>10. QED
      BY <3>6, <3>8, <3>9 DEF LoopTyped
  <2>7. QED
    BY <2>5, <2>6
<1>6. CASE ReplaceReport(p)
  <2>1. job[p].at = "report" /\ job[p] \in CheckJob
    BY <1>0, <1>6, JobKinds DEF ReplaceReport
  <2>2. job[p].report \in Reports
    BY <2>1 DEF CheckJob
  <2>3. /\ report' = job[p].report
        /\ job' = [job EXCEPT ![p] = Idle]
        /\ lockHolder' = None /\ verdict' = None
        /\ UNCHANGED <<project, history, reviews, review, receipt, bounds>>
    BY <1>6 DEF ReplaceReport, LetGo, Become
  <2>4. StateOK'
    BY <2>2, <2>3 DEF LoopTyped, StateOK, project, bounds
  <2>5. JobsReady'
    BY <1>0, <2>3 DEF LoopTyped, JobsReady, JobReady, BindsPage, Idle, project
  <2>6. ReviewsKnown'
    BY <2>3 DEF LoopTyped, ReviewsKnown
  <2>7. QED
    BY <2>4, <2>5, <2>6 DEF LoopTyped
<1>7. QED
  BY <1>1, <1>2, <1>2a, <1>3, <1>4, <1>5, <1>6 DEF Check

\* A step that returns a recorded verdict and changes nothing.
LEMMA LoopTypedVerdict ==
    ASSUME LoopTyped, ActOn(review), review \notin {0, Torn},
           UNCHANGED <<lockHolder, project, evidence, job, bounds>>
    PROVE  LoopTyped'
<1>1. review \in ReviewIds /\ Binding \in Bindings /\ feedback \in Feedbacks
  BY BindingTyped, FirstRenderAssumption DEF LoopTyped, StateOK, ReviewIds
<1>2. verdict' \in [review: ReviewIds, bound: Bindings, feedback: Feedbacks]
  BY <1>1 DEF ActOn
<1>3. StateOK'
  BY <1>2 DEF LoopTyped, StateOK, project, evidence, bounds
<1>4. ReviewsKnown' /\ JobsReady'
  BY DEF LoopTyped, ReviewsKnown, JobsReady, JobReady, BindsPage, evidence, project
<1>5. QED
  BY <1>3, <1>4 DEF LoopTyped

\* A verdict is taken for evidence derived again under the lock.
LEMMA TakenReview ==
    ASSUME LoopTyped, NEW p \in Procs, NEW findings \in SUBSET Findings,
           TakeReview(p, findings)
    PROVE  /\ job[p] \in ReviewJob /\ job[p].packet \in Packets
           /\ job[p].packet.route = route /\ job[p].packet.report = report
           /\ report \in Reports /\ report.bound = Binding
           /\ job[p].packet.feedback = feedback
           /\ Len(reviews) + 1 \in ReviewIds
           /\ Slot(history[route], report) # 0
           /\ history[route] \in Seq(Iteration)
<1>1. job[p] \in Jobs /\ job[p].at = "judging"
  BY DEF LoopTyped, StateOK, Jobs, TakeReview
<1>2. job[p] \in ReviewJob
  BY <1>1, JobKinds
<1>3. job[p].packet \in Packets
  BY <1>2 DEF ReviewJob
<1>4. SameEvidence(job[p].packet)
  BY DEF TakeReview
<1>5. /\ job[p].packet.route = route /\ job[p].packet.report = report
      /\ report \in Reports /\ report.bound = Binding
      /\ job[p].packet.feedback = feedback
  BY <1>4 DEF SameEvidence, Readable, ReportIsCurrent, Packet, LoopTyped, StateOK
<1>6. Len(reviews) \in Nat /\ Len(reviews) + 1 <= MaxReviews
  BY DEF LoopTyped, StateOK, TakeReview
<1>7. Slot(history[job[p].packet.route], job[p].packet.report) \in 1..MaxIterations
  BY DEF TakeReview
<1>8. history[route] \in Seq(Iteration)
  BY DEF LoopTyped, StateOK
<1>9. Slot(history[route], report) # 0
  BY <1>5, <1>7
<1>10. Len(reviews) + 1 \in ReviewIds
  BY <1>6, FirstRenderAssumption DEF ReviewIds
<1>11. QED
  BY <1>2, <1>3, <1>5, <1>8, <1>9, <1>10

\* runFirstRenderReview and requireRetainedFirstRenderReview.
LEMMA LoopTypedReview ==
    ASSUME LoopTyped, NEW p \in Procs, Review(p)
    PROVE  LoopTyped'
<1> USE ProjectLockAssumption
<1>0. job[p] \in Jobs /\ job \in [Procs -> Jobs]
      /\ lockHolder \in Procs \cup {None} /\ edited \in BOOLEAN
  BY DEF LoopTyped, StateOK, Jobs
<1>i. Idle \in Jobs /\ JobReady(Idle)
  BY DEF Jobs, Idle, JobReady
<1>1. CASE ReturnReview(p)
  <2>1. review \notin {0, Torn}
    <3>1. review # Torn
      BY <1>1 DEF ReturnReview, Readable
    <3>2. CASE Reusable
      BY <3>1, <3>2, CurrentReviewIsKnown DEF Reusable, CurrentReview
    <3>3. CASE Spent
      BY <3>1, <3>3 DEF Spent
    <3>4. QED
      BY <1>1, <3>2, <3>3 DEF ReturnReview
  <2>2. QED
    BY <1>1, <2>1, LoopTypedVerdict DEF ReturnReview
<1>2. CASE AskReviewer(p)
  <2> DEFINE j == [at |-> "judging", packet |-> Packet(CurrentReview)]
  <2>1. report # None
    BY <1>2 DEF AskReviewer, Readable, ReportIsCurrent
  <2>2. Packet(CurrentReview) \in Packets
    BY <2>1, CurrentReviewIsKnown, PacketIsTyped DEF LoopTyped
  <2>3. j \in Jobs /\ JobReady(j)
    BY <2>2 DEF Jobs, ReviewJob, JobReady
  <2>4. /\ job' = [job EXCEPT ![p] = j] /\ lockHolder' = lockHolder /\ verdict' = None
        /\ UNCHANGED <<project, evidence, edits, crashes, edited>>
    BY <1>2 DEF AskReviewer, Become, bounds
  <2>5. QED
    BY <1>0, <2>3, <2>4, LoopTypedJob
<1>3. CASE RefuseReview(p)
  <2>1. /\ job' = [job EXCEPT ![p] = Idle] /\ lockHolder' = lockHolder /\ verdict' = None
        /\ UNCHANGED <<project, evidence, edits, crashes, edited>>
    BY <1>3 DEF RefuseReview, Become, bounds
  <2>2. QED
    BY <1>0, <1>i, <2>1, LoopTypedJob
<1>4. CASE PublishReview(p)
  <2>1. job[p] \in ReviewJob /\ job[p].at = "publish"
    BY <1>0, <1>4, JobKinds DEF PublishReview
  <2>2. job[p].id \in ReviewIds /\ job[p].id \in 1..Len(reviews)
    BY <2>1 DEF ReviewJob, LoopTyped, JobsReady, JobReady
  <2>3. /\ review' = job[p].id /\ job' = [job EXCEPT ![p] = Idle]
        /\ lockHolder' = None /\ verdict' = None
        /\ UNCHANGED <<project, report, history, reviews, receipt, bounds>>
    BY <1>4 DEF PublishReview, LetGo, Become
  <2>4. StateOK'
    BY <2>2, <2>3, FirstRenderAssumption DEF LoopTyped, StateOK, project, bounds, ReviewIds
  <2>5. JobsReady'
    BY <1>0, <1>i, <2>3 DEF LoopTyped, JobsReady, JobReady, BindsPage, project
  <2>6. ReviewsKnown'
    <3>1. Len(reviews) \in Nat
      BY DEF LoopTyped, StateOK
    <3>2. QED
      BY <2>2, <2>3, <3>1 DEF LoopTyped, ReviewsKnown
  <2>7. QED
    BY <2>4, <2>5, <2>6 DEF LoopTyped
<1>5. CASE AcceptRetained(p)
  BY <1>5, LoopTypedVerdict DEF AcceptRetained, RetainStands
<1>6. ASSUME NEW findings \in SUBSET Findings,
             TakeReview(p, findings)
      PROVE  LoopTyped'
  <2> DEFINE q == job[p].packet
             k == Len(reviews) + 1
             h == history[route]
             j == [at |-> "publish", packet |-> q, id |-> k]
             rec == [packet |-> q, findings |-> findings]
  <2>1. /\ q \in Packets /\ k \in ReviewIds /\ q.route = route /\ q.report = report
        /\ Slot(h, report) # 0 /\ h \in Seq(Iteration)
    BY <1>6, TakenReview
  <2>2. /\ reviews' = Append(reviews, rec)
        /\ history' = [history EXCEPT ![route] = Record(h, report, k)]
        /\ job' = [job EXCEPT ![p] = j]
        /\ lockHolder' = p
        /\ ActOn(k)
        /\ UNCHANGED <<project, report, review, receipt, bounds>>
    BY <1>6, <2>1 DEF TakeReview, Become, Acquire, LoopTyped, StateOK
  <2>3. /\ reviews \in Seq(ReviewRecord) /\ Len(reviews) \in Nat /\ MaxReviews \in Nat
        /\ route \in Routes /\ history \in [Routes -> Seq(Iteration)]
    BY FirstRenderAssumption DEF LoopTyped, StateOK
  <2>4. rec \in ReviewRecord
    BY <2>1 DEF ReviewRecord
  <2>5. reviews' \in Seq(ReviewRecord) /\ Len(reviews') = k /\ Len(reviews') <= MaxReviews
    BY <2>1, <2>2, <2>3, <2>4 DEF ReviewIds
  <2>6. history' \in [Routes -> Seq(Iteration)]
    BY <2>1, <2>2, <2>3, RecordKeeps
  <2>7. j \in ReviewJob
    BY <2>1 DEF ReviewJob
  <2>8. job' \in [Procs -> {Idle} \cup CheckJob \cup ReviewJob \cup RestoreJob]
    BY <2>2, <2>7 DEF LoopTyped, StateOK
  <2>9. verdict' \in [review: ReviewIds, bound: Bindings, feedback: Feedbacks]
    BY <2>1, <2>2, BindingTyped DEF ActOn, LoopTyped, StateOK
  <2>10. StateOK'
    BY <2>2, <2>5, <2>6, <2>8, <2>9 DEF LoopTyped, StateOK, project, bounds
  <2>11. JobsReady'
    <3>1. j.at = "publish" /\ j.id \in 1..Len(reviews')
      BY <2>3, <2>5
    <3>2. \A r \in Procs : job'[r] = IF r = p THEN j ELSE job[r]
      BY <1>0, <2>2
    <3>3. built' = built
      BY <2>2 DEF project
    <3>4. QED
      BY <2>3, <2>5, <3>1, <3>2, <3>3 DEF LoopTyped, JobsReady, JobReady, BindsPage
  <2>12. \A r \in Routes : \A i \in DOMAIN history'[r] :
            history'[r][i].review \in 0..Len(reviews')
    <3> SUFFICES ASSUME NEW r \in Routes, NEW i \in DOMAIN history'[r]
                 PROVE  history'[r][i].review \in 0..k
      BY <2>5
    <3>1. CASE r # route
      BY <2>2, <2>3, <3>1 DEF LoopTyped, ReviewsKnown
    <3>2. CASE r = route
      <4> DEFINE g == Record(h, report, k)
      <4>1. history'[r] = g
        BY <2>2, <2>3, <3>2
      <4>2. \A l \in DOMAIN h : h[l] \in Iteration /\ h[l].review \in 0..Len(reviews)
        BY <2>1, <3>2 DEF LoopTyped, ReviewsKnown
      <4>3. \/ g[i] = h[i] /\ i \in DOMAIN h
            \/ \E l \in DOMAIN h : g[i] = [h[l] EXCEPT !.review = k]
        <5>1. /\ \A l \in DOMAIN h :
                    \/ g[l] = h[l]
                    \/ h[l].report = report /\ g[l] = [h[l] EXCEPT !.review = k]
              /\ \A m \in DOMAIN g \ DOMAIN h :
                    \E l \in DOMAIN h : g[m] = [h[l] EXCEPT !.review = k]
          BY <2>1, <2>3, RecordKeeps
        <5>2. i \in DOMAIN g
          BY <4>1
        <5> HIDE DEF g, h, k
        <5>3. CASE i \in DOMAIN h
          BY <5>1, <5>3
        <5>4. CASE i \notin DOMAIN h
          BY <5>1, <5>2, <5>4
        <5>5. QED
          BY <5>3, <5>4
      <4>4. CASE g[i] = h[i] /\ i \in DOMAIN h
        BY <2>3, <4>1, <4>2, <4>4
      <4>5. CASE \E l \in DOMAIN h : g[i] = [h[l] EXCEPT !.review = k]
        <5>1. g[i].review = k
          BY <4>2, <4>5 DEF Iteration
        <5>2. QED
          BY <2>3, <4>1, <5>1
      <4>6. QED
        BY <4>3, <4>4, <4>5
    <3>3. QED
      BY <3>1, <3>2
  <2>13. ReviewsKnown'
    BY <2>2, <2>3, <2>5, <2>12 DEF LoopTyped, ReviewsKnown
  <2>14. QED
    BY <2>10, <2>11, <2>13 DEF LoopTyped
<1>7. QED
  BY <1>1, <1>2, <1>3, <1>4, <1>5, <1>6 DEF Review

\* restoreFirstRenderIteration.
LEMMA LoopTypedRestore ==
    ASSUME LoopTyped, NEW p \in Procs, Restore(p)
    PROVE  LoopTyped'
<1> USE ProjectLockAssumption
<1>0. job[p] \in Jobs /\ job \in [Procs -> Jobs]
      /\ lockHolder \in Procs \cup {None} /\ edited \in BOOLEAN
  BY DEF LoopTyped, StateOK, Jobs
<1>i. Idle \in Jobs /\ JobReady(Idle)
  BY DEF Jobs, Idle, JobReady
<1>1. ASSUME NEW i \in 1..MaxIterations, BeginRestore(p, i)
      PROVE  LoopTyped'
  <2> DEFINE j == [at |-> "planned", route |-> route, seen |-> history[route], target |-> i,
                   todo |-> Differing(history[route][i].checkpoint)]
  <2>1. j \in RestoreJob
    BY DEF LoopTyped, StateOK, RestoreJob, Differing
  <2>2. /\ i \in DOMAIN history[route]
        /\ job' = [job EXCEPT ![p] = j] /\ lockHolder' = lockHolder /\ verdict' = None
        /\ UNCHANGED <<project, evidence, edits, crashes, edited>>
    BY <1>1 DEF BeginRestore, Become, bounds
  <2>3. j \in Jobs /\ JobReady(j)
    BY <2>1, <2>2 DEF Jobs, JobReady
  <2>4. QED
    BY <1>0, <2>2, <2>3, LoopTypedJob
<1>2. CASE TakeRestore(p)
  <2> DEFINE j == [job[p] EXCEPT !.at = "writing"]
  <2>1. job[p] \in RestoreJob /\ job[p].at = "planned"
    BY <1>0, <1>2, JobKinds DEF TakeRestore
  <2>2. j \in RestoreJob /\ j.at = "writing" /\ j.target \in DOMAIN j.seen
    BY <2>1 DEF RestoreJob, LoopTyped, JobsReady, JobReady
  <2>3. /\ job' = [job EXCEPT ![p] = j] /\ lockHolder' = p /\ verdict' = None
        /\ edited' = FALSE
        /\ UNCHANGED <<project, evidence, edits, crashes>>
    BY <1>2 DEF TakeRestore, Move, Acquire
  <2>4. j \in Jobs /\ JobReady(j)
    BY <2>2 DEF Jobs, JobReady
  <2>5. QED
    BY <1>0, <2>2, <2>3, <2>4, LoopTypedJob
<1>3. CASE RefuseRestore(p)
  <2>1. /\ job' = [job EXCEPT ![p] = Idle] /\ lockHolder' = lockHolder /\ verdict' = None
        /\ UNCHANGED <<project, evidence, edits, crashes, edited>>
    BY <1>3 DEF RefuseRestore, Become, bounds
  <2>2. QED
    BY <1>0, <1>i, <2>1, LoopTypedJob
<1>4. CASE WriteReceipt(p)
  <2>1. job[p] \in RestoreJob /\ job[p].at = "writing"
    BY <1>0, <1>4, JobKinds DEF WriteReceipt
  <2>2. /\ receipt' = [receipt EXCEPT ![job[p].route] = job[p].target]
        /\ job' = [job EXCEPT ![p] = Idle] /\ lockHolder' = None /\ verdict' = None
        /\ UNCHANGED <<project, report, history, reviews, review, bounds>>
    BY <1>4 DEF WriteReceipt, LetGo, Become
  <2>3. StateOK'
    <3>1. receipt' \in [Routes -> 0..MaxIterations]
      BY <2>1, <2>2, FirstRenderAssumption DEF LoopTyped, StateOK, RestoreJob
    <3>2. job' \in [Procs -> {Idle} \cup CheckJob \cup ReviewJob \cup RestoreJob]
      BY <2>2 DEF LoopTyped, StateOK
    <3>3. QED
      BY <2>2, <3>1, <3>2 DEF LoopTyped, StateOK, project, bounds
  <2>4. JobsReady'
    BY <1>0, <1>i, <2>2 DEF LoopTyped, JobsReady, JobReady, BindsPage, project
  <2>5. QED
    BY <2>2, <2>3, <2>4 DEF LoopTyped, ReviewsKnown
<1>5. ASSUME NEW f \in Files, RestoreFile(p, f)
      PROVE  LoopTyped'
  <2> DEFINE j == [job[p] EXCEPT !.todo = @ \ {f}]
             c == job[p].seen[job[p].target].checkpoint
  <2>1. job[p] \in RestoreJob /\ job[p].at = "writing"
    BY <1>0, <1>5, JobKinds DEF RestoreFile
  <2>2. job[p].seen[job[p].target] \in Iteration
    BY <2>1 DEF LoopTyped, JobsReady, JobReady, RestoreJob
  <2>3. c \in Sources
    BY <2>2 DEF Iteration
  <2>4. j \in RestoreJob /\ j.at = "writing" /\ j.target \in DOMAIN j.seen
    BY <2>1 DEF RestoreJob, LoopTyped, JobsReady, JobReady
  <2>5. /\ source' = [source EXCEPT ![f] = c[f]]
        /\ job' = [job EXCEPT ![p] = j] /\ verdict' = None
        /\ UNCHANGED <<lockHolder, built, route, feedback, evidence, bounds>>
    BY <1>0, <1>5 DEF RestoreFile
  <2>6. source' \in Sources
    BY <2>3, <2>5 DEF LoopTyped, StateOK, Sources
  <2>7. job' \in [Procs -> {Idle} \cup CheckJob \cup ReviewJob \cup RestoreJob]
    BY <2>4, <2>5 DEF LoopTyped, StateOK
  <2>8. StateOK'
    BY <2>5, <2>6, <2>7 DEF LoopTyped, StateOK, evidence, bounds
  <2>9. JobsReady'
    BY <1>0, <2>4, <2>5 DEF LoopTyped, JobsReady, JobReady, BindsPage, evidence
  <2>10. ReviewsKnown'
    BY <2>5 DEF LoopTyped, ReviewsKnown, evidence
  <2>11. QED
    BY <2>8, <2>9, <2>10 DEF LoopTyped
<1>6. QED
  BY <1>1, <1>2, <1>3, <1>4, <1>5 DEF Restore

\* A kill.
LEMMA LoopTypedCrash ==
    ASSUME LoopTyped, NEW p \in Procs, Crash(p)
    PROVE  LoopTyped'
<1>1. /\ crashes < MaxCrashes /\ crashes' = crashes + 1
      /\ source' \in {source} \cup TornSources(p)
      /\ review' \in {review, Torn}
      /\ lockHolder' \in {lockHolder, None}
      /\ job' = [job EXCEPT ![p] = Idle] /\ verdict' = None
      /\ UNCHANGED <<built, route, feedback, report, history, reviews, receipt, edits, edited>>
  BY DEF Crash, Become
<1>2. source' \in Sources
  BY <1>1 DEF LoopTyped, StateOK, TornSources, Sources
<1>3. crashes' \in 0..MaxCrashes
  BY <1>1, FirstRenderAssumption DEF LoopTyped, StateOK
<1>4. job' \in [Procs -> {Idle} \cup CheckJob \cup ReviewJob \cup RestoreJob]
  BY <1>1 DEF LoopTyped, StateOK
<1>5. StateOK'
  BY <1>1, <1>2, <1>3, <1>4 DEF LoopTyped, StateOK
<1>6. ReviewsKnown'
  BY <1>1 DEF LoopTyped, ReviewsKnown
<1>7. JobsReady'
  BY <1>1 DEF LoopTyped, StateOK, JobsReady, JobReady, BindsPage, Idle
<1>8. QED
  BY <1>5, <1>6, <1>7 DEF LoopTyped

\* Every variable keeps its type, whatever is interrupted, and every review that
\* the history, review.json or a publishing command names has been recorded.
THEOREM LoopTypes == Spec => []LoopTyped
<1>1. Init => LoopTyped
  BY LoopTypedInit
<1>2. LoopTyped /\ [Next]_vars => LoopTyped'
  <2> SUFFICES ASSUME LoopTyped, [Next]_vars PROVE LoopTyped'
    OBVIOUS
  <2>1. CASE UNCHANGED vars
    BY <2>1 DEF vars, project, evidence, bounds, LoopTyped, StateOK, ReviewsKnown, JobsReady,
       JobReady, BindsPage
  <2>2. CASE Next
    BY <2>2, LoopTypedMaker, LoopTypedCheck, LoopTypedReview, LoopTypedRestore,
       LoopTypedCrash DEF Next
  <2>3. QED
    BY <2>1, <2>2
<1>3. QED
  BY <1>1, <1>2, PTL DEF Spec

-----------------------------------------------------------------------------
(* The inductive invariant is one.                                           *)

Writing == {"append", "report", "publish", "writing"}

\* The invariant holds at first, when no command runs.
LEMMA LoopInvInit == Init => LoopInv
<1> SUFFICES ASSUME Init PROVE LoopInv
  OBVIOUS
<1>1. \A p \in Procs : job[p].at = "idle"
  BY DEF Init, Idle
<1>2. HeldByWriter /\ ReportReady /\ RestoreUnderWay
  BY <1>1 DEF HeldByWriter, ReportReady, RestoreUnderWay
<1>3. report = None /\ \A r \in Routes : history[r] = <<>>
  BY DEF Init
<1>4. QED
  BY <1>2, <1>3 DEF LoopInv, HistoryBound, ReportHasIteration,
     VerdictOnItsIteration, Reviewed

\* While the lock is free nobody is writing, and while p has it only p may be.
LEMMA OneWriter ==
    ASSUME HeldByWriter, NEW p \in Procs, lockHolder \in {None, p}
    PROVE  \A q \in Procs \ {p} : job[q].at \notin Writing
BY ProjectLockAssumption DEF HeldByWriter, Writing

\* A step that leaves evidence and judged pages alone, by a command that does not
\* write after it.
LEMMA LoopInvJob ==
    ASSUME LoopTyped, LoopInv, NEW p \in Procs, NEW j,
           job' = [job EXCEPT ![p] = j],
           j.at \notin Writing,
           \/ lockHolder' = lockHolder
           \/ lockHolder = p /\ lockHolder' = None,
           lockHolder # p => source' = source,
           UNCHANGED <<built, history, report, reviews, edited>>
    PROVE  LoopInv'
<1>1. \A q \in Procs : job'[q].at \in Writing =>
          /\ job'[q] = job[q] /\ q # p
          /\ lockHolder = q /\ lockHolder' = q
          /\ source' = source
  <2> SUFFICES ASSUME NEW q \in Procs, job'[q].at \in Writing
               PROVE  /\ job'[q] = job[q] /\ q # p
                      /\ lockHolder = q /\ lockHolder' = q
                      /\ source' = source
    OBVIOUS
  <2>1. job'[q] = IF q = p THEN j ELSE job[q]
    BY DEF LoopTyped, StateOK
  <2>2. q # p /\ job'[q] = job[q]
    BY <2>1
  <2>3. lockHolder = q
    BY <2>2 DEF LoopInv, HeldByWriter, Writing
  <2>4. QED
    BY <2>2, <2>3
<1>2. HeldByWriter'
  BY <1>1 DEF HeldByWriter, Writing
<1>3. ReportReady'
  BY <1>1 DEF LoopInv, ReportReady, Writing
<1>4. RestoreUnderWay'
  BY <1>1 DEF LoopInv, RestoreUnderWay, Writing
<1>5. HistoryBound' /\ ReportHasIteration' /\ VerdictOnItsIteration'
  BY DEF LoopInv, HistoryBound, BindsPage, ReportHasIteration, VerdictOnItsIteration,
     Reviewed
<1>6. QED
  BY <1>2, <1>3, <1>4, <1>5 DEF LoopInv

\* The maker writes no evidence, and a change of the source is marked as an edit.
LEMMA LoopInvMaker == LoopTyped /\ LoopInv /\ Maker => LoopInv'
<1> SUFFICES ASSUME LoopTyped, LoopInv, Maker PROVE LoopInv'
  OBVIOUS
<1>1. /\ UNCHANGED <<lockHolder, evidence, job>>
      /\ edited' = TRUE \/ (source' = source /\ edited' = edited)
  BY DEF Maker, Edit, Build, GiveFeedback, PublishRoute
<1>1a. built' = None <=> built = None
  BY ServedAlike DEF LoopTyped
<1>2. HeldByWriter' /\ ReportReady'
  BY <1>1 DEF LoopInv, HeldByWriter, ReportReady, evidence
<1>3. RestoreUnderWay'
  BY <1>1 DEF LoopInv, RestoreUnderWay, evidence
<1>4. HistoryBound' /\ ReportHasIteration' /\ VerdictOnItsIteration'
  BY <1>1, <1>1a DEF LoopInv, HistoryBound, BindsPage, ReportHasIteration,
     VerdictOnItsIteration, Reviewed, evidence
<1>5. QED
  BY <1>2, <1>3, <1>4 DEF LoopInv

\* Appending keeps what a sequence holds and adds one element at its end.
LEMMA Appended ==
    ASSUME NEW T, NEW s \in Seq(T), NEW e \in T
    PROVE  /\ Append(s, e) \in Seq(T) /\ DOMAIN s \subseteq DOMAIN Append(s, e)
           /\ \A i \in DOMAIN s : Append(s, e)[i] = s[i]
           /\ \A i \in DOMAIN Append(s, e) \ DOMAIN s : Append(s, e)[i] = e
  OBVIOUS

\* An appended iteration has the source its report binds and no verdict.
LEMMA LoopInvAppend ==
    ASSUME LoopTyped, LoopInv, NEW p \in Procs, AppendIteration(p), source = job[p].source
    PROVE  LoopInv'
<1> DEFINE r == job[p].route
           h == history[r]
           c == [checkpoint |-> job[p].source, report |-> job[p].report, review |-> 0]
           g == IF SameIteration(h, c) THEN h ELSE Append(h, c)
<1>1. job[p] \in Jobs /\ job[p].at = "append" /\ job \in [Procs -> Jobs]
  BY DEF LoopTyped, StateOK, Jobs, AppendIteration
<1>2. job[p] \in CheckJob
  BY <1>1, JobKinds
<1>3. r \in Routes /\ h \in Seq(Iteration) /\ history \in [Routes -> Seq(Iteration)]
  BY <1>2 DEF LoopTyped, StateOK, CheckJob
<1>4. /\ c.report.bound.route = r /\ c.report.bound.source = c.checkpoint
      /\ BindsPage(c)
  BY <1>1 DEF LoopTyped, JobsReady, JobReady, BindsPage
<1>5. /\ history' = [history EXCEPT ![r] = g]
      /\ job' = [job EXCEPT ![p].at = "report"]
      /\ UNCHANGED <<lockHolder, source, built, edited, report, reviews>>
  BY DEF AppendIteration, Move, project, bounds
<1>6. lockHolder = p /\ \A q \in Procs \ {p} : job[q].at \notin Writing
  BY <1>1, OneWriter DEF LoopInv, HeldByWriter
<1>7. /\ job'[p].at = "report" /\ job'[p].route = r /\ job'[p].report = job[p].report
      /\ \A q \in Procs \ {p} : job'[q] = job[q]
  BY <1>1, <1>2, <1>5 DEF CheckJob
<1>8. c \in Iteration
  BY <1>1, <1>2, FirstRenderAssumption DEF CheckJob, Iteration
<1>9. /\ g \in Seq(Iteration) /\ DOMAIN h \subseteq DOMAIN g
      /\ \A i \in DOMAIN h : g[i] = h[i]
      /\ \A i \in DOMAIN g \ DOMAIN h : g[i] = c
      /\ HasReport(g, c.report)
  <2>1. CASE SameIteration(h, c)
    <3>1. Len(h) \in DOMAIN h /\ h[Len(h)].report = c.report
      BY <1>3, <2>1 DEF SameIteration
    <3>2. QED
      BY <1>3, <2>1, <3>1 DEF HasReport
  <2>2. CASE ~SameIteration(h, c)
    <3>1. g = Append(h, c)
      BY <2>2
    <3>2. Len(h) + 1 \in DOMAIN g /\ g[Len(h) + 1] = c
      BY <1>3, <1>8, <3>1
    <3>3. /\ g \in Seq(Iteration) /\ DOMAIN h \subseteq DOMAIN g
          /\ \A i \in DOMAIN h : g[i] = h[i]
          /\ \A i \in DOMAIN g \ DOMAIN h : g[i] = c
      <4> HIDE DEF h, c, g
      <4> QED
        BY <1>3, <1>8, <3>1, Appended
    <3>4. HasReport(g, c.report)
      BY <3>2 DEF HasReport
    <3>5. QED
      BY <3>3, <3>4
  <2>3. QED
    BY <2>1, <2>2
<1>10. history'[r] = g /\ \A s \in Routes \ {r} : history'[s] = history[s]
  BY <1>3, <1>5
<1>10a. ASSUME NEW s \in Routes, NEW i \in DOMAIN history'[s]
      PROVE  \/ i \in DOMAIN history[s] /\ history'[s][i] = history[s][i]
             \/ s = r /\ history'[s][i] = c
  <2>1. CASE s = r
    <3>1. i \in DOMAIN g
      BY <1>10, <2>1
    <3>2. \/ g[i] = c
          \/ i \in DOMAIN h /\ g[i] = h[i]
      BY <1>9, <3>1
    <3>3. QED
      BY <1>10, <2>1, <3>2
  <2>2. CASE s # r
    BY <1>10, <2>2
  <2>3. QED
    BY <2>1, <2>2
<1>11. HeldByWriter'
  BY <1>5, <1>6, <1>7 DEF LoopInv, HeldByWriter, Writing
<1>12. ReportReady'
  BY <1>6, <1>7, <1>9, <1>10 DEF ReportReady, Writing
<1>13. RestoreUnderWay'
  BY <1>6, <1>7 DEF RestoreUnderWay, Writing
<1>14. HistoryBound'
  <2> SUFFICES ASSUME NEW s \in Routes, NEW i \in DOMAIN history'[s]
               PROVE  /\ history'[s][i].report.bound.route = s
                      /\ history'[s][i].report.bound.source = history'[s][i].checkpoint
                      /\ BindsPage(history'[s][i])
    BY <1>5 DEF HistoryBound, BindsPage
  <2>1. CASE i \in DOMAIN history[s] /\ history'[s][i] = history[s][i]
    BY <2>1 DEF LoopInv, HistoryBound
  <2>2. CASE s = r /\ history'[s][i] = c
    BY <1>4, <2>2 DEF BindsPage
  <2>3. QED
    BY <1>10a, <2>1, <2>2
<1>15. ReportHasIteration'
  <2> SUFFICES ASSUME report # None
               PROVE  \E i \in DOMAIN history'[report.bound.route] :
                          history'[report.bound.route][i].report = report
    BY <1>5 DEF ReportHasIteration
  <2>1. report.bound.route \in Routes
    BY DEF LoopTyped, StateOK, Reports, Bindings
  <2>2. PICK i \in DOMAIN history[report.bound.route] :
            history[report.bound.route][i].report = report
    BY DEF LoopInv, ReportHasIteration
  <2>3. QED
    BY <1>9, <1>10, <2>1, <2>2, ZenonT(40)
<1>16. VerdictOnItsIteration'
  <2> SUFFICES ASSUME NEW s \in Routes, NEW i \in DOMAIN history'[s],
                      history'[s][i].review # 0
               PROVE  LET packet == reviews[history'[s][i].review].packet
                      IN  packet.route = s /\ packet.report = history'[s][i].report
    BY <1>5, ZenonT(40) DEF VerdictOnItsIteration, Reviewed
  <2>1. i \in DOMAIN history[s] /\ history'[s][i] = history[s][i]
    BY <1>10a
  <2>2. QED
    BY <2>1 DEF LoopInv, VerdictOnItsIteration, Reviewed
<1>17. QED
  BY <1>11, <1>12, <1>13, <1>14, <1>15, <1>16 DEF LoopInv

\* publishFirstRenderCheck.
LEMMA LoopInvCheck ==
    ASSUME LoopTyped, LoopInv, NEW p \in Procs, Check(p)
    PROVE  LoopInv'
<1>0. job[p] \in Jobs /\ job \in [Procs -> Jobs]
  BY DEF LoopTyped, StateOK, Jobs
<1>i. Idle.at \notin Writing
  BY DEF Idle, Writing
<1>1. CASE BeginCheck(p) \/ RefuseCheck(p)
  <2>1. PICK j : job' = [job EXCEPT ![p] = j] /\ j.at \notin Writing
    BY <1>1, <1>i DEF BeginCheck, RefuseCheck, Become, Writing
  <2>2. UNCHANGED <<lockHolder, source, built, history, report, reviews, edited>>
    BY <1>1 DEF BeginCheck, RefuseCheck, project, evidence, bounds
  <2>3. QED
    BY <2>1, <2>2, LoopInvJob
<1>2. CASE BeginMeasure(p) \/ Capture(p)
  <2>1. PICK j : job' = [job EXCEPT ![p] = j] /\ j.at \notin Writing
    <3>1. CASE BeginMeasure(p)
      <4> DEFINE j == [at |-> "capture", route |-> job[p].route, source |-> job[p].source,
                       report |-> [bound |-> Binding, shown |-> {}]]
      <4>1. job' = [job EXCEPT ![p] = j] /\ j.at \notin Writing
        BY <3>1 DEF BeginMeasure, Become, Writing
      <4> HIDE DEF j
      <4>2. QED
        BY <4>1
    <3>2. CASE Capture(p)
      <4> DEFINE j == [job[p] EXCEPT !.report.shown = @ \cup {Page}]
      <4>1. job' = [job EXCEPT ![p] = j]
        BY <1>0, <3>2 DEF Capture
      <4>2. job[p] \in CheckJob /\ job[p].at = "capture"
        BY <1>0, <3>2, JobKinds DEF Capture
      <4>3. j.at \notin Writing
        BY <4>2 DEF CheckJob, Writing
      <4>4. QED
        BY <4>1, <4>3
    <3>3. QED
      BY <1>2, <3>1, <3>2
  <2>2. UNCHANGED <<lockHolder, source, built, history, report, reviews, edited>>
    BY <1>2 DEF BeginMeasure, Capture, project, evidence, bounds
  <2>3. QED
    BY <2>1, <2>2, LoopInvJob
<1>3. CASE TakeCheck(p)
  <2>1. job[p] \in CheckJob
    BY <1>0, <1>3, JobKinds DEF TakeCheck
  <2>2. /\ lockHolder = None /\ lockHolder' = p
        /\ job' = [job EXCEPT ![p].at = "append"]
        /\ UNCHANGED <<source, built, history, report, reviews, edited>>
    BY <1>3 DEF TakeCheck, Acquire, Move, project, evidence, bounds
  <2>3. \A q \in Procs \ {p} : job'[q] = job[q] /\ job'[q].at \notin Writing
    BY <1>0, <2>2, OneWriter DEF LoopInv
  <2>4. job'[p].at = "append"
    BY <1>0, <2>1, <2>2 DEF CheckJob
  <2>5. HeldByWriter' /\ ReportReady' /\ RestoreUnderWay'
    BY <2>2, <2>3, <2>4 DEF HeldByWriter, ReportReady, RestoreUnderWay, Writing
  <2>6. QED
    BY <2>2, <2>5 DEF LoopInv, HistoryBound, BindsPage, ReportHasIteration,
       VerdictOnItsIteration, Reviewed
<1>4. CASE AppendIteration(p)
  <2>1. CASE source = job[p].source
    BY <1>4, <2>1, LoopInvAppend
  <2>2. CASE source # job[p].source
    <3>1. /\ job' = [job EXCEPT ![p] = Idle]
          /\ lockHolder = p /\ lockHolder' = None
          /\ UNCHANGED <<source, built, history, report, reviews, edited>>
      BY <1>4, <2>2 DEF AppendIteration, LetGo, Become, project, bounds
    <3>2. QED
      BY <1>i, <3>1, LoopInvJob
  <2>3. QED
    BY <2>1, <2>2
<1>5. CASE ReplaceReport(p)
  <2> DEFINE r == job[p].route
  <2>1. job[p].at = "report" /\ HasReport(history[r], job[p].report)
    BY <1>5 DEF ReplaceReport, LoopInv, ReportReady
  <2>2. /\ report' = job[p].report /\ job[p].report.bound.route = r
        /\ lockHolder = p /\ lockHolder' = None
        /\ job' = [job EXCEPT ![p] = Idle]
        /\ UNCHANGED <<source, built, history, reviews, edited>>
    BY <1>5 DEF ReplaceReport, LetGo, Become, project, bounds, LoopTyped, JobsReady,
       JobReady
  <2>3. \A q \in Procs : job'[q].at \notin Writing
    <3>1. \A q \in Procs \ {p} : job[q].at \notin Writing
      BY <2>2, OneWriter DEF LoopInv
    <3>2. QED
      BY <1>0, <1>i, <2>2, <3>1
  <2>4. HeldByWriter' /\ ReportReady' /\ RestoreUnderWay'
    BY <2>3 DEF HeldByWriter, ReportReady, RestoreUnderWay, Writing
  <2>5. ReportHasIteration'
    BY <2>1, <2>2 DEF ReportHasIteration, HasReport
  <2>6. QED
    BY <2>2, <2>4, <2>5 DEF LoopInv, HistoryBound, BindsPage,
       VerdictOnItsIteration, Reviewed
<1>6. QED
  BY <1>1, <1>2, <1>3, <1>4, <1>5 DEF Check

\* A verdict is filed under an iteration of the report that was judged.
LEMMA LoopInvTake ==
    ASSUME LoopTyped, LoopInv, NEW p \in Procs, NEW findings \in SUBSET Findings,
           TakeReview(p, findings)
    PROVE  LoopInv'
<1> DEFINE packet == job[p].packet
           k == Len(reviews) + 1
           h == history[route]
           g == Record(h, report, k)
           rec == [packet |-> packet, findings |-> findings]
<1>0. job \in [Procs -> Jobs] /\ route \in Routes /\ reviews \in Seq(ReviewRecord)
      /\ Len(reviews) \in Nat /\ MaxReviews \in Nat
      /\ history \in [Routes -> Seq(Iteration)]
  BY FirstRenderAssumption DEF LoopTyped, StateOK, Jobs
<1>1. /\ packet \in Packets /\ packet.route = route /\ packet.report = report
      /\ k \in ReviewIds /\ Slot(h, report) # 0 /\ h \in Seq(Iteration)
  BY TakenReview
<1>2. /\ reviews' = Append(reviews, rec)
      /\ history' = [history EXCEPT ![route] = g]
      /\ job' = [job EXCEPT ![p] = [at |-> "publish", packet |-> packet, id |-> k]]
      /\ lockHolder = None /\ lockHolder' = p
      /\ UNCHANGED <<source, built, report, edited>>
  BY <1>0, <1>1 DEF TakeReview, Become, Acquire, project, bounds
<1>3. rec \in ReviewRecord
  BY <1>1 DEF ReviewRecord
<1>4. /\ \A l \in 1..Len(reviews) : reviews'[l] = reviews[l]
      /\ reviews'[k] = rec
  BY <1>0, <1>2, <1>3
<1>5. /\ history'[route] = g
      /\ \A s \in Routes \ {route} : history'[s] = history[s]
  BY <1>0, <1>2
<1>6. /\ DOMAIN h \subseteq DOMAIN g
      /\ \A i \in DOMAIN g :
            \/ i \in DOMAIN h /\ g[i] = h[i]
            \/ \E l \in DOMAIN h :
                   h[l].report = report /\ g[i] = [h[l] EXCEPT !.review = k]
      /\ \A i \in DOMAIN h : g[i].report = h[i].report
  <2>1. /\ g \in Seq(Iteration)
        /\ Len(g) \in {Len(h), Len(h) + 1}
        /\ \A i \in DOMAIN h :
              \/ g[i] = h[i]
              \/ /\ h[i].review = 0 /\ h[i].report = report
                 /\ g[i] = [h[i] EXCEPT !.review = k]
        /\ \A i \in DOMAIN g \ DOMAIN h :
              \E l \in DOMAIN h :
                  h[l].report = report /\ g[i] = [h[l] EXCEPT !.review = k]
    <3> HIDE DEF h, k
    <3>1. QED
      BY <1>0, <1>1, RecordKeeps
  <2>2. \A l \in DOMAIN h : h[l] \in Iteration
    BY <1>1
  <2>3. \A i \in DOMAIN h : g[i].report = h[i].report
    <3>1. \A i \in DOMAIN h : [h[i] EXCEPT !.review = k].report = h[i].report
      BY <2>2 DEF Iteration
    <3>2. \A i \in DOMAIN h : g[i] = h[i] \/ g[i] = [h[i] EXCEPT !.review = k]
      BY <2>1
    <3> HIDE DEF g, h, k
    <3>3. QED
      BY <3>1, <3>2
  <2>4. DOMAIN h \subseteq DOMAIN g
    BY <1>1, <2>1
  <2>5. QED
    BY <2>1, <2>3, <2>4
<1>7. ASSUME NEW s \in Routes, NEW i \in DOMAIN history'[s]
      PROVE  \/ i \in DOMAIN history[s] /\ history'[s][i] = history[s][i]
             \/ /\ s = route
                /\ \E l \in DOMAIN h :
                      h[l].report = report /\ history'[s][i] = [h[l] EXCEPT !.review = k]
  <2>1. CASE s = route
    BY <1>5, <1>6, <2>1
  <2>2. CASE s # route
    BY <1>5, <2>2
  <2>3. QED
    BY <2>1, <2>2
<1>8. \A q \in Procs \ {p} : job'[q] = job[q] /\ job'[q].at \notin Writing
  BY <1>0, <1>2, OneWriter DEF LoopInv
<1>9. HeldByWriter' /\ ReportReady' /\ RestoreUnderWay'
  <2>1. job'[p].at = "publish"
    BY <1>0, <1>2
  <2>2. QED
    BY <1>2, <1>8, <2>1 DEF HeldByWriter, ReportReady, RestoreUnderWay, Writing
<1>10. HistoryBound'
  <2> DEFINE Bound(s, it) == /\ it.report.bound.route = s
                            /\ it.report.bound.source = it.checkpoint
                            /\ BindsPage(it)
  <2> SUFFICES ASSUME NEW s \in Routes, NEW i \in DOMAIN history'[s]
               PROVE  Bound(s, history'[s][i])
    BY <1>2 DEF HistoryBound, BindsPage
  <2>1. CASE i \in DOMAIN history[s] /\ history'[s][i] = history[s][i]
    BY <2>1 DEF LoopInv, HistoryBound
  <2>2. ASSUME s = route, NEW l \in DOMAIN h, history'[s][i] = [h[l] EXCEPT !.review = k]
        PROVE  Bound(s, history'[s][i])
    <3>1. Bound(s, h[l])
      BY <1>0, <2>2 DEF LoopInv, HistoryBound
    <3>2. h[l] \in Iteration
      BY <1>1
    <3>3. QED
      BY <2>2, <3>1, <3>2 DEF Iteration, BindsPage
  <2>3. QED
    BY <1>7, <2>1, <2>2
<1>11. ReportHasIteration'
  <2> SUFFICES ASSUME report # None
               PROVE  \E i \in DOMAIN history'[report.bound.route] :
                          history'[report.bound.route][i].report = report
    BY <1>2 DEF ReportHasIteration
  <2>1. report.bound.route \in Routes
    BY DEF LoopTyped, StateOK, Reports, Bindings
  <2>2. PICK i \in DOMAIN history[report.bound.route] :
            history[report.bound.route][i].report = report
    BY DEF LoopInv, ReportHasIteration
  <2>3. QED
    BY <1>5, <1>6, <2>1, <2>2
<1>12. VerdictOnItsIteration'
  <2> SUFFICES ASSUME NEW s \in Routes, NEW i \in DOMAIN history'[s],
                      history'[s][i].review # 0
               PROVE  /\ reviews'[history'[s][i].review].packet.route = s
                      /\ reviews'[history'[s][i].review].packet.report
                             = history'[s][i].report
    BY DEF VerdictOnItsIteration, Reviewed
  <2>1. CASE i \in DOMAIN history[s] /\ history'[s][i] = history[s][i]
    <3>1. history[s][i].review \in 1..Len(reviews)
      BY <1>0, <2>1 DEF LoopTyped, ReviewsKnown
    <3>2. /\ reviews[history[s][i].review].packet.route = s
          /\ reviews[history[s][i].review].packet.report = history[s][i].report
      BY <2>1 DEF LoopInv, VerdictOnItsIteration, Reviewed
    <3>3. QED
      BY <1>4, <2>1, <3>1, <3>2
  <2>2. ASSUME s = route, NEW l \in DOMAIN h, h[l].report = report,
               history'[s][i] = [h[l] EXCEPT !.review = k]
        PROVE  /\ reviews'[history'[s][i].review].packet.route = s
               /\ reviews'[history'[s][i].review].packet.report = history'[s][i].report
    <3>1. h[l] \in Iteration
      BY <1>1
    <3>2. history'[s][i].review = k /\ history'[s][i].report = report
      BY <2>2, <3>1 DEF Iteration
    <3>3. QED
      BY <1>1, <1>4, <2>2, <3>2
  <2>3. QED
    BY <1>7, <2>1, <2>2
<1>13. QED
  BY <1>9, <1>10, <1>11, <1>12 DEF LoopInv

\* The other steps of a review write no page and no iteration.
LEMMA LoopInvReview ==
    ASSUME LoopTyped, LoopInv, NEW p \in Procs, Review(p)
    PROVE  LoopInv'
<1>1. CASE ReturnReview(p) \/ AcceptRetained(p)
  <2>1. UNCHANGED <<lockHolder, source, built, history, report, reviews, edited, job>>
    BY <1>1 DEF ReturnReview, AcceptRetained, project, evidence, bounds
  <2>2. QED
    BY <2>1 DEF LoopInv, HeldByWriter, ReportReady, RestoreUnderWay,
       HistoryBound, BindsPage, ReportHasIteration, VerdictOnItsIteration, Reviewed
<1>2. CASE AskReviewer(p) \/ RefuseReview(p) \/ PublishReview(p)
  <2>1. PICK j : job' = [job EXCEPT ![p] = j] /\ j.at \notin Writing
    BY <1>2 DEF AskReviewer, RefuseReview, PublishReview, Become, Idle, Writing
  <2>2. /\ UNCHANGED <<source, built, history, report, reviews, edited>>
        /\ \/ lockHolder' = lockHolder
           \/ lockHolder = p /\ lockHolder' = None
    BY <1>2 DEF AskReviewer, RefuseReview, PublishReview, LetGo, project, evidence, bounds
  <2>3. QED
    BY <2>1, <2>2, LoopInvJob
<1>3. ASSUME NEW findings \in SUBSET Findings,
             TakeReview(p, findings)
      PROVE  LoopInv'
  BY <1>3, LoopInvTake
<1>4. QED
  BY <1>1, <1>2, <1>3 DEF Review

\* A restore works off exactly the files that differ from the checkpoint.
LEMMA LoopInvRestore ==
    ASSUME LoopTyped, LoopInv, NEW p \in Procs, Restore(p)
    PROVE  LoopInv'
<1>0. job[p] \in Jobs /\ job \in [Procs -> Jobs]
  BY DEF LoopTyped, StateOK, Jobs
<1>1. CASE \/ \E i \in 1..MaxIterations : BeginRestore(p, i)
           \/ RefuseRestore(p) \/ WriteReceipt(p)
  <2>1. PICK j : job' = [job EXCEPT ![p] = j] /\ j.at \notin Writing
    <3>1. CASE \E i \in 1..MaxIterations : BeginRestore(p, i)
      <4>1. PICK i \in 1..MaxIterations : BeginRestore(p, i)
        BY <3>1
      <4> DEFINE j == [at |-> "planned", route |-> route, seen |-> history[route], target |-> i,
                       todo |-> Differing(history[route][i].checkpoint)]
      <4>2. job' = [job EXCEPT ![p] = j]
        BY <4>1 DEF BeginRestore, Become
      <4>3. j.at \notin Writing
        BY DEF Writing
      <4> HIDE DEF j
      <4>4. QED
        BY <4>2, <4>3
    <3>2. CASE RefuseRestore(p) \/ WriteReceipt(p)
      <4>1. job' = [job EXCEPT ![p] = Idle]
        BY <3>2 DEF RefuseRestore, WriteReceipt, Become
      <4>2. Idle.at \notin Writing
        BY DEF Idle, Writing
      <4>3. QED
        BY <4>1, <4>2
    <3>3. QED
      BY <1>1, <3>1, <3>2
  <2>2. /\ UNCHANGED <<source, built, history, report, reviews, edited>>
        /\ \/ lockHolder' = lockHolder
           \/ lockHolder = p /\ lockHolder' = None
    BY <1>1 DEF BeginRestore, RefuseRestore, WriteReceipt, LetGo, project, evidence, bounds
  <2>3. QED
    BY <2>1, <2>2, LoopInvJob
<1>2. CASE TakeRestore(p)
  <2> DEFINE j == job[p]
  <2>1. j \in RestoreJob
    BY <1>0, <1>2, JobKinds DEF TakeRestore
  <2>2. /\ lockHolder = None /\ lockHolder' = p /\ SamePlan(j)
        /\ job' = [job EXCEPT ![p].at = "writing"]
        /\ UNCHANGED <<source, built, history, report, reviews>>
    BY <1>2 DEF TakeRestore, Acquire, Move, project, evidence
  <2>3. \A q \in Procs \ {p} : job'[q] = job[q] /\ job'[q].at \notin Writing
    BY <1>0, <2>2, OneWriter DEF LoopInv
  <2>4. /\ job'[p].at = "writing" /\ job'[p].route = j.route /\ job'[p].seen = j.seen
        /\ job'[p].target = j.target /\ job'[p].todo = j.todo
    BY <1>0, <2>1, <2>2 DEF RestoreJob
  <2>5. /\ history[j.route] = j.seen
        /\ \A f \in Files \ j.todo : source[f] = j.seen[j.target].checkpoint[f]
    BY <2>2 DEF SamePlan, Differing
  <2>6. HeldByWriter' /\ ReportReady'
    BY <2>2, <2>3, <2>4 DEF HeldByWriter, ReportReady, Writing
  <2>7. RestoreUnderWay'
    BY <2>2, <2>3, <2>4, <2>5 DEF RestoreUnderWay, Writing
  <2>8. QED
    BY <2>2, <2>6, <2>7 DEF LoopInv, HistoryBound, BindsPage, ReportHasIteration,
       VerdictOnItsIteration, Reviewed
<1>3. ASSUME NEW f \in Files, RestoreFile(p, f)
      PROVE  LoopInv'
  <2> DEFINE j == job[p]
             c == j.seen[j.target].checkpoint
  <2>1. j \in RestoreJob /\ j.at = "writing"
    BY <1>0, <1>3, JobKinds DEF RestoreFile
  <2>2. /\ source' = [source EXCEPT ![f] = c[f]]
        /\ job' = [job EXCEPT ![p].todo = @ \ {f}]
        /\ UNCHANGED <<lockHolder, built, history, report, reviews, edited>>
    BY <1>3 DEF RestoreFile, evidence, bounds
  <2>3. lockHolder = p /\ \A q \in Procs \ {p} : job'[q] = job[q] /\ job'[q].at \notin Writing
    <3>1. lockHolder = p
      BY <2>1 DEF LoopInv, HeldByWriter
    <3>2. QED
      BY <1>0, <2>2, <3>1, OneWriter DEF LoopInv
  <2>4. /\ job'[p].at = "writing" /\ job'[p].route = j.route /\ job'[p].seen = j.seen
        /\ job'[p].target = j.target /\ job'[p].todo = j.todo \ {f}
    BY <1>0, <2>1, <2>2 DEF RestoreJob
  <2>5. HeldByWriter' /\ ReportReady'
    BY <2>2, <2>3, <2>4 DEF HeldByWriter, ReportReady, Writing
  <2>6. /\ history[j.route] = j.seen
        /\ ~edited => \A x \in Files \ j.todo : source[x] = c[x]
    BY <2>1 DEF LoopInv, RestoreUnderWay
  <2>7. ~edited => \A x \in Files \ (j.todo \ {f}) : source'[x] = c[x]
    BY <2>2, <2>6 DEF LoopTyped, StateOK, Sources
  <2>8. RestoreUnderWay'
    BY <2>2, <2>3, <2>4, <2>6, <2>7 DEF RestoreUnderWay, Writing
  <2>9. QED
    BY <2>2, <2>5, <2>8 DEF LoopInv, HistoryBound, BindsPage, ReportHasIteration,
       VerdictOnItsIteration, Reviewed
<1>4. QED
  BY <1>1, <1>2, <1>3 DEF Restore

\* A kill frees the lock and tears a file only of a restore that had it.
LEMMA LoopInvCrash ==
    ASSUME LoopTyped, LoopInv, NEW p \in Procs, Crash(p)
    PROVE  LoopInv'
<1>1. /\ job' = [job EXCEPT ![p] = Idle]
      /\ lockHolder' = IF lockHolder = p THEN None ELSE lockHolder
      /\ source' \in {source} \cup TornSources(p)
      /\ UNCHANGED <<built, history, report, reviews, edited>>
  BY DEF Crash, Become
<1>2. lockHolder # p => source' = source
  BY <1>1 DEF LoopInv, HeldByWriter, TornSources
<1>3. Idle.at \notin Writing
  BY DEF Idle, Writing
<1>4. QED
  BY <1>1, <1>2, <1>3, LoopInvJob

\* The invariant is kept by every step.
LEMMA LoopInvStep == LoopTyped /\ LoopInv /\ [Next]_vars => LoopInv'
<1> SUFFICES ASSUME LoopTyped, LoopInv, [Next]_vars PROVE LoopInv'
  OBVIOUS
<1>1. CASE UNCHANGED vars
  BY <1>1 DEF vars, project, evidence, bounds, LoopInv, HeldByWriter, ReportReady,
     RestoreUnderWay, HistoryBound, BindsPage, ReportHasIteration,
     VerdictOnItsIteration, Reviewed
<1>2. CASE Next
  BY <1>2, LoopInvMaker, LoopInvCheck, LoopInvReview, LoopInvRestore, LoopInvCrash DEF Next
<1>3. QED
  BY <1>1, <1>2

\* The invariant holds throughout.
THEOREM LoopInvariant == Spec => []LoopInv
<1>1. LoopInv /\ LoopTyped /\ [Next]_vars => LoopInv'
  BY LoopInvStep
<1>2. QED
  BY <1>1, LoopInvInit, LoopTypes, PTL DEF Spec

-----------------------------------------------------------------------------
(* What the views show.                                                      *)

WatchTyped == turns \in [Procs -> 0..2] /\ undone \subseteq Reports

\* A view shows the page the report binds until the page changes, and one change
\* leaves another page than that.
Steady ==
    \A p \in Procs :
        job[p].at = "capture" =>
            /\ turns[p] = 0 =>
                   /\ Page = job[p].report.bound.page
                   /\ job[p].report.shown \subseteq {job[p].report.bound.page}
            /\ turns[p] = 1 => Page # job[p].report.bound.page

\* A report shows the page it binds, or a change was undone while it was captured.
ShowsBound(j) == j.report.shown = {j.report.bound.page} \/ j.report \in undone

WatchInv ==
    /\ WatchTyped
    /\ Steady
    /\ \A p \in Procs : job[p].at \in {"append", "report"} => ShowsBound(job[p])
    /\ \A r \in Routes : \A i \in DOMAIN history[r] : ShowsBound(history[r][i])

Measuring == {"capture", "append", "report"}

\* A step that leaves the page, the reports and the measurements under way alone.
LEMMA WatchStill ==
    ASSUME WatchInv, UNCHANGED <<source, built, history, watch>>,
           \A q \in Procs : job'[q] = job[q] \/ job'[q].at \notin Measuring
    PROVE  WatchInv'
<1>1. Page' = Page
  BY DEF Page
<1>2. WatchTyped'
  BY DEF WatchInv, WatchTyped, watch
<1>3. Steady'
  BY <1>1 DEF WatchInv, Steady, Measuring, watch
<1>4. /\ \A p \in Procs : job'[p].at \in {"append", "report"} => ShowsBound(job[p])'
      /\ \A r \in Routes : \A i \in DOMAIN history'[r] : ShowsBound(history[r][i])'
  BY DEF WatchInv, ShowsBound, Measuring, watch
<1>5. QED
  BY <1>2, <1>3, <1>4 DEF WatchInv

\* A change of the page is noted for the measurements under way.
LEMMA WatchTurn ==
    ASSUME WatchInv, Turn, UNCHANGED <<history, undone>>,
           \A q \in Procs : job'[q] = job[q] \/ job'[q].at \notin Measuring
    PROVE  WatchInv'
<1>1. \A q \in Procs :
          turns'[q] = IF ~Capturing(job'[q]) THEN 0
                      ELSE IF Page' # Page /\ turns[q] < 2 THEN turns[q] + 1
                      ELSE turns[q]
  BY DEF Turn
<1>2. \A q \in Procs : turns[q] \in 0..2
  BY DEF WatchInv, WatchTyped
<1>3. \A q \in Procs : turns'[q] \in 0..2
  BY <1>1, <1>2
<1>4. WatchTyped'
  BY <1>3 DEF WatchInv, WatchTyped, Turn
<1>5. Steady'
  <2> SUFFICES ASSUME NEW p \in Procs, job'[p].at = "capture"
               PROVE  /\ turns'[p] = 0 =>
                             /\ Page' = job'[p].report.bound.page
                             /\ job'[p].report.shown \subseteq {job'[p].report.bound.page}
                      /\ turns'[p] = 1 => Page' # job'[p].report.bound.page
    BY DEF Steady
  <2>1. job'[p] = job[p] /\ Capturing(job'[p])
    BY DEF Measuring, Capturing, Idle
  <2>2. /\ turns[p] = 0 => /\ Page = job[p].report.bound.page
                           /\ job[p].report.shown \subseteq {job[p].report.bound.page}
        /\ turns[p] = 1 => Page # job[p].report.bound.page
    BY <2>1 DEF WatchInv, Steady
  <2>3. CASE Page' = Page
    BY <1>1, <2>1, <2>2, <2>3
  <2>4. CASE Page' # Page
    <3>1. turns'[p] = IF turns[p] < 2 THEN turns[p] + 1 ELSE turns[p]
      BY <1>1, <2>1, <2>4
    <3>2. turns'[p] # 0 /\ (turns'[p] = 1 => turns[p] = 0)
      BY <1>2, <3>1
    <3>3. QED
      BY <2>1, <2>2, <2>4, <3>2
  <2>5. QED
    BY <2>3, <2>4
<1>6. /\ \A p \in Procs : job'[p].at \in {"append", "report"} => ShowsBound(job[p])'
      /\ \A r \in Routes : \A i \in DOMAIN history'[r] : ShowsBound(history[r][i])'
  BY DEF WatchInv, ShowsBound, Measuring
<1>7. QED
  BY <1>4, <1>5, <1>6 DEF WatchInv

\* A check that goes on binds the page of now, so it was changed never or twice.
LEMMA WatchCheck ==
    ASSUME LoopTyped, WatchInv, NEW p \in Procs, Check(p)
    PROVE  WatchInv'
<1>0. job[p] \in Jobs /\ job \in [Procs -> Jobs]
  BY DEF LoopTyped, StateOK, Jobs
<1>t. turns \in [Procs -> 0..2] /\ undone \subseteq Reports
  BY DEF WatchInv, WatchTyped
<1>1. CASE BeginCheck(p) \/ ReplaceReport(p)
  <2>1. PICK j : job' = [job EXCEPT ![p] = j] /\ j.at \notin Measuring
    BY <1>1 DEF BeginCheck, ReplaceReport, Become, Idle, Measuring
  <2>2. UNCHANGED <<source, built, history, watch>>
    BY <1>1 DEF BeginCheck, ReplaceReport, project, evidence
  <2>3. QED
    BY <1>0, <2>1, <2>2, WatchStill
<1>2. CASE BeginMeasure(p)
  <2> DEFINE j == [at |-> "capture", route |-> job[p].route, source |-> job[p].source,
                   report |-> [bound |-> Binding, shown |-> {}]]
  <2>1. /\ job' = [job EXCEPT ![p] = j] /\ turns' = [turns EXCEPT ![p] = 0]
        /\ UNCHANGED <<source, built, history, undone>>
    BY <1>2 DEF BeginMeasure, Become, project, evidence
  <2>2. /\ job'[p] = j /\ turns'[p] = 0
        /\ \A q \in Procs \ {p} : job'[q] = job[q] /\ turns'[q] = turns[q]
    BY <1>0, <1>t, <2>1
  <2>3. Page' = Page /\ j.report.bound.page = Page /\ j.report.shown = {}
    BY <2>1 DEF Page, Binding
  <2>4. WatchTyped'
    BY <1>t, <2>1 DEF WatchTyped
  <2>5. Steady'
    BY <2>2, <2>3 DEF WatchInv, Steady
  <2>6. QED
    BY <2>1, <2>2, <2>4, <2>5 DEF WatchInv, ShowsBound
<1>3. CASE Capture(p)
  <2>1. /\ job' = [job EXCEPT ![p].report.shown = @ \cup {Page}]
        /\ UNCHANGED <<source, built, history, turns, undone>>
    BY <1>3 DEF Capture, project, evidence, watch
  <2>2. job[p] \in CheckJob /\ job[p].at = "capture" /\ job[p].report \in Reports
    BY <1>0, <1>3, JobKinds DEF Capture, CheckJob
  <2>3. /\ job'[p].at = "capture" /\ job'[p].report.bound = job[p].report.bound
        /\ job'[p].report.shown = job[p].report.shown \cup {Page}
        /\ \A q \in Procs \ {p} : job'[q] = job[q]
    BY <1>0, <2>1, <2>2 DEF CheckJob, Reports
  <2>4. Page' = Page
    BY <2>1 DEF Page
  <2>5. Steady'
    <3> SUFFICES ASSUME NEW q \in Procs, job'[q].at = "capture"
                 PROVE  /\ turns[q] = 0 =>
                               /\ Page = job'[q].report.bound.page
                               /\ job'[q].report.shown \subseteq {job'[q].report.bound.page}
                        /\ turns[q] = 1 => Page # job'[q].report.bound.page
      BY <2>1, <2>4 DEF Steady
    <3>1. CASE q = p
      BY <2>2, <2>3, <3>1 DEF WatchInv, Steady
    <3>2. CASE q # p
      BY <2>3, <3>2 DEF WatchInv, Steady
    <3>3. QED
      BY <3>1, <3>2
  <2>6. QED
    BY <1>t, <2>1, <2>3, <2>5 DEF WatchInv, WatchTyped, ShowsBound
<1>4. CASE TakeCheck(p)
  <2>1. /\ job' = [job EXCEPT ![p].at = "append"]
        /\ turns' = [turns EXCEPT ![p] = 0]
        /\ undone' = IF turns[p] = 2 THEN undone \cup {job[p].report} ELSE undone
        /\ job[p].at = "capture" /\ job[p].report.shown # {}
        /\ job[p].report.bound.page = Page
        /\ UNCHANGED <<source, built, history>>
    BY <1>4 DEF TakeCheck, Move, Unchanged, Binding, project, evidence
  <2>2. job[p] \in CheckJob /\ job[p].report \in Reports
    BY <1>0, <2>1, JobKinds DEF CheckJob
  <2>3. /\ job'[p].at = "append" /\ job'[p].report = job[p].report
        /\ \A q \in Procs \ {p} : job'[q] = job[q] /\ turns'[q] = turns[q]
    BY <1>0, <1>t, <2>1, <2>2 DEF CheckJob
  <2>4. undone \subseteq undone' /\ undone' \subseteq Reports
    BY <1>t, <2>1, <2>2
  <2>5. WatchTyped'
    BY <1>t, <2>1, <2>4 DEF WatchTyped
  <2>6. Page' = Page
    BY <2>1 DEF Page
  <2>7. Steady'
    BY <2>3, <2>6 DEF WatchInv, Steady
  <2>8. ShowsBound(job[p])'
    <3>1. turns[p] \in 0..2
      BY <1>t
    <3>2. CASE turns[p] = 2
      BY <2>1, <2>3, <3>2 DEF ShowsBound
    <3>3. CASE turns[p] = 0
      <4>1. job[p].report.shown \subseteq {job[p].report.bound.page}
        BY <2>1, <3>3 DEF WatchInv, Steady
      <4>2. QED
        BY <2>1, <2>3, <4>1 DEF ShowsBound
    <3>4. CASE turns[p] = 1
      BY <2>1, <3>4 DEF WatchInv, Steady
    <3>5. QED
      BY <3>1, <3>2, <3>3, <3>4
  <2>9. \A q \in Procs : job'[q].at \in {"append", "report"} => ShowsBound(job[q])'
    BY <2>3, <2>4, <2>8 DEF WatchInv, ShowsBound
  <2>10. \A r \in Routes : \A i \in DOMAIN history'[r] : ShowsBound(history[r][i])'
    BY <2>1, <2>4 DEF WatchInv, ShowsBound
  <2>11. QED
    BY <2>5, <2>7, <2>9, <2>10 DEF WatchInv
<1>5. CASE RefuseCheck(p)
  <2>1. /\ job' = [job EXCEPT ![p] = Idle] /\ turns' = [turns EXCEPT ![p] = 0]
        /\ UNCHANGED <<source, built, history, undone>>
    BY <1>5 DEF RefuseCheck, Become, project, evidence
  <2>2. /\ job'[p].at = "idle"
        /\ \A q \in Procs \ {p} : job'[q] = job[q] /\ turns'[q] = turns[q]
    BY <1>0, <1>t, <2>1 DEF Idle
  <2>3. WatchTyped' /\ Page' = Page
    BY <1>t, <2>1 DEF WatchTyped, Page
  <2>4. Steady'
    BY <2>2, <2>3 DEF WatchInv, Steady
  <2>5. QED
    BY <2>1, <2>2, <2>3, <2>4 DEF WatchInv, ShowsBound
<1>6. CASE AppendIteration(p)
  <2> DEFINE r == job[p].route
             h == history[r]
             c == [checkpoint |-> job[p].source, report |-> job[p].report, review |-> 0]
             g == IF SameIteration(h, c) THEN h ELSE Append(h, c)
  <2>1. job[p].at = "append" /\ job[p] \in CheckJob /\ ShowsBound(job[p])
    BY <1>0, <1>6, JobKinds DEF AppendIteration, WatchInv
  <2>2. UNCHANGED <<source, built, turns, undone>>
    BY <1>6 DEF AppendIteration, project, watch
  <2>3. CASE source # job[p].source
    <3>1. job' = [job EXCEPT ![p] = Idle] /\ history' = history
      BY <1>6, <2>3 DEF AppendIteration, Become
    <3>2. QED
      BY <1>0, <2>2, <3>1, WatchStill DEF Idle, Measuring, watch
  <2>4. CASE source = job[p].source
    <3>1. job' = [job EXCEPT ![p].at = "report"] /\ history' = [history EXCEPT ![r] = g]
      BY <1>6, <2>4 DEF AppendIteration, Move
    <3>2. /\ h \in Seq(Iteration) /\ c \in Iteration
          /\ history \in [Routes -> Seq(Iteration)] /\ r \in Routes
      <4>1. r \in Routes /\ job[p].source \in Sources /\ job[p].report \in Reports
        BY <2>1 DEF CheckJob
      <4>2. c \in Iteration
        BY <4>1, FirstRenderAssumption DEF Iteration
      <4>3. history \in [Routes -> Seq(Iteration)]
        BY DEF LoopTyped, StateOK
      <4>4. QED
        BY <4>1, <4>2, <4>3
    <3>3. /\ job'[p].at = "report" /\ job'[p].report = job[p].report
          /\ \A q \in Procs \ {p} : job'[q] = job[q]
      BY <1>0, <2>1, <3>1 DEF CheckJob
    <3>4. \A i \in DOMAIN g : ShowsBound(g[i])
      <4>1. \A i \in DOMAIN h : ShowsBound(h[i])
        BY <3>2 DEF WatchInv
      <4>2. ShowsBound(c)
        BY <2>1 DEF ShowsBound
      <4>3. \A i \in DOMAIN Append(h, c) : Append(h, c)[i] = c \/
                (i \in DOMAIN h /\ Append(h, c)[i] = h[i])
        <5> HIDE DEF h, c
        <5> QED
          BY <3>2, Appended
      <4>4. QED
        BY <4>1, <4>2, <4>3
    <3>5. \A s \in Routes : \A i \in DOMAIN history'[s] : ShowsBound(history'[s][i])
      <4>1. history'[r] = g /\ \A s \in Routes \ {r} : history'[s] = history[s]
        BY <3>1, <3>2
      <4> HIDE DEF g
      <4>2. QED
        BY <3>4, <4>1 DEF WatchInv
    <3>6. Steady'
      <4>1. Page' = Page
        BY <2>2 DEF Page
      <4>2. QED
        BY <2>2, <3>3, <4>1 DEF WatchInv, Steady
    <3>7. \A q \in Procs : job'[q].at \in {"append", "report"} => ShowsBound(job[q])'
      BY <2>1, <2>2, <3>3 DEF WatchInv, ShowsBound
    <3>8. QED
      BY <1>t, <2>2, <3>5, <3>6, <3>7 DEF WatchInv, WatchTyped, ShowsBound
  <2>5. QED
    BY <2>3, <2>4
<1>7. QED
  BY <1>1, <1>2, <1>3, <1>4, <1>5, <1>6 DEF Check

\* A recorded verdict leaves the reports of the history what they are.
LEMMA WatchTake ==
    ASSUME LoopTyped, WatchInv, NEW p \in Procs, NEW findings \in SUBSET Findings,
           TakeReview(p, findings)
    PROVE  WatchInv'
<1> DEFINE k == Len(reviews) + 1
           h == history[route]
           g == Record(h, report, k)
           j == [at |-> "publish", packet |-> job[p].packet, id |-> k]
<1>0. job \in [Procs -> Jobs] /\ route \in Routes /\ MaxReviews \in Nat
      /\ history \in [Routes -> Seq(Iteration)]
  BY FirstRenderAssumption DEF LoopTyped, StateOK, Jobs
<1>1. /\ k \in ReviewIds /\ Slot(h, report) # 0 /\ h \in Seq(Iteration)
      /\ job[p].packet.route = route /\ job[p].packet.report = report
  BY TakenReview
<1>2. /\ history' = [history EXCEPT ![route] = g] /\ job' = [job EXCEPT ![p] = j]
      /\ UNCHANGED <<source, built, watch>>
  BY <1>1 DEF TakeReview, Become, project
<1>3. \A i \in DOMAIN g : \E l \in DOMAIN h : g[i].report = h[l].report
  <2>1. \A l \in DOMAIN h : [h[l] EXCEPT !.review = k].report = h[l].report
    BY <1>1 DEF Iteration
  <2>2. /\ \A i \in DOMAIN h : g[i] = h[i] \/ g[i] = [h[i] EXCEPT !.review = k]
        /\ \A i \in DOMAIN g \ DOMAIN h :
              \E l \in DOMAIN h : g[i] = [h[l] EXCEPT !.review = k]
    BY <1>0, <1>1, RecordKeeps
  <2> SUFFICES ASSUME NEW i \in DOMAIN g PROVE \E l \in DOMAIN h : g[i].report = h[l].report
    OBVIOUS
  <2> HIDE DEF g, h, k
  <2>3. CASE i \in DOMAIN h
    BY <2>1, <2>2, <2>3
  <2>4. CASE i \notin DOMAIN h
    <3>1. PICK l \in DOMAIN h : g[i] = [h[l] EXCEPT !.review = k]
      BY <2>2, <2>4
    <3>2. QED
      BY <2>1, <3>1
  <2>5. QED
    BY <2>3, <2>4
<1>4. history'[route] = g /\ \A s \in Routes \ {route} : history'[s] = history[s]
  BY <1>0, <1>2
<1>5. \A s \in Routes : \A i \in DOMAIN history'[s] : ShowsBound(history'[s][i])
  <2> HIDE DEF g
  <2>1. \A l \in DOMAIN h : ShowsBound(h[l])
    BY <1>0 DEF WatchInv
  <2>2. \A i \in DOMAIN g : ShowsBound(g[i])
    BY <1>3, <2>1 DEF ShowsBound
  <2>3. QED
    BY <1>4, <2>2 DEF WatchInv
<1>6. job'[p].at = "publish" /\ \A q \in Procs \ {p} : job'[q] = job[q]
  BY <1>0, <1>2
<1>7. WatchTyped' /\ Page' = Page /\ UNCHANGED <<turns, undone>>
  BY <1>2 DEF WatchInv, WatchTyped, Page, watch
<1>8. Steady'
  BY <1>6, <1>7 DEF WatchInv, Steady
<1>9. QED
  BY <1>5, <1>6, <1>7, <1>8 DEF WatchInv, ShowsBound

\* Every step.
LEMMA WatchStep == LoopTyped /\ WatchInv /\ [Next]_vars => WatchInv'
<1> SUFFICES ASSUME LoopTyped, WatchInv, [Next]_vars PROVE WatchInv'
  OBVIOUS
<1>0. job \in [Procs -> Jobs]
  BY DEF LoopTyped, StateOK, Jobs
<1>1. CASE UNCHANGED vars
  BY <1>1, WatchStill DEF vars, project, evidence
<1>2. CASE Maker
  <2>1. CASE (\E f \in Files, c \in Contents : Edit(f, c)) \/ Build
    BY <2>1, WatchTurn DEF Edit, Build, evidence
  <2>2. CASE \/ \E v \in Feedbacks : GiveFeedback(v)
             \/ \E r \in Routes : PublishRoute(r)
    BY <2>2, WatchStill DEF GiveFeedback, PublishRoute, evidence
  <2>3. QED
    BY <1>2, <2>1, <2>2 DEF Maker
<1>3. ASSUME NEW p \in Procs, Review(p)
      PROVE  WatchInv'
  <2>1. CASE \E findings \in SUBSET Findings : TakeReview(p, findings)
    BY <2>1, WatchTake
  <2>2. CASE ReturnReview(p) \/ AcceptRetained(p)
    BY <2>2, WatchStill DEF ReturnReview, AcceptRetained, project, evidence
  <2>3. CASE AskReviewer(p) \/ RefuseReview(p) \/ PublishReview(p)
    <3>1. PICK j : job' = [job EXCEPT ![p] = j] /\ j.at \notin Measuring
      BY <2>3 DEF AskReviewer, RefuseReview, PublishReview, Become, Idle, Measuring
    <3>2. UNCHANGED <<source, built, history, watch>>
      BY <2>3 DEF AskReviewer, RefuseReview, PublishReview, project, evidence
    <3>3. QED
      BY <1>0, <3>1, <3>2, WatchStill
  <2>4. QED
    BY <1>3, <2>1, <2>2, <2>3 DEF Review
<1>4. ASSUME NEW p \in Procs, Restore(p)
      PROVE  WatchInv'
  <2>1. ASSUME NEW i \in 1..MaxIterations, BeginRestore(p, i)
        PROVE  WatchInv'
    <3> DEFINE j == [at |-> "planned", route |-> route, seen |-> history[route], target |-> i,
                     todo |-> Differing(history[route][i].checkpoint)]
    <3>1. job' = [job EXCEPT ![p] = j] /\ UNCHANGED <<source, built, history, watch>>
      BY <2>1 DEF BeginRestore, Become, project, evidence
    <3>2. j.at \notin Measuring
      BY DEF Measuring
    <3> HIDE DEF j
    <3>3. QED
      BY <1>0, <3>1, <3>2, WatchStill
  <2>2. CASE RefuseRestore(p) \/ WriteReceipt(p)
    <3>1. job' = [job EXCEPT ![p] = Idle] /\ UNCHANGED <<source, built, history, watch>>
      BY <2>2 DEF RefuseRestore, WriteReceipt, Become, project, evidence
    <3>2. QED
      BY <1>0, <3>1, WatchStill DEF Idle, Measuring
  <2>3. CASE TakeRestore(p)
    <3>1. job[p] \in RestoreJob
      BY <1>0, <2>3, JobKinds DEF TakeRestore
    <3>2. job' = [job EXCEPT ![p].at = "writing"] /\ UNCHANGED <<source, built, history, watch>>
      BY <2>3 DEF TakeRestore, Move, project, evidence
    <3>3. job'[p].at = "writing" /\ \A q \in Procs \ {p} : job'[q] = job[q]
      BY <1>0, <3>1, <3>2 DEF RestoreJob
    <3>4. QED
      BY <3>2, <3>3, WatchStill DEF Measuring
  <2>4. ASSUME NEW f \in Files, RestoreFile(p, f)
        PROVE  WatchInv'
    <3>1. job[p] \in RestoreJob /\ job[p].at = "writing"
      BY <1>0, <2>4, JobKinds DEF RestoreFile
    <3>2. /\ job' = [job EXCEPT ![p].todo = @ \ {f}] /\ Turn
          /\ UNCHANGED <<history, undone>>
      BY <2>4 DEF RestoreFile, evidence
    <3>3. job'[p].at = "writing" /\ \A q \in Procs \ {p} : job'[q] = job[q]
      BY <1>0, <3>1, <3>2 DEF RestoreJob
    <3>4. QED
      BY <3>2, <3>3, WatchTurn DEF Measuring
  <2>5. QED
    BY <1>4, <2>1, <2>2, <2>3, <2>4 DEF Restore
<1>5. ASSUME NEW p \in Procs, Crash(p)
      PROVE  WatchInv'
  <2>1. job' = [job EXCEPT ![p] = Idle] /\ Turn /\ UNCHANGED <<history, undone>>
    BY <1>5 DEF Crash, Become
  <2>2. QED
    BY <1>0, <2>1, WatchTurn DEF Idle, Measuring
<1>6. QED
  BY <1>1, <1>2, <1>3, <1>4, <1>5, WatchCheck DEF Next

\* At first nothing is captured.
LEMMA WatchInit == Init => WatchInv
<1> SUFFICES ASSUME Init PROVE WatchInv
  OBVIOUS
<1>1. turns \in [Procs -> 0..2] /\ undone = {}
  BY DEF Init
<1>2. \A p \in Procs : job[p].at = "idle"
  BY DEF Init, Idle
<1>3. \A r \in Routes : history[r] = <<>>
  BY DEF Init
<1>4. QED
  BY <1>1, <1>2, <1>3 DEF WatchInv, WatchTyped, Steady

\* What the views of a report show is known throughout.
THEOREM WatchInvariant == Spec => []WatchInv
<1>1. LoopTyped /\ WatchInv /\ [Next]_vars => WatchInv'
  BY WatchStep
<1>2. QED
  BY <1>1, WatchInit, LoopTypes, PTL DEF Spec

-----------------------------------------------------------------------------
(* The theorems.                                                             *)

\* Every variable keeps its type.
THEOREM LoopTypeOK == Spec => []TypeOK
<1>1. LoopTyped /\ WatchInv => TypeOK
  BY DEF LoopTyped, WatchInv, WatchTyped, StateOK, TypeOK
<1>2. QED
  BY <1>1, LoopTypes, WatchInvariant, PTL

\* An iteration's report binds the checkpoint a restore brings back, and every view
\* of it shows the page it binds, however many commands run and whatever the maker
\* edits meanwhile, unless a change of the page was undone between two views.
THEOREM CheckpointMatchesReport == Spec => []CheckpointIsWhatWasMeasured
<1>1. LoopInv /\ WatchInv => CheckpointIsWhatWasMeasured
  <2> SUFFICES ASSUME LoopInv, WatchInv, NEW r \in Routes, NEW i \in DOMAIN history[r]
               PROVE  /\ history[r][i].report.bound.route = r
                      /\ history[r][i].report.bound.source = history[r][i].checkpoint
                      /\ built = None =>
                             history[r][i].report.bound.page = history[r][i].checkpoint
                      /\ \/ history[r][i].report.shown = {history[r][i].report.bound.page}
                         \/ history[r][i].report \in undone
    BY DEF CheckpointIsWhatWasMeasured
  <2>1. QED
    BY DEF LoopInv, HistoryBound, BindsPage, WatchInv, ShowsBound
<1>2. QED
  BY <1>1, LoopInvariant, WatchInvariant, PTL

\* The current report always has an iteration, also after a kill between the two.
THEOREM ReportKeepsIteration == Spec => []ReportHasIteration
<1>1. LoopInv => ReportHasIteration
  BY DEF LoopInv
<1>2. QED
  BY <1>1, LoopInvariant, PTL

\* Every recorded verdict is on an iteration of its route and report.
THEOREM VerdictFiledRight == Spec => []VerdictOnItsIteration
<1>1. LoopInv => VerdictOnItsIteration
  BY DEF LoopInv
<1>2. QED
  BY <1>1, LoopInvariant, PTL

\* A verdict a command acts on was given to the page, route and feedback current
\* when it was taken.
THEOREM VerdictStaysCurrent == Spec => []VerdictIsCurrent
<1>1. Init => VerdictIsCurrent
  BY DEF Init, VerdictIsCurrent
<1>2. LoopTyped /\ VerdictIsCurrent /\ [Next]_vars => VerdictIsCurrent'
  <2> SUFFICES ASSUME LoopTyped, VerdictIsCurrent, [Next]_vars PROVE VerdictIsCurrent'
    OBVIOUS
  <2>1. CASE UNCHANGED vars
    BY <2>1 DEF vars, evidence, VerdictIsCurrent
  <2>2. CASE verdict' = None
    BY <2>2 DEF VerdictIsCurrent
  <2>3. ASSUME NEW p \in Procs, ReturnReview(p)
        PROVE  VerdictIsCurrent'
    <3>1. /\ verdict' = [review |-> review, bound |-> Binding, feedback |-> feedback]
          /\ reviews' = reviews
      BY <2>3 DEF ReturnReview, ActOn, evidence
    <3>2. report.bound = Binding /\ Binding.route = route
      BY <2>3 DEF ReturnReview, Readable, ReportIsCurrent, Binding
    <3>3. CASE Spent
      <4>1. verdict'.bound.route \in Studio
        BY <3>1, <3>2, <3>3 DEF Spent
      <4>2. QED
        BY <4>1 DEF VerdictIsCurrent
    <3>4. CASE Reusable
      <4>1. /\ CurrentReview = review /\ reviews[review].packet.route = route
            /\ reviews[review].packet.report = report
            /\ reviews[review].packet.feedback = feedback
        BY <3>4, CurrentReviewIsKnown DEF Reusable, LoopTyped
      <4>2. QED
        BY <3>1, <3>2, <4>1 DEF VerdictIsCurrent, Binding
    <3>5. QED
      BY <2>3, <3>3, <3>4 DEF ReturnReview
  <2>4. ASSUME NEW p \in Procs, AcceptRetained(p)
        PROVE  VerdictIsCurrent'
    <3>1. /\ verdict' = [review |-> review, bound |-> Binding, feedback |-> feedback]
          /\ reviews' = reviews
      BY <2>4 DEF AcceptRetained, ActOn, evidence
    <3>2. /\ reviews[review].packet.route = route
          /\ reviews[review].packet.report.bound = Binding
          /\ reviews[review].packet.feedback = feedback
      BY <2>4 DEF AcceptRetained, RetainStands, ReportIsCurrent, Packet
    <3>3. QED
      BY <3>1, <3>2 DEF VerdictIsCurrent, Binding
  <2>5. ASSUME NEW p \in Procs, NEW findings \in SUBSET Findings,
               TakeReview(p, findings)
        PROVE  VerdictIsCurrent'
    <3> DEFINE k == Len(reviews) + 1
               rec == [packet |-> job[p].packet, findings |-> findings]
    <3>1. /\ verdict' = [review |-> k, bound |-> Binding, feedback |-> feedback]
          /\ reviews' = Append(reviews, rec)
      BY <2>5 DEF TakeReview, ActOn
    <3>2. /\ job[p].packet \in Packets
          /\ job[p].packet.route = route /\ job[p].packet.report.bound = Binding
          /\ job[p].packet.feedback = feedback
      BY <2>5, TakenReview
    <3>3. reviews \in Seq(ReviewRecord) /\ rec \in ReviewRecord
      BY <3>2 DEF LoopTyped, StateOK, ReviewRecord
    <3>4. reviews'[k] = rec
      BY <3>1, <3>3
    <3>5. QED
      BY <3>1, <3>2, <3>4 DEF VerdictIsCurrent, Binding
  <2>6. CASE Next
    <3>1. ASSUME Maker PROVE verdict' = None
      BY <3>1 DEF Maker, Edit, Build, GiveFeedback, PublishRoute
    <3>2. ASSUME NEW p \in Procs, Check(p) PROVE verdict' = None
      BY <3>2 DEF Check, BeginCheck, BeginMeasure, Capture, TakeCheck, RefuseCheck,
         AppendIteration, ReplaceReport
    <3>3. ASSUME NEW p \in Procs, Restore(p) \/ Crash(p) PROVE verdict' = None
      BY <3>3 DEF Restore, BeginRestore, TakeRestore, RefuseRestore, RestoreFile,
         WriteReceipt, Crash
    <3>4. ASSUME NEW p \in Procs, AskReviewer(p) \/ RefuseReview(p) \/ PublishReview(p)
          PROVE  verdict' = None
      BY <3>4 DEF AskReviewer, RefuseReview, PublishReview
    <3>5. QED
      BY <2>2, <2>3, <2>4, <2>5, <2>6, <3>1, <3>2, <3>3, <3>4 DEF Next, Review
  <2>7. QED
    BY <2>1, <2>6
<1>3. QED
  BY <1>1, <1>2, LoopTypes, PTL DEF Spec

\* A restore that reports success has put the whole checkpoint back, unless the
\* maker edited while it was writing.
THEOREM RestorePutsAllBack == Spec => RestoreIsWhole
<1>1. LoopTyped /\ LoopInv /\ [Next]_vars =>
          [\A r \in Routes :
              receipt'[r] # receipt[r] /\ ~edited =>
                  source' = history[r][receipt'[r]].checkpoint]_receipt
  <2> SUFFICES ASSUME LoopTyped, LoopInv, Next, receipt' # receipt,
                      NEW r \in Routes, receipt'[r] # receipt[r], ~edited
               PROVE  source' = history[r][receipt'[r]].checkpoint
    BY DEF vars, evidence
  <2>1. PICK p \in Procs : WriteReceipt(p)
    <3>1. ~Maker
      BY DEF Maker, Edit, Build, GiveFeedback, PublishRoute, evidence
    <3>2. ASSUME NEW p \in Procs PROVE ~Check(p)
      BY DEF Check, BeginCheck, BeginMeasure, Capture, TakeCheck, RefuseCheck,
         AppendIteration, ReplaceReport, evidence
    <3>3. ASSUME NEW p \in Procs PROVE ~Review(p)
      BY DEF Review, ReturnReview, AskReviewer, RefuseReview, PublishReview,
         AcceptRetained, TakeReview, evidence
    <3>4. ASSUME NEW p \in Procs, Restore(p) PROVE WriteReceipt(p)
      BY <3>4 DEF Restore, BeginRestore, TakeRestore, RefuseRestore, RestoreFile, evidence
    <3>5. ASSUME NEW p \in Procs PROVE ~Crash(p)
      BY DEF Crash
    <3>6. QED
      BY <3>1, <3>2, <3>3, <3>4, <3>5 DEF Next
  <2> DEFINE j == job[p]
             c == j.seen[j.target].checkpoint
  <2>2. j \in RestoreJob /\ j.at = "writing" /\ j.todo = {}
    BY <2>1, JobKinds DEF WriteReceipt, LoopTyped, StateOK, Jobs
  <2>3. /\ receipt' = [receipt EXCEPT ![j.route] = j.target]
        /\ source' = source
    BY <2>1 DEF WriteReceipt, project
  <2>4. r = j.route /\ receipt'[r] = j.target
    BY <2>2, <2>3 DEF LoopTyped, StateOK
  <2>5. history[r] = j.seen /\ \A f \in Files : source[f] = c[f]
    BY <2>2, <2>4 DEF LoopInv, RestoreUnderWay
  <2>6. j.seen[j.target] \in Iteration
    BY <2>2 DEF LoopTyped, JobsReady, JobReady, RestoreJob
  <2>7. c \in Sources /\ source \in Sources
    BY <2>6 DEF Iteration, LoopTyped, StateOK
  <2>8. source = c
    BY <2>5, <2>7 DEF Sources
  <2>9. QED
    BY <2>3, <2>4, <2>5, <2>8
<1>2. QED
  BY <1>1, LoopTypes, LoopInvariant, PTL DEF Spec, RestoreIsWhole

\* Iterations are appended, and a verdict once recorded is never replaced.
THEOREM HistoryKept == Spec => HistoryIsKept
<1> DEFINE Kept(h, g) ==
             /\ Len(g) >= Len(h)
             /\ \A i \in DOMAIN h :
                   \/ g[i] = h[i]
                   \/ /\ h[i].review = 0
                      /\ g[i] = [h[i] EXCEPT !.review = g[i].review]
<1>1. ASSUME LoopTyped, Next, history' # history, NEW r \in Routes
      PROVE  Kept(history[r], history'[r])
  <2>0. /\ history \in [Routes -> Seq(Iteration)] /\ job \in [Procs -> Jobs]
        /\ Len(history[r]) \in Nat /\ history[r] \in Seq(Iteration)
    BY <1>1 DEF LoopTyped, StateOK, Jobs
  <2>1. ASSUME NEW p \in Procs, AppendIteration(p)
        PROVE  Kept(history[r], history'[r])
    <3> DEFINE h == history[job[p].route]
               c == [checkpoint |-> job[p].source, report |-> job[p].report, review |-> 0]
    <3>1. job[p] \in CheckJob
      BY <2>0, <2>1, JobKinds DEF AppendIteration
    <3>2. history' = [history EXCEPT ![job[p].route] =
                         IF SameIteration(h, c) THEN h ELSE Append(h, c)]
      BY <1>1, <2>1 DEF AppendIteration
    <3>3. c \in Iteration
      BY <1>1, <2>1, <3>1, FirstRenderAssumption
      DEF AppendIteration, CheckJob, Iteration
    <3>4. CASE history'[r] = history[r]
      BY <2>0, <3>4
    <3>5. CASE history'[r] = Append(history[r], c)
      BY <2>0, <3>3, <3>5
    <3>6. history'[r] \in {history[r], Append(history[r], c)}
      BY <2>0, <3>2
    <3>7. QED
      BY <3>4, <3>5, <3>6
  <2>2. ASSUME NEW p \in Procs, NEW findings \in SUBSET Findings,
               TakeReview(p, findings)
        PROVE  Kept(history[r], history'[r])
    <3> DEFINE k == Len(reviews) + 1
               h == history[route]
               g == Record(h, report, k)
    <3>1. /\ job[p].packet.route = route /\ job[p].packet.report = report
          /\ k \in ReviewIds /\ Slot(h, report) # 0 /\ h \in Seq(Iteration)
      BY <1>1, <2>2, TakenReview
    <3>2. history' = [history EXCEPT ![route] = g]
      BY <2>0, <2>2, <3>1 DEF TakeReview
    <3>3. /\ Len(g) \in {Len(h), Len(h) + 1}
          /\ \A i \in DOMAIN h :
                \/ g[i] = h[i]
                \/ /\ h[i].review = 0 /\ h[i].report = report
                   /\ g[i] = [h[i] EXCEPT !.review = k]
      BY <3>1, FirstRenderAssumption, RecordKeeps
    <3>4. \A i \in DOMAIN h : h[i] \in Iteration
      BY <3>1
    <3>5. Kept(h, g)
      <4>1. Len(g) >= Len(h)
        BY <3>1, <3>3
      <4>2. ASSUME NEW i \in DOMAIN h, g[i] # h[i]
            PROVE  h[i].review = 0 /\ g[i] = [h[i] EXCEPT !.review = g[i].review]
        <5>1. h[i].review = 0 /\ g[i] = [h[i] EXCEPT !.review = k]
          BY <3>3, <4>2
        <5>2. g[i].review = k
          BY <3>4, <5>1 DEF Iteration
        <5> HIDE DEF g, h, k
        <5>3. QED
          BY <5>1, <5>2
      <4> HIDE DEF g, h
      <4>3. QED
        BY <4>1, <4>2
    <3>6. CASE r = route
      BY <2>0, <3>2, <3>5, <3>6
    <3>7. CASE r # route
      BY <2>0, <3>2, <3>7
    <3>8. QED
      BY <3>6, <3>7
  <2>3. ~Maker
    BY <1>1 DEF Maker, Edit, Build, GiveFeedback, PublishRoute, evidence
  <2>4. ASSUME NEW p \in Procs, Check(p) PROVE AppendIteration(p)
    BY <1>1, <2>4 DEF Check, BeginCheck, BeginMeasure, Capture, TakeCheck, RefuseCheck,
       ReplaceReport, evidence
  <2>5. ASSUME NEW p \in Procs, Review(p)
        PROVE  \E findings \in SUBSET Findings : TakeReview(p, findings)
    BY <1>1, <2>5 DEF Review, ReturnReview, AskReviewer, RefuseReview, PublishReview,
       AcceptRetained, evidence
  <2>6. ASSUME NEW p \in Procs PROVE ~Restore(p)
    BY <1>1 DEF Restore, BeginRestore, TakeRestore, RefuseRestore, RestoreFile,
       WriteReceipt, evidence
  <2>7. ASSUME NEW p \in Procs PROVE ~Crash(p)
    BY <1>1 DEF Crash
  <2>8. QED
    BY <1>1, <2>1, <2>2, <2>3, <2>4, <2>5, <2>6, <2>7 DEF Next
<1>2. LoopTyped /\ [Next]_vars => [\A r \in Routes : Kept(history[r], history'[r])]_history
  BY <1>1 DEF vars, evidence
<1>3. QED
  BY <1>2, LoopTypes, PTL DEF Spec, HistoryIsKept

-----------------------------------------------------------------------------
(* The chain of reviews, and how often evidence is judged.                   *)

\* Who is about to write review.json has the last review.
Published == \A p \in Procs : job[p].at = "publish" => job[p].id = Len(reviews)

\* A review that continues another reconciles what that one found.
Linked ==
    \A k \in DOMAIN reviews :
        /\ reviews[k].packet.previous < k
        /\ reviews[k].packet.previous # 0 =>
              reviews[k].packet.prior = reviews[reviews[k].packet.previous].findings

\* The reviews that follow one of their route and do not continue it.
Broken ==
    {k \in DOMAIN reviews :
        /\ k > 1 /\ reviews[k - 1].packet.route = reviews[k].packet.route
        /\ reviews[k].packet.previous # k - 1}

\* A review that is not in review.json, and will not be: the next one may not continue it.
Debt == IF review = Len(reviews) \/ \E p \in Procs : job[p].at = "publish" THEN 0 ELSE 1

\* Every break of the chain, and the one that may come, has been paid for by a kill.
Paid == Cardinality(Broken) + Debt <= crashes

\* Every review is in the history of its route, on one iteration.
Filed ==
    \A k \in DOMAIN reviews :
        \E i \in DOMAIN history[reviews[k].packet.route] :
            history[reviews[k].packet.route][i].review = k

FiledOnce ==
    \A r \in Routes : \A i, j \in DOMAIN history[r] :
        history[r][i].review # 0 /\ history[r][i].review = history[r][j].review => i = j

\* A reviewer is asked about a new page only as long as it has no review.
AskedFirst ==
    /\ \A p \in Procs :
          job[p].at = "judging" /\ job[p].packet.route \in Studio =>
              job[p].packet.previous = 0
    /\ \A k \in DOMAIN reviews :
          reviews[k].packet.route \in Studio => reviews[k].packet.previous = 0

ChainInv == Published /\ Linked /\ Paid /\ Filed /\ FiledOnce /\ AskedFirst

LEMMA ChainInit == Init => ChainInv
<1> SUFFICES ASSUME Init PROVE ChainInv
  OBVIOUS
<1>1. reviews = <<>> /\ review = 0 /\ history = [r \in Routes |-> <<>>]
      /\ \A p \in Procs : job[p] = Idle
  BY DEF Init
<1>2. Published /\ AskedFirst
  BY <1>1 DEF Published, AskedFirst, Idle
<1>3. Linked /\ Filed /\ FiledOnce
  BY <1>1 DEF Linked, Filed, FiledOnce
<1>4. Paid
  <2>1. Broken = {} /\ Debt = 0 /\ crashes = 0
    BY <1>1 DEF Broken, Debt, Init
  <2>2. QED
    BY <2>1, FS_EmptySet DEF Paid
<1>5. QED
  BY <1>2, <1>3, <1>4 DEF ChainInv

\* Every recorded review is of a route and may be counted.
LEMMA ReviewTyped ==
    ASSUME LoopTyped
    PROVE  /\ reviews \in Seq(ReviewRecord) /\ Len(reviews) \in Nat
           /\ DOMAIN reviews = 1..Len(reviews)
           /\ \A k \in DOMAIN reviews :
                 /\ reviews[k].packet.route \in Routes
                 /\ reviews[k].packet.previous \in 0..MaxReviews
<1>1. reviews \in Seq(ReviewRecord)
  BY DEF LoopTyped, StateOK
<1>2. \A k \in DOMAIN reviews : reviews[k] \in ReviewRecord
  BY <1>1
<1>3. \A k \in DOMAIN reviews : reviews[k].packet \in Packets
  BY <1>2 DEF ReviewRecord
<1>4. QED
  BY <1>1, <1>3 DEF Packets

\* The breaks can be counted.
LEMMA BrokenFinite ==
    ASSUME LoopTyped
    PROVE  /\ IsFiniteSet(Broken) /\ Cardinality(Broken) \in Nat
           /\ Debt \in {0, 1} /\ crashes \in Nat
<1>1. Len(reviews) \in Nat /\ DOMAIN reviews = 1..Len(reviews)
  BY ReviewTyped
<1>2. IsFiniteSet(DOMAIN reviews)
  BY <1>1, FS_Interval
<1>3. Broken \in SUBSET DOMAIN reviews
  BY DEF Broken
<1>4. IsFiniteSet(Broken)
  BY <1>2, <1>3, FS_Subset
<1>5. crashes \in Nat
  BY FirstRenderAssumption DEF LoopTyped, StateOK
<1>6. QED
  BY <1>4, <1>5, FS_CardinalityType DEF Debt

\* A step that records no review leaves the breaks; a kill adds to the debt one at most.
LEMMA PaidKept ==
    ASSUME LoopTyped, Paid, UNCHANGED reviews,
           \/ crashes' = crashes + 1
           \/ crashes' = crashes /\ Debt' \in {0, Debt}
    PROVE  Paid'
<1>1. Broken' = Broken
  BY DEF Broken
<1>2. Debt' \in {0, 1}
  BY DEF Debt
<1>3. Cardinality(Broken) \in Nat /\ Debt \in {0, 1} /\ crashes \in Nat
  BY BrokenFinite
<1>4. Cardinality(Broken) + Debt <= crashes
  BY DEF Paid
<1>5. Cardinality(Broken) + Debt' <= crashes'
  <2>1. CASE crashes' = crashes + 1
    BY <1>2, <1>3, <1>4, <2>1
  <2>2. CASE crashes' = crashes /\ Debt' \in {0, Debt}
    BY <1>3, <1>4, <2>2
  <2>3. QED
    BY <2>1, <2>2
<1>6. QED
  BY <1>1, <1>5 DEF Paid

\* A step that records nothing, by a command that neither publishes nor asks; or a
\* kill, which may leave one review out of review.json.
LEMMA ChainJob ==
    ASSUME LoopTyped, ChainInv, NEW p \in Procs, NEW j,
           job' = [job EXCEPT ![p] = j],
           j.at \notin {"judging", "publish"},
           UNCHANGED <<history, reviews>>,
           \/ crashes' = crashes + 1
           \/ job[p].at # "publish" /\ UNCHANGED <<review, crashes>>
    PROVE  ChainInv'
<1>1. \A q \in Procs : job'[q] = IF q = p THEN j ELSE job[q]
  BY DEF LoopTyped, StateOK
<1>2. Published'
  BY <1>1 DEF ChainInv, Published
<1>3. Linked'
  BY DEF ChainInv, Linked
<1>4. Filed' /\ FiledOnce'
  BY DEF ChainInv, Filed, FiledOnce
<1>5. AskedFirst'
  BY <1>1 DEF ChainInv, AskedFirst
<1>6. Paid'
  <2>1. job[p].at # "publish" /\ UNCHANGED <<review, crashes>> => Debt' = Debt
    BY <1>1 DEF Debt
  <2>2. QED
    BY <2>1, PaidKept DEF ChainInv
<1>7. QED
  BY <1>2, <1>3, <1>4, <1>5, <1>6 DEF ChainInv

\* A step that leaves the evidence and the jobs alone.
LEMMA ChainRest ==
    ASSUME ChainInv, UNCHANGED <<history, reviews, review, job, crashes>>
    PROVE  ChainInv'
<1>1. Paid'
  BY DEF ChainInv, Paid, Broken, Debt
<1>2. QED
  BY <1>1 DEF ChainInv, Published, Linked, Filed, FiledOnce, AskedFirst

\* A new iteration has no review.
LEMMA ChainAppend ==
    ASSUME LoopTyped, ChainInv, NEW p \in Procs, AppendIteration(p)
    PROVE  ChainInv'
<1> DEFINE r == job[p].route
           h == history[r]
           c == [checkpoint |-> job[p].source, report |-> job[p].report, review |-> 0]
<1>1. job[p] \in Jobs /\ job[p].at = "append" /\ job \in [Procs -> Jobs]
  BY DEF LoopTyped, StateOK, Jobs, AppendIteration
<1>2. job[p] \in CheckJob
  BY <1>1, JobKinds
<1>3. r \in Routes /\ h \in Seq(Iteration) /\ history \in [Routes -> Seq(Iteration)]
  BY <1>2 DEF LoopTyped, StateOK, CheckJob
<1>4. UNCHANGED <<reviews, review, crashes>>
  BY DEF AppendIteration, bounds
<1>5. CASE source # job[p].source
  <2>1. job' = [job EXCEPT ![p] = Idle] /\ history' = history
    BY <1>5 DEF AppendIteration, Become
  <2>2. Idle.at \notin {"judging", "publish"}
    BY DEF Idle
  <2>3. QED
    BY <1>1, <1>4, <2>1, <2>2, ChainJob
<1>6. CASE source = job[p].source
  <2>1. /\ history' = [history EXCEPT ![r] = IF SameIteration(h, c) THEN h ELSE Append(h, c)]
        /\ job' = [job EXCEPT ![p].at = "report"]
    BY <1>6 DEF AppendIteration, Move
  <2>2. c \in Iteration
    BY <1>1, <1>2, FirstRenderAssumption DEF CheckJob, Iteration
  <2>3. ASSUME NEW s \in Routes
        PROVE  /\ DOMAIN history[s] \subseteq DOMAIN history'[s]
               /\ \A i \in DOMAIN history[s] : history'[s][i] = history[s][i]
               /\ \A i \in DOMAIN history'[s] \ DOMAIN history[s] : history'[s][i].review = 0
    <3>1. CASE history'[s] = history[s]
      BY <3>1
    <3>2. CASE s = r /\ history'[s] = Append(h, c)
      <4>1. c.review = 0
        OBVIOUS
      <4> HIDE DEF h, c
      <4>2. QED
        BY <1>3, <2>2, <3>2, <4>1, Appended DEF h
    <3>3. QED
      BY <1>3, <2>1, <3>1, <3>2
  <2>4. \A q \in Procs : job'[q].at \in {"judging", "publish"} => job'[q] = job[q]
    BY <1>1, <1>2, <2>1 DEF CheckJob
  <2>5. \A q \in Procs : job[q].at = "publish" => job'[q] = job[q]
    BY <1>1, <2>1
  <2>6. Published' /\ Paid'
    <3>1. Published'
      BY <1>4, <2>4, <2>5 DEF ChainInv, Published
    <3>2. Debt' = Debt
      BY <1>4, <2>4, <2>5 DEF Debt
    <3>3. QED
      BY <1>4, <3>1, <3>2, PaidKept DEF ChainInv
  <2>7. Linked' /\ AskedFirst'
    <3>1. Linked'
      BY <1>4 DEF ChainInv, Linked
    <3>2. AskedFirst'
      BY <1>4, <2>4 DEF ChainInv, AskedFirst
    <3>3. QED
      BY <3>1, <3>2
  <2>8. Filed'
    <3> SUFFICES ASSUME NEW k \in DOMAIN reviews
                 PROVE  \E i \in DOMAIN history'[reviews[k].packet.route] :
                            history'[reviews[k].packet.route][i].review = k
      BY <1>4 DEF Filed
    <3>1. reviews[k].packet.route \in Routes
      BY ReviewTyped
    <3>2. PICK i \in DOMAIN history[reviews[k].packet.route] :
              history[reviews[k].packet.route][i].review = k
      BY DEF ChainInv, Filed
    <3>3. QED
      BY <2>3, <3>1, <3>2
  <2>9. FiledOnce'
    <3> SUFFICES ASSUME NEW s \in Routes, NEW i \in DOMAIN history'[s],
                        NEW l \in DOMAIN history'[s],
                        history'[s][i].review # 0,
                        history'[s][i].review = history'[s][l].review
                 PROVE  i = l
      BY DEF FiledOnce
    <3>1. i \in DOMAIN history[s] /\ l \in DOMAIN history[s]
      BY <2>3
    <3>2. history'[s][i] = history[s][i] /\ history'[s][l] = history[s][l]
      BY <2>3, <3>1
    <3>3. QED
      BY <3>1, <3>2 DEF ChainInv, FiledOnce
  <2>10. QED
    BY <2>6, <2>7, <2>8, <2>9 DEF ChainInv
<1>7. QED
  BY <1>5, <1>6

\* A command that asks a reviewer about a new page has found no review of it.
LEMMA ChainAsk ==
    ASSUME LoopTyped, ChainInv, NEW p \in Procs, AskReviewer(p)
    PROVE  ChainInv'
<1> DEFINE j == [at |-> "judging", packet |-> Packet(CurrentReview)]
<1>1. /\ job[p] = Idle /\ ~Spent
      /\ job' = [job EXCEPT ![p] = j]
      /\ UNCHANGED <<history, reviews, review, crashes>>
  BY DEF AskReviewer, Become, evidence, bounds
<1>2. \A q \in Procs : job'[q] = IF q = p THEN j ELSE job[q]
  BY <1>1 DEF LoopTyped, StateOK
<1>3. j.at = "judging" /\ j.packet.route = route /\ j.packet.previous = CurrentReview
  BY DEF Packet
<1>4. route \in Studio => CurrentReview = 0
  <2> SUFFICES ASSUME route \in Studio, CurrentReview # 0 PROVE FALSE
    OBVIOUS
  <2>1. /\ CurrentReview = review /\ review # 0 /\ review \in DOMAIN reviews
        /\ reviews[review].packet.route = route
    BY CurrentReviewIsKnown, ReviewTyped DEF LoopTyped
  <2>2. PICK i \in DOMAIN history[route] : history[route][i].review = review
    BY <2>1 DEF ChainInv, Filed
  <2>3. QED
    BY <1>1, <2>1, <2>2 DEF Spent, Reviewed
<1>5. Idle.at = "idle"
  BY DEF Idle
<1> HIDE DEF j
<1>6. Published' /\ Paid'
  <2>1. Published'
    BY <1>1, <1>2, <1>3, <1>5 DEF ChainInv, Published
  <2>2. Debt' = Debt
    BY <1>1, <1>2, <1>3, <1>5 DEF Debt
  <2>3. QED
    BY <1>1, <2>1, <2>2, PaidKept DEF ChainInv
<1>7. AskedFirst'
  BY <1>1, <1>2, <1>3, <1>4 DEF ChainInv, AskedFirst
<1>8. Linked' /\ Filed' /\ FiledOnce'
  BY <1>1 DEF ChainInv, Linked, Filed, FiledOnce
<1>9. QED
  BY <1>6, <1>7, <1>8 DEF ChainInv

\* The one command that publishes makes the last review current.
LEMMA ChainPublish ==
    ASSUME LoopTyped, LoopInv, ChainInv, NEW p \in Procs, PublishReview(p)
    PROVE  ChainInv'
<1>1. /\ job[p].at = "publish" /\ job' = [job EXCEPT ![p] = Idle]
      /\ review' = job[p].id
      /\ UNCHANGED <<history, reviews, crashes>>
  BY DEF PublishReview, Become, bounds
<1>2. \A q \in Procs : job'[q] = IF q = p THEN Idle ELSE job[q]
  BY <1>1 DEF LoopTyped, StateOK
<1>3. \A q \in Procs : job'[q].at # "publish"
  <2>1. lockHolder = p
    BY <1>1 DEF LoopInv, HeldByWriter
  <2>2. \A q \in Procs \ {p} : job[q].at # "publish"
    BY <2>1, OneWriter DEF LoopInv, Writing
  <2>3. QED
    BY <1>2, <2>2 DEF Idle
<1>4. Published' /\ Paid'
  <2>1. Published'
    BY <1>1, <1>3 DEF ChainInv, Published
  <2>2. job[p].id = Len(reviews)
    BY <1>1 DEF ChainInv, Published
  <2>3. Debt' = 0
    BY <1>1, <2>2 DEF Debt
  <2>4. QED
    BY <1>1, <2>1, <2>3, PaidKept DEF ChainInv
<1>5. AskedFirst'
  BY <1>1, <1>2 DEF ChainInv, AskedFirst, Idle
<1>6. Linked' /\ Filed' /\ FiledOnce'
  BY <1>1 DEF ChainInv, Linked, Filed, FiledOnce
<1>7. QED
  BY <1>4, <1>5, <1>6 DEF ChainInv

\* A verdict is recorded on one iteration, which had none.
LEMMA RecordAt ==
    ASSUME NEW h \in Seq(Iteration), NEW s, NEW k \in ReviewIds, Slot(h, s) # 0
    PROVE  /\ DOMAIN h \subseteq DOMAIN Record(h, s, k)
           /\ \E at \in DOMAIN Record(h, s, k) :
                 /\ Record(h, s, k)[at].review = k
                 /\ at \in DOMAIN h => h[at].review = 0
                 /\ \A i \in DOMAIN Record(h, s, k) \ {at} :
                       i \in DOMAIN h /\ Record(h, s, k)[i] = h[i]
<1> DEFINE at == Slot(h, s)
           g == Record(h, s, k)
<1>0. Len(h) \in Nat /\ DOMAIN h = 1..Len(h) /\ at \in 1..(Len(h) + 1)
  BY SlotIsOfReport
<1>1. \A l \in DOMAIN h : h[l] \in Iteration /\ [h[l] EXCEPT !.review = k] \in Iteration
                          /\ [h[l] EXCEPT !.review = k].review = k
  <2> SUFFICES ASSUME NEW l \in DOMAIN h
               PROVE  h[l] \in Iteration /\ [h[l] EXCEPT !.review = k] \in Iteration
                      /\ [h[l] EXCEPT !.review = k].review = k
    OBVIOUS
  <2>1. h[l] \in Iteration /\ k \in 0..MaxReviews
    BY FirstRenderAssumption DEF ReviewIds
  <2>2. QED
    BY <2>1 DEF Iteration
<1>2. CASE at > Len(h)
  <2> DEFINE e == [h[Len(h)] EXCEPT !.review = k]
  <2>1. Len(h) \in DOMAIN h
    BY <1>0, <1>2, SlotIsOfReport
  <2>2. g = Append(h, e)
    BY <1>2 DEF Record
  <2>3. e \in Iteration /\ e.review = k
    BY <1>1, <2>1
  <2>4. at = Len(h) + 1
    BY <1>0, <1>2
  <2> HIDE DEF e, g, at
  <2>5. /\ DOMAIN h \subseteq DOMAIN g /\ at \in DOMAIN g /\ g[at] = e
        /\ at \notin DOMAIN h
        /\ \A i \in DOMAIN g \ {at} : i \in DOMAIN h /\ g[i] = h[i]
    BY <1>0, <2>2, <2>3, <2>4
  <2>6. QED
    BY <2>3, <2>5 DEF g
<1>3. CASE ~(at > Len(h))
  <2>1. at \in DOMAIN h /\ h[at].review = 0
    BY <1>0, <1>3, SlotIsOfReport
  <2>2. g = [h EXCEPT ![at] = [h[at] EXCEPT !.review = k]]
    BY <1>3 DEF Record
  <2>3. [h[at] EXCEPT !.review = k].review = k
    BY <1>1, <2>1
  <2> HIDE DEF g, at
  <2>4. /\ DOMAIN h = DOMAIN g /\ g[at].review = k
        /\ \A i \in DOMAIN g \ {at} : i \in DOMAIN h /\ g[i] = h[i]
    BY <2>1, <2>2, <2>3
  <2>5. QED
    BY <2>1, <2>4 DEF g
<1>4. QED
  BY <1>2, <1>3

\* A recorded review continues the last one of its route and is on one iteration.
LEMMA ChainTake ==
    ASSUME LoopTyped, LoopInv, ChainInv, NEW p \in Procs,
           NEW findings \in SUBSET Findings,
           TakeReview(p, findings)
    PROVE  ChainInv'
<1> DEFINE q == job[p].packet
           n == Len(reviews)
           k == Len(reviews) + 1
           h == history[route]
           g == Record(h, report, k)
           j == [at |-> "publish", packet |-> q, id |-> k]
           rec == [packet |-> q, findings |-> findings]
<1>1. /\ q \in Packets /\ q.route = route /\ q.report = report
      /\ k \in ReviewIds /\ Slot(h, report) # 0 /\ h \in Seq(Iteration)
  BY TakenReview
<1>2. /\ job[p].at = "judging" /\ lockHolder = None /\ SameEvidence(q)
      /\ reviews' = Append(reviews, rec)
      /\ history' = [history EXCEPT ![route] = g]
      /\ job' = [job EXCEPT ![p] = j]
      /\ UNCHANGED <<review, crashes>>
  BY <1>1 DEF TakeReview, Become, Acquire, LoopTyped, StateOK, bounds
<1>3. /\ reviews \in Seq(ReviewRecord) /\ n \in Nat /\ DOMAIN reviews = 1..n
      /\ route \in Routes /\ history \in [Routes -> Seq(Iteration)]
  BY ReviewTyped DEF LoopTyped, StateOK
<1>4. /\ DOMAIN reviews' = 1..k /\ Len(reviews') = k /\ reviews'[k] = rec
      /\ \A l \in 1..n : reviews'[l] = reviews[l]
  <2>1. rec \in ReviewRecord
    BY <1>1 DEF ReviewRecord
  <2> HIDE DEF rec
  <2>2. QED
    BY <1>2, <1>3, <2>1
<1>5. \A o \in Procs : job'[o] = IF o = p THEN j ELSE job[o]
  BY <1>2 DEF LoopTyped, StateOK
<1>6. \A o \in Procs : job[o].at # "publish"
  BY <1>2, ProjectLockAssumption DEF LoopInv, HeldByWriter
<1>7. Published'
  BY <1>2, <1>4, <1>5, <1>6 DEF Published
<1>8. q.previous = CurrentReview /\ q.prior = Criteria(CurrentReview)
  BY <1>2 DEF SameEvidence, Packet
<1>9. Linked' /\ Paid'
  <2>1. /\ CurrentReview \in 0..n
        /\ review = n /\ n # 0 /\ reviews[n].packet.route = route => CurrentReview = n
    BY <1>3, CurrentReviewIsKnown, FirstRenderAssumption DEF CurrentReview, LoopTyped
  <2>2. Linked'
    <3> SUFFICES ASSUME NEW l \in 1..k
                 PROVE  /\ reviews'[l].packet.previous < l
                        /\ reviews'[l].packet.previous # 0 =>
                              reviews'[l].packet.prior =
                                 reviews'[reviews'[l].packet.previous].findings
      BY <1>4 DEF Linked
    <3>1. CASE l \in 1..n
      <4>1. /\ reviews[l].packet.previous < l
            /\ reviews[l].packet.previous # 0 =>
                  reviews[l].packet.prior = reviews[reviews[l].packet.previous].findings
        BY <1>3, <3>1 DEF ChainInv, Linked
      <4>2. reviews[l].packet.previous \in 0..MaxReviews
        BY <1>3, <3>1, ReviewTyped
      <4>3. reviews[l].packet.previous # 0 => reviews[l].packet.previous \in 1..n
        BY <1>3, <3>1, <4>1, <4>2
      <4>4. QED
        BY <1>4, <3>1, <4>1, <4>3
    <3>2. CASE l = k
      <4>1. reviews'[l].packet = q
        BY <1>4, <3>2
      <4>2. q.previous < l
        <5>1. PICK m \in 0..n : m = q.previous
          BY <1>8, <2>1
        <5>2. m < k
          BY <1>3
        <5>3. QED
          BY <3>2, <5>1, <5>2
      <4>3. ASSUME q.previous # 0 PROVE q.prior = reviews'[q.previous].findings
        <5>1. q.previous \in 1..n
          <6>1. PICK m \in 0..n : m = q.previous
            BY <1>8, <2>1
          <6>2. m # 0
            BY <4>3, <6>1
          <6>3. QED
            BY <1>3, <6>1, <6>2
        <5>2. reviews'[q.previous] = reviews[q.previous]
          BY <1>4, <5>1
        <5>3. QED
          BY <1>8, <4>3, <5>2 DEF Criteria
      <4>4. QED
        BY <4>1, <4>2, <4>3
    <3>3. QED
      BY <1>3, <3>1, <3>2
  <2>3. Debt' = 0
    <3>1. job'[p].at = "publish"
      BY <1>5
    <3>2. QED
      BY <3>1 DEF Debt
  <2>4. Broken' \subseteq Broken \cup {k}
    <3> SUFFICES ASSUME NEW l \in Broken' PROVE l \in Broken \cup {k}
      OBVIOUS
    <3>1. /\ l \in 1..k /\ l > 1
          /\ reviews'[l - 1].packet.route = reviews'[l].packet.route
          /\ reviews'[l].packet.previous # l - 1
      BY <1>4 DEF Broken
    <3>2. CASE l \in 1..n
      <4>1. l - 1 \in 1..n
        BY <1>3, <3>1, <3>2
      <4>2. QED
        BY <1>3, <1>4, <3>1, <3>2, <4>1 DEF Broken
    <3>3. QED
      BY <1>3, <3>1, <3>2
  <2>5. ASSUME k \in Broken' PROVE Debt = 1
    <3>1. /\ k > 1 /\ reviews'[k - 1].packet.route = reviews'[k].packet.route
          /\ reviews'[k].packet.previous # k - 1
      BY <2>5 DEF Broken
    <3>2. k - 1 = n /\ n # 0 /\ n \in 1..n
      BY <1>3, <3>1
    <3>3. reviews'[k].packet = q /\ reviews'[n] = reviews[n]
      BY <1>4, <3>2
    <3>4. q.previous # n /\ reviews[n].packet.route = route
      BY <1>1, <3>1, <3>2, <3>3
    <3>5. review # n
      BY <1>8, <2>1, <3>2, <3>4
    <3>6. QED
      BY <1>6, <3>5 DEF Debt
  <2>6. /\ IsFiniteSet(Broken) /\ Cardinality(Broken) \in Nat /\ Debt \in {0, 1} /\ crashes \in Nat
        /\ Cardinality(Broken) + Debt <= crashes
    BY BrokenFinite DEF ChainInv, Paid
  <2>7. Cardinality(Broken') <= Cardinality(Broken) + Debt
    <3>1. CASE k \in Broken'
      <4>1. /\ IsFiniteSet(Broken \cup {k})
            /\ Cardinality(Broken \cup {k}) = Cardinality(Broken)
                  \/ Cardinality(Broken \cup {k}) = Cardinality(Broken) + 1
        BY <2>6, FS_AddElement
      <4>2. Cardinality(Broken') <= Cardinality(Broken \cup {k}) /\ Cardinality(Broken') \in Nat
        BY <2>4, <4>1, FS_Subset, FS_CardinalityType
      <4>3. QED
        BY <2>5, <2>6, <3>1, <4>1, <4>2
    <3>2. CASE k \notin Broken'
      <4>1. Broken' \in SUBSET Broken
        BY <2>4, <3>2
      <4>2. Cardinality(Broken') <= Cardinality(Broken) /\ Cardinality(Broken') \in Nat
        BY <2>6, <4>1, FS_Subset, FS_CardinalityType
      <4>3. QED
        BY <2>6, <4>2
    <3>3. QED
      BY <3>1, <3>2
  <2>8. Cardinality(Broken') \in Nat
    <3>1. IsFiniteSet(Broken \cup {k})
      BY <2>6, FS_AddElement
    <3>2. QED
      BY <2>4, <3>1, FS_Subset, FS_CardinalityType
  <2>9. Paid'
    BY <1>2, <2>3, <2>6, <2>7, <2>8 DEF Paid
  <2>10. QED
    BY <2>2, <2>9
<1>10. PICK at \in DOMAIN g :
          /\ g[at].review = k
          /\ \A i \in DOMAIN g \ {at} : i \in DOMAIN h /\ g[i] = h[i]
          /\ DOMAIN h \subseteq DOMAIN g
          /\ at \in DOMAIN h => h[at].review = 0
  BY <1>1, RecordAt
<1>11. history'[route] = g /\ \A s \in Routes \ {route} : history'[s] = history[s]
  BY <1>2, <1>3
<1> HIDE DEF g
<1>12. Filed'
  <2> SUFFICES ASSUME NEW l \in 1..k
               PROVE  \E i \in DOMAIN history'[reviews'[l].packet.route] :
                          history'[reviews'[l].packet.route][i].review = l
    BY <1>4 DEF Filed
  <2>1. CASE l = k
    <3>1. reviews'[k].packet.route = route
      BY <1>1, <1>4
    <3>2. history'[route][at].review = k
      BY <1>10, <1>11
    <3> HIDE DEF k
    <3>3. QED
      BY <1>10, <1>11, <2>1, <3>1, <3>2
  <2>2. CASE l \in 1..n
    <3> DEFINE r == reviews[l].packet.route
    <3>1. reviews'[l].packet.route = r /\ r \in Routes /\ l # 0
      BY <1>3, <1>4, <2>2, ReviewTyped
    <3>2. PICK i \in DOMAIN history[r] : history[r][i].review = l
      BY <1>3, <2>2 DEF ChainInv, Filed
    <3>3. CASE r # route
      BY <1>11, <3>1, <3>2, <3>3
    <3>4. CASE r = route
      <4>1. i \in DOMAIN g /\ i # at /\ g[i] = h[i]
        BY <1>10, <3>1, <3>2, <3>4
      <4>2. QED
        BY <1>11, <3>1, <3>2, <3>4, <4>1
    <3>5. QED
      BY <3>3, <3>4
  <2>3. QED
    BY <1>3, <2>1, <2>2
<1>13. FiledOnce'
  <2> SUFFICES ASSUME NEW s \in Routes, NEW a \in DOMAIN history'[s],
                      NEW b \in DOMAIN history'[s],
                      history'[s][a].review # 0,
                      history'[s][a].review = history'[s][b].review
               PROVE  a = b
    BY DEF FiledOnce
  <2>1. CASE s # route
    BY <1>11, <2>1 DEF ChainInv, FiledOnce
  <2>2. CASE s = route
    <3>1. \A i \in DOMAIN h : h[i].review # k
      <4>1. \A i \in DOMAIN h : h[i].review \in 0..n
        BY <1>3 DEF LoopTyped, ReviewsKnown
      <4>2. QED
        BY <1>3, <4>1
    <3>2. \A i \in DOMAIN g \ {at} : g[i].review # k
      BY <1>10, <3>1
    <3>3. CASE a = at \/ b = at
      BY <1>10, <1>11, <2>2, <3>2, <3>3
    <3>4. CASE a # at /\ b # at
      <4>1. a \in DOMAIN h /\ b \in DOMAIN h /\ g[a] = h[a] /\ g[b] = h[b]
        BY <1>10, <1>11, <2>2, <3>4
      <4>2. QED
        BY <1>3, <1>11, <2>2, <4>1 DEF ChainInv, FiledOnce
    <3>5. QED
      BY <3>3, <3>4
  <2>3. QED
    BY <2>1, <2>2
<1>14. AskedFirst'
  <2>1. \A o \in Procs : job'[o].at = "judging" => job'[o] = job[o]
    BY <1>5
  <2>2. \A l \in 1..k : reviews'[l].packet.route \in Studio => reviews'[l].packet.previous = 0
    <3>1. q.route \in Studio => q.previous = 0
      BY <1>2 DEF ChainInv, AskedFirst
    <3>2. \A l \in 1..n : reviews[l].packet.route \in Studio => reviews[l].packet.previous = 0
      BY <1>3 DEF ChainInv, AskedFirst
    <3>3. \A l \in 1..k : l \in 1..n \/ l = k
      BY <1>3
    <3>4. reviews'[k].packet = q
      BY <1>4
    <3>5. \A l \in 1..n : reviews'[l].packet = reviews[l].packet
      BY <1>4
    <3> HIDE DEF q, k, n, rec
    <3>6. QED
      BY <3>1, <3>2, <3>3, <3>4, <3>5
  <2>3. QED
    BY <1>4, <2>1, <2>2 DEF ChainInv, AskedFirst
<1>15. QED
  BY <1>7, <1>9, <1>12, <1>13, <1>14 DEF ChainInv

\* The chain is kept by every step.
LEMMA ChainStep == LoopTyped /\ LoopInv /\ ChainInv /\ [Next]_vars => ChainInv'
<1> SUFFICES ASSUME LoopTyped, LoopInv, ChainInv, [Next]_vars PROVE ChainInv'
  OBVIOUS
<1>0. job \in [Procs -> Jobs] /\ Idle.at = "idle"
  BY DEF LoopTyped, StateOK, Jobs, Idle
<1>1. CASE UNCHANGED vars \/ Maker
  <2>1. UNCHANGED <<history, reviews, review, job, crashes>>
    BY <1>1 DEF vars, evidence, bounds, Maker, Edit, Build, GiveFeedback, PublishRoute
  <2>2. QED
    BY <2>1, ChainRest
<1>2. ASSUME NEW p \in Procs, Check(p) PROVE ChainInv'
  <2>1. CASE BeginCheck(p) \/ RefuseCheck(p) \/ ReplaceReport(p)
    <3>1. PICK j : job' = [job EXCEPT ![p] = j] /\ j.at \notin {"judging", "publish"}
      BY <1>0, <2>1 DEF BeginCheck, RefuseCheck, ReplaceReport, Become
    <3>2. job[p].at # "publish" /\ UNCHANGED <<history, reviews, review, crashes>>
      BY <1>0, <2>1 DEF BeginCheck, RefuseCheck, ReplaceReport, evidence, bounds
    <3>3. QED
      BY <3>1, <3>2, ChainJob
  <2>2. CASE BeginMeasure(p) \/ Capture(p) \/ TakeCheck(p)
    <3>1. job[p] \in CheckJob
      BY <1>0, <2>2, JobKinds DEF BeginMeasure, Capture, TakeCheck
    <3>2. PICK j : job' = [job EXCEPT ![p] = j] /\ j.at \notin {"judging", "publish"}
      <4>1. CASE BeginMeasure(p)
        <5> DEFINE j == [at |-> "capture", route |-> job[p].route, source |-> job[p].source,
                         report |-> [bound |-> Binding, shown |-> {}]]
        <5>1. job' = [job EXCEPT ![p] = j] /\ j.at = "capture"
          BY <4>1 DEF BeginMeasure, Become
        <5> HIDE DEF j
        <5>2. QED
          BY <5>1
      <4>1a. CASE Capture(p)
        <5> DEFINE j == [job[p] EXCEPT !.report.shown = @ \cup {Page}]
        <5>1. job' = [job EXCEPT ![p] = j] /\ j.at = "capture"
          BY <1>0, <3>1, <4>1a DEF Capture, CheckJob
        <5> HIDE DEF j
        <5>2. QED
          BY <5>1
      <4>2. CASE TakeCheck(p)
        <5>1. /\ job' = [job EXCEPT ![p] = [job[p] EXCEPT !.at = "append"]]
              /\ [job[p] EXCEPT !.at = "append"].at = "append"
          BY <1>0, <3>1, <4>2 DEF TakeCheck, Move, CheckJob
        <5>2. QED
          BY <5>1
      <4>3. QED
        BY <2>2, <4>1, <4>1a, <4>2
    <3>3. job[p].at # "publish" /\ UNCHANGED <<history, reviews, review, crashes>>
      BY <2>2 DEF BeginMeasure, Capture, TakeCheck, evidence, bounds
    <3>4. QED
      BY <3>2, <3>3, ChainJob
  <2>3. QED
    BY <1>2, <2>1, <2>2, ChainAppend DEF Check
<1>3. ASSUME NEW p \in Procs, Review(p) PROVE ChainInv'
  <2>1. CASE ReturnReview(p) \/ AcceptRetained(p)
    <3>1. UNCHANGED <<history, reviews, review, job, crashes>>
      BY <2>1 DEF ReturnReview, AcceptRetained, evidence, bounds
    <3>2. QED
      BY <3>1, ChainRest
  <2>2. CASE RefuseReview(p)
    <3>1. /\ job' = [job EXCEPT ![p] = Idle] /\ job[p].at # "publish"
          /\ UNCHANGED <<history, reviews, review, crashes>>
      BY <2>2 DEF RefuseReview, Become, evidence, bounds
    <3>2. Idle.at \notin {"judging", "publish"}
      BY <1>0
    <3>3. QED
      BY <3>1, <3>2, ChainJob
  <2>3. QED
    BY <1>3, <2>1, <2>2, ChainAsk, ChainPublish, ChainTake DEF Review
<1>4. ASSUME NEW p \in Procs, Restore(p) PROVE ChainInv'
  <2>1. job[p].at # "publish" /\ UNCHANGED <<history, reviews, review, crashes>>
    BY <1>0, <1>4 DEF Restore, BeginRestore, TakeRestore, RefuseRestore, RestoreFile,
       WriteReceipt, evidence, bounds
  <2>2. PICK j : job' = [job EXCEPT ![p] = j] /\ j.at \notin {"judging", "publish"}
    <3>1. ASSUME NEW i \in 1..MaxIterations, BeginRestore(p, i)
          PROVE  \E j : job' = [job EXCEPT ![p] = j] /\ j.at \notin {"judging", "publish"}
      <4> DEFINE j == [at |-> "planned", route |-> route, seen |-> history[route],
                       target |-> i, todo |-> Differing(history[route][i].checkpoint)]
      <4>1. job' = [job EXCEPT ![p] = j] /\ j.at = "planned"
        BY <3>1 DEF BeginRestore, Become
      <4> HIDE DEF j
      <4>2. QED
        BY <4>1
    <3>2. CASE RefuseRestore(p) \/ WriteReceipt(p)
      <4>1. job' = [job EXCEPT ![p] = Idle]
        BY <3>2 DEF RefuseRestore, WriteReceipt, Become
      <4>2. QED
        BY <1>0, <4>1
    <3>3. CASE TakeRestore(p)
      <4>1. job[p] \in RestoreJob
        BY <1>0, <3>3, JobKinds DEF TakeRestore
      <4>2. /\ job' = [job EXCEPT ![p] = [job[p] EXCEPT !.at = "writing"]]
            /\ [job[p] EXCEPT !.at = "writing"].at = "writing"
        BY <1>0, <3>3, <4>1 DEF TakeRestore, Move, RestoreJob
      <4>3. QED
        BY <4>2
    <3>4. ASSUME NEW f \in Files, RestoreFile(p, f)
          PROVE  \E j : job' = [job EXCEPT ![p] = j] /\ j.at \notin {"judging", "publish"}
      <4> DEFINE j == [job[p] EXCEPT !.todo = @ \ {f}]
      <4>1. job[p] \in RestoreJob /\ job[p].at = "writing"
        BY <1>0, <3>4, JobKinds DEF RestoreFile
      <4>2. job' = [job EXCEPT ![p] = j] /\ j.at = "writing"
        BY <1>0, <3>4, <4>1 DEF RestoreFile, RestoreJob
      <4> HIDE DEF j
      <4>3. QED
        BY <4>2
    <3>5. QED
      BY <1>4, <3>1, <3>2, <3>3, <3>4 DEF Restore
  <2>3. QED
    BY <2>1, <2>2, ChainJob
<1>5. ASSUME NEW p \in Procs, Crash(p) PROVE ChainInv'
  <2>1. /\ job' = [job EXCEPT ![p] = Idle] /\ UNCHANGED <<history, reviews>>
        /\ crashes' = crashes + 1
    BY <1>5 DEF Crash, Become
  <2>2. Idle.at \notin {"judging", "publish"}
    BY <1>0
  <2>3. QED
    BY <2>1, <2>2, ChainJob
<1>6. QED
  BY <1>1, <1>2, <1>3, <1>4, <1>5 DEF Next

\* Reviews form a chain in every state.
THEOREM ReviewsChained == Spec => []ChainInv
<1>1. QED
  BY ChainInit, ChainStep, LoopTypes, LoopInvariant, PTL DEF Spec

\* Whatever breaks a promise between reviews breaks the chain, and was paid for.
LEMMA CountedByBreaks ==
    ASSUME LoopTyped, ChainInv, NEW S, S \subseteq Broken
    PROVE  Cardinality(S) <= crashes
<1>1. /\ IsFiniteSet(Broken) /\ Cardinality(Broken) \in Nat /\ Debt \in {0, 1} /\ crashes \in Nat
      /\ Cardinality(Broken) + Debt <= crashes
  BY BrokenFinite DEF ChainInv, Paid
<1>2. Cardinality(S) <= Cardinality(Broken) /\ Cardinality(S) \in Nat
  BY <1>1, FS_Subset, FS_CardinalityType
<1>3. QED
  BY <1>1, <1>2

\* A finding leaves a route only by being resolved, however many commands review and are
\* killed: each kill lets at most one review forget what the one before it found.
THEOREM FindingsStayAnswered == Spec => []FindingsAnswered
<1>1. LoopTyped /\ ChainInv => FindingsAnswered
  <2> SUFFICES ASSUME LoopTyped, ChainInv PROVE FindingsAnswered
    OBVIOUS
  <2> DEFINE S == {k \in DOMAIN reviews :
                      /\ k > 1 /\ InARow(k - 1, k)
                      /\ ~(reviews[k - 1].findings \subseteq
                              reviews[k].findings \cup reviews[k].packet.prior)}
  <2>1. ASSUME NEW k \in S PROVE k \in Broken
    <3>1. k \in Nat /\ k > 1 /\ k \in DOMAIN reviews
      BY ReviewTyped
    <3>2. k - 1 \in (k - 1)..k
      BY <3>1
    <3>3. reviews[k - 1].packet.route = reviews[k].packet.route
      BY <3>2 DEF InARow
    <3>4. ASSUME reviews[k].packet.previous = k - 1 PROVE FALSE
      <4>1. k - 1 # 0
        BY <3>1
      <4>2. reviews[k].packet.prior = reviews[k - 1].findings
        BY <3>1, <3>4, <4>1 DEF ChainInv, Linked
      <4>3. QED
        BY <4>2
    <3>5. QED
      BY <3>1, <3>3, <3>4 DEF Broken
  <2> HIDE DEF S
  <2>2. Cardinality(S) <= crashes
    BY <2>1, CountedByBreaks
  <2>3. QED
    BY <2>2 DEF S, FindingsAnswered
<1>2. QED
  BY <1>1, ReviewsChained, LoopTypes, PTL

\* Evidence is judged again, with no other route in between, at most once for each kill:
\* the later of two reviews in a row counts the earlier as its predecessor.
THEOREM JudgedOnce == Spec => []EvidenceJudgedOnce
<1>1. LoopTyped /\ ChainInv => EvidenceJudgedOnce
  <2> SUFFICES ASSUME LoopTyped, ChainInv PROVE EvidenceJudgedOnce
    OBVIOUS
  <2> DEFINE S == {k \in DOMAIN reviews :
                      \E j \in DOMAIN reviews :
                          /\ j < k /\ InARow(j, k)
                          /\ reviews[j].packet = reviews[k].packet}
  <2>1. ASSUME NEW k \in S PROVE k \in Broken
    <3>1. PICK j \in DOMAIN reviews : /\ j < k /\ InARow(j, k)
                                      /\ reviews[j].packet = reviews[k].packet
      OBVIOUS
    <3>2. /\ k \in DOMAIN reviews /\ j \in Nat /\ j >= 1 /\ k \in Nat /\ k > 1
          /\ k - 1 \in j..k
      BY <3>1, ReviewTyped
    <3>3. reviews[k - 1].packet.route = reviews[k].packet.route
      BY <3>1, <3>2 DEF InARow
    <3>4. reviews[k].packet.previous < j
      BY <3>1 DEF ChainInv, Linked
    <3>5. reviews[k].packet.previous # k - 1
      BY <3>1, <3>2, <3>4
    <3>6. QED
      BY <3>2, <3>3, <3>5 DEF Broken
  <2> HIDE DEF S
  <2>2. Cardinality(S) <= crashes
    BY <2>1, CountedByBreaks
  <2>3. QED
    BY <2>2 DEF S, EvidenceJudgedOnce
<1>2. QED
  BY <1>1, ReviewsChained, LoopTypes, PTL

\* A new page is reviewed once, until another route is, but for what the kills cost: whoever
\* asked about it found no review, and the second of two in a row would have continued one.
THEOREM NewPageOnce == Spec => []NewPageReviewedOnce
<1>1. LoopTyped /\ ChainInv => NewPageReviewedOnce
  <2> SUFFICES ASSUME LoopTyped, ChainInv PROVE NewPageReviewedOnce
    OBVIOUS
  <2> DEFINE S == {k \in DOMAIN reviews :
                      k > 1 /\ InARow(k - 1, k) /\ reviews[k].packet.route \in Studio}
  <2>1. ASSUME NEW k \in S PROVE k \in Broken
    <3>1. k \in Nat /\ k > 1 /\ k \in DOMAIN reviews
      BY ReviewTyped
    <3>2. k - 1 \in (k - 1)..k /\ k - 1 # 0
      BY <3>1
    <3>3. reviews[k - 1].packet.route = reviews[k].packet.route
      BY <3>2 DEF InARow
    <3>4. reviews[k].packet.previous = 0
      BY <3>1 DEF ChainInv, AskedFirst
    <3>5. QED
      BY <3>1, <3>2, <3>3, <3>4 DEF Broken
  <2> HIDE DEF S
  <2>2. Cardinality(S) <= crashes
    BY <2>1, CountedByBreaks
  <2>3. QED
    BY <2>2 DEF S, NewPageReviewedOnce
<1>2. QED
  BY <1>1, ReviewsChained, LoopTypes, PTL

=============================================================================
