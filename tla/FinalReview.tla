---------------------------- MODULE FinalReview ----------------------------
(***************************************************************************)
(* `omd lifecycle finish`: the completion of a change to an existing       *)
(* product (bin/model-led-completion-command.ts), from the browser         *)
(* evaluation to the final evidence.                                       *)
(*                                                                         *)
(* A finish evaluates the page in a browser and publishes an observation,  *)
(* has the first render looked at, seals the sources, has the isolated     *)
(* final lanes judge the evidence, and publishes the final evidence that   *)
(* binds observation, seal and review.  Each of these takes seconds to     *)
(* minutes without a lock; the lock is held only while a pointer is        *)
(* replaced.  Two finishes may overlap, either may be killed or cancelled, *)
(* and the maker edits the source whenever it likes.                       *)
(*                                                                         *)
(* An observation and a seal carry the moment they were made, so each one  *)
(* written is different from all others: they are numbered.  `source`      *)
(* stands for everything the completion fingerprint covers: production     *)
(* files, route, browser plan and consulted references.                    *)
(***************************************************************************)
EXTENDS ProjectLock

CONSTANTS
    Sources,            \* contents of the production source
    MaxEdits, MaxObservations, MaxSeals, MaxReviews     \* bounds

ASSUME FinalReviewAssumption ==
    /\ None \notin Sources
    /\ {MaxEdits, MaxObservations, MaxSeals, MaxReviews} \subseteq Nat

VARIABLES
    source,     \* what the maker's files hold
    edits,      \* edits made so far
    documents,  \* the review policy selects lanes that read documents (seal included)
    tail,       \* .omd/observation-v2.json: the end of the observation chain
    seal,       \* .omd/source-seal.json
    eye,        \* .omd/first-render review.json: [source, decision], or None
    pointer,    \* .omd/final-review/native-current.json
    final,      \* .omd/final-evidence-v2.json, or None
    opened,     \* reviews opened so far
    at,         \* at[p]: where finish p is
    noted,      \* noted[p]: the source it noted last, for a later comparison
    mark,       \* mark[p]: its inputFingerprint
    taken,      \* taken[p]: the evidence its lanes judge, or its manifest binds
    verdict,    \* verdict[p]: what its lanes returned
    published   \* history: the reviews published as accepted

files == <<tail, seal, eye, pointer, final>>
mine == <<at, noted, mark, taken, verdict>>
vars == <<lockHolder, source, edits, documents, files, opened, mine, published>>

Observations == [id : 0..MaxObservations, source : Sources \cup {None}, passed : BOOLEAN]
Seals == [id : 0..MaxSeals, source : Sources \cup {None}]
Nonces == 1..MaxReviews
Reviews == [nonce : Nonces, tail : Observations, seal : Seals]
NoObservation == [id |-> 0, source |-> None, passed |-> FALSE]
NoSeal == [id |-> 0, source |-> None]

\* native-current: absent, pending (known by its nonce), rejected, or an
\* accepted review with the measured terminal it binds.
Pointers ==
    [kind : {"absent"}]
      \cup [kind : {"pending", "rejected"}, nonce : Nonces]
      \cup [kind : {"reviewed"}, review : Reviews]

Points == {"idle", "evaluating", "publishing", "observed", "looking", "comparing",
           "sealing", "writing", "preparing", "lanes", "returned", "accepted",
           "reviewed", "checking", "manifest", "approved", "terminal", "done"}

TypeOK ==
    /\ lockHolder \in Procs \cup {None}
    /\ source \in Sources
    /\ edits \in 0..MaxEdits
    /\ documents \in BOOLEAN
    /\ tail \in Observations
    /\ seal \in Seals
    /\ eye \in [source : Sources, decision : {"retain", "revise"}] \cup {None}
    /\ pointer \in Pointers
    /\ final \in Reviews \cup {None}
    /\ opened \in 0..MaxReviews
    /\ at \in [Procs -> Points]
    /\ noted \in [Procs -> Sources \cup {None}]
    /\ mark \in [Procs -> Sources \cup {None}]
    /\ taken \in [Procs -> Reviews \cup {None}]
    /\ verdict \in [Procs -> {"none", "green", "red", "failed"}]
    /\ published \subseteq Reviews

Init ==
    /\ LockInit
    /\ source \in Sources
    /\ edits = 0
    /\ documents \in BOOLEAN
    /\ tail = NoObservation
    /\ seal = NoSeal
    /\ eye = None
    /\ pointer = [kind |-> "absent"]
    /\ final = None
    /\ opened = 0
    /\ at = [p \in Procs |-> "idle"]
    /\ noted = [p \in Procs |-> None]
    /\ mark = [p \in Procs |-> None]
    /\ taken = [p \in Procs |-> None]
    /\ verdict = [p \in Procs |-> "none"]
    /\ published = {}

-----------------------------------------------------------------------------
(* What the gates compare.                                                 *)

Move(p, from, to) == at[p] = from /\ at' = [at EXCEPT ![p] = to]

\* validateTrustedOutcomeEvidence: the latest observation passed, and the tree
\* it was made from is the tree that is served now.
Observed == tail.id > 0 /\ tail.passed /\ tail.source = source

\* validateSourceSeal: the seal, computed again, is the one on disk.
Sealed == seal.id > 0 /\ seal.source = source

\* protocolFacts: production evidence valid, and the facts bind these receipts.
CurrentEvidence(e) == Observed /\ Sealed /\ e.tail = tail /\ e.seal = seal

Pending(n) == [kind |-> "pending", nonce |-> n]
Rejected(n) == [kind |-> "rejected", nonce |-> n]
Reviewed(e) == [kind |-> "reviewed", review |-> e]

RetainedEye == eye = [source |-> source, decision |-> "retain"]

-----------------------------------------------------------------------------
(* Evaluation: runNativeEvaluation and writeTrustedEvaluationObservation.  *)

\* The browser is started on the tree as it is; its hash is in the binding.
BeginEvaluation(p) ==
    /\ Move(p, "idle", "evaluating")
    /\ noted' = [noted EXCEPT ![p] = source]
    /\ UNCHANGED <<lockHolder, source, edits, documents, files, opened, mark, taken,
                   verdict, published>>

\* The run is over: the tree must be the one it began with.
EndEvaluation(p) ==
    /\ Move(p, "evaluating", "publishing")
    /\ noted[p] = source
    /\ UNCHANGED <<lockHolder, source, edits, documents, files, opened, noted, mark, taken,
                   verdict, published>>

\* writeObservationV2, under the lock: a record that names its predecessor, then
\* the pointer.  A failed execution is recorded too, and ends the finish.
PublishObservation(p, passed) ==
    /\ at[p] = "publishing" /\ lockHolder = None
    /\ tail.id < MaxObservations
    /\ tail' = [id |-> tail.id + 1, source |-> noted[p], passed |-> passed]
    /\ at' = [at EXCEPT ![p] = IF passed THEN "observed" ELSE "idle"]
    /\ UNCHANGED <<lockHolder, source, edits, documents, seal, eye, pointer, final, opened,
                   noted, mark, taken, verdict, published>>

\* inputFingerprint, taken again once the evaluation is over.
TakeFingerprint(p) ==
    /\ Move(p, "observed", "looking")
    /\ mark' = [mark EXCEPT ![p] = source]
    /\ UNCHANGED <<lockHolder, source, edits, documents, files, opened, noted, taken,
                   verdict, published>>

\* A retained review of exactly this page stands; otherwise it is reviewed, and
\* the verdict filed if the page is still the same (module FirstRenderLoop).
LookAgain(p) ==
    /\ RetainedEye
    /\ Move(p, "looking", "comparing")
    /\ UNCHANGED <<lockHolder, source, edits, documents, files, opened, noted, mark, taken,
                   verdict, published>>

FirstLook(p, decision) ==
    /\ ~RetainedEye /\ lockHolder = None
    /\ Move(p, "looking", IF decision = "retain" THEN "comparing" ELSE "idle")
    /\ eye' = [source |-> source, decision |-> decision]
    /\ UNCHANGED <<lockHolder, source, edits, documents, tail, seal, pointer, final, opened,
                   noted, mark, taken, verdict, published>>

\* NATIVE_COMPLETION_INPUT_CHANGED unless the fingerprint is the same.
Compare(p, from, to) ==
    /\ Move(p, from, to)
    /\ mark[p] = source
    /\ UNCHANGED <<lockHolder, source, edits, documents, files, opened, noted, mark, taken,
                   verdict, published>>

CompareBeforeSeal(p) == Compare(p, "comparing", "sealing")

-----------------------------------------------------------------------------
(* writeSourceSeal: the sources are read first, the lock is taken only for *)
(* the replacement.                                                        *)

ReadSources(p) ==
    /\ Move(p, "sealing", "writing")
    /\ noted' = [noted EXCEPT ![p] = source]
    /\ UNCHANGED <<lockHolder, source, edits, documents, files, opened, mark, taken,
                   verdict, published>>

WriteSeal(p) ==
    /\ Move(p, "writing", "preparing")
    /\ lockHolder = None
    /\ seal.id < MaxSeals
    /\ seal' = [id |-> seal.id + 1, source |-> noted[p]]
    /\ UNCHANGED <<lockHolder, source, edits, documents, tail, eye, pointer, final, opened,
                   noted, mark, taken, verdict, published>>

-----------------------------------------------------------------------------
(* runNativeFinalReview.                                                   *)

\* The evidence is fixed, its deterministic protocol published, the packets
\* made, and the pending pointer put in place of whatever review there was.
OpenReview(p) ==
    /\ Move(p, "preparing", "lanes")
    /\ lockHolder = None
    /\ Observed /\ Sealed
    /\ opened < MaxReviews
    /\ opened' = opened + 1
    /\ taken' = [taken EXCEPT ![p] = [nonce |-> opened + 1, tail |-> tail, seal |-> seal]]
    /\ pointer' = Pending(opened + 1)
    /\ UNCHANGED <<lockHolder, source, edits, documents, tail, seal, eye, final, noted, mark,
                   verdict, published>>

\* The lanes have all settled.  An abort after that leaves the pointer pending.
ReturnLanes(p, v) ==
    /\ Move(p, "lanes", "returned")
    /\ verdict' = [verdict EXCEPT ![p] = v]
    /\ UNCHANGED <<lockHolder, source, edits, documents, files, opened, noted, mark, taken,
                   published>>

IsPending(p) == pointer = Pending(taken[p].nonce)

\* The lanes' packets are made again, which fails unless the lanes' observation is
\* the tail still and the tree it was made from is the current one.
PacketsRemade(p) == taken[p].tail = tail /\ Observed

\* Then they are compared: the packets of document lanes also hold the seal.
SamePackets(p) == documents => taken[p].seal = seal

\* Mutant of MayReject: a rejection is filed without a look at the pointer.
MayRejectBlindly(p) == TRUE

\* `reject`, under the lock: only the own pending pointer becomes a rejection.
MayReject(p) == IsPending(p)

\* A lane failed; or, under the lock, the pointer is still the own one and the
\* packets differ or a lane is not green.
RejectReview(p) ==
    /\ Move(p, "returned", "idle")
    /\ lockHolder = None
    /\ \/ verdict[p] = "failed"
       \/ /\ IsPending(p) /\ PacketsRemade(p)
          /\ ~SamePackets(p) \/ verdict[p] = "red"
    /\ pointer' = IF MayReject(p) THEN Rejected(taken[p].nonce) ELSE pointer
    /\ UNCHANGED <<lockHolder, source, edits, documents, tail, seal, eye, final, opened,
                   noted, mark, taken, verdict, published>>

\* Under the lock: not superseded, all lanes green, same packets, and the
\* measured terminal valid against the evidence as it is now.
Acceptable(p) ==
    IsPending(p) /\ verdict[p] = "green" /\ CurrentEvidence(taken[p])

AcceptReview(p) ==
    /\ Move(p, "returned", "accepted")
    /\ Acceptable(p)
    /\ Acquire(p)
    /\ UNCHANGED <<source, edits, documents, files, opened, noted, mark, taken, verdict,
                   published>>

\* The lane artifacts are content-addressed; then the pointer, and the release.
WriteReview(p) ==
    /\ Move(p, "accepted", "reviewed")
    /\ LetGo(p)
    /\ pointer' = Reviewed(taken[p])
    /\ published' = published \cup {taken[p]}
    /\ UNCHANGED <<source, edits, documents, tail, seal, eye, final, opened, noted, mark,
                   taken, verdict>>

CompareAfterReview(p) == Compare(p, "reviewed", "checking")

-----------------------------------------------------------------------------
(* finalizeNativeEvidence, publishFinalEvidenceV2, checkTerminalCompletion.*)

\* Mutant of ReviewToBind: a review that was rejected or is pending is bound too.
ReviewToBindAny(p) ==
    IF pointer.kind = "reviewed" THEN pointer.review
    ELSE [nonce |-> pointer.nonce, tail |-> tail, seal |-> seal]

\* checkNativeFinalReview and currentLanes read the pointer; it must be an
\* accepted review, anybody's.
ReviewToBind(p) == IF pointer.kind = "reviewed" THEN pointer.review ELSE None

\* The manifest: the current observations and seal with the review's lanes.  The
\* deterministic protocol in the review binds its own observation and seal.
BuildManifest(p) ==
    /\ Move(p, "checking", "manifest")
    /\ ReviewToBind(p) # None
    /\ ReviewToBind(p).tail = tail /\ ReviewToBind(p).seal = seal
    /\ taken' = [taken EXCEPT ![p] = ReviewToBind(p)]
    /\ UNCHANGED <<lockHolder, source, edits, documents, files, opened, noted, mark, verdict,
                   published>>

\* Mutant of ManifestHolds: the graph is not validated again under the lock.
ManifestHoldsUnchecked(p) == TRUE

\* revalidateFinalEvidenceGraph and the prerequisites, under the lock.
ManifestHolds(p) == CurrentEvidence(taken[p])

ApproveManifest(p) ==
    /\ Move(p, "manifest", "approved")
    /\ Acquire(p)
    /\ ManifestHolds(p)
    /\ UNCHANGED <<source, edits, documents, files, opened, noted, mark, taken, verdict,
                   published>>

\* The immutable record, the pointer, and the release.
WriteFinal(p) ==
    /\ Move(p, "approved", "terminal")
    /\ LetGo(p)
    /\ final' = taken[p]
    /\ UNCHANGED <<source, edits, documents, tail, seal, eye, pointer, opened, noted, mark,
                   taken, verdict, published>>

\* Mutant of TerminalHolds: the final evidence is trusted as published.
TerminalHoldsAsPublished == final # None /\ RetainedEye

\* checkFinalEvidenceV2 reads the final pointer, whoever wrote it, and validates
\* it against the project; checkFirstRenderEvidence wants the retained look.
TerminalHolds == final # None /\ CurrentEvidence(final) /\ RetainedEye

Complete(p) ==
    /\ Move(p, "terminal", "done")
    /\ TerminalHolds
    /\ UNCHANGED <<lockHolder, source, edits, documents, files, opened, noted, mark, taken,
                   verdict, published>>

-----------------------------------------------------------------------------

\* A gate that does not hold, a cancellation, or a kill: the finish ends where it
\* is, and the project stays as it was.  The next one begins from the start.  A
\* lock it held is free again (module MutationLock).
Stop(p) ==
    /\ at[p] # "idle"
    /\ at' = [at EXCEPT ![p] = "idle"]
    /\ noted' = [noted EXCEPT ![p] = None]
    /\ mark' = [mark EXCEPT ![p] = None]
    /\ taken' = [taken EXCEPT ![p] = None]
    /\ verdict' = [verdict EXCEPT ![p] = "none"]
    /\ lockHolder' = IF lockHolder = p THEN None ELSE lockHolder
    /\ UNCHANGED <<source, edits, documents, files, opened, published>>

\* The maker changes the source, perhaps back to what it was.
Edit(s) ==
    /\ edits < MaxEdits /\ s # source
    /\ source' = s
    /\ edits' = edits + 1
    /\ UNCHANGED <<lockHolder, documents, files, opened, mine, published>>

Finish(p) ==
    \/ BeginEvaluation(p) \/ EndEvaluation(p)
    \/ \E passed \in BOOLEAN : PublishObservation(p, passed)
    \/ TakeFingerprint(p) \/ LookAgain(p)
    \/ \E d \in {"retain", "revise"} : FirstLook(p, d)
    \/ CompareBeforeSeal(p) \/ ReadSources(p) \/ WriteSeal(p)
    \/ OpenReview(p)
    \/ \E v \in {"green", "red", "failed"} : ReturnLanes(p, v)
    \/ RejectReview(p) \/ AcceptReview(p) \/ WriteReview(p) \/ CompareAfterReview(p)
    \/ BuildManifest(p) \/ ApproveManifest(p) \/ WriteFinal(p) \/ Complete(p)
    \/ Stop(p)

Next ==
    \/ \E p \in Procs : Finish(p)
    \/ \E s \in Sources : Edit(s)

Spec == Init /\ [][Next]_vars

-----------------------------------------------------------------------------
(* What must hold.                                                         *)

\* The final evidence rests on a review that was accepted for exactly this
\* observation and this seal (finalizeNativeEvidence, publishFinalEvidenceV2),
\* and the observed page passed and is the sealed one.
FinalRestsOnReview ==
    final # None =>
        /\ final \in published
        /\ final.tail.passed /\ final.tail.source = final.seal.source

\* A review's pointer is settled by the finish that opened it and by nobody else:
\* the outcome of a superseded review, whatever it is, changes nothing
\* (runNativeFinalReview, "review superseded by a newer execution").
OnlyOwnerSettles ==
    [][/\ pointer'.kind = "rejected" /\ pointer' # pointer
            => pointer = Pending(pointer'.nonce)
       /\ pointer'.kind = "reviewed" /\ pointer' # pointer
            => pointer = Pending(pointer'.review.nonce)]_vars

\* What becomes current is about what is current: when a review is accepted or the
\* final evidence replaced, no newer observation or seal has been published since
\* the evidence was taken, however long lanes and gates took.
PublishedIsCurrent ==
    [][/\ pointer'.kind = "reviewed" /\ pointer' # pointer
            => pointer'.review.tail = tail /\ pointer'.review.seal = seal
       /\ final' # final => final'.tail = tail /\ final'.seal = seal]_vars

\* A finish that reports completion stands on the source as it is: observed,
\* sealed, accepted by the lanes and retained at first sight, whichever finish
\* published each of these (checkTerminalCompletion).
CompletedIsBacked ==
    [][\A p \in Procs : at[p] # "done" /\ at'[p] = "done" =>
            /\ final \in published
            /\ final.tail.source = source /\ final.seal.source = source
            /\ eye = [source |-> source, decision |-> "retain"]]_vars

=============================================================================
