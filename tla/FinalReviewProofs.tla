------------------------- MODULE FinalReviewProofs -------------------------
(***************************************************************************)
(* What is proved about `omd lifecycle finish`, for any number of finishes,*)
(* sources, observations, seals and reviews.                               *)
(***************************************************************************)
EXTENDS FinalReview, TLAPS

\* A finish whose lanes have been asked remembers the evidence they judge.
Asked == {"lanes", "returned", "accepted", "reviewed", "manifest", "approved", "terminal"}

HasTaken == \A p \in Procs : at[p] \in Asked => taken[p] \in Reviews

\* Why the guards hold until the write: between the checks under the lock and the
\* pointer that follows, nobody else publishes an observation, a seal or a review.
Held(p) == at[p] \in {"accepted", "approved"} => lockHolder = p

Backed(e) == e.tail.passed /\ e.tail.source = e.seal.source

Accepted(p) ==
    at[p] = "accepted" =>
        /\ pointer = Pending(taken[p].nonce)
        /\ taken[p].tail = tail /\ taken[p].seal = seal
        /\ Backed(taken[p])

Bound(p) == at[p] \in {"manifest", "approved"} => taken[p] \in published

Approved(p) == at[p] = "approved" => taken[p].tail = tail /\ taken[p].seal = seal

ReviewInv ==
    /\ \A p \in Procs : Held(p) /\ Accepted(p) /\ Bound(p) /\ Approved(p)
    /\ \A e \in published : Backed(e)
    /\ pointer.kind = "reviewed" => pointer.review \in published
    /\ final # None => final \in published

Inv == TypeOK /\ HasTaken /\ ReviewInv

-----------------------------------------------------------------------------
(* Types.                                                                  *)

THEOREM InitTyped == Init => TypeOK /\ HasTaken
<1> SUFFICES ASSUME Init PROVE TypeOK /\ HasTaken
  OBVIOUS
<1>1. NoObservation \in Observations /\ NoSeal \in Seals
  BY FinalReviewAssumption DEF NoObservation, NoSeal, Observations, Seals
<1>2. edits \in 0..MaxEdits /\ opened \in 0..MaxReviews
  BY FinalReviewAssumption DEF Init
<1>3. QED
  BY <1>1, <1>2 DEF Init, LockInit, TypeOK, HasTaken, Asked, Pointers, Points

\* One finish: every step of it keeps the types.
LEMMA FinishTyped ==
    ASSUME TypeOK, HasTaken, NEW p \in Procs, Finish(p)
    PROVE  TypeOK' /\ HasTaken'
<1> USE DEF TypeOK, HasTaken, Asked, Move, files
<1>1. CASE BeginEvaluation(p)
  BY <1>1 DEF BeginEvaluation, Points
<1>2. CASE EndEvaluation(p)
  BY <1>2 DEF EndEvaluation, Points
<1>3. CASE \E passed \in BOOLEAN : PublishObservation(p, passed)
  BY <1>3, FinalReviewAssumption DEF PublishObservation, Points, Observations
<1>4. CASE TakeFingerprint(p)
  BY <1>4 DEF TakeFingerprint, Points
<1>5. CASE LookAgain(p)
  BY <1>5 DEF LookAgain, Points
<1>6. CASE \E d \in {"retain", "revise"} : FirstLook(p, d)
  BY <1>6 DEF FirstLook, Points
<1>7. CASE CompareBeforeSeal(p)
  BY <1>7 DEF CompareBeforeSeal, Compare, Points
<1>8. CASE ReadSources(p)
  BY <1>8 DEF ReadSources, Points
<1>9. CASE WriteSeal(p)
  BY <1>9, FinalReviewAssumption DEF WriteSeal, Points, Seals
<1>10. CASE OpenReview(p)
  BY <1>10, FinalReviewAssumption DEF OpenReview, Points, Reviews, Nonces, Pointers, Pending
<1>11. CASE \E v \in {"green", "red", "failed"} : ReturnLanes(p, v)
  BY <1>11 DEF ReturnLanes, Points
<1>12. CASE RejectReview(p)
  BY <1>12 DEF RejectReview, Points, Reviews, Nonces, Pointers, Rejected
<1>13. CASE AcceptReview(p)
  BY <1>13 DEF AcceptReview, Points, Acquire
<1>14. CASE WriteReview(p)
  BY <1>14 DEF WriteReview, Points, Pointers, Reviewed, LetGo
<1>15. CASE CompareAfterReview(p)
  BY <1>15 DEF CompareAfterReview, Compare, Points
<1>16. CASE BuildManifest(p)
  BY <1>16 DEF BuildManifest, Points, ReviewToBind, Pointers
<1>17. CASE ApproveManifest(p)
  BY <1>17 DEF ApproveManifest, Points, Acquire
<1>18. CASE WriteFinal(p)
  BY <1>18 DEF WriteFinal, Points, LetGo
<1>19. CASE Complete(p)
  BY <1>19 DEF Complete, Points
<1>20. CASE Stop(p)
  BY <1>20 DEF Stop, Points
<1>21. QED
  BY <1>1, <1>2, <1>3, <1>4, <1>5, <1>6, <1>7, <1>8, <1>9, <1>10, <1>11, <1>12, <1>13, <1>14, <1>15, <1>16, <1>17, <1>18, <1>19, <1>20 DEF Finish

\* An edit changes the source, and nothing a finish has noted.
LEMMA EditTyped ==
    ASSUME TypeOK, HasTaken, NEW s \in Sources, Edit(s)
    PROVE  TypeOK' /\ HasTaken'
BY FinalReviewAssumption DEF Edit, TypeOK, HasTaken, files, mine

LEMMA StepTyped == TypeOK /\ HasTaken /\ [Next]_vars => TypeOK' /\ HasTaken'
<1> SUFFICES ASSUME TypeOK, HasTaken, [Next]_vars PROVE TypeOK' /\ HasTaken'
  OBVIOUS
<1>1. CASE \E p \in Procs : Finish(p)
  BY <1>1, FinishTyped
<1>2. CASE \E s \in Sources : Edit(s)
  BY <1>2, EditTyped
<1>3. CASE UNCHANGED vars
  BY <1>3 DEF TypeOK, HasTaken, vars, files, mine
<1>4. QED
  BY <1>1, <1>2, <1>3 DEF Next

\* Types, and that a finish whose lanes were asked knows the evidence they have.
THEOREM ReviewTypes == Spec => [](TypeOK /\ HasTaken)
<1>1. Init => TypeOK /\ HasTaken
  BY InitTyped
<1>2. TypeOK /\ HasTaken /\ [Next]_vars => TypeOK' /\ HasTaken'
  BY StepTyped
<1>3. QED
  BY <1>1, <1>2, PTL DEF Spec

-----------------------------------------------------------------------------
(* The invariant.                                                          *)

LEMMA FinishKeepsReviews ==
    ASSUME Inv, NEW p \in Procs, Finish(p)
    PROVE  ReviewInv'
<1> USE ProjectLockAssumption
    DEF Inv, ReviewInv, Held, Accepted, Bound, Approved, Backed, Move, files, TypeOK
<1>1. CASE BeginEvaluation(p)
  BY <1>1 DEF BeginEvaluation
<1>2. CASE EndEvaluation(p)
  BY <1>2 DEF EndEvaluation
<1>3. CASE \E passed \in BOOLEAN : PublishObservation(p, passed)
  BY <1>3 DEF PublishObservation
<1>4. CASE TakeFingerprint(p)
  BY <1>4 DEF TakeFingerprint
<1>5. CASE LookAgain(p)
  BY <1>5 DEF LookAgain
<1>6. CASE \E d \in {"retain", "revise"} : FirstLook(p, d)
  BY <1>6 DEF FirstLook
<1>7. CASE CompareBeforeSeal(p)
  BY <1>7 DEF CompareBeforeSeal, Compare
<1>8. CASE ReadSources(p)
  BY <1>8 DEF ReadSources
<1>9. CASE WriteSeal(p)
  BY <1>9 DEF WriteSeal
<1>10. CASE OpenReview(p)
  BY <1>10 DEF OpenReview, Pending, Rejected
<1>11. CASE \E v \in {"green", "red", "failed"} : ReturnLanes(p, v)
  BY <1>11 DEF ReturnLanes
<1>12. CASE RejectReview(p)
  BY <1>12 DEF RejectReview, MayReject, IsPending, Rejected, Pending
<1>13. CASE AcceptReview(p)
  BY <1>13 DEF AcceptReview, Acquire, Acceptable, IsPending, CurrentEvidence, Observed, Sealed
<1>14. CASE WriteReview(p)
  BY <1>14 DEF WriteReview, Pending, Reviewed, LetGo
<1>15. CASE CompareAfterReview(p)
  BY <1>15 DEF CompareAfterReview, Compare
<1>16. CASE BuildManifest(p)
  BY <1>16 DEF BuildManifest, ReviewToBind
<1>17. CASE ApproveManifest(p)
  BY <1>17 DEF ApproveManifest, Acquire, ManifestHolds, CurrentEvidence, Observed, Sealed
<1>18. CASE WriteFinal(p)
  BY <1>18 DEF WriteFinal, LetGo
<1>19. CASE Complete(p)
  BY <1>19 DEF Complete
<1>20. CASE Stop(p)
  BY <1>20 DEF Stop
<1>21. QED
  BY <1>1, <1>2, <1>3, <1>4, <1>5, <1>6, <1>7, <1>8, <1>9, <1>10, <1>11, <1>12, <1>13, <1>14, <1>15, <1>16, <1>17, <1>18, <1>19, <1>20 DEF Finish

LEMMA EditKeepsReviews ==
    ASSUME Inv, NEW s \in Sources, Edit(s)
    PROVE  ReviewInv'
BY DEF Inv, ReviewInv, Held, Accepted, Bound, Approved, Backed, Edit, files, mine

THEOREM InvInductive == Spec => []Inv
<1>1. Init => Inv
  <2> SUFFICES ASSUME Init PROVE Inv
    OBVIOUS
  <2>1. ReviewInv
    BY DEF Init, ReviewInv, Held, Accepted, Bound, Approved
  <2>2. QED
    BY <2>1, InitTyped DEF Inv
<1>2. Inv /\ [Next]_vars => Inv'
  <2> SUFFICES ASSUME Inv, [Next]_vars PROVE Inv'
    OBVIOUS
  <2>1. ReviewInv'
    <3>1. CASE \E p \in Procs : Finish(p)
      BY <3>1, FinishKeepsReviews
    <3>2. CASE \E s \in Sources : Edit(s)
      BY <3>2, EditKeepsReviews
    <3>3. CASE UNCHANGED vars
      BY <3>3 DEF Inv, ReviewInv, Held, Accepted, Bound, Approved, Backed, vars, files, mine
    <3>4. QED
      BY <3>1, <3>2, <3>3 DEF Next
  <2>2. QED
    BY <2>1, StepTyped DEF Inv
<1>3. QED
  BY <1>1, <1>2, PTL DEF Spec

-----------------------------------------------------------------------------
(* The properties.                                                         *)

\* The final evidence rests on a review accepted for its observation and seal.
THEOREM FinalIsReviewed == Spec => []FinalRestsOnReview
<1>1. Inv => FinalRestsOnReview
  BY DEF Inv, ReviewInv, FinalRestsOnReview, Backed
<1>2. QED
  BY <1>1, InvInductive, PTL

\* A step that changes the pointer to a rejected or accepted review.
LEMMA SettlingSteps ==
    ASSUME Inv, Next, pointer' # pointer, pointer'.kind \in {"rejected", "reviewed"}
    PROVE  \E p \in Procs :
             \/ RejectReview(p) /\ IsPending(p) /\ pointer' = Rejected(taken[p].nonce)
             \/ WriteReview(p)
<1>1. PICK p \in Procs : Finish(p)
  BY DEF Next, Edit, files
<1>2. CASE OpenReview(p)
  BY <1>2 DEF OpenReview, Pending
<1>3. CASE RejectReview(p)
  BY <1>3 DEF RejectReview, MayReject
<1>4. CASE WriteReview(p)
  BY <1>4
<1>5. CASE pointer' = pointer
  BY <1>5
<1>6. QED
  BY <1>1, <1>2, <1>3, <1>4, <1>5
  DEF Finish, files, BeginEvaluation, EndEvaluation, PublishObservation, TakeFingerprint,
      LookAgain, FirstLook, CompareBeforeSeal, Compare, ReadSources, WriteSeal, ReturnLanes,
      AcceptReview, CompareAfterReview, BuildManifest, ApproveManifest, WriteFinal, Complete,
      Stop

\* Nobody settles a review but the finish that opened it.
THEOREM SettledByOwner == Spec => OnlyOwnerSettles
<1>1. Inv /\ [Next]_vars =>
        [/\ pointer'.kind = "rejected" /\ pointer' # pointer
              => pointer = Pending(pointer'.nonce)
         /\ pointer'.kind = "reviewed" /\ pointer' # pointer
              => pointer = Pending(pointer'.review.nonce)]_vars
  <2> SUFFICES ASSUME Inv, Next, pointer' # pointer, pointer'.kind \in {"rejected", "reviewed"}
               PROVE  /\ pointer'.kind = "rejected" => pointer = Pending(pointer'.nonce)
                      /\ pointer'.kind = "reviewed" => pointer = Pending(pointer'.review.nonce)
    BY DEF vars, files
  <2>1. PICK p \in Procs :
             \/ RejectReview(p) /\ IsPending(p) /\ pointer' = Rejected(taken[p].nonce)
             \/ WriteReview(p)
    BY SettlingSteps
  <2>2. CASE IsPending(p) /\ pointer' = Rejected(taken[p].nonce)
    BY <2>2 DEF IsPending, Rejected, Pending
  <2>3. CASE WriteReview(p)
    BY <2>3 DEF WriteReview, Reviewed, Move, Inv, ReviewInv, Accepted
  <2>4. QED
    BY <2>1, <2>2, <2>3
<1>2. QED
  BY <1>1, InvInductive, PTL DEF Spec, OnlyOwnerSettles

\* A review is accepted, and final evidence published, about the observation and the
\* seal that are current in that very step.
THEOREM PublishedCurrent == Spec => PublishedIsCurrent
<1>1. Inv /\ [Next]_vars =>
        [/\ pointer'.kind = "reviewed" /\ pointer' # pointer
              => pointer'.review.tail = tail /\ pointer'.review.seal = seal
         /\ final' # final => final'.tail = tail /\ final'.seal = seal]_vars
  <2> SUFFICES ASSUME Inv, Next
               PROVE  /\ pointer'.kind = "reviewed" /\ pointer' # pointer
                            => pointer'.review.tail = tail /\ pointer'.review.seal = seal
                      /\ final' # final => final'.tail = tail /\ final'.seal = seal
    BY DEF vars
  <2>1. ASSUME pointer'.kind = "reviewed", pointer' # pointer
        PROVE  pointer'.review.tail = tail /\ pointer'.review.seal = seal
    <3>1. PICK p \in Procs : WriteReview(p)
      BY <2>1, SettlingSteps DEF Rejected
    <3>2. QED
      BY <3>1 DEF WriteReview, Reviewed, Move, Inv, ReviewInv, Accepted
  <2>2. ASSUME final' # final
        PROVE  final'.tail = tail /\ final'.seal = seal
    <3>1. PICK p \in Procs : WriteFinal(p)
      BY <2>2
      DEF Next, Edit, Finish, files, BeginEvaluation, EndEvaluation, PublishObservation,
          TakeFingerprint, LookAgain, FirstLook, CompareBeforeSeal, Compare, ReadSources,
          WriteSeal, OpenReview, ReturnLanes, RejectReview, AcceptReview, WriteReview,
          CompareAfterReview, BuildManifest, ApproveManifest, Complete, Stop
    <3>2. QED
      BY <3>1 DEF WriteFinal, Move, Inv, ReviewInv, Approved
  <2>3. QED
    BY <2>1, <2>2
<1>2. QED
  BY <1>1, InvInductive, PTL DEF Spec, PublishedIsCurrent

\* A finish reports completion only on final evidence that was reviewed and is about
\* the source as it is.
THEOREM CompletionIsBacked == Spec => CompletedIsBacked
<1>1. Inv /\ [Next]_vars =>
        [\A p \in Procs : at[p] # "done" /\ at'[p] = "done" =>
            /\ final \in published
            /\ final.tail.source = source /\ final.seal.source = source
            /\ eye = [source |-> source, decision |-> "retain"]]_vars
  <2> SUFFICES ASSUME Inv, Next, NEW p \in Procs, at[p] # "done", at'[p] = "done"
               PROVE  /\ final \in published
                      /\ final.tail.source = source /\ final.seal.source = source
                      /\ eye = [source |-> source, decision |-> "retain"]
    BY DEF vars
  <2>1. PICK q \in Procs : Finish(q)
    BY DEF Next, Edit, mine
  <2>2. Complete(q)
    BY <2>1 DEF Inv, TypeOK, Finish, Move, BeginEvaluation, EndEvaluation, PublishObservation,
        TakeFingerprint, LookAgain, FirstLook, CompareBeforeSeal, Compare, ReadSources,
        WriteSeal, OpenReview, ReturnLanes, RejectReview, AcceptReview, WriteReview,
        CompareAfterReview, BuildManifest, ApproveManifest, WriteFinal, Stop
  <2>3. TerminalHolds
    BY <2>2 DEF Complete
  <2>4. QED
    BY <2>3 DEF TerminalHolds, CurrentEvidence, Observed, Sealed, RetainedEye, Inv, ReviewInv,
                Backed
<1>2. QED
  BY <1>1, InvInductive, PTL DEF Spec, CompletedIsBacked

=============================================================================
