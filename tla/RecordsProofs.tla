---------------------------- MODULE RecordsProofs ----------------------------
(***************************************************************************)
(* What is proved about the delivery of a new page, about receipts and       *)
(* about the rules a user's projects learn: for any number of overlapping    *)
(* finishes, of commands, and of projects and promotions.                    *)
(***************************************************************************)
EXTENDS StudioDelivery, CommandAuthority, LearningRules, TLAPS

-----------------------------------------------------------------------------
(* The delivery of a new page.                                             *)

\* Nothing has changed since the attempt returned: the host's note is of this source, so
\* the host has not started again.
NotedAttempt == unchanged => attempted = code /\ stage[Host] = "idle"

\* A review is published after its verdict went into the history, and who delivers holds
\* a review that was published.
ReviewCounted ==
    /\ review # NoRecord => rounds > 0
    /\ \A p \in Finishes :
        stage[p] \in {"record", "deliver"} => has[p] \in Comparisons /\ rounds > 0

StudioInv == StudioTypeOK /\ NotedAttempt /\ ReviewCounted /\ DeliveredAfterComparison

-----------------------------------------------------------------------------

LEMMA Bounds == MaxChanges \in Nat /\ MaxKills \in Nat
BY StudioAssumption

LEMMA StudioInitHolds == StudioInit => StudioInv
<1> SUFFICES ASSUME StudioInit PROVE StudioInv
  OBVIOUS
<1>1. 0 \in 0..MaxChanges /\ 0 \in 0..MaxKills
  BY Bounds
<1>2. QED
  BY <1>1 DEF StudioInit, StudioInv, StudioTypeOK, Stages, NotedAttempt, ReviewCounted,
              DeliveredAfterComparison

\* A step of the host or of the maker outside a finish.
LEMMA HostKeeps ==
    ASSUME StudioInv,
           \/ StartByHost \/ ReturnToHost \/ Interrupt \/ EditPage
           \/ \E p \in Finishes : StartByMaker(p) \/ Kill(p)
    PROVE  StudioInv'
<1> USE StudioAssumption
    DEF StudioInv, StudioTypeOK, Stages, Goes, NotedAttempt, ReviewCounted,
        DeliveredAfterComparison, studioFiles
<1>1. CASE StartByHost
  BY <1>1 DEF StartByHost, ChangedSinceAttempt
<1>2. CASE ReturnToHost
  BY <1>2 DEF ReturnToHost, AfterAttempt
<1>3. CASE Interrupt
  BY <1>3 DEF Interrupt
<1>4. CASE EditPage
  <2>1. code' \in 0..MaxChanges
    BY <1>4, Bounds DEF EditPage
  <2>2. QED
    BY <1>4, <2>1 DEF EditPage, runs
<1>5. ASSUME NEW p \in Finishes, StartByMaker(p) PROVE StudioInv'
  BY <1>5 DEF StartByMaker
<1>6. ASSUME NEW p \in Finishes, Kill(p) PROVE StudioInv'
  BY <1>6 DEF Kill
<1>7. QED
  BY <1>1, <1>2, <1>3, <1>4, <1>5, <1>6

LEMMA FinishKeeps ==
    ASSUME StudioInv, NEW p \in Finishes,
           \/ Fail(p) \/ Build(p) \/ HoldFloors(p) \/ Capture(p) \/ Decide(p)
           \/ Ask(p) \/ Record(p) \/ PublishReview(p) \/ Deliver(p)
    PROVE  StudioInv'
<1> USE StudioAssumption
    DEF StudioInv, StudioTypeOK, Stages, Goes, NotedAttempt, ReviewCounted,
        DeliveredAfterComparison, studioFiles, Stops
<1>1. CASE Fail(p)
  BY <1>1 DEF Fail
<1>2. CASE Build(p)
  <2>1. /\ code' \in 0..MaxChanges /\ page' \in 0..MaxChanges
        /\ unchanged' \in BOOLEAN
        /\ unchanged' => unchanged /\ (code' = code \/ p = Host)
    <3>1. PICK s \in {code, code + 1} :
            /\ s <= MaxChanges
            /\ code' = s /\ page' = s
            /\ unchanged' = (unchanged /\ (s = code \/ p = Host))
      BY <1>2 DEF Build
    <3>2. s \in 0..MaxChanges
      BY <3>1, Bounds
    <3>3. QED
      BY <3>1, <3>2, Zenon
  <2>2. /\ stage[p] = "build"
        /\ stage' = [stage EXCEPT ![p] = "floors"]
        /\ has' = [has EXCEPT ![p] = NoRecord]
        /\ UNCHANGED <<report, rounds, review, delivery, attempted, kills>>
    BY <1>2 DEF Build
  <2>3. StudioTypeOK' /\ ReviewCounted' /\ DeliveredAfterComparison'
    BY <2>1, <2>2
  <2>4. NotedAttempt'
    BY <2>1, <2>2
  <2>5. QED
    BY <2>3, <2>4
<1>3. CASE HoldFloors(p)
  BY <1>3 DEF HoldFloors, Now, Reports
<1>4. CASE Capture(p)
  BY <1>4 DEF Capture, Now, Reports
<1>5. CASE Decide(p)
  BY <1>5 DEF Decide, MayDeliver, IsRetained, Spent, Latest, StudioRounds
<1>6. CASE Ask(p)
  BY <1>6 DEF Ask, Proceeds, Reusable, Packets, Now, Reports
<1>7. CASE Record(p)
  BY <1>7 DEF Record, SameEvidence, Comparisons, Now, Reports
<1>8. CASE PublishReview(p)
  BY <1>8 DEF PublishReview, Proceeds
<1>9. CASE Deliver(p)
  BY <1>9 DEF Deliver
<1>10. QED
  BY <1>1, <1>2, <1>3, <1>4, <1>5, <1>6, <1>7, <1>8, <1>9

\* The types, the host's note, and that every review in use was counted.
THEOREM StudioInvariant == StudioSpec => []StudioInv
<1>1. StudioInv /\ [StudioNext]_studioVars => StudioInv'
  <2> SUFFICES ASSUME StudioInv, [StudioNext]_studioVars PROVE StudioInv'
    OBVIOUS
  <2>1. CASE StudioNext
    BY <2>1, HostKeeps, FinishKeeps DEF StudioNext
  <2>2. CASE UNCHANGED studioVars
    BY <2>2 DEF studioVars, studioFiles, runs, StudioInv, StudioTypeOK, NotedAttempt,
                ReviewCounted, DeliveredAfterComparison
  <2>3. QED
    BY <2>1, <2>2
<1>2. QED
  BY <1>1, StudioInitHolds, PTL DEF StudioSpec

\* A page is delivered with a comparison that was published.
THEOREM DeliveryIsCompared == StudioSpec => []DeliveredAfterComparison
BY StudioInvariant, PTL DEF StudioInv

\* The host does not try again what it tried.
THEOREM HostDoesNotLoop == StudioSpec => GateDoesNotLoop
<1>1. StudioInv /\ [StudioNext]_studioVars => [StartByHost => ~unchanged]_studioVars
  BY DEF StudioInv, NotedAttempt, StartByHost, ChangedSinceAttempt
<1>2. QED
  BY <1>1, StudioInvariant, PTL DEF StudioSpec, GateDoesNotLoop

\* The promise that the run studio_retain refutes, and what it takes to refute it: a build
\* that makes another page after a comparison was recorded.  Until then every review in use
\* is of the built page.
PageStays == [][rounds > 0 => page' = page]_studioVars

ReviewOfPage ==
    /\ review # NoRecord => review.report.page = page
    /\ \A p \in Finishes :
        stage[p] \in {"record", "deliver"} => has[p].report.page = page
    /\ delivery # NoRecord => delivery.review.report.page = page /\ delivery.page = page

\* A review is of the page: it is recorded about the report that is of the page as it is.
LEMMA ReviewStep ==
    ASSUME StudioInv, ReviewOfPage, [StudioNext]_studioVars, rounds > 0 => page' = page
    PROVE  ReviewOfPage'
<1> USE StudioAssumption
    DEF StudioInv, StudioTypeOK, Stages, Goes, ReviewCounted, DeliveredAfterComparison,
        ReviewOfPage, studioFiles, runs, Stops
<1>1. CASE UNCHANGED studioVars
  BY <1>1 DEF studioVars
<1>2. CASE StartByHost \/ ReturnToHost \/ Interrupt \/ EditPage
  BY <1>2 DEF StartByHost, ReturnToHost, Interrupt, EditPage
<1>3. ASSUME NEW p \in Finishes, StartByMaker(p) \/ Kill(p) \/ Fail(p) \/ HoldFloors(p) \/ Capture(p)
      PROVE  ReviewOfPage'
  BY <1>3 DEF StartByMaker, Kill, Fail, HoldFloors, Capture
<1>4. ASSUME NEW p \in Finishes, Build(p) PROVE ReviewOfPage'
  <2>1. /\ stage' = [stage EXCEPT ![p] = "floors"] /\ has' = [has EXCEPT ![p] = NoRecord]
        /\ UNCHANGED <<review, delivery>>
    BY <1>4 DEF Build
  <2>2. CASE page' = page
    BY <2>1, <2>2
  <2>3. CASE page' # page
    <3>1. ~(rounds > 0)
      BY <2>3
    <3>2. /\ review = NoRecord /\ delivery = NoRecord
          /\ \A q \in Finishes : stage[q] \notin {"record", "deliver"}
      BY <3>1
    <3>3. QED
      BY <2>1, <3>2
  <2>4. QED
    BY <2>2, <2>3
<1>5. ASSUME NEW p \in Finishes, Decide(p) \/ Ask(p) PROVE ReviewOfPage'
  BY <1>5 DEF Decide, MayDeliver, IsRetained, Spent, Latest, Ask, Reusable, Proceeds
<1>6. ASSUME NEW p \in Finishes, Record(p) PROVE ReviewOfPage'
  BY <1>6 DEF Record, SameEvidence, Now
<1>7. ASSUME NEW p \in Finishes, PublishReview(p) \/ Deliver(p) PROVE ReviewOfPage'
  BY <1>7 DEF PublishReview, Proceeds, Deliver
<1>8. QED
  BY <1>1, <1>2, <1>3, <1>4, <1>5, <1>6, <1>7 DEF StudioNext

\* As long as no build makes another page after a comparison was recorded, a delivery that
\* says "retain" names a review of the page it delivers, whatever finishes overlap.
THEOREM RetainedPage == StudioSpec /\ PageStays => []RetainIsOfThisPage
<1>1. StudioInit => ReviewOfPage
  BY DEF StudioInit, ReviewOfPage
<1>2. StudioInv /\ ReviewOfPage /\ [StudioNext]_studioVars /\ [rounds > 0 => page' = page]_studioVars
        => ReviewOfPage'
  <2> SUFFICES ASSUME StudioInv, ReviewOfPage, [StudioNext]_studioVars,
                      [rounds > 0 => page' = page]_studioVars
               PROVE  ReviewOfPage'
    OBVIOUS
  <2>1. rounds > 0 => page' = page
    BY DEF studioVars, studioFiles
  <2>2. QED
    BY <2>1, ReviewStep
<1>3. ReviewOfPage => RetainIsOfThisPage
  BY DEF ReviewOfPage, RetainIsOfThisPage
<1>4. QED
  BY <1>1, <1>2, <1>3, StudioInvariant, PTL DEF StudioSpec, PageStays

-----------------------------------------------------------------------------
(* Receipts.                                                               *)

Receipts == [nonce : Clis, key : Clis \cup {NoKey}]
Places == {"idle", "make", "public", "verify", "claim", "journal", "accepted", "refused",
           "killed"}

AuthTypes ==
    /\ privateKey \in Clis \cup {NoKey}
    /\ publicKey \in Clis \cup {NoKey, TornKey}
    /\ receipts \subseteq Receipts
    /\ claims \subseteq Clis /\ journal \subseteq Clis
    /\ progress \in [Clis -> Places]
    /\ using \in [Clis -> Receipts]

Claimed == {"journal", "accepted"}

\* The claim file outlives the process, so a nonce in use by a command that claimed it
\* is in `claims`; and the exclusive create lets one command into Claimed per nonce.
ClaimsHold == \A p \in Clis : progress[p] \in Claimed => Nonce(p) \in claims

OneClaimant ==
    \A p, q \in Clis :
        progress[p] \in Claimed /\ progress[q] \in Claimed /\ p # q => Nonce(p) # Nonce(q)

AuthInv == AuthTypes /\ ClaimsHold /\ OneClaimant

-----------------------------------------------------------------------------
(* Types.                                                                  *)

\* Every step of a command keeps the types, the last one before a kill included.
LEMMA CliTyped ==
    ASSUME AuthTypes, NEW p \in Clis, CliStep(p) \/ KillCli(p)
    PROVE  AuthTypes'
<1> USE DEF AuthTypes, Advance, Places
<1>1. CASE Mint(p)
  BY <1>1 DEF Mint, Sign, Receipts
<1>2. CASE RenamePrivate(p)
  BY <1>2 DEF RenamePrivate
<1>3. CASE WritePublic(p)
  BY <1>3 DEF WritePublic, Sign, Receipts
<1>4. CASE TakeOver(p)
  BY <1>4 DEF TakeOver
<1>5. CASE Verify(p)
  BY <1>5 DEF Verify
<1>6. CASE Claim(p)
  BY <1>6 DEF Claim, Nonce, Receipts
<1>7. CASE Accept(p)
  BY <1>7 DEF Accept, Nonce, Receipts
<1>8. CASE Refuse(p)
  BY <1>8 DEF Refuse
<1>9. CASE KillCli(p)
  BY <1>9 DEF KillCli
<1>10. QED
  BY <1>1, <1>2, <1>3, <1>4, <1>5, <1>6, <1>7, <1>8, <1>9 DEF CliStep

-----------------------------------------------------------------------------
(* The invariant.                                                          *)

\* What every step but the claim leaves: nobody enters Claimed who was not there, who is
\* there keeps its receipt, and no claim is taken back.
LEMMA OthersKeepClaims ==
    ASSUME AuthInv,
           \A p \in Clis : progress'[p] \in Claimed =>
                progress[p] \in Claimed /\ using'[p] = using[p],
           claims \subseteq claims'
    PROVE  ClaimsHold' /\ OneClaimant'
BY DEF AuthInv, ClaimsHold, OneClaimant, Nonce

LEMMA ClaimKeepsClaims ==
    ASSUME AuthInv, NEW p \in Clis, Claim(p)
    PROVE  ClaimsHold' /\ OneClaimant'
<1>1. /\ Nonce(p) \notin claims
      /\ claims' = claims \cup {Nonce(p)}
      /\ using' = using
      /\ \A q \in Clis \ {p} : progress'[q] = progress[q]
  BY DEF Claim, MayClaim, Advance, AuthInv, AuthTypes
<1>2. \A q \in Clis \ {p} : progress'[q] \in Claimed => Nonce(q) \in claims
  BY <1>1 DEF AuthInv, ClaimsHold
<1>3. ClaimsHold'
  BY <1>1, <1>2 DEF ClaimsHold, Nonce
<1>4. OneClaimant'
  BY <1>1, <1>2 DEF AuthInv, OneClaimant, Nonce
<1>5. QED
  BY <1>3, <1>4

LEMMA CliKeepsClaims ==
    ASSUME AuthInv, NEW p \in Clis, CliStep(p) \/ KillCli(p)
    PROVE  ClaimsHold' /\ OneClaimant'
<1>1. CASE Claim(p)
  BY <1>1, ClaimKeepsClaims
<1>2. CASE ~Claim(p)
  <2> USE DEF AuthInv, AuthTypes, Advance, Claimed
  <2>1. claims \subseteq claims'
    BY <1>2 DEF CliStep, KillCli, Mint, RenamePrivate, WritePublic, TakeOver, Verify, Accept,
                Refuse
  <2>2. \A q \in Clis : progress'[q] \in Claimed =>
            progress[q] \in Claimed /\ using'[q] = using[q]
    <3>1. CASE Mint(p)
      BY <3>1 DEF Mint, Sign
    <3>2. CASE RenamePrivate(p) \/ Verify(p) \/ Accept(p) \/ Refuse(p) \/ KillCli(p)
      BY <3>2 DEF RenamePrivate, Verify, Accept, Refuse, KillCli
    <3>3. CASE WritePublic(p)
      BY <3>3 DEF WritePublic, Sign
    <3>4. CASE TakeOver(p)
      BY <3>4 DEF TakeOver
    <3>5. QED
      BY <1>2, <3>1, <3>2, <3>3, <3>4 DEF CliStep
  <2>3. QED
    BY <2>1, <2>2, OthersKeepClaims
<1>3. QED
  BY <1>1, <1>2

\* The types of the files and of the commands, claims outlive the process that made
\* them, and a nonce has one claimant.
THEOREM AuthInvariant == AuthSpec => []AuthInv
<1>1. AuthInit => AuthInv
  BY DEF AuthInit, AuthInv, AuthTypes, Receipts, Places, Claimed, ClaimsHold, OneClaimant
<1>2. AuthInv /\ [AuthNext]_authVars => AuthInv'
  <2> SUFFICES ASSUME AuthInv, [AuthNext]_authVars PROVE AuthInv'
    OBVIOUS
  <2>1. CASE AuthNext
    BY <2>1, CliTyped, CliKeepsClaims DEF AuthNext, AuthInv
  <2>2. CASE UNCHANGED authVars
    BY <2>2 DEF authVars, AuthInv, AuthTypes, ClaimsHold, OneClaimant, Nonce
  <2>3. QED
    BY <2>1, <2>2
<1>3. QED
  BY <1>1, <1>2, PTL DEF AuthSpec

\* A receipt authorizes one command, however many are started with it and wherever one
\* of them is killed.
THEOREM SpentOnce == AuthSpec => []ReceiptSpentOnce
<1>1. AuthInv => ReceiptSpentOnce
  BY DEF AuthInv, OneClaimant, Claimed, ReceiptSpentOnce
<1>2. QED
  BY <1>1, AuthInvariant, PTL

-----------------------------------------------------------------------------
(* The key pair, when it is made by one command at a time.                 *)

Making == {"make", "public"}

OneMaker == \A p, q \in Clis : progress[p] \in Making /\ progress[q] \in Making => p = q

\* A pair is nothing, half made by the command that makes it or died of it, or whole.
PairInv ==
    /\ \A p \in Clis : progress[p] = "make" => privateKey = NoKey
    /\ \A p \in Clis : progress[p] = "public" => privateKey = p /\ publicKey = NoKey
    /\ privateKey = NoKey => publicKey = NoKey
    /\ \/ publicKey = privateKey
       \/ ~Readable /\ \E p \in Clis : progress[p] \in {"public", "killed"}
    /\ ~Readable => receipts = {}

\* What is signed is signed with the key that the project publishes.
ReceiptsBearKey == \A receipt \in receipts : receipt.key = publicKey

LEMMA PairStep ==
    ASSUME AuthTypes, OneMaker, OneMaker', PairInv, ReceiptsBearKey, NEW p \in Clis,
           CliStep(p) \/ KillCli(p)
    PROVE  PairInv' /\ ReceiptsBearKey'
<1> USE AuthorityAssumption
    DEF AuthTypes, OneMaker, PairInv, ReceiptsBearKey, Advance, Making, Readable
<1>1. CASE Mint(p)
  BY <1>1 DEF Mint, Sign
<1>2. CASE RenamePrivate(p)
  BY <1>2 DEF RenamePrivate
<1>3. CASE WritePublic(p)
  BY <1>3 DEF WritePublic, Sign
<1>4. CASE TakeOver(p)
  BY <1>4 DEF TakeOver
<1>5. CASE Verify(p) \/ Claim(p) \/ Accept(p) \/ Refuse(p)
  BY <1>5 DEF Verify, Claim, Accept, Refuse
<1>6. CASE KillCli(p)
  BY <1>6 DEF KillCli
<1>7. QED
  BY <1>1, <1>2, <1>3, <1>4, <1>5, <1>6 DEF CliStep

\* As long as no two commands make the pair at once, it is made once, wherever one of
\* them is killed, and every receipt is signed with the key that verifies it.
THEOREM PairInTurn == AuthSpec /\ []OneMaker => [](KeysAreOnePair /\ ReceiptsBearKey)
<1>1. AuthInit => PairInv /\ ReceiptsBearKey
  BY DEF AuthInit, PairInv, ReceiptsBearKey
<1>2. AuthTypes /\ OneMaker /\ OneMaker' /\ PairInv /\ ReceiptsBearKey /\ [AuthNext]_authVars
         => PairInv' /\ ReceiptsBearKey'
  <2> SUFFICES ASSUME AuthTypes, OneMaker, OneMaker', PairInv, ReceiptsBearKey,
                      [AuthNext]_authVars
               PROVE  PairInv' /\ ReceiptsBearKey'
    OBVIOUS
  <2>1. CASE AuthNext
    BY <2>1, PairStep DEF AuthNext
  <2>2. CASE UNCHANGED authVars
    BY <2>2 DEF authVars, PairInv, ReceiptsBearKey, Readable
  <2>3. QED
    BY <2>1, <2>2
<1>3. AuthInv => AuthTypes
  BY DEF AuthInv
<1>4. PairInv => KeysAreOnePair
  BY DEF PairInv, KeysAreOnePair
<1>5. QED
  BY <1>1, <1>2, <1>3, <1>4, AuthInvariant, PTL DEF AuthSpec

-----------------------------------------------------------------------------
(* Learned rules.                                                          *)

Promotions ==
    [at : {"idle", "read", "evaluate"}, project : Projects \cup {NoProject},
     store : {"open", "readonly", "absent", "unflushed"},
     opened : BOOLEAN, lost : BOOLEAN, index : SUBSET Entries, next : Nat, news : SUBSET Entries]

Busy(p) == promoting[p].at # "idle"

LearningTypes ==
    /\ userIndex \subseteq Entries /\ concluded \subseteq Entries
    /\ projectIndex \in [Projects -> SUBSET Entries]
    /\ promoting \in [Promoters -> Promotions]
    /\ crossed \in BOOLEAN
    /\ \A p \in Promoters : Busy(p) => promoting[p].project \in Projects

\* What a promotion has concluded is on ids before the next one.
NewsIsBehind == \A p \in Promoters : \A e \in promoting[p].news : e.id < promoting[p].next

OneBusy == ~crossed => \A p, r \in Promoters : Busy(p) /\ Busy(r) => p = r

\* A promotion with nobody beside it, which can read the user's index, holds every earlier
\* conclusion that it has not replaced.
HoldsAll ==
    ~crossed => \A p \in Promoters :
        Busy(p) /\ promoting[p].store # "absent" =>
            ~promoting[p].lost /\ Update(concluded, promoting[p].news) \subseteq promoting[p].index

LearningInv == LearningTypes /\ NewsIsBehind /\ OneBusy /\ HoldsAll /\ ConclusionsInTurn

-----------------------------------------------------------------------------

LEMMA RestingTyped == Resting \in Promotions /\ Resting.at = "idle" /\ Resting.news = {}
BY DEF Resting, Promotions, Entries, Ids

\* A process that comes to rest, with the indexes as they were or crossed by nobody.
LEMMA RestKeeps ==
    ASSUME LearningInv, NEW p \in Promoters, Rest(p),
           UNCHANGED <<indexVars, crossed>>
    PROVE  LearningInv'
<1>1. /\ promoting' = [promoting EXCEPT ![p] = Resting]
      /\ promoting \in [Promoters -> Promotions]
  BY DEF Rest, Put, LearningInv, LearningTypes
<1>2. \A r \in Promoters : promoting'[r] = IF r = p THEN Resting ELSE promoting[r]
  BY <1>1
<1>3. \A r \in Promoters : Busy(r)' => r # p /\ Busy(r) /\ promoting'[r] = promoting[r]
  BY <1>2, RestingTyped DEF Busy
<1>4. LearningTypes'
  BY <1>1, <1>3, RestingTyped DEF LearningInv, LearningTypes, indexVars
<1>5. NewsIsBehind'
  BY <1>2, RestingTyped DEF LearningInv, NewsIsBehind
<1>6. OneBusy' /\ HoldsAll'
  BY <1>3 DEF LearningInv, OneBusy, HoldsAll, indexVars
<1>7. ConclusionsInTurn'
  BY DEF LearningInv, ConclusionsInTurn, indexVars
<1>8. QED
  BY <1>4, <1>5, <1>6, <1>7 DEF LearningInv

LEMMA StartKeeps ==
    ASSUME LearningInv, NEW p \in Promoters, NEW q \in Projects, StartPromotion(p, q)
    PROVE  LearningInv'
<1> DEFINE W(store) ==
              [at |-> "read", project |-> q, store |-> store,
               opened |-> store # "absent" /\ userIndex # {}, lost |-> FALSE,
               index |-> Current(q, store # "absent"), next |-> 1, news |-> {}]
<1>1. PICK store \in {"open", "readonly", "absent", "unflushed"} :
        promoting' = [promoting EXCEPT ![p] = W(store)]
  BY DEF StartPromotion, Put
<1> DEFINE w == W(store)
<1>2. promoting' = [promoting EXCEPT ![p] = w]
  BY <1>1
<1>3. /\ UNCHANGED <<userIndex, projectIndex, concluded>>
      /\ crossed' = (crossed \/ \E r \in Promoters : Busy(r))
  BY DEF StartPromotion, indexVars, Busy
<1>4. Current(q, store # "absent") \in SUBSET Entries
  BY DEF Current, LearningInv, LearningTypes
<1>5. w \in Promotions
  BY <1>4 DEF Promotions
<1> HIDE DEF w
<1>6. /\ w.at = "read" /\ w.project = q /\ w.store = store /\ ~w.lost
      /\ w.index = Current(q, store # "absent") /\ w.news = {}
  BY DEF w
<1>7. \A r \in Promoters : promoting'[r] = IF r = p THEN w ELSE promoting[r]
  BY <1>2 DEF LearningInv, LearningTypes
<1>8. LearningTypes'
  <2>1. promoting' \in [Promoters -> Promotions]
    BY <1>2, <1>5 DEF LearningInv, LearningTypes
  <2>2. \A r \in Promoters : Busy(r)' => promoting'[r].project \in Projects
    BY <1>6, <1>7 DEF LearningInv, LearningTypes, Busy
  <2>3. crossed' \in BOOLEAN
    BY <1>3 DEF LearningInv, LearningTypes
  <2>4. QED
    BY <1>3, <2>1, <2>2, <2>3 DEF LearningInv, LearningTypes
<1>9. NewsIsBehind'
  BY <1>6, <1>7 DEF LearningInv, NewsIsBehind
<1>10. ~crossed' => ~crossed /\ \A r \in Promoters : Busy(r)' => r = p
  BY <1>3, <1>7 DEF Busy
<1>11. OneBusy'
  BY <1>10 DEF OneBusy
<1>12. ~crossed' /\ store # "absent" => Update(concluded, {}) \subseteq w.index
  BY <1>6, <1>10 DEF LearningInv, ConclusionsInTurn, Current, Update
<1>13. HoldsAll'
  BY <1>3, <1>6, <1>7, <1>10, <1>12 DEF HoldsAll
<1>14. ConclusionsInTurn'
  BY <1>3, <1>10 DEF LearningInv, ConclusionsInTurn
<1>15. QED
  BY <1>8, <1>9, <1>11, <1>13, <1>14 DEF LearningInv

LEMMA ReadKeeps ==
    ASSUME LearningInv, NEW p \in Promoters, ReadIndex(p)
    PROVE  LearningInv'
<1> DEFINE w == [promoting[p] EXCEPT
                   !.at = "evaluate",
                   !.index = IF promoting[p].lost THEN projectIndex[promoting[p].project] ELSE @]
<1>1. /\ promoting' = [promoting EXCEPT ![p] = w]
      /\ Busy(p)
      /\ UNCHANGED <<userIndex, projectIndex, concluded, crossed>>
  BY DEF ReadIndex, Put, Busy, indexVars, historyVars
<1>2. promoting[p] \in Promotions /\ promoting[p].project \in Projects
  BY <1>1 DEF LearningInv, LearningTypes
<1>3. /\ w \in Promotions
      /\ w.project = promoting[p].project /\ w.store = promoting[p].store
      /\ w.lost = promoting[p].lost /\ w.next = promoting[p].next /\ w.news = promoting[p].news
      /\ ~promoting[p].lost => w.index = promoting[p].index
  BY <1>2 DEF Promotions, LearningInv, LearningTypes
<1> HIDE DEF w
<1>4. \A r \in Promoters : promoting'[r] = IF r = p THEN w ELSE promoting[r]
  BY <1>1 DEF LearningInv, LearningTypes
<1>5. \A r \in Promoters : Busy(r)' => Busy(r)
  BY <1>1, <1>4 DEF Busy
<1>6. LearningTypes'
  <2>1. promoting' \in [Promoters -> Promotions]
    BY <1>1, <1>3 DEF LearningInv, LearningTypes
  <2>2. \A r \in Promoters : Busy(r)' => promoting'[r].project \in Projects
    BY <1>2, <1>3, <1>4, <1>5 DEF LearningInv, LearningTypes
  <2>3. QED
    BY <1>1, <2>1, <2>2 DEF LearningInv, LearningTypes
<1>7. NewsIsBehind'
  BY <1>3, <1>4 DEF LearningInv, NewsIsBehind
<1>8. OneBusy'
  BY <1>1, <1>5 DEF LearningInv, OneBusy
<1>9. HoldsAll'
  BY <1>1, <1>3, <1>4, <1>5 DEF LearningInv, HoldsAll
<1>10. ConclusionsInTurn'
  BY <1>1 DEF LearningInv, ConclusionsInTurn
<1>11. QED
  BY <1>6, <1>7, <1>8, <1>9, <1>10 DEF LearningInv

\* What is said of a further id takes nothing from what is held of the others.
LEMMA UpdateFurther ==
    ASSUME NEW kept, NEW news, NEW index, NEW more,
           \A e \in news : \A n \in more : n.id # e.id,
           Update(kept, news) \subseteq index
    PROVE  Update(kept, news \cup more) \subseteq Update(index, more)
BY DEF Update

LEMMA EvaluateKeeps ==
    ASSUME LearningInv, NEW p \in Promoters, Evaluate(p)
    PROVE  LearningInv'
<1> DEFINE w == promoting[p]
           says == Verdict(notes[w.project][w.next])
           entry == [id |-> w.next, status |-> says, project |-> w.project]
           more == IF says \in {"promoted", "contradicted"} THEN {entry} ELSE {}
           v == [w EXCEPT !.next = @ + 1, !.news = @ \cup more, !.index = Update(@, more)]
<1>1. /\ w.at = "evaluate" /\ w.next \in Ids
      /\ UNCHANGED <<userIndex, projectIndex, concluded, crossed>>
  BY DEF Evaluate, indexVars, historyVars
<1>2. CASE says = "throws"
  BY <1>1, <1>2, RestKeeps DEF Evaluate, indexVars
<1>3. CASE says # "throws"
  <2>1. promoting' = [promoting EXCEPT ![p] = v]
    BY <1>3 DEF Evaluate, Put
  <2>2. w \in Promotions /\ Busy(p) /\ w.project \in Projects
    BY <1>1 DEF LearningInv, LearningTypes, Busy
  <2>3. more \subseteq Entries /\ \A n \in more : n.id = w.next
    BY <1>1, <2>2 DEF Entries
  <2> HIDE DEF more
  <2>4. Update(w.index, more) \subseteq Entries
    BY <2>2, <2>3 DEF Update, Promotions
  <2>5. /\ v \in Promotions
        /\ v.at = w.at /\ v.project = w.project /\ v.store = w.store /\ v.lost = w.lost
        /\ v.next = w.next + 1 /\ v.news = w.news \cup more /\ v.index = Update(w.index, more)
    <3> DEFINE n == w.next + 1
               m == w.news \cup more
               x == Update(w.index, more)
    <3>1. n \in Nat /\ m \in SUBSET Entries /\ x \in SUBSET Entries
      BY <2>2, <2>3, <2>4 DEF Promotions
    <3>2. v = [w EXCEPT !.next = n, !.news = m, !.index = x]
      OBVIOUS
    <3> HIDE DEF w, v, n, m, x
    <3>3. /\ v \in Promotions
          /\ v.at = w.at /\ v.project = w.project /\ v.store = w.store /\ v.lost = w.lost
          /\ v.next = n /\ v.news = m /\ v.index = x
      BY <2>2, <3>1, <3>2 DEF Promotions
    <3>4. QED
      BY <3>3 DEF n, m, x
  <2> HIDE DEF v
  <2>6. \A r \in Promoters : promoting'[r] = IF r = p THEN v ELSE promoting[r]
    BY <2>1 DEF LearningInv, LearningTypes
  <2>7. \A r \in Promoters : Busy(r)' <=> Busy(r)
    BY <2>5, <2>6 DEF Busy
  <2>8. LearningTypes'
    <3>1. promoting' \in [Promoters -> Promotions]
      BY <2>1, <2>5 DEF LearningInv, LearningTypes
    <3>2. \A r \in Promoters : Busy(r)' => promoting'[r].project \in Projects
      BY <2>2, <2>5, <2>6, <2>7 DEF LearningInv, LearningTypes
    <3>3. QED
      BY <1>1, <3>1, <3>2 DEF LearningInv, LearningTypes
  <2>9. \A e \in w.news : e.id \in Nat /\ e.id < w.next
    BY <2>2 DEF LearningInv, NewsIsBehind, Promotions, Entries, Ids
  <2>10. NewsIsBehind'
    <3>1. \A e \in v.news : e.id < v.next
      BY <1>1, <2>3, <2>5, <2>9 DEF Ids
    <3>2. QED
      BY <2>6, <3>1 DEF LearningInv, NewsIsBehind
  <2>11. OneBusy'
    BY <1>1, <2>7 DEF LearningInv, OneBusy
  <2>12. \A e \in w.news : \A n \in more : n.id # e.id
    BY <1>1, <2>3, <2>9 DEF Ids
  <2>13. ASSUME ~crossed, w.store # "absent"
         PROVE  ~v.lost /\ Update(concluded, v.news) \subseteq v.index
    <3>1. ~w.lost /\ Update(concluded, w.news) \subseteq w.index
      BY <2>2, <2>13 DEF LearningInv, HoldsAll
    <3>2. QED
      BY <2>5, <2>12, <3>1, UpdateFurther
  <2>14. HoldsAll'
    BY <1>1, <2>5, <2>6, <2>7, <2>13 DEF LearningInv, HoldsAll
  <2>15. ConclusionsInTurn'
    BY <1>1 DEF LearningInv, ConclusionsInTurn
  <2>16. QED
    BY <2>8, <2>10, <2>11, <2>14, <2>15 DEF LearningInv
<1>4. QED
  BY <1>2, <1>3

LEMMA SaveKeeps ==
    ASSUME LearningInv, NEW p \in Promoters, SaveIndex(p)
    PROVE  LearningInv'
<1> DEFINE w == promoting[p]
           v(r) == [promoting[r] EXCEPT
                      !.lost = @ \/ (promoting[r].opened /\ promoting[r].at = "read")]
<1>1. Busy(p) /\ w \in Promotions /\ w.project \in Projects /\ crossed' = crossed
  BY DEF SaveIndex, Busy, LearningInv, LearningTypes, historyVars
<1>2. projectIndex' \in [Projects -> SUBSET Entries]
  BY <1>1 DEF SaveIndex, LearningInv, LearningTypes, Promotions
<1>3. CASE w.news # {} /\ w.store \in {"open", "unflushed"}
  <2>1. /\ userIndex' = w.index
        /\ concluded' = Update(concluded, w.news)
        /\ promoting' = [r \in Promoters |-> IF r = p THEN Resting ELSE v(r)]
    BY <1>3 DEF SaveIndex, ReplaceUserIndex
  <2>2. userIndex' \subseteq Entries /\ concluded' \subseteq Entries
    BY <1>1, <2>1 DEF Update, Promotions, LearningInv, LearningTypes
  <2>3. \A r \in Promoters :
          /\ v(r) \in Promotions
          /\ v(r).at = promoting[r].at /\ v(r).project = promoting[r].project
          /\ v(r).next = promoting[r].next /\ v(r).news = promoting[r].news
    BY DEF Promotions, LearningInv, LearningTypes
  <2> HIDE DEF v
  <2>4. \A r \in Promoters : Busy(r)' => r # p /\ Busy(r) /\ promoting'[r] = v(r)
    BY <2>1, <2>3, RestingTyped DEF Busy
  <2>5. LearningTypes'
    BY <1>1, <1>2, <2>1, <2>2, <2>3, <2>4, RestingTyped DEF LearningInv, LearningTypes
  <2>6. NewsIsBehind'
    BY <2>1, <2>3, RestingTyped DEF LearningInv, NewsIsBehind
  <2>7. OneBusy' /\ HoldsAll'
    BY <1>1, <2>4 DEF LearningInv, OneBusy, HoldsAll
  <2>8. ConclusionsInTurn'
    BY <1>1, <1>3, <2>1 DEF LearningInv, HoldsAll, ConclusionsInTurn
  <2>9. QED
    BY <2>5, <2>6, <2>7, <2>8 DEF LearningInv
<1>4. CASE ~(w.news # {} /\ w.store \in {"open", "unflushed"})
  <2>1. Rest(p) /\ UNCHANGED <<userIndex, concluded>>
    BY <1>4 DEF SaveIndex
  <2>2. /\ promoting' = [promoting EXCEPT ![p] = Resting]
        /\ promoting \in [Promoters -> Promotions]
    BY <2>1 DEF Rest, Put, LearningInv, LearningTypes
  <2>3. \A r \in Promoters : promoting'[r] = IF r = p THEN Resting ELSE promoting[r]
    BY <2>2
  <2>4. \A r \in Promoters : Busy(r)' => r # p /\ Busy(r) /\ promoting'[r] = promoting[r]
    BY <2>3, RestingTyped DEF Busy
  <2>5. LearningTypes'
    BY <1>1, <1>2, <2>1, <2>2, <2>4, RestingTyped DEF LearningInv, LearningTypes
  <2>6. NewsIsBehind'
    BY <2>3, RestingTyped DEF LearningInv, NewsIsBehind
  <2>7. OneBusy' /\ HoldsAll'
    BY <1>1, <2>1, <2>4 DEF LearningInv, OneBusy, HoldsAll
  <2>8. ConclusionsInTurn'
    BY <1>1, <2>1 DEF LearningInv, ConclusionsInTurn
  <2>9. QED
    BY <2>5, <2>6, <2>7, <2>8 DEF LearningInv
<1>5. QED
  BY <1>3, <1>4

\* The types, and that a promotion with nobody beside it holds all that was concluded.
THEOREM LearningInvariant == LearningSpec => []LearningInv
<1>1. LearningInit => LearningInv
  BY RestingTyped
     DEF LearningInit, LearningInv, LearningTypes, NewsIsBehind, OneBusy, HoldsAll,
         ConclusionsInTurn, Busy
<1>2. LearningInv /\ [LearningNext]_learningVars => LearningInv'
  <2> SUFFICES ASSUME LearningInv, [LearningNext]_learningVars PROVE LearningInv'
    OBVIOUS
  <2>1. CASE UNCHANGED learningVars
    BY <2>1 DEF learningVars, LearningInv, LearningTypes, NewsIsBehind, OneBusy, HoldsAll,
                ConclusionsInTurn, Busy
  <2>2. ASSUME NEW q \in Projects, NEW i \in Ids,
               Predict(q, i) \/ JudgeLearning(q, i) \/ Observe(q, i) \/ Age(q, i)
        PROVE  LearningInv'
    <3>1. UNCHANGED <<indexVars, promoting, historyVars>>
      BY <2>2 DEF Predict, JudgeLearning, Observe, Age, Note
    <3>2. QED
      BY <3>1 DEF indexVars, historyVars, LearningInv, LearningTypes, NewsIsBehind, OneBusy,
                  HoldsAll, ConclusionsInTurn, Busy
  <2>3. ASSUME NEW p \in Promoters, KillPromotion(p) PROVE LearningInv'
    BY <2>3, RestKeeps DEF KillPromotion, historyVars
  <2>4. QED
    BY <2>1, <2>2, <2>3, StartKeeps, ReadKeeps, EvaluateKeeps, SaveKeeps DEF LearningNext
<1>3. QED
  BY <1>1, <1>2, PTL DEF LearningSpec

\* Promotions that take turns lose nothing of what reached the user's index.
THEOREM ConclusionsStay == LearningSpec => []ConclusionsInTurn
BY LearningInvariant, PTL DEF LearningInv

=============================================================================
