----------------------- MODULE EvaluationStoreProofs -----------------------
(***************************************************************************)
(* What is proved about the developer's evaluations, for any number of      *)
(* commands that write, read and are killed at any step.                    *)
(***************************************************************************)
EXTENDS EvaluationStore, FiniteSetTheorems, TLAPS

\* Every record a file names is in the store, and an experiment names no case.
SnapshotHolds(s) == Named(s) \subseteq records /\ (s.source # Nothing => s.cases = {})

CaseHolds(k) == k.source \in records /\ k.held \subseteq records

FilesHold == (\A s \in snapshots : SnapshotHolds(s)) /\ (\A k \in cases : CaseHolds(k))

-----------------------------------------------------------------------------
(* What a command knows.                                                   *)

Shaped(w) ==
    DOMAIN w = {"op", "step", "about", "seen", "todo", "picked", "out", "began"}

Knows(w) ==
    /\ w.seen \subseteq records
    /\ w.todo \subseteq cases /\ w.picked \subseteq cases
    /\ w.step \in {"create", "fill"} =>
        /\ w.op \notin {"none", "publish"}
        /\ w.out.dir = "cases" => CaseHolds(w.out.file)
        /\ w.out.dir = "snapshots" => SnapshotHolds(w.out.file)

Unrevoked(r) == \A v \in revocations : v.record # r

\* Nothing of the snapshot that is active now, or was when the command last looked,
\* was not active when it first looked.  Records and revocations are only added, so
\* that this stays true, though every case is checked against another state.
ActiveSince(w) ==
    \A r \in Named(w.about) : r \in Newest(records) /\ Unrevoked(r) => r \in w.began

SeenSince(w) ==
    \A r \in Named(w.about) : r \in Newest(w.seen) /\ Unrevoked(r) => r \in w.began

Checked(w) ==
    \A k \in w.about.cases \ w.todo : k.source \in w.began /\ k.held \subseteq w.began

Publishing(w) ==
    w.op = "publish" =>
        /\ w.about \in snapshots /\ w.step # "look"
        /\ w.step = "cases" => w.about.source = Nothing
        /\ w.step \in {"records", "revocations", "check", "compose"} =>
            w.todo \subseteq w.about.cases /\ Checked(w)
        /\ w.step \in {"revocations", "check", "compose"} => ActiveSince(w)
        /\ w.step = "records" /\ w.todo # w.about.cases => ActiveSince(w)
        /\ w.step = "revocations" => SeenSince(w)
        /\ w.step \in {"check", "compose"} => \A r \in Named(w.about) \cap w.seen : r \in w.began
        /\ w.step = "compose" => w.todo = {}

WorkHolds(w) == Shaped(w) /\ Knows(w) /\ Publishing(w)

WorksHold == DOMAIN command = Commands /\ \A c \in Commands : WorkHolds(command[c])

StoreInv == FilesHold /\ WorksHold

-----------------------------------------------------------------------------
(* Steps that change no file.                                              *)

LEMMA FreeHolds == WorkHolds(Free)
BY DEF Free, WorkHolds, Shaped, Knows, Publishing

\* A step that leaves the files changes one command, which has to know as much.
LEMMA Thinks ==
    ASSUME StoreInv, NEW c \in Commands, NEW work, WorkHolds(work),
           command' = [command EXCEPT ![c] = work],
           UNCHANGED storeFiles
    PROVE  StoreInv'
<1>1. FilesHold'
  BY DEF storeFiles, StoreInv, FilesHold, SnapshotHolds, CaseHolds, Named
<1>2. WorkHolds(work)'
  BY DEF storeFiles, WorkHolds, Shaped, Knows, Publishing, SnapshotHolds, CaseHolds, Named,
         Unrevoked, ActiveSince, SeenSince, Checked, Newest
<1>3. ASSUME NEW d \in Commands, d # c PROVE WorkHolds(command[d])'
  <2>1. WorkHolds(command[d]) /\ command'[d] = command[d]
    BY <1>3 DEF StoreInv, WorksHold
  <2>2. QED
    BY <2>1 DEF storeFiles, WorkHolds, Shaped, Knows, Publishing, SnapshotHolds, CaseHolds,
                Named, Unrevoked, ActiveSince, SeenSince, Checked, Newest
<1>4. DOMAIN command' = Commands /\ command'[c] = work
  BY DEF StoreInv, WorksHold
<1>5. QED
  BY <1>1, <1>2, <1>3, <1>4 DEF StoreInv, WorksHold

LEMMA BeginKeeps ==
    ASSUME StoreInv, NEW c \in Commands,
           \/ Append(c) \/ ReviseOrRevoke(c) \/ Promote(c) \/ CreateExperiment(c)
           \/ PinEligible(c) \/ ReadForPublication(c)
    PROVE  StoreInv'
<1>1. ASSUME NEW o, NEW x, NEW first, Begin(c, o, x, first), o # "publish",
             first \notin {"create", "fill"}
      PROVE  StoreInv'
  <2>1. WorkHolds([Free EXCEPT !.op = o, !.about = x, !.step = first])
    BY <1>1 DEF Free, WorkHolds, Shaped, Knows, Publishing
  <2>2. QED
    BY <1>1, <2>1, Thinks DEF Begin
<1>2. ASSUME NEW o, NEW x, NEW first, BeginWriter(c, o, x, first), o # "publish",
             first \notin {"create", "fill"}
      PROVE  StoreInv'
  BY <1>1, <1>2 DEF BeginWriter
<1>3. CASE Append(c)
  BY <1>2, <1>3 DEF Append
<1>4. CASE ReviseOrRevoke(c)
  BY <1>2, <1>4 DEF ReviseOrRevoke
<1>5. CASE Promote(c) \/ CreateExperiment(c) \/ PinEligible(c)
  BY <1>2, <1>5 DEF Promote, CreateExperiment, PinEligible
<1>6. CASE ReadForPublication(c)
  <2>1. PICK s \in snapshots :
            Begin(c, "publish", s, IF s.source = Nothing THEN "cases" ELSE "records")
    BY <1>6 DEF ReadForPublication
  <2> DEFINE first == IF s.source = Nothing THEN "cases" ELSE "records"
  <2>2. SnapshotHolds(s)
    BY DEF StoreInv, FilesHold
  <2>3. WorkHolds([Free EXCEPT !.op = "publish", !.about = s, !.step = first])
    BY <2>2 DEF Free, WorkHolds, Shaped, Knows, Publishing, Checked, SnapshotHolds
  <2>4. QED
    BY <2>1, <2>3, Thinks DEF Begin
<1>7. QED
  BY <1>3, <1>4, <1>5, <1>6

LEMMA ReadsKeep ==
    ASSUME StoreInv, NEW c \in Commands,
           Look(c) \/ ReadCases(c) \/ ReadRecords(c) \/ ReadRevocations(c)
    PROVE  StoreInv'
<1> DEFINE w == command[c]
<1>1. WorkHolds(w)
  BY DEF StoreInv, WorksHold
<1>2. ASSUME NEW work, Works(c, work), WorkHolds(work) PROVE StoreInv'
  BY <1>2, Thinks DEF Works
<1> HIDE DEF w
<1>3. CASE Look(c)
  <2>1. WorkHolds([w EXCEPT !.step = "cases"])
    BY <1>1, <1>3 DEF Look, w, WorkHolds, Shaped, Knows, Publishing
  <2>2. QED
    BY <1>2, <1>3, <2>1, FreeHolds DEF Look, w
<1>4. CASE ReadCases(c)
  <2>1. PICK ks : ks \subseteq cases /\ (w.op # "pin" => ks = w.about.cases)
                  /\ w.step = "cases"
                  /\ Works(c, [w EXCEPT !.todo = ks, !.step = Checking(ks)])
    BY <1>4 DEF ReadCases, w
  <2>2. WorkHolds([w EXCEPT !.todo = ks, !.step = Checking(ks)])
    BY <1>1, <2>1
    DEF WorkHolds, Shaped, Knows, Publishing, Checking, Checked, ActiveSince, Named
  <2>3. QED
    BY <1>2, <2>1, <2>2
<1>5. CASE ReadRecords(c)
  <2> DEFINE first == w.op = "publish" /\ w.todo = w.about.cases
             work == [w EXCEPT !.seen = records,
                        !.began = IF first THEN Active(records, revocations) ELSE w.began,
                        !.step = IF w.op = "append" THEN "compose" ELSE "revocations"]
  <2>1. w.step = "records" /\ Works(c, work)
    BY <1>5 DEF ReadRecords, w
  <2>2. WorkHolds(work)
    <3>1. Shaped(work) /\ Knows(work)
      BY <1>1 DEF WorkHolds, Shaped, Knows
    <3>2. ASSUME w.op = "publish" PROVE Publishing(work)
      <4>1. /\ work.op = "publish" /\ work.about = w.about /\ work.step = "revocations"
            /\ work.todo = w.todo /\ work.seen = records
            /\ work.began = IF first THEN Active(records, revocations) ELSE w.began
        BY <1>1, <3>2 DEF WorkHolds, Shaped
      <4>2. ActiveSince(work)
        <5>1. CASE first
          BY <4>1, <5>1 DEF ActiveSince, Active, Unrevoked
        <5>2. CASE ~first
          BY <1>1, <2>1, <3>2, <4>1, <5>2 DEF WorkHolds, Publishing, ActiveSince
        <5>3. QED
          BY <5>1, <5>2
      <4>3. Checked(work)
        BY <1>1, <2>1, <3>2, <4>1 DEF WorkHolds, Publishing, Checked
      <4>4. SeenSince(work)
        BY <4>1, <4>2 DEF ActiveSince, SeenSince
      <4>5. QED
        BY <1>1, <2>1, <3>2, <4>1, <4>2, <4>3, <4>4 DEF WorkHolds, Publishing
    <3>3. ASSUME w.op # "publish" PROVE Publishing(work)
      BY <1>1, <3>3 DEF WorkHolds, Shaped, Publishing
    <3>4. QED
      BY <3>1, <3>2, <3>3 DEF WorkHolds
  <2>3. QED
    BY <1>2, <2>1, <2>2
<1>6. CASE ReadRevocations(c)
  <2> DEFINE work == [w EXCEPT !.seen = Active(w.seen, revocations),
                        !.step = IF w.todo = {} THEN "compose" ELSE "check"]
  <2>1. w.step = "revocations" /\ Works(c, work)
    BY <1>6 DEF ReadRevocations, w
  <2>2. WorkHolds(work)
    <3>1. /\ Active(w.seen, revocations) \subseteq w.seen
          /\ \A r \in Active(w.seen, revocations) : r \in Newest(w.seen) /\ Unrevoked(r)
      BY DEF Active, Newest, Unrevoked
    <3>2. Shaped(work) /\ Knows(work)
      BY <1>1, <3>1 DEF WorkHolds, Shaped, Knows
    <3>3. ASSUME w.op = "publish" PROVE Publishing(work)
      <4>1. /\ work.op = "publish" /\ work.about = w.about /\ work.todo = w.todo
            /\ work.step = IF w.todo = {} THEN "compose" ELSE "check"
            /\ work.seen = Active(w.seen, revocations) /\ work.began = w.began
        BY <1>1, <3>3 DEF WorkHolds, Shaped
      <4>2. ActiveSince(work) /\ Checked(work)
        BY <1>1, <2>1, <3>3, <4>1 DEF WorkHolds, Publishing, ActiveSince, Checked
      <4>3. \A r \in Named(work.about) \cap work.seen : r \in work.began
        BY <1>1, <2>1, <3>1, <3>3, <4>1 DEF WorkHolds, Publishing, SeenSince
      <4>4. QED
        BY <1>1, <2>1, <3>3, <4>1, <4>2, <4>3 DEF WorkHolds, Publishing
    <3>4. ASSUME w.op # "publish" PROVE Publishing(work)
      BY <1>1, <3>4 DEF WorkHolds, Shaped, Publishing
    <3>5. QED
      BY <3>2, <3>3, <3>4 DEF WorkHolds
  <2>3. QED
    BY <1>2, <2>1, <2>2
<1>7. QED
  BY <1>3, <1>4, <1>5, <1>6

LEMMA ChecksKeep ==
    ASSUME StoreInv, NEW c \in Commands,
           CheckCase(c) \/ Freeze(c) \/ Publish(c) \/ GiveUp(c)
    PROVE  StoreInv'
<1> DEFINE w == command[c]
<1>1. WorkHolds(w)
  BY DEF StoreInv, WorksHold
<1>2. ASSUME NEW work, Works(c, work), WorkHolds(work) PROVE StoreInv'
  BY <1>2, Thinks DEF Works
<1> HIDE DEF w
<1>3. CASE CheckCase(c)
  <2>1. PICK k \in w.todo :
            /\ w.op = "pin" \/ IsActiveCase(w.seen, k)
            /\ Works(c, [w EXCEPT
                !.picked = IF IsActiveCase(w.seen, k) THEN w.picked \cup {k} ELSE w.picked,
                !.seen = IF w.todo = {k} THEN w.seen ELSE {},
                !.todo = w.todo \ {k},
                !.step = Checking(w.todo \ {k})])
    BY <1>3 DEF CheckCase, w
  <2>2. w.step = "check"
    BY <1>3 DEF CheckCase, w
  <2> DEFINE work == [w EXCEPT
                !.picked = IF IsActiveCase(w.seen, k) THEN w.picked \cup {k} ELSE w.picked,
                !.seen = IF w.todo = {k} THEN w.seen ELSE {},
                !.todo = w.todo \ {k},
                !.step = Checking(w.todo \ {k})]
  <2>3. Shaped(work) /\ Knows(work)
    BY <1>1, <2>1, <2>2 DEF WorkHolds, Shaped, Knows, Checking
  <2>4. ASSUME w.op = "publish" PROVE Publishing(work)
    <3>1. /\ work.op = "publish" /\ work.about = w.about /\ work.began = w.began
          /\ work.todo = w.todo \ {k}
          /\ work.step = IF w.todo \ {k} = {} THEN "compose" ELSE "records"
          /\ work.seen = IF w.todo = {k} THEN w.seen ELSE {}
      BY <1>1, <2>4 DEF WorkHolds, Shaped, Checking
    <3>2. /\ w.about \in snapshots /\ w.todo \subseteq w.about.cases /\ Checked(w)
          /\ ActiveSince(w)
          /\ \A r \in Named(w.about) \cap w.seen : r \in w.began
      BY <1>1, <2>2, <2>4 DEF WorkHolds, Publishing
    <3>3. k \in w.about.cases /\ w.about.source = Nothing
      BY <2>1, <3>2 DEF StoreInv, FilesHold, SnapshotHolds
    <3>4. k.source \in Named(w.about) /\ k.held \subseteq Named(w.about)
      BY <3>3 DEF Named
    <3>5. k.source \in w.began /\ k.held \subseteq w.began
      BY <2>1, <2>4, <3>2, <3>4 DEF IsActiveCase
    <3>6. Checked(work)
      BY <3>1, <3>2, <3>5 DEF Checked
    <3>7. ActiveSince(work)
      BY <3>1, <3>2 DEF ActiveSince
    <3>8. QED
      BY <3>1, <3>2, <3>6, <3>7 DEF Publishing
  <2>5. ASSUME w.op # "publish" PROVE Publishing(work)
    BY <1>1, <2>5 DEF WorkHolds, Shaped, Publishing
  <2>6. QED
    BY <1>2, <2>1, <2>3, <2>4, <2>5 DEF WorkHolds
<1>4. CASE Freeze(c)
  <2> DEFINE work == [w EXCEPT !.op = "freeze", !.todo = w.picked, !.step = Checking(w.picked)]
  <2>1. w.op = "pin" /\ Works(c, work)
    BY <1>4 DEF Freeze, w
  <2>2. WorkHolds(work)
    BY <1>1, <2>1 DEF WorkHolds, Shaped, Knows, Publishing, Checking
  <2>3. QED
    BY <1>2, <2>1, <2>2
<1>5. CASE Publish(c) \/ GiveUp(c)
  BY <1>2, <1>5, FreeHolds DEF Publish, MayPublish, GiveUp
<1>6. QED
  BY <1>3, <1>4, <1>5

-----------------------------------------------------------------------------
(* Steps that write.                                                       *)

\* The cases of a record, and a snapshot of cases, name what those that judge it name.
LEMMA CasesHold ==
    ASSUME NEW d \in records, NEW judges \in SUBSET records, NEW k \in CasesOf(d, judges)
    PROVE  CaseHolds(k)
BY DEF CasesOf, CaseHolds

LEMMA ValidatedHolds ==
    ASSUME NEW ks, \A k \in ks : CaseHolds(k), NEW pin
    PROVE  SnapshotHolds(Validated(pin, ks))
BY DEF Validated, CaseHolds, SnapshotHolds, Named

\* What an operation composes names records it has read, so that are in the store.
LEMMA ComposedHolds ==
    ASSUME StoreInv, NEW c \in Commands, NEW file \in Composed(c, command[c])
    PROVE  /\ command[c].op \notin {"none", "publish"}
           /\ Directory(command[c].op) = "cases" => CaseHolds(file)
           /\ Directory(command[c].op) = "snapshots" => SnapshotHolds(file)
<1> DEFINE w == command[c]
<1>1. Knows(w)
  BY DEF StoreInv, WorksHold, WorkHolds
<1> HIDE DEF w
<1>2. w.op \in {"append", "revise", "revoke", "promote", "experiment", "freeze"}
  BY DEF Composed, w
<1>3. CASE w.op \in {"append", "revise", "revoke"}
  BY <1>3 DEF Directory, w
<1>4. CASE w.op = "promote"
  <2>1. PICK d \in Promotable(w) : file \in CasesOf(d, Judging(w, d))
    BY <1>4 DEF Composed, w
  <2>2. CaseHolds(file)
    BY <1>1, <2>1, CasesHold DEF Promotable, Judging, Knows
  <2>3. QED
    BY <1>4, <2>2 DEF Directory, w
<1>5. CASE w.op = "experiment"
  <2>1. PICK d \in Promotable(w) : file = Experiment(w.about, d)
    BY <1>5 DEF Composed, w
  <2>2. SnapshotHolds(file)
    BY <1>1, <2>1 DEF Promotable, Knows, Experiment, SnapshotHolds, Named
  <2>3. QED
    BY <1>5, <2>2 DEF Directory, w
<1>6. CASE w.op = "freeze"
  <2>1. file = Validated(w.about, w.picked)
    BY <1>6 DEF Composed, w
  <2>2. \A k \in w.picked : CaseHolds(k)
    BY <1>1 DEF Knows, StoreInv, FilesHold
  <2>3. SnapshotHolds(file)
    BY <2>1, <2>2, ValidatedHolds
  <2>4. QED
    BY <1>6, <2>3 DEF Directory, w
<1>7. QED
  BY <1>2, <1>3, <1>4, <1>5, <1>6

LEMMA ComposeKeeps ==
    ASSUME StoreInv, NEW c \in Commands, Compose(c) \/ Create(c)
    PROVE  StoreInv'
<1> DEFINE w == command[c]
<1>1. WorkHolds(w)
  BY DEF StoreInv, WorksHold
<1>2. ASSUME NEW work, Works(c, work), WorkHolds(work) PROVE StoreInv'
  BY <1>2, Thinks DEF Works
<1>3. CASE Compose(c)
  <2>1. PICK file \in Composed(c, w) :
            Works(c, [Free EXCEPT !.op = w.op, !.step = "create",
                                  !.out = [dir |-> Directory(w.op), file |-> file]])
    BY <1>3 DEF Compose
  <2>2. WorkHolds([Free EXCEPT !.op = w.op, !.step = "create",
                               !.out = [dir |-> Directory(w.op), file |-> file]])
    BY <2>1, ComposedHolds DEF Free, WorkHolds, Shaped, Knows, Publishing
  <2>3. QED
    BY <1>2, <2>1, <2>2
<1>4. CASE Create(c)
  <2>1. w.step = "create"
    BY <1>4 DEF Create
  <2>2. WorkHolds([w EXCEPT !.step = "fill"])
    BY <1>1, <2>1 DEF WorkHolds, Shaped, Knows, Publishing
  <2>3. QED
    BY <1>2, <1>4, <2>2, FreeHolds DEF Create
<1>5. QED
  BY <1>3, <1>4

\* Files are only added: a snapshot, a case, and what a command knows stay true.
LEMMA GrowthKeeps ==
    ASSUME FilesHold, NEW w, WorkHolds(w),
           records \subseteq records', revocations \subseteq revocations',
           cases \subseteq cases', snapshots \subseteq snapshots'
    PROVE  WorkHolds(w)'
<1>1. \A rs : rs \subseteq records =>
        \A r \in rs : r \in Newest(records') => r \in Newest(records)
  BY DEF Newest
<1>2. \A r : Unrevoked(r)' => Unrevoked(r)
  BY DEF Unrevoked
<1>3. \A k : CaseHolds(k) => CaseHolds(k)'
  BY DEF CaseHolds
<1>4. \A s : SnapshotHolds(s) => SnapshotHolds(s)'
  BY DEF SnapshotHolds, Named
<1>5. Shaped(w)' /\ Knows(w)'
  BY <1>3, <1>4 DEF WorkHolds, Shaped, Knows
<1>6. ASSUME w.op = "publish" PROVE Publishing(w)'
  <2>1. w.about \in snapshots /\ Named(w.about) \subseteq records
    BY <1>6 DEF WorkHolds, Publishing, FilesHold, SnapshotHolds
  <2>2. ActiveSince(w) => ActiveSince(w)'
    BY <1>1, <1>2, <2>1 DEF ActiveSince, Named
  <2>3. SeenSince(w) => SeenSince(w)'
    BY <1>2 DEF SeenSince, Named, Newest
  <2>4. Checked(w) => Checked(w)'
    BY DEF Checked
  <2>5. QED
    BY <1>6, <2>1, <2>2, <2>3, <2>4 DEF WorkHolds, Publishing, Named
<1>7. QED
  BY <1>5, <1>6 DEF WorkHolds, Publishing

LEMMA FillKeeps ==
    ASSUME StoreInv, NEW c \in Commands, Fill(c)
    PROVE  StoreInv'
<1> DEFINE w == command[c]
<1>1. WorkHolds(w) /\ w.step = "fill"
  BY DEF StoreInv, WorksHold, Fill
<1>2. /\ records' = With("records", w) /\ revocations' = With("revocations", w)
      /\ cases' = With("cases", w) /\ snapshots' = With("snapshots", w)
      /\ command' = [command EXCEPT ![c] = Free]
  BY DEF Fill
<1> HIDE DEF w
<1>3. /\ records \subseteq records' /\ revocations \subseteq revocations'
      /\ cases \subseteq cases' /\ snapshots \subseteq snapshots'
  BY <1>2 DEF With, Files
<1>4. \A k : CaseHolds(k) => CaseHolds(k)'
  BY <1>3 DEF CaseHolds
<1>5. \A s : SnapshotHolds(s) => SnapshotHolds(s)'
  BY <1>3 DEF SnapshotHolds, Named
<1>6. FilesHold'
  <2>1. ASSUME NEW s \in snapshots' PROVE SnapshotHolds(s)'
    <3>1. s \in snapshots \/ (w.out.dir = "snapshots" /\ s = w.out.file)
      BY <1>2, <2>1 DEF With, Files
    <3>2. SnapshotHolds(s)
      BY <1>1, <3>1 DEF StoreInv, FilesHold, WorkHolds, Knows
    <3>3. QED
      BY <1>5, <3>2
  <2>2. ASSUME NEW k \in cases' PROVE CaseHolds(k)'
    <3>1. k \in cases \/ (w.out.dir = "cases" /\ k = w.out.file)
      BY <1>2, <2>2 DEF With, Files
    <3>2. CaseHolds(k)
      BY <1>1, <3>1 DEF StoreInv, FilesHold, WorkHolds, Knows
    <3>3. QED
      BY <1>4, <3>2
  <2>3. QED
    BY <2>1, <2>2 DEF FilesHold
<1>7. WorksHold'
  <2>1. ASSUME NEW d \in Commands PROVE WorkHolds(command[d])'
    <3>1. CASE d = c
      <4>1. command'[d] = Free
        BY <1>2, <3>1 DEF StoreInv, WorksHold
      <4>2. WorkHolds(Free)'
        BY FreeHolds, <1>3, GrowthKeeps DEF StoreInv
      <4>3. QED
        BY <4>1, <4>2
    <3>2. CASE d # c
      <4>1. PICK x : x = command[d] /\ WorkHolds(x)
        BY DEF StoreInv, WorksHold
      <4>2. command'[d] = x
        BY <1>2, <3>2, <4>1
      <4>3. WorkHolds(x)'
        BY <1>3, <4>1, GrowthKeeps DEF StoreInv
      <4>4. QED
        BY <4>2, <4>3
    <3>3. QED
      BY <3>1, <3>2
  <2>2. DOMAIN command' = Commands
    BY <1>2 DEF StoreInv, WorksHold
  <2>3. QED
    BY <2>1, <2>2 DEF WorksHold
<1>8. QED
  BY <1>6, <1>7 DEF StoreInv

\* A store that is not empty at the start.
StartsWith(c, id, x) ==
    LET d == Origin(c, id, Nothing)
        judges == {Origin(c, h, d) : h \in HeldOuts}
    IN  /\ records = {d} \cup judges
        /\ cases \subseteq CasesOf(d, judges)
        /\ \/ snapshots = {Experiment(x, d)}
           \/ \E y \in Pins \ {x} : snapshots = {Experiment(x, d), Validated(y, cases)}

LEMMA StoreStep ==
    ASSUME StoreInv, NEW c \in Commands,
           \/ Append(c) \/ ReviseOrRevoke(c) \/ Promote(c) \/ CreateExperiment(c)
           \/ PinEligible(c) \/ ReadForPublication(c)
           \/ Look(c) \/ ReadCases(c) \/ ReadRecords(c) \/ ReadRevocations(c) \/ CheckCase(c)
           \/ Freeze(c) \/ Compose(c) \/ Publish(c) \/ Create(c) \/ Fill(c)
           \/ GiveUp(c) \/ KillCommand(c)
    PROVE  StoreInv'
<1>1. CASE KillCommand(c)
  BY <1>1, FreeHolds, Thinks DEF KillCommand
<1>2. QED
  BY <1>1, BeginKeeps, ReadsKeep, ChecksKeep, ComposeKeeps, FillKeeps

-----------------------------------------------------------------------------

\* What files name is in the store, and what a command that publishes has checked was
\* active when it first looked.
THEOREM StoreInvariant == StoreSpec => []StoreInv
<1>1. StoreInit => StoreInv
  <2> SUFFICES ASSUME StoreInit PROVE StoreInv
    OBVIOUS
  <2>1. FilesHold
    <3>1. CASE records = {} /\ snapshots = {} /\ cases = {}
      BY <3>1 DEF FilesHold
    <3>2. CASE ~(records = {} /\ snapshots = {} /\ cases = {})
      <4>1. PICK c \in Commands, id \in Developments, x \in Pins : StartsWith(c, id, x)
        BY <3>2 DEF StoreInit, StartsWith
      <4> DEFINE d == Origin(c, id, Nothing)
                 judges == {Origin(c, h, d) : h \in HeldOuts}
      <4>2. records = {d} \cup judges /\ cases \subseteq CasesOf(d, judges)
        BY <4>1 DEF StartsWith
      <4>3. \A k \in cases : CaseHolds(k)
        <5> HIDE DEF d, judges
        <5>1. QED
          BY <4>2, CasesHold
      <4>4. ASSUME NEW s \in snapshots PROVE SnapshotHolds(s)
        <5>1. s = Experiment(x, d) \/ \E y : s = Validated(y, cases)
          BY <4>1 DEF StartsWith
        <5> HIDE DEF d, judges
        <5>2. CASE s = Experiment(x, d)
          BY <4>2, <5>2 DEF Experiment, SnapshotHolds, Named
        <5>3. CASE \E y : s = Validated(y, cases)
          BY <4>3, <5>3, ValidatedHolds
        <5>4. QED
          BY <5>1, <5>2, <5>3
      <4>5. QED
        BY <4>3, <4>4 DEF FilesHold
    <3>3. QED
      BY <3>1, <3>2
  <2>2. WorksHold
    BY FreeHolds DEF StoreInit, WorksHold
  <2>3. QED
    BY <2>1, <2>2 DEF StoreInv
<1>2. StoreInv /\ [StoreNext]_storeVars => StoreInv'
  <2> SUFFICES ASSUME StoreInv, [StoreNext]_storeVars PROVE StoreInv'
    OBVIOUS
  <2>1. CASE StoreNext
    BY <2>1, StoreStep DEF StoreNext
  <2>2. CASE UNCHANGED storeVars
    <3>1. UNCHANGED <<storeFiles, command>>
      BY <2>2 DEF storeVars
    <3>2. QED
      BY <3>1 DEF storeFiles, StoreInv, FilesHold, SnapshotHolds, CaseHolds, Named, WorksHold,
         WorkHolds, Shaped, Knows, Publishing, Unrevoked, ActiveSince, SeenSince, Checked,
         Newest
  <2>3. QED
    BY <2>1, <2>2
<1>3. QED
  BY <1>1, <1>2, PTL DEF StoreSpec

\* A snapshot given to a run was active as a whole when its check began.
THEOREM SnapshotWasActive == StoreSpec => PublishedWasActive
<1>1. StoreInv /\ [StoreNext]_storeVars =>
        [\A c \in Commands : Publish(c) =>
            \A r \in Named(command[c].about) : r \in command[c].began]_storeVars
  <2> SUFFICES ASSUME StoreInv, NEW c \in Commands, Publish(c),
                      NEW r \in Named(command[c].about)
               PROVE  r \in command[c].began
    OBVIOUS
  <2> DEFINE w == command[c]
  <2>1. /\ w.about.source = Nothing \/ w.about.source \in w.seen
        /\ w.todo = {} /\ Checked(w)
        /\ \A x \in Named(w.about) \cap w.seen : x \in w.began
    BY DEF Publish, MayPublish, StoreInv, WorksHold, WorkHolds, Publishing
  <2>2. QED
    BY <2>1 DEF Checked, Named
<1>2. QED
  BY <1>1, StoreInvariant, PTL DEF StoreSpec, PublishedWasActive

-----------------------------------------------------------------------------
(* Commands that run one after the other.                                  *)

Quiet == ~overlapped /\ damaged = {}

IsWriter(w) == w.op \notin {"none", "publish"}

RecordShaped(r) == DOMAIN r = {"id", "revision", "revises", "of", "by"} /\ r.revision \in Nat

Tidy ==
    /\ \A r \in records : RecordShaped(r)
    /\ ChainsHold(records)
    /\ RevocationsBind(records, revocations)
    /\ \A s, t \in snapshots : s.pin = t.pin => s = t

\* A file that keeps the store tidy: the first record of its name or a revision of an
\* active one, a revocation of an active record, the first snapshot of its pin.
NewRecord(f) ==
    /\ RecordShaped(f)
    /\ \/ f.revision = 1 /\ \A r \in records : r.id # f.id
       \/ /\ f.revises \in Active(records, revocations)
          /\ f.id = f.revises.id /\ f.revision = f.revises.revision + 1

Fits(out) ==
    /\ out.dir = "records" => NewRecord(out.file)
    /\ out.dir = "revocations" => out.file.record \in Active(records, revocations)
    /\ out.dir = "snapshots" => \A s \in snapshots : s.pin # out.file.pin

\* A writer that is alone has read the store as it is.
Ready(w) ==
    /\ w.op \in {"append", "revise", "revoke"} =>
            w.todo = {} /\ w.step \notin {"look", "cases", "check"}
    /\ w.op = "append" /\ w.step \in {"records", "compose"} =>
            RecordShaped(w.about) /\ w.about.revision = 1
    /\ w.op = "append" => w.step # "revocations" /\ (w.step = "compose" => w.seen = records)
    /\ w.op \in {"revise", "revoke"} /\ w.step = "revocations" => w.seen = records
    /\ w.op \in {"revise", "revoke"} /\ w.step = "compose" =>
            w.seen = Active(records, revocations)
    /\ w.step \in {"create", "fill"} => Fits(w.out)

Steady ==
    Quiet =>
        /\ Tidy
        /\ \A c, d \in Commands : IsWriter(command[c]) /\ IsWriter(command[d]) => c = d
        /\ \A c \in Commands : IsWriter(command[c]) => Ready(command[c])

\* A step that leaves the files: it starts no second writer, and a writer stays ready.
LEMMA SteadyThinks ==
    ASSUME StoreInv, Steady, NEW c \in Commands, NEW work,
           command' = [command EXCEPT ![c] = work], UNCHANGED storeFiles, Quiet' => Quiet,
           Quiet' /\ IsWriter(work) =>
                /\ Ready(work)
                /\ IsWriter(command[c]) \/ \A d \in Commands : ~IsWriter(command[d])
    PROVE  Steady'
<1> SUFFICES ASSUME Quiet' PROVE Steady'
  BY DEF Steady
<1>1. Tidy'
  BY DEF Steady, Tidy, storeFiles
<1>2. \A d \in Commands : command'[d] = IF d = c THEN work ELSE command[d]
  BY DEF StoreInv, WorksHold
<1>3. \A d, e \in Commands : IsWriter(command'[d]) /\ IsWriter(command'[e]) => d = e
  BY <1>2 DEF Steady
<1>4. \A w : Ready(w) => Ready(w)'
  BY DEF storeFiles, Ready, Fits, NewRecord, RecordShaped, Active, Newest
<1>5. ASSUME NEW d \in Commands, IsWriter(command'[d]) PROVE Ready(command[d])'
  <2>1. PICK x : x = command'[d] /\ Ready(x)
    BY <1>2, <1>5 DEF Steady
  <2>2. QED
    BY <1>4, <2>1
<1>6. QED
  BY <1>1, <1>3, <1>5 DEF Steady, IsWriter

LEMMA SteadyBegin ==
    ASSUME StoreInv, Steady, NEW c \in Commands,
           \/ Append(c) \/ ReviseOrRevoke(c) \/ Promote(c) \/ CreateExperiment(c)
           \/ PinEligible(c) \/ ReadForPublication(c)
    PROVE  Steady'
<1>1. ASSUME NEW o, NEW x, NEW first, BeginWriter(c, o, x, first),
             first \in {"records", "look"}, o = "append" => RecordShaped(x) /\ x.revision = 1,
             o \in {"append", "revise", "revoke"} => first = "records"
      PROVE  Steady'
  <2> DEFINE work == [Free EXCEPT !.op = o, !.about = x, !.step = first]
  <2>1. /\ command' = [command EXCEPT ![c] = work]
        /\ UNCHANGED storeFiles /\ (Quiet' => Quiet)
    BY <1>1 DEF BeginWriter, Begin, Quiet
  <2>2. Quiet' => \A d \in Commands : ~IsWriter(command[d])
    BY <1>1 DEF BeginWriter, Quiet, Writers, IsWriter
  <2>3. Ready(work)
    BY <1>1 DEF Free, Ready
  <2> HIDE DEF work
  <2>4. QED
    BY <2>1, <2>2, <2>3, SteadyThinks
<1>2. CASE Append(c)
  <2>1. \A id, of : LET r == Origin(c, id, of) IN RecordShaped(r) /\ r.revision = 1
    BY DEF Origin, RecordShaped
  <2>2. QED
    BY <1>1, <1>2, <2>1 DEF Append
<1>3. CASE ReviseOrRevoke(c)
  BY <1>1, <1>3 DEF ReviseOrRevoke
<1>4. CASE Promote(c) \/ CreateExperiment(c) \/ PinEligible(c)
  BY <1>1, <1>4 DEF Promote, CreateExperiment, PinEligible
<1>5. CASE ReadForPublication(c)
  <2>1. PICK s \in snapshots :
            Begin(c, "publish", s, IF s.source = Nothing THEN "cases" ELSE "records")
    BY <1>5 DEF ReadForPublication
  <2> DEFINE work == [Free EXCEPT !.op = "publish", !.about = s,
                                 !.step = IF s.source = Nothing THEN "cases" ELSE "records"]
  <2>2. ~IsWriter(work)
    BY DEF Free, IsWriter
  <2>3. /\ command' = [command EXCEPT ![c] = work]
        /\ UNCHANGED storeFiles /\ (Quiet' => Quiet)
    BY <1>5, <2>1 DEF Begin, ReadForPublication, Quiet
  <2> HIDE DEF work
  <2>4. QED
    BY <2>2, <2>3, SteadyThinks
<1>6. QED
  BY <1>2, <1>3, <1>4, <1>5

\* Reading and checking: the operation stays the same, or the command is done.
LEMMA SteadyReads ==
    ASSUME StoreInv, Steady, NEW c \in Commands,
           \/ Look(c) \/ ReadCases(c) \/ ReadRecords(c) \/ ReadRevocations(c)
           \/ CheckCase(c) \/ Freeze(c) \/ Publish(c) \/ GiveUp(c)
    PROVE  Steady'
<1> DEFINE w == command[c]
<1>1. Shaped(w)
  BY DEF StoreInv, WorksHold, WorkHolds
<1>2. ASSUME NEW work, Works(c, work),
             IsWriter(work) => IsWriter(w) /\ (Ready(w) => Ready(work))
      PROVE  Steady'
  <2>1. /\ command' = [command EXCEPT ![c] = work]
        /\ UNCHANGED storeFiles /\ (Quiet' => Quiet)
    BY <1>2 DEF Works, Quiet
  <2>2. Quiet' /\ IsWriter(work) => Ready(work) /\ IsWriter(command[c])
    BY <1>2, <2>1 DEF Steady
  <2>3. QED
    BY <2>1, <2>2, SteadyThinks
<1>3. ~IsWriter(Free)
  BY DEF Free, IsWriter
<1> HIDE DEF w
<1>4. CASE Look(c)
  <2>1. w.step = "look"
    BY <1>4 DEF Look, w
  <2>2. IsWriter([w EXCEPT !.step = "cases"]) =>
            IsWriter(w) /\ (Ready(w) => Ready([w EXCEPT !.step = "cases"]))
    BY <1>1, <2>1 DEF Shaped, IsWriter, Ready
  <2>3. QED
    BY <1>2, <1>3, <1>4, <2>2 DEF Look, w
<1>5. CASE ReadCases(c)
  <2>1. PICK ks : w.step = "cases" /\ Works(c, [w EXCEPT !.todo = ks, !.step = Checking(ks)])
    BY <1>5 DEF ReadCases, w
  <2> DEFINE work == [w EXCEPT !.todo = ks, !.step = Checking(ks)]
  <2>2. IsWriter(work) => IsWriter(w) /\ (Ready(w) => Ready(work))
    BY <1>1, <2>1 DEF Shaped, IsWriter, Ready, Checking
  <2>3. QED
    BY <1>2, <2>1, <2>2
<1>6. CASE ReadRecords(c)
  <2> DEFINE work == [w EXCEPT !.seen = records,
                        !.began = IF w.op = "publish" /\ w.todo = w.about.cases
                                  THEN Active(records, revocations) ELSE w.began,
                        !.step = IF w.op = "append" THEN "compose" ELSE "revocations"]
  <2>1. w.step = "records" /\ Works(c, work)
    BY <1>6 DEF ReadRecords, w
  <2>2. IsWriter(work) => IsWriter(w) /\ (Ready(w) => Ready(work))
    BY <1>1, <2>1 DEF Shaped, IsWriter, Ready
  <2>3. QED
    BY <1>2, <2>1, <2>2
<1>7. CASE ReadRevocations(c)
  <2> DEFINE work == [w EXCEPT !.seen = Active(w.seen, revocations),
                        !.step = IF w.todo = {} THEN "compose" ELSE "check"]
  <2>1. w.step = "revocations" /\ Works(c, work)
    BY <1>7 DEF ReadRevocations, w
  <2>2. IsWriter(work) => IsWriter(w) /\ (Ready(w) => Ready(work))
    BY <1>1, <2>1 DEF Shaped, IsWriter, Ready
  <2>3. QED
    BY <1>2, <2>1, <2>2
<1>8. CASE CheckCase(c)
  <2>1. PICK k \in w.todo :
            Works(c, [w EXCEPT
                !.picked = IF IsActiveCase(w.seen, k) THEN w.picked \cup {k} ELSE w.picked,
                !.seen = IF w.todo = {k} THEN w.seen ELSE {},
                !.todo = w.todo \ {k},
                !.step = Checking(w.todo \ {k})])
    BY <1>8 DEF CheckCase, w
  <2>2. w.step = "check"
    BY <1>8 DEF CheckCase, w
  <2> DEFINE work == [w EXCEPT
                !.picked = IF IsActiveCase(w.seen, k) THEN w.picked \cup {k} ELSE w.picked,
                !.seen = IF w.todo = {k} THEN w.seen ELSE {},
                !.todo = w.todo \ {k},
                !.step = Checking(w.todo \ {k})]
  <2>3. IsWriter(work) => IsWriter(w) /\ (Ready(w) => Ready(work))
    BY <1>1, <2>2 DEF Shaped, IsWriter, Ready, Checking
  <2>4. QED
    BY <1>2, <2>1, <2>3
<1>9. CASE Freeze(c)
  <2> DEFINE work == [w EXCEPT !.op = "freeze", !.todo = w.picked, !.step = Checking(w.picked)]
  <2>1. w.op = "pin" /\ Works(c, work)
    BY <1>9 DEF Freeze, w
  <2>2. IsWriter(work) => IsWriter(w) /\ (Ready(w) => Ready(work))
    BY <1>1, <2>1 DEF Shaped, IsWriter, Ready, Checking
  <2>3. QED
    BY <1>2, <2>1, <2>2
<1>10. CASE Publish(c) \/ GiveUp(c)
  BY <1>2, <1>3, <1>10 DEF Publish, MayPublish, GiveUp
<1>11. QED
  BY <1>4, <1>5, <1>6, <1>7, <1>8, <1>9, <1>10

LEMMA ComposedFits ==
    ASSUME StoreInv, Tidy, NEW c \in Commands, Ready(command[c]),
           command[c].step = "compose", NEW file \in Composed(c, command[c])
    PROVE  Fits([dir |-> Directory(command[c].op), file |-> file])
<1> DEFINE w == command[c]
           out == [dir |-> Directory(w.op), file |-> file]
<1>1. Ready(w) /\ w.step = "compose" /\ file \in Composed(c, w)
  OBVIOUS
<1>2. Active(records, revocations) \subseteq records
  BY DEF Active, Newest
<1> HIDE DEF w
<1>3. CASE w.op = "append"
  <2>1. file = w.about /\ \A r \in w.seen : r.id # w.about.id
    BY <1>1, <1>3 DEF Composed
  <2>2. NewRecord(file)
    BY <1>1, <1>3, <2>1 DEF Ready, NewRecord
  <2>3. QED
    BY <1>3, <2>2 DEF w, Fits, Directory
<1>4. CASE w.op = "revise"
  <2>1. PICK r \in Chosen(w) :
            file = [r EXCEPT !.revision = r.revision + 1, !.revises = r, !.by = c]
    BY <1>1, <1>4 DEF Composed
  <2>2. r \in Active(records, revocations) /\ RecordShaped(r)
    BY <1>1, <1>2, <1>4 DEF Chosen, Ready, Tidy
  <2>3. NewRecord(file)
    BY <2>1, <2>2 DEF NewRecord, RecordShaped
  <2>4. QED
    BY <1>4, <2>3 DEF w, Fits, Directory
<1>5. CASE w.op = "revoke"
  <2>1. PICK r \in Chosen(w) : file = [record |-> r, by |-> c]
    BY <1>1, <1>5 DEF Composed
  <2>2. file.record \in Active(records, revocations)
    BY <1>1, <1>5, <2>1 DEF Chosen, Ready
  <2>3. QED
    BY <1>5, <2>2 DEF w, Fits, Directory
<1>6. CASE w.op = "promote"
  BY <1>6 DEF w, Fits, Directory
<1>7. CASE w.op \in {"experiment", "freeze"}
  <2>1. Pinned(w.about) = {}
    BY <1>1, <1>7 DEF Composed
  <2>2. file.pin = w.about
    <3>1. CASE w.op = "experiment"
      <4>1. PICK d \in Promotable(w) : file = Experiment(w.about, d)
        BY <1>1, <2>1, <3>1 DEF Composed
      <4>2. QED
        BY <4>1 DEF Experiment
    <3>2. CASE w.op = "freeze"
      <4>1. file = Validated(w.about, w.picked)
        BY <1>1, <2>1, <3>2 DEF Composed
      <4>2. QED
        BY <4>1 DEF Validated
    <3>3. QED
      BY <1>7, <3>1, <3>2
  <2>3. QED
    BY <1>7, <2>1, <2>2 DEF w, Fits, Directory, Pinned
<1>8. QED
  BY <1>1, <1>3, <1>4, <1>5, <1>6, <1>7 DEF Composed

LEMMA SteadyCompose ==
    ASSUME StoreInv, Steady, NEW c \in Commands, Compose(c) \/ Create(c)
    PROVE  Steady'
<1> DEFINE w == command[c]
<1>1. Shaped(w) /\ Knows(w)
  BY DEF StoreInv, WorksHold, WorkHolds
<1>2. ASSUME NEW work, Works(c, work), IsWriter(w) \/ ~IsWriter(work),
             Tidy /\ Ready(w) /\ IsWriter(work) => Ready(work)
      PROVE  Steady'
  <2>1. /\ command' = [command EXCEPT ![c] = work]
        /\ UNCHANGED storeFiles /\ (Quiet' => Quiet)
    BY <1>2 DEF Works, Quiet
  <2>2. Quiet' /\ IsWriter(work) => Ready(work) /\ IsWriter(command[c])
    BY <1>2, <2>1 DEF Steady
  <2>3. QED
    BY <2>1, <2>2, SteadyThinks
<1>3. CASE Compose(c)
  <2>1. PICK file \in Composed(c, w) :
            Works(c, [Free EXCEPT !.op = w.op, !.step = "create",
                                  !.out = [dir |-> Directory(w.op), file |-> file]])
    BY <1>3 DEF Compose
  <2> DEFINE out == [dir |-> Directory(w.op), file |-> file]
             work == [Free EXCEPT !.op = w.op, !.step = "create", !.out = out]
  <2>2. IsWriter(w)
    BY <2>1, ComposedHolds DEF IsWriter
  <2>3. Tidy /\ Ready(w) => Fits(out)
    BY <1>3, <2>1, ComposedFits DEF Compose
  <2>4. Tidy /\ Ready(w) => Ready(work)
    <3> HIDE DEF out
    <3>1. /\ work.op = w.op /\ work.step = "create" /\ work.todo = {} /\ work.out = out
          /\ work.about = Nothing
      BY DEF Free
    <3>2. QED
      BY <2>3, <3>1 DEF Ready
  <2>5. QED
    BY <1>2, <2>1, <2>2, <2>4
<1>4. CASE Create(c)
  <2>1. w.step = "create"
    BY <1>4 DEF Create
  <2>2. IsWriter(w) /\ (Ready(w) => Ready([w EXCEPT !.step = "fill"]))
    BY <1>1, <2>1 DEF Shaped, Knows, IsWriter, Ready
  <2>3. ~IsWriter(Free)
    BY DEF Free, IsWriter
  <2>4. QED
    BY <1>2, <1>4, <2>2, <2>3 DEF Create
<1>5. QED
  BY <1>3, <1>4

\* A new record of its name, or a revision of an active one, keeps chains and revocations.
LEMMA RecordKeepsTidy ==
    ASSUME Tidy, NEW f, NewRecord(f), records' = records \cup {f},
           UNCHANGED <<revocations, snapshots>>
    PROVE  Tidy'
<1>1. \A r \in records : r.id = f.id =>
        /\ f.revises \in Active(records, revocations)
        /\ r.id = f.revises.id /\ f.revision = f.revises.revision + 1
  BY DEF NewRecord
<1>2. \A r \in records : r.id = f.id => r.revision < f.revision
  <2> SUFFICES ASSUME NEW r \in records, r.id = f.id PROVE r.revision < f.revision
    OBVIOUS
  <2>1. /\ f.revises \in Newest(records) /\ r.id = f.revises.id
        /\ f.revision = f.revises.revision + 1
    BY <1>1 DEF Active
  <2>2. r.revision <= f.revises.revision /\ f.revises \in records
    BY <2>1 DEF Newest
  <2>3. r.revision \in Nat /\ f.revises.revision \in Nat
    BY <2>2 DEF Tidy, RecordShaped
  <2>4. QED
    BY <2>1, <2>2, <2>3
<1>3. f.revision \in Nat /\ \A r \in records : r.revision \in Nat
  BY DEF NewRecord, Tidy, RecordShaped
<1>4. ChainsHold(records')
  <2>1. \A r \in records' : r.revision > 1 => r.revises \in records'
    BY DEF Tidy, ChainsHold, NewRecord, Active, Newest
  <2>2. \A r, s \in records' : r.id = s.id /\ r.revision = s.revision => r = s
    BY <1>2, <1>3 DEF Tidy, ChainsHold
  <2>3. QED
    BY <2>1, <2>2 DEF ChainsHold
<1>5. ASSUME NEW v \in revocations PROVE v.record \in Newest(records')
  <2>1. v.record \in records /\ v.record \in Newest(records)
    BY DEF Tidy, RevocationsBind, Newest
  <2>2. f.id # v.record.id
    <3> SUFFICES ASSUME f.id = v.record.id PROVE FALSE
      OBVIOUS
    <3>1. /\ f.revises \in Newest(records) /\ v.record # f.revises
          /\ v.record.id = f.revises.id
      BY <1>1, <2>1 DEF Active
    <3>2. f.revises \in records /\ v.record.revision = f.revises.revision
      BY <1>3, <2>1, <3>1 DEF Newest
    <3>3. QED
      BY <2>1, <3>1, <3>2 DEF Tidy, ChainsHold
  <2>3. QED
    BY <2>1, <2>2 DEF Newest
<1>6. RevocationsBind(records', revocations')
  BY <1>5 DEF Tidy, RevocationsBind
<1>7. QED
  BY <1>4, <1>6 DEF Tidy, NewRecord

LEMMA SteadyFill ==
    ASSUME StoreInv, Steady, NEW c \in Commands, Fill(c)
    PROVE  Steady'
<1> SUFFICES ASSUME Quiet' PROVE Steady'
  BY DEF Steady
<1> DEFINE w == command[c]
<1>1. w.step = "fill" /\ IsWriter(w)
  BY DEF Fill, StoreInv, WorksHold, WorkHolds, Knows, IsWriter
<1>2. Quiet
  BY DEF Fill, Quiet
<1>3. Tidy /\ Fits(w.out)
  BY <1>1, <1>2 DEF Steady, Ready
<1>4. /\ records' = With("records", w) /\ revocations' = With("revocations", w)
      /\ snapshots' = With("snapshots", w)
      /\ command' = [command EXCEPT ![c] = Free]
  BY DEF Fill
<1>5. \A d \in Commands : ~IsWriter(command'[d])
  <2>1. ~IsWriter(Free)
    BY DEF Free, IsWriter
  <2>2. \A d \in Commands : command'[d] = IF d = c THEN Free ELSE command[d]
    BY <1>4 DEF StoreInv, WorksHold
  <2>3. \A d \in Commands : IsWriter(command[d]) => d = c
    BY <1>1, <1>2 DEF Steady
  <2>4. QED
    BY <2>1, <2>2, <2>3
<1> HIDE DEF w
<1>6. CASE w.out.dir = "records"
  <2>1. records' = records \cup {w.out.file} /\ UNCHANGED <<revocations, snapshots>>
    BY <1>4, <1>6 DEF With, Files
  <2>2. NewRecord(w.out.file)
    BY <1>3, <1>6 DEF Fits
  <2>3. Tidy'
    BY <1>3, <2>1, <2>2, RecordKeepsTidy
  <2>4. QED
    BY <1>5, <2>3 DEF Steady, IsWriter
<1>7. CASE w.out.dir = "revocations"
  <2>1. UNCHANGED <<records, snapshots>> /\ revocations' = revocations \cup {w.out.file}
    BY <1>4, <1>7 DEF With, Files
  <2>2. w.out.file.record \in Active(records, revocations)
    BY <1>3, <1>7 DEF Fits
  <2>3. Tidy'
    BY <1>3, <2>1, <2>2 DEF Tidy, RevocationsBind, Active
  <2>4. QED
    BY <1>5, <2>3 DEF Steady, IsWriter
<1>8. CASE w.out.dir = "snapshots"
  <2>1. UNCHANGED <<records, revocations>> /\ snapshots' = snapshots \cup {w.out.file}
    BY <1>4, <1>8 DEF With, Files
  <2>2. Tidy'
    BY <1>3, <1>8, <2>1 DEF Tidy, Fits
  <2>3. QED
    BY <1>5, <2>2 DEF Steady, IsWriter
<1>9. CASE w.out.dir \notin {"records", "revocations", "snapshots"}
  <2>1. UNCHANGED <<records, revocations, snapshots>>
    BY <1>4, <1>9 DEF With, Files
  <2>2. Tidy'
    BY <1>3, <2>1 DEF Tidy
  <2>3. QED
    BY <1>5, <2>2 DEF Steady, IsWriter
<1>10. QED
  BY <1>6, <1>7, <1>8, <1>9

LEMMA SteadyKill ==
    ASSUME NEW c \in Commands, KillCommand(c)
    PROVE  Steady'
BY DEF KillCommand, Steady, Quiet

\* While commands take turns, the one that writes knows the store as it is, and what it
\* writes fits.
THEOREM StoreIsSteady == StoreSpec => [](StoreInv /\ Steady)
<1>1. StoreInit => Steady
  <2> SUFFICES ASSUME StoreInit PROVE Steady
    OBVIOUS
  <2>1. CASE records = {} /\ snapshots = {} /\ cases = {}
    BY <2>1 DEF StoreInit, Steady, Tidy, ChainsHold, RevocationsBind, Free, IsWriter
  <2>2. CASE ~(records = {} /\ snapshots = {} /\ cases = {})
    <3>1. PICK c \in Commands, id \in Developments, x \in Pins : StartsWith(c, id, x)
      BY <2>2 DEF StoreInit, StartsWith
    <3> DEFINE d == Origin(c, id, Nothing)
    <3>2. records = {d} \cup {Origin(c, h, d) : h \in HeldOuts}
      BY <3>1 DEF StartsWith
    <3>3. \A r \in records : RecordShaped(r) /\ r.revision = 1
      BY <3>2 DEF Origin, RecordShaped
    <3>4. \A r, s \in records : r.id = s.id => r = s
      BY <3>2, EvaluationAssumption DEF Origin
    <3>5. \A s, t \in snapshots : s.pin = t.pin => s = t
      BY <3>1 DEF StartsWith, Experiment, Validated
    <3>6. Tidy
      BY <3>3, <3>4, <3>5 DEF StoreInit, Tidy, ChainsHold, RevocationsBind
    <3>7. \A c1 \in Commands : ~IsWriter(command[c1])
      BY DEF StoreInit, Free, IsWriter
    <3>8. QED
      BY <3>6, <3>7 DEF Steady
  <2>3. QED
    BY <2>1, <2>2
<1>2. StoreInv /\ Steady /\ [StoreNext]_storeVars => Steady'
  <2> SUFFICES ASSUME StoreInv, Steady, [StoreNext]_storeVars PROVE Steady'
    OBVIOUS
  <2>1. CASE UNCHANGED storeVars
    BY <2>1 DEF storeVars, storeFiles, Steady, Quiet, Tidy, IsWriter, Ready, Fits, NewRecord,
                RecordShaped, Active, Newest
  <2>2. CASE StoreNext
    BY <2>2, SteadyBegin, SteadyReads, SteadyCompose, SteadyFill, SteadyKill DEF StoreNext
  <2>3. QED
    BY <2>1, <2>2
<1>3. QED
  BY <1>1, <1>2, StoreInvariant, PTL DEF StoreSpec

\* Commands that take turns and leave no torn file leave a store every command can read.
THEOREM ReadableInTurn == StoreSpec => []SequentialStoreReadable
<1>1. Steady => SequentialStoreReadable
  <2> SUFFICES ASSUME Tidy, NEW pin \in Pins PROVE Cardinality(Pinned(pin)) <= 1
    BY DEF Steady, Quiet, Tidy, SequentialStoreReadable
  <2>1. CASE Pinned(pin) = {}
    BY <2>1, FS_EmptySet
  <2>2. CASE Pinned(pin) # {}
    <3>1. PICK s : Pinned(pin) = {s}
      BY <2>2 DEF Tidy, Pinned
    <3>2. Cardinality({s}) = 1
      BY FS_Singleton
    <3>3. QED
      BY <3>1, <3>2
  <2>3. QED
    BY <2>1, <2>2
<1>2. QED
  BY <1>1, StoreIsSteady, PTL

=============================================================================
