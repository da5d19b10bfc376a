-------------------------- MODULE EvaluationStore --------------------------
(***************************************************************************)
(* The developer's evaluations (core/coach/developer-evaluation-store.ts):  *)
(* records with revisions and revocations, the cases promoted from them,   *)
(* and the snapshots of cases that runs are pinned to.                      *)
(*                                                                         *)
(* One directory of a user, shared by all projects, and no lock.  Files are *)
(* written once, under the name they keep, and a command that reads a      *)
(* directory fails on any file of it that is not whole.  A directory is     *)
(* read in one step here; different directories are read in different steps. *)
(***************************************************************************)
EXTENDS Naturals, FiniteSets

CONSTANTS
    Commands,       \* processes that use the store
    Developments,   \* identities of the records that cases are promoted from
    HeldOuts,       \* and of those that judge them
    MinHeldOuts,    \* records that have to judge a case: two in the code
    Pins,           \* pin identities, one of a run
    Nothing,
    Promoted,       \* bounds: cases promoted before,
    MaxWrites,      \*         files written, torn ones too,
    MaxDamaged      \*         and directories damaged by kills

ASSUME EvaluationAssumption ==
    /\ Developments \cap HeldOuts = {}
    /\ {MinHeldOuts, Promoted, MaxWrites, MaxDamaged} \subseteq Nat

VARIABLES
    records,        \* whole files of the directory records
    revocations,
    cases,
    snapshots,
    damaged,        \* directories with a file that a kill left torn
    command,        \* command[c]: what c is doing
    overlapped,     \* history: two writers were at work at once,
    written         \*          and files written

storeFiles == <<records, revocations, cases, snapshots>>
storeVars == <<storeFiles, damaged, command, overlapped, written>>

\* The step of a command is the directory it reads next, or how far it wrote.
Free == [op |-> "none", step |-> "idle", about |-> Nothing,
         seen |-> {},           \* the records it read, and then those that are active
         todo |-> {},           \* cases still to check
         picked |-> {},         \* eligible cases
         out |-> Nothing,       \* the file it writes
         began |-> {}]          \* history: the active records when it first read any

\* A file is known by its content: a record by the chain it continues, a
\* held-out one by the record it judges, each with the command that wrote it.
Origin(c, id, of) == [id |-> id, revision |-> 1, revises |-> Nothing, of |-> of, by |-> c]

\* The cases that can be promoted from a record: one for every choice of judges.
CasesOf(d, judges) ==
    {[source |-> d, held |-> hs] : hs \in {x \in SUBSET judges : Cardinality(x) >= MinHeldOuts}}

Experiment(pin, d) == [pin |-> pin, source |-> d, cases |-> {}]

Validated(pin, ks) == [pin |-> pin, source |-> Nothing, cases |-> ks]

\* An empty store, or one with all that promotions from a record need, the cases
\* promoted so far and perhaps a run that is pinned to them.
StoreInit ==
    /\ \/ records = {} /\ snapshots = {} /\ cases = {}
       \/ \E c \in Commands, id \in Developments, x \in Pins :
            LET d == Origin(c, id, Nothing)
                judges == {Origin(c, h, d) : h \in HeldOuts}
                promoted == {ks \in SUBSET CasesOf(d, judges) : Cardinality(ks) = Promoted}
            IN  /\ records = {d} \cup judges
                /\ cases \in {{}} \cup promoted
                /\ \/ snapshots = {Experiment(x, d)}
                   \/ /\ cases # {}
                      /\ \E y \in Pins \ {x} :
                            snapshots = {Experiment(x, d), Validated(y, cases)}
    /\ revocations = {} /\ damaged = {}
    /\ command = [c \in Commands |-> Free]
    /\ overlapped = FALSE
    /\ written = 0

-----------------------------------------------------------------------------
(* Reading.                                                                *)

\* No file of the directory is torn, or being filled.
Intact(dir) ==
    /\ dir \notin damaged
    /\ \A c \in Commands : command[c].step = "fill" => command[c].out.dir # dir

Newest(rs) == {r \in rs : \A s \in rs : s.id = r.id => s.revision <= r.revision}

\* recordState: revisions of a record form one chain from an origin.
ChainsHold(rs) ==
    /\ \A r \in rs : r.revision > 1 => r.revises \in rs
    /\ \A r, s \in rs : r.id = s.id /\ r.revision = s.revision => r = s

\* activeRecords: a revocation is of the newest record, and there is one of it.
RevocationsBind(rs, vs) ==
    /\ \A v \in vs : v.record \in Newest(rs)
    /\ \A v, w \in vs : v.record = w.record => v = w

Active(rs, vs) == {r \in Newest(rs) : \A v \in vs : v.record # r}

\* Mutant of IsActiveCase: the records that judged the case need not be active.
HasActiveSource(active, k) == k.source \in active

IsActiveCase(active, k) == k.source \in active /\ k.held \subseteq active

Works(c, work) ==
    /\ command' = [command EXCEPT ![c] = work]
    /\ UNCHANGED <<storeFiles, damaged, overlapped, written>>

ReadRecords(c) ==
    LET w == command[c] IN
    /\ w.step = "records"
    /\ Intact("records") /\ ChainsHold(records)
    /\ Works(c, [w EXCEPT
        !.seen = records,
        !.began = IF w.op = "publish" /\ w.todo = w.about.cases
                  THEN Active(records, revocations) ELSE w.began,
        !.step = IF w.op = "append" THEN "compose" ELSE "revocations"])

ReadRevocations(c) ==
    LET w == command[c] IN
    /\ w.step = "revocations"
    /\ Intact("revocations") /\ RevocationsBind(w.seen, revocations)
    /\ Works(c, [w EXCEPT
        !.seen = Active(w.seen, revocations),
        !.step = IF w.todo = {} THEN "compose" ELSE "check"])

\* Any of these reads may fail instead, what was read may not be what the operation
\* needs, and a command that is killed before its file appears leaves nothing.
GiveUp(c) ==
    /\ command[c].step \notin {"idle", "fill"}
    /\ Works(c, Free)

-----------------------------------------------------------------------------
(* Operations.                                                             *)

Writers == {c \in Commands : command[c].op \notin {"none", "publish"}}

Begin(c, o, x, first) ==
    /\ command[c].op = "none"
    /\ command' = [command EXCEPT ![c] = [Free EXCEPT !.op = o, !.about = x, !.step = first]]
    /\ UNCHANGED <<storeFiles, damaged, written>>

BeginWriter(c, o, x, first) ==
    /\ written + Cardinality(Writers) < MaxWrites
    /\ overlapped' = (overlapped \/ Writers # {})
    /\ Begin(c, o, x, first)

Append(c) ==
    \/ \E id \in Developments : BeginWriter(c, "append", Origin(c, id, Nothing), "records")
    \/ \E h \in HeldOuts, d \in {r \in records : r.id \in Developments} :
            BeginWriter(c, "append", Origin(c, h, d), "records")

\* The record a command revises, revokes or promotes is its input, and the one it
\* makes an experiment of: it is first used when the file is composed.
ReviseOrRevoke(c) ==
    \E o \in {"revise", "revoke"} : BeginWriter(c, o, Nothing, "records")

Promote(c) == BeginWriter(c, "promote", Nothing, "records")

CreateExperiment(c) == \E pin \in Pins : BeginWriter(c, "experiment", pin, "records")

PinEligible(c) == \E pin \in Pins : BeginWriter(c, "pin", pin, "look")

ReadForPublication(c) ==
    /\ \E s \in snapshots :
            Begin(c, "publish", s, IF s.source = Nothing THEN "cases" ELSE "records")
    /\ UNCHANGED overlapped

Pinned(pin) == {s \in snapshots : s.pin = pin}

\* A pin that has its snapshot keeps it.
Look(c) ==
    LET w == command[c] IN
    /\ w.step = "look"
    /\ Intact("snapshots")
    /\ Works(c, IF Pinned(w.about) = {} THEN [w EXCEPT !.step = "cases"] ELSE Free)

Checking(ks) == IF ks = {} THEN "compose" ELSE "records"

ReadCases(c) ==
    LET w == command[c]
        ks == IF w.op = "pin" THEN cases ELSE w.about.cases
    IN  /\ w.step = "cases"
        /\ Intact("cases")
        /\ ks \subseteq cases
        /\ Works(c, [w EXCEPT !.todo = ks, !.step = Checking(ks)])

\* Every case is checked against records that are read anew.
CheckCase(c) ==
    LET w == command[c] IN
    /\ w.step = "check"
    /\ \E k \in w.todo :
        /\ w.op = "pin" \/ IsActiveCase(w.seen, k)
        /\ Works(c, [w EXCEPT
            !.picked = IF IsActiveCase(w.seen, k) THEN w.picked \cup {k} ELSE w.picked,
            !.seen = IF w.todo = {k} THEN w.seen ELSE {},
            !.todo = w.todo \ {k},
            !.step = Checking(w.todo \ {k})])

\* The eligible cases are checked once more before they are frozen.
Freeze(c) ==
    LET w == command[c] IN
    /\ w.op = "pin" /\ w.step = "compose"
    /\ Works(c, [w EXCEPT !.op = "freeze", !.todo = w.picked, !.step = Checking(w.picked)])

\* The record an experiment was made from is still active.
MayPublish(w) == w.about.source = Nothing \/ w.about.source \in w.seen

\* readDeveloperEvaluationSnapshotForPublication returns the snapshot.
Publish(c) ==
    LET w == command[c] IN
    /\ w.op = "publish" /\ w.step = "compose"
    /\ MayPublish(w)
    /\ Works(c, Free)

\* Mutant of Chosen: a revoked record is still continued or revoked.
AnyRecord(w) == Newest(records)

\* What a revision may continue, or a revocation revoke.
Chosen(w) == w.seen

Promotable(w) == {r \in w.seen : r.id \in Developments}

Judging(w, d) == {r \in w.seen : r.id \in HeldOuts /\ r.of = d}

\* The files of which an operation writes one, when its reads allow any.
Composed(c, w) ==
    CASE w.op = "append" /\ (\A r \in w.seen : r.id # w.about.id) -> {w.about}
      [] w.op = "revise" ->
            {[r EXCEPT !.revision = r.revision + 1, !.revises = r, !.by = c] : r \in Chosen(w)}
      [] w.op = "revoke" -> {[record |-> r, by |-> c] : r \in Chosen(w)}
      [] w.op = "promote" ->
            UNION {CasesOf(d, Judging(w, d)) :
                d \in {r \in Promotable(w) : \E s \in snapshots : s.source = r}}
      [] w.op = "experiment" /\ Pinned(w.about) = {} ->
            {Experiment(w.about, d) : d \in Promotable(w)}
      [] w.op = "freeze" /\ Pinned(w.about) = {} ->
            {Validated(w.about, w.picked)}
      [] OTHER -> {}

Directory(o) ==
    CASE o \in {"append", "revise"} -> "records"
      [] o = "revoke" -> "revocations"
      [] o = "promote" -> "cases"
      [] OTHER -> "snapshots"

Compose(c) ==
    LET w == command[c] IN
    /\ w.step = "compose"
    /\ w.op \in {"promote", "experiment", "freeze"} => Intact("snapshots")
    /\ \E file \in Composed(c, w) :
        Works(c, [Free EXCEPT !.op = w.op, !.step = "create",
                              !.out = [dir |-> Directory(w.op), file |-> file]])

Files(dir) ==
    CASE dir = "records" -> records
      [] dir = "revocations" -> revocations
      [] dir = "cases" -> cases
      [] dir = "snapshots" -> snapshots

\* The file appears under its name, empty, unless it is there already ...
Create(c) ==
    LET w == command[c] IN
    /\ w.step = "create"
    /\ Works(c, IF w.out.file \in Files(w.out.dir) THEN Free ELSE [w EXCEPT !.step = "fill"])

With(dir, w) == IF w.out.dir = dir THEN Files(dir) \cup {w.out.file} ELSE Files(dir)

\* ... and is whole after its write.
Fill(c) ==
    LET w == command[c] IN
    /\ w.step = "fill"
    /\ records' = With("records", w)
    /\ revocations' = With("revocations", w)
    /\ cases' = With("cases", w)
    /\ snapshots' = With("snapshots", w)
    /\ written' = written + 1
    /\ command' = [command EXCEPT ![c] = Free]
    /\ UNCHANGED <<damaged, overlapped>>

\* A kill in between leaves it torn.
KillCommand(c) ==
    LET w == command[c] IN
    /\ w.step = "fill"
    /\ Cardinality(damaged \cup {w.out.dir}) <= MaxDamaged
    /\ damaged' = damaged \cup {w.out.dir}
    /\ written' = written + 1
    /\ command' = [command EXCEPT ![c] = Free]
    /\ UNCHANGED <<storeFiles, overlapped>>

StoreNext ==
    \E c \in Commands :
        \/ Append(c) \/ ReviseOrRevoke(c) \/ Promote(c) \/ CreateExperiment(c)
        \/ PinEligible(c) \/ ReadForPublication(c)
        \/ Look(c) \/ ReadCases(c) \/ ReadRecords(c) \/ ReadRevocations(c) \/ CheckCase(c)
        \/ Freeze(c) \/ Compose(c) \/ Publish(c) \/ Create(c) \/ Fill(c)
        \/ GiveUp(c) \/ KillCommand(c)

StoreSpec == StoreInit /\ [][StoreNext]_storeVars

-----------------------------------------------------------------------------
(* Properties.                                                             *)

Named(s) ==
    IF s.source = Nothing THEN UNION {{k.source} \cup k.held : k \in s.cases} ELSE {s.source}

\* A snapshot given to a run was active as a whole, with all its records, at the
\* moment its check began, though each case is checked by reads of its own while
\* others revise and revoke (readDeveloperEvaluationSnapshotForPublication).
PublishedWasActive ==
    [][\A c \in Commands : Publish(c) =>
        \A r \in Named(command[c].about) : r \in command[c].began]_storeVars

\* Commands that run one after the other, none of them killed while it wrote a file,
\* leave a store that every command can read, and a pin with at most one snapshot:
\* nothing they accept makes a chain or a revocation invalid.
SequentialStoreReadable ==
    ~overlapped /\ damaged = {} =>
        /\ ChainsHold(records)
        /\ RevocationsBind(records, revocations)
        /\ \A pin \in Pins : Cardinality(Pinned(pin)) <= 1

=============================================================================
