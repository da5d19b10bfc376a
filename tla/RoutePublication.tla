-------------------------- MODULE RoutePublication --------------------------
(***************************************************************************)
(* Publication and reading of the adaptive route of a project, the record  *)
(* every later stage, review and completion is judged against              *)
(* (core/route/adaptive-route-persistence.ts).                             *)
(*                                                                         *)
(* A publisher holds the project lock and writes, one file after another,  *)
(* the scope evidence and its pointer, the authority, the source contract  *)
(* and the route record, and then swaps two pointers, .omd/route-source    *)
(* and .omd/route.  Readers take no lock: they read both pointers, both    *)
(* records and both pointers again, up to three times.  Records are named  *)
(* by their digest, so a file is known by its kind and the route (or       *)
(* source) it holds.                                                       *)
(***************************************************************************)
EXTENDS ProjectLock

CONSTANTS
    Readers,    \* commands that read the route
    Routes,     \* route records, by digest
    Sources,    \* source contracts, by digest
    SourceOf,   \* the source contract a route record carries
    Locales,    \* contents of the locale design context
    LocaleOf,   \* the context a route is bound to, None for a route without one
    Torn        \* content of a file whose write did not finish

ASSUME RoutePublicationAssumption ==
    /\ SourceOf \in [Routes -> Sources]
    /\ LocaleOf \in [Routes -> Locales \cup {None}]
    /\ None \notin Routes \cup Sources \cup Locales
    /\ Torn \notin Routes \cup {None}
    /\ "failed" \notin Routes \cup {None}

VARIABLES
    disk,           \* disk[f]: "absent", "torn" or "whole", for every record f
    scopePointer,   \* .omd/route-scope.json
    sourcePointer,  \* .omd/route-source.json
    routePointer,   \* .omd/route.json
    locale,         \* .omd/locale-design-context.json, edited by its author
    route,          \* route[p]: the route p publishes, None outside a publication
    step,           \* step[p]: the file its publication is about to write
    opened,         \* opened[p]: it has created or truncated that step's file
    at,             \* at[q]: where reader q is
    tries,          \* tries[q]: attempts it has begun
    source,         \* source[q], record[q]: the pointers it has read
    record,
    result,         \* result[q]: what its last read returned
    during,         \* history: the pointer pairs on disk since its read began
    calm            \* calm[q]: no file it reads and no directory above one, the
                    \* project root among them, was changed since its read began
                    \* ("always"), since its last step ("lately"), neither ("no")

pubVars == <<disk, scopePointer, sourcePointer, routePointer, route, step,
             opened>>
readVars == <<at, tries, source, record, result>>
vars == <<lockHolder, locale, pubVars, readVars, during, calm>>

\* The immutable records, and the order in which publishAdaptiveRoute writes.
Immutable == {"scopeRecord", "authority", "source", "record"}

\* Mutant of After: the pointers are swapped before their records are written.
AfterPointersEarly ==
    [scopeRecord |-> "scopePointer", scopePointer |-> "authority",
     authority |-> "sourcePointer", sourcePointer |-> "routePointer",
     routePointer |-> "source", source |-> "record", record |-> "release"]

After ==
    [scopeRecord |-> "scopePointer", scopePointer |-> "authority",
     authority |-> "source", source |-> "record", record |-> "sourcePointer",
     sourcePointer |-> "routePointer", routePointer |-> "release"]

Steps == {"none", "scopePointer", "sourcePointer", "routePointer", "release"}
           \cup Immutable

Files ==
    ({"scopeRecord", "authority", "record"} \X Routes) \cup ({"source"} \X Sources)

FileOf(kind, r) == IF kind = "source" THEN <<kind, SourceOf[r]>> ELSE <<kind, r>>

Reading == {"source", "route", "records", "sourceAgain", "routeAgain", "moved",
            "judge"}

MaxTries == 3

\* What the two current pointers may be.
Pairs == (Sources \cup {None}) \X (Routes \cup {None})

TypeOK ==
    /\ lockHolder \in Procs \cup {None}
    /\ disk \in [Files -> {"absent", "torn", "whole"}]
    /\ scopePointer \in Routes \cup {None, Torn}
    /\ sourcePointer \in Sources \cup {None}
    /\ routePointer \in Routes \cup {None}
    /\ locale \in Locales
    /\ route \in [Procs -> Routes \cup {None}]
    /\ step \in [Procs -> Steps]
    /\ opened \in [Procs -> BOOLEAN]
    /\ at \in [Readers -> {"idle"} \cup Reading]
    /\ tries \in [Readers -> 0..MaxTries]
    /\ source \in [Readers -> Sources \cup {None}]
    /\ record \in [Readers -> Routes \cup {None}]
    /\ result \in [Readers -> Routes \cup {None, "failed"}]
    /\ during \in [Readers -> SUBSET Pairs]
    /\ calm \in [Readers -> {"always", "lately", "no"}]

Init ==
    /\ LockInit
    /\ disk = [f \in Files |-> "absent"]
    /\ scopePointer = None /\ sourcePointer = None /\ routePointer = None
    /\ locale \in Locales
    /\ route = [p \in Procs |-> None]
    /\ step = [p \in Procs |-> "none"]
    /\ opened = [p \in Procs |-> FALSE]
    /\ at = [q \in Readers |-> "idle"]
    /\ tries = [q \in Readers |-> 0]
    /\ source = [q \in Readers |-> None]
    /\ record = [q \in Readers |-> None]
    /\ result = [q \in Readers |-> None]
    /\ during = [q \in Readers |-> {}]
    /\ calm = [q \in Readers |-> "always"]

-----------------------------------------------------------------------------
(* publishAdaptiveRoute.                                                   *)

Publishing(p) == route[p] # None
Written(p) == FileOf(step[p], route[p])

\* A change of the route's files, or of an entry beside or above them, changes
\* what a reader holds open: every directory from the project root to the file.
Touch == calm' = [q \in Readers |-> "no"]

NextStep(p) ==
    /\ step' = [step EXCEPT ![p] = After[@]]
    /\ opened' = [opened EXCEPT ![p] = FALSE]

LeavePublication(p) ==
    /\ LetGo(p)
    /\ route' = [route EXCEPT ![p] = None]
    /\ step' = [step EXCEPT ![p] = "none"]
    /\ opened' = [opened EXCEPT ![p] = FALSE]

\* The lock, and the locale context the route is bound to must be the current
\* one; the route is then derived and its authority issued, in memory.
BeginPublish(p, r) ==
    /\ Acquire(p)
    /\ LocaleOf[r] \in {None, locale}
    /\ route' = [route EXCEPT ![p] = r]
    /\ step' = [step EXCEPT ![p] = "scopeRecord"]
    /\ Touch
    /\ UNCHANGED <<disk, scopePointer, sourcePointer, routePointer, opened,
                   locale, readVars, during>>

\* writeContentAddressed: the record is created under its final name (O_EXCL)
\* and then filled, or an existing one is compared and kept.
CreateRecord(p) ==
    /\ step[p] \in Immutable /\ ~opened[p]
    /\ disk[Written(p)] = "absent"
    /\ disk' = [disk EXCEPT ![Written(p)] = "torn"]
    /\ opened' = [opened EXCEPT ![p] = TRUE]
    /\ Touch
    /\ UNCHANGED <<lockHolder, scopePointer, sourcePointer, routePointer,
                   locale, route, step, readVars, during>>

FillRecord(p) ==
    /\ step[p] \in Immutable /\ opened[p]
    /\ disk' = [disk EXCEPT ![Written(p)] = "whole"]
    /\ NextStep(p)
    /\ Touch
    /\ UNCHANGED <<lockHolder, scopePointer, sourcePointer, routePointer,
                   locale, route, readVars, during>>

KeepRecord(p) ==
    /\ step[p] \in Immutable /\ ~opened[p]
    /\ disk[Written(p)] = "whole"
    /\ NextStep(p)
    /\ Touch
    /\ UNCHANGED <<lockHolder, disk, scopePointer, sourcePointer, routePointer,
                   locale, route, readVars, during>>

\* "content-addressed artifact already exists with different bytes".
Refused(p) ==
    /\ step[p] \in Immutable /\ ~opened[p]
    /\ disk[Written(p)] = "torn"

RefuseRecord(p) ==
    /\ Refused(p)
    /\ LeavePublication(p)
    /\ Touch
    /\ UNCHANGED <<disk, scopePointer, sourcePointer, routePointer,
                   locale, readVars, during>>

\* The scope pointer is written in place: truncated, then filled.
WriteScopePointer(p) ==
    /\ step[p] = "scopePointer"
    /\ \/ ~opened[p] /\ scopePointer' = Torn
          /\ opened' = [opened EXCEPT ![p] = TRUE] /\ UNCHANGED step
       \/ opened[p] /\ scopePointer' = route[p] /\ NextStep(p)
    /\ Touch
    /\ UNCHANGED <<lockHolder, disk, sourcePointer, routePointer, locale,
                   route, readVars, during>>

\* Each current pointer is replaced by a rename; readers at work see the pair.
Witness(s, r) ==
    during' = [q \in Readers |->
                 IF at[q] = "idle" THEN during[q] ELSE during[q] \cup {<<s, r>>}]

\* Mutant of SwapSource: the route pointer is swapped first.
SwapRouteFirst(p) ==
    /\ step[p] = "sourcePointer"
    /\ routePointer' = route[p]
    /\ Witness(sourcePointer, route[p])
    /\ NextStep(p)
    /\ Touch
    /\ UNCHANGED <<lockHolder, disk, scopePointer, sourcePointer, locale, route,
                   readVars>>

SwapSource(p) ==
    /\ step[p] = "sourcePointer"
    /\ sourcePointer' = SourceOf[route[p]]
    /\ Witness(SourceOf[route[p]], routePointer)
    /\ NextStep(p)
    /\ Touch
    /\ UNCHANGED <<lockHolder, disk, scopePointer, routePointer, locale, route,
                   readVars>>

SwapRoute(p) ==
    /\ step[p] = "routePointer"
    /\ routePointer' = route[p]
    /\ Witness(sourcePointer, route[p])
    /\ NextStep(p)
    /\ Touch
    /\ UNCHANGED <<lockHolder, disk, scopePointer, sourcePointer, locale, route,
                   readVars>>

EndPublish(p) ==
    /\ step[p] = "release"
    /\ LeavePublication(p)
    /\ Touch
    /\ UNCHANGED <<disk, scopePointer, sourcePointer, routePointer, locale,
                   readVars, during>>

\* The publisher is killed, or a write throws, between any two system calls;
\* the lock comes back, what is on disk stays.
StopPublish(p) ==
    /\ Publishing(p)
    /\ LeavePublication(p)
    /\ Touch
    /\ UNCHANGED <<disk, scopePointer, sourcePointer, routePointer, locale,
                   readVars, during>>

\* The author edits the locale design context, whoever holds the lock.
EditLocale(l) ==
    /\ l # locale
    /\ locale' = l
    /\ Touch
    /\ UNCHANGED <<lockHolder, pubVars, readVars, during>>

\* Anybody, the maker at work on the project or another command, creates,
\* renames or removes an entry of the project root or of a directory below it
\* that leads to the route's files: no file of the route changes.
ChangeEntry ==
    /\ Touch
    /\ UNCHANGED <<lockHolder, locale, pubVars, readVars, during>>

-----------------------------------------------------------------------------
(* readPersistedRoute.                                                     *)

Look(q) == calm' = [calm EXCEPT ![q] = IF @ = "no" THEN "lately" ELSE @]

BeginRead(q) ==
    /\ at[q] = "idle" /\ routePointer # None
    /\ at' = [at EXCEPT ![q] = "source"]
    /\ tries' = [tries EXCEPT ![q] = 1]
    /\ result' = [result EXCEPT ![q] = None]
    /\ during' = [during EXCEPT ![q] = {<<sourcePointer, routePointer>>}]
    /\ calm' = [calm EXCEPT ![q] = "always"]
    /\ UNCHANGED <<lockHolder, locale, pubVars, source, record>>

ReadSourcePointer(q) ==
    /\ at[q] = "source"
    /\ source' = [source EXCEPT ![q] = sourcePointer]
    /\ at' = [at EXCEPT ![q] = "route"]
    /\ Look(q)
    /\ UNCHANGED <<lockHolder, locale, pubVars, tries, record, result, during>>

ReadRoutePointer(q) ==
    /\ at[q] = "route"
    /\ record' = [record EXCEPT ![q] = routePointer]
    /\ at' = [at EXCEPT ![q] = "records"]
    /\ Look(q)
    /\ UNCHANGED <<lockHolder, locale, pubVars, tries, source, result, during>>

Finish(q, r) ==
    /\ result' = [result EXCEPT ![q] = r]
    /\ at' = [at EXCEPT ![q] = "idle"]
    /\ tries' = [tries EXCEPT ![q] = 0]
    /\ source' = [source EXCEPT ![q] = None]
    /\ record' = [record EXCEPT ![q] = None]

\* A record that is not there fails the read at once.
ReadRecords(q) ==
    /\ at[q] = "records"
    /\ IF {<<"source", source[q]>>, <<"record", record[q]>>}
             \subseteq {f \in Files : disk[f] # "absent"}
         THEN /\ at' = [at EXCEPT ![q] = "sourceAgain"]
              /\ UNCHANGED <<tries, source, record, result>>
         ELSE Finish(q, "failed")
    /\ Look(q)
    /\ UNCHANGED <<lockHolder, locale, pubVars, during>>

ReadSourceAgain(q) ==
    /\ at[q] = "sourceAgain"
    /\ at' = [at EXCEPT ![q] = IF sourcePointer = source[q] THEN "routeAgain"
                                                           ELSE "moved"]
    /\ Look(q)
    /\ UNCHANGED <<lockHolder, locale, pubVars, tries, source, record, result,
                   during>>

\* A pointer that moved starts the next attempt; there are MaxTries.
ReadRouteAgain(q) ==
    /\ at[q] \in {"routeAgain", "moved"}
    /\ \/ /\ at[q] = "routeAgain" /\ routePointer = record[q]
          /\ at' = [at EXCEPT ![q] = "judge"]
          /\ UNCHANGED <<tries, source, record, result>>
       \/ /\ at[q] = "moved" \/ routePointer # record[q]
          /\ tries[q] < MaxTries
          /\ at' = [at EXCEPT ![q] = "source"]
          /\ tries' = [tries EXCEPT ![q] = @ + 1]
          /\ UNCHANGED <<source, record, result>>
       \/ /\ at[q] = "moved" \/ routePointer # record[q]
          /\ tries[q] = MaxTries
          /\ Finish(q, "failed")
    /\ Look(q)
    /\ UNCHANGED <<lockHolder, locale, pubVars, during>>

\* Mutant of Acceptable: the two records are not compared with each other.
AcceptableApart(s, r) ==
    /\ disk[<<"source", s>>] = "whole" /\ disk[<<"record", r>>] = "whole"
    /\ LocaleOf[r] \in {None, locale}
    /\ disk[<<"authority", r>>] = "whole"

\* What was read is judged: digests, the locale context as it is now, the
\* source contract inside the route record, and the persisted authority.
Acceptable(s, r) ==
    /\ disk[<<"source", s>>] = "whole" /\ disk[<<"record", r>>] = "whole"
    /\ LocaleOf[r] \in {None, locale}
    /\ disk[<<"authority", r>>] = "whole"
    /\ SourceOf[r] = s

Judge(q) ==
    /\ at[q] = "judge"
    /\ Finish(q, IF Acceptable(source[q], record[q]) THEN record[q] ELSE "failed")
    /\ Look(q)
    /\ UNCHANGED <<lockHolder, locale, pubVars, during>>

\* Mutant of ReadDisturbed: the identity changes with every look (an access
\* time), so that a read may fail with nothing moving.
ReadDisturbedAlways(q) ==
    /\ at[q] # "idle"
    /\ Finish(q, "failed")
    /\ Look(q)
    /\ UNCHANGED <<lockHolder, locale, pubVars, during>>

\* readStableProjectFile: the directories above a file, from the project root
\* down, are held open, and their identity, size and times must not change while
\* it is read.  An entry made in the root fails the read as a publication does.
ReadDisturbed(q) ==
    /\ at[q] # "idle" /\ calm[q] = "no"
    /\ Finish(q, "failed")
    /\ Look(q)
    /\ UNCHANGED <<lockHolder, locale, pubVars, during>>

-----------------------------------------------------------------------------

Publish(p) ==
    \/ CreateRecord(p) \/ FillRecord(p) \/ KeepRecord(p) \/ RefuseRecord(p)
    \/ WriteScopePointer(p) \/ SwapSource(p) \/ SwapRoute(p) \/ EndPublish(p)

Read(q) ==
    \/ ReadSourcePointer(q) \/ ReadRoutePointer(q) \/ ReadRecords(q)
    \/ ReadSourceAgain(q) \/ ReadRouteAgain(q) \/ Judge(q) \/ ReadDisturbed(q)

Next ==
    \/ \E p \in Procs :
          (\E r \in Routes : BeginPublish(p, r)) \/ Publish(p) \/ StopPublish(p)
    \/ \E q \in Readers : BeginRead(q) \/ Read(q)
    \/ \E l \in Locales : EditLocale(l)
    \/ ChangeEntry

Spec == Init /\ [][Next]_vars

-----------------------------------------------------------------------------
(* Properties.                                                             *)

\* A pointer is swapped only when everything it leads to is on disk, so that
\* no crash leaves a current route without its records or its authority.
PointersLeadToRecords ==
    /\ sourcePointer # None => disk[<<"source", sourcePointer>>] = "whole"
    /\ routePointer # None =>
          /\ disk[<<"record", routePointer>>] = "whole"
          /\ disk[<<"source", SourceOf[routePointer]>>] = "whole"
          /\ disk[<<"authority", routePointer>>] = "whole"
          /\ disk[<<"scopeRecord", routePointer>>] = "whole"

\* A read without a lock returns a route only if that route and its source
\* contract were the current pair at one moment between its call and return:
\* never one of a publication that stopped between the two swaps.
ReadIsCoherent ==
    \A q \in Readers :
        result[q] \in Routes => <<SourceOf[result[q]], result[q]>> \in during[q]

\* The route a reader may be given: none while the pointers are of two publications.
Coherent(s, r) == r # None /\ s = SourceOf[r]
CurrentRoute == IF Coherent(sourcePointer, routePointer) THEN routePointer ELSE None
Busy == {q \in Readers : at[q] # "idle"}
SeenBy(q) == {r \in Routes : q \in Busy /\ <<SourceOf[r], r>> \in during[q]}

Register == INSTANCE RouteRegister WITH
    currentRoute <- CurrentRoute, reading <- Busy,
    seen <- [q \in Readers |-> SeenBy(q)], returned <- result

\* Seven files, two pointers and readers without a lock are one atomic register:
\* an interruption between any two writes, and any number of publications during
\* a read, included.
IsRouteRegister == Register!RegisterSpec

Readable ==
    routePointer # None /\ Acceptable(sourcePointer, routePointer)

\* What is on disk is readable, and neither a file of the route nor an entry of
\* the project root or of a directory on the way to it moves: the read succeeds.
\* Publications before it, interrupted or not, do not fail it; an entry anybody
\* makes in the root during it may.
UndisturbedReadSucceeds ==
    [][\A q \in Readers :
          at[q] # "idle" /\ result'[q] = "failed" /\ calm[q] = "always"
             => ~Readable]_vars

\* An interrupted publication never shows: when the current route changes, it
\* becomes the one the lock's holder publishes, and its source pointer and its
\* scope baseline are already in place.
RouteChangesLast ==
    [][routePointer' # routePointer =>
          /\ lockHolder # None /\ routePointer' = route[lockHolder]
          /\ sourcePointer = SourceOf[routePointer']
          /\ scopePointer = routePointer']_vars

\* The inductive invariant behind PointersLeadToRecords and ReadIsCoherent.  The
\* publisher is the lock's holder; what comes before its next file is whole.
Earlier ==
    [scopeRecord |-> {}, scopePointer |-> {"scopeRecord"},
     authority |-> {"scopeRecord"}, source |-> {"scopeRecord", "authority"},
     record |-> {"scopeRecord", "authority", "source"},
     sourcePointer |-> Immutable, routePointer |-> Immutable,
     release |-> Immutable]

PublisherInv ==
    \A p \in Procs :
        /\ Publishing(p) <=> lockHolder = p
        /\ Publishing(p) <=> step[p] # "none"
        /\ Publishing(p) =>
              \A k \in Earlier[step[p]] : disk[FileOf(k, route[p])] = "whole"
        /\ opened[p] => Publishing(p)
        /\ opened[p] /\ step[p] \in Immutable => disk[Written(p)] = "torn"
        /\ step[p] = "routePointer" => sourcePointer = SourceOf[route[p]]

\* A reader between its two looks at the pointers: either the pair it relies
\* on, or that of the route it reads, was on disk since its call.
ReaderInv ==
    \A q \in Readers :
        /\ at[q] # "idle" => <<sourcePointer, routePointer>> \in during[q]
        /\ at[q] = "route" =>
              \/ <<source[q], routePointer>> \in during[q]
              \/ <<SourceOf[routePointer], routePointer>> \in during[q]
        /\ at[q] \in {"records", "sourceAgain", "routeAgain", "moved", "judge"} =>
              /\ record[q] \in Routes
              /\ \/ <<source[q], record[q]>> \in during[q]
                 \/ <<SourceOf[record[q]], record[q]>> \in during[q]
        /\ at[q] # "idle" => routePointer # None

RouteInv ==
    /\ PublisherInv /\ PointersLeadToRecords /\ ReaderInv /\ ReadIsCoherent

\* "a repeated write of the exact same bytes is the same receipt and must not
\* fail a resumed run": no publication is refused for a record of its own.
ResumeNotRefused == \A p \in Procs : ~Refused(p)

=============================================================================
