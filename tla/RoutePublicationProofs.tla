----------------------- MODULE RoutePublicationProofs -----------------------
(* Proofs about RoutePublication for every set of publishers, readers,        *)
(* routes and source contracts.                                               *)
EXTENDS RoutePublication, TLAPS

\* The order of the writes leads from every file to a file or to the release.
LEMMA AfterSteps == \A k \in Steps \ {"none", "release"} : After[k] \in Steps
<1> SUFFICES ASSUME NEW k \in Steps \ {"none", "release"}
             PROVE  After[k] \in Steps
  OBVIOUS
<1> USE DEF After, Steps, Immutable
<1>1. CASE k = "scopeRecord"   BY <1>1
<1>2. CASE k = "scopePointer"  BY <1>2
<1>3. CASE k = "authority"     BY <1>3
<1>4. CASE k = "source"        BY <1>4
<1>5. CASE k = "record"        BY <1>5
<1>6. CASE k = "sourcePointer" BY <1>6
<1>7. CASE k = "routePointer"  BY <1>7
<1>8. QED
  BY <1>1, <1>2, <1>3, <1>4, <1>5, <1>6, <1>7

\* A process with a step of a publication has the route it publishes.
HasRoute == \A p \in Procs : step[p] # "none" => route[p] \in Routes

\* Every variable keeps its type, whatever is interrupted.
THEOREM RouteTypes == Spec => [](TypeOK /\ HasRoute)
<1> USE ProjectLockAssumption, RoutePublicationAssumption
    DEF Steps, Immutable, Reading, MaxTries
<1>1. Init => TypeOK /\ HasRoute
  <2> SUFFICES ASSUME Init
               PROVE  TypeOK /\ HasRoute
    OBVIOUS
  <2> USE DEF Init, LockInit
  <2>1. /\ lockHolder \in Procs \cup {None}
        /\ disk \in [Files -> {"absent", "torn", "whole"}]
        /\ scopePointer \in Routes \cup {None, Torn}
        /\ sourcePointer \in Sources \cup {None}
        /\ routePointer \in Routes \cup {None}
        /\ locale \in Locales
    OBVIOUS
  <2>2. /\ route \in [Procs -> Routes \cup {None}]
        /\ step \in [Procs -> Steps]
        /\ opened \in [Procs -> BOOLEAN]
    OBVIOUS
  <2>3. /\ at \in [Readers -> {"idle"} \cup Reading]
        /\ tries \in [Readers -> 0..MaxTries]
        /\ source \in [Readers -> Sources \cup {None}]
        /\ record \in [Readers -> Routes \cup {None}]
        /\ result \in [Readers -> Routes \cup {None, "failed"}]
    OBVIOUS
  <2>4. /\ during \in [Readers -> SUBSET Pairs]
        /\ calm \in [Readers -> {"always", "lately", "no"}]
    OBVIOUS
  <2>5. QED
    BY <2>1, <2>2, <2>3, <2>4 DEF TypeOK, HasRoute
<1>2. TypeOK /\ HasRoute /\ [Next]_vars => TypeOK' /\ HasRoute'
  <2> SUFFICES ASSUME TypeOK, HasRoute, [Next]_vars
               PROVE  TypeOK' /\ HasRoute'
    OBVIOUS
  <2> USE AfterSteps DEF TypeOK, HasRoute, pubVars, readVars, Touch, Look
  <2>1. CASE UNCHANGED vars
    BY <2>1 DEF vars
  <2>2. ASSUME NEW p \in Procs, NEW r \in Routes, BeginPublish(p, r)
        PROVE  TypeOK' /\ HasRoute'
    BY <2>2 DEF BeginPublish, Acquire
  <2>3. ASSUME NEW p \in Procs, CreateRecord(p)
        PROVE  TypeOK' /\ HasRoute'
    BY <2>3 DEF CreateRecord
  <2>4. ASSUME NEW p \in Procs, FillRecord(p)
        PROVE  TypeOK' /\ HasRoute'
    BY <2>4 DEF FillRecord, NextStep
  <2>5. ASSUME NEW p \in Procs, KeepRecord(p)
        PROVE  TypeOK' /\ HasRoute'
    BY <2>5 DEF KeepRecord, NextStep
  <2>6. ASSUME NEW p \in Procs, RefuseRecord(p) \/ EndPublish(p) \/ StopPublish(p)
        PROVE  TypeOK' /\ HasRoute'
    <3>1. LeavePublication(p)
      BY <2>6 DEF RefuseRecord, EndPublish, StopPublish
    <3>2. /\ calm' \in [Readers -> {"always", "lately", "no"}]
          /\ UNCHANGED <<disk, scopePointer, sourcePointer, routePointer,
                         locale, readVars, during>>
      BY <2>6 DEF RefuseRecord, EndPublish, StopPublish
    <3>3. QED
      BY <3>1, <3>2 DEF LeavePublication, LetGo
  <2>7. ASSUME NEW p \in Procs, WriteScopePointer(p)
        PROVE  TypeOK' /\ HasRoute'
    <3>1. CASE ~opened[p]
      BY <2>7, <3>1 DEF WriteScopePointer
    <3>2. CASE opened[p]
      <4>1. step[p] \in Steps \ {"none", "release"} /\ route[p] \in Routes
        BY <2>7 DEF WriteScopePointer
      <4>2. /\ scopePointer' = route[p] /\ NextStep(p)
            /\ calm' \in [Readers -> {"always", "lately", "no"}]
            /\ UNCHANGED <<lockHolder, disk, sourcePointer, routePointer, locale,
                           route, readVars, during>>
        BY <2>7, <3>2 DEF WriteScopePointer
      <4>3. step' \in [Procs -> Steps] /\ opened' \in [Procs -> BOOLEAN] /\ HasRoute'
        BY <4>1, <4>2 DEF NextStep
      <4>4. QED
        BY <4>1, <4>2, <4>3
    <3>3. QED
      BY <3>1, <3>2
  <2>8. ASSUME NEW p \in Procs, SwapSource(p) \/ SwapRoute(p)
        PROVE  TypeOK' /\ HasRoute'
    <3>1. PICK s \in Sources \cup {None}, r \in Routes \cup {None} : Witness(s, r)
      BY <2>8 DEF SwapSource, SwapRoute
    <3>2. during' \in [Readers -> SUBSET Pairs]
      BY <3>1 DEF Witness, Pairs
    <3>3. /\ step[p] \in Steps \ {"none", "release"}
          /\ NextStep(p) /\ route' = route
      BY <2>8 DEF SwapSource, SwapRoute
    <3>4. step' \in [Procs -> Steps] /\ opened' \in [Procs -> BOOLEAN] /\ HasRoute'
      BY <3>3 DEF NextStep
    <3>5. /\ sourcePointer' \in Sources \cup {None}
          /\ routePointer' \in Routes \cup {None}
          /\ UNCHANGED <<lockHolder, disk, scopePointer, locale, route,
                         readVars>>
      BY <2>8 DEF SwapSource, SwapRoute
    <3>6. calm' \in [Readers -> {"always", "lately", "no"}]
      BY <2>8 DEF SwapSource, SwapRoute
    <3>7. QED
      BY <3>2, <3>4, <3>5, <3>6
  <2>9. ASSUME ChangeEntry \/ \E l \in Locales : EditLocale(l)
        PROVE  TypeOK' /\ HasRoute'
    BY <2>9 DEF EditLocale, ChangeEntry
  <2>10. ASSUME NEW q \in Readers, BeginRead(q)
         PROVE  TypeOK' /\ HasRoute'
    BY <2>10 DEF BeginRead, Pairs
  <2>11. ASSUME NEW q \in Readers, ReadSourcePointer(q) \/ ReadRoutePointer(q)
         PROVE  TypeOK' /\ HasRoute'
    BY <2>11 DEF ReadSourcePointer, ReadRoutePointer
  <2>12. ASSUME NEW q \in Readers, ReadRecords(q) \/ ReadSourceAgain(q)
         PROVE  TypeOK' /\ HasRoute'
    BY <2>12 DEF ReadRecords, ReadSourceAgain, Finish
  <2>13. ASSUME NEW q \in Readers, ReadRouteAgain(q)
         PROVE  TypeOK' /\ HasRoute'
    BY <2>13 DEF ReadRouteAgain, Finish
  <2>14. ASSUME NEW q \in Readers, Judge(q) \/ ReadDisturbed(q)
         PROVE  TypeOK' /\ HasRoute'
    BY <2>14 DEF Judge, ReadDisturbed, Finish
  <2>15. QED
    BY <2>1, <2>2, <2>3, <2>4, <2>5, <2>6, <2>7, <2>8, <2>9, <2>10, <2>11,
       <2>12, <2>13, <2>14 DEF Next, Publish, Read
<1>3. QED
  BY <1>1, <1>2, PTL DEF Spec

-----------------------------------------------------------------------------
(* The inductive invariant.                                                *)

\* A record that is whole stays whole: publishers create absent records and
\* fill their own.
LEMMA WholeStaysWhole ==
    ASSUME TypeOK, [Next]_vars, NEW f \in Files, disk[f] = "whole"
    PROVE  disk'[f] = "whole"
<1> USE DEF TypeOK, pubVars, readVars
<1>1. ASSUME NEW p \in Procs, CreateRecord(p)
      PROVE  disk'[f] = "whole"
  BY <1>1 DEF CreateRecord
<1>2. ASSUME NEW p \in Procs, FillRecord(p)
      PROVE  disk'[f] = "whole"
  BY <1>2 DEF FillRecord
<1>3. CASE UNCHANGED disk
  BY <1>3
<1>4. ASSUME NEW p \in Procs,
             \/ \E r \in Routes : BeginPublish(p, r)
             \/ KeepRecord(p) \/ RefuseRecord(p) \/ WriteScopePointer(p)
             \/ SwapSource(p) \/ SwapRoute(p) \/ EndPublish(p) \/ StopPublish(p)
      PROVE  UNCHANGED disk
  BY <1>4 DEF BeginPublish, KeepRecord, RefuseRecord, WriteScopePointer,
     SwapSource, SwapRoute, EndPublish, StopPublish
<1>5. ASSUME NEW q \in Readers, BeginRead(q) \/ Read(q)
      PROVE  UNCHANGED disk
  BY <1>5 DEF BeginRead, Read, ReadSourcePointer, ReadRoutePointer, ReadRecords,
     ReadSourceAgain, ReadRouteAgain, Judge, ReadDisturbed
<1>6. ASSUME ChangeEntry \/ \E l \in Locales : EditLocale(l)
      PROVE  UNCHANGED disk
  BY <1>6 DEF EditLocale, ChangeEntry
<1>7. QED
  BY <1>1, <1>2, <1>3, <1>4, <1>5, <1>6 DEF Next, Publish, vars

\* What is written before the next file is what was written before this one,
\* and this one.
LEMMA EarlierGrows ==
    \A k \in Steps \ {"none", "release"} :
        Earlier[After[k]] \subseteq Earlier[k] \cup (Immutable \cap {k})
<1> SUFFICES ASSUME NEW k \in Steps \ {"none", "release"}
             PROVE  Earlier[After[k]] \subseteq Earlier[k] \cup (Immutable \cap {k})
  OBVIOUS
<1> USE DEF After, Earlier, Steps, Immutable
<1>1. CASE k = "scopeRecord"   BY <1>1
<1>2. CASE k = "scopePointer"  BY <1>2
<1>3. CASE k = "authority"     BY <1>3
<1>4. CASE k = "source"        BY <1>4
<1>5. CASE k = "record"        BY <1>5
<1>6. CASE k = "sourcePointer" BY <1>6
<1>7. CASE k = "routePointer"  BY <1>7
<1>8. QED
  BY <1>1, <1>2, <1>3, <1>4, <1>5, <1>6, <1>7

LEMMA EarlierIsImmutable ==
    \A k \in Steps \ {"none"} : Earlier[k] \subseteq Immutable
<1> SUFFICES ASSUME NEW k \in Steps \ {"none"}
             PROVE  Earlier[k] \subseteq Immutable
  OBVIOUS
<1> USE DEF Earlier, Steps, Immutable
<1>1. CASE k = "scopeRecord"   BY <1>1
<1>2. CASE k = "scopePointer"  BY <1>2
<1>3. CASE k = "authority"     BY <1>3
<1>4. CASE k = "source"        BY <1>4
<1>5. CASE k = "record"        BY <1>5
<1>6. CASE k = "sourcePointer" BY <1>6
<1>7. CASE k = "routePointer"  BY <1>7
<1>8. CASE k = "release"       BY <1>8
<1>9. QED
  BY <1>1, <1>2, <1>3, <1>4, <1>5, <1>6, <1>7, <1>8

\* Every immutable record of a route is one of the files.
LEMMA FileOfRoute ==
    \A k \in Immutable, r \in Routes : FileOf(k, r) \in Files
BY RoutePublicationAssumption DEF Immutable, FileOf, Files

\* A step of the holder of the lock moves its own publication on.
Moves(p) ==
    /\ step[p] \in Steps \ {"none", "release"}
    /\ NextStep(p)
    /\ UNCHANGED <<lockHolder, route>>

LEMMA AfterStep ==
    ASSUME TypeOK, HasRoute, PublisherInv, [Next]_vars,
           NEW p \in Procs, Moves(p),
           step[p] \in Immutable => disk'[Written(p)] = "whole",
           step'[p] = "routePointer" => sourcePointer' = SourceOf[route[p]]
    PROVE  PublisherInv'
<1> USE DEF TypeOK, HasRoute, PublisherInv, Publishing, Moves, NextStep
<1>1. lockHolder = p /\ route[p] \in Routes
  BY ProjectLockAssumption, RoutePublicationAssumption
<1>2. \A q \in Procs \ {p} : route'[q] = None /\ step'[q] = "none" /\ ~opened'[q]
  BY <1>1
<1>3. step'[p] = After[step[p]] /\ ~opened'[p] /\ step'[p] \in Steps \ {"none"}
  <2>1. \A k \in Steps \ {"none", "release"} : After[k] # "none"
    BY DEF After, Steps, Immutable
  <2>2. QED
    BY <2>1, AfterSteps
<1>4. ASSUME NEW k \in Earlier[step'[p]]
      PROVE  disk'[FileOf(k, route[p])] = "whole"
  <2>1. k \in Earlier[step[p]] \/ (k \in Immutable /\ k = step[p])
    BY <1>3, <1>4, EarlierGrows
  <2>2. CASE k \in Earlier[step[p]]
    BY <1>1, <2>2, EarlierIsImmutable, FileOfRoute, WholeStaysWhole
  <2>3. CASE k \in Immutable /\ k = step[p]
    BY <2>3 DEF Written
  <2>4. QED
    BY <2>1, <2>2, <2>3
<1>5. QED
  BY <1>1, <1>2, <1>3, <1>4, RoutePublicationAssumption

\* The lock's holder is the only publisher, it writes the pointers after the
\* records, and it swaps the route pointer under its own source pointer.
LEMMA PublisherStep ==
    ASSUME TypeOK, HasRoute, PublisherInv, [Next]_vars
    PROVE  PublisherInv'
<1> USE ProjectLockAssumption, RoutePublicationAssumption
    DEF TypeOK, HasRoute, PublisherInv, Publishing, pubVars, readVars
<1>1. CASE UNCHANGED <<lockHolder, disk, sourcePointer, route, step, opened>>
  BY <1>1 DEF Written
<1>2. ASSUME NEW p \in Procs, NEW r \in Routes, BeginPublish(p, r)
      PROVE  PublisherInv'
  <2>1. /\ lockHolder = None /\ lockHolder' = p
        /\ route' = [route EXCEPT ![p] = r]
        /\ step' = [step EXCEPT ![p] = "scopeRecord"]
        /\ UNCHANGED <<disk, sourcePointer, opened>>
    BY <1>2 DEF BeginPublish, Acquire
  <2>2. \A q \in Procs : route[q] = None /\ step[q] = "none" /\ ~opened[q]
    BY <2>1
  <2>3. Earlier["scopeRecord"] = {}
    BY DEF Earlier
  <2>4. QED
    BY <2>1, <2>2, <2>3
<1>3. ASSUME NEW p \in Procs, CreateRecord(p)
      PROVE  PublisherInv'
  <2>1. /\ disk' = [disk EXCEPT ![Written(p)] = "torn"]
        /\ step[p] \in Immutable
        /\ opened' = [opened EXCEPT ![p] = TRUE]
        /\ UNCHANGED <<lockHolder, route, step, sourcePointer>>
    BY <1>3 DEF CreateRecord
  <2>2. lockHolder = p /\ route[p] \in Routes
    BY <2>1 DEF Immutable
  <2>3. \A q \in Procs \ {p} : route[q] = None /\ step[q] = "none" /\ ~opened[q]
    BY <2>2
  <2>4. Written(p)' = Written(p) /\ Written(p) \in Files
    BY <2>1, <2>2, FileOfRoute DEF Written
  <2>5. \A k \in Earlier[step[p]] : disk'[FileOf(k, route[p])] = "whole"
    BY <2>2, EarlierIsImmutable, FileOfRoute, WholeStaysWhole
  <2>6. disk'[Written(p)] = "torn"
    BY <2>1, <2>4
  <2>7. QED
    BY <2>1, <2>2, <2>3, <2>4, <2>5, <2>6 DEF Immutable
<1>4. ASSUME NEW p \in Procs, FillRecord(p) \/ KeepRecord(p)
      PROVE  PublisherInv'
  <2>1. /\ step[p] \in Immutable /\ Moves(p)
        /\ UNCHANGED sourcePointer
    BY <1>4 DEF FillRecord, KeepRecord, Moves, Immutable, Steps
  <2>2. Written(p) \in Files
    BY <2>1, FileOfRoute DEF Written, Immutable
  <2>3. disk'[Written(p)] = "whole"
    BY <1>4, <2>2 DEF FillRecord, KeepRecord
  <2>4. step'[p] # "routePointer"
    BY <2>1 DEF Moves, NextStep, After, Immutable
  <2>5. QED
    BY <2>1, <2>3, <2>4, AfterStep
<1>5. ASSUME NEW p \in Procs, RefuseRecord(p) \/ EndPublish(p) \/ StopPublish(p)
      PROVE  PublisherInv'
  <2>1. LeavePublication(p) /\ UNCHANGED <<disk, sourcePointer>>
    BY <1>5 DEF RefuseRecord, EndPublish, StopPublish
  <2>2. QED
    BY <2>1 DEF LeavePublication, LetGo, Immutable
<1>6. ASSUME NEW p \in Procs, WriteScopePointer(p)
      PROVE  PublisherInv'
  <2>1. CASE opened[p]
    <3>1. Moves(p) /\ step[p] = "scopePointer" /\ UNCHANGED sourcePointer
      BY <1>6, <2>1 DEF WriteScopePointer, Moves, Steps
    <3>2. step'[p] # "routePointer" /\ step[p] \notin Immutable
      BY <3>1 DEF Moves, NextStep, After, Immutable
    <3>3. QED
      BY <3>1, <3>2, AfterStep
  <2>2. CASE ~opened[p]
    <3>1. /\ step[p] = "scopePointer" /\ opened' = [opened EXCEPT ![p] = TRUE]
          /\ UNCHANGED <<lockHolder, disk, sourcePointer, route, step>>
      BY <1>6, <2>2 DEF WriteScopePointer
    <3>2. QED
      BY <3>1 DEF Written, Immutable
  <2>3. QED
    BY <2>1, <2>2
<1>7. ASSUME NEW p \in Procs, SwapSource(p)
      PROVE  PublisherInv'
  <2>1. /\ Moves(p) /\ step[p] = "sourcePointer"
        /\ sourcePointer' = SourceOf[route[p]]
    BY <1>7 DEF SwapSource, Moves, Steps
  <2>2. step[p] \notin Immutable
    BY <2>1 DEF Immutable
  <2>3. QED
    BY <2>1, <2>2, AfterStep
<1>8. ASSUME NEW p \in Procs, SwapRoute(p)
      PROVE  PublisherInv'
  <2>1. Moves(p) /\ step[p] = "routePointer"
    BY <1>8 DEF SwapRoute, Moves, Steps
  <2>2. step'[p] # "routePointer" /\ step[p] \notin Immutable
    BY <2>1 DEF Moves, NextStep, After, Immutable
  <2>3. QED
    BY <2>1, <2>2, AfterStep
<1>9. ASSUME NEW q \in Readers, BeginRead(q) \/ Read(q)
      PROVE  PublisherInv'
  BY <1>1, <1>9 DEF BeginRead, Read, ReadSourcePointer, ReadRoutePointer, ReadRecords,
     ReadSourceAgain, ReadRouteAgain, Judge, ReadDisturbed
<1>10. ASSUME ChangeEntry \/ \E l \in Locales : EditLocale(l)
       PROVE  PublisherInv'
  BY <1>1, <1>10 DEF EditLocale, ChangeEntry
<1>11. CASE UNCHANGED vars
  BY <1>1, <1>11 DEF vars
<1>12. QED
  BY <1>2, <1>3, <1>4, <1>5, <1>6, <1>7, <1>8, <1>9, <1>10, <1>11
     DEF Next, Publish

\* The actions that change neither pointer.
StillPointers == UNCHANGED <<sourcePointer, routePointer>>

LEMMA PointersMove ==
    ASSUME TypeOK, [Next]_vars
    PROVE  StillPointers \/ \E p \in Procs : SwapSource(p) \/ SwapRoute(p)
<1> USE DEF StillPointers, pubVars, readVars
<1>1. ASSUME NEW p \in Procs,
             \/ \E r \in Routes : BeginPublish(p, r)
             \/ CreateRecord(p) \/ FillRecord(p) \/ KeepRecord(p)
             \/ RefuseRecord(p) \/ WriteScopePointer(p) \/ EndPublish(p)
             \/ StopPublish(p)
      PROVE  StillPointers
  BY <1>1 DEF BeginPublish, CreateRecord, FillRecord, KeepRecord, RefuseRecord,
     WriteScopePointer, EndPublish, StopPublish
<1>2. ASSUME NEW q \in Readers, BeginRead(q) \/ Read(q)
      PROVE  StillPointers
  BY <1>2 DEF BeginRead, Read, ReadSourcePointer, ReadRoutePointer, ReadRecords,
     ReadSourceAgain, ReadRouteAgain, Judge, ReadDisturbed
<1>3. ASSUME ChangeEntry \/ \E l \in Locales : EditLocale(l)
      PROVE  StillPointers
  BY <1>3 DEF EditLocale, ChangeEntry
<1>4. CASE UNCHANGED vars
  BY <1>4 DEF vars
<1>5. QED
  BY <1>1, <1>2, <1>3, <1>4 DEF Next, Publish

\* A swapped pointer leads to records that were written before it.
LEMMA PointersStep ==
    ASSUME TypeOK, HasRoute, PublisherInv, PointersLeadToRecords, [Next]_vars
    PROVE  PointersLeadToRecords'
<1> USE RoutePublicationAssumption DEF TypeOK, HasRoute, PointersLeadToRecords
<1>1. sourcePointer # None =>
        /\ <<"source", sourcePointer>> \in Files
        /\ disk'[<<"source", sourcePointer>>] = "whole"
  BY WholeStaysWhole DEF Files
<1>2. routePointer # None =>
        \A k \in Immutable : /\ FileOf(k, routePointer) \in Files
                              /\ disk[FileOf(k, routePointer)] = "whole"
                              /\ disk'[FileOf(k, routePointer)] = "whole"
  BY WholeStaysWhole, FileOfRoute DEF FileOf, Immutable
<1>3. CASE StillPointers
  BY <1>1, <1>2, <1>3 DEF StillPointers, FileOf, Immutable
<1>4. ASSUME NEW p \in Procs, SwapSource(p) \/ SwapRoute(p)
      PROVE  PointersLeadToRecords'
  <2>1. /\ step[p] \in {"sourcePointer", "routePointer"} /\ route[p] \in Routes
        /\ UNCHANGED disk
    BY <1>4 DEF SwapSource, SwapRoute
  <2>2. \A k \in Immutable : disk'[FileOf(k, route[p])] = "whole"
    BY <2>1 DEF PublisherInv, Publishing, Earlier
  <2>3. /\ disk'[<<"source", SourceOf[route[p]]>>] = "whole"
        /\ disk'[<<"record", route[p]>>] = "whole"
        /\ disk'[<<"authority", route[p]>>] = "whole"
        /\ disk'[<<"scopeRecord", route[p]>>] = "whole"
    BY <2>2 DEF FileOf, Immutable
  <2>4. CASE SwapSource(p)
    BY <1>1, <1>2, <2>3, <2>4 DEF SwapSource, FileOf, Immutable
  <2>5. CASE SwapRoute(p)
    BY <1>1, <1>2, <2>3, <2>5 DEF SwapRoute, FileOf, Immutable
  <2>6. QED
    BY <1>4, <2>4, <2>5
<1>5. QED
  BY <1>3, <1>4, PointersMove

\* While nobody swaps a pointer, only the reader that moves can disturb what is
\* known of the readers.
LEMMA ReaderStep ==
    ASSUME TypeOK, HasRoute, PublisherInv, ReaderInv, ReadIsCoherent, [Next]_vars
    PROVE  ReaderInv' /\ ReadIsCoherent'
<1> USE RoutePublicationAssumption
    DEF TypeOK, ReaderInv, ReadIsCoherent, pubVars, readVars, Reading
<1>1. CASE UNCHANGED <<sourcePointer, routePointer, at, source, record, result, during>>
  BY <1>1
<1>2. ASSUME NEW p \in Procs,
             \/ \E r \in Routes : BeginPublish(p, r)
             \/ CreateRecord(p) \/ FillRecord(p) \/ KeepRecord(p)
             \/ RefuseRecord(p) \/ WriteScopePointer(p) \/ EndPublish(p)
             \/ StopPublish(p)
      PROVE  ReaderInv' /\ ReadIsCoherent'
  BY <1>1, <1>2 DEF BeginPublish, CreateRecord, FillRecord, KeepRecord,
     RefuseRecord, WriteScopePointer, EndPublish, StopPublish
<1>3. ASSUME NEW p \in Procs, SwapSource(p)
      PROVE  ReaderInv' /\ ReadIsCoherent'
  <2>1. /\ Witness(sourcePointer', routePointer)
        /\ UNCHANGED <<routePointer, at, source, record, result>>
    BY <1>3 DEF SwapSource
  <2>2. QED
    BY <2>1 DEF Witness
<1>4. ASSUME NEW p \in Procs, SwapRoute(p)
      PROVE  ReaderInv' /\ ReadIsCoherent'
  <2>1. /\ Witness(sourcePointer, routePointer')
        /\ sourcePointer = SourceOf[routePointer'] /\ routePointer' # None
        /\ UNCHANGED <<sourcePointer, at, source, record, result>>
    BY <1>4 DEF SwapRoute, PublisherInv, HasRoute
  <2>2. QED
    BY <2>1 DEF Witness
<1>5. ASSUME NEW q \in Readers, BeginRead(q)
      PROVE  ReaderInv' /\ ReadIsCoherent'
  BY <1>5 DEF BeginRead
<1>6. ASSUME NEW q \in Readers, ReadSourcePointer(q)
      PROVE  ReaderInv' /\ ReadIsCoherent'
  BY <1>6 DEF ReadSourcePointer
<1>7. ASSUME NEW q \in Readers, ReadRoutePointer(q)
      PROVE  ReaderInv' /\ ReadIsCoherent'
  BY <1>7 DEF ReadRoutePointer
<1>8. ASSUME NEW q \in Readers, Finish(q, "failed"),
             UNCHANGED <<sourcePointer, routePointer, during>>
      PROVE  ReaderInv' /\ ReadIsCoherent'
  BY <1>8 DEF Finish
<1>9. ASSUME NEW q \in Readers, ReadRecords(q) \/ ReadSourceAgain(q) \/ ReadRouteAgain(q)
      PROVE  ReaderInv' /\ ReadIsCoherent'
  <2>1. CASE Finish(q, "failed")
    BY <1>8, <1>9, <2>1 DEF ReadRecords, ReadSourceAgain, ReadRouteAgain
  <2>2. CASE /\ \E l \in Reading \ {"route", "records"} :
                  at' = [at EXCEPT ![q] = l]
             /\ at[q] \in Reading \ {"source", "route"}
             /\ UNCHANGED <<sourcePointer, routePointer, source, record, result, during>>
    BY <2>2, ZenonT(40)
  <2>3. QED
    BY <1>9, <2>1, <2>2 DEF ReadRecords, ReadSourceAgain, ReadRouteAgain
<1>10. ASSUME NEW q \in Readers, Judge(q) \/ ReadDisturbed(q)
       PROVE  ReaderInv' /\ ReadIsCoherent'
  <2>1. CASE Finish(q, "failed")
    BY <1>8, <1>10, <2>1 DEF Judge, ReadDisturbed
  <2>2. CASE Finish(q, record[q]) /\ at[q] = "judge" /\ Acceptable(source[q], record[q])
    <3>1. <<SourceOf[record[q]], record[q]>> \in during[q]
      BY <2>2 DEF Acceptable
    <3>2. UNCHANGED <<sourcePointer, routePointer, during>>
      BY <1>10 DEF Judge, ReadDisturbed
    <3>3. QED
      BY <2>2, <3>1, <3>2 DEF Finish
  <2>3. QED
    BY <1>10, <2>1, <2>2 DEF Judge, ReadDisturbed
<1>11. ASSUME ChangeEntry \/ \E l \in Locales : EditLocale(l)
       PROVE  ReaderInv' /\ ReadIsCoherent'
  BY <1>1, <1>11 DEF EditLocale, ChangeEntry
<1>12. CASE UNCHANGED vars
  BY <1>1, <1>12 DEF vars
<1>13. QED
  BY <1>2, <1>3, <1>4, <1>5, <1>6, <1>7, <1>8, <1>9, <1>10, <1>11, <1>12
     DEF Next, Publish, Read

\* The inductive invariant holds in every reachable state.
THEOREM RouteInvariant == Spec => []RouteInv
<1>1. Init => RouteInv
  BY ProjectLockAssumption, RoutePublicationAssumption
     DEF Init, LockInit, RouteInv, PublisherInv, Publishing, ReaderInv,
         ReadIsCoherent, PointersLeadToRecords, Immutable
<1>2. TypeOK /\ HasRoute /\ RouteInv /\ [Next]_vars => RouteInv'
  BY PublisherStep, PointersStep, ReaderStep DEF RouteInv
<1>3. QED
  BY <1>1, <1>2, RouteTypes, PTL DEF Spec

\* No crash leaves a current route without its source contract, its authority,
\* its scope evidence or its own record.
THEOREM PointersAreSound == Spec => []PointersLeadToRecords
<1>1. RouteInv => PointersLeadToRecords
  BY DEF RouteInv
<1>2. QED
  BY <1>1, RouteInvariant, PTL

\* A lock-free read returns a route only if it and its source contract were the
\* current pair at one moment of the read.
THEOREM ReadsAreCoherent == Spec => []ReadIsCoherent
<1>1. RouteInv => ReadIsCoherent
  BY DEF RouteInv
<1>2. QED
  BY <1>1, RouteInvariant, PTL

-----------------------------------------------------------------------------
(* The route changes last.                                                  *)

\* Past the scope pointer, the baseline in place is the one of the route that is
\* being published: it is written by nobody but the lock's holder.
Baselined == {"authority", "source", "record", "sourcePointer", "routePointer", "release"}

ScopeInv == \A p \in Procs : step[p] \in Baselined => scopePointer = route[p]

LEMMA AfterBaseline ==
    \A k \in Steps \ {"none", "release"} : After[k] \in Baselined => k \in Baselined \cup {"scopePointer"}
<1> SUFFICES ASSUME NEW k \in Steps \ {"none", "release"}
             PROVE  After[k] \in Baselined => k \in Baselined \cup {"scopePointer"}
  OBVIOUS
<1> USE DEF After, Steps, Immutable, Baselined
<1>1. CASE k = "scopeRecord"   BY <1>1
<1>2. CASE k = "scopePointer"  BY <1>2
<1>3. CASE k = "authority"     BY <1>3
<1>4. CASE k = "source"        BY <1>4
<1>5. CASE k = "record"        BY <1>5
<1>6. CASE k = "sourcePointer" BY <1>6
<1>7. CASE k = "routePointer"  BY <1>7
<1>8. QED
  BY <1>1, <1>2, <1>3, <1>4, <1>5, <1>6, <1>7

LEMMA ScopeStep ==
    ASSUME TypeOK, HasRoute, PublisherInv, ScopeInv, [Next]_vars
    PROVE  ScopeInv'
<1> USE ProjectLockAssumption DEF TypeOK, HasRoute, PublisherInv, Publishing, ScopeInv, pubVars, readVars
<1>1. ASSUME NEW p \in Procs, NEW r \in Routes, BeginPublish(p, r)
      PROVE  ScopeInv'
  BY <1>1 DEF BeginPublish, Baselined
<1>2. ASSUME NEW p \in Procs, FillRecord(p) \/ KeepRecord(p) \/ SwapSource(p) \/ SwapRoute(p)
      PROVE  ScopeInv'
  <2>1. /\ step[p] \in Steps \ {"none", "release", "scopePointer"}
        /\ step' = [step EXCEPT ![p] = After[step[p]]]
        /\ UNCHANGED <<scopePointer, route>>
    BY <1>2 DEF FillRecord, KeepRecord, SwapSource, SwapRoute, NextStep, Immutable, Steps
  <2>2. QED
    BY <2>1, AfterBaseline
<1>3. ASSUME NEW p \in Procs, WriteScopePointer(p)
      PROVE  ScopeInv'
  <2>1. \A q \in Procs \ {p} : step[q] = "none"
    BY <1>3 DEF WriteScopePointer
  <2>2. \/ step' = step /\ step[p] \notin Baselined
        \/ scopePointer' = route[p] /\ step' = [step EXCEPT ![p] = After[step[p]]]
    BY <1>3 DEF WriteScopePointer, NextStep, Baselined
  <2>3. route' = route /\ "none" \notin Baselined
    BY <1>3 DEF WriteScopePointer, Baselined
  <2>4. QED
    BY <2>1, <2>2, <2>3
<1>4. ASSUME NEW p \in Procs, RefuseRecord(p) \/ EndPublish(p) \/ StopPublish(p)
      PROVE  ScopeInv'
  BY <1>4 DEF RefuseRecord, EndPublish, StopPublish, LeavePublication, Baselined
<1>5. ASSUME NEW p \in Procs, CreateRecord(p)
      PROVE  ScopeInv'
  BY <1>5 DEF CreateRecord
<1>6. ASSUME NEW q \in Readers, BeginRead(q) \/ Read(q)
      PROVE  ScopeInv'
  BY <1>6 DEF BeginRead, Read, ReadSourcePointer, ReadRoutePointer, ReadRecords,
     ReadSourceAgain, ReadRouteAgain, Judge, ReadDisturbed
<1>7. ASSUME ChangeEntry \/ \E l \in Locales : EditLocale(l)
      PROVE  ScopeInv'
  BY <1>7 DEF EditLocale, ChangeEntry
<1>8. CASE UNCHANGED vars
  BY <1>8 DEF vars
<1>9. QED
  BY <1>1, <1>2, <1>3, <1>4, <1>5, <1>6, <1>7, <1>8 DEF Next, Publish

\* When the current route changes it becomes the lock holder's, under its own source
\* pointer and scope baseline: an interrupted publication never shows.
THEOREM RouteIsLast == Spec => RouteChangesLast
<1>1. Init => ScopeInv
  BY DEF Init, ScopeInv, Baselined
<1>2. TypeOK /\ HasRoute /\ RouteInv /\ ScopeInv /\ [Next]_vars => ScopeInv'
  BY ScopeStep DEF RouteInv
<1>3. ASSUME TypeOK, HasRoute, RouteInv, ScopeInv, [Next]_vars, routePointer' # routePointer
      PROVE  /\ lockHolder # None /\ routePointer' = route[lockHolder]
             /\ sourcePointer = SourceOf[routePointer']
             /\ scopePointer = routePointer'
  <2>1. PICK p \in Procs : SwapRoute(p)
    BY <1>3, PointersMove DEF StillPointers, SwapSource
  <2>2. step[p] = "routePointer" /\ routePointer' = route[p]
    BY <2>1 DEF SwapRoute
  <2>3. lockHolder = p /\ sourcePointer = SourceOf[route[p]]
    BY <1>3, <2>2 DEF RouteInv, PublisherInv, Publishing
  <2>4. scopePointer = route[p]
    BY <1>3, <2>2 DEF ScopeInv, Baselined
  <2>5. QED
    BY <2>2, <2>3, <2>4, ProjectLockAssumption
<1>4. QED
  BY <1>1, <1>2, <1>3, RouteTypes, RouteInvariant, PTL DEF Spec, RouteChangesLast

-----------------------------------------------------------------------------
(* Why an undisturbed read succeeds.                                         *)

\* A reader has no result before it returns; while neither the route's files nor a
\* directory on the way to them, the project root included, has changed since its call, what it has read of the pointers is what they are, and it has
\* seen no pointer move.
CalmInv ==
    \A q \in Readers : at[q] # "idle" =>
        /\ result[q] = None
        /\ calm[q] = "always" =>
              /\ at[q] # "moved"
              /\ at[q] # "source" => source[q] = sourcePointer
              /\ at[q] \notin {"source", "route"} => record[q] = routePointer

\* Every step of a publisher or an author, and every entry made or renamed in the
\* project root or on the way to the files, disturbs all reads, and none moves a reader.
LEMMA OthersTouch ==
    ASSUME \/ \E p \in Procs :
                 (\E r \in Routes : BeginPublish(p, r)) \/ Publish(p) \/ StopPublish(p)
           \/ ChangeEntry \/ \E l \in Locales : EditLocale(l)
    PROVE  Touch /\ UNCHANGED readVars
BY DEF BeginPublish, Publish, CreateRecord, FillRecord, KeepRecord, RefuseRecord,
   WriteScopePointer, SwapSource, SwapRoute, EndPublish, StopPublish, EditLocale,
   ChangeEntry

\* A step of a reader moves no pointer and no other reader, and leaves it calm only
\* if it was.
LEMMA ReadersMove ==
    ASSUME TypeOK, NEW q \in Readers, BeginRead(q) \/ Read(q)
    PROVE  /\ UNCHANGED <<disk, locale, sourcePointer, routePointer>>
           /\ \A o \in Readers \ {q} :
                 /\ at'[o] = at[o] /\ calm'[o] = calm[o] /\ result'[o] = result[o]
                 /\ source'[o] = source[o] /\ record'[o] = record[o]
           /\ Read(q) /\ calm'[q] = "always" => calm[q] = "always"
<1> USE DEF TypeOK, pubVars, readVars, Look, Finish
<1>1. CASE BeginRead(q)
  BY <1>1 DEF BeginRead, Read, ReadSourcePointer, ReadRoutePointer, ReadRecords,
     ReadSourceAgain, ReadRouteAgain, Judge, ReadDisturbed, Reading
<1>2. CASE ReadSourcePointer(q) \/ ReadRoutePointer(q)
  BY <1>2 DEF ReadSourcePointer, ReadRoutePointer
<1>3. CASE ReadRecords(q)
  BY <1>3 DEF ReadRecords
<1>4. CASE ReadSourceAgain(q)
  BY <1>4 DEF ReadSourceAgain
<1>5. CASE ReadRouteAgain(q)
  BY <1>5 DEF ReadRouteAgain
<1>6. CASE Judge(q) \/ ReadDisturbed(q)
  BY <1>6 DEF Judge, ReadDisturbed
<1>7. QED
  BY <1>1, <1>2, <1>3, <1>4, <1>5, <1>6 DEF Read

\* Only a change of the files or of a directory above them ends a reader's calm.
LEMMA CalmStep ==
    ASSUME TypeOK, CalmInv, [Next]_vars
    PROVE  CalmInv'
<1>1. CASE UNCHANGED vars
  BY <1>1 DEF CalmInv, vars, pubVars, readVars
<1>2. CASE Touch /\ UNCHANGED readVars
  BY <1>2 DEF CalmInv, Touch, readVars
<1>3. ASSUME NEW q \in Readers, BeginRead(q) \/ Read(q)
      PROVE  CalmInv'
  <2> DEFINE Good(a, s, r) == /\ a # "moved"
                              /\ a # "source" => s = sourcePointer
                              /\ a \notin {"source", "route"} => r = routePointer
  <2>1. SUFFICES ASSUME at'[q] # "idle"
                 PROVE  /\ result'[q] = None
                        /\ calm'[q] = "always" => Good(at'[q], source'[q], record'[q])
    BY <1>3, ReadersMove DEF CalmInv
  <2> USE DEF TypeOK, readVars, Finish
  <2>2. CASE BeginRead(q)
    BY <2>2 DEF BeginRead
  <2>3. CASE Read(q)
    <3>1. /\ at[q] # "idle" /\ result[q] = None
          /\ calm'[q] = "always" =>
                calm[q] = "always" /\ Good(at[q], source[q], record[q])
      BY <1>3, <2>3, ReadersMove
         DEF CalmInv, Read, ReadSourcePointer, ReadRoutePointer, ReadRecords,
             ReadSourceAgain, ReadRouteAgain, Judge, ReadDisturbed
    <3>2. CASE ReadSourcePointer(q)
      BY <3>1, <3>2 DEF ReadSourcePointer
    <3>3. CASE ReadRoutePointer(q)
      BY <3>1, <3>3 DEF ReadRoutePointer
    <3>4. CASE ReadRecords(q)
      BY <2>1, <3>1, <3>4 DEF ReadRecords
    <3>5. CASE ReadSourceAgain(q)
      BY <3>1, <3>5 DEF ReadSourceAgain
    <3>6. CASE ReadRouteAgain(q)
      BY <2>1, <3>1, <3>6 DEF ReadRouteAgain
    <3>7. CASE Judge(q) \/ ReadDisturbed(q)
      BY <2>1, <3>7 DEF Judge, ReadDisturbed
    <3>8. QED
      BY <2>3, <3>2, <3>3, <3>4, <3>5, <3>6, <3>7 DEF Read
  <2>4. QED
    BY <1>3, <2>2, <2>3
<1>4. QED
  BY <1>1, <1>2, <1>3, OthersTouch DEF Next

\* A read that nothing disturbs fails only if what is on disk cannot be read: the
\* pair that is judged, looked for and compared is the current one.
THEOREM UndisturbedSucceeds == Spec => UndisturbedReadSucceeds
<1>1. Init => CalmInv
  BY DEF Init, CalmInv
<1>2. TypeOK /\ HasRoute /\ CalmInv /\ [Next]_vars => CalmInv'
  BY CalmStep
<1>3. ASSUME TypeOK, CalmInv, [Next]_vars,
             NEW q \in Readers, at[q] # "idle", result'[q] = "failed", calm[q] = "always",
             Readable
      PROVE  FALSE
  <2>1. /\ result[q] = None /\ at[q] # "moved" /\ None # "failed"
        /\ at[q] # "source" => source[q] = sourcePointer
        /\ at[q] \notin {"source", "route"} => record[q] = routePointer
    BY <1>3, RoutePublicationAssumption DEF CalmInv
  <2>2. CASE result' = result
    BY <1>3, <2>1, <2>2
  <2>3. ASSUME NEW o \in Readers, BeginRead(o) \/ Read(o)
        PROVE  FALSE
    <3>1. o = q
      BY <1>3, <2>1, <2>3, ReadersMove
    <3>2. Read(q)
      BY <1>3, <2>3, <3>1 DEF BeginRead
    <3>3. ReadRecords(q) \/ ReadRouteAgain(q) \/ Judge(q)
      BY <1>3, <2>1, <3>2
         DEF Read, ReadSourcePointer, ReadRoutePointer, ReadSourceAgain, ReadDisturbed
    <3>4. CASE ReadRecords(q)
      <4>1. /\ disk[<<"source", sourcePointer>>] = "whole"
            /\ disk[<<"record", routePointer>>] = "whole"
            /\ sourcePointer \in Sources /\ routePointer \in Routes
        BY <1>3, RoutePublicationAssumption DEF Readable, Acceptable, TypeOK
      <4>2. source[q] = sourcePointer /\ record[q] = routePointer
        BY <2>1, <3>4 DEF ReadRecords
      <4>3. result' = result
        BY <3>4, <4>1, <4>2 DEF ReadRecords, Files
      <4>4. QED
        BY <2>2, <4>3
    <3>5. CASE ReadRouteAgain(q)
      BY <2>1, <2>2, <3>5 DEF ReadRouteAgain
    <3>6. CASE Judge(q)
      <4>1. source[q] = sourcePointer /\ record[q] = routePointer
        BY <2>1, <3>6 DEF Judge
      <4>2. result'[q] = routePointer /\ routePointer \in Routes
        BY <1>3, <3>6, <4>1 DEF Judge, Finish, Readable, TypeOK
      <4>3. QED
        BY <1>3, <4>2, RoutePublicationAssumption
    <3>7. QED
      BY <3>3, <3>4, <3>5, <3>6
  <2>4. CASE UNCHANGED vars \/ ~\E o \in Readers : BeginRead(o) \/ Read(o)
    BY <1>3, <2>2, <2>4, OthersTouch DEF Next, vars, readVars
  <2>5. QED
    BY <2>3, <2>4
<1>4. TypeOK /\ CalmInv /\ [Next]_vars =>
         [\A q \in Readers :
             at[q] # "idle" /\ result'[q] = "failed" /\ calm[q] = "always" => ~Readable]_vars
  BY <1>3
<1>5. QED
  BY <1>1, <1>2, <1>4, RouteTypes, PTL DEF Spec, UndisturbedReadSucceeds

-----------------------------------------------------------------------------
(* A publication nobody interrupts is not refused.                           *)

\* What the processes do as long as no publication is stopped half-way.
UninterruptedNext ==
    \/ \E p \in Procs : (\E r \in Routes : BeginPublish(p, r)) \/ Publish(p)
    \/ \E q \in Readers : BeginRead(q) \/ Read(q)
    \/ ChangeEntry \/ \E l \in Locales : EditLocale(l)

UninterruptedSpec == Init /\ [][UninterruptedNext]_vars

\* A file that is not filled is one that its publisher is about to fill.
TornIsOpen ==
    \A f \in Files : disk[f] = "torn" =>
        \E p \in Procs : opened[p] /\ step[p] \in Immutable /\ Written(p) = f

LEMMA TornStep ==
    ASSUME TypeOK, HasRoute, PublisherInv, TornIsOpen, [UninterruptedNext]_vars
    PROVE  TornIsOpen'
<1> USE DEF TypeOK, HasRoute, TornIsOpen, Written, pubVars
<1>1. ASSUME NEW p \in Procs, NEW r \in Routes, BeginPublish(p, r)
      PROVE  TornIsOpen'
  <2>1. \A o \in Procs : ~opened[o]
    BY <1>1, ProjectLockAssumption DEF BeginPublish, Acquire, PublisherInv, Publishing
  <2>2. QED
    BY <1>1, <2>1 DEF BeginPublish
<1>2. ASSUME NEW p \in Procs, CreateRecord(p)
      PROVE  TornIsOpen'
  <2>1. opened'[p] /\ \A o \in Procs : opened[o] => opened'[o]
    BY <1>2 DEF CreateRecord
  <2>2. QED
    BY <1>2, <2>1 DEF CreateRecord
<1>3. ASSUME NEW p \in Procs,
             FillRecord(p) \/ KeepRecord(p) \/ WriteScopePointer(p) \/ SwapSource(p)
                 \/ SwapRoute(p) \/ RefuseRecord(p) \/ EndPublish(p)
      PROVE  TornIsOpen'
  <2>1. \A o \in Procs \ {p} : ~opened[o]
    <3>1. Publishing(p)
      BY <1>3 DEF FillRecord, KeepRecord, WriteScopePointer, SwapSource, SwapRoute,
         RefuseRecord, Refused, EndPublish, PublisherInv, Immutable
    <3>2. QED
      BY <3>1 DEF PublisherInv
  <2>2. \A f \in Files : disk'[f] = "torn" => disk[f] = "torn"
    BY <1>3 DEF FillRecord, KeepRecord, WriteScopePointer, SwapSource, SwapRoute,
       RefuseRecord, EndPublish
  <2>3. CASE opened[p] /\ step[p] \in Immutable
    <3>1. FillRecord(p)
      BY <1>3, <2>3 DEF KeepRecord, WriteScopePointer, SwapSource, SwapRoute,
         RefuseRecord, Refused, EndPublish, Immutable
    <3>2. \A f \in Files : disk'[f] # "torn"
      BY <2>1, <2>2, <3>1 DEF FillRecord
    <3>3. QED
      BY <3>2
  <2>4. CASE ~(opened[p] /\ step[p] \in Immutable)
    BY <2>1, <2>2, <2>4
  <2>5. QED
    BY <2>3, <2>4
<1>4. ASSUME NEW q \in Readers, BeginRead(q) \/ Read(q)
      PROVE  TornIsOpen'
  BY <1>4 DEF BeginRead, Read, ReadSourcePointer, ReadRoutePointer, ReadRecords,
     ReadSourceAgain, ReadRouteAgain, Judge, ReadDisturbed
<1>5. ASSUME ChangeEntry \/ \E l \in Locales : EditLocale(l)
      PROVE  TornIsOpen'
  BY <1>5 DEF EditLocale, ChangeEntry
<1>6. CASE UNCHANGED vars
  BY <1>6 DEF vars
<1>7. QED
  BY <1>1, <1>2, <1>3, <1>4, <1>5, <1>6 DEF UninterruptedNext, Publish

\* "A repeated write of the exact same bytes is the same receipt": true of any number
\* of publishers that take turns, until one of them is stopped between two writes.
THEOREM UninterruptedNotRefused == UninterruptedSpec => []ResumeNotRefused
<1>1. UninterruptedSpec => Spec
  <2>1. UninterruptedNext => Next
    BY DEF UninterruptedNext, Next
  <2>2. QED
    BY <2>1, PTL DEF UninterruptedSpec, Spec
<1>2. Init => TornIsOpen
  BY DEF Init, TornIsOpen
<1>3. TypeOK /\ HasRoute /\ RouteInv /\ TornIsOpen /\ [UninterruptedNext]_vars => TornIsOpen'
  BY TornStep DEF RouteInv
<1>4. ASSUME TypeOK, HasRoute, RouteInv, TornIsOpen
      PROVE  ResumeNotRefused
  <2> SUFFICES ASSUME NEW p \in Procs, Refused(p)
               PROVE  FALSE
    BY DEF ResumeNotRefused
  <2>1. step[p] \in Immutable /\ ~opened[p] /\ disk[Written(p)] = "torn"
    BY DEF Refused
  <2>2. Written(p) \in Files
    BY <1>4, <2>1, FileOfRoute DEF HasRoute, Immutable, Written
  <2>3. PICK o \in Procs : opened[o]
    BY <1>4, <2>1, <2>2 DEF TornIsOpen
  <2>4. Publishing(p) /\ Publishing(o)
    BY <1>4, <2>1, <2>3 DEF RouteInv, PublisherInv, Immutable
  <2>5. o = p
    BY <1>4, <2>4 DEF RouteInv, PublisherInv
  <2>6. QED
    BY <2>1, <2>3, <2>5
<1>5. QED
  BY <1>1, <1>2, <1>3, <1>4, RouteTypes, RouteInvariant, PTL DEF UninterruptedSpec

-----------------------------------------------------------------------------
(* Publication and reading implement the register.                           *)

\* What may become visible to a reader, or change what it will be given.
Visible == <<sourcePointer, routePointer, during, result>>

\* A step that swaps no pointer and neither begins nor ends a read is none of the
\* register.
LEMMA RegisterStays ==
    ASSUME UNCHANGED Visible, \A q \in Readers : at'[q] = "idle" <=> at[q] = "idle"
    PROVE  UNCHANGED Register!registerVars
<1>1. UNCHANGED <<CurrentRoute, Busy>>
  BY DEF Visible, CurrentRoute, Coherent, Busy
<1>2. \A q \in Readers : SeenBy(q)' = SeenBy(q)
  BY <1>1 DEF Visible, SeenBy
<1>3. UNCHANGED [q \in Readers |-> SeenBy(q)]
  BY <1>2
<1>4. QED
  BY <1>1, <1>3 DEF Visible, Register!registerVars

\* Either swap writes what the two pointers now say.
LEMMA SwapWrites ==
    ASSUME TypeOK, TypeOK', NEW p \in Procs, SwapSource(p) \/ SwapRoute(p)
    PROVE  Register!Write(CurrentRoute')
<1>1. /\ Witness(sourcePointer', routePointer')
      /\ UNCHANGED <<at, result>>
  BY DEF SwapSource, SwapRoute, readVars
<1>2. UNCHANGED Busy
  BY <1>1 DEF Busy
<1>3. ASSUME NEW q \in Readers
      PROVE  SeenBy(q)' = IF q \in Busy THEN SeenBy(q) \cup Register!Values(CurrentRoute') ELSE {}
  <2>1. CASE q \in Busy
    <3>1. during'[q] = during[q] \cup {<<sourcePointer', routePointer'>>}
      BY <1>1, <2>1 DEF Witness, Busy
    <3>2. ASSUME NEW r \in Routes
          PROVE  <<SourceOf[r], r>> = <<sourcePointer', routePointer'>>
                     <=> r \in Register!Values(CurrentRoute')
      BY <3>2, RoutePublicationAssumption DEF CurrentRoute, Coherent, Register!Values
    <3>3. Register!Values(CurrentRoute') \subseteq Routes
      BY DEF CurrentRoute, Coherent, Register!Values, TypeOK
    <3>4. QED
      BY <1>2, <2>1, <3>1, <3>2, <3>3 DEF SeenBy
  <2>2. CASE q \notin Busy
    BY <1>2, <2>2 DEF SeenBy
  <2>3. QED
    BY <2>1, <2>2
<1>4. [q \in Readers |-> SeenBy(q)]'
          = [q \in Readers |-> IF q \in Busy
                                 THEN [o \in Readers |-> SeenBy(o)][q]
                                          \cup Register!Values(CurrentRoute')
                                 ELSE {}]
  BY <1>3
<1>5. QED
  BY <1>1, <1>2, <1>4 DEF Register!Write

\* A read begins with what is current.
LEMMA BeginCalls ==
    ASSUME TypeOK, NEW q \in Readers, BeginRead(q)
    PROVE  Register!Call(q)
<1>1. /\ at[q] = "idle" /\ at' = [at EXCEPT ![q] = "source"]
      /\ during' = [during EXCEPT ![q] = {<<sourcePointer, routePointer>>}]
      /\ result' = [result EXCEPT ![q] = None]
      /\ UNCHANGED <<sourcePointer, routePointer>>
  BY DEF BeginRead, pubVars
<1>2. q \notin Busy /\ Busy' = Busy \cup {q} /\ UNCHANGED CurrentRoute
  BY <1>1 DEF Busy, CurrentRoute, Coherent, TypeOK
<1>3. SeenBy(q)' = Register!Values(CurrentRoute)
  <2>1. during'[q] = {<<sourcePointer, routePointer>>}
    BY <1>1 DEF TypeOK
  <2>2. ASSUME NEW r \in Routes
        PROVE  <<SourceOf[r], r>> = <<sourcePointer, routePointer>>
                   <=> r \in Register!Values(CurrentRoute)
    BY <2>2, RoutePublicationAssumption DEF CurrentRoute, Coherent, Register!Values
  <2>3. Register!Values(CurrentRoute) \subseteq Routes
    BY DEF CurrentRoute, Coherent, Register!Values, TypeOK
  <2>4. QED
    BY <1>2, <2>1, <2>2, <2>3 DEF SeenBy
<1>4. \A o \in Readers \ {q} : SeenBy(o)' = SeenBy(o)
  BY <1>1, <1>2 DEF SeenBy, TypeOK
<1>5. [o \in Readers |-> SeenBy(o)]'
          = [[o \in Readers |-> SeenBy(o)] EXCEPT ![q] = Register!Values(CurrentRoute)]
  BY <1>3, <1>4
<1>6. QED
  BY <1>1, <1>2, <1>5 DEF Register!Call

\* A read ends with a route it has seen, or fails.
LEMMA FinishReturns ==
    ASSUME TypeOK, NEW q \in Readers, q \in Busy, NEW r \in SeenBy(q) \cup {"failed"},
           Finish(q, r), UNCHANGED <<sourcePointer, routePointer, during>>
    PROVE  Register!Return(q, r)
<1>1. result' = [result EXCEPT ![q] = r] /\ at' = [at EXCEPT ![q] = "idle"]
  BY DEF Finish
<1>2. Busy' = Busy \ {q} /\ UNCHANGED CurrentRoute
  BY <1>1 DEF Busy, CurrentRoute, Coherent, TypeOK
<1>3. SeenBy(q)' = {} /\ \A o \in Readers \ {q} : SeenBy(o)' = SeenBy(o)
  BY <1>2 DEF SeenBy
<1>4. [o \in Readers |-> SeenBy(o)]' = [[o \in Readers |-> SeenBy(o)] EXCEPT ![q] = {}]
  BY <1>3
<1>5. r \in [o \in Readers |-> SeenBy(o)][q] \cup {"failed"}
  OBVIOUS
<1>6. QED
  BY <1>1, <1>2, <1>4, <1>5 DEF Register!Return

\* A step of a reader under way goes on unseen, fails, or returns a route whose
\* record carries the source it read: the second case of ReaderInv.
LEMMA ReadImplements ==
    ASSUME TypeOK, ReaderInv, NEW q \in Readers, Read(q)
    PROVE  [Register!RegisterNext]_(Register!registerVars)
<1>1. UNCHANGED <<sourcePointer, routePointer, during>>
  BY DEF Read, ReadSourcePointer, ReadRoutePointer, ReadRecords, ReadSourceAgain,
         ReadRouteAgain, Judge, ReadDisturbed, pubVars
<1>2. q \in Busy
  BY DEF Read, ReadSourcePointer, ReadRoutePointer, ReadRecords, ReadSourceAgain,
         ReadRouteAgain, Judge, ReadDisturbed, Busy
<1>3. CASE Finish(q, "failed")
  <2>1. Register!Return(q, "failed")
    BY <1>1, <1>2, <1>3, FinishReturns
  <2>2. QED
    BY <2>1 DEF Register!RegisterNext
<1>4. CASE Judge(q) /\ Acceptable(source[q], record[q])
  <2>1. at[q] = "judge" /\ Finish(q, record[q]) /\ SourceOf[record[q]] = source[q]
    BY <1>4 DEF Judge, Acceptable
  <2>2. record[q] \in SeenBy(q)
    BY <1>2, <2>1 DEF ReaderInv, SeenBy
  <2>3. Register!Return(q, record[q])
    BY <1>1, <1>2, <2>1, <2>2, FinishReturns
  <2>4. record[q] \in Routes
    BY <2>2 DEF SeenBy
  <2>5. QED
    BY <2>3, <2>4 DEF Register!RegisterNext
<1>5. CASE \E point \in Reading : at' = [at EXCEPT ![q] = point] /\ result' = result
  <2>1. \A o \in Readers : at'[o] = "idle" <=> at[o] = "idle"
    BY <1>2, <1>5 DEF Busy, TypeOK, Reading
  <2>2. QED
    BY <1>1, <1>5, <2>1, RegisterStays DEF Visible
<1>6. QED
  BY <1>3, <1>4, <1>5 DEF Read, ReadSourcePointer, ReadRoutePointer, ReadRecords,
     ReadSourceAgain, ReadRouteAgain, Judge, ReadDisturbed, Reading

LEMMA RegisterStep ==
    ASSUME TypeOK, TypeOK', RouteInv, [Next]_vars
    PROVE  [Register!RegisterNext]_(Register!registerVars)
<1>1. ASSUME NEW p \in Procs, SwapSource(p) \/ SwapRoute(p)
      PROVE  Register!RegisterNext
  <2>1. CurrentRoute' \in Routes \cup {None}
    BY DEF CurrentRoute, Coherent, TypeOK
  <2>2. QED
    BY <1>1, <2>1, SwapWrites DEF Register!RegisterNext
<1>2. ASSUME NEW q \in Readers, BeginRead(q)
      PROVE  Register!RegisterNext
  BY <1>2, BeginCalls DEF Register!RegisterNext
<1>3. ASSUME NEW q \in Readers, Read(q)
      PROVE  [Register!RegisterNext]_(Register!registerVars)
  BY <1>3, ReadImplements DEF RouteInv
<1>4. CASE UNCHANGED <<sourcePointer, routePointer, during, readVars>>
  BY <1>4, RegisterStays DEF Visible, readVars
<1>5. ASSUME NEW p \in Procs,
             \/ \E r \in Routes : BeginPublish(p, r)
             \/ CreateRecord(p) \/ FillRecord(p) \/ KeepRecord(p) \/ RefuseRecord(p)
             \/ WriteScopePointer(p) \/ EndPublish(p) \/ StopPublish(p)
      PROVE  UNCHANGED <<sourcePointer, routePointer, during, readVars>>
  BY <1>5 DEF BeginPublish, CreateRecord, FillRecord, KeepRecord, RefuseRecord,
     WriteScopePointer, EndPublish, StopPublish
<1>6. ASSUME ChangeEntry \/ \E l \in Locales : EditLocale(l)
      PROVE  UNCHANGED <<sourcePointer, routePointer, during, readVars>>
  BY <1>6 DEF EditLocale, ChangeEntry, pubVars
<1>7. CASE UNCHANGED vars
  BY <1>4, <1>7 DEF vars, pubVars
<1>8. QED
  BY <1>1, <1>2, <1>3, <1>4, <1>5, <1>6, <1>7 DEF Next, Publish

\* Seven files, two pointers and readers without a lock are one atomic register, for
\* any number of publishers, readers and routes, interrupted anywhere.
THEOREM ImplementsRegister == Spec => IsRouteRegister
<1>1. Init => Register!RegisterInit
  <2> SUFFICES ASSUME Init
               PROVE  Register!RegisterInit
    OBVIOUS
  <2>1. CurrentRoute = None /\ Busy = {}
    BY DEF Init, CurrentRoute, Coherent, Busy
  <2>2. [q \in Readers |-> SeenBy(q)] = [q \in Readers |-> {}]
    BY <2>1 DEF SeenBy
  <2>3. QED
    BY <2>1, <2>2 DEF Init, Register!RegisterInit
<1>2. TypeOK /\ TypeOK' /\ RouteInv /\ [Next]_vars
         => [Register!RegisterNext]_(Register!registerVars)
  BY RegisterStep
<1>3. QED
  BY <1>1, <1>2, RouteTypes, RouteInvariant, PTL
     DEF Spec, IsRouteRegister, Register!RegisterSpec

=============================================================================
