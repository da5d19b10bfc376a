---------------------------- MODULE LearningRules ----------------------------
(***************************************************************************)
(* What a user's projects learn (core/learning): predictions and their      *)
(* observations stay in a project; `omd learn promote` evaluates them and   *)
(* puts its conclusions into one index of all the user's projects, which    *)
(* the routes of any project read.                                          *)
(*                                                                         *)
(* The index is read, changed in memory and replaced by a rename, without a *)
(* lock.  A promotion that cannot write it writes an index of its project,  *)
(* which is read only where there is no readable index of the user.         *)
(***************************************************************************)
EXTENDS Naturals

CONSTANTS
    Promoters,          \* processes that promote
    Projects,
    NoProject,          \* of a process that does not promote
    Propositions,       \* how many: the ids are the same in every project
    MaxNotes,           \* bound on the notes taken
    MaxPromotions       \* bound on the promotions started

ASSUME LearningAssumption ==
    /\ {Propositions, MaxNotes, MaxPromotions} \subseteq Nat
    /\ NoProject \notin Projects

Ids == 1..Propositions

VARIABLES
    notes,          \* notes[q][i]: prediction, judgment and observations of i in project q
    learnings,      \* learnings[q][i]: .omd/coach/learnings/<i>.json, what was last said of i
    userIndex,      \* learning-v1/rules.json: a set of entries, empty if absent
    projectIndex,   \* projectIndex[q]: .omd/learning/rules-index.json
    promoting,      \* promoting[p]: the local state of a promotion
    noteCount,      \* notes taken
    promotions,     \* promotions started
    crossed,        \* have two promotions been under way at once?
    concluded       \* the latest conclusion on each id that reached the user's index

learningVars == <<notes, learnings, userIndex, projectIndex, promoting, noteCount,
                  promotions, crossed, concluded>>
indexVars == <<userIndex, projectIndex, concluded>>
historyVars == <<promotions, crossed>>

Entries == [id : Ids, status : {"promoted", "contradicted"}, project : Projects]

\* Replaces what `index` says of the ids of `news`.
Update(index, news) == {e \in index : \A n \in news : n.id # e.id} \cup news

\* Observations are never removed: `missed` if one contradicts, `blocked` if one is
\* too old or not independent of another, `replayed` if two are of one browser
\* observation.
Predicted == [judged |-> "none", hits |-> 0,
              missed |-> FALSE, blocked |-> FALSE, replayed |-> FALSE]

Resting == [at |-> "idle", project |-> NoProject, store |-> "open",
            opened |-> FALSE, lost |-> FALSE, index |-> {}, next |-> 1, news |-> {}]

\* What the projects may have noted before anything is promoted.
LearningInit ==
    /\ notes \in [Projects -> [Ids -> {[Predicted EXCEPT !.judged = j, !.hits = 2]
                                         : j \in {"none", "current"}}]]
    /\ learnings = [q \in Projects |-> [i \in Ids |-> "none"]]
    /\ userIndex = {} /\ projectIndex = [q \in Projects |-> {}]
    /\ promoting = [p \in Promoters |-> Resting]
    /\ noteCount = 0 /\ promotions = 0
    /\ crossed = FALSE /\ concluded = {}

-----------------------------------------------------------------------------
(* Notes of a project (omd learn predict, judge and observe).              *)

Note(q, i, note) ==
    /\ noteCount < MaxNotes /\ noteCount' = noteCount + 1
    /\ notes' = [notes EXCEPT ![q][i] = note]
    /\ UNCHANGED <<learnings, indexVars, promoting, historyVars>>

\* Another statement for the same decision: what was judged is no longer said.
Predict(q, i) ==
    Note(q, i, [notes[q][i] EXCEPT !.judged = IF @ = "none" THEN @ ELSE "stale"])

JudgeLearning(q, i) == Note(q, i, [notes[q][i] EXCEPT !.judged = "current"])

\* An observation is evaluated alone before it is filed: a stale judgment refuses
\* it, and what it repeats of others is not seen.
Observe(q, i) ==
    /\ notes[q][i].judged # "stale"
    /\ \/ Note(q, i, [notes[q][i] EXCEPT !.hits = IF @ < 2 THEN @ + 1 ELSE @])
       \/ Note(q, i, [notes[q][i] EXCEPT !.missed = TRUE])
       \/ notes[q][i].hits > 0 /\ Note(q, i, [notes[q][i] EXCEPT !.blocked = TRUE])
       \/ /\ notes[q][i].hits > 0 \/ notes[q][i].missed
          /\ Note(q, i, [notes[q][i] EXCEPT !.replayed = TRUE])

\* Two weeks later no observation counts as evidence of a rule.
Age(q, i) ==
    /\ notes[q][i].hits > 0 \/ notes[q][i].missed
    /\ Note(q, i, [notes[q][i] EXCEPT !.blocked = TRUE])

-----------------------------------------------------------------------------
(* promoteLearnings.                                                       *)

Put(p, w) == promoting' = [promoting EXCEPT ![p] = w]
Rest(p) == Put(p, Resting)

\* Mutant of Current: the index of the project is looked at first.
CurrentProjectFirst(q, readable) ==
    IF projectIndex[q] = {} /\ readable THEN userIndex ELSE projectIndex[q]

\* currentIndex: the user's, or the project's where it is absent or unreadable.
Current(q, readable) ==
    IF readable /\ userIndex # {} THEN userIndex ELSE projectIndex[q]

\* The index is opened.  The user's store is open, or cannot be written, or is not
\* there, or its directory cannot be flushed after the rename.
StartPromotion(p, q) ==
    /\ promoting[p].at = "idle" /\ promotions < MaxPromotions
    /\ \E store \in {"open", "readonly", "absent", "unflushed"} :
          Put(p, [at |-> "read", project |-> q, store |-> store,
                  opened |-> store # "absent" /\ userIndex # {}, lost |-> FALSE,
                  index |-> Current(q, store # "absent"), next |-> 1, news |-> {}])
    /\ promotions' = promotions + 1
    /\ crossed' = (crossed \/ \E r \in Promoters : promoting[r].at # "idle")
    /\ UNCHANGED <<notes, noteCount, learnings, indexVars>>

\* readStable: an index that was replaced meanwhile is not readable.
ReadIndex(p) ==
    LET w == promoting[p] IN
    /\ w.at = "read"
    /\ Put(p, [w EXCEPT !.at = "evaluate",
                        !.index = IF w.lost THEN projectIndex[w.project] ELSE @])
    /\ UNCHANGED <<notes, noteCount, learnings, indexVars, historyVars>>

\* evaluateValidatedLearning: what it concludes, or "throws".  A stale judgment
\* throws wherever there is something to evaluate, a missing one only when it would
\* have to carry a rule.
Verdict(note) ==
    IF note.hits = 0 /\ ~note.missed THEN "nothing"
    ELSE IF note.judged = "stale" \/ note.replayed THEN "throws"
    ELSE IF note.missed THEN "contradicted"
    ELSE IF note.blocked \/ note.hits < 2 THEN "candidate"
    ELSE IF note.judged = "current" THEN "promoted" ELSE "throws"

\* The next prediction of the project, in the order of the ids; one that throws ends
\* the promotion, with what the earlier ones concluded.
Evaluate(p) ==
    LET w == promoting[p]
        says == Verdict(notes[w.project][w.next])
        entry == [id |-> w.next, status |-> says, project |-> w.project]
        news == IF says \in {"promoted", "contradicted"} THEN {entry} ELSE {}
    IN
    /\ w.at = "evaluate" /\ w.next \in Ids
    /\ IF says = "throws"
         THEN Rest(p)
         ELSE Put(p, [w EXCEPT !.next = @ + 1, !.news = @ \cup news,
                               !.index = Update(@, news)])
    /\ learnings' = IF says \in {"nothing", "throws"} THEN learnings
                    ELSE [learnings EXCEPT ![w.project][w.next] = says]
    /\ UNCHANGED <<notes, noteCount, indexVars, historyVars>>

\* writeUserLearningRuleIndex renames a complete file over the index: who has opened
\* the old one and not read it loses it.
ReplaceUserIndex(p) ==
    LET w == promoting[p] IN
    /\ userIndex' = w.index
    /\ concluded' = Update(concluded, w.news)
    /\ promoting' = [r \in Promoters |->
         IF r = p THEN Resting
         ELSE [promoting[r] EXCEPT !.lost = @ \/ (promoting[r].opened /\ promoting[r].at = "read")]]

SaveIndex(p) ==
    LET w == promoting[p] IN
    /\ w.at = "evaluate" /\ w.next \notin Ids
    /\ IF w.news # {} /\ w.store \in {"open", "unflushed"}
         THEN ReplaceUserIndex(p)
         ELSE Rest(p) /\ UNCHANGED <<userIndex, concluded>>
    /\ projectIndex' = IF w.news # {} /\ w.store # "open"
                         THEN [projectIndex EXCEPT ![w.project] = w.index]
                         ELSE projectIndex
    /\ UNCHANGED <<notes, noteCount, learnings, historyVars>>

\* A promotion is killed; its temporary file is never looked at.
KillPromotion(p) ==
    /\ promoting[p].at # "idle"
    /\ Rest(p)
    /\ UNCHANGED <<notes, noteCount, learnings, indexVars, historyVars>>

LearningNext ==
    \/ \E q \in Projects, i \in Ids : Predict(q, i) \/ JudgeLearning(q, i) \/ Observe(q, i) \/ Age(q, i)
    \/ \E p \in Promoters, q \in Projects : StartPromotion(p, q)
    \/ \E p \in Promoters : ReadIndex(p) \/ Evaluate(p) \/ SaveIndex(p) \/ KillPromotion(p)

LearningSpec == LearningInit /\ [][LearningNext]_learningVars

-----------------------------------------------------------------------------
(* Properties.                                                             *)

\* While promotions take turns, what the last one said of each proposition is what
\* the user's index says: whichever projects promote after it, with whatever store,
\* and wherever one of them throws or is killed (promoteLearnings).
ConclusionsInTurn == ~crossed => concluded \subseteq userIndex

=============================================================================
