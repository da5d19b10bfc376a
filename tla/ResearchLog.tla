----------------------------- MODULE ResearchLog -----------------------------
(* What recorded browsing promises to the stages that cite its evidence: one  *)
(* log per session that is appended to until it ends, and nothing after its   *)
(* end; an ended log may be sealed, once and for good, and the seal is of all *)
(* of it.  BrowseSession implements it with commands that race, drivers that  *)
(* die and a publication of three files.                                      *)
EXTENDS SequencesExt

CONSTANTS Sessions, Endings, None

VARIABLES
    published,  \* published[s]: the events of session s
    sealOf      \* sealOf[s]: the log that was sealed, or None

logVars == <<published, sealOf>>

LogInit ==
    /\ published = [s \in Sessions |-> <<>>]
    /\ sealOf = [s \in Sessions |-> None]

HasEnded(s) == published[s] # <<>> /\ published[s][Len(published[s])] \in Endings

\* Some events more, of one session that goes on.
Extend(s) ==
    /\ ~HasEnded(s) /\ sealOf[s] = None
    /\ IsPrefix(published[s], published'[s])
    /\ published' = [published EXCEPT ![s] = published'[s]]
    /\ UNCHANGED sealOf

Seal(s) ==
    /\ HasEnded(s) /\ sealOf[s] = None
    /\ sealOf' = [sealOf EXCEPT ![s] = published[s]]
    /\ UNCHANGED published

LogNext == \E s \in Sessions : Extend(s) \/ Seal(s)

LogSpec == LogInit /\ [][LogNext]_logVars

=============================================================================
